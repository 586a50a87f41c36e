----------------------------- MODULE OneAtATime -----------------------------
(***************************************************************************)
(* What a rolling update promises: hosts are taken out of service one at a *)
(* time, packages are replaced only on the host that is out, and that host *)
(* is put back before the next one is taken.                               *)
(***************************************************************************)
CONSTANT Hosts

VARIABLES
  out,     \* hosts out of service
  updated  \* hosts whose packages were replaced

Init == out = {} /\ updated = {}

Take(h)   == out = {} /\ out' = {h} /\ UNCHANGED updated
Update(h) == h \in out /\ updated' = updated \cup {h} /\ UNCHANGED out
Return(h) == out = {h} /\ out' = {} /\ UNCHANGED updated

Next == \E h \in Hosts : Take(h) \/ Update(h) \/ Return(h)

Spec == Init /\ [][Next]_<<out, updated>>

=============================================================================
