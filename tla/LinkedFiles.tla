---------------------------- MODULE LinkedFiles ----------------------------
(***************************************************************************)
(* What an upgrade with hard links promises of every host.  The two        *)
(* versions share files from the linking on; whichever is started first    *)
(* writes to them, and the other must not run on them afterwards.  The old *)
(* version's directory is dropped only while the new version runs.         *)
(***************************************************************************)
CONSTANT Hosts

VARIABLES
  server,  \* the version that runs on a host: "none", "old", "new"
  files    \* "apart", "untouched": shared and not yet written to, "old",
           \* "new": written to by that version, "dropped"

Init ==
  /\ server = [h \in Hosts |-> "old"]
  /\ files  = [h \in Hosts |-> "apart"]

Becomes(h, version, state) == server'[h] = version /\ files'[h] = state

Link(h)  == server[h] = "none" /\ files[h] = "apart" /\ Becomes(h, "none", "untouched")
Clear(h) == server[h] # "new" /\ files[h] # "new" /\ Becomes(h, server[h], "apart")
Stop(h)  == Becomes(h, "none", files[h])
Drop(h)  == server[h] = "new" /\ files[h] = "new" /\ Becomes(h, "new", "dropped")

StartOld(h) ==
  /\ server[h] = "none"
  /\ \/ files[h] = "apart" /\ Becomes(h, "old", "apart")
     \/ files[h] \in {"untouched", "old"} /\ Becomes(h, "old", "old")

StartNew(h) ==
  /\ server[h] = "none"
  /\ \/ files[h] \in {"apart", "dropped"} /\ Becomes(h, "new", files[h])
     \/ files[h] \in {"untouched", "new"} /\ Becomes(h, "new", "new")

Step(h) ==
  Link(h) \/ Clear(h) \/ Stop(h) \/ Drop(h) \/ StartOld(h) \/ StartNew(h)

(* Hosts are dealt with one by one or many at once.                        *)
Next == \A h \in Hosts : Step(h) \/ Becomes(h, server[h], files[h])

Spec == Init /\ [][Next]_<<server, files>>

=============================================================================
