----------------------- MODULE RollingUpdate_proofs -----------------------
(***************************************************************************)
(* Proofs about RollingUpdate, for any inventory and any number of         *)
(* failures and accidents: type correctness, that a report of success is   *)
(* true, that a run implements OneAtATime, and that it leaves a replica to *)
(* read from and to lead.                                                  *)
(***************************************************************************)
EXTENDS RollingUpdate, FiniteSetTheorems, TLAPS

(***************************************************************************)
(* The inductive invariant.                                                *)
(***************************************************************************)

(* Where the playbook is with its groups. *)
PlaceInv ==
  /\ primary \notin secondary
  /\ pc = "pre_checks" => todo = secondary
  /\ pc \in HostTasks =>
       \/ host = primary /\ todo = {}
       \/ host \in secondary \ todo
  /\ pc \in SwitchoverTasks \cup {"post_update"} =>
       host = primary /\ todo = {}
  /\ pc \notin {"idle", "pre_checks"} => primary \in Hosts

(* Hosts the playbook is through with. *)
Done ==
  CASE pc = "next_host" -> secondary \ todo
    [] pc \in HostTasks \cup SwitchoverTasks -> (secondary \ todo) \ {host}
    [] pc = "post_update" \/ report = "completed" -> secondary \cup {primary}
    [] OTHER -> {}

DoneInv ==
  /\ Done \subseteq (current \cup failed \cup stale) \ edited
  /\ pc \in {"reboot", "start"} => host \in installed \cup failed \cup stale
  /\ pc \in {"await_health", "untag", "reload_again", "await_200"} =>
       host \in current \cup failed \cup stale
  /\ pc \in {"reload_again", "await_200"} => host \notin edited
  /\ report = "completed" => pc = "idle" /\ failed = {}

(* Tasks on a host that is out of service, and those on one that is down.  *)
DownTasks == {"install", "reboot", "start"}
OutTasks  == {"reload", "await_503", "drain", "isready", "stop", "await_health", "untag"}
             \cup DownTasks

(* In the first run. *)
OutInv ==
  /\ stopped \subseteq edited
  /\ pc \in OutTasks => edited = {host}
  /\ pc \in OutTasks \ DownTasks => stopped = {}
  /\ pc \notin OutTasks \cup {"idle"} => edited = {}
  /\ runs = 0 => pc = "idle" /\ edited = {}

Inv == TypeOK /\ PlaceInv /\ DoneInv

-----------------------------------------------------------------------------
(***************************************************************************)
(* Type correctness and the playbook's place.                              *)
(***************************************************************************)

HostsOK ==
  /\ leader \in up \cup {None}
  /\ up \subseteq Hosts /\ stopped \subseteq Hosts \ up
  /\ edited \subseteq Hosts /\ loaded \subseteq Hosts
  /\ current \subseteq installed /\ installed \subseteq Hosts
  /\ failed \subseteq Hosts /\ stale \subseteq Hosts

ControlOK ==
  /\ pc \in Tasks
  /\ host \in Hosts \cup {None} /\ primary \in Hosts \cup {None}
  /\ todo \subseteq secondary /\ secondary \subseteq Hosts
  /\ report \in {"none", "completed", "with_errors", "aborted"}
  /\ runs \in 0..MaxRuns /\ faults \in 0..MaxFaults /\ accidents \in 0..MaxAccidents

(* TypeOK in two parts: what tasks do to hosts, and where the playbook is. *)
LEMMA TypeParts ==
  /\ TypeOK <=> HostsOK /\ ControlOK
  /\ TypeOK' <=> HostsOK' /\ ControlOK'
  BY DEF TypeOK, HostsOK, ControlOK

(* What Unless and GoTo do: the next task, or the end of the run.          *)
MovesTo(t) ==
  /\ UNCHANGED <<primary, secondary, todo>>
  /\ \/ pc' = t /\ host' = host /\ report' = report
     \/ pc' = "idle" /\ host' = None /\ report' = "aborted"

(* A task that goes on has met its condition, and counts at most a failure.*)
LEMMA UnlessMoves ==
  ASSUME NEW condition, NEW t, Unless(condition, t)
  PROVE  /\ MovesTo(t)
         /\ faults' = faults \/ Fault
         /\ pc' # "idle" => condition
  BY DEF Unless, MovesTo, GoTo, Abort, Ok, Fault

(* A task that fails is counted, within the bound.                         *)
LEMMA FaultCounted ==
  ASSUME ControlOK, faults' = faults \/ Fault
  PROVE  faults' \in 0..MaxFaults
  BY ConstantsAssumption DEF ControlOK, Fault

(* Within one host, and from the switchover to the old primary.            *)
LEMMA MovesWithin ==
  ASSUME ControlOK, PlaceInv, NEW t, MovesTo(t), faults' = faults \/ Fault,
         UNCHANGED <<runs, accidents>>,
         \/ pc \in HostTasks /\ t \in HostTasks
         \/ pc \in SwitchoverTasks /\ t \in SwitchoverTasks \cup {"tag"}
  PROVE  (ControlOK /\ PlaceInv)'
<1>1. faults' \in 0..MaxFaults
  BY FaultCounted
<1>2. /\ t \in Tasks /\ "idle" \in Tasks
      /\ t # "next_host" /\ t # "post_update" /\ t # "pre_checks"
  BY DEF Tasks, PreparatoryTasks, HostTasks, SwitchoverTasks
<1>3. /\ "idle" \notin HostTasks \cup SwitchoverTasks \cup {"post_update", "next_host"}
      /\ pc \notin {"idle", "pre_checks"}
  BY DEF HostTasks, SwitchoverTasks
<1>4. t \in HostTasks => t \notin SwitchoverTasks
  BY DEF HostTasks, SwitchoverTasks
<1>5. "tag" \in HostTasks
  BY DEF HostTasks
<1>6. QED
  BY <1>1, <1>2, <1>3, <1>4, <1>5 DEF ControlOK, PlaceInv, MovesTo

(* A cluster in order and no playbook running.                             *)
LEMMA PlaceInit == Init => HostsOK /\ ControlOK /\ PlaceInv
  BY ConstantsAssumption
     DEF Init, HostsOK, ControlOK, PlaceInv, Tasks, PreparatoryTasks, SwitchoverTasks,
         HostTasks

(* One step per task. *)
LEMMA ControlStep == ControlOK /\ HostsOK /\ PlaceInv /\ [Next]_vars => (ControlOK /\ PlaceInv)'
<1> SUFFICES ASSUME ControlOK, HostsOK, PlaceInv, [Next]_vars
             PROVE  (ControlOK /\ PlaceInv)'
  OBVIOUS
<1>1. CASE CheckLeader
  BY <1>1, MovesWithin, UnlessMoves DEF CheckLeader, Task, HostTasks, SwitchoverTasks
<1>2. CASE AwaitReplica
  BY <1>2, MovesWithin, UnlessMoves DEF AwaitReplica, Task, HostTasks, SwitchoverTasks
<1>3. CASE EditTags
  BY <1>3, MovesWithin, UnlessMoves DEF EditTags, Task, HostTasks, SwitchoverTasks
<1>4. CASE ReloadTags
  BY <1>4, MovesWithin, UnlessMoves DEF ReloadTags, Reload, Task, HostTasks, SwitchoverTasks
<1>5. CASE AwaitNoReplica
  BY <1>5, MovesWithin, UnlessMoves DEF AwaitNoReplica, Task, HostTasks, SwitchoverTasks
<1>6. CASE DrainTransactions
  BY <1>6, MovesWithin, UnlessMoves DEF DrainTransactions, Task, HostTasks, SwitchoverTasks
<1>7. CASE CheckReady
  BY <1>7, MovesWithin, UnlessMoves DEF CheckReady, Task, HostTasks, SwitchoverTasks
<1>8. CASE StopServices
  BY <1>8, MovesWithin, UnlessMoves DEF StopServices, Task, HostTasks, SwitchoverTasks
<1>9. CASE Reboot
  BY <1>9, MovesWithin, UnlessMoves DEF Reboot, Task, HostTasks, SwitchoverTasks
<1>10. CASE StartServices
  BY <1>10, MovesWithin, UnlessMoves DEF StartServices, Task, HostTasks, SwitchoverTasks
<1>11. CASE AwaitHealth
  BY <1>11, MovesWithin, UnlessMoves DEF AwaitHealth, Task, HostTasks, SwitchoverTasks
<1>12. CASE ClearTags
  BY <1>12, MovesWithin, UnlessMoves DEF ClearTags, Task, HostTasks, SwitchoverTasks
<1>13. CASE ReloadAgain
  BY <1>13, MovesWithin, UnlessMoves DEF ReloadAgain, Reload, Task, HostTasks, SwitchoverTasks
<1>14. CASE FirstSwitchover
  <2>1. \E t \in SwitchoverTasks \cup {"tag"} : MovesTo(t)
    BY <1>14 DEF FirstSwitchover, Switchover, MovesTo, GoTo, SwitchoverTasks
  <2>2. QED
    BY <1>14, <2>1, MovesWithin DEF FirstSwitchover, Switchover, Task, Ok, SwitchoverTasks
<1>15. CASE RetrySwitchover
  <2>1. \E t \in SwitchoverTasks \cup {"tag"} : MovesTo(t)
    BY <1>15 DEF RetrySwitchover, Switchover, MovesTo, GoTo, SwitchoverTasks
  <2>2. QED
    BY <1>15, <2>1, MovesWithin DEF RetrySwitchover, Switchover, Task, Ok, SwitchoverTasks
<1>16. CASE RecheckLeader
  <2>1. \E t \in SwitchoverTasks \cup {"tag"} : MovesTo(t)
    BY <1>16 DEF RecheckLeader, Switchover, MovesTo, GoTo, SwitchoverTasks
  <2>2. QED
    BY <1>16, <2>1, MovesWithin DEF RecheckLeader, Switchover, Task, Ok, SwitchoverTasks
<1>17. CASE InstallPackages
  <2>1. MovesTo("reboot")
    BY <1>17 DEF InstallPackages, Refreshed, KeptStale, NotInstalled, MovesTo, GoTo
  <2>2. QED
    BY <1>17, <2>1, MovesWithin DEF InstallPackages, Refreshed, KeptStale, NotInstalled, Task, Ok, HostTasks
<1>18. CASE StartPlaybook
  <2>1. runs' \in 0..MaxRuns /\ faults' = faults /\ accidents' = accidents
    BY <1>18, ConstantsAssumption DEF StartPlaybook, ControlOK
  <2>2. pc' \in {"idle", "pre_checks"} /\ host' = None /\ report' \in {"none", "aborted"}
    BY <1>18 DEF StartPlaybook
  <2>3. \/ pc' = "idle" /\ UNCHANGED <<primary, secondary, todo>>
        \/ /\ primary' = leader /\ leader \in Hosts
           /\ secondary' = up \ {leader} /\ todo' = secondary'
    BY <1>18 DEF StartPlaybook, HostsOK
  <2>4. QED
    BY <2>1, <2>2, <2>3
       DEF ControlOK, HostsOK, PlaceInv, Tasks, PreparatoryTasks, HostTasks, SwitchoverTasks
<1>19. CASE PreChecks
  <2>1. /\ MovesTo("next_host")
        /\ pc' # "idle" => primary \in up
        /\ faults' = faults \/ Fault
    BY <1>19, UnlessMoves DEF PreChecks
  <2>2. faults' \in 0..MaxFaults /\ UNCHANGED <<runs, accidents>>
    BY <1>19, <2>1, FaultCounted DEF PreChecks, Task
  <2>3. QED
    BY <1>19, <2>1, <2>2
       DEF MovesTo, ControlOK, HostsOK, PlaceInv, Tasks, PreparatoryTasks, HostTasks,
           SwitchoverTasks
<1>20. CASE NextHost
  BY <1>20, ConstantsAssumption
     DEF NextHost, ControlOK, HostsOK, PlaceInv, Task, Unless, GoTo, Abort, Ok, Fault,
         Tasks, PreparatoryTasks, HostTasks, SwitchoverTasks
<1>21. CASE AwaitTraffic
  <2>1. /\ MovesTo(IF host = primary THEN "post_update" ELSE "next_host")
        /\ faults' = faults \/ Fault
    BY <1>21, UnlessMoves DEF AwaitTraffic
  <2>2. faults' \in 0..MaxFaults /\ UNCHANGED <<runs, accidents>>
    BY <1>21, <2>1, FaultCounted DEF AwaitTraffic, Task
  <2>3. pc \in HostTasks
    BY <1>21 DEF AwaitTraffic, Task, HostTasks
  <2>4. primary \in Hosts
    BY <2>3 DEF PlaceInv, HostTasks
  <2>5. QED
    BY <2>1, <2>2, <2>3, <2>4
       DEF MovesTo, ControlOK, PlaceInv, Tasks, PreparatoryTasks, HostTasks, SwitchoverTasks
<1>22. CASE PostUpdate
  <2>1. /\ pc' = "idle" /\ host' = None /\ UNCHANGED <<primary, secondary, todo>>
        /\ report' \in {"completed", "with_errors", "aborted"}
        /\ faults' = faults \/ Fault
        /\ UNCHANGED <<runs, accidents>>
    BY <1>22 DEF PostUpdate, Task, Abort, Ok
  <2>2. faults' \in 0..MaxFaults
    BY <2>1, FaultCounted
  <2>3. QED
    BY <2>1, <2>2
       DEF ControlOK, PlaceInv, Tasks, PreparatoryTasks, HostTasks, SwitchoverTasks
<1>23. CASE Elect \/ LoseLeadership \/ \E h \in Hosts : Crash(h) \/ Recover(h)
  <2>1. /\ UNCHANGED <<pc, host, primary, secondary, todo, report, runs, faults>>
        /\ accidents' = accidents \/ Accident
    BY <1>23 DEF Elect, LoseLeadership, Crash, Recover, PatroniStep, playVars
  <2>2. accidents' \in 0..MaxAccidents
    BY <2>1, ConstantsAssumption DEF Accident, ControlOK
  <2>3. QED
    BY <2>1, <2>2 DEF ControlOK, PlaceInv
<1>24. CASE UNCHANGED vars
  BY <1>24 DEF vars, ControlOK, PlaceInv
<1>25. QED
  BY <1>1, <1>2, <1>3, <1>4, <1>5, <1>6, <1>7, <1>8, <1>9, <1>10, <1>11, <1>12, <1>13,
     <1>14, <1>15, <1>16, <1>17, <1>18, <1>19, <1>20, <1>21, <1>22, <1>23, <1>24 DEF Next, Playbook

(* What the tasks do to the hosts, and Patroni on its own.                 *)
LEMMA HostsStep == HostsOK /\ ControlOK /\ PlaceInv /\ [Next]_vars => HostsOK'
<1> SUFFICES ASSUME HostsOK, ControlOK, PlaceInv, [Next]_vars PROVE HostsOK'
  OBVIOUS
<1>1. pc \in HostTasks => host \in Hosts
  BY DEF PlaceInv, ControlOK, HostTasks
<1>2. CASE EditTags \/ ClearTags
  BY <1>1, <1>2 DEF EditTags, ClearTags, Task, HostTasks, HostsOK, packageVars
<1>3. CASE ReloadTags \/ ReloadAgain
  BY <1>1, <1>3 DEF ReloadTags, ReloadAgain, Reload, Task, HostTasks, HostsOK, packageVars
<1>4. CASE StopServices
  BY <1>1, <1>4 DEF StopServices, Task, HostTasks, HostsOK, packageVars
<1>5. CASE InstallPackages
  BY <1>1, <1>5 DEF InstallPackages, Refreshed, KeptStale, NotInstalled, Task, HostTasks, HostsOK, patroniVars
<1>6. CASE Reboot \/ StartServices
  BY <1>1, <1>6 DEF Reboot, StartServices, ComesUp, Task, HostTasks, HostsOK
<1>7. CASE FirstSwitchover \/ RetrySwitchover
  BY <1>7 DEF FirstSwitchover, RetrySwitchover, Switchover, Candidates, HostsOK, packageVars
<1>8. CASE \/ PreChecks \/ NextHost \/ CheckLeader \/ RecheckLeader \/ AwaitReplica
           \/ AwaitNoReplica \/ DrainTransactions \/ CheckReady \/ AwaitHealth
           \/ AwaitTraffic \/ PostUpdate \/ UNCHANGED vars
  BY <1>8 DEF PreChecks, NextHost, CheckLeader, RecheckLeader, AwaitReplica, AwaitNoReplica,
              DrainTransactions, CheckReady, AwaitHealth, AwaitTraffic, PostUpdate, vars,
              patroniVars, packageVars, HostsOK
<1>9. CASE StartPlaybook
  BY <1>9 DEF StartPlaybook, patroniVars, HostsOK
<1>10. CASE Elect \/ LoseLeadership
  BY <1>10 DEF Elect, LoseLeadership, Candidates, PatroniStep, HostsOK
<1>11. ASSUME NEW h \in Hosts, Crash(h) PROVE HostsOK'
  BY <1>11 DEF Crash, PatroniStep, HostsOK
<1>12. ASSUME NEW h \in Hosts, Recover(h) PROVE HostsOK'
  BY <1>12 DEF Recover, ComesUp, PatroniStep, HostsOK
<1>13. QED
  BY <1>2, <1>3, <1>4, <1>5, <1>6, <1>7, <1>8, <1>9, <1>10, <1>11, <1>12
     DEF Next, Playbook

(* The state is well typed, and each play works on the hosts of its group. *)
LEMMA PlaceInductive == Spec => [](HostsOK /\ ControlOK /\ PlaceInv)
<1>1. HostsOK /\ ControlOK /\ PlaceInv /\ [Next]_vars => (HostsOK /\ ControlOK /\ PlaceInv)'
  BY ControlStep, HostsStep
<1>2. QED
  BY <1>1, PlaceInit, PTL DEF Spec

(* Every reachable state is well typed.                                    *)
THEOREM TypeCorrect == Spec => []TypeOK
  BY PlaceInductive, TypeParts, PTL

-----------------------------------------------------------------------------
(***************************************************************************)
(* A report of success is true.                                            *)
(***************************************************************************)

(* Before the first run no host is done.                                   *)
LEMMA DoneInit == Init => DoneInv
  BY DEF Init, DoneInv, Done, HostTasks, SwitchoverTasks

(* The hosts that are through depend on the playbook's place alone, so the *)
(* tasks fall into three kinds: those that work on a host, those that pass *)
(* from one host to the next, and those of other actors.                   *)

(* A task may change its own host, and it may start servers.               *)
Undoes(h) ==
  /\ current \subseteq current' /\ failed \subseteq failed' /\ stale \ {h} \subseteq stale'
  /\ edited' \subseteq edited \cup {h}

(* A task of one host leaves the hosts before it as they are, also when it *)
(* is fatal.                                                               *)
LEMMA DoneWithin ==
  ASSUME ControlOK, PlaceInv, DoneInv, NEW t, MovesTo(t), Undoes(host),
         \/ pc \in HostTasks /\ t \in HostTasks
         \/ pc \in SwitchoverTasks /\ t \in SwitchoverTasks \cup {"tag"}
  PROVE  /\ (Done \subseteq (current \cup failed \cup stale) \ edited)'
         /\ (report = "completed" => pc = "idle" /\ failed = {})'
<1>1. /\ Done = (secondary \ todo) \ {host}
      /\ report # "completed"
  BY DEF Done, DoneInv, HostTasks, SwitchoverTasks
<1>2. \/ pc' = t /\ Done' = Done /\ report' # "completed"
      \/ pc' = "idle" /\ Done' = {} /\ report' # "completed"
  BY <1>1 DEF Done, MovesTo, HostTasks, SwitchoverTasks
<1>3. QED
  BY <1>1, <1>2 DEF DoneInv, Undoes

(* Installing, starting and untagging, in this order, is what being done   *)
(* takes.                                                                  *)
LEMMA DoneStep ==
  HostsOK /\ ControlOK /\ PlaceInv /\ DoneInv /\ [Next]_vars => DoneInv'
<1> SUFFICES ASSUME HostsOK, ControlOK, PlaceInv, DoneInv, [Next]_vars PROVE DoneInv'
  OBVIOUS
<1> USE DEF Task, HostTasks, SwitchoverTasks
<1>1. CASE CheckLeader
  <2>1. MovesTo("switchover") /\ Undoes(host)
    BY <1>1, UnlessMoves DEF CheckLeader, Undoes, patroniVars, packageVars
  <2>2. QED
    BY <1>1, <2>1, DoneWithin DEF CheckLeader, MovesTo, DoneInv, patroniVars, packageVars
<1>2. CASE AwaitReplica
  <2>1. MovesTo("tag") /\ Undoes(host)
    BY <1>2, UnlessMoves DEF AwaitReplica, Undoes, patroniVars, packageVars
  <2>2. QED
    BY <1>2, <2>1, DoneWithin DEF AwaitReplica, MovesTo, DoneInv, patroniVars, packageVars
<1>3. CASE EditTags
  <2>1. MovesTo("reload") /\ Undoes(host)
    BY <1>3, UnlessMoves DEF EditTags, Undoes, patroniVars, packageVars
  <2>2. QED
    BY <1>3, <2>1, DoneWithin DEF EditTags, MovesTo, DoneInv, patroniVars, packageVars
<1>4. CASE ReloadTags
  <2>1. MovesTo("await_503") /\ Undoes(host)
    BY <1>4, UnlessMoves DEF ReloadTags, Reload, Undoes, patroniVars, packageVars
  <2>2. QED
    BY <1>4, <2>1, DoneWithin DEF ReloadTags, Reload, MovesTo, DoneInv, patroniVars, packageVars
<1>5. CASE AwaitNoReplica
  <2>1. MovesTo("drain") /\ Undoes(host)
    BY <1>5, UnlessMoves DEF AwaitNoReplica, Undoes, patroniVars, packageVars
  <2>2. QED
    BY <1>5, <2>1, DoneWithin DEF AwaitNoReplica, MovesTo, DoneInv, patroniVars, packageVars
<1>6. CASE DrainTransactions
  <2>1. MovesTo("isready") /\ Undoes(host)
    BY <1>6, UnlessMoves DEF DrainTransactions, Undoes, patroniVars, packageVars
  <2>2. QED
    BY <1>6, <2>1, DoneWithin DEF DrainTransactions, MovesTo, DoneInv, patroniVars, packageVars
<1>7. CASE CheckReady
  <2>1. MovesTo("stop") /\ Undoes(host)
    BY <1>7, UnlessMoves DEF CheckReady, Undoes, patroniVars, packageVars
  <2>2. QED
    BY <1>7, <2>1, DoneWithin DEF CheckReady, MovesTo, DoneInv, patroniVars, packageVars
<1>8. CASE StopServices
  <2>1. MovesTo("install") /\ Undoes(host)
    BY <1>8, UnlessMoves DEF StopServices, Undoes, patroniVars, packageVars
  <2>2. QED
    BY <1>8, <2>1, DoneWithin DEF StopServices, MovesTo, DoneInv, patroniVars, packageVars
<1>9. CASE Reboot
  <2>1. MovesTo("start") /\ Undoes(host)
    BY <1>9, UnlessMoves DEF Reboot, ComesUp, Undoes, patroniVars, packageVars
  <2>2. QED
    BY <1>9, <2>1, DoneWithin DEF Reboot, ComesUp, MovesTo, DoneInv, patroniVars, packageVars
<1>10. CASE StartServices
  <2>1. MovesTo("await_health") /\ Undoes(host)
    BY <1>10, UnlessMoves DEF StartServices, ComesUp, Undoes, patroniVars, packageVars
  <2>2. QED
    BY <1>10, <2>1, DoneWithin DEF StartServices, ComesUp, MovesTo, DoneInv, patroniVars, packageVars
<1>11. CASE AwaitHealth
  <2>1. MovesTo("untag") /\ Undoes(host)
    BY <1>11, UnlessMoves DEF AwaitHealth, Undoes, patroniVars, packageVars
  <2>2. QED
    BY <1>11, <2>1, DoneWithin DEF AwaitHealth, MovesTo, DoneInv, patroniVars, packageVars
<1>12. CASE ClearTags
  <2>1. MovesTo("reload_again") /\ Undoes(host)
    BY <1>12, UnlessMoves DEF ClearTags, Undoes, patroniVars, packageVars
  <2>2. QED
    BY <1>12, <2>1, DoneWithin DEF ClearTags, MovesTo, DoneInv, patroniVars, packageVars
<1>13. CASE ReloadAgain
  <2>1. MovesTo("await_200") /\ Undoes(host)
    BY <1>13, UnlessMoves DEF ReloadAgain, Reload, Undoes, patroniVars, packageVars
  <2>2. QED
    BY <1>13, <2>1, DoneWithin DEF ReloadAgain, Reload, MovesTo, DoneInv, patroniVars, packageVars
<1>14. CASE FirstSwitchover
  <2>1. \E t \in SwitchoverTasks \cup {"tag"} : MovesTo(t)
    BY <1>14 DEF FirstSwitchover, Switchover, MovesTo, GoTo
  <2>2. Undoes(host)
    BY <1>14 DEF FirstSwitchover, Switchover, Undoes, patroniVars, packageVars
  <2>3. QED
    BY <1>14, <2>1, <2>2, DoneWithin DEF FirstSwitchover, MovesTo, DoneInv
<1>15. CASE RetrySwitchover
  <2>1. \E t \in SwitchoverTasks \cup {"tag"} : MovesTo(t)
    BY <1>15 DEF RetrySwitchover, Switchover, MovesTo, GoTo
  <2>2. Undoes(host)
    BY <1>15 DEF RetrySwitchover, Switchover, Undoes, patroniVars, packageVars
  <2>3. QED
    BY <1>15, <2>1, <2>2, DoneWithin DEF RetrySwitchover, MovesTo, DoneInv
<1>16. CASE RecheckLeader
  <2>1. \E t \in SwitchoverTasks \cup {"tag"} : MovesTo(t)
    BY <1>16 DEF RecheckLeader, Switchover, MovesTo, GoTo
  <2>2. Undoes(host)
    BY <1>16 DEF RecheckLeader, Switchover, Undoes, patroniVars, packageVars
  <2>3. QED
    BY <1>16, <2>1, <2>2, DoneWithin DEF RecheckLeader, MovesTo, DoneInv
<1>17. CASE InstallPackages
  <2>1. MovesTo("reboot") /\ Undoes(host)
    BY <1>17 DEF InstallPackages, Refreshed, KeptStale, NotInstalled, MovesTo, GoTo, Undoes, patroniVars
  <2>2. host' \in installed' \cup failed' \cup stale'
    BY <1>17 DEF InstallPackages, Refreshed, KeptStale, NotInstalled, GoTo
  <2>3. QED
    BY <1>17, <2>1, <2>2, DoneWithin DEF InstallPackages, Refreshed, KeptStale, NotInstalled, MovesTo, DoneInv
<1>18. CASE StartPlaybook
  BY <1>18 DEF StartPlaybook, patroniVars, Done, DoneInv
<1>19. CASE PreChecks
  <2>1. todo = secondary
    BY <1>19 DEF PreChecks, PlaceInv
  <2>2. QED
    BY <1>19, <2>1, UnlessMoves DEF PreChecks, MovesTo, Done, DoneInv, patroniVars, packageVars
<1>20. CASE NextHost
  BY <1>20 DEF NextHost, ControlOK, PlaceInv, Done, DoneInv, patroniVars, packageVars
<1>21. CASE AwaitTraffic
  <2>1. MovesTo(IF host = primary THEN "post_update" ELSE "next_host")
    BY <1>21, UnlessMoves DEF AwaitTraffic
  <2>2. QED
    BY <1>21, <2>1 DEF AwaitTraffic, MovesTo, ControlOK, PlaceInv, Done, DoneInv, patroniVars, packageVars
<1>22. CASE PostUpdate
  BY <1>22 DEF PostUpdate, Abort, Done, DoneInv, patroniVars, packageVars
<1>23. CASE Elect \/ LoseLeadership \/ \E h \in Hosts : Crash(h) \/ Recover(h)
  <2>1. /\ UNCHANGED <<pc, host, primary, secondary, todo, report, edited, installed, failed, stale>>
        /\ current \subseteq current'
    BY <1>23 DEF Elect, LoseLeadership, Crash, Recover, ComesUp, PatroniStep, playVars
  <2>2. QED
    BY <2>1 DEF Done, DoneInv
<1>24. CASE UNCHANGED vars
  BY <1>24 DEF vars, Done, DoneInv
<1>25. QED
  BY <1>1, <1>2, <1>3, <1>4, <1>5, <1>6, <1>7, <1>8, <1>9, <1>10, <1>11, <1>12, <1>13,
     <1>14, <1>15, <1>16, <1>17, <1>18, <1>19, <1>20, <1>21, <1>22, <1>23, <1>24 DEF Next, Playbook

(* At any time the hosts that are through are updated, or noted as failed, *)
(* and untagged.                                                           *)
LEMMA DoneInductive == Spec => [](HostsOK /\ ControlOK /\ PlaceInv /\ DoneInv)
<1>1. /\ HostsOK /\ ControlOK /\ PlaceInv /\ DoneInv
      /\ [Next]_vars
      => (HostsOK /\ ControlOK /\ PlaceInv /\ DoneInv)'
  BY ControlStep, HostsStep, DoneStep
<1>2. QED
  BY <1>1, PlaceInit, DoneInit, PTL DEF Spec

(* However many tasks fail, and whatever Patroni does meanwhile, a run that *)
(* reports success has updated every host it counted and put it back.       *)
THEOREM ReportCorrect == Spec => []ReportIsTrue
<1>1. ControlOK /\ DoneInv => ReportIsTrue
  <2> SUFFICES ASSUME ControlOK, DoneInv, report = "completed"
               PROVE  \A h \in secondary \cup {primary} : h \in (current \cup stale) \ edited
    BY DEF ReportIsTrue
  <2>1. pc = "idle" /\ failed = {}
    BY DEF DoneInv
  <2>2. Done = secondary \cup {primary}
    BY <2>1 DEF Done, HostTasks, SwitchoverTasks
  <2>3. QED
    BY <2>1, <2>2 DEF DoneInv
<1>2. QED
  BY <1>1, DoneInductive, PTL

-----------------------------------------------------------------------------
(***************************************************************************)
(* One host at a time.  The argument is about a first run: a run that was  *)
(* aborted leaves its host tagged, and the next one may take another.      *)
(***************************************************************************)

(* Before the first run no host is out of service.                         *)
LEMMA OutInit == Init => OutInv /\ Service!Init
  BY DEF Init, OutInv, OutTasks, DownTasks, Service!Init

(* Tasks that leave tags, services and packages alone, and stay on their   *)
(* side of the line between hosts in and hosts out of service.             *)
LEMMA OutUndisturbed ==
  ASSUME OutInv, UNCHANGED <<edited, stopped, runs>>,
         \/ pc \notin OutTasks \cup {"idle"} /\ pc' \notin OutTasks
         \/ pc \in OutTasks /\ host' = host /\ pc' \in OutTasks /\ (pc' \in DownTasks <=> pc \in DownTasks)
         \/ pc \in OutTasks \cup {"idle"} /\ pc' = "idle" /\ runs # 0
         \/ UNCHANGED <<pc, host>>
  PROVE  OutInv'
  BY DEF OutInv, OutTasks, DownTasks

(* stop_traffic, stop_services, start_services and start_traffic change    *)
(* one host, the one at hand.                                              *)
LEMMA OutStep ==
  ASSUME MaxRuns = 1
  PROVE  ControlOK /\ PlaceInv /\ OutInv /\ [Next]_vars => OutInv'
<1> SUFFICES ASSUME ControlOK, PlaceInv, OutInv, [Next]_vars PROVE OutInv'
  OBVIOUS
<1> USE DEF Task, GoTo
<1>1. CASE \/ PreChecks \/ CheckLeader \/ FirstSwitchover \/ RecheckLeader
           \/ RetrySwitchover \/ AwaitReplica \/ ReloadAgain \/ AwaitTraffic
  <2>1. pc \notin OutTasks \cup {"idle"} /\ pc' \notin OutTasks
    BY <1>1 DEF PreChecks, CheckLeader, FirstSwitchover, RecheckLeader, RetrySwitchover,
                Switchover, AwaitReplica, ReloadAgain, Reload, AwaitTraffic, Unless, Abort,
                OutTasks, DownTasks
  <2>2. UNCHANGED <<edited, stopped, runs>>
    BY <1>1 DEF PreChecks, CheckLeader, FirstSwitchover, RecheckLeader, RetrySwitchover,
                Switchover, AwaitReplica, ReloadAgain, Reload, AwaitTraffic, patroniVars
  <2>3. QED
    BY <2>1, <2>2, OutUndisturbed
<1>2. CASE NextHost \/ PostUpdate
  <2>1. /\ pc \notin OutTasks \cup {"idle"} /\ pc' \notin OutTasks
        /\ UNCHANGED <<edited, stopped, runs>>
    BY <1>2 DEF NextHost, PostUpdate, Abort, patroniVars, OutTasks, DownTasks
  <2>2. QED
    BY <2>1, OutUndisturbed
<1>3. CASE ReloadTags \/ AwaitNoReplica \/ DrainTransactions \/ CheckReady
           \/ InstallPackages \/ AwaitHealth
  <2>1. /\ pc \in OutTasks
        /\ \/ host' = host /\ pc' \in OutTasks /\ (pc' \in DownTasks <=> pc \in DownTasks)
           \/ pc' = "idle"
    BY <1>3 DEF ReloadTags, Reload, AwaitNoReplica, DrainTransactions, CheckReady,
                InstallPackages, AwaitHealth, Unless, Abort, OutTasks, DownTasks
  <2>2. UNCHANGED <<edited, stopped, runs>>
    BY <1>3 DEF ReloadTags, Reload, AwaitNoReplica, DrainTransactions, CheckReady,
                InstallPackages, AwaitHealth, patroniVars
  <2>3. runs # 0
    BY <2>1 DEF OutInv, OutTasks, DownTasks
  <2>4. QED
    BY <2>1, <2>2, <2>3, OutUndisturbed
<1>4. CASE EditTags
  BY <1>4 DEF EditTags, Unless, Abort, OutInv, OutTasks, DownTasks
<1>5. CASE StopServices
  BY <1>5 DEF StopServices, Unless, Abort, OutInv, OutTasks, DownTasks
<1>6. CASE Reboot
  BY <1>6 DEF Reboot, ComesUp, Unless, Abort, OutInv, OutTasks, DownTasks
<1>7. CASE StartServices
  BY <1>7 DEF StartServices, ComesUp, Unless, Abort, OutInv, OutTasks, DownTasks
<1>8. CASE ClearTags
  BY <1>8 DEF ClearTags, Unless, Abort, OutInv, OutTasks, DownTasks
<1>9. CASE StartPlaybook
  <2>1. runs = 0 /\ runs' = 1 /\ pc' \in {"idle", "pre_checks"}
    BY <1>9 DEF StartPlaybook, ControlOK
  <2>2. UNCHANGED <<edited, stopped>>
    BY <1>9 DEF StartPlaybook, patroniVars
  <2>3. QED
    BY <2>1, <2>2 DEF OutInv, OutTasks, DownTasks
<1>10. CASE Elect \/ LoseLeadership \/ \E h \in Hosts : Crash(h)
  BY <1>10, OutUndisturbed DEF Elect, LoseLeadership, Crash, PatroniStep, playVars
<1>11. ASSUME NEW h \in Hosts, Recover(h) PROVE OutInv'
  BY <1>11 DEF Recover, ComesUp, PatroniStep, playVars, OutInv
<1>12. CASE UNCHANGED vars
  BY <1>12, OutUndisturbed DEF vars
<1>13. QED
  BY <1>1, <1>2, <1>3, <1>4, <1>5, <1>6, <1>7, <1>8, <1>9, <1>10, <1>11, <1>12
     DEF Next, Playbook

(* The tags decide: whoever is stopped is tagged as well.                   *)
LEMMA ServiceStep ==
  ControlOK /\ PlaceInv /\ OutInv /\ OutInv' /\ [Next]_vars
  => [Service!Next]_<<edited \cup stopped, installed>>
<1> SUFFICES ASSUME ControlOK, PlaceInv, OutInv, OutInv', [Next]_vars
             PROVE  [Service!Next]_<<edited \cup stopped, installed>>
  OBVIOUS
<1>1. edited \cup stopped = edited /\ edited' \cup stopped' = edited'
  BY DEF OutInv
<1>2. pc \in HostTasks => host \in Hosts
  BY DEF PlaceInv, ControlOK, HostTasks
<1>3. CASE EditTags
  <2>1. edited = {} /\ host \in Hosts /\ UNCHANGED installed
    BY <1>2, <1>3 DEF EditTags, Task, HostTasks, OutInv, OutTasks, DownTasks, packageVars
  <2>2. edited' = {host} \/ edited' = edited
    BY <1>3, <2>1 DEF EditTags
  <2>3. QED
    BY <1>1, <2>1, <2>2 DEF Service!Next, Service!Take
<1>4. CASE ClearTags
  <2>1. edited = {host} /\ host \in Hosts /\ UNCHANGED installed
    BY <1>2, <1>4 DEF ClearTags, Task, HostTasks, OutInv, OutTasks, DownTasks, packageVars
  <2>2. edited' = {} \/ edited' = edited
    BY <1>4, <2>1 DEF ClearTags
  <2>3. QED
    BY <1>1, <2>1, <2>2 DEF Service!Next, Service!Return
<1>5. CASE InstallPackages
  <2>1. edited = {host} /\ host \in Hosts /\ UNCHANGED edited
    BY <1>2, <1>5 DEF InstallPackages, Refreshed, KeptStale, NotInstalled, Task, HostTasks, OutInv, OutTasks, DownTasks, patroniVars
  <2>2. installed' = installed \cup {host} \/ UNCHANGED installed
    BY <1>5 DEF InstallPackages, Refreshed, KeptStale, NotInstalled
  <2>3. QED
    BY <1>1, <2>1, <2>2 DEF Service!Next, Service!Update
<1>6. CASE \/ PreChecks \/ NextHost \/ CheckLeader \/ FirstSwitchover \/ RecheckLeader
           \/ RetrySwitchover \/ AwaitReplica \/ AwaitTraffic \/ PostUpdate
  <2>1. UNCHANGED <<edited, installed>>
    BY <1>6 DEF PreChecks, NextHost, CheckLeader, FirstSwitchover, RecheckLeader,
                RetrySwitchover, Switchover, AwaitReplica, AwaitTraffic, PostUpdate,
                patroniVars, packageVars
  <2>2. QED
    BY <1>1, <2>1
<1>7. CASE \/ ReloadTags \/ AwaitNoReplica \/ DrainTransactions \/ CheckReady \/ StopServices
           \/ Reboot \/ StartServices \/ AwaitHealth \/ ReloadAgain
  <2>1. UNCHANGED <<edited, installed>>
    BY <1>7 DEF ReloadTags, AwaitNoReplica, DrainTransactions, CheckReady, StopServices,
                Reboot, StartServices, AwaitHealth, ReloadAgain, Reload, patroniVars,
                packageVars
  <2>2. QED
    BY <1>1, <2>1
<1>8. CASE StartPlaybook \/ Elect \/ LoseLeadership \/ \E h \in Hosts : Crash(h) \/ Recover(h)
  <2>1. UNCHANGED <<edited, installed>>
    BY <1>8 DEF StartPlaybook, Elect, LoseLeadership, Crash, Recover, PatroniStep, patroniVars
  <2>2. QED
    BY <1>1, <2>1
<1>9. CASE UNCHANGED vars
  BY <1>1, <1>9 DEF vars
<1>10. QED
  BY <1>3, <1>4, <1>5, <1>6, <1>7, <1>8, <1>9 DEF Next, Playbook

(* serial: 1, the order of the tasks and any_errors_fatal implement the    *)
(* promise of OneAtATime, for every inventory and whatever fails, as long  *)
(* as the playbook is not started again after an aborted run.              *)
THEOREM OneHostOutCorrect == ASSUME MaxRuns = 1 PROVE Spec => OneHostOut
<1>1. /\ HostsOK /\ ControlOK /\ PlaceInv /\ OutInv
      /\ [Next]_vars
      => (HostsOK /\ ControlOK /\ PlaceInv /\ OutInv)'
  BY ControlStep, HostsStep, OutStep
<1>2. Spec => [](HostsOK /\ ControlOK /\ PlaceInv /\ OutInv)
  BY <1>1, PlaceInit, OutInit, PTL DEF Spec
<1>3. ControlOK /\ PlaceInv /\ OutInv /\ OutInv' /\ [Next]_vars
      => [Service!Next]_<<edited \cup stopped, installed>>
  BY ServiceStep
<1>4. QED
  BY <1>2, <1>3, OutInit, PTL DEF Spec, OneHostOut, Service!Spec

-----------------------------------------------------------------------------
(***************************************************************************)
(* The cluster stays in service.  Again about a first run: what is at      *)
(* stake is that the hosts whose tags Patroni knows of, or whose services  *)
(* are stopped, are never two.                                             *)
(***************************************************************************)

(* As long as no host crashes and Patroni keeps its leader. *)
ServedInv ==
  accidents = 0 =>
    /\ up = Hosts \ stopped
    /\ pc = "idle" => \E x \in Hosts : edited \cup loaded \subseteq {x}
    /\ pc \in HostTasks => loaded \subseteq {host}
    /\ pc \notin HostTasks \cup {"idle"} \/ runs = 0 => loaded = {}
    /\ secondary # {} => primary \in Hosts
    /\ pc = "pre_checks" => secondary = Hosts \ {primary}
    /\ pc \notin {"idle", "pre_checks"} \/ leader = None => secondary # {}

(* Before the first run every host is up and none has a tag.               *)
LEMMA ServedInit == Init => ServedInv
  BY ConstantsAssumption DEF Init, ServedInv, HostTasks

(* What the tasks on one host have in common: they tag and stop at most    *)
(* that host.                                                              *)
LEMMA ServedWithin ==
  ASSUME ControlOK, HostsOK, PlaceInv, OutInv, ServedInv, pc \in HostTasks,
         UNCHANGED <<primary, secondary, runs, accidents>>,
         (pc' \in HostTasks /\ host' = host) \/ pc' = "idle",
         edited' \subseteq edited \cup {host}, loaded' \subseteq loaded \cup {host},
         \/ UNCHANGED <<up, stopped>>
         \/ up' = up \ {host} /\ stopped' = stopped \cup {host}
         \/ up' = up \cup {host} /\ stopped' = stopped \ {host}
  PROVE  ServedInv'
<1> SUFFICES ASSUME accidents = 0
             PROVE  ServedInv'
  BY DEF ServedInv
<1>1. /\ host \in Hosts /\ edited \subseteq {host} /\ loaded \subseteq {host}
      /\ secondary # {} /\ primary \in Hosts /\ runs # 0
  BY DEF PlaceInv, ControlOK, OutInv, ServedInv, HostTasks, OutTasks, DownTasks
<1>2. edited' \cup loaded' \subseteq {host} /\ pc' # "pre_checks"
  BY <1>1 DEF HostTasks
<1>3. up' = Hosts \ stopped'
  BY <1>1 DEF ServedInv, HostsOK
<1>4. \E x \in Hosts : edited' \cup loaded' \subseteq {x}
  BY <1>1, <1>2
<1>5. pc' \in HostTasks => loaded' \subseteq {host'}
  BY <1>2, "idle" \notin HostTasks DEF HostTasks
<1>6. pc' \in HostTasks \cup {"idle"} /\ runs' # 0 /\ secondary' # {} /\ primary' \in Hosts
  BY <1>1
<1> QED BY <1>2, <1>3, <1>4, <1>5, <1>6 DEF ServedInv

(* The tasks of the switchover and those between hosts leave all hosts in  *)
(* service.                                                                *)
LEMMA ServedBetween ==
  ASSUME ControlOK, HostsOK, PlaceInv, OutInv, ServedInv,
         pc \in SwitchoverTasks \cup {"next_host", "post_update"},
         UNCHANGED <<primary, secondary, runs, accidents, edited, loaded, up, stopped>>,
         pc' # "pre_checks"
  PROVE  ServedInv'
<1> SUFFICES ASSUME accidents = 0
             PROVE  ServedInv'
  BY DEF ServedInv
<1>1. /\ edited = {} /\ loaded = {} /\ secondary # {} /\ primary \in Hosts
  BY DEF OutInv, ServedInv, SwitchoverTasks, HostTasks, OutTasks, DownTasks
<1> QED BY <1>1 DEF ServedInv

(* stop_traffic, stop_services and start_services concern the host at      *)
(* hand, and no host follows before GET /replica has answered 200.         *)
LEMMA ServedStep ==
  ASSUME MaxRuns = 1
  PROVE  ControlOK /\ HostsOK /\ PlaceInv /\ OutInv /\ ServedInv /\ [Next]_vars => ServedInv'
<1> SUFFICES ASSUME ControlOK, HostsOK, PlaceInv, OutInv, ServedInv, [Next]_vars
             PROVE  ServedInv'
  OBVIOUS
<1>1. CASE \/ EditTags \/ AwaitNoReplica \/ DrainTransactions \/ CheckReady
           \/ InstallPackages \/ AwaitHealth \/ ClearTags
  <2>1. /\ pc \in HostTasks /\ UNCHANGED <<primary, secondary, runs, accidents>>
        /\ (pc' \in HostTasks /\ host' = host) \/ pc' = "idle"
    BY <1>1 DEF EditTags, AwaitNoReplica, DrainTransactions, CheckReady, InstallPackages,
                AwaitHealth, ClearTags, Task, Unless, GoTo, Abort, HostTasks
  <2>2. edited' \subseteq edited \cup {host} /\ UNCHANGED <<loaded, up, stopped>>
    BY <1>1 DEF EditTags, AwaitNoReplica, DrainTransactions, CheckReady, InstallPackages,
                AwaitHealth, ClearTags, patroniVars
  <2> QED BY <2>1, <2>2, ServedWithin
<1>2. CASE ReloadTags \/ ReloadAgain
  <2>1. /\ pc \in HostTasks /\ UNCHANGED <<primary, secondary, runs, accidents>>
        /\ (pc' \in HostTasks /\ host' = host) \/ pc' = "idle"
    BY <1>2 DEF ReloadTags, ReloadAgain, Reload, Task, Unless, GoTo, Abort, HostTasks
  <2>2. loaded' \subseteq loaded \cup {host} /\ UNCHANGED <<edited, up, stopped>>
    BY <1>2 DEF ReloadTags, ReloadAgain, Reload
  <2> QED BY <2>1, <2>2, ServedWithin
<1>3. CASE StopServices
  <2>1. /\ pc \in HostTasks /\ UNCHANGED <<primary, secondary, runs, accidents>>
        /\ (pc' \in HostTasks /\ host' = host) \/ pc' = "idle"
    BY <1>3 DEF StopServices, Task, Unless, GoTo, Abort, HostTasks
  <2>2. /\ UNCHANGED edited /\ loaded' \subseteq loaded
        /\ \/ UNCHANGED <<up, stopped>>
           \/ up' = up \ {host} /\ stopped' = stopped \cup {host}
    BY <1>3 DEF StopServices
  <2> QED BY <2>1, <2>2, ServedWithin
<1>4. CASE Reboot \/ StartServices
  <2>1. /\ pc \in HostTasks /\ UNCHANGED <<primary, secondary, runs, accidents>>
        /\ (pc' \in HostTasks /\ host' = host) \/ pc' = "idle"
    BY <1>4 DEF Reboot, StartServices, Task, Unless, GoTo, Abort, HostTasks
  <2>2. /\ UNCHANGED edited /\ loaded' \subseteq loaded \cup {host}
        /\ \/ UNCHANGED <<up, stopped>>
           \/ up' = up \cup {host} /\ stopped' = stopped \ {host}
    BY <1>4 DEF Reboot, StartServices, ComesUp
  <2> QED BY <2>1, <2>2, ServedWithin
<1>5. CASE AwaitTraffic
  <2> SUFFICES ASSUME accidents = 0
               PROVE  ServedInv'
    BY <1>5 DEF AwaitTraffic, Task, ServedInv
  <2>1. /\ pc = "await_200" /\ pc \in HostTasks
        /\ UNCHANGED <<primary, secondary, runs, accidents, leader, up, stopped, edited, loaded>>
    BY <1>5 DEF AwaitTraffic, Task, Unless, GoTo, Abort, HostTasks, patroniVars
  <2>2. /\ host \in Hosts /\ edited = {} /\ loaded \subseteq {host}
        /\ secondary # {} /\ primary \in Hosts /\ up = Hosts \ stopped
    BY <2>1 DEF PlaceInv, ControlOK, OutInv, ServedInv, HostTasks, OutTasks, DownTasks
  <2>3. \/ pc' \in {"post_update", "next_host"} /\ host \notin loaded
        \/ pc' = "idle" /\ runs # 0
    BY <1>5, <2>1 DEF AwaitTraffic, Unless, GoTo, Abort, IsReplica, OutInv
  <2> QED BY <2>1, <2>2, <2>3 DEF ServedInv, HostTasks
<1>6. CASE \/ CheckLeader \/ FirstSwitchover \/ RecheckLeader \/ RetrySwitchover
           \/ AwaitReplica \/ PostUpdate \/ NextHost
  <2>1. /\ pc \in SwitchoverTasks \cup {"next_host", "post_update"}
        /\ UNCHANGED <<primary, secondary, runs, accidents>> /\ pc' # "pre_checks"
    BY <1>6 DEF CheckLeader, FirstSwitchover, RecheckLeader, RetrySwitchover, AwaitReplica,
                PostUpdate, NextHost, Switchover, Task, Unless, GoTo, Abort, SwitchoverTasks
  <2>2. UNCHANGED <<edited, loaded, up, stopped>>
    BY <1>6 DEF CheckLeader, FirstSwitchover, RecheckLeader, RetrySwitchover, AwaitReplica,
                PostUpdate, NextHost, Switchover, patroniVars
  <2> QED BY <2>1, <2>2, ServedBetween
<1>7. CASE PreChecks
  <2>1. /\ pc = "pre_checks" /\ UNCHANGED <<primary, secondary, runs, accidents>>
        /\ UNCHANGED <<leader, up, stopped, edited, loaded>>
        /\ \/ pc' = "next_host" /\ up # {primary} /\ primary \in up
           \/ pc' = "idle"
    BY <1>7 DEF PreChecks, Task, Unless, GoTo, Abort, patroniVars
  <2>2. stopped = {} /\ edited = {}
    BY <2>1 DEF OutInv, OutTasks, DownTasks
  <2> QED BY <2>1, <2>2, ConstantsAssumption DEF ServedInv, HostTasks
<1>8. CASE StartPlaybook
  <2>1. runs = 0
    BY <1>8 DEF StartPlaybook, ControlOK
  <2>2. edited = {} /\ stopped = {}
    BY <2>1 DEF OutInv
  <2>3. /\ UNCHANGED <<leader, up, stopped, edited, loaded, accidents>>
        /\ \/ pc' = "idle" /\ UNCHANGED <<primary, secondary>>
           \/ /\ pc' = "pre_checks" /\ leader # None
              /\ primary' = leader /\ secondary' = up \ {leader}
    BY <1>8 DEF StartPlaybook, patroniVars
  <2> QED BY <2>1, <2>2, <2>3, ConstantsAssumption DEF ServedInv, HostsOK, HostTasks
<1>9. CASE Elect
  <2>1. leader' # None /\ UNCHANGED <<pc, host, primary, secondary, runs, accidents>>
    BY <1>9, ConstantsAssumption DEF Elect, PatroniStep, playVars, HostsOK
  <2>2. UNCHANGED <<up, stopped, edited, loaded>>
    BY <1>9 DEF Elect, PatroniStep
  <2> QED BY <2>1, <2>2 DEF ServedInv
<1>10. CASE LoseLeadership \/ \E h \in Hosts : Crash(h)
  BY <1>10 DEF LoseLeadership, Crash, Accident, ControlOK, ServedInv
<1>11. ASSUME NEW h \in Hosts, Recover(h) PROVE ServedInv'
  <2> SUFFICES ASSUME accidents = 0
               PROVE  ServedInv'
    BY <1>11 DEF Recover, ServedInv
  <2>1. h \in stopped /\ pc = "idle"
    BY <1>11 DEF Recover, ServedInv, HostsOK
  <2>2. /\ UNCHANGED <<leader, edited, pc, host, primary, secondary, runs, accidents>>
        /\ up' = up \cup {h} /\ stopped' = stopped \ {h}
        /\ loaded' \subseteq loaded \cup edited
    BY <1>11 DEF Recover, ComesUp, PatroniStep, playVars
  <2>3. runs # 0
    BY <2>1 DEF OutInv
  <2> QED BY <2>1, <2>2, <2>3 DEF ServedInv, HostTasks
<1>12. CASE UNCHANGED vars
  BY <1>12 DEF vars, ServedInv
<1> QED
  BY <1>1, <1>2, <1>3, <1>4, <1>5, <1>6, <1>7, <1>8, <1>9, <1>10, <1>11, <1>12
     DEF Next, Playbook

(* All that is known of the hosts in a first run.                          *)
LEMMA ServedInductive ==
  ASSUME MaxRuns = 1
  PROVE  Spec => [](HostsOK /\ ControlOK /\ PlaceInv /\ OutInv /\ ServedInv)
<1>1. /\ HostsOK /\ ControlOK /\ PlaceInv /\ OutInv /\ ServedInv
      /\ [Next]_vars
      => (HostsOK /\ ControlOK /\ PlaceInv /\ OutInv /\ ServedInv)'
  BY ControlStep, HostsStep, OutStep, ServedStep
<1> QED BY <1>1, PlaceInit, OutInit, ServedInit, PTL DEF Spec

(* At most one host is out of service at any time.                         *)
LEMMA OneOut ==
  ASSUME HostsOK, ControlOK, PlaceInv, OutInv, ServedInv, accidents = 0
  PROVE  \E x \in Hosts : \A h \in Hosts \ {x} : h \in up \ loaded
<1>1. \E x \in Hosts : edited \cup loaded \subseteq {x}
  <2>1. CASE pc = "idle"
    BY <2>1 DEF ServedInv
  <2>2. CASE pc \in HostTasks
    BY <2>2 DEF PlaceInv, ControlOK, OutInv, ServedInv, HostTasks, OutTasks, DownTasks
  <2>3. CASE pc \notin HostTasks \cup {"idle"}
    BY <2>3, ConstantsAssumption DEF OutInv, ServedInv, HostTasks, OutTasks, DownTasks
  <2> QED BY <2>1, <2>2, <2>3
<1>2. up = Hosts \ stopped /\ stopped \subseteq edited
  BY DEF ServedInv, OutInv
<1> QED BY <1>1, <1>2

(* "Zero downtime is expected (for read traffic), provided there is more   *)
(* than one replica": a proof for any number of hosts and of failures, for *)
(* a playbook that is started once.                                        *)
THEOREM ReadTraffic == ASSUME MaxRuns = 1 PROVE Spec => []ReadServed
<1>1. HostsOK /\ ControlOK /\ PlaceInv /\ OutInv /\ ServedInv => ReadServed
  <2> SUFFICES ASSUME HostsOK, ControlOK, PlaceInv, OutInv, ServedInv,
                      accidents = 0, Cardinality(secondary) > 1
               PROVE  \E h \in Hosts : IsReplica(h)
    BY DEF ReadServed
  <2>1. \E a, b \in secondary : a # b
    <3> SUFFICES ASSUME \A a, b \in secondary : a = b
                 PROVE  FALSE
      OBVIOUS
    <3>1. secondary = {} \/ \E a \in secondary : secondary = {a}
      OBVIOUS
    <3>2. Cardinality(secondary) = 0 \/ Cardinality(secondary) = 1
      BY <3>1, FS_EmptySet, FS_Singleton, Zenon
    <3> QED BY <3>2
  <2>2. PICK a, b \in secondary : a # b
    BY <2>1
  <2>3. {a, b, primary} \subseteq Hosts /\ primary \notin {a, b}
    BY DEF ControlOK, ServedInv, PlaceInv
  <2>4. PICK x \in Hosts : \A h \in Hosts \ {x} : h \in up \ loaded
    BY OneOut
  <2>5. \E h \in {a, b, primary} : h # x /\ h # leader
    BY <2>2, <2>3
  <2> QED BY <2>3, <2>4, <2>5 DEF IsReplica
<1> QED BY <1>1, ServedInductive, PTL

(* Stopping a primary that both switchovers failed to move leaves a        *)
(* replica that may take over.                                             *)
THEOREM LeadershipKept == ASSUME MaxRuns = 1 PROVE Spec => []SomeoneLeads
<1>1. HostsOK /\ ControlOK /\ PlaceInv /\ OutInv /\ ServedInv => SomeoneLeads
  <2> SUFFICES ASSUME HostsOK, ControlOK, PlaceInv, OutInv, ServedInv,
                      accidents = 0, leader = None
               PROVE  Candidates # {}
    BY DEF SomeoneLeads
  <2>1. PICK a \in secondary : a \in Hosts /\ primary \in Hosts /\ a # primary
    BY DEF ControlOK, ServedInv, PlaceInv
  <2>2. PICK x \in Hosts : \A h \in Hosts \ {x} : h \in up \ loaded
    BY OneOut
  <2>3. \E h \in {a, primary} : h \in Hosts \ {x}
    BY <2>1
  <2> QED BY <2>2, <2>3, ConstantsAssumption DEF Candidates
<1> QED BY <1>1, ServedInductive, PTL

=============================================================================
