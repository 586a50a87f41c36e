------------------------ MODULE Deployments_proofs ------------------------
(***************************************************************************)
(* Proofs about Deployments, for any requests, names and bounds: type      *)
(* correctness; an inductive invariant from which follow that a verdict is *)
(* settled once, that it is the own playbook's, and that a container goes  *)
(* only when its operation is settled; and one from which follow what a    *)
(* deployment may leave behind.                                            *)
(***************************************************************************)
EXTENDS Deployments, TLAPS

(***************************************************************************)
(* What updating a log yields.                                             *)
(***************************************************************************)

(* json_log.py: each way a container's write changes the file's log keeps  *)
(* it a log.                                                               *)
LEMMA LogUpdates ==
  ASSUME NEW log \in Logs, NEW info \in SUBSET Requests, NEW v \in Verdicts
  PROVE  /\ [NoLog EXCEPT !.body = "empty"] \in Logs
         /\ [log EXCEPT !.body = "open", !.info = log.info \cup info] \in Logs
         /\ [log EXCEPT !.body = "bad"] \in Logs
         /\ [log EXCEPT !.body = "closed", !.verdict = v] \in Logs
  BY ConstantsAssumption DEF Logs, NoLog

(* What a decoder finds in a log: hosts of some deployment, and a verdict. *)
LEMMA LogFields ==
  ASSUME NEW log \in Logs
  PROVE  log.info \subseteq Requests /\ log.verdict \in Verdicts \cup {None}
  BY DEF Logs

-----------------------------------------------------------------------------
(***************************************************************************)
(* Type correctness.                                                       *)
(***************************************************************************)

WatcherInv ==
  /\ IF watcher.pc = "sweep" THEN watcher.cur = None ELSE watcher.cur \in Requests
  /\ watcher.pc \in {"store", "settle_op", "settle_cluster"} => watcher.verdict \in Verdicts

TypeInv == TypeOK /\ WatcherInv

(* An empty database, no container and a watcher at rest are well typed.   *)
LEMMA TypeInit == Init => TypeInv
  BY ConstantsAssumption
     DEF Init, TypeInv, TypeOK, WatcherInv, HandlerPC, RemovalPC, Logs,
         NoLog, Watchers, Resting, WatcherPC, Verdicts

(* doWork and the reading half of collectContainerLog, field by field.     *)
LEMMA SweepFields ==
  ASSUME watcher \in Watchers, GetInProgressOperations
  PROVE  /\ watcher'.pc = watcher.pc /\ watcher'.cur = watcher.cur
         /\ \A r \in watcher'.queue : op[r] = "in_progress"
  BY DEF GetInProgressOperations, WatcherStep, Watchers

(* GetStatus takes an operation from the queue, and into hand if its       *)
(* container has ended.                                                    *)
LEMMA StatusFields ==
  ASSUME watcher \in Watchers, NEW r \in Requests, GetStatus(r)
  PROVE  /\ r \in watcher.queue
         /\ watcher'.queue = watcher.queue \ {r}
         /\ \/ box[r] = "exited" /\ watcher'.cur = r /\ watcher'.pc = "load"
            \/ watcher'.cur = watcher.cur /\ watcher'.pc = watcher.pc
  BY DEF GetStatus, Watchers

(* GetCluster keeps the operation in hand, and yields the file name of a   *)
(* live row.                                                               *)
LEMMA LoadFields ==
  ASSUME watcher \in Watchers, LoadCluster
  PROVE  LET r == watcher.cur IN
         /\ watcher'.cur = r /\ watcher'.queue = watcher.queue
         /\ \/ /\ HasRow(r) /\ watcher'.pc = "open"
               /\ watcher'.name = IF row[r] = "live" THEN cname[r] ELSE None
            \/ ~HasRow(r) /\ watcher'.pc = "remove"
            \/ watcher'.pc = "remove" /\ dropped' = dropped \cup {r}
  BY DEF LoadCluster, WatcherStep, Watchers, Dropped, FaultOf

(* Decoding keeps the operation in hand, and yields what a complete file   *)
(* holds.                                                                  *)
LEMMA DecodeFields ==
  ASSUME watcher \in Watchers, DecodeLog
  PROVE  /\ watcher'.cur = watcher.cur /\ watcher'.queue = watcher.queue
         /\ \/ /\ watcher.name # None /\ file[watcher.name].body = "closed"
               /\ watcher'.pc = "store"
               /\ watcher'.info = file[watcher.name].info
               /\ file[watcher.name].verdict # None =>
                    watcher'.verdict = file[watcher.name].verdict
            \/ /\ watcher.name = None \/ file[watcher.name].body # "closed"
               /\ watcher'.pc = "settle_op"
               /\ watcher'.verdict = "failed"
  BY DEF DecodeLog, WatcherStep, Watchers, NoLog

(* log_watcher.go: every step of the watcher leaves its locals of their    *)
(* types, and it has a request in hand in all but its sweeping state.      *)
LEMMA WatcherTypeStep ==
  ASSUME watcher \in Watchers, WatcherInv, cname \in [Requests -> Names],
         file \in [Names -> Logs], LogWatcher, "failed" \in Verdicts
  PROVE  watcher' \in Watchers /\ WatcherInv'
<1> USE ConstantsAssumption DEF Watchers, WatcherPC, WatcherInv, WatcherStep
<1>1. CASE GetInProgressOperations
  BY <1>1 DEF GetInProgressOperations
<1>2. ASSUME NEW r \in Requests, GetStatus(r)
      PROVE  watcher' \in Watchers /\ WatcherInv'
  <2>1. watcher' \in Watchers
    <3>1. watcher.queue \ {r} \in SUBSET Requests
      OBVIOUS
    <3>2. CASE watcher' = [watcher EXCEPT !.queue = @ \ {r}]
      BY <3>1, <3>2
    <3>3. CASE watcher' = [watcher EXCEPT !.queue = @ \ {r}, !.cur = r, !.pc = "load"]
      BY <3>1, <3>3
    <3> QED BY <1>2, <3>2, <3>3 DEF GetStatus
  <2>2. WatcherInv'
    <3> HIDE DEF Watchers
    <3>1. watcher.pc = "sweep" /\ watcher.cur = None
      BY <1>2 DEF GetStatus
    <3>2. CASE watcher'.cur = r /\ watcher'.pc = "load"
      BY <3>2
    <3>3. CASE watcher'.cur = watcher.cur /\ watcher'.pc = watcher.pc
      BY <3>1, <3>3
    <3> QED BY <1>2, <3>2, <3>3, StatusFields
  <2> QED BY <2>1, <2>2
<1>3. CASE LoadCluster
  BY <1>3 DEF LoadCluster
<1>4. CASE DecodeLog
  <2> DEFINE log == IF watcher.name = None THEN NoLog ELSE file[watcher.name]
  <2>1. log.info \in SUBSET Requests /\ log.verdict \in Verdicts \cup {None}
    BY LogFields DEF NoLog
  <2> QED BY <1>4, <2>1 DEF DecodeLog
<1>5. CASE StoreServers
  BY <1>5 DEF StoreServers
<1>6. CASE SettleOperation
  BY <1>6 DEF SettleOperation
<1>7. CASE SettleCluster
  BY <1>7 DEF SettleCluster
<1>8. CASE RemoveContainer
  BY <1>8 DEF RemoveContainer, Resting
<1> QED BY LogWatcher, <1>1, <1>2, <1>3, <1>4, <1>5, <1>6, <1>7, <1>8 DEF LogWatcher

(* Every handler, container and watcher step, and a crash, keeps the state *)
(* well typed.                                                             *)
LEMMA TypeStep == TypeInv /\ [Next]_vars => TypeInv'
<1> SUFFICES ASSUME TypeInv, [Next]_vars
             PROVE  TypeInv'
  OBVIOUS
<1> USE ConstantsAssumption
    DEF TypeInv, TypeOK, dbVars, boxVars, requestVars, envVars,
        Ok, Fault, FaultOf, Dropped
<1>1. ASSUME NEW r \in Requests, PostCluster(r)
      PROVE  TypeInv'
  <2> USE DEF HandlerPC, Goto, WatcherInv
  <2>1. CASE GetClusterByName(r)
    BY <2>1 DEF GetClusterByName
  <2>2. CASE CreateCluster(r)
    BY <2>2 DEF CreateCluster
  <2>3. CASE ImportServers(r)
    BY <2>3 DEF ImportServers
  <2>4. CASE ManageCluster(r)
    BY <2>4 DEF ManageCluster
  <2>5. CASE CreateOperation(r)
    BY <2>5 DEF CreateOperation
  <2>6. CASE MarkFailed(r)
    BY <2>6 DEF MarkFailed
  <2> QED BY <1>1, <2>1, <2>2, <2>3, <2>4, <2>5, <2>6 DEF PostCluster
<1>2. ASSUME NEW r \in Requests, Container(r)
      PROVE  TypeInv'
  <2> DEFINE log == file[cname[r]]
  <2> log \in Logs /\ {r} \in SUBSET Requests
    OBVIOUS
  <2> USE DEF BoxStep, WriteLog, Disturbs, WatcherInv
  <2> HIDE DEF log
  <2>1. CASE OpenLog(r)
    BY <2>1, LogUpdates, "success" \in Verdicts DEF OpenLog, Verdicts
  <2>2. CASE RecordTask(r)
    <3>1. file' \in [Names -> Logs]
      <4>1. PICK info \in {{}, {r}} :
              WriteLog(r, CASE log.body \in {"empty", "open"}
                               /\ ((log.body = "open") <=> (play[r] = "wrote")) ->
                                 [log EXCEPT !.body = "open", !.info = @ \cup info]
                            [] log.body \in {"empty", "open"}
                               /\ ~((log.body = "open") <=> (play[r] = "wrote")) ->
                                 [log EXCEPT !.body = "bad"]
                            [] OTHER -> log)
        BY <2>2 DEF RecordTask, log
      <4> QED BY <4>1, LogUpdates DEF Verdicts
    <3> QED BY <2>2, <3>1 DEF RecordTask
  <2>3. CASE RecordStats(r)
    <3>1. PICK v \in Verdicts :
            /\ outcome' = [outcome EXCEPT ![r] = v]
            /\ WriteLog(r, CASE log.body = "empty" -> [log EXCEPT !.body = "bad"]
                             [] log.body = "open" ->
                                  [log EXCEPT !.body = "closed", !.verdict = v]
                             [] OTHER -> log)
      BY <2>3 DEF RecordStats, log
    <3>2. file' \in [Names -> Logs]
      BY <3>1, LogUpdates
    <3>3. play' \in [Requests -> {"init", "opened", "wrote", "ended", "ended_bare"}]
      BY <2>3 DEF RecordStats
    <3> QED BY <2>3, <3>1, <3>2, <3>3 DEF RecordStats
  <2>4. CASE ContainerExits(r)
    BY <2>4 DEF ContainerExits
  <2> QED BY <1>2, <2>1, <2>2, <2>3, <2>4 DEF Container
<1>3. ASSUME NEW r \in Requests, DeleteClusterSoft(r)
      PROVE  TypeInv'
  BY <1>3 DEF DeleteClusterSoft, WatcherInv
<1>4. ASSUME NEW r \in Requests, RemoveCluster(r)
      PROVE  TypeInv'
  BY <1>4 DEF RemoveCluster, StartRemoval, DeleteOperations, DeleteServers,
              DeleteRow, RemovalStep, RemovalPC, WatcherInv
<1>5. ASSUME NEW r \in Requests, Ages(r)
      PROVE  TypeInv'
  BY <1>5 DEF Ages, WatcherInv
<1>6. CASE LogWatcher
  <2>0. watcher' \in Watchers /\ WatcherInv'
    BY <1>6, WatcherTypeStep DEF Verdicts
  <2> watcher.pc # "sweep" => watcher.cur \in Requests
    BY DEF WatcherInv
  <2> USE DEF WatcherStep
  <2>1. CASE GetInProgressOperations
    BY <2>0, <2>1 DEF GetInProgressOperations
  <2>2. ASSUME NEW r \in Requests, GetStatus(r)
        PROVE  TypeInv'
    BY <2>0, <2>2 DEF GetStatus
  <2>3. CASE LoadCluster
    BY <2>0, <2>3 DEF LoadCluster
  <2>4. CASE DecodeLog
    BY <2>0, <2>4 DEF DecodeLog
  <2>5. CASE StoreServers
    <3>1. watcher.info \subseteq Requests
      BY DEF Watchers
    <3> QED BY <2>0, <2>5, <3>1 DEF StoreServers
  <2>6. CASE SettleOperation
    <3>1. op' \in [Requests -> {"none", "in_progress", "deleted"} \cup Verdicts]
      <4>1. watcher.verdict \in Verdicts
        BY <2>6 DEF SettleOperation, WatcherInv
      <4> QED BY <2>6, <4>1 DEF SettleOperation
    <3> QED BY <2>0, <2>6, <3>1 DEF SettleOperation
  <2>7. CASE SettleCluster
    BY <2>0, <2>7 DEF SettleCluster
  <2>8. CASE RemoveContainer
    BY <2>0, <2>8 DEF RemoveContainer
  <2> QED BY <1>6, <2>1, <2>2, <2>3, <2>4, <2>5, <2>6, <2>7, <2>8 DEF LogWatcher
<1>7. CASE Restart
  <2>1. pc' \in [Requests -> HandlerPC]
    BY <1>7 DEF Restart, HandlerPC
  <2>2. watcher' \in Watchers /\ WatcherInv'
    BY <1>7 DEF Restart, WatcherInv, Resting, Watchers, WatcherPC
  <2> QED BY <1>7, <2>1, <2>2 DEF Restart, RemovalPC
<1>8. CASE UNCHANGED vars
  BY <1>8 DEF vars, WatcherInv
<1> QED BY <1>1, <1>2, <1>3, <1>4, <1>5, <1>6, <1>7, <1>8 DEF Next

(* Every reachable state is well typed: among others a cluster's status is *)
(* one of the console's, whichever of the handler, the deferred function   *)
(* and the watcher wrote it.                                               *)
THEOREM TypeCorrect == Spec => []TypeOK
<1>1. TypeInv => TypeOK
  BY DEF TypeInv
<1> QED BY <1>1, TypeInit, TypeStep, PTL DEF Spec

-----------------------------------------------------------------------------
(***************************************************************************)
(* The inductive invariant: what ties each request's handler, container,   *)
(* log file, operation and the watcher's locals together.                  *)
(***************************************************************************)

(* Operations and containers come from the handler, in that order of its   *)
(* steps, and an operation belongs to a cluster that is there.             *)
Begun(r) == pc[r] \notin {"idle", "checked", "inserted", "importing"}

HandlerInv(r) ==
  /\ ~Begun(r) => box[r] = "none" /\ op[r] = "none"
  /\ pc[r] = "managed" => op[r] = "none"
  /\ box[r] = "none" => play[r] = "init"
  /\ play[r] = "ended" => outcome[r] \in Verdicts
  /\ HasOp(r) => HasRow(r)

(* Whatever the watcher has queued or is collecting is not settled yet,    *)
(* and only an ended container is collected.                               *)
Pending(r) ==
  \/ r \in watcher.queue
  \/ watcher.cur = r /\ watcher.pc \in {"load", "open", "store", "settle_op"}

SweepInv(r) ==
  /\ Pending(r) => op[r] \in {"in_progress", "deleted"}
  /\ watcher.cur = r => r \notin watcher.queue /\ op[r] # "none" /\ box[r] = "exited"
  /\ op[r] \in Verdicts => box[r] \in {"exited", "removed"}
  /\ box[r] = "removed" => op[r] # "none"

(* While a container is there and nothing else touched its log, the file   *)
(* says what its playbook did.                                             *)
LogInv(r) ==
  LogIsOwn(r) /\ box[r] \in {"running", "exited"} =>
    LET log == file[cname[r]] IN
    /\ log.info \subseteq {r}
    /\ play[r] = "opened" => log.body = "empty"
    /\ play[r] = "wrote" => log.body = "open"
    /\ play[r] = "ended" => log.body = "closed" /\ log.verdict = outcome[r]
    /\ play[r] = "ended_bare" => log.body = "bad"

(* What the watcher read is what the playbook did, too. *)
ReadInv(r) ==
  watcher.cur = r =>
    /\ watcher.pc = "open" =>
         watcher.name = cname[r] \/ (watcher.name = None /\ row[r] # "live")
    /\ watcher.pc = "store" /\ LogIsOwn(r) => watcher.info \subseteq {r}
    /\ watcher.pc \in {"store", "settle_op"} /\ LogIsOwn(r) =>
         /\ watcher.verdict = "success" => outcome[r] = "success"
         /\ watcher.verdict = "failed" /\ row[r] = "live" /\ play[r] = "ended"
              => outcome[r] = "failed"

(* Servers are stored only once the container has ended. *)
ServersInv(r) == box[r] \in {"none", "running"} => servers[r] \subseteq {r}

(* The watcher gets past an operation without settling it only by dropping *)
(* an error.                                                               *)
PassedInv(r) ==
  watcher.cur = r /\ watcher.pc \in {"settle_cluster", "remove"} /\ r \notin dropped
    => op[r] # "in_progress"

(* The three invariants to show, for one request. *)
SettledInv(r) ==
  /\ LogIsOwn(r) =>
       /\ op[r] = "success" => outcome[r] = "success"
       /\ op[r] = "failed" /\ row[r] = "live" /\ play[r] = "ended"
            => outcome[r] = "failed"
       /\ servers[r] \subseteq {r}
  /\ r \notin dropped /\ box[r] = "removed" => op[r] # "in_progress"

RequestInv(r) ==
  /\ HandlerInv(r) /\ SweepInv(r) /\ LogInv(r) /\ ReadInv(r)
  /\ ServersInv(r) /\ PassedInv(r) /\ SettledInv(r)

IInv == TypeInv /\ \A r \in Requests : RequestInv(r)

(* The inductive invariant holds before the first request.                 *)
LEMMA InvInit == Init => IInv
  BY TypeInit, ConstantsAssumption
     DEF Init, IInv, RequestInv, HandlerInv, Begun, SweepInv, Pending, LogInv,
         LogIsOwn, ReadInv, ServersInv, PassedInv, SettledInv, HasOp, Resting,
         Verdicts

(* No step of a handler, a container, the watcher, a user or a crash       *)
(* breaks it.                                                              *)
LEMMA InvStep == IInv /\ [Next]_vars => IInv'
<1> SUFFICES ASSUME IInv, [Next]_vars
             PROVE  \A r \in Requests : RequestInv(r)'
  BY TypeStep DEF IInv
<1> USE ConstantsAssumption
    DEF IInv, TypeInv, TypeOK, RequestInv, HandlerInv, Begun, SweepInv, Pending, LogInv, LogIsOwn,
        ReadInv, ServersInv, PassedInv, SettledInv, HasOp, HasRow, Verdicts,
        dbVars, boxVars, requestVars, envVars, Ok, Fault, FaultOf, Dropped, Goto
<1>1. ASSUME NEW r \in Requests, NEW s \in Requests, GetClusterByName(s)
      PROVE  RequestInv(r)'
  BY <1>1 DEF GetClusterByName
<1>2. ASSUME NEW r \in Requests, NEW s \in Requests, CreateCluster(s)
      PROVE  RequestInv(r)'
  BY <1>2 DEF CreateCluster
<1>3. ASSUME NEW r \in Requests, NEW s \in Requests, ImportServers(s)
      PROVE  RequestInv(r)'
  BY <1>3 DEF ImportServers
<1>4. ASSUME NEW r \in Requests, NEW s \in Requests, ManageCluster(s)
      PROVE  RequestInv(r)'
  BY <1>4 DEF ManageCluster
<1>5. ASSUME NEW r \in Requests, NEW s \in Requests, CreateOperation(s)
      PROVE  RequestInv(r)'
  BY <1>5 DEF CreateOperation
<1>6. ASSUME NEW r \in Requests, NEW s \in Requests, MarkFailed(s)
      PROVE  RequestInv(r)'
  BY <1>6 DEF MarkFailed
<1>7. ASSUME NEW r \in Requests, NEW s \in Requests, OpenLog(s)
      PROVE  RequestInv(r)'
  BY <1>7 DEF OpenLog, BoxStep, WriteLog, Disturbs, NoLog
<1>8. ASSUME NEW r \in Requests, NEW s \in Requests, RecordTask(s)
      PROVE  RequestInv(r)'
  BY <1>8 DEF RecordTask, BoxStep, WriteLog, Disturbs, NoLog
<1>9. ASSUME NEW r \in Requests, NEW s \in Requests, RecordStats(s)
      PROVE  RequestInv(r)'
  BY <1>9 DEF RecordStats, BoxStep, WriteLog, Disturbs, NoLog
<1>10. ASSUME NEW r \in Requests, NEW s \in Requests, ContainerExits(s)
      PROVE  RequestInv(r)'
  BY <1>10 DEF ContainerExits, BoxStep, WriteLog, Disturbs, NoLog
<1>11. ASSUME NEW r \in Requests, NEW s \in Requests, DeleteClusterSoft(s)
      PROVE  RequestInv(r)'
  BY <1>11 DEF DeleteClusterSoft
<1>12. ASSUME NEW r \in Requests, NEW s \in Requests, StartRemoval(s)
      PROVE  RequestInv(r)'
  BY <1>12 DEF StartRemoval, RemovalStep
<1>13. ASSUME NEW r \in Requests, NEW s \in Requests, DeleteOperations(s)
      PROVE  RequestInv(r)'
  BY <1>13 DEF DeleteOperations, RemovalStep
<1>14. ASSUME NEW r \in Requests, NEW s \in Requests, DeleteServers(s)
      PROVE  RequestInv(r)'
  BY <1>14 DEF DeleteServers, RemovalStep
<1>15. ASSUME NEW r \in Requests, NEW s \in Requests, DeleteRow(s)
      PROVE  RequestInv(r)'
  BY <1>15 DEF DeleteRow, RemovalStep
<1>16. ASSUME NEW r \in Requests, NEW s \in Requests, Ages(s)
      PROVE  RequestInv(r)'
  BY <1>16 DEF Ages
<1>17. ASSUME NEW r \in Requests, GetInProgressOperations
      PROVE  RequestInv(r)'
  <2> watcher.pc = "sweep" => watcher.cur = None
    BY DEF WatcherInv
  <2>1. HandlerInv(r)'
    BY <1>17 DEF GetInProgressOperations, WatcherStep
  <2>2. SweepInv(r)'
    BY <1>17, SweepFields DEF GetInProgressOperations, WatcherStep
  <2>3. LogInv(r)'
    BY <1>17 DEF GetInProgressOperations, WatcherStep
  <2>4. ReadInv(r)'
    BY <1>17, SweepFields DEF GetInProgressOperations, WatcherStep
  <2>5. ServersInv(r)'
    BY <1>17 DEF GetInProgressOperations, WatcherStep
  <2>6. PassedInv(r)'
    BY <1>17, SweepFields DEF GetInProgressOperations, WatcherStep
  <2>7. SettledInv(r)'
    BY <1>17 DEF GetInProgressOperations, WatcherStep
  <2> QED BY <2>1, <2>2, <2>3, <2>4, <2>5, <2>6, <2>7
<1>18. ASSUME NEW r \in Requests, NEW s \in Requests, GetStatus(s)
      PROVE  RequestInv(r)'
  <2> watcher.pc = "sweep" => watcher.cur = None
    BY DEF WatcherInv
  <2>1. HandlerInv(r)'
    BY <1>18 DEF GetStatus, WatcherStep
  <2>2. SweepInv(r)'
    <3>1. /\ watcher.pc = "sweep" /\ watcher.cur = None
          /\ UNCHANGED <<op, box>> /\ s \in watcher.queue
          /\ watcher'.queue = watcher.queue \ {s}
      BY <1>18, StatusFields DEF GetStatus, WatcherStep
    <3>2. CASE box[s] = "exited" /\ watcher'.cur = s /\ watcher'.pc = "load"
      BY <3>1, <3>2
    <3>3. CASE watcher'.cur = watcher.cur /\ watcher'.pc = watcher.pc
      BY <3>1, <3>3
    <3> QED BY <1>18, <3>2, <3>3, StatusFields
  <2>3. LogInv(r)'
    BY <1>18 DEF GetStatus, WatcherStep
  <2>4. ReadInv(r)'
    BY <1>18, StatusFields DEF GetStatus, WatcherStep
  <2>5. ServersInv(r)'
    BY <1>18 DEF GetStatus, WatcherStep
  <2>6. PassedInv(r)'
    BY <1>18, StatusFields DEF GetStatus, WatcherStep
  <2>7. SettledInv(r)'
    BY <1>18 DEF GetStatus, WatcherStep
  <2> QED BY <2>1, <2>2, <2>3, <2>4, <2>5, <2>6, <2>7
<1>19. ASSUME NEW r \in Requests, LoadCluster
      PROVE  RequestInv(r)'
  <2> watcher.pc = "sweep" => watcher.cur = None
    BY DEF WatcherInv
  <2>1. HandlerInv(r)'
    BY <1>19 DEF LoadCluster, WatcherStep
  <2>2. SweepInv(r)'
    BY <1>19, LoadFields DEF LoadCluster, WatcherStep
  <2>3. LogInv(r)'
    BY <1>19 DEF LoadCluster, WatcherStep
  <2>4. ReadInv(r)'
    BY <1>19, LoadFields DEF LoadCluster, WatcherStep
  <2>5. ServersInv(r)'
    BY <1>19 DEF LoadCluster, WatcherStep
  <2>6. PassedInv(r)'
    BY <1>19, LoadFields DEF LoadCluster, WatcherStep
  <2>7. SettledInv(r)'
    BY <1>19 DEF LoadCluster, WatcherStep
  <2> QED BY <2>1, <2>2, <2>3, <2>4, <2>5, <2>6, <2>7
<1>20. ASSUME NEW r \in Requests, DecodeLog
      PROVE  RequestInv(r)'
  <2> watcher.pc = "sweep" => watcher.cur = None
    BY DEF WatcherInv
  <2>1. HandlerInv(r)'
    BY <1>20 DEF DecodeLog, WatcherStep
  <2>2. SweepInv(r)'
    BY <1>20, DecodeFields DEF DecodeLog, WatcherStep
  <2>3. LogInv(r)'
    BY <1>20 DEF DecodeLog, WatcherStep
  <2>4. ReadInv(r)'
    <3> SUFFICES ASSUME watcher.cur = r
                 PROVE  ReadInv(r)'
      BY <1>20, DecodeFields
    <3>1. box[r] = "exited" /\ (watcher.name = cname[r] \/ (watcher.name = None /\ row[r] # "live"))
      BY <1>20 DEF DecodeLog, WatcherStep
    <3>2. LogIsOwn(r)' <=> LogIsOwn(r)
      BY <1>20 DEF DecodeLog, WatcherStep
    <3>3. CASE watcher'.pc = "store" /\ watcher.name # None
      <4>1. /\ file[cname[r]].body = "closed" /\ watcher'.info = file[cname[r]].info
            /\ file[cname[r]].verdict # None => watcher'.verdict = file[cname[r]].verdict
        BY <1>20, <3>1, <3>3, DecodeFields
      <4>2. LogIsOwn(r) => play[r] = "ended"
        BY <3>1, <4>1
      <4>3. UNCHANGED <<row, play, outcome>> /\ watcher'.pc = "store"
        BY <1>20, <3>3 DEF DecodeLog, WatcherStep
      <4>4. LogIsOwn(r) => /\ watcher'.info \subseteq {r}
                           /\ watcher'.verdict = outcome[r]
        BY <3>1, <4>1, <4>2
      <4> QED BY <3>2, <4>2, <4>3, <4>4
    <3>4. CASE watcher'.pc = "settle_op" /\ watcher'.verdict = "failed"
      <4>1. watcher.name = None \/ file[watcher.name].body # "closed"
        BY <1>20, <3>4, DecodeFields
      <4>2. ~(LogIsOwn(r) /\ row[r] = "live" /\ play[r] = "ended")
        BY <3>1, <4>1
      <4> QED BY <1>20, <3>2, <3>4, <4>2 DEF DecodeLog, WatcherStep
    <3> QED BY <1>20, <3>3, <3>4, DecodeFields
  <2>5. ServersInv(r)'
    BY <1>20 DEF DecodeLog, WatcherStep
  <2>6. PassedInv(r)'
    BY <1>20, DecodeFields DEF DecodeLog, WatcherStep
  <2>7. SettledInv(r)'
    BY <1>20 DEF DecodeLog, WatcherStep
  <2> QED BY <2>1, <2>2, <2>3, <2>4, <2>5, <2>6, <2>7
<1>21. ASSUME NEW r \in Requests, StoreServers
      PROVE  RequestInv(r)'
  BY <1>21 DEF StoreServers, WatcherStep, WatcherInv, Resting, NoLog
<1>22. ASSUME NEW r \in Requests, SettleOperation
      PROVE  RequestInv(r)'
  BY <1>22 DEF SettleOperation, WatcherStep, WatcherInv, Resting, NoLog
<1>23. ASSUME NEW r \in Requests, SettleCluster
      PROVE  RequestInv(r)'
  BY <1>23 DEF SettleCluster, WatcherStep, WatcherInv, Resting, NoLog
<1>24. ASSUME NEW r \in Requests, RemoveContainer
      PROVE  RequestInv(r)'
  BY <1>24 DEF RemoveContainer, WatcherStep, WatcherInv, Resting, NoLog
<1>25. ASSUME NEW r \in Requests, Restart
      PROVE  RequestInv(r)'
  BY <1>25 DEF Restart, Resting
<1>26. ASSUME NEW r \in Requests, UNCHANGED vars
      PROVE  RequestInv(r)'
  BY <1>26 DEF vars
<1> HIDE DEF IInv, TypeInv, TypeOK, RequestInv, HandlerInv, Begun, SweepInv, Pending,
             LogInv, LogIsOwn, ReadInv, ServersInv, PassedInv, SettledInv
<1> QED
  BY <1>1, <1>2, <1>3, <1>4, <1>5, <1>6, <1>7, <1>8, <1>9, <1>10, <1>11, <1>12, <1>13,
     <1>14, <1>15, <1>16, <1>17, <1>18, <1>19, <1>20, <1>21, <1>22, <1>23, <1>24, <1>25,
     <1>26
     DEF Next, PostCluster, Container, RemoveCluster, LogWatcher

-----------------------------------------------------------------------------
(* collectContainerLog reads whatever file bears the cluster's name.  Even *)
(* so, with any number of deployments of a name, a verdict is the own      *)
(* playbook's, unless another container wrote to the file or the own one   *)
(* never opened it.                                                        *)
THEOREM VerdictCorrect == Spec => []VerdictIsOwn
<1>1. IInv => VerdictIsOwn
  BY DEF IInv, RequestInv, SettledInv, VerdictIsOwn
<1> QED BY <1>1, InvInit, InvStep, PTL DEF Spec

(* The rows StoreServers adds to a cluster are its own deployment's hosts, *)
(* under the same proviso.                                                 *)
THEOREM InventoryCorrect == Spec => []InventoryIsOwn
<1>1. IInv => InventoryIsOwn
  BY DEF IInv, RequestInv, SettledInv, InventoryIsOwn
<1> QED BY <1>1, InvInit, InvStep, PTL DEF Spec

(* doWork removes a container although collecting its log failed: that     *)
(* loses an operation only where a database error was dropped.             *)
THEOREM RemovalCorrect == Spec => []RemovedWhenSettled
<1>1. IInv => RemovedWhenSettled
  BY DEF IInv, RequestInv, SettledInv, RemovedWhenSettled
<1> QED BY <1>1, InvInit, InvStep, PTL DEF Spec

(* The only steps that write an operation's status.  The watcher's writes  *)
(* one that is pending, whatever happened since the sweep queued it.       *)
LEMMA SettledStep ==
  ASSUME IInv, [Next]_vars, NEW r \in Requests, op[r] \in Verdicts
  PROVE  op'[r] \in {op[r], "deleted"}
<1> USE DEF IInv, TypeInv, TypeOK, RequestInv, HandlerInv, Begun, SweepInv, Pending,
            Verdicts, dbVars, boxVars, requestVars, envVars, WatcherStep,
            RemovalStep, BoxStep, HasOp
<1>1. ASSUME NEW s \in Requests, PostCluster(s)
      PROVE  op'[r] = op[r]
  BY <1>1 DEF PostCluster, GetClusterByName, CreateCluster, ImportServers,
              ManageCluster, CreateOperation, MarkFailed
<1>2. ASSUME NEW s \in Requests,
             \/ Container(s) \/ DeleteClusterSoft(s) \/ Ages(s)
      PROVE  op'[r] = op[r]
  BY <1>2 DEF Container, OpenLog, RecordTask, RecordStats, ContainerExits,
              DeleteClusterSoft, Ages
<1>3. ASSUME NEW s \in Requests, RemoveCluster(s)
      PROVE  op'[r] \in {op[r], "deleted"}
  BY <1>3 DEF RemoveCluster, StartRemoval, DeleteOperations, DeleteServers, DeleteRow
<1>4. CASE SettleOperation
  <2>1. watcher.cur # r
    BY <1>4 DEF SettleOperation
  <2> QED BY <1>4, <2>1 DEF SettleOperation
<1>5. CASE LogWatcher /\ ~SettleOperation
  BY <1>5 DEF LogWatcher, GetInProgressOperations, GetStatus, LoadCluster, DecodeLog,
              StoreServers, SettleCluster, RemoveContainer
<1>6. CASE Restart \/ UNCHANGED vars
  BY <1>6 DEF Restart, vars
<1> HIDE DEF IInv
<1> QED BY <1>1, <1>2, <1>3, <1>4, <1>5, <1>6, ConstantsAssumption DEF Next

(* No restart, retry or later sweep settles an operation a second time     *)
(* with another result.                                                    *)
THEOREM SettlementStable == Spec => SettledOnce
<1>1. IInv /\ [Next]_vars
        => [\A r \in Requests : op[r] \in Verdicts => op'[r] \in {op[r], "deleted"}]_vars
  BY SettledStep
<1> QED BY <1>1, InvInit, InvStep, PTL DEF Spec, SettledOnce

-----------------------------------------------------------------------------
(***************************************************************************)
(* What is still to be done for a deployment.  The three properties are    *)
(* not inductive: each speaks of a request the watcher is not collecting,  *)
(* and the watcher leaves a request in two updates and a removal.          *)
(***************************************************************************)

(* A running container's operation is there or still to be created, or the *)
(* request went wrong.                                                     *)
TrackedInv(r) ==
  box[r] = "running" =>
    \/ op[r] \in {"in_progress", "deleted"}
    \/ pc[r] \in {"managed", "failing", "rejected", "lost"}

(* Only the watcher's cluster update is left of what could end             *)
(* "deploying" once the operation is settled.                              *)
AccountInv(r) ==
  r \notin dropped /\ HasRow(r) /\ status[r] = "deploying" =>
    \/ pc[r] \in {"inserted", "managed", "failing"}
    \/ op[r] \in {"in_progress", "deleted"}
    \/ watcher.cur = r /\ watcher.pc = "settle_cluster"

(* Between its two updates the watcher holds the verdict it stored; after  *)
(* them the cluster has it.                                                *)
FollowInv(r) ==
  r \notin dropped /\ op[r] \in Verdicts /\ pc[r] = "done" =>
    IF watcher.cur = r /\ watcher.pc = "settle_cluster"
    THEN watcher.verdict = op[r]
    ELSE status[r] = IF op[r] = "success" THEN "ready" ELSE "failed"

LeftInv(r) == TrackedInv(r) /\ AccountInv(r) /\ FollowInv(r)

JInv == IInv /\ \A r \in Requests : LeftInv(r)

(* Nothing is left to do before the first request.                         *)
LEMMA LeftInit == Init => JInv
  BY InvInit, ConstantsAssumption
     DEF Init, JInv, LeftInv, TrackedInv, AccountInv, FollowInv, HasRow, Verdicts

(* No step forgets a deployment, unless it drops an error.                 *)
LEMMA LeftStep == JInv /\ [Next]_vars => JInv'
<1> SUFFICES ASSUME JInv, [Next]_vars
             PROVE  \A r \in Requests : LeftInv(r)'
  BY InvStep DEF JInv
<1>w. watcher.pc = "sweep" => watcher.cur = None
  BY DEF JInv, IInv, TypeInv, WatcherInv
<1>t. \A r \in Requests : TypeOK /\ HandlerInv(r) /\ SweepInv(r) /\ LeftInv(r)
  BY DEF JInv, IInv, TypeInv, RequestInv
<1> USE <1>t, ConstantsAssumption
    DEF TypeOK, HandlerInv, Begun, SweepInv, Pending, HasOp, HasRow, Verdicts,
        LeftInv, TrackedInv, AccountInv, FollowInv,
        dbVars, boxVars, requestVars, envVars, Ok, Fault, FaultOf, Dropped, Goto
<1>1. ASSUME NEW r \in Requests, NEW s \in Requests, PostCluster(s)
      PROVE  LeftInv(r)'
  <2>1. CASE GetClusterByName(s)
    BY <2>1 DEF GetClusterByName
  <2>2. CASE CreateCluster(s)
    BY <2>2 DEF CreateCluster
  <2>3. CASE ImportServers(s)
    BY <2>3 DEF ImportServers
  <2>4. CASE ManageCluster(s)
    BY <2>4 DEF ManageCluster
  <2>5. CASE CreateOperation(s)
    BY <2>5 DEF CreateOperation
  <2>6. CASE MarkFailed(s)
    BY <2>6 DEF MarkFailed
  <2> QED BY <1>1, <2>1, <2>2, <2>3, <2>4, <2>5, <2>6 DEF PostCluster
<1>2. ASSUME NEW r \in Requests, NEW s \in Requests, Container(s)
      PROVE  LeftInv(r)'
  BY <1>2 DEF Container, OpenLog, RecordTask, RecordStats, ContainerExits, BoxStep
<1>3. ASSUME NEW r \in Requests, NEW s \in Requests, DeleteClusterSoft(s)
      PROVE  LeftInv(r)'
  BY <1>3 DEF DeleteClusterSoft
<1>4. ASSUME NEW r \in Requests, NEW s \in Requests, RemoveCluster(s)
      PROVE  LeftInv(r)'
  <2>1. CASE StartRemoval(s)
    BY <2>1 DEF StartRemoval, RemovalStep
  <2>2. CASE DeleteOperations(s)
    BY <2>2 DEF DeleteOperations, RemovalStep
  <2>3. CASE DeleteServers(s)
    BY <2>3 DEF DeleteServers, RemovalStep
  <2>4. CASE DeleteRow(s)
    BY <2>4 DEF DeleteRow, RemovalStep
  <2> QED BY <1>4, <2>1, <2>2, <2>3, <2>4 DEF RemoveCluster
<1>5. ASSUME NEW r \in Requests, NEW s \in Requests, Ages(s)
      PROVE  LeftInv(r)'
  BY <1>5 DEF Ages
<1>6. ASSUME NEW r \in Requests, LogWatcher
      PROVE  LeftInv(r)'
  <2> USE DEF WatcherStep
  <2>1. CASE GetInProgressOperations
    <3>1. watcher'.pc = "sweep" /\ watcher.pc = "sweep" /\ watcher'.cur = watcher.cur
      BY <2>1, SweepFields DEF GetInProgressOperations
    <3> QED BY <2>1, <3>1 DEF GetInProgressOperations
  <2>2. ASSUME NEW s \in Requests, GetStatus(s)
        PROVE  LeftInv(r)'
    <3>1. watcher.pc = "sweep" /\ watcher'.pc \in {"load", "sweep"}
      BY <2>2, StatusFields DEF GetStatus
    <3> QED BY <2>2, <3>1 DEF GetStatus
  <2>3. CASE LoadCluster
    <3>1. watcher.pc = "load" /\ watcher'.pc \in {"open", "remove"}
      BY <2>3, LoadFields DEF LoadCluster
    <3> QED BY <2>3, <3>1 DEF LoadCluster
  <2>4. CASE DecodeLog
    <3>1. watcher.pc = "open" /\ watcher'.pc \in {"store", "settle_op"}
      BY <2>4, DecodeFields DEF DecodeLog
    <3> QED BY <2>4, <3>1 DEF DecodeLog
  <2>5. CASE StoreServers
    <3>1. watcher.pc = "store" /\ watcher'.pc = "settle_op"
      BY <2>5 DEF StoreServers, Watchers
    <3> QED BY <2>5, <3>1 DEF StoreServers
  <2>6. CASE SettleOperation
    <3>1. /\ watcher.pc = "settle_op" /\ watcher'.pc = "settle_cluster"
          /\ watcher'.cur = watcher.cur /\ watcher'.verdict = watcher.verdict
      BY <2>6 DEF SettleOperation, Watchers
    <3> QED BY <2>6, <3>1 DEF SettleOperation
  <2>7. CASE SettleCluster
    <3>1. /\ watcher.pc = "settle_cluster" /\ watcher'.pc = "remove"
          /\ watcher'.cur = watcher.cur
      BY <2>7 DEF SettleCluster, Watchers
    <3> QED BY <2>7, <3>1 DEF SettleCluster
  <2>8. CASE RemoveContainer
    <3>1. watcher.pc = "remove" /\ watcher'.pc = "sweep"
      BY <2>8 DEF RemoveContainer, Resting
    <3> QED BY <2>8, <3>1 DEF RemoveContainer
  <2> QED BY <1>6, <2>1, <2>2, <2>3, <2>4, <2>5, <2>6, <2>7, <2>8 DEF LogWatcher
<1>7. ASSUME NEW r \in Requests, Restart
      PROVE  LeftInv(r)'
  <2>1. watcher'.pc = "sweep"
    BY <1>7 DEF Restart, Resting
  <2> QED BY <1>7, <2>1 DEF Restart
<1>8. ASSUME NEW r \in Requests, UNCHANGED vars
      PROVE  LeftInv(r)'
  BY <1>8 DEF vars
<1> HIDE <1>t DEF LeftInv, TypeOK
<1> QED
  BY <1>1, <1>2, <1>3, <1>4, <1>5, <1>6, <1>7, <1>8 DEF Next

(* Between ManageCluster and CreateOperation a container runs that no      *)
(* operation names.  That outlasts the handler only when the request was   *)
(* refused or its process killed, or when the cluster was removed.         *)
THEOREM TrackingCorrect == Spec => []RunningIsTracked
<1>1. JInv => RunningIsTracked
  BY DEF JInv, LeftInv, TrackedInv, RunningIsTracked
<1> QED BY <1>1, LeftInit, LeftStep, PTL DEF Spec

(* Whatever fails or crashes, no cluster is left "deploying" unaccounted   *)
(* for.                                                                    *)
THEOREM DeployingCorrect == Spec => []DeployingIsAccounted
<1>1. JInv => DeployingIsAccounted
  BY DEF JInv, LeftInv, AccountInv, DeployingIsAccounted
<1> QED BY <1>1, LeftInit, LeftStep, PTL DEF Spec

(* The operation's and the cluster's status are two updates in no          *)
(* transaction, and agree once the watcher is through with them.           *)
THEOREM StatusFollows == Spec => []ClusterFollowsOperation
<1>1. JInv => ClusterFollowsOperation
  BY DEF JInv, LeftInv, FollowInv, ClusterFollowsOperation
<1> QED BY <1>1, LeftInit, LeftStep, PTL DEF Spec

=============================================================================
