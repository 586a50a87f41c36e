---------------------------- MODULE Deployments ----------------------------
(***************************************************************************)
(* How the console deploys a cluster.  A POST /clusters request checks the *)
(* name, inserts the cluster, starts an automation container and records   *)
(* an operation, each in a statement of its own.  The container's playbook *)
(* writes a JSON log to a host file named after the cluster.  Once a       *)
(* minute the log watcher looks for containers that have ended, reads that *)
(* file, settles the operation and the cluster and removes the container.  *)
(* Users may soft-delete or remove a cluster at any moment; any call may   *)
(* fail and the service may crash between any two steps.                   *)
(*                                                                         *)
(* A request that gets that far creates one cluster row, one container and *)
(* one operation, so the request names all of them.                        *)
(***************************************************************************)
EXTENDS Naturals, FiniteSets

CONSTANTS
  Requests,    \* POST /clusters requests
  Names,       \* the cluster names users ask for
  None,        \* no request, or no file
  Deletable,   \* the requests whose cluster users may soft-delete,
  Removable,   \* may remove,
  Ageing,      \* and whose operation may outlive AnalyzePast
  MaxFaults,   \* how many database or Docker calls may fail
  MaxCrashes   \* how many times the service may be killed

ASSUME ConstantsAssumption ==
  /\ None \notin Requests \cup Names \cup {"success", "failed"}
  /\ Deletable \subseteq Requests
  /\ Removable \subseteq Requests
  /\ Ageing \subseteq Requests
  /\ MaxFaults \in Nat
  /\ MaxCrashes \in Nat

VARIABLES
  cname,     \* request -> the cluster name in its body
  pc,        \* request -> where its handler is
  row,       \* request -> its row in clusters
  status,    \* request -> cluster_status of that row
  servers,   \* request -> whose "System info" its rows in servers come from
  op,        \* request -> operation_status of its row in operations
  old,       \* requests whose operation is older than AnalyzePast
  removal,   \* request -> where a POST /clusters/{id}/remove of it is
  box,       \* request -> state of its container
  play,      \* request -> how far the playbook's log callback has got
  outcome,   \* request -> how the playbook ended
  file,      \* name -> the host file LogDir/<name>.json
  overlap,   \* requests whose log another container wrote to before the
             \* request's own container was gone (history, read by no action)
  dropped,   \* requests one of whose errors was dropped: logged or returned,
             \* with nothing left to retry or undo it (history)
  watcher,   \* the log watcher's locals
  faults, crashes

dbVars      == <<row, status, servers, op, old>>
boxVars     == <<box, play, outcome, file, overlap>>
requestVars == <<cname, pc, removal>>
envVars     == <<dropped, faults, crashes>>
vars == <<cname, pc, row, status, servers, op, old, removal, box, play,
          outcome, file, overlap, dropped, watcher, faults, crashes>>

-----------------------------------------------------------------------------
Verdicts == {"success", "failed"}

(* "lost": the process that ran the handler was killed. *)
HandlerPC == {"idle", "checked", "inserted", "importing", "managed",
              "failing", "done", "rejected", "lost"}

RemovalPC == {"idle", "started", "ops_deleted", "servers_deleted"}

WatcherPC == {"sweep", "load", "open", "store", "settle_op",
              "settle_cluster", "remove"}

(* A log file: the state of the first JSON array in it ("bad": no decoder  *)
(* accepts it), whose "System info" entries it holds, and the status of    *)
(* its summary.                                                            *)
Logs == [body: {"missing", "empty", "open", "bad", "closed"},
         info: SUBSET Requests,
         verdict: Verdicts \cup {None}]

NoLog == [body |-> "missing", info |-> {}, verdict |-> None]

Watchers == [pc: WatcherPC, queue: SUBSET Requests, cur: Requests \cup {None},
             name: Names \cup {None}, info: SUBSET Requests,
             verdict: Verdicts \cup {None}]

Resting == [pc |-> "sweep", queue |-> {}, cur |-> None, name |-> None,
            info |-> {}, verdict |-> None]

TypeOK ==
  /\ cname \in [Requests -> Names]
  /\ pc \in [Requests -> HandlerPC]
  /\ row \in [Requests -> {"absent", "live", "deleted"}]
  /\ status \in [Requests -> {"none", "deploying", "ready", "failed"}]
  /\ servers \in [Requests -> SUBSET Requests]
  /\ op \in [Requests -> {"none", "in_progress", "deleted"} \cup Verdicts]
  /\ old \subseteq Requests
  /\ removal \in [Requests -> RemovalPC]
  /\ box \in [Requests -> {"none", "running", "exited", "removed"}]
  /\ play \in [Requests -> {"init", "opened", "wrote", "ended", "ended_bare"}]
  /\ outcome \in [Requests -> Verdicts \cup {None}]
  /\ file \in [Names -> Logs]
  /\ overlap \subseteq Requests
  /\ dropped \subseteq Requests
  /\ watcher \in Watchers
  /\ faults \in 0..MaxFaults
  /\ crashes \in 0..MaxCrashes

Init ==
  /\ cname \in [Requests -> Names]
  /\ pc = [r \in Requests |-> "idle"]
  /\ row = [r \in Requests |-> "absent"]
  /\ status = [r \in Requests |-> "none"]
  /\ servers = [r \in Requests |-> {}]
  /\ op = [r \in Requests |-> "none"]
  /\ old = {}
  /\ removal = [r \in Requests |-> "idle"]
  /\ box = [r \in Requests |-> "none"]
  /\ play = [r \in Requests |-> "init"]
  /\ outcome = [r \in Requests |-> None]
  /\ file = [n \in Names |-> NoLog]
  /\ overlap = {}
  /\ dropped = {}
  /\ watcher = Resting
  /\ faults = 0
  /\ crashes = 0

(* A call succeeds, or it fails.  A failed call that changes a row or      *)
(* starts a container may still have taken effect: the reply was lost, or  *)
(* the client went away and its request's context was cancelled.           *)
Ok == UNCHANGED <<faults, dropped>>

FaultOf(drops) ==
  /\ faults < MaxFaults
  /\ faults' = faults + 1
  /\ dropped' = dropped \cup drops

Fault      == FaultOf({})
Dropped(r) == FaultOf({r})

HasRow(r)   == row[r] # "absent"
HasOp(r)    == op[r] \in {"in_progress"} \cup Verdicts
NameTaken(n) == \E r \in Requests : row[r] = "live" /\ cname[r] = n

Goto(r, label) == pc' = [pc EXCEPT ![r] = label]

-----------------------------------------------------------------------------
(* POST /clusters *)

(* An error of the lookup is only logged: the handler goes on as if the    *)
(* name were free.                                                         *)
GetClusterByName(r) ==
  /\ pc[r] = "idle"
  /\ \/ Ok /\ NameTaken(cname[r]) /\ Goto(r, "rejected")
     \/ Ok /\ ~NameTaken(cname[r]) /\ Goto(r, "checked")
     \/ Fault /\ Goto(r, "checked")
  /\ UNCHANGED <<cname, removal, dbVars, boxVars, watcher, crashes>>

(* cluster_name is unique in the table, and a soft-deleted row has been    *)
(* renamed.  An imported cluster is "ready" at once.                       *)
CreateCluster(r) ==
  /\ pc[r] = "checked"
  /\ \/ /\ ~NameTaken(cname[r])
        /\ row' = [row EXCEPT ![r] = "live"]
        /\ \E existing \in BOOLEAN :
             /\ status' = [status EXCEPT ![r] =
                             IF existing THEN "ready" ELSE "deploying"]
             /\ \/ Ok /\ Goto(r, IF existing THEN "importing" ELSE "inserted")
                \/ Dropped(r) /\ Goto(r, "rejected")
     \/ /\ (Ok /\ NameTaken(cname[r])) \/ Fault
        /\ Goto(r, "rejected")
        /\ UNCHANGED <<row, status>>
  /\ UNCHANGED <<cname, removal, servers, op, old, boxVars, watcher, crashes>>

(* The imported inventory's hosts; the handler gives up at the first error *)
(* and leaves the cluster as it is.                                        *)
ImportServers(r) ==
  /\ pc[r] = "importing"
  /\ \/ /\ Ok /\ HasRow(r)
        /\ servers' = [servers EXCEPT ![r] = @ \cup {r}]
        /\ Goto(r, "done")
     \/ /\ (Ok /\ ~HasRow(r)) \/ Fault
        /\ UNCHANGED servers
        /\ Goto(r, "rejected")
  /\ UNCHANGED <<cname, removal, row, status, op, old, boxVars, watcher, crashes>>

ManageCluster(r) ==
  /\ pc[r] = "inserted"
  /\ \/ /\ box' = [box EXCEPT ![r] = "running"]
        /\ (Ok /\ Goto(r, "managed")) \/ (Fault /\ Goto(r, "failing"))
     \/ Fault /\ Goto(r, "failing") /\ UNCHANGED box
  /\ UNCHANGED <<cname, removal, dbVars, play, outcome, file, overlap, watcher,
                 crashes>>

(* Variant: the error is returned but the deferred function does not see   *)
(* it, as with an err of an inner scope.                                   *)
CreateOperationUncompensated(r) ==
  /\ pc[r] = "managed"
  /\ \/ Ok /\ HasRow(r) /\ op' = [op EXCEPT ![r] = "in_progress"] /\ Goto(r, "done")
     \/ /\ (Ok /\ ~HasRow(r)) \/ Fault
        /\ Goto(r, "rejected")
        /\ UNCHANGED op
  /\ UNCHANGED <<cname, removal, row, status, servers, old, boxVars, watcher,
                 crashes>>

(* Refused by the foreign key when the cluster was removed meanwhile. *)
CreateOperation(r) ==
  /\ pc[r] = "managed"
  /\ \/ /\ HasRow(r)
        /\ op' = [op EXCEPT ![r] = "in_progress"]
        /\ (Ok /\ Goto(r, "done")) \/ (Fault /\ Goto(r, "failing"))
     \/ /\ (Ok /\ ~HasRow(r)) \/ Fault
        /\ Goto(r, "failing")
        /\ UNCHANGED op
  /\ UNCHANGED <<cname, removal, row, status, servers, old, boxVars, watcher,
                 crashes>>

(* The deferred function; its own error is only logged. *)
MarkFailed(r) ==
  /\ pc[r] = "failing"
  /\ Goto(r, "rejected")
  /\ \/ Ok /\ status' = [status EXCEPT ![r] = IF HasRow(r) THEN "failed" ELSE @]
     \/ Dropped(r) /\ UNCHANGED status
  /\ UNCHANGED <<cname, removal, row, servers, op, old, boxVars, watcher, crashes>>

PostCluster(r) ==
  \/ GetClusterByName(r) \/ CreateCluster(r) \/ ImportServers(r)
  \/ ManageCluster(r) \/ CreateOperation(r) \/ MarkFailed(r)

-----------------------------------------------------------------------------
(* DELETE /clusters/{id} and POST /clusters/{id}/remove *)

(* Renames the row, whatever is going on with the cluster. *)
DeleteClusterSoft(r) ==
  /\ row[r] = "live"
  /\ row' = [row EXCEPT ![r] = "deleted"]
  /\ UNCHANGED <<requestVars, status, servers, op, old, boxVars, watcher, envVars>>

RemovalStep(r, from, to) ==
  /\ removal[r] = from
  /\ removal' = [removal EXCEPT ![r] = to]
  /\ UNCHANGED <<cname, pc, old, boxVars, watcher, crashes>>

(* The container runs the playbook with state=absent.  It has no operation *)
(* and no log file, and nothing looks at it again.                         *)
StartRemoval(r) ==
  /\ HasRow(r)
  /\ \/ Ok /\ RemovalStep(r, "idle", "started")
     \/ Fault /\ RemovalStep(r, "idle", "idle")
  /\ UNCHANGED <<row, status, servers, op>>

(* DeleteCluster is three statements in no transaction.  A failed one ends *)
(* the request and what the earlier ones deleted stays deleted.            *)
DeleteOperations(r) ==
  /\ op' = [op EXCEPT ![r] = IF HasOp(r) THEN "deleted" ELSE @]
  /\ \/ Ok /\ RemovalStep(r, "started", "ops_deleted")
     \/ Fault /\ RemovalStep(r, "started", "idle")
  /\ UNCHANGED <<row, status, servers>>

DeleteServers(r) ==
  /\ servers' = [servers EXCEPT ![r] = {}]
  /\ \/ Ok /\ RemovalStep(r, "ops_deleted", "servers_deleted")
     \/ Fault /\ RemovalStep(r, "ops_deleted", "idle")
  /\ UNCHANGED <<row, status, op>>

DeleteRow(r) ==
  /\ \/ /\ Ok /\ ~HasOp(r) /\ servers[r] = {}
        /\ row' = [row EXCEPT ![r] = "absent"]
        /\ status' = [status EXCEPT ![r] = "none"]
        /\ RemovalStep(r, "servers_deleted", "idle")
     \/ /\ (Ok /\ (HasOp(r) \/ servers[r] # {})) \/ Fault
        /\ UNCHANGED <<row, status>>
        /\ RemovalStep(r, "servers_deleted", "idle")
  /\ UNCHANGED <<servers, op>>

RemoveCluster(r) ==
  \/ StartRemoval(r) \/ DeleteOperations(r) \/ DeleteServers(r) \/ DeleteRow(r)

-----------------------------------------------------------------------------
(* The container: Ansible with the json_log callback *)

(* Requests whose log r writes to while their own container is still there. *)
Disturbs(r) == {s \in Requests \ {r} : cname[s] = cname[r]
                                       /\ box[s] \in {"running", "exited"}}

WriteLog(r, log) ==
  /\ file' = [file EXCEPT ![cname[r]] = log]
  /\ overlap' = overlap \cup Disturbs(r)

BoxStep(r) ==
  /\ box[r] = "running"
  /\ UNCHANGED <<requestVars, dbVars, watcher, envVars>>

(* Variant: the file is opened for appending. *)
OpenLogAppending(r) ==
  LET log == file[cname[r]] IN
  /\ BoxStep(r)
  /\ play[r] = "init"
  /\ play' = [play EXCEPT ![r] = "opened"]
  /\ WriteLog(r, IF log.body = "missing" THEN [log EXCEPT !.body = "empty"] ELSE log)
  /\ UNCHANGED <<box, outcome>>

(* The plugin truncates the file and writes the opening bracket. *)
OpenLog(r) ==
  /\ BoxStep(r)
  /\ play[r] = "init"
  /\ play' = [play EXCEPT ![r] = "opened"]
  /\ WriteLog(r, [NoLog EXCEPT !.body = "empty"])
  /\ UNCHANGED <<box, outcome>>

(* A comma goes before every entry but the first this plugin writes, so    *)
(* the array stays well formed only when that agrees with the file.        *)
RecordTask(r) ==
  LET log  == file[cname[r]]
      fits == (log.body = "open") <=> (play[r] = "wrote")
  IN  /\ BoxStep(r)
      /\ play[r] \in {"opened", "wrote"}
      /\ play' = [play EXCEPT ![r] = "wrote"]
      /\ \E info \in {{}, {r}} :
           WriteLog(r, CASE log.body \in {"empty", "open"} /\ fits ->
                              [log EXCEPT !.body = "open", !.info = @ \cup info]
                         [] log.body \in {"empty", "open"} /\ ~fits ->
                              [log EXCEPT !.body = "bad"]
                         [] OTHER -> log)
      /\ UNCHANGED <<box, outcome>>

(* The summary always starts with a comma, even when no task was recorded. *)
RecordStats(r) ==
  LET log == file[cname[r]] IN
  /\ BoxStep(r)
  /\ play[r] \in {"opened", "wrote"}
  /\ play' = [play EXCEPT ![r] = IF @ = "wrote" THEN "ended" ELSE "ended_bare"]
  /\ \E v \in Verdicts :
       /\ outcome' = [outcome EXCEPT ![r] = v]
       /\ WriteLog(r, CASE log.body = "empty" -> [log EXCEPT !.body = "bad"]
                        [] log.body = "open" ->
                             [log EXCEPT !.body = "closed", !.verdict = v]
                        [] OTHER -> log)
  /\ UNCHANGED box

(* At its end, or killed at any point before. *)
ContainerExits(r) ==
  /\ BoxStep(r)
  /\ box' = [box EXCEPT ![r] = "exited"]
  /\ UNCHANGED <<play, outcome, file, overlap>>

Container(r) == OpenLog(r) \/ RecordTask(r) \/ RecordStats(r) \/ ContainerExits(r)

-----------------------------------------------------------------------------
(* The log watcher *)

WatcherStep(from) ==
  /\ watcher.pc = from
  /\ UNCHANGED <<requestVars, row, old, play, outcome, file, overlap, crashes>>

(* Variant: the query does not filter on the status. *)
GetAllOperations ==
  /\ WatcherStep("sweep")
  /\ watcher.queue = {}
  /\ Ok
  /\ watcher' = [watcher EXCEPT !.queue = {r \in Requests : HasOp(r) /\ r \notin old}]
  /\ UNCHANGED <<status, servers, op, box>>

(* doWork: the operations to look at, in no particular order. *)
GetInProgressOperations ==
  /\ WatcherStep("sweep")
  /\ watcher.queue = {}
  /\ \/ /\ Ok
        /\ watcher' = [watcher EXCEPT !.queue =
                         {r \in Requests : op[r] = "in_progress" /\ r \notin old}]
     \/ Fault /\ UNCHANGED watcher
  /\ UNCHANGED <<status, servers, op, box>>

(* Variant: any container that is there counts as ended. *)
GetStatusAny(r) ==
  /\ WatcherStep("sweep")
  /\ r \in watcher.queue
  /\ Ok
  /\ watcher' = IF box[r] \in {"running", "exited"}
                THEN [watcher EXCEPT !.queue = @ \ {r}, !.cur = r, !.pc = "load"]
                ELSE [watcher EXCEPT !.queue = @ \ {r}]
  /\ UNCHANGED <<status, servers, op, box>>

(* A container that is gone is an error, and the operation is skipped. *)
GetStatus(r) ==
  /\ WatcherStep("sweep")
  /\ r \in watcher.queue
  /\ \/ /\ Ok /\ box[r] = "exited"
        /\ watcher' = [watcher EXCEPT !.queue = @ \ {r}, !.cur = r, !.pc = "load"]
     \/ /\ (Ok /\ box[r] # "exited") \/ Fault
        /\ watcher' = [watcher EXCEPT !.queue = @ \ {r}]
  /\ UNCHANGED <<status, servers, op, box>>

(* Variant: GetCluster filters on deleted_at as GetClusters does. *)
LoadLiveCluster ==
  LET r == watcher.cur IN
  /\ WatcherStep("load")
  /\ Ok
  /\ watcher' = IF row[r] = "live"
                THEN [watcher EXCEPT !.pc = "open", !.name = cname[r]]
                ELSE [watcher EXCEPT !.pc = "remove"]
  /\ UNCHANGED <<status, servers, op, box>>

(* Without the cluster nothing is collected, but the container is removed. *)
LoadCluster ==
  LET r == watcher.cur IN
  /\ WatcherStep("load")
  /\ \/ /\ Ok /\ HasRow(r)
        /\ watcher' = [watcher EXCEPT !.pc = "open",
                         !.name = IF row[r] = "live" THEN cname[r] ELSE None]
     \/ /\ (Ok /\ ~HasRow(r)) \/ Dropped(r)
        /\ watcher' = [watcher EXCEPT !.pc = "remove"]
  /\ UNCHANGED <<status, servers, op, box>>

(* A file that is missing, unfinished or not JSON fails the operation, and *)
(* so does an array without a summary.                                     *)
DecodeLog ==
  LET log == IF watcher.name = None THEN NoLog ELSE file[watcher.name] IN
  /\ WatcherStep("open")
  /\ watcher' = IF log.body = "closed"
                THEN [watcher EXCEPT !.pc = "store", !.info = log.info,
                                     !.verdict = IF log.verdict = None
                                                 THEN "failed" ELSE log.verdict]
                ELSE [watcher EXCEPT !.pc = "settle_op", !.verdict = "failed"]
  /\ UNCHANGED <<status, servers, op, box, dropped, faults>>

(* CreateServer for each "System info" entry; an error skips the entry. *)
StoreServers ==
  LET r == watcher.cur IN
  /\ WatcherStep("store")
  /\ \/ /\ Ok
        /\ servers' = [servers EXCEPT ![r] =
                         IF HasRow(r) THEN @ \cup watcher.info ELSE @]
     \/ Fault /\ UNCHANGED servers
  /\ watcher' = [watcher EXCEPT !.pc = "settle_op"]
  /\ UNCHANGED <<status, op, box>>

(* The two updates; an error of either is only logged. *)
SettleOperation ==
  LET r == watcher.cur IN
  /\ WatcherStep("settle_op")
  /\ \/ Ok /\ op' = [op EXCEPT ![r] = IF HasOp(r) THEN watcher.verdict ELSE @]
     \/ Dropped(r) /\ UNCHANGED op
  /\ watcher' = [watcher EXCEPT !.pc = "settle_cluster"]
  /\ UNCHANGED <<status, servers, box>>

(* Variant: a collected cluster is ready. *)
SettleClusterReady ==
  LET r == watcher.cur IN
  /\ WatcherStep("settle_cluster")
  /\ Ok
  /\ status' = [status EXCEPT ![r] = IF HasRow(r) THEN "ready" ELSE @]
  /\ watcher' = [watcher EXCEPT !.pc = "remove"]
  /\ UNCHANGED <<servers, op, box>>

SettleCluster ==
  LET r      == watcher.cur
      result == IF watcher.verdict = "failed" THEN "failed" ELSE "ready"
  IN  /\ WatcherStep("settle_cluster")
      /\ \/ Ok /\ status' = [status EXCEPT ![r] = IF HasRow(r) THEN result ELSE @]
         \/ Dropped(r) /\ UNCHANGED status
      /\ watcher' = [watcher EXCEPT !.pc = "remove"]
      /\ UNCHANGED <<servers, op, box>>

RemoveContainer ==
  /\ WatcherStep("remove")
  /\ \/ Ok /\ box' = [box EXCEPT ![watcher.cur] = "removed"]
     \/ Fault /\ UNCHANGED box
  /\ watcher' = [Resting EXCEPT !.queue = watcher.queue]
  /\ UNCHANGED <<status, servers, op>>

LogWatcher ==
  \/ GetInProgressOperations \/ (\E r \in Requests : GetStatus(r))
  \/ LoadCluster \/ DecodeLog \/ StoreServers \/ SettleOperation
  \/ SettleCluster \/ RemoveContainer

-----------------------------------------------------------------------------
(* The environment *)

(* More than AnalyzePast has gone by since the operation was created. *)
Ages(r) ==
  /\ op[r] = "in_progress"
  /\ r \notin old
  /\ old' = old \cup {r}
  /\ UNCHANGED <<requestVars, row, status, servers, op, boxVars, watcher, envVars>>

(* The service is killed and started again: handlers and the watcher's     *)
(* sweep are gone, rows, files and containers stay.  What the handlers had *)
(* left to do, and a cluster update the watcher had left, is dropped.      *)
Restart ==
  /\ crashes < MaxCrashes
  /\ crashes' = crashes + 1
  /\ pc' = [r \in Requests |->
              IF pc[r] \in {"idle", "done", "rejected"} THEN pc[r] ELSE "lost"]
  /\ removal' = [r \in Requests |-> "idle"]
  /\ watcher' = Resting
  /\ dropped' = dropped
       \cup {r \in Requests : pc[r] \in {"inserted", "managed", "failing"}}
       \cup {r \in Requests : r = watcher.cur /\ watcher.pc = "settle_cluster"}
  /\ UNCHANGED <<cname, dbVars, boxVars, faults>>

Next ==
  \/ \E r \in Requests : PostCluster(r) \/ Container(r)
  \/ \E r \in Deletable : DeleteClusterSoft(r)
  \/ \E r \in Removable : RemoveCluster(r)
  \/ \E r \in Ageing : Ages(r)
  \/ LogWatcher
  \/ Restart

(* The watcher's timer is re-armed after every sweep and its steps do not  *)
(* wait for one another; a playbook ends (or its container is killed).     *)
Fairness ==
  /\ WF_vars(LogWatcher)
  /\ \A r \in Requests : WF_vars(ContainerExits(r))

Spec     == Init /\ [][Next]_vars
FairSpec == Spec /\ Fairness

-----------------------------------------------------------------------------
(* Properties *)

(* log_watcher.go reads whatever LogDir/<name>.json holds, so a result can *)
(* be another deployment's: when another container wrote there while the   *)
(* request's own was around, or when the own one died before its playbook  *)
(* opened the log and an earlier cluster of that name left a file behind.  *)
LogIsOwn(r) == r \notin overlap /\ play[r] # "init"

(* Apart from that, the verdict stored is the one the own playbook ended   *)
(* with: a success is never another run's, and a finished playbook of a    *)
(* live cluster that succeeded is never stored as failed.                  *)
VerdictIsOwn ==
  \A r \in Requests :
    LogIsOwn(r) =>
      /\ op[r] = "success" => outcome[r] = "success"
      /\ op[r] = "failed" /\ row[r] = "live" /\ play[r] = "ended"
           => outcome[r] = "failed"

(* And the servers collectContainerLog stores for a cluster are the hosts  *)
(* of its own deployment.                                                  *)
InventoryIsOwn ==
  \A r \in Requests : LogIsOwn(r) => servers[r] \subseteq {r}

(* A settled operation is not settled again with another result, by a      *)
(* later sweep, after a restart or after an error: only removing the       *)
(* cluster deletes it.                                                     *)
SettledOnce ==
  [][\A r \in Requests :
       op[r] \in Verdicts => op'[r] \in {op[r], "deleted"}]_vars

(* doWork removes the container even when collecting its log went wrong,   *)
(* and an operation whose container is gone is skipped for ever.  That     *)
(* happens to no operation unless a database error was dropped.            *)
RemovedWhenSettled ==
  \A r \in Requests \ dropped : box[r] = "removed" => op[r] # "in_progress"

(* A deployment runs unobserved only if its request was refused or its     *)
(* handler killed, or if its cluster was removed under it.                 *)
RunningIsTracked ==
  \A r \in Requests :
    box[r] = "running" =>
      \/ op[r] \in {"in_progress", "deleted"}
      \/ pc[r] \in {"managed", "failing", "rejected", "lost"}

(* A cluster is not left "deploying": a handler, the operation or the      *)
(* watcher will still change it, or an error was dropped, or a removal     *)
(* took the operation away and then failed.                                *)
DeployingIsAccounted ==
  \A r \in Requests \ dropped :
    HasRow(r) /\ status[r] = "deploying" =>
      \/ pc[r] \in {"inserted", "managed", "failing"}
      \/ op[r] \in {"in_progress", "deleted"}
      \/ watcher.cur = r

(* Two separate updates keep the cluster's status in step with its         *)
(* operation's once the watcher is through with it.                        *)
ClusterFollowsOperation ==
  \A r \in Requests \ dropped :
    op[r] \in Verdicts /\ pc[r] = "done" /\ watcher.cur # r =>
      status[r] = IF op[r] = "success" THEN "ready" ELSE "failed"

(* Every operation is settled in the end, unless it outlived AnalyzePast,  *)
(* an error was dropped or its cluster was removed.                        *)
OperationSettles ==
  \A r \in Requests :
    op[r] = "in_progress" ~> (op[r] # "in_progress" \/ r \in old \/ r \in dropped)

=============================================================================
