--------------------------- MODULE ClusterHealth ---------------------------
(***************************************************************************)
(* How the console follows the health of one cluster.  Once a minute the   *)
(* cluster watcher's sweep, and at any moment a POST /clusters/{id}/refresh*)
(* request, runs HandleCluster: it copies the cluster's row, lists its     *)
(* servers, asks them one by one for Patroni's view until one answers,     *)
(* upserts the members, judges the cluster by its copy of server_count and *)
(* resets the servers Patroni did not list.  Meanwhile the log watcher may *)
(* still be storing the deployment, users may delete servers or the        *)
(* cluster, and the Patroni cluster itself changes.                        *)
(*                                                                         *)
(* A statement on servers is two steps: its trigger counts the rows its    *)
(* snapshot shows, and the statement commits.  Soft deletion only takes    *)
(* the cluster out of the sweep and is left out.                           *)
(***************************************************************************)
EXTENDS Integers, FiniteSets

CONSTANTS
  Hosts,
  Courses,     \* the courses events may take, see course (a bound)
  Refreshes,   \* refresh requests
  Sweep,       \* the sweep's goroutine for this cluster
  LogWatcher,
  None         \* no host

ASSUME ConstantsAssumption ==
  /\ IsFiniteSet(Hosts)
  /\ \A c \in Courses : /\ c.deployed \subseteq Hosts
                          /\ {c.faults, c.changes, c.deletes} \subseteq Nat
  /\ Sweep \notin Refreshes
  /\ LogWatcher \notin Refreshes \cup {Sweep}
  /\ None \notin Hosts

VARIABLES
  course,     \* the hosts of the deployment; how many database or Patroni
              \* calls may fail, how often the Patroni cluster may change,
              \* how many DELETE requests users may send
  status,     \* cluster_status, "gone" when the row is
  connected,  \* the Patroni bit of flags
  count,      \* server_count
  rows,       \* hosts with a row in servers
  known,      \* those whose row shows a role and a state, not 'N/A'
  handler,    \* the locals of each HandleCluster
  writing,    \* writer -> host of the servers row it is writing, or None
  tally,      \* writer -> what its trigger counted
  deploy,     \* the log watcher: servers left to store, and whether it is
              \* through with the cluster
  removal,    \* where DeleteCluster is
  members, healthy, reachable,  \* the Patroni cluster
  faults, changes, deletes

clusterVars == <<status, connected>>
serverVars  == <<count, rows, known, writing, tally>>
patroniVars == <<members, healthy, reachable>>
vars == <<course, status, connected, count, rows, known, handler, writing, tally, deploy,
          removal, members, healthy, reachable, faults, changes, deletes>>

-----------------------------------------------------------------------------
Handlers == Refreshes \cup {Sweep}
Writers  == Handlers \cup {LogWatcher}

Statuses == {"deploying", "ready", "failed", "healthy", "unhealthy", "degraded",
             "unavailable", "gone"}

HandlerPC == {"idle", "servers", "ask", "update", "status", "reset", "done"}

Idle == [pc |-> "idle", count |-> 0, connected |-> FALSE, todo |-> {},
         stale |-> {}, members |-> {}, healthy |-> {}]

TypeOK ==
  /\ status \in Statuses
  /\ connected \in BOOLEAN
  /\ count \in 0..Cardinality(Hosts)
  /\ rows \subseteq Hosts
  /\ known \subseteq rows
  /\ handler \in [Handlers ->
       [pc: HandlerPC, count: 0..Cardinality(Hosts), connected: BOOLEAN,
        todo: SUBSET Hosts, stale: SUBSET Hosts, members: SUBSET Hosts,
        healthy: SUBSET Hosts]]
  /\ writing \in [Writers -> Hosts \cup {None}]
  /\ tally \in [Writers -> 0..Cardinality(Hosts)]
  /\ course \in Courses
  /\ deploy \in [todo: SUBSET course.deployed, settled: BOOLEAN]
  /\ removal \in {"no", "servers_deleted", "done"}
  /\ members \subseteq Hosts
  /\ healthy \subseteq members
  /\ reachable \subseteq members
  /\ faults \in 0..course.faults
  /\ changes \in 0..course.changes
  /\ deletes \in 0..course.deletes

(* The playbook has ended and Patroni runs on the hosts it deployed.  The  *)
(* request may not have said how many they would be.                       *)
Init ==
  /\ course \in Courses
  /\ status = "deploying"
  /\ connected = FALSE
  /\ count \in {0, Cardinality(course.deployed)}
  /\ rows = {}
  /\ known = {}
  /\ handler = [h \in Handlers |-> Idle]
  /\ writing = [w \in Writers |-> None]
  /\ tally = [w \in Writers |-> 0]
  /\ deploy = [todo |-> course.deployed, settled |-> FALSE]
  /\ removal = "no"
  /\ members = course.deployed
  /\ healthy = course.deployed
  /\ reachable = course.deployed
  /\ faults = 0
  /\ changes = 0
  /\ deletes = 0

Ok    == UNCHANGED faults
Fault == faults < course.faults /\ faults' = faults + 1

Present == status # "gone"

-----------------------------------------------------------------------------
(* Statements on servers *)

(* Variant: the count is kept by steps, one more for each upsert. *)
TriggerIncrements(w, s) ==
  /\ Present
  /\ writing' = [writing EXCEPT ![w] = s]
  /\ tally' = [tally EXCEPT ![w] = count + 1]
  /\ UNCHANGED <<count, rows, known>>

(* The row is written and update_server_count counts the rows committed so *)
(* far and its own.  A statement on a row another one is writing waits.    *)
TriggerCounts(w, s) ==
  /\ Present
  /\ \A v \in Writers : writing[v] # s
  /\ writing' = [writing EXCEPT ![w] = s]
  /\ tally' = [tally EXCEPT ![w] = Cardinality(rows \cup {s})]
  /\ UNCHANGED <<count, rows, known>>

Commit(w) ==
  /\ rows' = rows \cup {writing[w]}
  /\ count' = tally[w]
  /\ writing' = [writing EXCEPT ![w] = None]
  /\ tally' = [tally EXCEPT ![w] = 0]

-----------------------------------------------------------------------------
(* HandleCluster *)

HandlerStep(h, from) ==
  /\ handler[h].pc = from
  /\ UNCHANGED <<deploy, removal, patroniVars, changes, deletes>>

Becomes(h, locals) == handler' = [handler EXCEPT ![h] = locals]

(* Of its locals the handler needs only serversMap from here on. *)
TurnsToReset(h) == Becomes(h, [Idle EXCEPT !.pc = "reset", !.stale = handler[h].stale])

(* A refresh answers its request, a sweep comes round again. *)
Finish(h) == Becomes(h, [Idle EXCEPT !.pc = IF h = Sweep THEN "idle" ELSE "done"])

(* Variant: the sweep passes over clusters that are unavailable. *)
LoadAvailableCluster(h) ==
  /\ HandlerStep(h, "idle")
  /\ Ok /\ Present /\ (h = Sweep => status # "unavailable")
  /\ Becomes(h, [Idle EXCEPT !.pc = "servers", !.count = count,
                             !.connected = connected])
  /\ UNCHANGED <<clusterVars, serverVars>>

(* GetClusters for the sweep, GetCluster for a refresh. *)
LoadCluster(h) ==
  /\ HandlerStep(h, "idle")
  /\ \/ /\ Ok /\ Present
        /\ Becomes(h, [Idle EXCEPT !.pc = "servers", !.count = count,
                                   !.connected = connected])
     \/ /\ (Ok /\ ~Present /\ h # Sweep) \/ Fault
        /\ Finish(h)
  /\ UNCHANGED <<clusterVars, serverVars>>

GetClusterServers(h) ==
  /\ HandlerStep(h, "servers")
  /\ \/ Ok /\ Becomes(h, [handler[h] EXCEPT !.pc = "ask", !.todo = rows, !.stale = rows])
     \/ Fault /\ Finish(h)
  /\ UNCHANGED <<clusterVars, serverVars>>

(* The next server is asked.  The first answer, from whichever server, is  *)
(* Patroni's view of the whole cluster.                                    *)
GetClusterInfo(h) ==
  LET self == handler[h] IN
  /\ HandlerStep(h, "ask")
  /\ \E s \in self.todo :
       \/ /\ Ok /\ s \in reachable
          /\ Becomes(h, [self EXCEPT !.pc = "update", !.todo = members,
                                     !.members = members, !.healthy = healthy])
       \/ /\ (Ok /\ s \notin reachable) \/ Fault
          /\ Becomes(h, [self EXCEPT !.todo = @ \ {s}])
  /\ UNCHANGED <<clusterVars, serverVars>>

(* The request's or the watcher's context was cancelled. *)
GiveUp(h) ==
  /\ HandlerStep(h, "ask")
  /\ handler[h].todo # {}
  /\ Fault
  /\ Finish(h)
  /\ UNCHANGED <<clusterVars, serverVars>>

(* Variant: without a look at the flags. *)
MarkUnavailableAnyway(h) ==
  LET self == handler[h] IN
  /\ HandlerStep(h, "ask")
  /\ self.todo = {}
  /\ Ok
  /\ status' = IF Present THEN "unavailable" ELSE status
  /\ TurnsToReset(h)
  /\ UNCHANGED <<connected, serverVars>>

(* No server answered: the cluster is unavailable if it was connected when *)
(* the copy was made, and keeps its status otherwise.                      *)
MarkUnavailable(h) ==
  LET self == handler[h] IN
  /\ HandlerStep(h, "ask")
  /\ self.todo = {}
  /\ Ok \/ (self.connected /\ Fault)
  /\ status' = IF self.connected /\ Present /\ faults' = faults
               THEN "unavailable" ELSE status
  /\ TurnsToReset(h)
  /\ UNCHANGED <<connected, serverVars>>

(* A member that could not be upserted counts as stale if it has a row. *)
UpdateServer(h) ==
  LET self == handler[h] IN
  /\ HandlerStep(h, "update")
  /\ writing[h] = None
  /\ \E s \in self.todo :
       \/ Ok /\ TriggerCounts(h, s) /\ UNCHANGED handler
       \/ /\ (Ok /\ ~Present) \/ Fault
          /\ Becomes(h, [self EXCEPT !.todo = @ \ {s}])
          /\ UNCHANGED serverVars
  /\ UNCHANGED clusterVars

(* Variant: serversMap is keyed otherwise than the members are. *)
ServerUpdatedUnmarked(h) ==
  LET self == handler[h]
      s    == writing[h]
  IN  /\ HandlerStep(h, "update")
      /\ s # None
      /\ Ok
      /\ Commit(h)
      /\ known' = known \cup {s}
      /\ Becomes(h, [self EXCEPT !.todo = @ \ {s}])
      /\ UNCHANGED clusterVars

ServerUpdated(h) ==
  LET self == handler[h]
      s    == writing[h]
  IN  /\ HandlerStep(h, "update")
      /\ s # None
      /\ Commit(h)
      /\ known' = known \cup {s}
      /\ \/ Ok /\ Becomes(h, [self EXCEPT !.todo = @ \ {s}, !.stale = @ \ {s}])
         \/ Fault /\ Becomes(h, [self EXCEPT !.todo = @ \ {s}])
      /\ UNCHANGED clusterVars

Judge(expected, listed, well) ==
  CASE listed < expected -> "degraded"
    [] listed >= expected /\ well < expected -> "unhealthy"
    [] OTHER -> "healthy"

UpdateStatus(h) ==
  LET self == handler[h] IN
  /\ HandlerStep(h, "update")
  /\ self.todo = {}
  /\ \/ /\ Ok /\ Present
        /\ status' = Judge(self.count, Cardinality(self.members),
                           Cardinality(self.healthy))
        /\ connected' = TRUE
     \/ /\ (Ok /\ ~Present) \/ Fault
        /\ UNCHANGED clusterVars
  /\ TurnsToReset(h)
  /\ UNCHANGED serverVars

(* An update of no row is an error, which is only logged. *)
ResetServer(h) ==
  LET self == handler[h] IN
  /\ HandlerStep(h, "reset")
  /\ writing[h] = None
  /\ \/ \E s \in self.stale :
          \/ Ok /\ s \in rows /\ TriggerCounts(h, s) /\ UNCHANGED handler
          \/ /\ (Ok /\ s \notin rows) \/ Fault
             /\ Becomes(h, [self EXCEPT !.stale = @ \ {s}])
             /\ UNCHANGED serverVars
     \/ self.stale = {} /\ Ok /\ Finish(h) /\ UNCHANGED serverVars
  /\ UNCHANGED clusterVars

ServerReset(h) ==
  LET s == writing[h] IN
  /\ HandlerStep(h, "reset")
  /\ s # None
  /\ Ok
  /\ Commit(h)
  /\ known' = known \ {s}
  /\ Becomes(h, [handler[h] EXCEPT !.stale = @ \ {s}])
  /\ UNCHANGED clusterVars

HandleCluster(h) ==
  \/ LoadCluster(h) \/ GetClusterServers(h) \/ GetClusterInfo(h) \/ GiveUp(h)
  \/ MarkUnavailable(h) \/ UpdateServer(h) \/ ServerUpdated(h) \/ UpdateStatus(h)
  \/ ResetServer(h) \/ ServerReset(h)

-----------------------------------------------------------------------------
(* The log watcher's writes, see Deployments *)

LogWatcherStep == UNCHANGED <<handler, removal, patroniVars, faults, changes, deletes>>

(* A plain insert: the entry is skipped if the host has a row. *)
CreateServer ==
  /\ writing[LogWatcher] = None
  /\ \E s \in deploy.todo :
       \/ s \notin rows /\ TriggerCounts(LogWatcher, s) /\ UNCHANGED deploy
       \/ /\ s \in rows \/ ~Present
          /\ deploy' = [deploy EXCEPT !.todo = @ \ {s}]
          /\ UNCHANGED serverVars
  /\ LogWatcherStep
  /\ UNCHANGED clusterVars

ServerCreated ==
  /\ writing[LogWatcher] # None
  /\ Commit(LogWatcher)
  /\ deploy' = [deploy EXCEPT !.todo = @ \ {writing[LogWatcher]}]
  /\ LogWatcherStep
  /\ UNCHANGED <<known, clusterVars>>

SettleCluster ==
  /\ deploy.todo = {} /\ ~deploy.settled
  /\ deploy' = [deploy EXCEPT !.settled = TRUE]
  /\ status' \in IF Present THEN {"ready", "failed"} ELSE {status}
  /\ LogWatcherStep
  /\ UNCHANGED <<connected, serverVars>>

-----------------------------------------------------------------------------
(* Users *)

UserStep ==
  /\ deletes < course.deletes
  /\ UNCHANGED <<handler, deploy, patroniVars, faults, changes>>

(* new is null in a delete trigger, so no cluster's count is updated.  A   *)
(* row that is being written is locked.                                    *)
DeleteServer(s) ==
  /\ UserStep
  /\ deletes' = deletes + 1
  /\ s \in rows
  /\ \A w \in Writers : writing[w] # s
  /\ rows' = rows \ {s}
  /\ known' = known \ {s}
  /\ UNCHANGED <<clusterVars, count, writing, tally, removal>>

(* The second and third statement of DeleteCluster.  The second does not   *)
(* see a row that is not committed; the third waits for it and fails, as   *)
(* it does for any row added meanwhile.                                    *)
DeleteServers ==
  /\ UserStep
  /\ UNCHANGED deletes
  /\ removal = "no"
  /\ \A w \in Writers : writing[w] \notin rows
  /\ removal' = "servers_deleted"
  /\ rows' = {}
  /\ known' = {}
  /\ UNCHANGED <<clusterVars, count, writing, tally>>

DeleteRow ==
  /\ UserStep
  /\ deletes' = deletes + 1
  /\ removal = "servers_deleted"
  /\ \A w \in Writers : writing[w] = None
  /\ removal' = "done"
  /\ IF rows = {}
     THEN status' = "gone" /\ connected' = FALSE /\ count' = 0
     ELSE UNCHANGED <<clusterVars, count>>
  /\ UNCHANGED <<rows, known, writing, tally>>

(* Failovers, members joining and leaving, hosts going down. *)
PatroniChanges ==
  /\ changes < course.changes
  /\ changes' = changes + 1
  /\ members' \in SUBSET Hosts
  /\ healthy' \in SUBSET members'
  /\ reachable' \in SUBSET members'
  /\ UNCHANGED <<clusterVars, serverVars, handler, deploy, removal, faults, deletes>>

Step ==
  \/ \E h \in Handlers : HandleCluster(h)
  \/ CreateServer \/ ServerCreated \/ SettleCluster
  \/ (\E s \in Hosts : DeleteServer(s)) \/ DeleteServers \/ DeleteRow
  \/ PatroniChanges

Next == Step /\ UNCHANGED course

(* The sweep's timer is re-armed after every sweep, whoever runs           *)
(* HandleCluster gets to its end, and so does the log watcher.             *)
Fairness ==
  /\ WF_vars(HandleCluster(Sweep) /\ UNCHANGED course)
  /\ \A h \in Refreshes :
       WF_vars(handler[h].pc # "idle" /\ HandleCluster(h) /\ UNCHANGED course)
  /\ WF_vars((CreateServer \/ ServerCreated \/ SettleCluster) /\ UNCHANGED course)

Spec     == Init /\ [][Next]_vars
FairSpec == Spec /\ Fairness

-----------------------------------------------------------------------------
(* Properties *)

(* As long as Patroni lists and runs every deployed host, the cluster is   *)
(* not reported degraded or unhealthy, however sweeps, refreshes, the      *)
(* deployment's own inserts and deletions of servers interleave: no copy   *)
(* of server_count ever exceeds the hosts there are.                       *)
NoFalseAlarm == changes = 0 => status \notin {"degraded", "unhealthy"}

(* Nor does a server lose its role then, unless a call fails: a reset hits *)
(* only hosts that Patroni did not list.                                   *)
NoFalseReset ==
  [][changes' = 0 /\ faults' = 0 => known \cap rows' \subseteq known']_vars

(* "unavailable" tells a cluster the console has lost from one it never    *)
(* reached: the copy of the flags a handler decides by can be stale, but   *)
(* not so that it mistakes the one for the other.                          *)
UnavailableWasConnected == status = "unavailable" => connected

(* update_server_count keeps server_count equal to the number of servers:  *)
(* every statement that adds or removes rows leaves it so (the README of   *)
(* console/db says so of INSERT, UPDATE and DELETE).                       *)
CountFollowsServers ==
  [][rows' # rows /\ Present' => count' = Cardinality(rows')]_vars

(* What the console shows once all is quiet. *)
Agrees ==
  IF rows \cap reachable # {}
  THEN /\ members \subseteq rows
       /\ known = members
       /\ count = Cardinality(rows)
       /\ status = Judge(Cardinality(rows), Cardinality(members), Cardinality(healthy))
  ELSE /\ known = {}
       /\ connected => status = "unavailable"

(* The copies, races and failures notwithstanding, the sweeps bring the    *)
(* cluster's status, its servers and its count in step with Patroni for    *)
(* good once Patroni and the users leave it alone.                         *)
Converges == <>[](Present => Agrees)

=============================================================================
