------------------------ MODULE ClusterHealth_proofs ------------------------
(***************************************************************************)
(* Proofs about ClusterHealth, for any hosts, requests and courses: type   *)
(* correctness, that only a cluster that was connected is called           *)
(* unavailable, and that there is neither a false alarm nor a false reset. *)
(***************************************************************************)
EXTENDS ClusterHealth, FiniteSetTheorems, TLAPS

-----------------------------------------------------------------------------
(***************************************************************************)
(* Type correctness, in three parts.                                       *)
(***************************************************************************)

Counts == 0..Cardinality(Hosts)

Locals == [pc: HandlerPC, count: Counts, connected: BOOLEAN, todo: SUBSET Hosts,
           stale: SUBSET Hosts, members: SUBSET Hosts, healthy: SUBSET Hosts]

(* The cluster's row and its servers'. *)
RowsOK ==
  /\ status \in Statuses
  /\ connected \in BOOLEAN
  /\ count \in Counts
  /\ rows \subseteq Hosts
  /\ known \subseteq rows
  /\ writing \in [Writers -> Hosts \cup {None}]
  /\ tally \in [Writers -> Counts]

HandlersOK == handler \in [Handlers -> Locals]

(* Everything around. *)
WorldOK ==
  /\ course \in Courses
  /\ deploy \in [todo: SUBSET course.deployed, settled: BOOLEAN]
  /\ removal \in {"no", "servers_deleted", "done"}
  /\ members \subseteq Hosts
  /\ healthy \subseteq members
  /\ reachable \subseteq members
  /\ faults \in 0..course.faults
  /\ changes \in 0..course.changes
  /\ deletes \in 0..course.deletes

(* The types are those of the rows, the handlers and everything around. *)
LEMMA TypeParts ==
  /\ TypeOK <=> RowsOK /\ HandlersOK /\ WorldOK
  /\ TypeOK' <=> RowsOK' /\ HandlersOK' /\ WorldOK'
  BY DEF TypeOK, RowsOK, HandlersOK, WorldOK, Locals, Counts

(* A number of hosts is a count. *)
LEMMA CountType ==
  /\ Cardinality(Hosts) \in Nat
  /\ \A S \in SUBSET Hosts : IsFiniteSet(S) /\ Cardinality(S) \in Counts
<1>1. IsFiniteSet(Hosts) /\ Cardinality(Hosts) \in Nat
  BY ConstantsAssumption, FS_CardinalityType
<1>2. ASSUME NEW S \in SUBSET Hosts
      PROVE  IsFiniteSet(S) /\ Cardinality(S) \in Counts
  <2>1. IsFiniteSet(S) /\ Cardinality(S) <= Cardinality(Hosts)
    BY <1>1, FS_Subset
  <2> QED BY <1>1, <2>1, FS_CardinalityType DEF Counts
<1> QED BY <1>1, <1>2

(* What a course of events allows is counted. *)
LEMMA CourseType ==
  ASSUME WorldOK
  PROVE  /\ course.deployed \subseteq Hosts
         /\ course.faults \in Nat /\ course.changes \in Nat /\ course.deletes \in Nat
  BY ConstantsAssumption DEF WorldOK

(* The two halves of a statement on servers. *)
LEMMA TriggerType ==
  ASSUME RowsOK, NEW w \in Writers, NEW s \in Hosts, TriggerCounts(w, s)
  PROVE  /\ writing' \in [Writers -> Hosts \cup {None}]
         /\ tally' \in [Writers -> Counts]
         /\ UNCHANGED <<count, rows, known>>
<1>1. Cardinality(rows \cup {s}) \in Counts
  BY CountType DEF RowsOK
<1> QED BY <1>1 DEF RowsOK, TriggerCounts

(* The trigger's count and the written row are well typed at the commit. *)
LEMMA CommitType ==
  ASSUME RowsOK, NEW w \in Writers, writing[w] # None, Commit(w)
  PROVE  /\ writing' \in [Writers -> Hosts \cup {None}]
         /\ tally' \in [Writers -> Counts]
         /\ count' \in Counts
         /\ rows' \subseteq Hosts /\ rows' = rows \cup {writing[w]}
<1>1. 0 \in Counts
  BY CountType DEF Counts
<1> QED BY <1>1 DEF RowsOK, Commit

(* A handler's new locals. *)
LEMMA BecomesType ==
  ASSUME HandlersOK, NEW h \in Handlers, NEW r \in Locals, Becomes(h, r)
  PROVE  /\ HandlersOK'
         /\ handler'[h] = r
         /\ \A g \in Handlers \ {h} : handler'[g] = handler[g]
  BY DEF HandlersOK, Becomes

(* A handler that has ended, or begins anew, is a handler. *)
LEMMA IdleType ==
  /\ Idle \in Locals
  /\ \A p \in HandlerPC : [Idle EXCEPT !.pc = p] \in Locals
<1>1. 0 \in Counts
  BY CountType DEF Counts
<1> QED BY <1>1 DEF Idle, Locals, HandlerPC

(* The end of HandleCluster keeps the handlers' types. *)
LEMMA FinishType ==
  ASSUME HandlersOK, NEW h \in Handlers, Finish(h)
  PROVE  HandlersOK'
  BY IdleType, BecomesType DEF Finish, HandlerPC

(* So does turning to the servers that Patroni did not name. *)
LEMMA ResetType ==
  ASSUME HandlersOK, NEW h \in Handlers, TurnsToReset(h)
  PROVE  HandlersOK'
<1>1. [Idle EXCEPT !.pc = "reset", !.stale = handler[h].stale] \in Locals
  BY IdleType DEF HandlersOK, Locals, HandlerPC
<1> QED BY <1>1, BecomesType DEF TurnsToReset

(* Ok or Fault, with everything else around left alone. *)
LEMMA HandlerWorld ==
  ASSUME WorldOK, NEW h, NEW from, HandlerStep(h, from), Ok \/ Fault, UNCHANGED course
  PROVE  WorldOK'
<1>1. faults' \in 0..course.faults
  BY CourseType DEF Ok, Fault, WorldOK
<1> QED BY <1>1 DEF HandlerStep, patroniVars, WorldOK

(* A handler keeps the types, step by step. *)
LEMMA HandlerTypes ==
  ASSUME TypeOK, NEW h \in Handlers, HandleCluster(h), UNCHANGED course
  PROVE  TypeOK'
<1>0. /\ RowsOK /\ HandlersOK /\ WorldOK
      /\ handler[h] \in Locals /\ h \in Writers
  BY TypeParts DEF HandlersOK, Writers
<1>1. UNCHANGED <<clusterVars, serverVars>> => RowsOK'
  BY <1>0 DEF clusterVars, serverVars, RowsOK
<1>2. SUFFICES RowsOK' /\ HandlersOK' /\ WorldOK'
  BY TypeParts
<1>3. CASE LoadCluster(h)
  <2>1. [Idle EXCEPT !.pc = "servers", !.count = count, !.connected = connected] \in Locals
    BY <1>0, IdleType DEF RowsOK, Locals, Idle, HandlerPC
  <2> QED BY <1>0, <1>1, <1>3, <2>1, BecomesType, FinishType, HandlerWorld DEF LoadCluster
<1>4. CASE GetClusterServers(h)
  <2>1. [handler[h] EXCEPT !.pc = "ask", !.todo = rows, !.stale = rows] \in Locals
    BY <1>0 DEF RowsOK, Locals, HandlerPC
  <2> QED BY <1>0, <1>1, <1>4, <2>1, BecomesType, FinishType, HandlerWorld
          DEF GetClusterServers
<1>5. CASE GetClusterInfo(h)
  <2>1. [handler[h] EXCEPT !.pc = "update", !.todo = members,
                           !.members = members, !.healthy = healthy] \in Locals
    BY <1>0 DEF WorldOK, Locals, HandlerPC
  <2>2. \A s : [handler[h] EXCEPT !.todo = @ \ {s}] \in Locals
    BY <1>0 DEF Locals
  <2>3. HandlersOK' /\ (Ok \/ Fault)
    BY <1>0, <1>5, <2>1, <2>2, BecomesType DEF GetClusterInfo
  <2> QED BY <1>0, <1>1, <1>5, <2>3, HandlerWorld DEF GetClusterInfo
<1>6. CASE GiveUp(h)
  BY <1>0, <1>1, <1>6, FinishType, HandlerWorld DEF GiveUp
<1>7. CASE MarkUnavailable(h)
  <2>1. RowsOK'
    BY <1>0, <1>7 DEF MarkUnavailable, RowsOK, serverVars, Statuses
  <2> QED BY <1>0, <1>7, <2>1, ResetType, HandlerWorld DEF MarkUnavailable
<1>8. CASE UpdateServer(h)
  <2>1. PICK s \in handler[h].todo :
          \/ Ok /\ TriggerCounts(h, s) /\ UNCHANGED handler
          \/ /\ (Ok /\ ~Present) \/ Fault
             /\ Becomes(h, [handler[h] EXCEPT !.todo = @ \ {s}])
             /\ UNCHANGED serverVars
    BY <1>8 DEF UpdateServer
  <2>2. s \in Hosts /\ [handler[h] EXCEPT !.todo = @ \ {s}] \in Locals
    BY <1>0, <2>1 DEF Locals
  <2>3. UNCHANGED clusterVars /\ (Ok \/ Fault)
    BY <1>8, <2>1 DEF UpdateServer
  <2>4. RowsOK'
    BY <1>0, <1>1, <2>1, <2>2, <2>3, TriggerType DEF RowsOK, clusterVars
  <2>5. HandlersOK'
    BY <1>0, <2>1, <2>2, BecomesType DEF HandlersOK
  <2> QED BY <1>0, <1>8, <2>3, <2>4, <2>5, HandlerWorld DEF UpdateServer
<1>9. CASE ServerUpdated(h)
  <2>1. /\ [handler[h] EXCEPT !.todo = @ \ {writing[h]}, !.stale = @ \ {writing[h]}] \in Locals
        /\ [handler[h] EXCEPT !.todo = @ \ {writing[h]}] \in Locals
    BY <1>0 DEF Locals
  <2>2. HandlersOK' /\ (Ok \/ Fault)
    BY <1>0, <1>9, <2>1, BecomesType DEF ServerUpdated
  <2>3. RowsOK'
    BY <1>0, <1>9, CommitType DEF ServerUpdated, RowsOK, clusterVars
  <2> QED BY <1>0, <1>9, <2>2, <2>3, HandlerWorld DEF ServerUpdated
<1>10. CASE UpdateStatus(h)
  <2>1. RowsOK'
    BY <1>0, <1>10 DEF UpdateStatus, RowsOK, serverVars, clusterVars, Statuses, Judge
  <2> QED BY <1>0, <1>10, <2>1, ResetType, HandlerWorld DEF UpdateStatus
<1>11. CASE ResetServer(h)
  <2>1. CASE handler[h].stale = {} /\ Ok /\ Finish(h) /\ UNCHANGED serverVars
    BY <1>0, <1>1, <1>11, <2>1, FinishType, HandlerWorld DEF ResetServer
  <2>2. ASSUME NEW s \in handler[h].stale,
               \/ Ok /\ s \in rows /\ TriggerCounts(h, s) /\ UNCHANGED handler
               \/ /\ (Ok /\ s \notin rows) \/ Fault
                  /\ Becomes(h, [handler[h] EXCEPT !.stale = @ \ {s}])
                  /\ UNCHANGED serverVars
        PROVE  RowsOK' /\ HandlersOK' /\ WorldOK'
    <3>1. s \in Hosts /\ [handler[h] EXCEPT !.stale = @ \ {s}] \in Locals
      BY <1>0, <2>2 DEF Locals
    <3>2. RowsOK'
      BY <1>0, <1>1, <1>11, <2>2, <3>1, TriggerType DEF ResetServer, RowsOK, clusterVars
    <3>3. HandlersOK'
      BY <1>0, <2>2, <3>1, BecomesType DEF HandlersOK
    <3> QED BY <1>0, <1>11, <2>2, <3>2, <3>3, HandlerWorld DEF ResetServer
  <2> QED BY <1>11, <2>1, <2>2 DEF ResetServer
<1>12. CASE ServerReset(h)
  <2>1. [handler[h] EXCEPT !.stale = @ \ {writing[h]}] \in Locals
    BY <1>0 DEF Locals
  <2>2. HandlersOK' /\ Ok
    BY <1>0, <1>12, <2>1, BecomesType DEF ServerReset
  <2>3. RowsOK'
    BY <1>0, <1>12, CommitType DEF ServerReset, RowsOK, clusterVars
  <2> QED BY <1>0, <1>12, <2>2, <2>3, HandlerWorld DEF ServerReset
<1> QED
  BY <1>3, <1>4, <1>5, <1>6, <1>7, <1>8, <1>9, <1>10, <1>11, <1>12 DEF HandleCluster

(* The log watcher's. *)
LEMMA LogWatcherTypes ==
  ASSUME TypeOK, CreateServer \/ ServerCreated \/ SettleCluster, UNCHANGED course
  PROVE  TypeOK'
<1>0. /\ RowsOK /\ HandlersOK /\ WorldOK /\ LogWatcher \in Writers
      /\ deploy.todo \subseteq Hosts
  BY TypeParts, CourseType DEF Writers, WorldOK
<1>1. SUFFICES RowsOK' /\ HandlersOK' /\ WorldOK'
  BY TypeParts
<1>2. LogWatcherStep
  BY DEF CreateServer, ServerCreated, SettleCluster
<1>3. HandlersOK'
  BY <1>0, <1>2 DEF LogWatcherStep, HandlersOK
<1>4. ASSUME deploy' \in [todo: SUBSET course.deployed, settled: BOOLEAN] PROVE WorldOK'
  BY <1>0, <1>2, <1>4 DEF LogWatcherStep, WorldOK, patroniVars
<1>5. CASE CreateServer
  <2>1. PICK s \in deploy.todo :
          \/ s \notin rows /\ TriggerCounts(LogWatcher, s) /\ UNCHANGED deploy
          \/ /\ s \in rows \/ ~Present
             /\ deploy' = [deploy EXCEPT !.todo = @ \ {s}]
             /\ UNCHANGED serverVars
    BY <1>5 DEF CreateServer
  <2>2. UNCHANGED clusterVars
    BY <1>5 DEF CreateServer
  <2>3. RowsOK'
    BY <1>0, <2>1, <2>2, TriggerType DEF RowsOK, clusterVars, serverVars
  <2>4. deploy' \in [todo: SUBSET course.deployed, settled: BOOLEAN]
    BY <1>0, <2>1 DEF WorldOK
  <2> QED BY <1>3, <1>4, <2>3, <2>4
<1>6. CASE ServerCreated
  <2>1. RowsOK'
    BY <1>0, <1>6, CommitType DEF ServerCreated, RowsOK, clusterVars
  <2>2. deploy' \in [todo: SUBSET course.deployed, settled: BOOLEAN]
    BY <1>0, <1>6 DEF ServerCreated, WorldOK
  <2> QED BY <1>3, <1>4, <2>1, <2>2
<1>7. CASE SettleCluster
  <2>1. RowsOK'
    BY <1>0, <1>7 DEF SettleCluster, RowsOK, serverVars, Statuses
  <2>2. deploy' \in [todo: SUBSET course.deployed, settled: BOOLEAN]
    BY <1>0, <1>7 DEF SettleCluster, WorldOK
  <2> QED BY <1>3, <1>4, <2>1, <2>2
<1> QED BY <1>5, <1>6, <1>7

(* The users' and Patroni's. *)
LEMMA UserTypes ==
  ASSUME TypeOK, UNCHANGED course,
         (\E s \in Hosts : DeleteServer(s)) \/ DeleteServers \/ DeleteRow
  PROVE  TypeOK'
<1>0. RowsOK /\ HandlersOK /\ WorldOK /\ 0 \in Counts
  BY TypeParts, CountType DEF Counts
<1>1. SUFFICES RowsOK' /\ HandlersOK' /\ WorldOK'
  BY TypeParts
<1>2. UserStep /\ deletes' \in {deletes, deletes + 1}
  BY DEF DeleteServer, DeleteServers, DeleteRow
<1>3. HandlersOK'
  BY <1>0, <1>2 DEF UserStep, HandlersOK
<1>4. deletes' \in 0..course.deletes
  BY <1>0, <1>2, CourseType DEF UserStep, WorldOK
<1>5. ASSUME removal' \in {"no", "servers_deleted", "done"} PROVE WorldOK'
  BY <1>0, <1>2, <1>4, <1>5 DEF UserStep, WorldOK, patroniVars
<1>6. ASSUME NEW s \in Hosts, DeleteServer(s) PROVE RowsOK' /\ WorldOK'
  BY <1>0, <1>5, <1>6 DEF DeleteServer, RowsOK, WorldOK, clusterVars
<1>7. CASE DeleteServers
  <2>1. RowsOK'
    BY <1>0, <1>7 DEF DeleteServers, RowsOK, clusterVars
  <2>2. WorldOK'
    BY <1>5, <1>7 DEF DeleteServers
  <2> QED BY <1>3, <2>1, <2>2
<1>8. CASE DeleteRow
  <2>1. RowsOK'
    <3>1. /\ status' \in {status, "gone"} /\ connected' \in {connected, FALSE}
          /\ count' \in {count, 0}
          /\ UNCHANGED <<rows, known, writing, tally>>
      BY <1>8 DEF DeleteRow, clusterVars
    <3> QED BY <1>0, <3>1 DEF RowsOK, Statuses
  <2>2. WorldOK'
    BY <1>5, <1>8 DEF DeleteRow
  <2> QED BY <1>3, <2>1, <2>2
<1> QED BY <1>3, <1>6, <1>7, <1>8

(* What happens at Patroni keeps the types. *)
LEMMA PatroniTypes ==
  ASSUME TypeOK, UNCHANGED course, PatroniChanges
  PROVE  TypeOK'
<1>0. RowsOK /\ HandlersOK /\ WorldOK
  BY TypeParts
<1>1. RowsOK' /\ HandlersOK'
  BY <1>0 DEF PatroniChanges, RowsOK, HandlersOK, clusterVars, serverVars
<1>2. changes' \in 0..course.changes
  BY <1>0, CourseType DEF PatroniChanges, WorldOK
<1>3. WorldOK'
  BY <1>0, <1>2 DEF PatroniChanges, WorldOK
<1> QED BY <1>1, <1>3, TypeParts

(* Every step keeps the types. *)
LEMMA TypeStep == TypeOK /\ [Next]_vars => TypeOK'
<1> SUFFICES ASSUME TypeOK, [Next]_vars PROVE TypeOK'
  OBVIOUS
<1>1. CASE UNCHANGED vars
  BY <1>1 DEF vars, TypeOK
<1>2. CASE Next
  BY <1>2, HandlerTypes, LogWatcherTypes, UserTypes, PatroniTypes DEF Next, Step
<1> QED BY <1>1, <1>2

(* A cluster that is being deployed is well typed. *)
LEMMA TypeInit == Init => TypeOK
<1> SUFFICES ASSUME Init PROVE TypeOK
  OBVIOUS
<1>1. course \in Courses /\ course.deployed \subseteq Hosts /\ 0 \in Counts
  BY ConstantsAssumption, CountType DEF Init, Counts
<1>2. Cardinality(course.deployed) \in Counts
  BY <1>1, CountType
<1>3. RowsOK
  BY <1>1, <1>2 DEF Init, RowsOK, Statuses
<1>4. HandlersOK
  BY IdleType DEF Init, HandlersOK
<1>5. WorldOK
  BY <1>1, ConstantsAssumption DEF Init, WorldOK
<1> QED BY <1>3, <1>4, <1>5, TypeParts

(* Every variable keeps its type: no count or tally is larger than the     *)
(* number of hosts, and only hosts that have a row show a role.            *)
THEOREM TypeCorrect == Spec => []TypeOK
  BY TypeInit, TypeStep, PTL DEF Spec

-----------------------------------------------------------------------------
(***************************************************************************)
(* Unavailable is what was connected.                                      *)
(***************************************************************************)

(* A copy of the flag may be older than the flag, but a cluster that was   *)
(* connected stays so as long as it is there.                              *)
ConnectedInv ==
  /\ status = "unavailable" => connected
  /\ \A h \in Handlers : Present /\ handler[h].connected => connected

(* Only a handler that reached Patroni sets the flag, and only one whose   *)
(* copy has it set goes on to "unavailable".                               *)
LEMMA ConnectedByHandler ==
  ASSUME TypeOK, ConnectedInv, NEW h \in Handlers, HandleCluster(h), UNCHANGED course
  PROVE  ConnectedInv'
<1>0. handler[h] \in Locals /\ HandlersOK /\ connected \in BOOLEAN
  BY TypeParts DEF HandlersOK, RowsOK
<1>a. HandlersOK'
  BY HandlerTypes, TypeParts
<1>1. CASE LoadCluster(h)
  <2>1. \A g \in Handlers : handler'[g].connected => handler[g].connected \/ connected
    BY <1>0, <1>1 DEF LoadCluster, Becomes, Finish, Idle, HandlersOK, Locals
  <2> QED BY <1>1, <2>1 DEF LoadCluster, clusterVars, ConnectedInv, Present
<1>2. CASE GetClusterServers(h) \/ GetClusterInfo(h) \/ GiveUp(h) \/ UpdateServer(h)
           \/ ServerUpdated(h) \/ ResetServer(h) \/ ServerReset(h)
  <2>1. \A g \in Handlers : handler'[g].connected => handler[g].connected
    BY <1>0, <1>2 DEF GetClusterServers, GetClusterInfo, GiveUp, UpdateServer,
       ServerUpdated, ResetServer, ServerReset, Becomes, Finish, Idle, HandlersOK, Locals
  <2>2. UNCHANGED clusterVars
    BY <1>2 DEF GetClusterServers, GetClusterInfo, GiveUp, UpdateServer,
       ServerUpdated, ResetServer, ServerReset
  <2> QED BY <2>1, <2>2 DEF clusterVars, ConnectedInv, Present
<1>3. CASE MarkUnavailable(h)
  <2>1. \A g \in Handlers : handler'[g].connected => handler[g].connected
    BY <1>0, <1>3 DEF MarkUnavailable, TurnsToReset, Becomes, Idle, HandlersOK, Locals
  <2>2. /\ UNCHANGED connected
        /\ status' = "unavailable" => status = "unavailable" \/ (handler[h].connected /\ Present)
        /\ Present' => Present
    BY <1>3 DEF MarkUnavailable, Present
  <2> QED BY <2>1, <2>2 DEF ConnectedInv
<1>4. CASE UpdateStatus(h)
  <2>1. \A g \in Handlers : handler'[g].connected => handler[g].connected
    BY <1>0, <1>4 DEF UpdateStatus, TurnsToReset, Becomes, Idle, HandlersOK, Locals
  <2>2. /\ connected' = TRUE \/ UNCHANGED clusterVars
        /\ Present' => Present
    BY <1>4 DEF UpdateStatus, Present, clusterVars
  <2> QED BY <2>1, <2>2 DEF ConnectedInv, clusterVars
<1> QED BY <1>1, <1>2, <1>3, <1>4 DEF HandleCluster

(* The console calls a cluster unavailable only if it has once reached it, *)
(* whatever the age of the copy a handler decides by (handleClusterServers).*)
THEOREM UnavailableWas == Spec => []UnavailableWasConnected
<1>1. Init => ConnectedInv
  BY DEF Init, ConnectedInv, Idle
<1>2. TypeOK /\ ConnectedInv /\ [Next]_vars => ConnectedInv'
  <2> SUFFICES ASSUME TypeOK, ConnectedInv, [Next]_vars PROVE ConnectedInv'
    OBVIOUS
  <2>1. ASSUME UNCHANGED <<handler, connected, status>> PROVE ConnectedInv'
    BY <2>1 DEF ConnectedInv, Present
  <2>2. ASSUME NEW h \in Handlers, HandleCluster(h), UNCHANGED course PROVE ConnectedInv'
    BY <2>2, ConnectedByHandler
  <2>3. CASE CreateServer \/ ServerCreated \/ PatroniChanges \/ UNCHANGED vars
             \/ (\E s \in Hosts : DeleteServer(s)) \/ DeleteServers
    BY <2>1, <2>3 DEF CreateServer, ServerCreated, LogWatcherStep, PatroniChanges,
       DeleteServer, DeleteServers, UserStep, clusterVars, vars
  <2>4. CASE SettleCluster
    BY <2>4 DEF SettleCluster, LogWatcherStep, ConnectedInv, Present
  <2>5. CASE DeleteRow
    BY <2>5 DEF DeleteRow, UserStep, ConnectedInv, Present, clusterVars
  <2> QED BY <2>2, <2>3, <2>4, <2>5 DEF Next, Step
<1>3. ConnectedInv => UnavailableWasConnected
  BY DEF ConnectedInv, UnavailableWasConnected
<1> QED BY <1>1, <1>2, <1>3, TypeCorrect, PTL DEF Spec

-----------------------------------------------------------------------------
(***************************************************************************)
(* No false alarm.                                                         *)
(***************************************************************************)

Deployed == Cardinality(course.deployed)

(* While Patroni runs what was deployed, no count, tally or copy of a      *)
(* count goes beyond it, and a handler that judges has seen all of it.     *)
NothingBeyond ==
  /\ members = course.deployed /\ healthy = course.deployed
  /\ status \notin {"degraded", "unhealthy"}
  /\ rows \subseteq course.deployed
  /\ count <= Deployed
  /\ \A w \in Writers : tally[w] <= Deployed /\ writing[w] \in course.deployed \cup {None}

SeenAll(self) ==
  /\ self.count <= Deployed
  /\ self.pc = "update" =>
       /\ self.members = course.deployed /\ self.healthy = course.deployed
       /\ self.todo \subseteq course.deployed

AlarmInv == changes = 0 => NothingBeyond /\ \A h \in Handlers : SeenAll(handler[h])

(* The number of some of the hosts is at most the number of all. *)
LEMMA DeployedType ==
  ASSUME TypeOK
  PROVE  /\ Deployed \in Nat
         /\ \A S \in SUBSET course.deployed : Cardinality(S) \in Nat /\ Cardinality(S) <= Deployed
<1>1. IsFiniteSet(course.deployed) /\ Deployed \in Nat
  BY TypeParts, CourseType, CountType DEF Counts, Deployed
<1>2. ASSUME NEW S \in SUBSET course.deployed
      PROVE  Cardinality(S) \in Nat /\ Cardinality(S) <= Deployed
  BY <1>1, FS_Subset, FS_CardinalityType DEF Deployed
<1> QED BY <1>1, <1>2

(* Statements on servers of the deployment. *)
LEMMA TriggerBeyond ==
  ASSUME TypeOK, NothingBeyond, NEW w \in Writers, NEW s \in course.deployed,
         TriggerCounts(w, s), UNCHANGED <<course, status, patroniVars>>
  PROVE  NothingBeyond'
<1>1. Cardinality(rows \cup {s}) <= Deployed
  BY DeployedType DEF NothingBeyond
<1>2. /\ writing \in [Writers -> Hosts \cup {None}] /\ tally \in [Writers -> Counts]
      /\ Deployed' = Deployed
  BY TypeParts DEF RowsOK, Deployed
<1> QED BY <1>1, <1>2 DEF NothingBeyond, TriggerCounts, patroniVars

(* A commit adds a server that was deployed, and a count no larger than    *)
(* that.                                                                   *)
LEMMA CommitBeyond ==
  ASSUME TypeOK, NothingBeyond, NEW w \in Writers, writing[w] # None,
         Commit(w), UNCHANGED <<course, status, patroniVars>>
  PROVE  NothingBeyond'
<1>1. /\ writing \in [Writers -> Hosts \cup {None}] /\ tally \in [Writers -> Counts]
      /\ Deployed' = Deployed /\ 0 <= Deployed
  BY TypeParts, DeployedType DEF RowsOK, Deployed
<1> QED BY <1>1 DEF NothingBeyond, Commit, patroniVars

(* Only the status may be another. *)
LEMMA StatusBeyond ==
  ASSUME NothingBeyond, UNCHANGED <<course, serverVars, patroniVars>>,
         status' \notin {"degraded", "unhealthy"}
  PROVE  NothingBeyond'
  BY DEF NothingBeyond, serverVars, patroniVars, Deployed

(* The other handlers keep their locals. *)
LEMMA OthersSeen ==
  ASSUME HandlersOK, UNCHANGED course, NEW h \in Handlers, NEW r, Becomes(h, r),
         \A g \in Handlers : SeenAll(handler[g]), SeenAll(r)
  PROVE  \A g \in Handlers : SeenAll(handler[g])'
  BY DEF HandlersOK, Becomes, SeenAll, Deployed

(* Locals without a judgement to come. *)
LEMMA IdleSeen ==
  ASSUME TypeOK, NEW p, p # "update", NEW S
  PROVE  SeenAll([Idle EXCEPT !.pc = p]) /\ SeenAll([Idle EXCEPT !.pc = p, !.stale = S])
  BY DeployedType DEF SeenAll, Idle

(* With all of the hosts and all of them well the judgement is favourable. *)
LEMMA JudgedHealthy ==
  ASSUME TypeOK, NEW c \in Nat, c <= Deployed
  PROVE  Judge(c, Deployed, Deployed) = "healthy"
  BY DeployedType DEF Judge

(* A handler that judges has seen all that was deployed, so it raises no   *)
(* alarm.                                                                  *)
LEMMA AlarmByHandler ==
  ASSUME TypeOK, NothingBeyond, \A g \in Handlers : SeenAll(handler[g]),
         NEW h \in Handlers, HandleCluster(h), UNCHANGED course
  PROVE  NothingBeyond' /\ \A g \in Handlers : SeenAll(handler[g])'
<1>0. /\ HandlersOK /\ handler[h] \in Locals /\ SeenAll(handler[h]) /\ h \in Writers
      /\ Deployed' = Deployed
  BY TypeParts DEF HandlersOK, Writers, Deployed
<1>a. ASSUME UNCHANGED handler PROVE \A g \in Handlers : SeenAll(handler[g])'
  BY <1>a, <1>0 DEF SeenAll
<1>b. ASSUME Finish(h) PROVE \A g \in Handlers : SeenAll(handler[g])'
  BY <1>b, <1>0, IdleSeen, OthersSeen DEF Finish
<1>c. ASSUME TurnsToReset(h) PROVE \A g \in Handlers : SeenAll(handler[g])'
  BY <1>c, <1>0, IdleSeen, OthersSeen DEF TurnsToReset
<1>d. ASSUME NEW from, HandlerStep(h, from), UNCHANGED <<clusterVars, serverVars>>
      PROVE  NothingBeyond'
  BY <1>d, <1>0 DEF HandlerStep, NothingBeyond, clusterVars, serverVars, patroniVars
<1>1. CASE LoadCluster(h)
  <2>1. SeenAll([Idle EXCEPT !.pc = "servers", !.count = count, !.connected = connected])
    BY DEF SeenAll, Idle, NothingBeyond
  <2> QED BY <1>0, <1>1, <1>b, <1>d, <2>1, OthersSeen DEF LoadCluster
<1>2. CASE GetClusterServers(h)
  <2>1. SeenAll([handler[h] EXCEPT !.pc = "ask", !.todo = rows, !.stale = rows])
    BY <1>0 DEF SeenAll, Locals
  <2> QED BY <1>0, <1>2, <1>b, <1>d, <2>1, OthersSeen DEF GetClusterServers
<1>3. CASE GetClusterInfo(h)
  <2>1. SeenAll([handler[h] EXCEPT !.pc = "update", !.todo = members,
                                   !.members = members, !.healthy = healthy])
    BY <1>0 DEF SeenAll, Locals, NothingBeyond
  <2>2. \A s : SeenAll([handler[h] EXCEPT !.todo = @ \ {s}])
    BY <1>0 DEF SeenAll, Locals
  <2> QED BY <1>0, <1>3, <1>d, <2>1, <2>2, OthersSeen DEF GetClusterInfo
<1>4. CASE GiveUp(h)
  BY <1>4, <1>b, <1>d DEF GiveUp
<1>5. CASE MarkUnavailable(h)
  <2>1. NothingBeyond'
    BY <1>5, StatusBeyond DEF MarkUnavailable, HandlerStep, NothingBeyond
  <2> QED BY <1>5, <1>c, <2>1 DEF MarkUnavailable
<1>6. CASE UpdateServer(h)
  <2>1. PICK s \in handler[h].todo :
          \/ Ok /\ TriggerCounts(h, s) /\ UNCHANGED handler
          \/ /\ (Ok /\ ~Present) \/ Fault
             /\ Becomes(h, [handler[h] EXCEPT !.todo = @ \ {s}])
             /\ UNCHANGED serverVars
    BY <1>6 DEF UpdateServer
  <2>2. s \in course.deployed /\ SeenAll([handler[h] EXCEPT !.todo = @ \ {s}])
    BY <1>0, <1>6, <2>1 DEF UpdateServer, HandlerStep, SeenAll, Locals
  <2>3. NothingBeyond'
    BY <1>0, <1>6, <1>d, <2>1, <2>2, TriggerBeyond DEF UpdateServer, HandlerStep, clusterVars
  <2> QED BY <1>0, <1>a, <2>1, <2>2, <2>3, OthersSeen
<1>7. CASE ServerUpdated(h)
  <2>1. /\ SeenAll([handler[h] EXCEPT !.todo = @ \ {writing[h]}, !.stale = @ \ {writing[h]}])
        /\ SeenAll([handler[h] EXCEPT !.todo = @ \ {writing[h]}])
    BY <1>0 DEF SeenAll, Locals
  <2>2. NothingBeyond'
    BY <1>0, <1>7, CommitBeyond DEF ServerUpdated, HandlerStep, clusterVars
  <2> QED BY <1>0, <1>7, <2>1, <2>2, OthersSeen DEF ServerUpdated
<1>8. CASE UpdateStatus(h)
  <2>1. Judge(handler[h].count, Cardinality(handler[h].members),
              Cardinality(handler[h].healthy)) = "healthy"
    <3>1. handler[h].count \in Nat /\ handler[h].count <= Deployed
      BY <1>0, CountType DEF Locals, Counts, SeenAll
    <3>2. /\ Cardinality(handler[h].members) = Deployed
          /\ Cardinality(handler[h].healthy) = Deployed
      BY <1>0, <1>8 DEF UpdateStatus, HandlerStep, SeenAll, Deployed
    <3> QED BY <3>1, <3>2, JudgedHealthy
  <2>2. status' \in {status, "healthy"} /\ UNCHANGED <<serverVars, patroniVars>>
    BY <1>8, <2>1 DEF UpdateStatus, HandlerStep, clusterVars
  <2>3. NothingBeyond'
    BY <2>2, StatusBeyond DEF NothingBeyond
  <2> QED BY <1>8, <1>c, <2>3 DEF UpdateStatus
<1>9. CASE ResetServer(h)
  <2>1. CASE handler[h].stale = {} /\ Ok /\ Finish(h) /\ UNCHANGED serverVars
    BY <1>9, <1>b, <1>d, <2>1 DEF ResetServer
  <2>2. ASSUME NEW s \in handler[h].stale,
               \/ Ok /\ s \in rows /\ TriggerCounts(h, s) /\ UNCHANGED handler
               \/ /\ (Ok /\ s \notin rows) \/ Fault
                  /\ Becomes(h, [handler[h] EXCEPT !.stale = @ \ {s}])
                  /\ UNCHANGED serverVars
        PROVE  NothingBeyond' /\ \A g \in Handlers : SeenAll(handler[g])'
    <3>1. SeenAll([handler[h] EXCEPT !.stale = @ \ {s}])
      BY <1>0 DEF SeenAll, Locals
    <3>2. s \in rows => s \in course.deployed
      BY DEF NothingBeyond
    <3>3. NothingBeyond'
      BY <1>0, <1>9, <1>d, <2>2, <3>2, TriggerBeyond
      DEF ResetServer, HandlerStep, clusterVars
    <3> QED BY <1>0, <1>a, <2>2, <3>1, <3>3, OthersSeen
  <2> QED BY <1>9, <2>1, <2>2 DEF ResetServer
<1>10. CASE ServerReset(h)
  <2>1. SeenAll([handler[h] EXCEPT !.stale = @ \ {writing[h]}])
    BY <1>0 DEF SeenAll, Locals
  <2>2. NothingBeyond'
    BY <1>0, <1>10, CommitBeyond DEF ServerReset, HandlerStep, clusterVars
  <2> QED BY <1>0, <1>10, <2>1, <2>2, OthersSeen DEF ServerReset
<1> QED
  BY <1>1, <1>2, <1>3, <1>4, <1>5, <1>6, <1>7, <1>8, <1>9, <1>10 DEF HandleCluster

(* No step raises an alarm before Patroni changes. *)
LEMMA AlarmStep == TypeOK /\ AlarmInv /\ [Next]_vars => AlarmInv'
<1> SUFFICES ASSUME TypeOK, AlarmInv, [Next]_vars, changes' = 0
             PROVE  NothingBeyond' /\ \A g \in Handlers : SeenAll(handler[g])'
  BY DEF AlarmInv
<1>0. /\ RowsOK /\ WorldOK /\ LogWatcher \in Writers
      /\ deploy.todo \subseteq course.deployed
      /\ course.changes \in Nat /\ changes \in Nat
  BY TypeParts, CourseType DEF Writers, WorldOK
<1>1. UNCHANGED <<course, changes>>
  <2>1. ~PatroniChanges
    BY <1>0 DEF PatroniChanges
  <2> QED BY <2>1 DEF Next, Step, HandleCluster, LoadCluster, GetClusterServers,
      GetClusterInfo, GiveUp, MarkUnavailable, UpdateServer, ServerUpdated, UpdateStatus,
      ResetServer, ServerReset, HandlerStep, CreateServer, ServerCreated, SettleCluster,
      LogWatcherStep, DeleteServer, DeleteServers, DeleteRow, UserStep, vars
<1>2. NothingBeyond /\ (\A g \in Handlers : SeenAll(handler[g])) /\ Deployed' = Deployed
  BY <1>1 DEF AlarmInv, Deployed
<1>3. ASSUME UNCHANGED handler PROVE \A g \in Handlers : SeenAll(handler[g])'
  BY <1>1, <1>2, <1>3 DEF SeenAll
<1>4. CASE \E h \in Handlers : HandleCluster(h)
  BY <1>1, <1>2, <1>4, AlarmByHandler
<1>5. CASE CreateServer
  <2>1. PICK s \in deploy.todo :
          \/ s \notin rows /\ TriggerCounts(LogWatcher, s) /\ UNCHANGED deploy
          \/ /\ s \in rows \/ ~Present
             /\ deploy' = [deploy EXCEPT !.todo = @ \ {s}]
             /\ UNCHANGED serverVars
    BY <1>5 DEF CreateServer
  <2>2. UNCHANGED <<handler, status, patroniVars>>
    BY <1>5 DEF CreateServer, LogWatcherStep, clusterVars
  <2>3. NothingBeyond'
    <3>1. CASE TriggerCounts(LogWatcher, s)
      BY <1>0, <1>1, <1>2, <2>1, <2>2, <3>1, TriggerBeyond
    <3>2. CASE UNCHANGED serverVars
      BY <1>1, <1>2, <2>2, <3>2, StatusBeyond DEF NothingBeyond
    <3> QED BY <2>1, <3>1, <3>2
  <2> QED BY <1>3, <2>2, <2>3
<1>6. CASE ServerCreated
  BY <1>0, <1>1, <1>2, <1>3, <1>6, CommitBeyond DEF ServerCreated, LogWatcherStep, clusterVars
<1>7. CASE SettleCluster
  <2>1. status' \notin {"degraded", "unhealthy"}
    BY <1>2, <1>7 DEF SettleCluster, NothingBeyond
  <2> QED BY <1>1, <1>2, <1>3, <1>7, <2>1, StatusBeyond DEF SettleCluster, LogWatcherStep
<1>8. CASE (\E s \in Hosts : DeleteServer(s)) \/ DeleteServers \/ DeleteRow
  <2>1. /\ UNCHANGED <<handler, patroniVars, writing, tally>>
        /\ rows' \subseteq rows /\ count' \in {count, 0} /\ status' \in {status, "gone"}
    BY <1>8 DEF DeleteServer, DeleteServers, DeleteRow, UserStep, clusterVars
  <2>2. NothingBeyond'
    BY <1>1, <1>2, <2>1, DeployedType DEF NothingBeyond, patroniVars
  <2> QED BY <1>3, <2>1, <2>2
<1>9. CASE UNCHANGED vars
  BY <1>1, <1>2, <1>3, <1>9 DEF vars, NothingBeyond
<1>10. CASE PatroniChanges
  BY <1>0, <1>10 DEF PatroniChanges
<1> QED BY <1>4, <1>5, <1>6, <1>7, <1>8, <1>9, <1>10 DEF Next, Step

(* At first nothing goes beyond what is to be deployed. *)
LEMMA AlarmInit == Init => AlarmInv
<1> SUFFICES ASSUME Init PROVE AlarmInv
  OBVIOUS
<1>1. TypeOK /\ Deployed \in Nat
  BY TypeInit, DeployedType
<1>2. NothingBeyond
  BY <1>1 DEF Init, NothingBeyond, Deployed
<1>3. \A h \in Handlers : SeenAll(handler[h])
  BY <1>1 DEF Init, SeenAll, Idle
<1> QED BY <1>2, <1>3 DEF AlarmInv

(* As long as Patroni runs what was deployed, the cluster is not reported  *)
(* degraded or unhealthy, however sweeps, refreshes, the deployment's      *)
(* inserts, deletions and failures interleave (handleClusterServers, the   *)
(* trigger update_server_count).                                           *)
THEOREM NoAlarm == Spec => []NoFalseAlarm
<1>1. AlarmInv => NoFalseAlarm
  BY DEF AlarmInv, NothingBeyond, NoFalseAlarm
<1> QED BY <1>1, AlarmInit, AlarmStep, TypeCorrect, PTL DEF Spec


-----------------------------------------------------------------------------
(***************************************************************************)
(* No false reset.                                                         *)
(***************************************************************************)

(* Of its servers a handler still has those to ask or to upsert, until it  *)
(* resets none; it is in a statement only on one it is about to upsert.    *)
CleanMap(self, w) ==
  /\ self.pc = "ask" => self.todo \subseteq course.deployed /\ self.stale \subseteq self.todo
  /\ self.pc = "update" => /\ self.stale \subseteq self.todo \/ ~Present
                           /\ w \in self.todo \cup {None}
  /\ self.pc = "reset" => self.stale = {} \/ ~Present
  /\ self.pc # "update" => w = None

(* While Patroni stays as it is and no call fails.                         *)
ResetInv ==
  changes = 0 /\ faults = 0 =>
    /\ reachable = course.deployed
    /\ ~Present => \A w \in Writers : writing[w] = None
    /\ \A h \in Handlers : CleanMap(handler[h], writing[h])

(* Nothing is written to a cluster that is gone, and it stays gone.        *)
LEMMA GoneStays ==
  ASSUME TypeOK, ~Present => \A w \in Writers : writing[w] = None, Next
  PROVE  /\ Present' => Present
         /\ ~Present' => \A w \in Writers : writing'[w] = None
<1>0. RowsOK /\ Handlers \subseteq Writers /\ LogWatcher \in Writers
  BY TypeParts DEF Writers
<1>1. ASSUME NEW h \in Handlers, HandleCluster(h)
      PROVE  /\ Present' => Present
             /\ ~Present' => \A w \in Writers : writing'[w] = None
  <2>1. CASE \/ LoadCluster(h) \/ GetClusterServers(h) \/ GetClusterInfo(h) \/ GiveUp(h)
    BY <2>1 DEF LoadCluster, GetClusterServers, GetClusterInfo, GiveUp, clusterVars,
                serverVars, Present
  <2>2. CASE MarkUnavailable(h)
    BY <2>2 DEF MarkUnavailable, serverVars, Present
  <2>3. CASE UpdateStatus(h)
    BY <2>3 DEF UpdateStatus, Judge, clusterVars, serverVars, Present
  <2>4. CASE UpdateServer(h) \/ ResetServer(h)
    BY <2>4 DEF UpdateServer, ResetServer, TriggerCounts, clusterVars, serverVars, Present
  <2>5. CASE ServerUpdated(h) \/ ServerReset(h)
    BY <1>0, <2>5 DEF ServerUpdated, ServerReset, Commit, clusterVars, Present, RowsOK
  <2> QED BY <1>1, <2>1, <2>2, <2>3, <2>4, <2>5 DEF HandleCluster
<1>2. CASE CreateServer \/ ServerCreated
  BY <1>0, <1>2 DEF CreateServer, ServerCreated, TriggerCounts, Commit, clusterVars,
                    serverVars, Present, RowsOK
<1>3. CASE SettleCluster
  BY <1>3 DEF SettleCluster, serverVars, Present
<1>4. CASE (\E s \in Hosts : DeleteServer(s)) \/ DeleteServers \/ DeleteRow
  BY <1>4 DEF DeleteServer, DeleteServers, DeleteRow, clusterVars, Present
<1>5. CASE PatroniChanges
  BY <1>5 DEF PatroniChanges, clusterVars, serverVars, Present
<1> QED BY <1>1, <1>2, <1>3, <1>4, <1>5 DEF Next, Step

(* A handler brings its own servers on, and leaves the other handlers      *)
(* theirs.                                                                 *)
LEMMA CleanByHandler ==
  ASSUME TypeOK, NothingBeyond, reachable = course.deployed, faults = 0, faults' = 0,
         UNCHANGED course, NEW h \in Handlers, HandleCluster(h),
         CleanMap(handler[h], writing[h]), Present' => Present
  PROVE  /\ CleanMap(handler[h], writing[h])'
         /\ \A g \in Handlers \ {h} : handler'[g] = handler[g] /\ writing'[g] = writing[g]
<1>0. /\ HandlersOK /\ handler[h] \in Locals /\ h \in Writers /\ Handlers \subseteq Writers
      /\ writing \in [Writers -> Hosts \cup {None}] /\ None \notin Hosts
      /\ ~Fault
  BY TypeParts, ConstantsAssumption DEF HandlersOK, RowsOK, Writers, Fault
<1>a. \A p : [Idle EXCEPT !.pc = p].pc = p
  BY DEF Idle
<1>b. \A p, x : [Idle EXCEPT !.pc = p, !.stale = x].pc = p
                /\ [Idle EXCEPT !.pc = p, !.stale = x].stale = x
  BY DEF Idle
<1>1. CASE LoadCluster(h) \/ GiveUp(h)
  <2>1. writing' = writing /\ handler[h].pc # "update"
    BY <1>1 DEF LoadCluster, GiveUp, HandlerStep, serverVars
  <2>2. \/ handler' = [handler EXCEPT ![h] = [Idle EXCEPT !.pc = "servers", !.count = count,
                                                         !.connected = connected]]
        \/ handler' = [handler EXCEPT ![h] = [Idle EXCEPT !.pc = "idle"]]
        \/ handler' = [handler EXCEPT ![h] = [Idle EXCEPT !.pc = "done"]]
    BY <1>1 DEF LoadCluster, GiveUp, Finish, Becomes
  <2>3. /\ handler'[h].pc \in {"idle", "done", "servers"}
        /\ \A g \in Handlers \ {h} : handler'[g] = handler[g]
    BY <1>0, <2>2 DEF HandlersOK, Idle
  <2> QED BY <2>1, <2>3 DEF CleanMap
<1>2. CASE GetClusterServers(h)
  <2>1. writing' = writing /\ handler[h].pc = "servers"
    BY <1>2 DEF GetClusterServers, HandlerStep, serverVars
  <2>2. handler' = [handler EXCEPT ![h] = [handler[h] EXCEPT !.pc = "ask", !.todo = rows,
                                                             !.stale = rows]]
    BY <1>0, <1>2 DEF GetClusterServers, Becomes
  <2>3. /\ handler'[h].pc = "ask" /\ handler'[h].todo = rows /\ handler'[h].stale = rows
        /\ \A g \in Handlers \ {h} : handler'[g] = handler[g]
    BY <1>0, <2>2 DEF HandlersOK, Locals
  <2> QED BY <2>1, <2>3 DEF CleanMap, NothingBeyond
<1>3. CASE GetClusterInfo(h)
  <2>1. writing' = writing /\ handler[h].pc = "ask"
    BY <1>3 DEF GetClusterInfo, HandlerStep, serverVars
  <2>2. handler' = [handler EXCEPT ![h] = [handler[h] EXCEPT !.pc = "update", !.todo = members,
                                             !.members = members, !.healthy = healthy]]
    BY <1>0, <1>3, <2>1 DEF GetClusterInfo, CleanMap, Becomes
  <2>3. /\ handler'[h].pc = "update" /\ handler'[h].todo = members
        /\ handler'[h].stale = handler[h].stale
        /\ \A g \in Handlers \ {h} : handler'[g] = handler[g]
    BY <1>0, <2>2 DEF HandlersOK, Locals
  <2> QED BY <2>1, <2>3 DEF CleanMap, NothingBeyond
<1>4. CASE MarkUnavailable(h) \/ UpdateStatus(h)
  <2>1. /\ writing' = writing /\ handler[h].pc \in {"ask", "update"}
        /\ handler[h].todo = {} /\ TurnsToReset(h)
    BY <1>4 DEF MarkUnavailable, UpdateStatus, HandlerStep, serverVars
  <2>2. /\ handler'[h].pc = "reset" /\ handler'[h].stale = handler[h].stale
        /\ \A g \in Handlers \ {h} : handler'[g] = handler[g]
    BY <1>0, <1>b, <2>1 DEF TurnsToReset, Becomes, HandlersOK
  <2> QED BY <2>1, <2>2 DEF CleanMap
<1>5. CASE UpdateServer(h)
  <2>1. handler[h].pc = "update" /\ writing[h] = None /\ Present' = Present
    BY <1>5 DEF UpdateServer, HandlerStep, clusterVars, Present
  <2>2. PICK s \in handler[h].todo :
          \/ TriggerCounts(h, s) /\ UNCHANGED handler
          \/ /\ ~Present /\ UNCHANGED serverVars
             /\ handler' = [handler EXCEPT ![h] = [handler[h] EXCEPT !.todo = handler[h].todo \ {s}]]
    BY <1>0, <1>5 DEF UpdateServer, Becomes
  <2>3. CASE TriggerCounts(h, s) /\ UNCHANGED handler
    BY <1>0, <2>1, <2>2, <2>3 DEF TriggerCounts, CleanMap
  <2>4. CASE /\ ~Present /\ UNCHANGED serverVars
             /\ handler' = [handler EXCEPT ![h] = [handler[h] EXCEPT !.todo = handler[h].todo \ {s}]]
    <3>1. handler'[h].pc = "update" /\ \A g \in Handlers \ {h} : handler'[g] = handler[g]
      BY <1>0, <2>1, <2>4 DEF HandlersOK, Locals
    <3> QED BY <2>1, <2>4, <3>1 DEF serverVars, CleanMap
  <2> QED BY <2>2, <2>3, <2>4
<1>6. CASE ServerUpdated(h)
  <2>1. /\ handler[h].pc = "update" /\ Present' = Present
        /\ writing' = [writing EXCEPT ![h] = None]
    BY <1>6 DEF ServerUpdated, HandlerStep, Commit, clusterVars, Present
  <2>2. handler' = [handler EXCEPT ![h] = [handler[h] EXCEPT
                      !.todo = handler[h].todo \ {writing[h]},
                      !.stale = handler[h].stale \ {writing[h]}]]
    BY <1>0, <1>6 DEF ServerUpdated, Becomes
  <2>3. /\ handler'[h].pc = "update" /\ handler'[h].todo = handler[h].todo \ {writing[h]}
        /\ handler'[h].stale = handler[h].stale \ {writing[h]}
        /\ \A g \in Handlers \ {h} : handler'[g] = handler[g]
    BY <1>0, <2>1, <2>2 DEF HandlersOK, Locals
  <2> QED BY <1>0, <2>1, <2>3 DEF CleanMap
<1>7. CASE ResetServer(h)
  <2>1. /\ handler[h].pc = "reset" /\ Present' = Present
        /\ handler[h].stale = {} \/ ~Present
    BY <1>7 DEF ResetServer, HandlerStep, clusterVars, Present, CleanMap
  <2>2. \/ \E x \in SUBSET handler[h].stale :
             UNCHANGED serverVars /\ handler' = [handler EXCEPT ![h] = [handler[h] EXCEPT !.stale = x]]
        \/ Finish(h) /\ UNCHANGED serverVars
    BY <1>0, <1>7, <2>1 DEF ResetServer, TriggerCounts, Becomes
  <2>3. /\ \/ handler'[h].pc = "reset" /\ handler'[h].stale \subseteq handler[h].stale
           \/ handler'[h].pc \in {"idle", "done"}
        /\ \A g \in Handlers \ {h} : handler'[g] = handler[g]
    <3>1. CASE Finish(h)
      BY <1>0, <1>a, <3>1 DEF Finish, Becomes, HandlersOK
    <3>2. ASSUME NEW x \in SUBSET handler[h].stale,
                 handler' = [handler EXCEPT ![h] = [handler[h] EXCEPT !.stale = x]]
          PROVE  /\ handler'[h].pc = "reset" /\ handler'[h].stale \subseteq handler[h].stale
                 /\ \A g \in Handlers \ {h} : handler'[g] = handler[g]
      BY <1>0, <2>1, <3>2 DEF HandlersOK, Locals
    <3> QED BY <2>2, <3>1, <3>2
  <2> QED BY <2>1, <2>2, <2>3 DEF serverVars, CleanMap
<1>8. CASE ServerReset(h)
  BY <1>0, <1>8 DEF ServerReset, HandlerStep, CleanMap
<1> QED BY <1>1, <1>2, <1>3, <1>4, <1>5, <1>6, <1>7, <1>8 DEF HandleCluster

(* No step makes a handler forget a server that Patroni lists.             *)
LEMMA ResetStep == TypeOK /\ AlarmInv /\ ResetInv /\ [Next]_vars => ResetInv'
<1> SUFFICES ASSUME TypeOK, AlarmInv, ResetInv, [Next]_vars, changes' = 0, faults' = 0
             PROVE  ResetInv'
  BY DEF ResetInv
<1>0. /\ faults \in Nat /\ changes \in Nat
      /\ RowsOK /\ Handlers \subseteq Writers /\ LogWatcher \in Writers
  BY TypeParts, CourseType DEF WorldOK, Writers
<1>a. LogWatcher \notin Handlers
  BY ConstantsAssumption DEF Handlers
<1>1. CASE UNCHANGED vars
  BY <1>1 DEF vars, ResetInv, CleanMap, Present
<1>2. CASE Next
  <2>1. /\ changes = 0 /\ faults = 0 /\ UNCHANGED course /\ ~PatroniChanges
        /\ UNCHANGED reachable
    <3>1. ASSUME NEW h \in Handlers, HandleCluster(h)
          PROVE  UNCHANGED <<patroniVars, changes>> /\ faults' \in {faults, faults + 1}
      BY <3>1 DEF HandleCluster, HandlerStep, LoadCluster, GetClusterServers, GetClusterInfo,
         GiveUp, MarkUnavailable, UpdateServer, ServerUpdated, UpdateStatus, ResetServer,
         ServerReset, Ok, Fault
    <3>2. CASE CreateServer \/ ServerCreated \/ SettleCluster
      BY <1>2, <3>2, <1>0 DEF Next, CreateServer, ServerCreated, SettleCluster, LogWatcherStep,
         PatroniChanges, patroniVars
    <3>3. CASE (\E s \in Hosts : DeleteServer(s)) \/ DeleteServers \/ DeleteRow
      BY <1>2, <3>3, <1>0 DEF Next, DeleteServer, DeleteServers, DeleteRow, UserStep,
         PatroniChanges, patroniVars
    <3>4. ~PatroniChanges
      BY <1>0 DEF PatroniChanges
    <3> QED BY <1>0, <1>2, <3>1, <3>2, <3>3, <3>4 DEF Next, Step, patroniVars
  <2>2. /\ NothingBeyond /\ reachable = course.deployed
        /\ ~Present => \A w \in Writers : writing[w] = None
        /\ \A h \in Handlers : CleanMap(handler[h], writing[h])
    BY <2>1 DEF AlarmInv, ResetInv
  <2>3. /\ Present' => Present
        /\ ~Present' => \A w \in Writers : writing'[w] = None
    BY <1>2, <2>2, GoneStays
  <2>4. ASSUME NEW g \in Handlers, handler'[g] = handler[g], writing'[g] = writing[g]
        PROVE  CleanMap(handler[g], writing[g])'
    BY <2>1, <2>2, <2>3, <2>4 DEF CleanMap
  <2>5. ASSUME NEW h \in Handlers, HandleCluster(h)
        PROVE  \A g \in Handlers : CleanMap(handler[g], writing[g])'
    BY <2>1, <2>2, <2>3, <2>4, <2>5, CleanByHandler
  <2>6. CASE CreateServer \/ ServerCreated \/ SettleCluster
    <3>1. \A g \in Handlers : handler'[g] = handler[g] /\ writing'[g] = writing[g]
      BY <1>0, <1>a, <2>6 DEF CreateServer, ServerCreated, SettleCluster, LogWatcherStep,
         TriggerCounts, Commit, serverVars, RowsOK
    <3> QED BY <2>1, <2>2, <2>3, <2>4, <3>1 DEF ResetInv
  <2>7. CASE (\E s \in Hosts : DeleteServer(s)) \/ DeleteServers \/ DeleteRow
    <3>1. \A g \in Handlers : handler'[g] = handler[g] /\ writing'[g] = writing[g]
      BY <2>7 DEF DeleteServer, DeleteServers, DeleteRow, UserStep
    <3> QED BY <2>1, <2>2, <2>3, <2>4, <3>1 DEF ResetInv
  <2> QED BY <1>2, <2>1, <2>2, <2>3, <2>5, <2>6, <2>7 DEF Next, Step, ResetInv
<1> QED BY <1>1, <1>2

(* A server that Patroni lists keeps its role and state, whatever sweeps,  *)
(* refreshes, the deployment's inserts and deletions meet at its row: the  *)
(* servers left over in serversMap are none of Patroni's                   *)
(* (handleClusterServers), unless a call failed.                           *)
THEOREM NoReset == Spec => NoFalseReset
<1> DEFINE Kept == changes' = 0 /\ faults' = 0 => known \cap rows' \subseteq known'
<1>1. TypeOK /\ AlarmInv /\ ResetInv /\ [Next]_vars => [Kept]_vars
  <2> SUFFICES ASSUME TypeOK, ResetInv, Next, changes' = 0, faults' = 0
               PROVE  known \cap rows' \subseteq known'
    OBVIOUS
  <2>0. faults \in Nat /\ changes \in Nat
    BY TypeParts, CourseType DEF WorldOK
  <2>1. ASSUME NEW h \in Handlers, ServerReset(h) PROVE FALSE
    <3>1. changes = 0 /\ faults = 0
      BY <2>1 DEF ServerReset, HandlerStep, Ok
    <3> QED BY <2>1, <3>1 DEF ServerReset, HandlerStep, ResetInv, CleanMap
  <2>2. ASSUME NEW h \in Handlers, HandleCluster(h) PROVE known \subseteq known'
    BY <2>1, <2>2 DEF HandleCluster, LoadCluster, GetClusterServers, GetClusterInfo, GiveUp,
       MarkUnavailable, UpdateServer, ServerUpdated, UpdateStatus, ResetServer, TriggerCounts,
       serverVars
  <2>3. CASE CreateServer \/ ServerCreated \/ SettleCluster \/ PatroniChanges
    BY <2>3 DEF CreateServer, ServerCreated, SettleCluster, PatroniChanges, TriggerCounts,
       serverVars
  <2>4. CASE (\E s \in Hosts : DeleteServer(s)) \/ DeleteServers \/ DeleteRow
    BY <2>4 DEF DeleteServer, DeleteServers, DeleteRow
  <2> QED BY <2>2, <2>3, <2>4 DEF Next, Step
<1>2. Init => ResetInv
  BY DEF Init, ResetInv, Present, CleanMap, Idle, Writers
<1>3. Spec => [](TypeOK /\ AlarmInv /\ ResetInv)
  BY <1>2, AlarmInit, AlarmStep, ResetStep, TypeInit, TypeStep, PTL DEF Spec
<1>4. Spec => [][Kept]_vars
  BY <1>1, <1>3, PTL DEF Spec
<1> QED BY <1>4 DEF NoFalseReset
=============================================================================
