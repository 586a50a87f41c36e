---------------------------- MODULE ClusterSweep ----------------------------
(***************************************************************************)
(* The cluster watcher's sweep: doWork lists the projects, handleProject   *)
(* fetches each project's clusters page by page, and every cluster is      *)
(* handled by a goroutine of its own (ClusterHealth), of which a weighted  *)
(* semaphore lets PoolSize run at a time.  Meanwhile clusters are created  *)
(* and deleted, so that pages shift under the offset, and Stop may cancel  *)
(* the context at any moment.                                              *)
(***************************************************************************)
EXTENDS Naturals, FiniteSets

CONSTANTS
  Projects,
  Clusters,    \* cluster ids
  Project,     \* cluster -> its project
  Initially,   \* the clusters there are at the start
  PoolSize,    \* ClusterWatcher.PoolSize
  PageSize,    \* handleProject's limit
  MaxFaults,   \* how many queries may fail
  None         \* no project

ASSUME ConstantsAssumption ==
  /\ Clusters \subseteq Nat /\ IsFiniteSet(Clusters)
  /\ Project \in [Clusters -> Projects]
  /\ Initially \subseteq Clusters
  /\ PoolSize \in Nat \ {0}
  /\ PageSize \in Nat \ {0}
  /\ MaxFaults \in Nat
  /\ None \notin Projects

VARIABLES
  live,      \* clusters in the table and not soft-deleted
  used,      \* ids given out so far
  pc,        \* where the watcher's goroutine is
  left,      \* projects still to handle
  project,   \* the one at hand
  offset,    \* handleProject's offset in it
  page,      \* clusters of the current page still to start
  running,   \* cluster -> how many goroutines handle it
  cancelled, \* the watcher's context was cancelled, by Stop
  faults,
  present,   \* clusters there since the sweep began,
  handled,   \* clusters it has started a goroutine for,
  shifts     \* and what was done to the table meanwhile (history)

watcherVars == <<pc, left, project, offset, page>>
vars == <<live, used, pc, left, project, offset, page, running, cancelled, faults,
          present, handled, shifts>>

-----------------------------------------------------------------------------
(* The goroutines that run, <<c, k>> being the k-th of cluster c.          *)
Goroutines == UNION {{c} \X (1..running[c]) : c \in Clusters}
Busy       == Cardinality(Goroutines)

TypeOK ==
  /\ live \subseteq used /\ used \subseteq Clusters
  /\ pc \in {"wait", "projects", "project", "page", "start", "drain", "stopped"}
  /\ left \subseteq Projects
  /\ project \in Projects \cup {None}
  /\ offset \in Nat
  /\ page \subseteq Clusters
  /\ running \in [Clusters -> Nat]
  /\ cancelled \in BOOLEAN
  /\ faults \in 0..MaxFaults
  /\ present \subseteq Clusters /\ handled \subseteq Clusters
  /\ shifts \subseteq {"created", "deleted"}

Init ==
  /\ live = Initially
  /\ used = Initially
  /\ pc = "wait"
  /\ left = {}
  /\ project = None
  /\ offset = 0
  /\ page = {}
  /\ running = [c \in Clusters |-> 0]
  /\ cancelled = FALSE
  /\ faults = 0
  /\ present = {}
  /\ handled = {}
  /\ shifts = {}

(* GetClusters: of a project's clusters, in the order of cluster_id, those *)
(* from an offset on, up to a limit.                                       *)
Before(c) == {d \in live : Project[d] = Project[c] /\ d < c}
Place(c)  == Cardinality(Before(c))

GetClusters(p, limit, start) ==
  {c \in live : Project[c] = p /\ start <= Place(c) /\ Place(c) < start + limit}

Ok    == UNCHANGED faults
Fault == faults < MaxFaults /\ faults' = faults + 1

-----------------------------------------------------------------------------
(* The watcher's goroutine *)

WatcherStep(from) ==
  /\ pc = from
  /\ UNCHANGED <<live, used, cancelled>>

(* The timer fires before the context is cancelled, or not at all. *)
StartSweep ==
  /\ WatcherStep("wait")
  /\ ~cancelled
  /\ pc' = "projects"
  /\ present' = live
  /\ handled' = {}
  /\ shifts' = {}
  /\ UNCHANGED <<left, project, offset, page, running, faults>>

LoopDone ==
  /\ WatcherStep("wait")
  /\ cancelled
  /\ pc' = "stopped"
  /\ UNCHANGED <<left, project, offset, page, running, faults, present, handled, shifts>>

GetProjects ==
  /\ WatcherStep("projects")
  /\ \/ ~cancelled /\ Ok /\ left' = Projects /\ pc' = "project"
     \/ /\ (cancelled /\ Ok) \/ Fault
        /\ pc' = "wait"
        /\ UNCHANGED left
  /\ UNCHANGED <<project, offset, page, running, present, handled, shifts>>

NextProject ==
  /\ WatcherStep("project")
  /\ \/ \E p \in left :
          /\ left' = left \ {p}
          /\ project' = p
          /\ offset' = 0
          /\ pc' = "page"
     \/ /\ left = {}
        /\ pc' = "drain"
        /\ project' = None
        /\ offset' = 0
        /\ UNCHANGED left
  /\ UNCHANGED <<page, running, faults, present, handled, shifts>>

(* Variant: the context is not looked at, only the query's error. *)
FetchPageRegardless ==
  /\ WatcherStep("page")
  /\ IF cancelled
     THEN UNCHANGED <<pc, page>>
     ELSE /\ page' = GetClusters(project, PageSize, offset)
          /\ pc' = IF page' = {} THEN "project" ELSE "start"
  /\ UNCHANGED <<left, project, offset, running, faults, present, handled, shifts>>

(* A failed query is tried again at once. *)
FetchPage ==
  /\ WatcherStep("page")
  /\ \/ /\ cancelled /\ Ok
        /\ pc' = "project"
        /\ UNCHANGED page
     \/ /\ ~cancelled /\ Ok
        /\ page' = GetClusters(project, PageSize, offset)
        /\ pc' = IF page' = {} THEN "project" ELSE "start"
     \/ ~cancelled /\ Fault /\ UNCHANGED <<pc, page>>
  /\ UNCHANGED <<left, project, offset, running, present, handled, shifts>>

(* The next cluster of the page. *)
Starts(c) ==
  /\ \A d \in page : c <= d
  /\ running' = [running EXCEPT ![c] = @ + 1]
  /\ handled' = handled \cup {c}
  /\ page' = page \ {c}

(* Variant: the goroutine acquires the semaphore itself. *)
StartHandlerUnbounded ==
  /\ WatcherStep("start")
  /\ ~cancelled
  /\ \E c \in page : Starts(c)
  /\ IF page' = {}
     THEN pc' = "page" /\ offset' = offset + PageSize
     ELSE UNCHANGED <<pc, offset>>
  /\ UNCHANGED <<left, project, faults, present, shifts>>

(* Variant: the offset is advanced by one too many. *)
StartHandlerPastNext ==
  /\ WatcherStep("start")
  /\ ~cancelled /\ Busy < PoolSize
  /\ \E c \in page : Starts(c)
  /\ IF page' = {}
     THEN pc' = "page" /\ offset' = offset + PageSize + 1
     ELSE UNCHANGED <<pc, offset>>
  /\ UNCHANGED <<left, project, faults, present, shifts>>

(* sem.Acquire, which fails once the context is cancelled, and go. *)
StartHandler ==
  /\ WatcherStep("start")
  /\ \/ /\ ~cancelled /\ Busy < PoolSize
        /\ \E c \in page : Starts(c)
        /\ IF page' = {}
           THEN pc' = "page" /\ offset' = offset + PageSize
           ELSE UNCHANGED <<pc, offset>>
     \/ /\ cancelled
        /\ pc' = "project"
        /\ page' = {}
        /\ UNCHANGED <<offset, running, handled>>
  /\ UNCHANGED <<left, project, faults, present, shifts>>

(* Variant: one token is acquired, not all. *)
DrainOne ==
  /\ WatcherStep("drain")
  /\ cancelled \/ Busy < PoolSize
  /\ pc' = "wait"
  /\ UNCHANGED <<left, project, offset, page, running, faults, present, handled, shifts>>

(* The whole semaphore is acquired, so every goroutine has released it;    *)
(* the error is ignored.                                                   *)
Drain ==
  /\ WatcherStep("drain")
  /\ cancelled \/ Busy = 0
  /\ pc' = "wait"
  /\ UNCHANGED <<left, project, offset, page, running, faults, present, handled, shifts>>

Watcher ==
  \/ StartSweep \/ LoopDone \/ GetProjects \/ NextProject \/ FetchPage
  \/ StartHandler \/ Drain

-----------------------------------------------------------------------------
(* HandleCluster returns and its goroutine releases the semaphore. *)
HandlerReturns(c) ==
  /\ running[c] > 0
  /\ running' = [running EXCEPT ![c] = @ - 1]
  /\ UNCHANGED <<watcherVars, live, used, cancelled, faults, present, handled, shifts>>

Stop ==
  /\ ~cancelled
  /\ cancelled' = TRUE
  /\ UNCHANGED <<watcherVars, live, used, running, faults, present, handled, shifts>>

(* An insert may commit after one with a higher id. *)
CreateCluster(c) ==
  /\ c \notin used
  /\ live' = live \cup {c}
  /\ used' = used \cup {c}
  /\ shifts' = shifts \cup {"created"}
  /\ UNCHANGED <<watcherVars, running, cancelled, faults, present, handled>>

DeleteCluster(c) ==
  /\ c \in live
  /\ live' = live \ {c}
  /\ present' = present \ {c}
  /\ shifts' = shifts \cup {"deleted"}
  /\ UNCHANGED <<watcherVars, used, running, cancelled, faults, handled>>

Next ==
  \/ Watcher
  \/ \E c \in Clusters : HandlerReturns(c) \/ CreateCluster(c) \/ DeleteCluster(c)
  \/ Stop

(* The watcher's goroutine is never blocked for good, and every call a     *)
(* handler makes has a time limit.                                         *)
Fairness ==
  /\ WF_vars(Watcher)
  /\ \A c \in Clusters : WF_vars(HandlerReturns(c))

Spec     == Init /\ [][Next]_vars
FairSpec == Spec /\ Fairness

-----------------------------------------------------------------------------
(* Properties *)

(* At most PoolSize goroutines handle clusters, in whatever order pages    *)
(* are fetched and goroutines end.                                         *)
PoolIsBounded == Busy <= PoolSize

(* Sweeps do not overlap: none begins before every goroutine of the last   *)
(* one has returned.                                                       *)
SweepsAreApart == pc \in {"wait", "projects"} /\ ~cancelled => Busy = 0

(* Paging by offset misses no cluster that was there from the start, even  *)
(* as others are created, unless one was deleted and shifted the pages;    *)
(* and no cluster has two goroutines at once, which would upsert the same  *)
(* servers, unless one was inserted before it.                             *)
NoneMissed ==
  pc = "drain" /\ ~cancelled /\ "deleted" \notin shifts => present \subseteq handled
NoneTwice == "created" \notin shifts => \A c \in Clusters : running[c] <= 1
\* Each cluster once per sweep.
HandledOnce == NoneMissed /\ NoneTwice

(* Stop ends the loop, wherever the sweep is, even if queries fail.        *)
StopEnds == cancelled ~> pc = "stopped"

(* A cluster missed by a sweep is handled by a later one.                  *)
HandledAgain ==
  \A c \in Clusters : []<>(c \in handled \/ c \notin live \/ cancelled)

(* doWork's last line waits until "all workers done".                      *)
WorkersDone == pc = "stopped" => Busy = 0

=============================================================================
