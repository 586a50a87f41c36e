------------------------ MODULE ClusterSweep_proofs ------------------------
(***************************************************************************)
(* Proofs about ClusterSweep, for any clusters, pool and page size and any *)
(* number of failed queries: the pool is bounded, sweeps are apart, and a  *)
(* sweep handles each cluster once, unless the pages shift under it.       *)
(***************************************************************************)
EXTENDS ClusterSweep, FiniteSetTheorems, TLAPS

(***************************************************************************)
(* The inductive invariant.                                                *)
(***************************************************************************)

(* Where the watcher is in a project's clusters. *)
PlaceInv ==
  /\ present \subseteq live
  /\ pc # "start" => page = {}
  /\ pc \in {"page", "start"} => project \in Projects \ left
  /\ \A c \in page : Project[c] = project

(* The goroutines are as many as they hold tokens of the semaphore, and    *)
(* all of them are this sweep's.                                           *)
PoolInv ==
  /\ IsFiniteSet(Goroutines)
  /\ Busy <= PoolSize
  /\ SweepsAreApart
  /\ \A c \in Clusters \ handled : running[c] = 0

(* The sweep is past cluster c, or about to start its goroutine. *)
Passed(c) ==
  CASE pc = "project" -> Project[c] \notin left
    [] pc = "page"    -> /\ Project[c] \notin left
                         /\ Project[c] = project => Place(c) < offset
    [] pc = "start"   -> /\ Project[c] \notin left
                         /\ Project[c] = project => Place(c) < offset + PageSize
    [] pc = "drain"   -> TRUE
    [] OTHER          -> FALSE

(* Clusters that are created move others only to later places, and ones    *)
(* that are deleted only to earlier places.                                *)
MissedInv ==
  ~cancelled /\ "deleted" \notin shifts =>
    \A c \in present : Passed(c) => c \in handled \cup page

TwiceInv ==
  "created" \notin shifts =>
    /\ page \cap handled = {}
    /\ \A c \in Clusters : running[c] <= 1
    /\ pc \notin {"wait", "stopped"} =>
         \A c \in live : ~Passed(c) => c \notin handled \cup page

Inv == TypeOK /\ PlaceInv /\ PoolInv /\ MissedInv /\ TwiceInv

-----------------------------------------------------------------------------
(***************************************************************************)
(* Places.                                                                 *)
(***************************************************************************)

(* Places are natural numbers. *)
LEMMA PlaceType ==
  ASSUME NEW L \in SUBSET Clusters, NEW c \in Clusters
  PROVE  LET B == {d \in L : Project[d] = Project[c] /\ d < c}
         IN  IsFiniteSet(B) /\ Cardinality(B) \in Nat
  BY ConstantsAssumption, FS_Subset, FS_CardinalityType

(* More clusters, later places. *)
LEMMA PlaceMonotonic ==
  ASSUME NEW L \in SUBSET Clusters, NEW K \in SUBSET L, NEW c \in Clusters
  PROVE  Cardinality({d \in K : Project[d] = Project[c] /\ d < c})
           <= Cardinality({d \in L : Project[d] = Project[c] /\ d < c})
<1> DEFINE B == {d \in L : Project[d] = Project[c] /\ d < c}
           A == {d \in K : Project[d] = Project[c] /\ d < c}
<1>1. IsFiniteSet(B) /\ A \in SUBSET B
  BY PlaceType
<1>2. Cardinality(A) <= Cardinality(B)
  BY <1>1, FS_Subset
<1> QED BY <1>2

(* The later of two clusters has the later place. *)
LEMMA PlaceStrict ==
  ASSUME live \subseteq Clusters, NEW c \in live, NEW d \in live,
         Project[c] = Project[d], c < d
  PROVE  Place(c) < Place(d)
<1>1. c \in Nat /\ d \in Nat /\ \A e \in live : e \in Nat
  BY ConstantsAssumption
<1>2. IsFiniteSet(Before(c)) /\ IsFiniteSet(Before(d))
      /\ Cardinality(Before(c)) \in Nat /\ Cardinality(Before(d)) \in Nat
  BY PlaceType DEF Before
<1>3. c \notin Before(c) /\ Before(c) \cup {c} \in SUBSET Before(d)
  <2>1. c \notin Before(c) /\ c \in Before(d)
    BY <1>1 DEF Before
  <2>2. ASSUME NEW e \in Before(c) PROVE e \in Before(d)
    BY <1>1, <2>2 DEF Before
  <2> QED BY <2>1, <2>2
<1>4. Cardinality(Before(c) \cup {c}) = Cardinality(Before(c)) + 1
  BY <1>2, <1>3, FS_AddElement
<1>5. Cardinality(Before(c) \cup {c}) <= Cardinality(Before(d))
  BY <1>2, <1>3, FS_Subset
<1> QED BY <1>2, <1>4, <1>5 DEF Place

(* An empty page is the end: no cluster of the project is past it.         *)
LEMMA EmptyPage ==
  ASSUME live \subseteq Clusters, NEW start \in Nat, NEW limit \in Nat \ {0}, NEW p,
         GetClusters(p, limit, start) = {}
  PROVE  \A c \in live : Project[c] = p => Place(c) < start
<1> DEFINE Past == {c \in live : Project[c] = p /\ ~(Place(c) < start)}
<1>0. \A c \in live : c \in Nat /\ Place(c) \in Nat
  BY ConstantsAssumption, PlaceType DEF Place, Before
<1>1. SUFFICES ASSUME Past # {} PROVE FALSE
  OBVIOUS
<1>2. PICK m \in Past : \A c \in Past : m <= c
  <2> DEFINE Below(c) == {d \in Past : d < c}
  <2>1. Past \in SUBSET Clusters /\ IsFiniteSet(Past)
    BY ConstantsAssumption, FS_Subset
  <2> DEFINE Segments == {Below(c) : c \in Past}
  <2>2. Segments \subseteq FiniteSubsetsOf(Past) /\ Segments # {}
    <3>1. ASSUME NEW c \in Past PROVE Below(c) \in FiniteSubsetsOf(Past)
      <4>1. Below(c) \in SUBSET Past
        OBVIOUS
      <4>2. IsFiniteSet(Below(c))
        BY <2>1, <4>1, FS_Subset
      <4> QED BY <4>1, <4>2 DEF FiniteSubsetsOf
    <3> HIDE DEF Past, Below
    <3> QED BY <1>1, <3>1
  <2>3. PICK X \in Segments : \A Y \in Segments : <<Y, X>> \notin StrictSubsetOrdering(Past)
    <3>1. IsWellFoundedOn(StrictSubsetOrdering(Past), FiniteSubsetsOf(Past))
      BY FS_StrictSubsetOrderingWellFounded
    <3> HIDE DEF Past, Segments
    <3> QED BY <2>2, <3>1, WFMin
  <2>4. PICK m \in Past : X = Below(m)
    OBVIOUS
  <2>5. ASSUME NEW c \in Past, c < m PROVE FALSE
    <3>1. Below(c) \subseteq Below(m) /\ c \in Below(m) /\ c \notin Below(c)
      BY <1>0, <2>5
    <3>2. <<Below(c), X>> \in StrictSubsetOrdering(Past)
      BY <2>4, <3>1 DEF StrictSubsetOrdering
    <3> QED BY <2>3, <3>2
  <2> QED BY <1>0, <2>5
<1>3. m \in live /\ Project[m] = p /\ start + limit <= Place(m)
  BY <1>0 DEF GetClusters
<1>4. \A c \in Before(m) : c \in live /\ Project[c] = p /\ Place(c) + 1 \in 1..start
  BY <1>0, <1>2, <1>3 DEF Before
<1> DEFINE f == [c \in Before(m) |-> Place(c) + 1]
<1>5. f \in Injection(Before(m), 1..start)
  <2>1. f \in [Before(m) -> 1..start]
    BY <1>4
  <2>2. ASSUME NEW c \in Before(m), NEW d \in Before(m), f[c] = f[d]
        PROVE  c = d
    <3>1. ~(c < d) /\ ~(d < c)
      BY <1>0, <1>4, <2>2, PlaceStrict
    <3> QED BY <3>1, <1>0, <1>4
  <2> QED BY <2>1, <2>2 DEF Injection, IsInjective
<1>6. IsFiniteSet(1..start) /\ Cardinality(1..start) = start
  <2>1. IsFiniteSet(1..start) /\ Cardinality(1..start) = IF 1 > start THEN 0 ELSE start - 1 + 1
    BY FS_Interval
  <2> QED BY <2>1
<1>7. Cardinality(Before(m)) <= start
  BY <1>5, <1>6, FS_Injection
<1> QED BY <1>0, <1>3, <1>7 DEF Place

-----------------------------------------------------------------------------
(***************************************************************************)
(* Type correctness.                                                       *)
(***************************************************************************)

(* What a goroutine that starts changes. *)
LEMMA StartsType ==
  ASSUME TypeOK, NEW c \in page, Starts(c)
  PROVE  /\ running' \in [Clusters -> Nat]
         /\ running'[c] = running[c] + 1
         /\ \A d \in Clusters \ {c} : running'[d] = running[d]
         /\ handled' \subseteq Clusters /\ page' \subseteq Clusters
  BY DEF TypeOK, Starts

(* Every step of the watcher, its goroutines and the table keeps the       *)
(* types.                                                                  *)
LEMMA TypeStep == TypeOK /\ [Next]_vars => TypeOK'
<1> SUFFICES ASSUME TypeOK, [Next]_vars PROVE TypeOK'
  OBVIOUS
<1> USE ConstantsAssumption DEF TypeOK, WatcherStep, Ok, Fault
<1>1. CASE StartSweep
  BY <1>1 DEF StartSweep
<1>2. CASE LoopDone
  BY <1>2 DEF LoopDone
<1>3. CASE GetProjects
  BY <1>3 DEF GetProjects
<1>4. CASE NextProject
  BY <1>4 DEF NextProject
<1>5. CASE FetchPage
  <2>1. GetClusters(project, PageSize, offset) \subseteq Clusters
    BY DEF GetClusters
  <2>2. page' \in {page, GetClusters(project, PageSize, offset)}
    BY <1>5 DEF FetchPage
  <2>3. pc' \in {"project", "page", "start"} /\ faults' \in 0..MaxFaults
    BY <1>5 DEF FetchPage
  <2>4. UNCHANGED <<live, used, cancelled, left, project, offset, running, present,
                    handled, shifts>>
    BY <1>5 DEF FetchPage
  <2> QED BY <2>1, <2>2, <2>3, <2>4
<1>6. CASE StartHandler
  <2>1. CASE cancelled
    BY <1>6, <2>1 DEF StartHandler
  <2>2. CASE ~cancelled
    <3>1. PICK c \in page : Starts(c)
      BY <1>6, <2>2 DEF StartHandler
    <3> QED BY <1>6, <2>2, <3>1, StartsType DEF StartHandler
  <2> QED BY <2>1, <2>2
<1>7. CASE Drain
  BY <1>7 DEF Drain
<1>8. ASSUME NEW c \in Clusters, HandlerReturns(c) PROVE TypeOK'
  BY <1>8 DEF HandlerReturns, watcherVars
<1>9. ASSUME NEW c \in Clusters, CreateCluster(c) PROVE TypeOK'
  BY <1>9 DEF CreateCluster, watcherVars
<1>10. ASSUME NEW c \in Clusters, DeleteCluster(c) PROVE TypeOK'
  BY <1>10 DEF DeleteCluster, watcherVars
<1>11. CASE Stop
  BY <1>11 DEF Stop, watcherVars
<1>12. CASE UNCHANGED vars
  BY <1>12 DEF vars
<1> QED
  BY <1>1, <1>2, <1>3, <1>4, <1>5, <1>6, <1>7, <1>8, <1>9, <1>10, <1>11, <1>12
  DEF Next, Watcher

(* The watcher starts well typed. *)
LEMMA TypeInit == Init => TypeOK
<1> SUFFICES ASSUME Init PROVE TypeOK
  OBVIOUS
<1>1. running \in [Clusters -> Nat] /\ faults \in 0..MaxFaults
  BY ConstantsAssumption DEF Init
<1>2. live \subseteq used /\ used \subseteq Clusters
  BY ConstantsAssumption DEF Init
<1> QED BY <1>1, <1>2 DEF Init, TypeOK

(* Every variable keeps its type: pages hold clusters, and no goroutine    *)
(* releases the semaphore that did not acquire it.                         *)
THEOREM TypeCorrect == Spec => []TypeOK
  BY TypeInit, TypeStep, PTL DEF Spec

-----------------------------------------------------------------------------
(***************************************************************************)
(* The watcher's place.                                                    *)
(***************************************************************************)

(* The watcher's place in its loops stays consistent. *)
LEMMA PlaceStep == TypeOK /\ PlaceInv /\ [Next]_vars => PlaceInv'
<1> SUFFICES ASSUME TypeOK, PlaceInv, [Next]_vars PROVE PlaceInv'
  OBVIOUS
<1> USE ConstantsAssumption DEF TypeOK, PlaceInv, WatcherStep, Ok, Fault
<1>1. CASE StartSweep
  BY <1>1 DEF StartSweep
<1>2. CASE LoopDone
  BY <1>2 DEF LoopDone
<1>3. CASE GetProjects
  BY <1>3 DEF GetProjects
<1>4. CASE NextProject
  BY <1>4 DEF NextProject
<1>5. CASE FetchPage
  BY <1>5 DEF FetchPage, GetClusters
<1>6. CASE StartHandler
  BY <1>6 DEF StartHandler, Starts
<1>7. CASE Drain
  BY <1>7 DEF Drain
<1>8. ASSUME NEW c \in Clusters, HandlerReturns(c) PROVE PlaceInv'
  BY <1>8 DEF HandlerReturns, watcherVars
<1>9. ASSUME NEW c \in Clusters, CreateCluster(c) PROVE PlaceInv'
  BY <1>9 DEF CreateCluster, watcherVars
<1>10. ASSUME NEW c \in Clusters, DeleteCluster(c) PROVE PlaceInv'
  BY <1>10 DEF DeleteCluster, watcherVars
<1>11. CASE Stop
  BY <1>11 DEF Stop, watcherVars
<1>12. CASE UNCHANGED vars
  BY <1>12 DEF vars
<1> QED
  BY <1>1, <1>2, <1>3, <1>4, <1>5, <1>6, <1>7, <1>8, <1>9, <1>10, <1>11, <1>12
  DEF Next, Watcher

-----------------------------------------------------------------------------
(***************************************************************************)
(* The pool.                                                               *)
(***************************************************************************)

(* The goroutines are counted, and none runs if the count is zero. *)
LEMMA PoolType ==
  ASSUME TypeOK, IsFiniteSet(Goroutines)
  PROVE  /\ Busy \in Nat
         /\ Busy = 0 <=> \A c \in Clusters : running[c] = 0
<1>1. Goroutines = {} <=> \A c \in Clusters : running[c] = 0
  <2>1. ASSUME NEW c \in Clusters, running[c] # 0 PROVE Goroutines # {}
    <3>1. <<c, 1>> \in {c} \X (1..running[c])
      BY <2>1 DEF TypeOK
    <3> QED BY <3>1 DEF Goroutines
  <2>2. ASSUME NEW g \in Goroutines PROVE \E c \in Clusters : running[c] # 0
    BY <2>2 DEF Goroutines, TypeOK
  <2> QED BY <2>1, <2>2
<1> QED BY <1>1, FS_CardinalityType, FS_EmptySet DEF Busy

(* One goroutine more, and one less. *)
LEMMA PoolGrows ==
  ASSUME TypeOK, IsFiniteSet(Goroutines), NEW c \in page, Starts(c)
  PROVE  IsFiniteSet(Goroutines') /\ Busy' = Busy + 1
<1> DEFINE g == <<c, running[c] + 1>>
<1>0. c \in Clusters /\ running[c] \in Nat
  BY DEF TypeOK
<1>1. Goroutines' = Goroutines \cup {g}
  <2>1. {c} \X (1..running'[c]) = ({c} \X (1..running[c])) \cup {g}
    BY <1>0, StartsType
  <2>2. \A d \in Clusters \ {c} : {d} \X (1..running'[d]) = {d} \X (1..running[d])
    BY StartsType
  <2> QED BY <1>0, <2>1, <2>2 DEF Goroutines
<1>2. g \notin Goroutines
  BY <1>0 DEF Goroutines
<1> QED BY <1>1, <1>2, FS_AddElement DEF Busy

(* A goroutine that returns leaves one fewer. *)
LEMMA PoolShrinks ==
  ASSUME TypeOK, IsFiniteSet(Goroutines), NEW c \in Clusters, HandlerReturns(c)
  PROVE  IsFiniteSet(Goroutines') /\ Busy' = Busy - 1
<1> DEFINE g == <<c, running[c]>>
<1>0. /\ running[c] \in Nat \ {0}
      /\ running'[c] = running[c] - 1
      /\ \A d \in Clusters \ {c} : running'[d] = running[d]
  BY DEF TypeOK, HandlerReturns
<1>1. Goroutines' = Goroutines \ {g}
  <2>1. {c} \X (1..running'[c]) = ({c} \X (1..running[c])) \ {g}
    BY <1>0
  <2>2. \A d \in Clusters \ {c} : /\ {d} \X (1..running'[d]) = {d} \X (1..running[d])
                                  /\ g \notin {d} \X (1..running[d])
    BY <1>0
  <2> QED BY <2>1, <2>2 DEF Goroutines
<1>2. g \in Goroutines
  <2>1. g \in {c} \X (1..running[c])
    BY <1>0
  <2> QED BY <2>1 DEF Goroutines
<1> QED BY <1>1, <1>2, FS_RemoveElement DEF Busy

(* No step takes more of the semaphore than there is. *)
LEMMA PoolStep == TypeOK /\ PoolInv /\ [Next]_vars => PoolInv'
<1> SUFFICES ASSUME TypeOK, PoolInv, [Next]_vars PROVE PoolInv'
  OBVIOUS
<1>0. /\ Busy \in Nat /\ PoolSize \in Nat
      /\ Busy = 0 <=> \A c \in Clusters : running[c] = 0
  BY PoolType, ConstantsAssumption DEF PoolInv
<1>a. ASSUME UNCHANGED running PROVE Goroutines' = Goroutines /\ Busy' = Busy
  BY <1>a DEF Goroutines, Busy
<1> USE DEF TypeOK, PoolInv, SweepsAreApart, WatcherStep, Ok, Fault
<1>1. CASE StartSweep
  BY <1>0, <1>a, <1>1 DEF StartSweep
<1>2. CASE LoopDone
  BY <1>0, <1>a, <1>2 DEF LoopDone
<1>3. CASE GetProjects
  BY <1>0, <1>a, <1>3 DEF GetProjects
<1>4. CASE NextProject
  BY <1>0, <1>a, <1>4 DEF NextProject
<1>5. CASE FetchPage
  BY <1>0, <1>a, <1>5 DEF FetchPage
<1>6. CASE StartHandler
  <2>1. CASE cancelled
    BY <1>0, <1>a, <1>6, <2>1 DEF StartHandler
  <2>2. CASE ~cancelled
    <3>1. PICK c \in page : Starts(c)
      BY <1>6, <2>2 DEF StartHandler
    <3>2. IsFiniteSet(Goroutines') /\ Busy' = Busy + 1
      BY <3>1, PoolGrows
    <3>3. \A d \in Clusters \ handled' : running'[d] = 0
      BY <3>1, StartsType DEF Starts
    <3> QED BY <1>0, <1>6, <2>2, <3>2, <3>3 DEF StartHandler
  <2> QED BY <2>1, <2>2
<1>7. CASE Drain
  BY <1>0, <1>a, <1>7 DEF Drain
<1>8. ASSUME NEW c \in Clusters, HandlerReturns(c) PROVE PoolInv'
  <2>1. IsFiniteSet(Goroutines') /\ Busy' = Busy - 1
    BY <1>8, PoolShrinks
  <2>2. running[c] # 0 /\ Busy # 0
    BY <1>0, <1>8 DEF HandlerReturns
  <2>3. \A d \in Clusters \ handled : running'[d] = 0
    BY <1>8 DEF HandlerReturns
  <2> QED BY <1>0, <1>8, <2>1, <2>2, <2>3 DEF HandlerReturns, watcherVars
<1>9. ASSUME NEW c \in Clusters, CreateCluster(c) PROVE PoolInv'
  BY <1>0, <1>a, <1>9 DEF CreateCluster, watcherVars
<1>10. ASSUME NEW c \in Clusters, DeleteCluster(c) PROVE PoolInv'
  BY <1>0, <1>a, <1>10 DEF DeleteCluster, watcherVars
<1>11. CASE Stop
  BY <1>0, <1>a, <1>11 DEF Stop, watcherVars
<1>12. CASE UNCHANGED vars
  BY <1>0, <1>a, <1>12 DEF vars
<1> QED
  BY <1>1, <1>2, <1>3, <1>4, <1>5, <1>6, <1>7, <1>8, <1>9, <1>10, <1>11, <1>12
  DEF Next, Watcher

(* No goroutine runs at first. *)
LEMMA PoolInit == Init => PoolInv
<1> SUFFICES ASSUME Init PROVE PoolInv
  OBVIOUS
<1>1. Goroutines = {}
  BY DEF Init, Goroutines
<1> QED BY <1>1, FS_EmptySet, ConstantsAssumption DEF PoolInv, SweepsAreApart, Busy, Init

-----------------------------------------------------------------------------
(***************************************************************************)
(* What the sweep is past.                                                 *)
(***************************************************************************)

(* While the table stays as it is, so do the places; creation moves        *)
(* clusters to later ones, deletion to earlier ones.                       *)
LEMMA PlaceChanges ==
  ASSUME TypeOK, NEW c \in Clusters
  PROVE  /\ Place(c) \in Nat
         /\ UNCHANGED live => Place(c)' = Place(c)
         /\ live \subseteq live' /\ live' \subseteq Clusters => Place(c) <= Place(c)'
         /\ live' \subseteq live => Place(c)' <= Place(c)
<1>1. live \in SUBSET Clusters
  BY DEF TypeOK
<1>2. Place(c) \in Nat
  BY <1>1, PlaceType DEF Place, Before
<1>3. UNCHANGED live => Place(c)' = Place(c)
  BY DEF Place, Before
<1>4. live \subseteq live' /\ live' \subseteq Clusters => Place(c) <= Place(c)'
  BY PlaceMonotonic DEF Place, Before
<1>5. live' \subseteq live => Place(c)' <= Place(c)
  BY <1>1, PlaceMonotonic DEF Place, Before
<1> QED BY <1>2, <1>3, <1>4, <1>5

(* The next page: the sweep is past what is on it, and at the end of the   *)
(* pages past the whole project.                                           *)
LEMMA PassedByFetch ==
  ASSUME TypeOK, PlaceInv, FetchPage, ~cancelled, NEW c \in live
  PROVE  Passed(c)' <=> Passed(c) \/ c \in page'
<1>1. /\ Place(c) \in Nat /\ Place(c)' = Place(c)
      /\ c \in Clusters /\ offset \in Nat /\ PageSize \in Nat \ {0}
      /\ pc = "page" /\ UNCHANGED <<live, left, project, offset>>
      /\ project \notin left /\ page = {}
  BY PlaceChanges, ConstantsAssumption DEF TypeOK, PlaceInv, FetchPage, WatcherStep
<1>2. CASE pc' = "page"
  BY <1>1, <1>2 DEF FetchPage, Passed, Fault
<1>3. CASE pc' = "start"
  <2>1. page' = GetClusters(project, PageSize, offset)
    BY <1>1, <1>3 DEF FetchPage
  <2>2. c \in page' <=> /\ Project[c] = project /\ offset <= Place(c)
                        /\ Place(c) < offset + PageSize
    BY <2>1 DEF GetClusters
  <2> QED BY <1>1, <1>3, <2>2 DEF Passed
<1>4. CASE pc' = "project"
  <2>1. GetClusters(project, PageSize, offset) = {} /\ page' = {}
    BY <1>1, <1>4 DEF FetchPage
  <2>2. Project[c] = project => Place(c) < offset
    BY <1>1, <2>1, EmptyPage DEF TypeOK
  <2> QED BY <1>1, <1>4, <2>1, <2>2 DEF Passed
<1> QED BY <1>1, <1>2, <1>3, <1>4 DEF FetchPage

(* A page that is through was passed with its fetch. *)
LEMMA PassedByStart ==
  ASSUME TypeOK, StartHandler, ~cancelled, NEW c \in live
  PROVE  Passed(c)' <=> Passed(c)
<1>1. /\ Place(c) \in Nat /\ Place(c)' = Place(c)
      /\ offset \in Nat /\ PageSize \in Nat
      /\ pc = "start" /\ UNCHANGED <<left, project>>
  BY PlaceChanges, ConstantsAssumption DEF TypeOK, StartHandler, WatcherStep
<1> QED BY <1>1 DEF StartHandler, Passed

(* Turning to the next project changes nothing for a cluster. *)
LEMMA PassedByNext ==
  ASSUME TypeOK, NextProject, NEW c \in live
  PROVE  Passed(c)' <=> Passed(c)
<1>1. /\ Place(c) \in Nat /\ Place(c)' = Place(c) /\ pc = "project"
  BY PlaceChanges DEF TypeOK, NextProject, WatcherStep
<1>2. CASE pc' = "page"
  BY <1>1, <1>2 DEF NextProject, Passed
<1>3. CASE pc' = "drain"
  BY <1>1, <1>3 DEF NextProject, Passed
<1> QED BY <1>1, <1>2, <1>3 DEF NextProject

(* Everybody else leaves the sweep where it is. *)
LEMMA PassedByOthers ==
  ASSUME TypeOK, UNCHANGED <<pc, left, project, offset>>, NEW c \in Clusters
  PROVE  /\ live \subseteq live' /\ live' \subseteq Clusters => (Passed(c)' => Passed(c))
         /\ live' \subseteq live => (Passed(c) => Passed(c)')
<1>1. offset \in Nat /\ PageSize \in Nat
  BY ConstantsAssumption DEF TypeOK
<1>2. Place(c)' \in Nat \/ ~(live' \subseteq Clusters)
  BY PlaceType DEF Place, Before
<1>3. live \subseteq Clusters
  BY DEF TypeOK
<1> QED BY <1>1, <1>2, <1>3, PlaceChanges DEF Passed

-----------------------------------------------------------------------------
(***************************************************************************)
(* Each cluster once per sweep.                                            *)
(***************************************************************************)

(* While nothing is deleted, every cluster the offset has passed was put   *)
(* on a page.                                                              *)
LEMMA MissedStep == TypeOK /\ PlaceInv /\ MissedInv /\ [Next]_vars => MissedInv'
<1> SUFFICES ASSUME TypeOK, PlaceInv, MissedInv, [Next]_vars,
                    ~cancelled', "deleted" \notin shifts',
                    NEW c \in present', Passed(c)'
             PROVE  c \in handled' \cup page'
  BY DEF MissedInv
<1>0. /\ live \subseteq Clusters /\ present \subseteq live
      /\ pc # "start" => page = {}
  BY DEF TypeOK, PlaceInv
<1> USE DEF MissedInv, WatcherStep, Ok, Fault
<1>1. CASE StartSweep
  BY <1>1 DEF StartSweep, Passed
<1>2. CASE LoopDone
  BY <1>2 DEF LoopDone
<1>3. CASE GetProjects
  <2>1. pc' # "project" \/ Project[c] \in left'
    BY <1>0, <1>3, ConstantsAssumption DEF GetProjects
  <2> QED BY <1>3, <2>1 DEF GetProjects, Passed
<1>4. CASE NextProject
  BY <1>0, <1>4, PassedByNext DEF NextProject
<1>5. CASE FetchPage
  BY <1>0, <1>5, PassedByFetch DEF FetchPage
<1>6. CASE StartHandler
  BY <1>0, <1>6, PassedByStart DEF StartHandler, Starts
<1>7. CASE Drain
  BY <1>7 DEF Drain, Passed
<1>8. ASSUME NEW d \in Clusters, HandlerReturns(d) PROVE c \in handled' \cup page'
  BY <1>0, <1>8, PassedByOthers DEF HandlerReturns, watcherVars
<1>9. ASSUME NEW d \in Clusters, CreateCluster(d) PROVE c \in handled' \cup page'
  BY <1>0, <1>9, PassedByOthers DEF CreateCluster, watcherVars
<1>10. ASSUME NEW d \in Clusters, DeleteCluster(d) PROVE c \in handled' \cup page'
  BY <1>10 DEF DeleteCluster
<1>11. CASE Stop
  BY <1>11 DEF Stop
<1>12. CASE UNCHANGED vars
  BY <1>0, <1>12, PassedByOthers DEF vars
<1> QED
  BY <1>1, <1>2, <1>3, <1>4, <1>5, <1>6, <1>7, <1>8, <1>9, <1>10, <1>11, <1>12
  DEF Next, Watcher

(* While nothing is created, no cluster the offset has yet to pass was put *)
(* on one.                                                                 *)
LEMMA TwiceStep == TypeOK /\ PlaceInv /\ PoolInv /\ TwiceInv /\ [Next]_vars => TwiceInv'
<1> DEFINE Once == /\ page \cap handled = {}
                   /\ \A c \in Clusters : running[c] <= 1
                   /\ pc \notin {"wait", "stopped"} =>
                        \A c \in live : ~Passed(c) => c \notin handled \cup page
<1> SUFFICES ASSUME TypeOK, PlaceInv, PoolInv, TwiceInv, [Next]_vars,
                    "created" \notin shifts'
             PROVE  Once'
  BY DEF TwiceInv
<1>0. /\ live \subseteq Clusters /\ running \in [Clusters -> Nat]
      /\ pc # "start" => page = {}
  BY DEF TypeOK, PlaceInv
<1> USE DEF WatcherStep, Ok, Fault
<1>1. CASE StartSweep
  <2>1. \A c \in Clusters : running[c] = 0
    BY <1>1, PoolType DEF StartSweep, PoolInv, SweepsAreApart
  <2> QED BY <1>0, <1>1, <2>1 DEF StartSweep
<1>2. CASE LoopDone
  BY <1>2 DEF LoopDone, TwiceInv
<1>3. CASE GetProjects
  BY <1>0, <1>3 DEF GetProjects, Passed, TwiceInv
<1>4. CASE NextProject
  BY <1>0, <1>4, PassedByNext DEF NextProject, TwiceInv
<1>5. CASE FetchPage
  <2>1. CASE cancelled
    BY <1>0, <1>5, <2>1 DEF FetchPage, Passed, TwiceInv
  <2>2. CASE ~cancelled
    <3>1. /\ pc \notin {"wait", "stopped"} /\ UNCHANGED <<live, handled, running>>
          /\ \A c \in live : ~Passed(c) => c \notin handled
          /\ page = {} /\ \A c \in Clusters : running[c] <= 1
      BY <1>0, <1>5 DEF FetchPage, TwiceInv
    <3>2. ASSUME NEW c \in page' PROVE c \notin handled
      <4>1. c \in live /\ offset <= Place(c) /\ Project[c] = project
        BY <1>5, <2>2, <3>1, <3>2 DEF FetchPage, GetClusters
      <4>2. ~Passed(c)
        BY <1>0, <1>5, <4>1, PlaceChanges DEF FetchPage, Passed, TypeOK
      <4> QED BY <3>1, <4>1, <4>2
    <3> QED BY <1>5, <2>2, <3>1, <3>2, PassedByFetch
  <2> QED BY <2>1, <2>2
<1>6. CASE StartHandler
  <2>1. CASE cancelled
    BY <1>0, <1>6, <2>1 DEF StartHandler, Passed, TwiceInv
  <2>2. CASE ~cancelled
    <3>1. PICK c \in page : Starts(c)
      BY <1>6, <2>2 DEF StartHandler
    <3>2. running[c] = 0
      BY <1>6, <3>1 DEF StartHandler, TwiceInv, PoolInv, TypeOK
    <3>3. \A d \in Clusters : running'[d] <= 1
      BY <1>6, <3>1, <3>2, StartsType DEF StartHandler, TwiceInv
    <3>4. \A d \in live : Passed(d)' <=> Passed(d)
      BY <1>6, <2>2, PassedByStart
    <3> QED BY <1>6, <3>1, <3>3, <3>4 DEF StartHandler, TwiceInv, Starts
  <2> QED BY <2>1, <2>2
<1>7. CASE Drain
  BY <1>7 DEF Drain, TwiceInv
<1>8. ASSUME NEW c \in Clusters, HandlerReturns(c) PROVE Once'
  BY <1>0, <1>8, PassedByOthers DEF HandlerReturns, watcherVars, TwiceInv
<1>9. ASSUME NEW c \in Clusters, CreateCluster(c) PROVE Once'
  BY <1>9 DEF CreateCluster
<1>10. ASSUME NEW c \in Clusters, DeleteCluster(c) PROVE Once'
  BY <1>0, <1>10, PassedByOthers DEF DeleteCluster, watcherVars, TwiceInv
<1>11. CASE Stop
  BY <1>0, <1>11, PassedByOthers DEF Stop, watcherVars, TwiceInv
<1>12. CASE UNCHANGED vars
  BY <1>0, <1>12, PassedByOthers DEF vars, TwiceInv
<1> QED
  BY <1>1, <1>2, <1>3, <1>4, <1>5, <1>6, <1>7, <1>8, <1>9, <1>10, <1>11, <1>12
  DEF Next, Watcher

-----------------------------------------------------------------------------
(***************************************************************************)
(* The theorems.                                                           *)
(***************************************************************************)

(* The four parts together are inductive. *)
LEMMA Invariance == Spec => []Inv
<1>1. Init => Inv
  BY TypeInit, PoolInit DEF Init, Inv, PlaceInv, MissedInv, TwiceInv, Passed
<1>2. Inv /\ [Next]_vars => Inv'
  BY TypeStep, PlaceStep, PoolStep, MissedStep, TwiceStep DEF Inv
<1> QED BY <1>1, <1>2, PTL DEF Spec

(* However pages are fetched and goroutines end, at most PoolSize of them  *)
(* handle clusters at a time (sem.Acquire in handleProject).               *)
THEOREM PoolBounded == Spec => []PoolIsBounded
<1>1. Inv => PoolIsBounded
  BY DEF Inv, PoolInv, PoolIsBounded
<1> QED BY <1>1, Invariance, PTL

(* No sweep begins before the goroutines of the last one have returned,    *)
(* unless Stop was called (the last Acquire of doWork).                    *)
THEOREM SweepsApart == Spec => []SweepsAreApart
<1>1. Inv => SweepsAreApart
  BY DEF Inv, PoolInv
<1> QED BY <1>1, Invariance, PTL

(* Paging by offset misses no cluster unless one was deleted, and handles  *)
(* none by two goroutines at once unless one was created, for whatever     *)
(* page and pool size (handleProject).                                     *)
THEOREM EachOnce == Spec => []HandledOnce
<1>1. Inv => HandledOnce
  BY DEF Inv, PlaceInv, MissedInv, TwiceInv, Passed, HandledOnce, NoneMissed, NoneTwice
<1> QED BY <1>1, Invariance, PTL

=============================================================================
