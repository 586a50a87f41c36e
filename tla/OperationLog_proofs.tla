------------------------ MODULE OperationLog_proofs ------------------------
(***************************************************************************)
(* Proofs about OperationLog, for any number of lines and of failed calls: *)
(* type correctness, that the stored log is the output in order, and that  *)
(* a page that was told the log is complete shows what was complete.       *)
(***************************************************************************)
EXTENDS OperationLog, TLAPS

(***************************************************************************)
(* The inductive invariant.                                                *)
(***************************************************************************)

(* The collector is nowhere ahead of the container. *)
LineInv ==
  /\ line <= printed + 1
  /\ pc = "store" => line <= printed

(* What is stored comes before the line at hand; until something fails it  *)
(* is all of that.                                                         *)
StoredInv ==
  /\ \A i \in 1..Len(log) : log[i] < line
  /\ \A i, j \in 1..Len(log) : i < j => log[i] < log[j]
  /\ faults = 0 /\ ~cancelled =>
       Len(log) = line - 1 /\ \A i \in 1..Len(log) : log[i] = i

(* Once settled, a whole log stays as it is, and so does a page that has   *)
(* been told so.                                                           *)
PageInv ==
  /\ settled => box # "running"
  /\ complete => settled
  /\ ~polling => complete
  /\ settled /\ atSettling = Whole => log = Whole
  /\ complete /\ atSettling = Whole => shown = Whole

Inv == TypeOK /\ LineInv /\ StoredInv /\ PageInv

(* The whole output is a sequence of as many lines as were printed. *)
LEMMA WholeType ==
  ASSUME TypeOK
  PROVE  /\ Whole \in Seq(1..MaxLines)
         /\ Len(Whole) = printed
         /\ \A i \in 1..printed : Whole[i] = i
  BY ConstantsAssumption DEF TypeOK, Whole

-----------------------------------------------------------------------------
(***************************************************************************)
(* Type correctness.                                                       *)
(***************************************************************************)

(* Every step keeps the types and the number of lines. *)
LEMMA TypeStep == TypeOK /\ LineInv /\ [Next]_vars => TypeOK' /\ LineInv'
<1> SUFFICES ASSUME TypeOK, LineInv, [Next]_vars PROVE TypeOK' /\ LineInv'
  OBVIOUS
<1> USE ConstantsAssumption DEF TypeOK, LineInv, Ok, Fault, pageVars
<1>1. CASE Prints
  BY <1>1 DEF Prints, ContainerStep
<1>2. CASE Ends
  BY <1>2 DEF Ends, ContainerStep
<1>3. CASE Attach
  BY <1>3 DEF Attach, CollectorStep
<1>4. CASE CheckContext
  BY <1>4 DEF CheckContext, CollectorStep
<1>5. CASE Scan
  BY <1>5 DEF Scan, CollectorStep
<1>6. CASE Store
  <2>1. line \in 1..MaxLines /\ line + 1 \in 1..MaxLines + 1
    BY <1>6 DEF Store, CollectorStep
  <2>2. log' \in Seq(1..MaxLines)
    <3>1. log \in Seq(1..MaxLines)
      OBVIOUS
    <3>2. Append(log, line) \in Seq(1..MaxLines)
      BY <2>1, <3>1
    <3>3. log' \in {log, Append(log, line)}
      BY <1>6 DEF Store
    <3> QED BY <3>1, <3>2, <3>3
  <2> QED BY <1>6, <2>1, <2>2 DEF Store, CollectorStep
<1>7. CASE Stopped
  BY <1>7 DEF Stopped, CollectorStep
<1>8. CASE Stop
  BY <1>8 DEF Stop
<1>9. CASE SettleOperation
  BY <1>9 DEF SettleOperation, WatcherStep
<1>10. CASE RemoveContainer
  BY <1>10 DEF RemoveContainer, WatcherStep
<1>11. CASE Poll
  BY <1>11 DEF Poll, PageStep
<1>12. CASE StopPolling
  BY <1>12 DEF StopPolling, PageStep
<1>13. CASE UNCHANGED vars
  BY <1>13 DEF vars
<1> QED
  BY <1>1, <1>2, <1>3, <1>4, <1>5, <1>6, <1>7, <1>8, <1>9, <1>10, <1>11, <1>12, <1>13
  DEF Next, Collector

(* Nothing is printed, stored or shown at first. *)
LEMMA TypeInit == Init => TypeOK /\ LineInv
<1> SUFFICES ASSUME Init PROVE TypeOK /\ LineInv
  OBVIOUS
<1>1. <<>> \in Seq(1..MaxLines)
  OBVIOUS
<1>2. {log, shown, atSettling} \subseteq Seq(1..MaxLines)
  BY <1>1 DEF Init
<1>3. {settled, complete, polling, cancelled} \subseteq BOOLEAN
  BY DEF Init
<1> QED BY <1>2, <1>3, ConstantsAssumption DEF Init, TypeOK, LineInv

(* Every variable keeps its type: the collector appends no line that was   *)
(* not printed.                                                            *)
THEOREM TypeCorrect == Spec => []TypeOK
<1>1. Spec => [](TypeOK /\ LineInv)
  BY TypeInit, TypeStep, PTL DEF Spec
<1> QED BY <1>1, PTL

-----------------------------------------------------------------------------
(***************************************************************************)
(* The stored log.                                                         *)
(***************************************************************************)

(* Every step keeps the stored lines in order, and whole until something   *)
(* fails.                                                                  *)
LEMMA StoredStep == TypeOK /\ LineInv /\ StoredInv /\ [Next]_vars => StoredInv'
<1> SUFFICES ASSUME TypeOK, LineInv, StoredInv, [Next]_vars PROVE StoredInv'
  OBVIOUS
<1>1. CASE Store
  <2>1. /\ line \in Nat /\ line' = line + 1 /\ log \in Seq(1..MaxLines)
        /\ faults \in Nat /\ \A i \in 1..Len(log) : log[i] \in Nat
    <3>1. line \in Nat /\ log \in Seq(1..MaxLines) /\ faults \in Nat
      BY DEF TypeOK
    <3>2. ASSUME NEW i \in 1..Len(log) PROVE log[i] \in Nat
      <4> DEFINE Lines == 1..MaxLines
      <4>0. log \in Seq(Lines)
        BY <3>1
      <4>1. log[i] \in Lines
        <5> HIDE DEF Lines
        <5> QED BY <4>0
      <4> QED BY <4>1, ConstantsAssumption
    <3> QED BY <1>1, <3>1, <3>2 DEF Store
  <2>2. CASE log' = log
    BY <1>1, <2>1, <2>2 DEF Store, StoredInv, CollectorStep, Ok, Fault
  <2>3. CASE log' = Append(log, line)
    <3>1. /\ Len(log') = Len(log) + 1 /\ Len(log) \in Nat
          /\ \A i \in 1..Len(log) : log'[i] = log[i]
          /\ log'[Len(log) + 1] = line
      BY <2>1, <2>3
    <3>2. faults' = 0 => faults = 0
      BY <1>1, <2>1 DEF Store, Ok, Fault
    <3> QED BY <1>1, <2>1, <3>1, <3>2 DEF Store, StoredInv, CollectorStep
  <2> QED BY <1>1, <2>2, <2>3 DEF Store
<1>2. ASSUME UNCHANGED <<log, line>>, faults' = 0 => faults = 0,
             ~cancelled' => ~cancelled
      PROVE  StoredInv'
  BY <1>2 DEF StoredInv
<1>3. CASE Attach \/ CheckContext \/ Scan \/ Stopped
  <2>1. faults \in Nat
    BY DEF TypeOK
  <2> QED BY <1>2, <1>3, <2>1
          DEF Attach, CheckContext, Scan, Stopped, CollectorStep, Ok, Fault
<1>4. CASE Prints \/ Ends \/ Stop \/ SettleOperation \/ RemoveContainer
           \/ Poll \/ StopPolling \/ UNCHANGED vars
  BY <1>2, <1>4 DEF Prints, Ends, ContainerStep, Stop, SettleOperation, RemoveContainer,
     WatcherStep, Poll, StopPolling, PageStep, vars
<1> QED BY <1>1, <1>3, <1>4 DEF Next, Collector

(* No line is stored twice or out of order, and none is missing before a   *)
(* call has failed or Stop was called (logCollector.storeLogsFromContainer).*)
THEOREM StoredIsOutput == Spec => []LogIsOutput
<1>1. Init => TypeOK /\ LineInv /\ StoredInv
  BY TypeInit DEF Init, StoredInv
<1>2. TypeOK /\ LineInv /\ StoredInv => LogIsOutput
  <2> SUFFICES ASSUME TypeOK, LineInv, StoredInv PROVE LogIsOutput
    OBVIOUS
  <2>1. ASSUME faults = 0, ~cancelled PROVE IsPrefix(log, Whole)
    <3>1. /\ Len(log) <= printed /\ \A i \in 1..Len(log) : log[i] = i
          /\ log \in Seq(1..MaxLines) /\ Len(log) \in Nat /\ printed \in Nat
      BY <2>1 DEF StoredInv, LineInv, TypeOK
    <3>2. Whole \in Seq(1..MaxLines) /\ Len(Whole) = printed
          /\ \A i \in 1..printed : Whole[i] = i
      BY WholeType
    <3> QED BY <3>1, <3>2 DEF IsPrefix
  <2> QED BY <2>1 DEF LogIsOutput, StoredInOrder, NoGaps, StoredInv
<1>3. TypeOK /\ LineInv /\ StoredInv /\ [Next]_vars => (TypeOK /\ LineInv /\ StoredInv)'
  BY TypeStep, StoredStep
<1> QED BY <1>1, <1>2, <1>3, PTL DEF Spec

-----------------------------------------------------------------------------
(***************************************************************************)
(* The page.                                                               *)
(***************************************************************************)

(* Every step keeps a whole log, and a page that was told so, as they are. *)
LEMMA PageStepInv ==
  TypeOK /\ LineInv /\ StoredInv /\ PageInv /\ [Next]_vars => PageInv'
<1> SUFFICES ASSUME TypeOK, LineInv, StoredInv, PageInv, [Next]_vars PROVE PageInv'
  OBVIOUS
<1>0. UNCHANGED printed => Whole' = Whole
  BY DEF Whole
<1>1. CASE Prints \/ Ends
  BY <1>0, <1>1 DEF Prints, Ends, ContainerStep, PageInv, pageVars
<1>2. CASE Store
  <2>1. log # Whole
    <3>1. line <= printed /\ printed \in Nat /\ line \in Nat \ {0}
      BY <1>2 DEF Store, CollectorStep, LineInv, TypeOK
    <3>2. ASSUME log = Whole PROVE FALSE
      <4>1. Len(log) = printed /\ log[printed] = printed
        BY <3>1, <3>2, WholeType
      <4> QED BY <3>1, <4>1 DEF StoredInv
    <3> QED BY <3>2
  <2> QED BY <1>0, <1>2, <2>1 DEF Store, CollectorStep, PageInv, pageVars
<1>3. CASE Attach \/ CheckContext \/ Scan \/ Stopped
  BY <1>0, <1>3 DEF Attach, CheckContext, Scan, Stopped, CollectorStep, PageInv, pageVars
<1>4. CASE Stop \/ UNCHANGED vars
  BY <1>0, <1>4 DEF Stop, vars, PageInv, pageVars
<1>5. CASE SettleOperation \/ RemoveContainer
  BY <1>0, <1>5 DEF SettleOperation, RemoveContainer, WatcherStep, PageInv, pageVars
<1>6. CASE Poll \/ StopPolling
  BY <1>0, <1>6 DEF Poll, StopPolling, PageStep, PageInv, TypeOK
<1> QED BY <1>1, <1>2, <1>3, <1>4, <1>5, <1>6 DEF Next, Collector

(* A page that has stopped polling shows the whole output if the collector *)
(* had stored it when the operation was settled (X-Log-Completed).         *)
THEOREM PageIsWhole == Spec => []PageShowsAll
<1>1. Init => Inv
  BY TypeInit DEF Init, Inv, StoredInv, PageInv
<1>2. Inv /\ [Next]_vars => Inv'
  BY TypeStep, StoredStep, PageStepInv DEF Inv
<1>3. Inv => PageShowsAll
  BY DEF Inv, PageInv, PageShowsAll
<1> QED BY <1>1, <1>2, <1>3, PTL DEF Spec

=============================================================================
