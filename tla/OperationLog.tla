---------------------------- MODULE OperationLog ----------------------------
(***************************************************************************)
(* The textual log of one operation.  The handler that created the         *)
(* operation starts a goroutine of the log collector, which attaches to    *)
(* the container's output from its beginning and appends line after line   *)
(* to the operation's row.  The log watcher settles the same row when the  *)
(* container has ended, whether or not the collector has caught up, and    *)
(* removes the container.  The console's page polls the row and stops once *)
(* it is told that the log is complete, which means: settled.              *)
(*                                                                         *)
(* A line is known by its number.                                          *)
(***************************************************************************)
EXTENDS Naturals, Sequences, SequencesExt

CONSTANTS
  MaxLines,   \* how many lines the playbook prints at most
  LongLines,  \* lines longer than the scanner's buffer
  MaxFaults   \* how many calls of the collector may fail

ASSUME ConstantsAssumption ==
  /\ {MaxLines, MaxFaults} \subseteq Nat
  /\ LongLines \subseteq 1..MaxLines

VARIABLES
  printed,   \* lines the container has printed
  box,       \* the container
  pc,        \* the collector's goroutine
  line,      \* the line it is at
  log,       \* operation_log
  settled,   \* operation_status is not in_progress any more
  shown,     \* the log the page shows,
  complete,  \* X-Log-Completed of the last answer,
  polling,   \* and whether the page still polls
  cancelled, \* Stop was called
  faults,
  atSettling \* what the log was when the operation was settled (history)

vars == <<printed, box, pc, line, log, settled, shown, complete, polling,
          cancelled, faults, atSettling>>

pageVars == <<shown, complete, polling>>

-----------------------------------------------------------------------------
TypeOK ==
  /\ printed \in 0..MaxLines
  /\ box \in {"running", "exited", "removed"}
  /\ pc \in {"attach", "unattached", "check", "scan", "store", "done", "stopped"}
  /\ line \in 1..MaxLines + 1
  /\ {log, shown, atSettling} \subseteq Seq(1..MaxLines)
  /\ {settled, complete, polling, cancelled} \subseteq BOOLEAN
  /\ faults \in 0..MaxFaults

Init ==
  /\ printed = 0
  /\ box = "running"
  /\ pc = "attach"
  /\ line = 1
  /\ log = <<>>
  /\ settled = FALSE
  /\ shown = <<>>
  /\ complete = FALSE
  /\ polling = TRUE
  /\ cancelled = FALSE
  /\ faults = 0
  /\ atSettling = <<>>

Ok    == UNCHANGED faults
Fault == faults < MaxFaults /\ faults' = faults + 1

-----------------------------------------------------------------------------
(* The container *)

ContainerStep ==
  /\ box = "running"
  /\ UNCHANGED <<pc, line, log, settled, pageVars, cancelled, faults, atSettling>>

Prints == ContainerStep /\ printed < MaxLines /\ printed' = printed + 1 /\ UNCHANGED box

Ends == ContainerStep /\ box' = "exited" /\ UNCHANGED printed

-----------------------------------------------------------------------------
(* The collector *)

CollectorStep(from) ==
  /\ pc = from
  /\ UNCHANGED <<printed, box, settled, pageVars, cancelled, atSettling>>

(* Variant: only what is printed from now on is sent. *)
AttachFromNow ==
  /\ CollectorStep("attach")
  /\ Ok
  /\ IF box # "removed"
     THEN pc' = "check" /\ line' = printed + 1
     ELSE pc' = "unattached" /\ UNCHANGED line
  /\ UNCHANGED log

(* Variant: a failed attempt is repeated. *)
AttachRetrying ==
  /\ CollectorStep("attach")
  /\ \/ Ok /\ box # "removed" /\ pc' = "check"
     \/ Fault /\ UNCHANGED pc
  /\ UNCHANGED <<line, log>>

(* Output already printed is sent, too. *)
Attach ==
  /\ CollectorStep("attach")
  /\ \/ Ok /\ box # "removed" /\ pc' = "check"
     \/ /\ (Ok /\ box = "removed") \/ Fault
        /\ pc' = "unattached"
  /\ UNCHANGED <<line, log>>

(* The context is looked at before a line is waited for, not meanwhile. *)
CheckContext ==
  /\ CollectorStep("check")
  /\ Ok
  /\ pc' = IF cancelled THEN "done" ELSE "scan"
  /\ UNCHANGED <<line, log>>

(* A line comes, or the stream has ended or breaks, or the line is too     *)
(* long for the scanner.                                                   *)
Scan ==
  /\ CollectorStep("scan")
  /\ \/ Ok /\ line <= printed /\ pc' = IF line \in LongLines THEN "done" ELSE "store"
     \/ Ok /\ line > printed /\ box # "running" /\ pc' = "done"
     \/ Fault /\ pc' = "done"
  /\ UNCHANGED <<line, log>>

(* Variant: a failed update is tried again. *)
StoreRetrying ==
  /\ CollectorStep("store")
  /\ \/ /\ Ok /\ ~cancelled
        /\ log' = Append(log, line)
        /\ pc' = "check" /\ line' = line + 1
     \/ Fault /\ log' = Append(log, line) /\ UNCHANGED <<pc, line>>
     \/ Ok /\ cancelled /\ pc' = "check" /\ line' = line + 1 /\ UNCHANGED log

(* A failed update loses the line, or only its reply was lost. *)
Store ==
  /\ CollectorStep("store")
  /\ \/ ((Ok /\ ~cancelled) \/ Fault) /\ log' = Append(log, line)
     \/ ((Ok /\ cancelled) \/ Fault) /\ UNCHANGED log
  /\ pc' = "check"
  /\ line' = line + 1

(* Stop, with wg.Wait: it returns once the goroutine has. *)
Stop ==
  /\ ~cancelled
  /\ cancelled' = TRUE
  /\ UNCHANGED <<printed, box, pc, line, log, settled, pageVars, faults, atSettling>>

Stopped ==
  /\ CollectorStep(pc)
  /\ pc \in {"done", "unattached"}
  /\ cancelled
  /\ Ok
  /\ pc' = "stopped"
  /\ UNCHANGED <<line, log>>

Collector == Attach \/ CheckContext \/ Scan \/ Store \/ Stopped

-----------------------------------------------------------------------------
(* The log watcher, see Deployments *)

WatcherStep ==
  /\ box = "exited"
  /\ UNCHANGED <<printed, pc, line, pageVars, cancelled, faults>>

(* The same statement as Store's, with a status and no log. *)
SettleOperation ==
  /\ WatcherStep
  /\ ~settled
  /\ settled' = TRUE
  /\ atSettling' = log
  /\ UNCHANGED <<box, log>>

RemoveContainer ==
  /\ WatcherStep
  /\ settled
  /\ box' = "removed"
  /\ UNCHANGED <<settled, log, atSettling>>

-----------------------------------------------------------------------------
(* The page *)

PageStep == UNCHANGED <<printed, box, pc, line, log, settled, cancelled, faults, atSettling>>

(* Variant: the container's end decides, not the operation's status. *)
PollContainer ==
  /\ PageStep
  /\ polling
  /\ shown' = log
  /\ complete' = (box # "running")
  /\ UNCHANGED polling

(* getOperationLogHandler answers with the row as it is. *)
Poll ==
  /\ PageStep
  /\ polling
  /\ shown' = log
  /\ complete' = settled
  /\ UNCHANGED polling

StopPolling ==
  /\ PageStep
  /\ polling /\ complete
  /\ polling' = FALSE
  /\ UNCHANGED <<shown, complete>>

Next ==
  \/ Prints \/ Ends
  \/ Collector \/ Stop
  \/ SettleOperation \/ RemoveContainer
  \/ Poll \/ StopPolling

(* Playbooks end, the collector's calls return, the log watcher comes      *)
(* round, and an open page keeps polling.                                  *)
Fairness ==
  /\ WF_vars(Ends)
  /\ WF_vars(Collector)
  /\ WF_vars(SettleOperation)
  /\ WF_vars(Poll) /\ WF_vars(StopPolling)

Spec     == Init /\ [][Next]_vars
FairSpec == Spec /\ Fairness

-----------------------------------------------------------------------------
(* Properties *)

Whole == [i \in 1..printed |-> i]

(* However calls fail, no line is stored twice or before an earlier one,  *)
(* and lines are lost only by a failed call or by Stop: otherwise the row  *)
(* holds the beginning of the output.                                      *)
StoredInOrder == \A i, j \in 1..Len(log) : i < j => log[i] < log[j]
NoGaps        == faults = 0 /\ ~cancelled => IsPrefix(log, Whole)
\* The stored log is the output, in order and up to what failures lost.
LogIsOutput   == StoredInOrder /\ NoGaps

(* When the collector had caught up before the operation was settled, a    *)
(* page that has stopped polling shows the whole output, although neither  *)
(* the collector nor the page waits for the other.                         *)
PageShowsAll == ~polling /\ atSettling = Whole => shown = Whole

(* After Stop the collector ends, at the container's next line or its end  *)
(* at the latest, so Stop returns.                                         *)
CollectorEnds == cancelled ~> pc = "stopped"

(* Without failures the whole output is stored in the end, also what the   *)
(* container printed before the collector attached and what it had left    *)
(* when the container ended or was removed.                                *)
OutputIsStored ==
  box = "exited" ~>
    \/ log = Whole
    \/ faults > 0 \/ cancelled \/ LongLines \cap 1..printed # {}
    \/ pc = "unattached"

=============================================================================
