-------------------------- MODULE AsyncRunnerProofs --------------------------
(* Theorems about AsyncRunner, for any set of cases and any bounds: its types *)
(* and permits; that it implements CaseVerdict, each step of the runner being *)
(* a step of the abstract specification or one that leaves the verdicts and   *)
(* the cases in flight alone; what the evidence of a case says, and that its  *)
(* reader accepts it (from "The reader's order" on).                          *)
EXTENDS AsyncRunner, FiniteSetTheorems, SequenceTheorems, TLAPS

USE EvidenceAssumption, RunnerAssumption

------------------------------------------------------------------------------
(* The list of attempts keeps its type when a record is marked or appended.   *)

LEMMA MarkType ==
    ASSUME NEW list \in Seq(Attempt), NEW i \in Nat,
           NEW verdict \in FinalStatus, NEW lost \in BOOLEAN
    PROVE  /\ Mark(list, i, verdict, lost) \in Seq(Attempt)
           /\ Len(Mark(list, i, verdict, lost)) = Len(list)
<1> DEFINE marked == Mark(list, i, verdict, lost)
<1>1. \A k \in 1..Len(list) : [list[k] EXCEPT !.status = verdict, !.unknown = lost] \in Attempt
  <2> SUFFICES ASSUME NEW k \in 1..Len(list)
               PROVE  [list[k] EXCEPT !.status = verdict, !.unknown = lost] \in Attempt
    OBVIOUS
  <2>1. list[k] \in Attempt
    OBVIOUS
  <2> QED BY <2>1 DEF Attempt
<1>2. list \in [1..Len(list) -> Attempt] /\ Len(list) \in Nat
  OBVIOUS
<1>3. marked = [k \in 1..Len(list) |->
                  IF k = i THEN [list[k] EXCEPT !.status = verdict, !.unknown = lost]
                  ELSE list[k]]
  BY <1>2, Zenon DEF Mark
<1>4. marked \in [1..Len(list) -> Attempt]
  BY <1>1, <1>2, <1>3
<1>5. marked \in Seq(Attempt)
  BY <1>2, <1>4, IsASeq
<1> QED
  BY <1>2, <1>4, <1>5, LenProperties

LEMMA NewAttemptType ==
    ASSUME NEW list \in Seq(Attempt), NEW step \in Nat \ {0}
    PROVE  /\ NewAttempt(list, step) \in Attempt
           /\ Append(list, NewAttempt(list, step)) \in Seq(Attempt)
           /\ Len(Append(list, NewAttempt(list, step))) = Len(list) + 1
<1>1. IsFiniteSet(AttemptsOn(list, step))
  <2>1. AttemptsOn(list, step) \subseteq 1..Len(list)
    BY DEF AttemptsOn
  <2>2. IsFiniteSet(1..Len(list))
    BY FS_Interval
  <2> QED BY <2>1, <2>2, FS_Subset
<1>2. Cardinality(AttemptsOn(list, step)) \in Nat
  BY <1>1, FS_CardinalityType
<1> QED
  BY <1>2 DEF NewAttempt, Attempt
------------------------------------------------------------------------------
(* Type correctness.  TaskType and ListType are the parts of TypeOK that the  *)
(* helpers shared by several worker actions establish.                        *)

TaskType == /\ worker \in [Cases -> Awaits \cup {"none", "ended"}]
            /\ outcome \in [Cases -> Verdicts \cup {"none"}]
            /\ cancelling \in [Cases -> BOOLEAN]

ListType == /\ attempts \in [Cases -> Seq(Attempt)]
            /\ active \in [Cases -> Nat]
            /\ \A c \in Cases : active[c] <= Len(attempts[c])

LEMMA SuspendType ==
    ASSUME TypeOK, NEW c \in Cases, NEW place \in Awaits, Suspend(c, place)
    PROVE  TaskType'
BY DEF TypeOK, TaskType, Suspend

LEMMA EndWorkerType ==
    ASSUME TypeOK, NEW c \in Cases, NEW verdict \in Verdicts, EndWorker(c, verdict)
    PROVE  TaskType'
BY DEF TypeOK, TaskType, EndWorker

LEMMA CheckpointType ==
    ASSUME NEW c \in Cases, NEW late \in BOOLEAN
    PROVE  Checkpoint(c, late) \in {"ok", "cancelled", "deadline"}
BY DEF Checkpoint

LEMMA DispatchType ==
    ASSUME TypeOK, NEW c \in Cases, NEW list \in Seq(Attempt), NEW step \in Nat \ {0},
           Dispatch(c, list, step)
    PROVE  TaskType' /\ ListType'
<1>1. TaskType'
  BY SuspendType DEF Dispatch, Awaits, Callbacks
<1> DEFINE grown == Append(list, NewAttempt(list, step))
<1>2. grown \in Seq(Attempt) /\ Len(grown) = Len(list) + 1
  BY NewAttemptType
<1>3. attempts' = [attempts EXCEPT ![c] = grown] /\ active' = [active EXCEPT ![c] = Len(list) + 1]
  BY DEF Dispatch
<1> HIDE DEF grown
<1>4. ListType'
  BY <1>2, <1>3 DEF TypeOK, ListType
<1> QED BY <1>1, <1>4

LEMMA NoAttemptType ==
    ASSUME TypeOK, NEW c \in Cases, NEW list \in Seq(Attempt), NoAttempt(c, list)
    PROVE  ListType'
BY DEF TypeOK, ListType, NoAttempt

LEMMA NextAttemptType ==
    ASSUME TypeOK, NEW c \in Cases, NEW list \in Seq(Attempt), NEW step \in Nat \ {0},
           NEW late \in BOOLEAN, NextAttempt(c, list, step, late)
    PROVE  TaskType' /\ ListType'
<1> DEFINE verdict == Checkpoint(c, late)
<1>0. verdict \in Verdicts
  BY CheckpointType DEF Verdicts
<1>1. CASE NoAttempt(c, list) /\ EndWorker(c, verdict)
  BY <1>0, <1>1, NoAttemptType, EndWorkerType
<1>2. CASE NoAttempt(c, list) /\ Suspend(c, "rate")
  BY <1>2, NoAttemptType, SuspendType DEF Awaits, Callbacks
<1>3. CASE Dispatch(c, list, step)
  BY <1>3, DispatchType
<1> QED BY <1>1, <1>2, <1>3 DEF NextAttempt

LEMMA AbortType ==
    ASSUME TypeOK, NEW c \in Cases, NEW verdict \in FinalStatus, Abort(c, verdict)
    PROVE  /\ ListType'
           /\ status' \in [Cases -> {"running"} \cup FinalStatus]
           /\ unknown' \in [Cases -> BOOLEAN]
           /\ steps' \in [Cases -> Seq(StepStatus)]
           /\ quality' \in [Cases -> {"pending", "passed", "failed", "error"}]
<1>1. ListType'
  <2>1. CASE active[c] = 0
    BY <2>1 DEF Abort, TypeOK, ListType
  <2>2. CASE active[c] # 0
    <3> DEFINE marked == Mark(attempts[c], active[c], verdict, UnknownAfterAbort(c))
    <3>1. marked \in Seq(Attempt) /\ Len(marked) = Len(attempts[c])
      BY MarkType DEF TypeOK, UnknownAfterAbort
    <3>2. attempts' = [attempts EXCEPT ![c] = marked] /\ active' = active
      BY <2>2 DEF Abort
    <3> HIDE DEF marked
    <3> QED BY <3>1, <3>2 DEF TypeOK, ListType
  <2> QED BY <2>1, <2>2
<1>2. steps' \in [Cases -> Seq(StepStatus)]
  BY DEF Abort, TypeOK, StepStatus
<1>3. status' \in [Cases -> {"running"} \cup FinalStatus]
  BY DEF Abort, TypeOK
<1>4. unknown' \in [Cases -> BOOLEAN]
  BY DEF Abort, TypeOK, UnknownAfterAbort
<1>5. quality' \in [Cases -> {"pending", "passed", "failed", "error"}]
  BY DEF Abort, TypeOK
<1> QED BY <1>1, <1>2, <1>3, <1>4, <1>5

LEMMA StepAndClockType ==
    ASSUME TypeOK, NEW c \in Cases
    PROVE  /\ CurrentStep(c) \in Nat \ {0}
           /\ expired[c] \in BOOLEAN
           /\ \A late \in Later(c) : late \in BOOLEAN
<1>1. steps[c] \in Seq(StepStatus)
  BY DEF TypeOK
<1>2. Len(steps[c]) \in Nat
  BY <1>1
<1>3. expired[c] \in BOOLEAN
  BY DEF TypeOK
<1> QED BY <1>2, <1>3 DEF CurrentStep, Later

LEMMA FinishType ==
    ASSUME TypeOK, NEW c \in Cases, NEW result \in CleanupStatus, Finish(c, result),
           adapter' \in [Cases -> {"none", "open", "closed"}], PermitAccounting
    PROVE  TypeOK'
<1>1. permits' \in 0..MaxConcurrency /\ acquired' \in [Cases -> BOOLEAN]
  <2>1. CASE PermitDue(c, result)
    <3>1. Holders \subseteq Cases /\ c \in Holders
      BY <2>1 DEF PermitDue, Holders
    <3>2. IsFiniteSet(Holders) /\ Cardinality(Holders) \in Nat /\ Cardinality(Holders) # 0
      BY <3>1, FS_Subset, FS_CardinalityType, FS_EmptySet
    <3>3. permits < MaxConcurrency
      BY <3>2 DEF PermitAccounting, TypeOK
    <3>4. permits' = permits + 1 /\ acquired' = [acquired EXCEPT ![c] = FALSE]
      BY <2>1 DEF Finish
    <3> QED BY <3>3, <3>4 DEF TypeOK
  <2>2. CASE ~PermitDue(c, result)
    BY <2>2 DEF Finish, TypeOK, permitVars
  <2> QED BY <2>1, <2>2
<1>2. /\ run' \in [Cases -> RunPlace]
      /\ cleanup' \in [Cases -> CleanupStatus]
      /\ status' \in [Cases -> {"running"} \cup FinalStatus]
  BY DEF Finish, TypeOK, RunPlace, FinalStatus
<1>3. UNCHANGED <<external, taskVars, unknown, attempts, active, steps, quality, clockVars>>
  BY DEF Finish
<1> QED BY <1>1, <1>2, <1>3 DEF TypeOK, taskVars, clockVars

LEMMA WorkerType ==
    ASSUME TypeOK, NEW c \in Cases, WorkerStep(c)
    PROVE  TypeOK'
<1> DEFINE Frame == UNCHANGED <<run, external>> /\ UNCHANGED cleanup
<1> USE DEF Resumes
<1>1. CASE AcquirePermit(c)
  <2>1. TaskType'
    BY <1>1, CheckpointType, SuspendType, EndWorkerType
    DEF AcquirePermit, Awaits, Callbacks, Verdicts, TypeOK
  <2>2. permits' \in 0..MaxConcurrency /\ acquired' \in [Cases -> BOOLEAN]
    BY <1>1 DEF AcquirePermit, TypeOK
  <2>3. UNCHANGED <<run, external, adapter, recordVars, cleanup, clockVars>>
    BY <1>1 DEF AcquirePermit
  <2> QED BY <2>1, <2>2, <2>3 DEF TypeOK, TaskType, recordVars, clockVars
<1>2. ASSUME NEW native \in BOOLEAN, NEW late \in Later(c), InitReturns(c, native, late)
      PROVE  TypeOK'
  <2>1. late \in BOOLEAN /\ CurrentStep(c) \in Nat \ {0}
    BY StepAndClockType
  <2>2. TaskType' /\ ListType'
    <3>1. CASE NextAttempt(c, attempts[c], CurrentStep(c), late)
      BY <2>1, <3>1, NextAttemptType DEF TypeOK
    <3>2. CASE /\ EndWorker(c, IF Checkpoint(c, expired[c]) # "ok" THEN Checkpoint(c, expired[c]) ELSE "error")
               /\ UNCHANGED <<attempts, active>>
      <4>1. (IF Checkpoint(c, expired[c]) # "ok" THEN Checkpoint(c, expired[c]) ELSE "error") \in Verdicts
        BY CheckpointType DEF Verdicts, TypeOK
      <4> QED BY <3>2, <4>1, EndWorkerType DEF TypeOK, ListType
    <3> QED BY <1>2, <3>1, <3>2 DEF InitReturns
  <2>3. expired' \in [Cases -> BOOLEAN] /\ cancelEvent' \in BOOLEAN
    BY <1>2, <2>1 DEF InitReturns, ReadClock, TypeOK, clockVars
  <2>4. adapter' \in [Cases -> {"none", "open", "closed"}]
    BY <1>2 DEF InitReturns, TypeOK
  <2>5. UNCHANGED <<run, external, permitVars, status, unknown, steps, quality, cleanup>>
    BY <1>2 DEF InitReturns
  <2> QED BY <2>2, <2>3, <2>4, <2>5 DEF TypeOK, TaskType, ListType, permitVars
<1>3. CASE RateReturns(c)
  <2>1. CurrentStep(c) \in Nat \ {0}
    BY StepAndClockType
  <2>2. TaskType' /\ ListType'
    BY <1>3, <2>1, DispatchType, EndWorkerType, CheckpointType
    DEF RateReturns, TypeOK, ListType, Verdicts
  <2> QED BY <1>3, <2>2 DEF RateReturns, TypeOK, TaskType, ListType, permitVars, clockVars
<1>4. CASE BackoffEnds(c)
  <2>1. CurrentStep(c) \in Nat \ {0} /\ expired[c] \in BOOLEAN /\ attempts[c] \in Seq(Attempt)
    BY StepAndClockType DEF TypeOK
  <2>2. NextAttempt(c, attempts[c], CurrentStep(c), expired[c])
    BY <1>4 DEF BackoffEnds
  <2>3. TaskType' /\ ListType'
    BY <2>1, <2>2, NextAttemptType
  <2> QED BY <1>4, <2>3 DEF BackoffEnds, TypeOK, TaskType, ListType, permitVars, clockVars
<1>6. ASSUME NEW retryable \in BOOLEAN, NEW lost \in BOOLEAN, RequestFails(c, retryable, lost)
      PROVE  TypeOK'
  <2>1. TaskType'
    BY <1>6, SuspendType, EndWorkerType DEF RequestFails, Awaits, Verdicts
  <2>2. ListType'
    <3> DEFINE marked == Mark(attempts[c], active[c], "error", lost)
    <3>1. marked \in Seq(Attempt) /\ Len(marked) = Len(attempts[c])
      BY MarkType DEF TypeOK, FinalStatus
    <3>2. attempts' = [attempts EXCEPT ![c] = marked] /\ active' = [active EXCEPT ![c] = 0]
      BY <1>6 DEF RequestFails
    <3> HIDE DEF marked
    <3> QED BY <3>1, <3>2 DEF TypeOK, ListType
  <2>3. unknown' \in [Cases -> BOOLEAN]
    BY <1>6 DEF RequestFails, TypeOK
  <2> QED BY <1>6, <2>1, <2>2, <2>3 DEF RequestFails, TypeOK, TaskType, ListType, permitVars, clockVars
<1>7. CASE CallbackRaises(c)
  <2>1. TaskType'
    BY <1>7, EndWorkerType DEF CallbackRaises, Verdicts
  <2> QED BY <1>7, <2>1 DEF CallbackRaises, TypeOK, TaskType, permitVars, recordVars, clockVars
<1>8. ASSUME NEW result \in {"passed", "failed", "error"}, NEW late \in Later(c),
             EvaluationReturns(c, result, late)
      PROVE  TypeOK'
  <2>1. late \in BOOLEAN /\ expired[c] \in BOOLEAN
    BY StepAndClockType
  <2>2. TaskType'
    <3>1. PICK verdict \in Verdicts : EndWorker(c, verdict)
      BY <1>8, <2>1, CheckpointType DEF EvaluationReturns, Finalize, Verdicts
    <3> QED BY <3>1, EndWorkerType
  <2>3. /\ status' \in [Cases -> {"running"} \cup FinalStatus]
        /\ quality' \in [Cases -> {"pending", "passed", "failed", "error"}]
        /\ expired' \in [Cases -> BOOLEAN] /\ cancelEvent' \in BOOLEAN
    <3>1. CASE UNCHANGED <<status, quality, clockVars>>
      BY <3>1 DEF TypeOK, clockVars
    <3>2. CASE /\ quality' = [quality EXCEPT ![c] = result]
               /\ Finalize(c, late)
               /\ ReadClock(c, late)
      BY <2>1, <3>2 DEF Finalize, ReadClock, TypeOK, FinalStatus
    <3> QED BY <1>8, <3>1, <3>2 DEF EvaluationReturns
  <2> QED BY <1>8, <2>2, <2>3 DEF EvaluationReturns, TypeOK, TaskType, permitVars
<1>9. CASE WorkerCancelled(c)
  <2>1. TaskType'
    BY <1>9, EndWorkerType DEF WorkerCancelled, Verdicts
  <2> QED BY <1>9, <2>1 DEF WorkerCancelled, TypeOK, TaskType, permitVars, recordVars, clockVars
<1>10. CASE Suppress(c)
  BY <1>10 DEF Suppress, TypeOK, permitVars, recordVars, clockVars
<1>5. ASSUME NEW response \in {"passed", "failed", "malformed"}, NEW late \in Later(c),
             RequestReturns(c, response, late)
      PROVE  TypeOK'
  <2>1. late \in BOOLEAN /\ CurrentStep(c) + 1 \in Nat \ {0}
    BY StepAndClockType
  <2>2. CASE Answered(c, response, late) /\ response # "malformed"
    <3> DEFINE list == Mark(attempts[c], active[c], "completed", FALSE)
    <3>1. list \in Seq(Attempt)
      BY MarkType DEF TypeOK, FinalStatus
    <3>2. TaskType' /\ ListType' /\ status' \in [Cases -> {"running"} \cup FinalStatus]
      <4>1. CASE NextAttempt(c, list, CurrentStep(c) + 1, late) /\ UNCHANGED status
        <5>1. TaskType' /\ ListType'
          BY <2>1, <3>1, <4>1, NextAttemptType
        <5> QED BY <4>1, <5>1 DEF TypeOK
      <4>2. CASE /\ NoAttempt(c, list) /\ UNCHANGED status
                 /\ LET gate == Checkpoint(c, late) IN
                    IF gate = "ok" THEN Suspend(c, "evaluation") ELSE EndWorker(c, gate)
        BY <2>1, <3>1, <4>2, NoAttemptType, SuspendType, EndWorkerType, CheckpointType
        DEF Awaits, Callbacks, Verdicts, TypeOK
      <4>3. CASE NoAttempt(c, list) /\ Finalize(c, late)
        <5>1. TaskType'
          BY <2>1, <4>3, EndWorkerType, CheckpointType DEF Finalize, Verdicts
        <5>2. status' \in [Cases -> {"running"} \cup FinalStatus]
          BY <4>3 DEF Finalize, TypeOK, FinalStatus
        <5> QED BY <3>1, <4>3, <5>1, <5>2, NoAttemptType
      <4> QED BY <2>2, <4>1, <4>2, <4>3 DEF Answered
    <3>3. steps' \in [Cases -> Seq(StepStatus)] /\ expired' \in [Cases -> BOOLEAN] /\ cancelEvent' \in BOOLEAN
      BY <2>1, <2>2 DEF Answered, ReadClock, TypeOK, StepStatus
    <3> QED BY <1>5, <3>2, <3>3 DEF RequestReturns, TypeOK, TaskType, ListType, permitVars
  <2>3. CASE /\ EndWorker(c, IF Checkpoint(c, expired[c]) # "ok" THEN Checkpoint(c, expired[c]) ELSE "error")
             /\ UNCHANGED <<status, attempts, active, steps, clockVars>>
    <3>1. (IF Checkpoint(c, expired[c]) # "ok" THEN Checkpoint(c, expired[c]) ELSE "error") \in Verdicts
      BY CheckpointType DEF Verdicts, TypeOK
    <3>2. TaskType'
      BY <2>3, <3>1, EndWorkerType
    <3> QED BY <1>5, <2>3, <3>2 DEF RequestReturns, TypeOK, TaskType, permitVars, clockVars
  <2> QED BY <1>5, <2>2, <2>3 DEF RequestReturns
<1> QED
  BY <1>1, <1>2, <1>3, <1>4, <1>5, <1>6, <1>7, <1>8, <1>9, <1>10 DEF WorkerStep

LEMMA CancelWorkerType ==
    ASSUME TypeOK, NEW c \in Cases, CancelWorker(c)
    PROVE  TaskType'
BY DEF CancelWorker, TypeOK, TaskType

LEMMA RunnerType ==
    ASSUME TypeOK, PermitInv, NEW c \in Cases, RunnerStep(c)
    PROVE  TypeOK'
<1>0. PermitAccounting
  BY DEF PermitInv
<1>1. CASE Start(c)
  <2>1. CASE cancelEvent
    <3>1. Abort(c, "cancelled") /\ run' = [run EXCEPT ![c] = "cleanup"] /\ UNCHANGED worker
      BY <1>1, <2>1 DEF Start
    <3>2. UNCHANGED <<external, outcome, cancelling, adapter, permitVars, cleanup, clockVars>>
      BY <1>1 DEF Start
    <3>3. run' \in [Cases -> RunPlace]
      BY <3>1 DEF TypeOK, RunPlace
    <3> QED BY <3>1, <3>2, <3>3, AbortType DEF TypeOK, ListType, FinalStatus, permitVars, clockVars
  <2>2. CASE ~cancelEvent
    BY <1>1, <2>2 DEF Start, TypeOK, RunPlace, Awaits, recordVars, permitVars, clockVars
  <2> QED BY <2>1, <2>2
<1>2. CASE Abandon(c)
  BY <1>2 DEF Abandon, TypeOK, RunPlace, taskVars, permitVars, recordVars, clockVars
<1>3. CASE Wake(c)
  <2>1. run' \in [Cases -> RunPlace] /\ UNCHANGED <<external, adapter, permitVars, cleanup, clockVars>>
    BY <1>3 DEF Wake, TypeOK, RunPlace
  <2>2. TaskType'
    BY <1>3, CancelWorkerType DEF Wake, TypeOK, TaskType, taskVars
  <2>3. CASE UNCHANGED recordVars
    BY <2>1, <2>2, <2>3 DEF TypeOK, TaskType, recordVars, permitVars, clockVars
  <2>4. ASSUME NEW verdict \in FinalStatus, Abort(c, verdict)
        PROVE  TypeOK'
    BY <2>1, <2>2, <2>4, AbortType DEF TypeOK, TaskType, ListType, permitVars, clockVars
  <2>5. \/ UNCHANGED recordVars
        \/ Abort(c, "cancelled") \/ Abort(c, "deadline")
        \/ outcome[c] # "ok" /\ worker[c] = "ended" /\ Abort(c, outcome[c])
    BY <1>3 DEF Wake, WakeVerdict, Awakened
  <2>6. worker[c] = "ended" /\ outcome[c] # "ok" => outcome[c] \in FinalStatus
    BY DEF TypeOK, PermitInv, Verdicts, FinalStatus
  <2> QED BY <2>3, <2>4, <2>5, <2>6 DEF FinalStatus
<1>4. CASE Interrupted(c)
  <2>1. run' \in [Cases -> RunPlace] /\ UNCHANGED <<external, adapter, permitVars, cleanup, clockVars>>
    BY <1>4 DEF Interrupted, TypeOK, RunPlace
  <2>2. TaskType' /\ Abort(c, "cancelled")
    BY <1>4, CancelWorkerType DEF Interrupted
  <2> QED BY <2>1, <2>2, AbortType DEF TypeOK, TaskType, ListType, FinalStatus, permitVars, clockVars
<1>5. CASE BeginCleanup(c)
  <2>1. TaskType'
    BY <1>5, CancelWorkerType DEF BeginCleanup
  <2> QED BY <1>5, <2>1 DEF BeginCleanup, TypeOK, TaskType, RunPlace, permitVars, recordVars, clockVars
<1>6. CASE Drained(c)
  <2>1. UNCHANGED adapter /\ adapter' \in [Cases -> {"none", "open", "closed"}]
    BY <1>6 DEF Drained, TypeOK
  <2>2. CASE \E result \in CleanupStatus : Finish(c, result)
    BY <1>0, <2>1, <2>2, FinishType
  <2>3. CASE /\ run' = [run EXCEPT ![c] = "closing"]
             /\ UNCHANGED <<external, taskVars, permitVars, recordVars, cleanup, clockVars>>
    BY <2>1, <2>3 DEF TypeOK, RunPlace, taskVars, permitVars, recordVars, clockVars
  <2> QED BY <1>6, <2>2, <2>3 DEF Drained, CleanupStatus
<1>7. CASE DrainExpires(c)
  BY <1>0, <1>7, FinishType DEF DrainExpires, CleanupStatus, TypeOK
<1>8. CASE CloseReturns(c)
  <2>1. adapter' \in [Cases -> {"none", "open", "closed"}]
    BY <1>8 DEF CloseReturns, TypeOK
  <2> QED BY <1>0, <1>8, <2>1, FinishType DEF CloseReturns, CleanupStatus
<1>9. CASE CloseFails(c)
  BY <1>0, <1>9, FinishType DEF CloseFails, CleanupStatus, TypeOK
<1>10. CASE CloseStalls(c)
  BY <1>10 DEF CloseStalls, TypeOK, RunPlace, taskVars, permitVars, recordVars, clockVars
<1>11. CASE CloseAbandoned(c)
  BY <1>0, <1>11, FinishType DEF CloseAbandoned, CleanupStatus, TypeOK
<1> QED
  BY <1>1, <1>2, <1>3, <1>4, <1>5, <1>6, <1>7, <1>8, <1>9, <1>10, <1>11 DEF RunnerStep

LEMMA TypeStep ==
    ASSUME TypeOK, PermitInv, [Next]_vars
    PROVE  TypeOK'
<1>1. CASE SetCancelEvent
  BY <1>1 DEF SetCancelEvent, TypeOK, taskVars, permitVars, recordVars
<1>2. CASE CancelBatch
  BY <1>2 DEF CancelBatch, TypeOK, taskVars, permitVars, recordVars, clockVars
<1>3. ASSUME NEW c \in Cases, Expire(c)
      PROVE  TypeOK'
  BY <1>3 DEF Expire, TypeOK, taskVars, permitVars, recordVars
<1>4. CASE UNCHANGED vars
  BY <1>4 DEF vars, TypeOK, taskVars, permitVars, recordVars, clockVars
<1> QED
  BY <1>1, <1>2, <1>3, <1>4, WorkerType, RunnerType DEF Next

------------------------------------------------------------------------------
(* Permits.  A step moves at most one permit, that of the case it belongs to. *)

LEMMA TakePermit ==
    ASSUME TypeOK, PermitInv, NEW c \in Cases, AcquirePermit(c)
    PROVE  PermitAccounting'
<1>1. Holders' = Holders \cup {c} /\ c \notin Holders
  BY DEF AcquirePermit, Resumes, Holders, PermitInv, TypeOK
<1>2. IsFiniteSet(Holders)
  BY FS_Subset DEF Holders
<1>3. Cardinality(Holders') = Cardinality(Holders) + 1 /\ Cardinality(Holders) \in Nat
  BY <1>1, <1>2, FS_AddElement, FS_CardinalityType
<1> QED BY <1>3 DEF AcquirePermit, PermitInv, PermitAccounting, TypeOK

LEMMA FinishPermit ==
    ASSUME TypeOK, PermitInv, NEW c \in Cases, NEW result \in CleanupStatus, Finish(c, result)
    PROVE  PermitAccounting'
<1>1. CASE PermitDue(c, result)
  <2>1. Holders' = Holders \ {c} /\ c \in Holders
    BY <1>1 DEF Finish, PermitDue, Holders, TypeOK
  <2>2. IsFiniteSet(Holders)
    BY FS_Subset DEF Holders
  <2>3. Cardinality(Holders') = Cardinality(Holders) - 1 /\ Cardinality(Holders) \in Nat
    BY <2>1, <2>2, FS_RemoveElement, FS_CardinalityType
  <2> QED BY <1>1, <2>3 DEF Finish, PermitInv, PermitAccounting, TypeOK
<1>2. CASE ~PermitDue(c, result)
  BY <1>2 DEF Finish, PermitInv, PermitAccounting, Holders, permitVars
<1> QED BY <1>1, <1>2

LEMMA FrameHolders ==
    ASSUME PermitInv, UNCHANGED permitVars
    PROVE  PermitAccounting'
BY DEF PermitInv, PermitAccounting, Holders, permitVars

\* The part of PermitInv that speaks of one case.
PermitPlace(c) ==
    /\ worker[c] \in Awaits \ {"queue"} => acquired[c]
    /\ worker[c] \in {"none", "queue"} => ~acquired[c]
    /\ worker[c] = "ended" => outcome[c] # "none"
    /\ run[c] = "start" => worker[c] = "none"
    /\ run[c] \in {"closing", "closeDraining"} => worker[c] \in {"none", "ended"}
    /\ run[c] = "finished" => worker[c] # "queue"
    /\ run[c] = "finished" /\ acquired[c] => cleanup[c] = "unresponsive" /\ status[c] = "error"

LEMMA PermitInvByCase ==
    PermitInv <=> PermitAccounting /\ \A c \in Cases : PermitPlace(c)
BY DEF PermitInv, PermitPlace, LeakIsReported

\* What every step of a worker other than AcquirePermit does to its own task.
WorkerMove(c) ==
    /\ worker[c] \in Awaits
    /\ \E place \in (Awaits \ {"queue"}) \cup {"ended"} :
           /\ worker' = [worker EXCEPT ![c] = place]
           /\ place # "ended" => worker[c] # "queue"
           /\ place = "ended" => outcome'[c] # "none"
    /\ \A d \in Cases \ {c} : outcome'[d] = outcome[d]
    /\ \A d \in Cases : status[d] = "error" => status'[d] = "error"
    /\ UNCHANGED <<run, cleanup, permitVars>>

LEMMA EndWorkerMoves ==
    ASSUME TypeOK, NEW c \in Cases, worker[c] \in Awaits, NEW verdict \in Verdicts,
           EndWorker(c, verdict), UNCHANGED <<run, cleanup, permitVars>>,
           \A d \in Cases : status[d] = "error" => status'[d] = "error"
    PROVE  WorkerMove(c)
BY DEF WorkerMove, EndWorker, Verdicts, TypeOK

LEMMA SuspendMoves ==
    ASSUME TypeOK, NEW c \in Cases, worker[c] \in Awaits \ {"queue"},
           NEW place \in Awaits \ {"queue"},
           Suspend(c, place), UNCHANGED <<run, cleanup, permitVars, status>>
    PROVE  WorkerMove(c)
<1>1. worker[c] \in Awaits /\ worker[c] # "queue" /\ place # "ended"
  BY DEF Awaits, Callbacks
<1>2. worker' = [worker EXCEPT ![c] = place] /\ outcome' = outcome
  BY DEF Suspend
<1> QED BY <1>1, <1>2 DEF WorkerMove

LEMMA NextAttemptMoves ==
    ASSUME TypeOK, NEW c \in Cases, worker[c] \in Awaits \ {"queue"},
           NEW list, NEW step, NEW late \in BOOLEAN,
           NextAttempt(c, list, step, late), UNCHANGED <<run, cleanup, permitVars, status>>
    PROVE  WorkerMove(c)
<1>1. \/ EndWorker(c, Checkpoint(c, late))
      \/ Suspend(c, "rate") \/ Suspend(c, "request")
  BY DEF NextAttempt, Dispatch
<1> QED
  BY <1>1, EndWorkerMoves, SuspendMoves, CheckpointType DEF Awaits, Callbacks, Verdicts

LEMMA FinalizeMoves ==
    ASSUME TypeOK, NEW c \in Cases, worker[c] \in Awaits, NEW late \in BOOLEAN,
           Finalize(c, late), UNCHANGED <<run, cleanup, permitVars>>
    PROVE  WorkerMove(c)
<1>1. Checkpoint(c, late) \in Verdicts
  BY CheckpointType DEF Verdicts
<1>2. Checkpoint(c, late) = "ok" => status[c] = "running"
  BY DEF Checkpoint
<1>3. \A d \in Cases : status[d] = "error" => status'[d] = "error"
  BY <1>2 DEF Finalize, TypeOK
<1> QED BY <1>1, <1>3, EndWorkerMoves DEF Finalize

LEMMA WorkerMoves ==
    ASSUME TypeOK, NEW c \in Cases, WorkerStep(c), ~AcquirePermit(c)
    PROVE  WorkerMove(c)
<1> USE DEF Resumes
<1>1. ASSUME NEW native \in BOOLEAN, NEW late \in Later(c), InitReturns(c, native, late)
      PROVE  WorkerMove(c)
  <2>1. late \in BOOLEAN /\ expired[c] \in BOOLEAN
    BY StepAndClockType
  <2>2. /\ UNCHANGED <<run, cleanup, permitVars, status>>
        /\ worker[c] \in Awaits \ {"queue"}
    BY <1>1 DEF InitReturns, Awaits, Callbacks
  <2>3. \/ NextAttempt(c, attempts[c], CurrentStep(c), late)
        \/ \E verdict \in Verdicts : EndWorker(c, verdict)
    BY <1>1, <2>1, CheckpointType DEF InitReturns, Verdicts
  <2> QED BY <2>1, <2>2, <2>3, NextAttemptMoves, EndWorkerMoves
<1>2. CASE RateReturns(c)
  <2>1. /\ UNCHANGED <<run, cleanup, permitVars, status>>
        /\ worker[c] \in Awaits \ {"queue"}
    BY <1>2 DEF RateReturns, Awaits, Callbacks
  <2>2. Suspend(c, "request") \/ \E verdict \in Verdicts : EndWorker(c, verdict)
    BY <1>2, StepAndClockType, CheckpointType DEF RateReturns, Dispatch, Verdicts
  <2> QED BY <2>1, <2>2, SuspendMoves, EndWorkerMoves DEF Awaits, Callbacks
<1>3. CASE BackoffEnds(c)
  <2>1. /\ UNCHANGED <<run, cleanup, permitVars, status>>
        /\ worker[c] \in Awaits \ {"queue"}
    BY <1>3 DEF BackoffEnds, Awaits, Callbacks
  <2>2. NextAttempt(c, attempts[c], CurrentStep(c), expired[c])
    BY <1>3 DEF BackoffEnds
  <2> QED BY <2>1, <2>2, NextAttemptMoves, StepAndClockType
<1>4. ASSUME NEW response \in {"passed", "failed", "malformed"}, NEW late \in Later(c),
             RequestReturns(c, response, late)
      PROVE  WorkerMove(c)
  <2>1. late \in BOOLEAN /\ expired[c] \in BOOLEAN
    BY StepAndClockType
  <2>2. /\ UNCHANGED <<run, cleanup, permitVars>>
        /\ worker[c] \in Awaits \ {"queue"}
    BY <1>4 DEF RequestReturns, Awaits, Callbacks
  <2>3. \/ /\ UNCHANGED status
           /\ \E verdict \in Verdicts : EndWorker(c, verdict)
        \/ Answered(c, response, late)
    BY <1>4, <2>1, CheckpointType DEF RequestReturns, Verdicts
  <2>4. CASE Answered(c, response, late)
    <3>1. \/ /\ UNCHANGED status
             /\ NextAttempt(c, Mark(attempts[c], active[c], "completed", FALSE),
                            CurrentStep(c) + 1, late)
          \/ /\ UNCHANGED status
             /\ \/ Suspend(c, "evaluation")
                \/ EndWorker(c, Checkpoint(c, late))
          \/ Finalize(c, late)
      BY <2>4 DEF Answered
    <3> QED
      BY <2>1, <2>2, <3>1, NextAttemptMoves, SuspendMoves, EndWorkerMoves, FinalizeMoves,
         CheckpointType DEF Awaits, Callbacks, Verdicts
  <2> QED BY <2>2, <2>3, <2>4, EndWorkerMoves
<1>5. ASSUME NEW retryable \in BOOLEAN, NEW lost \in BOOLEAN, RequestFails(c, retryable, lost)
      PROVE  WorkerMove(c)
  <2>1. /\ UNCHANGED <<run, cleanup, permitVars, status>>
        /\ worker[c] \in Awaits \ {"queue"}
        /\ Suspend(c, "backoff") \/ EndWorker(c, "error")
    BY <1>5 DEF RequestFails, Awaits, Callbacks
  <2> QED BY <2>1, SuspendMoves, EndWorkerMoves DEF Awaits, Callbacks, Verdicts
<1>6. CASE CallbackRaises(c)
  <2>1. /\ UNCHANGED <<run, cleanup, permitVars, status>>
        /\ worker[c] \in Awaits
        /\ EndWorker(c, "error")
    BY <1>6 DEF CallbackRaises, Awaits, Callbacks, recordVars
  <2> QED BY <2>1, EndWorkerMoves DEF Verdicts
<1>7. ASSUME NEW result \in {"passed", "failed", "error"}, NEW late \in Later(c),
             EvaluationReturns(c, result, late)
      PROVE  WorkerMove(c)
  <2>1. late \in BOOLEAN /\ expired[c] \in BOOLEAN
    BY StepAndClockType
  <2>2. UNCHANGED <<run, cleanup, permitVars>> /\ worker[c] \in Awaits
    BY <1>7 DEF EvaluationReturns, Awaits, Callbacks
  <2>3. \/ UNCHANGED status /\ EndWorker(c, Checkpoint(c, expired[c]))
        \/ Finalize(c, late)
    BY <1>7 DEF EvaluationReturns
  <2> QED BY <2>1, <2>2, <2>3, EndWorkerMoves, FinalizeMoves, CheckpointType DEF Verdicts
<1>8. CASE WorkerCancelled(c)
  <2>1. /\ UNCHANGED <<run, cleanup, permitVars, status>>
        /\ worker[c] \in Awaits
        /\ EndWorker(c, "cancelled")
    BY <1>8 DEF WorkerCancelled, Awaits, recordVars
  <2> QED BY <2>1, EndWorkerMoves DEF Verdicts
<1>9. CASE Suppress(c)
  BY <1>9 DEF Suppress, WorkerMove, Awaits, Callbacks, TypeOK, recordVars
<1> QED
  BY <1>1, <1>2, <1>3, <1>4, <1>5, <1>6, <1>7, <1>8, <1>9 DEF WorkerStep

LEMMA WorkerPermit ==
    ASSUME TypeOK, PermitInv, NEW c \in Cases, WorkerStep(c)
    PROVE  PermitInv'
<1>1. CASE AcquirePermit(c)
  <2>1. PermitAccounting'
    BY <1>1, TakePermit
  <2>2. ASSUME NEW d \in Cases PROVE PermitPlace(d)'
    <3>1. /\ worker[c] = "queue" /\ acquired' = [acquired EXCEPT ![c] = TRUE]
          /\ UNCHANGED <<run, cleanup, status>>
      BY <1>1 DEF AcquirePermit, Resumes, recordVars
    <3>2. \/ Suspend(c, "init")
          \/ \E verdict \in Verdicts : EndWorker(c, verdict)
      BY <1>1, StepAndClockType, CheckpointType DEF AcquirePermit, Verdicts
    <3>3. PermitPlace(d) /\ PermitPlace(c)
      BY PermitInvByCase
    <3> QED
      BY <3>1, <3>2, <3>3
      DEF PermitPlace, Suspend, EndWorker, Awaits, Callbacks, Verdicts, TypeOK
  <2> QED BY <2>1, <2>2, PermitInvByCase DEF PermitInv, PermitPlace, LeakIsReported
<1>2. CASE ~AcquirePermit(c)
  <2>1. WorkerMove(c)
    BY <1>2, WorkerMoves
  <2>2. PermitAccounting'
    BY <2>1, FrameHolders DEF WorkerMove
  <2>3. ASSUME NEW d \in Cases PROVE PermitPlace(d)'
    <3>1. PermitPlace(d) /\ PermitPlace(c)
      BY PermitInvByCase
    <3> QED BY <2>1, <3>1 DEF WorkerMove, PermitPlace, permitVars, Awaits, Callbacks, TypeOK
  <2> QED BY <2>2, <2>3 DEF PermitInv, PermitPlace, LeakIsReported
<1> QED BY <1>1, <1>2

LEMMA RunnerPermit ==
    ASSUME TypeOK, PermitInv, NEW c \in Cases, RunnerStep(c)
    PROVE  PermitInv'
<1>0. \A d \in Cases : PermitPlace(d)
  BY PermitInvByCase
<1> SUFFICES PermitAccounting' /\ \A d \in Cases : PermitPlace(d)'
  BY DEF PermitInv, PermitPlace, LeakIsReported
<1>1. ASSUME NEW result \in CleanupStatus, Finish(c, result),
             worker[c] # "queue", result # "unresponsive" => worker[c] \in {"none", "ended"}
      PROVE  PermitAccounting' /\ \A d \in Cases : PermitPlace(d)'
  <2>1. PermitAccounting'
    BY <1>1, FinishPermit
  <2>2. ASSUME NEW d \in Cases PROVE PermitPlace(d)'
    <3>1. /\ UNCHANGED <<worker, outcome>>
          /\ run' = [run EXCEPT ![c] = "finished"]
          /\ cleanup' = [cleanup EXCEPT ![c] = result]
          /\ SpoilsTheCase(result) => status' = [status EXCEPT ![c] = "error"]
          /\ ~SpoilsTheCase(result) => status' = status
          /\ result # "unresponsive" => acquired' = [acquired EXCEPT ![c] = FALSE]
          /\ result = "unresponsive" => acquired' = acquired
      BY <1>1 DEF Finish, PermitDue, taskVars, permitVars, TypeOK
    <3>2. SpoilsTheCase("unresponsive")
      BY DEF SpoilsTheCase
    <3>3. CASE d = c
      BY <1>0, <1>1, <3>1, <3>2, <3>3 DEF PermitPlace, Awaits, Callbacks, TypeOK
    <3>4. CASE d # c
      <4>1. PermitPlace(d)
        BY <1>0
      <4>2. /\ run'[d] = run[d] /\ cleanup'[d] = cleanup[d] /\ status'[d] = status[d]
            /\ acquired'[d] = acquired[d]
        BY <3>1, <3>4 DEF TypeOK
      <4> QED BY <3>1, <4>1, <4>2 DEF PermitPlace
    <3> QED BY <3>3, <3>4
  <2> QED BY <2>1, <2>2
<1>2. ASSUME NEW place \in RunPlace \ {"start", "finished"},
             run[c] # "finished", run' = [run EXCEPT ![c] = place],
             UNCHANGED <<worker, outcome, permitVars>>,
             place \in {"closing", "closeDraining"} => worker[c] \in {"none", "ended"},
             \A d \in Cases \ {c} : status'[d] = status[d] /\ cleanup'[d] = cleanup[d]
      PROVE  PermitAccounting' /\ \A d \in Cases : PermitPlace(d)'
  <2>1. PermitAccounting'
    BY <1>2, FrameHolders
  <2>2. ASSUME NEW d \in Cases PROVE PermitPlace(d)'
    BY <1>0, <1>2 DEF PermitPlace, permitVars, TypeOK
  <2> QED BY <2>1, <2>2
<1>3. CASE Start(c)
  <2>1. CASE cancelEvent
    <3>1. /\ run[c] # "finished" /\ run' = [run EXCEPT ![c] = "cleanup"]
          /\ UNCHANGED <<worker, outcome, permitVars, cleanup>>
          /\ status' = [status EXCEPT ![c] = "cancelled"]
      BY <1>3, <2>1 DEF Start, Abort
    <3>2. \A d \in Cases \ {c} : status'[d] = status[d] /\ cleanup'[d] = cleanup[d]
      BY <3>1 DEF TypeOK
    <3> QED BY <1>2, <3>1, <3>2 DEF RunPlace
  <2>2. CASE ~cancelEvent
    <3>1. /\ run[c] = "start" /\ run' = [run EXCEPT ![c] = "waiting"]
          /\ worker' = [worker EXCEPT ![c] = "queue"]
          /\ UNCHANGED <<outcome, permitVars, cleanup, status>>
      BY <1>3, <2>2 DEF Start, recordVars
    <3>2. PermitAccounting'
      BY <3>1, FrameHolders
    <3>3. ASSUME NEW d \in Cases PROVE PermitPlace(d)'
      <4>1. PermitPlace(d)
        BY <1>0
      <4>2. CASE d = c
        BY <3>1, <4>1, <4>2 DEF PermitPlace, Awaits, Callbacks, permitVars, TypeOK
      <4>3. CASE d # c
        BY <3>1, <4>1, <4>3 DEF PermitPlace, permitVars, TypeOK
      <4> QED BY <4>2, <4>3
    <3> QED BY <3>2, <3>3
  <2> QED BY <2>1, <2>2
<1>4. CASE Abandon(c)
  <2>1. /\ run[c] = "start" /\ run' = [run EXCEPT ![c] = "finished"]
        /\ UNCHANGED <<worker, outcome, permitVars, cleanup, status>>
    BY <1>4 DEF Abandon, taskVars, recordVars
  <2>2. PermitAccounting'
    BY <2>1, FrameHolders
  <2>3. ASSUME NEW d \in Cases PROVE PermitPlace(d)'
    BY <1>0, <2>1 DEF PermitPlace, permitVars, TypeOK
  <2> QED BY <2>2, <2>3
<1>5. CASE Wake(c) \/ Interrupted(c)
  <2>1. /\ run[c] # "finished" /\ run' = [run EXCEPT ![c] = "cleanup"]
        /\ UNCHANGED <<worker, outcome, permitVars, cleanup>>
        /\ status' = status \/ \E verdict : status' = [status EXCEPT ![c] = verdict]
    BY <1>5 DEF Wake, Interrupted, CancelWorker, Abort, taskVars, recordVars
  <2>2. \A d \in Cases \ {c} : status'[d] = status[d] /\ cleanup'[d] = cleanup[d]
    BY <2>1 DEF TypeOK
  <2> QED BY <1>2, <2>1, <2>2 DEF RunPlace
<1>6. CASE BeginCleanup(c)
  <2>1. /\ run[c] # "finished" /\ run' = [run EXCEPT ![c] = "draining"]
        /\ UNCHANGED <<worker, outcome, permitVars, cleanup, status>>
    BY <1>6 DEF BeginCleanup, CancelWorker, recordVars
  <2> QED BY <1>2, <2>1 DEF RunPlace
<1>7. CASE Drained(c)
  <2>1. worker[c] \in {"none", "ended"} /\ run[c] # "finished"
    BY <1>7 DEF Drained
  <2>2. CASE Finish(c, IF adapter[c] = "none" THEN "not_created" ELSE "borrowed")
    BY <1>1, <2>1, <2>2 DEF CleanupStatus
  <2>3. CASE /\ run' = [run EXCEPT ![c] = "closing"]
             /\ UNCHANGED <<external, taskVars, permitVars, recordVars, cleanup, clockVars>>
    BY <1>2, <2>1, <2>3 DEF RunPlace, taskVars, recordVars
  <2> QED BY <1>7, <2>2, <2>3 DEF Drained
<1>8. CASE DrainExpires(c)
  BY <1>1, <1>8 DEF DrainExpires, CleanupStatus
<1>9. CASE CloseStalls(c)
  <2>1. /\ run[c] = "closing" /\ run' = [run EXCEPT ![c] = "closeDraining"]
        /\ UNCHANGED <<worker, outcome, permitVars, cleanup, status>>
        /\ worker[c] \in {"none", "ended"}
    BY <1>0, <1>9 DEF CloseStalls, taskVars, recordVars, PermitPlace
  <2> QED BY <1>2, <2>1 DEF RunPlace
<1>10. CASE CloseReturns(c) \/ CloseFails(c) \/ CloseAbandoned(c)
  <2>1. worker[c] \in {"none", "ended"}
    BY <1>0, <1>10 DEF CloseReturns, CloseFails, CloseAbandoned, PermitPlace
  <2> QED
    BY <1>1, <1>10, <2>1 DEF CloseReturns, CloseFails, CloseAbandoned, CleanupStatus
<1> QED
  BY <1>3, <1>4, <1>5, <1>6, <1>7, <1>8, <1>9, <1>10 DEF RunnerStep

LEMMA PermitStep ==
    ASSUME TypeOK, PermitInv, [Next]_vars
    PROVE  PermitInv'
<1>1. CASE UNCHANGED <<run, worker, outcome, cleanup, status, permitVars>>
  <2>1. PermitAccounting'
    BY <1>1, FrameHolders
  <2> QED BY <1>1, <2>1 DEF PermitInv, LeakIsReported, permitVars
<1>2. CASE SetCancelEvent \/ CancelBatch \/ UNCHANGED vars
  BY <1>1, <1>2 DEF SetCancelEvent, CancelBatch, vars, taskVars, recordVars
<1>3. ASSUME NEW c \in Cases, Expire(c)
      PROVE  PermitInv'
  BY <1>1, <1>3 DEF Expire, taskVars, recordVars
<1> QED BY <1>2, <1>3, WorkerPermit, RunnerPermit DEF Next

------------------------------------------------------------------------------
(* The theorems.                                                              *)

LEMMA InitHolds == Init => TypeOK /\ PermitInv
<1> SUFFICES ASSUME Init PROVE TypeOK /\ PermitInv
  OBVIOUS
<1>1. TypeOK
  BY DEF Init, TypeOK, RunPlace, CleanupStatus
<1>2. Holders = {}
  BY DEF Init, Holders
<1>3. PermitAccounting
  BY <1>2, FS_EmptySet DEF Init, PermitAccounting
<1> QED
  BY <1>1, <1>3 DEF Init, PermitInv, LeakIsReported, Awaits, Callbacks

LEMMA Inductive == Spec => [](TypeOK /\ PermitInv)
<1>1. TypeOK /\ PermitInv /\ [Next]_vars => (TypeOK /\ PermitInv)'
  BY TypeStep, PermitStep
<1> QED BY InitHolds, <1>1, PTL DEF Spec

\* Every variable keeps its type whatever the callbacks, the clock and the
\* canceller do: in particular permits stays within 0..MaxConcurrency, so the
\* semaphore is never released more often than it was acquired, and the
\* position of the active attempt stays inside the list.
THEOREM TypeCorrect == Spec => []TypeOK
BY Inductive, PTL

\* For any number of cases and permits: each permit is free or held by one
\* case, and where each worker is agrees with who holds a permit.
THEOREM PermitsSafe == Spec => []PermitInv
BY Inductive, PTL

\* No permit is lost or made up, whichever way the cases end.
THEOREM PermitsAccounted == Spec => []PermitAccounting
<1>1. PermitInv => PermitAccounting
  BY DEF PermitInv
<1> QED BY Inductive, <1>1, PTL

\* A permit that a finished case keeps is reported by an unresponsive error.
THEOREM LeaksReported == Spec => []LeakIsReported
<1>1. PermitInv => LeakIsReported
  BY DEF PermitInv
<1> QED BY Inductive, <1>1, PTL

\* At no time do more than MaxConcurrency workers run user callbacks, those
\* that outlived their case by ignoring its cancellation included.
THEOREM WorkBounded == Spec => []BoundedWork
<1>1. ASSUME TypeOK, PermitInv PROVE BoundedWork
  <2>1. Working \subseteq Holders
    BY <1>1 DEF Working, Holders, PermitInv
  <2>2. IsFiniteSet(Holders)
    BY FS_Subset DEF Holders
  <2>3. /\ Cardinality(Working) <= Cardinality(Holders)
        /\ Cardinality(Working) \in Nat /\ Cardinality(Holders) \in Nat
    BY <2>1, <2>2, FS_Subset, FS_CardinalityType
  <2>4. Cardinality(Holders) <= MaxConcurrency
    BY <1>1, <2>3 DEF TypeOK, PermitInv, PermitAccounting
  <2> QED BY <2>1, <2>3, <2>4 DEF BoundedWork
<1> QED BY Inductive, <1>1, PTL

------------------------------------------------------------------------------
(* The refinement of CaseVerdict.                                             *)

\* The value the refinement mapping gives to the verdict of case c.
Told(c) == IF run[c] # "finished" THEN "none"
           ELSE IF external[c] THEN "raised"
           ELSE IF Complete(c) THEN "complete" ELSE "incomplete"

\* What the completeness of a case depends on.
SameEvidence(c) ==
    /\ steps'[c] = steps[c] /\ quality'[c] = quality[c]
    /\ status'[c] = status[c] /\ unknown'[c] = unknown[c]
    /\ cleanup'[c] = cleanup[c]

LEMMA VerdictMapping ==
    /\ Verdict!vars = <<[c \in Cases |-> Told(c)], Holders>>
    /\ Verdict!Init <=> /\ [c \in Cases |-> Told(c)] = [c \in Cases |-> "none"]
                        /\ Holders = {}
BY DEF Verdict!vars, Verdict!Init, Told

------------------------------------------------------------------------------
(* Which steps leave a case as it is told.                                    *)

LEMMA SameTold ==
    ASSUME NEW c \in Cases, SameEvidence(c), run'[c] = run[c], external'[c] = external[c]
    PROVE  Told(c)' = Told(c)
BY DEF SameEvidence, Told, Complete

\* A case that has not finished has no verdict yet.
LEMMA NoneTold ==
    ASSUME NEW c \in Cases, run[c] # "finished", run'[c] # "finished"
    PROVE  Told(c)' = Told(c)
BY DEF Told

\* A worker that outlived its case keeps its permit, so the case is an error
\* whatever it still writes.
LEMMA NeverComplete ==
    ASSUME NEW c \in Cases, run[c] = "finished", status[c] = "error",
           run'[c] = run[c], status'[c] = "error", external'[c] = external[c]
    PROVE  Told(c)' = Told(c)
BY DEF Told, Complete, ExecutionComplete

\* A step of one case's tasks leaves the evidence of the others alone.
LEMMA AbortIsLocal ==
    ASSUME TypeOK, NEW c \in Cases, NEW verdict, Abort(c, verdict),
           NEW d \in Cases \ {c}
    PROVE  /\ steps'[d] = steps[d] /\ quality'[d] = quality[d]
           /\ status'[d] = status[d] /\ unknown'[d] = unknown[d]
BY DEF Abort, TypeOK

LEMMA WorkerIsLocal ==
    ASSUME TypeOK, NEW c \in Cases, WorkerStep(c), NEW d \in Cases \ {c}
    PROVE  SameEvidence(d)
<1>1. CASE AcquirePermit(c) \/ CallbackRaises(c) \/ WorkerCancelled(c) \/ Suppress(c)
  BY <1>1 DEF AcquirePermit, CallbackRaises, WorkerCancelled, Suppress, recordVars,
              SameEvidence
<1>2. ASSUME NEW native \in BOOLEAN, NEW late \in Later(c), InitReturns(c, native, late)
      PROVE  SameEvidence(d)
  BY <1>2 DEF InitReturns, SameEvidence
<1>3. CASE RateReturns(c) \/ BackoffEnds(c)
  BY <1>3 DEF RateReturns, BackoffEnds, SameEvidence
<1>4. ASSUME NEW response, NEW late, RequestReturns(c, response, late)
      PROVE  SameEvidence(d)
  <2>1. UNCHANGED <<unknown, quality, cleanup>>
    BY <1>4 DEF RequestReturns
  <2>2. \/ UNCHANGED <<status, steps>>
        \/ Answered(c, response, late)
    BY <1>4 DEF RequestReturns
  <2>3. ASSUME Answered(c, response, late)
        PROVE  steps'[d] = steps[d] /\ status'[d] = status[d]
    <3>1. steps' = [steps EXCEPT ![c] = Append(@, response)]
      BY <2>3 DEF Answered
    <3>2. UNCHANGED status \/ Finalize(c, late)
      BY <2>3 DEF Answered
    <3> QED BY <3>1, <3>2 DEF Finalize, TypeOK
  <2> QED BY <2>1, <2>2, <2>3 DEF SameEvidence
<1>5. ASSUME NEW retryable, NEW lost, RequestFails(c, retryable, lost)
      PROVE  SameEvidence(d)
  BY <1>5 DEF RequestFails, SameEvidence, TypeOK
<1>6. ASSUME NEW result, NEW late, EvaluationReturns(c, result, late)
      PROVE  SameEvidence(d)
  <2>1. UNCHANGED <<unknown, steps, cleanup>>
    BY <1>6 DEF EvaluationReturns
  <2>2. \/ UNCHANGED <<status, quality>>
        \/ quality' = [quality EXCEPT ![c] = result] /\ Finalize(c, late)
    BY <1>6 DEF EvaluationReturns
  <2> QED BY <2>1, <2>2 DEF Finalize, SameEvidence, TypeOK
<1> QED BY <1>1, <1>2, <1>3, <1>4, <1>5, <1>6 DEF WorkerStep

LEMMA WorkerKeepsExternal ==
    ASSUME NEW c \in Cases, WorkerStep(c)
    PROVE  UNCHANGED <<run, external>>
BY DEF WorkerStep, AcquirePermit, InitReturns, RateReturns, BackoffEnds, RequestReturns,
       RequestFails, CallbackRaises, EvaluationReturns, WorkerCancelled, Suppress

------------------------------------------------------------------------------
(* The steps of the abstract specification.                                   *)

LEMMA StutterFromCases ==
    ASSUME \A d \in Cases : Told(d)' = Told(d), UNCHANGED Holders
    PROVE  UNCHANGED Verdict!vars
<1>1. [d \in Cases |-> Told(d)]' = [d \in Cases |-> Told(d)]
  OBVIOUS
<1> QED BY <1>1 DEF Told, Verdict!vars

\* The cases in flight are those that hold a permit.
LEMMA SameHolders ==
    ASSUME UNCHANGED acquired
    PROVE  UNCHANGED Holders
BY DEF Holders

LEMMA SameCardinality == \A S : Verdict!Cardinality(S) = Cardinality(S)
BY Zenon DEF Verdict!Cardinality, Cardinality

LEMMA AcquireAdmits ==
    ASSUME TypeOK, PermitInv, NEW c \in Cases, AcquirePermit(c)
    PROVE  Verdict!Next
<1>1. run[c] # "finished" /\ c \notin Holders
  BY DEF AcquirePermit, Resumes, PermitInv, Holders
<1>2. Cardinality(Holders) < MaxConcurrency
  <2>1. IsFiniteSet(Holders)
    BY FS_Subset DEF Holders
  <2>2. Cardinality(Holders) \in Nat
    BY <2>1, FS_CardinalityType
  <2> QED BY <2>2 DEF AcquirePermit, PermitInv, PermitAccounting, TypeOK
<1>3. Holders' = Holders \cup {c}
  BY DEF AcquirePermit, Holders, TypeOK
<1>4. \A d \in Cases : Told(d)' = Told(d)
  BY SameTold DEF AcquirePermit, SameEvidence, recordVars
<1>5. [d \in Cases |-> Told(d)]' = [d \in Cases |-> Told(d)]
  BY <1>4
<1>6. Told(c) = "none"
  BY <1>1 DEF Told
<1>7. Verdict!Admit(c)
  BY <1>1, <1>2, <1>3, <1>5, <1>6, SameCardinality DEF Verdict!Admit, Told
<1> QED BY <1>7 DEF Verdict!Next

LEMMA OneSettles ==
    ASSUME NEW c \in Cases, run[c] # "finished", run'[c] = "finished",
           \A d \in Cases \ {c} : Told(d)' = Told(d),
           \/ Holders' = Holders \ {c}
           \/ Holders' = Holders /\ Told(c)' # "complete"
    PROVE  Verdict!Next
<1>1. PICK v \in Verdict!FinalVerdict : Told(c)' = v
  BY DEF Told, Verdict!FinalVerdict
<1>2. Told(c) = "none"
  BY DEF Told
<1>3. [d \in Cases |-> Told(d)]' = [[d \in Cases |-> Told(d)] EXCEPT ![c] = v]
  BY <1>1
<1>4. \/ Holders' = Holders \ {c}
      \/ v # "complete" /\ Holders' = Holders
  BY <1>1
<1>5. Verdict!Settle(c, v)
  BY <1>2, <1>3, <1>4 DEF Verdict!Settle, Told
<1> QED BY <1>1, <1>5 DEF Verdict!Next

LEMMA WorkerImplements ==
    ASSUME TypeOK, PermitInv, NEW c \in Cases, WorkerStep(c)
    PROVE  Verdict!Next \/ UNCHANGED Verdict!vars
<1>1. CASE AcquirePermit(c)
  BY <1>1, AcquireAdmits
<1>2. CASE ~AcquirePermit(c)
  <2>1. WorkerMove(c) /\ UNCHANGED <<run, external>>
    BY <1>2, WorkerMoves, WorkerKeepsExternal
  <2>2. ASSUME NEW d \in Cases \ {c} PROVE Told(d)' = Told(d)
    BY <2>1, WorkerIsLocal, SameTold
  <2>3. Told(c)' = Told(c)
    <3>1. CASE run[c] # "finished"
      BY <2>1, <3>1, NoneTold
    <3>2. CASE run[c] = "finished"
      <4>1. status[c] = "error"
        BY <2>1, <3>2 DEF WorkerMove, PermitInv, LeakIsReported
      <4>2. status'[c] = "error"
        BY <2>1, <4>1 DEF WorkerMove
      <4> QED BY <2>1, <3>2, <4>1, <4>2, NeverComplete
    <3> QED BY <3>1, <3>2
  <2>4. UNCHANGED Holders
    BY <2>1, SameHolders DEF WorkerMove, permitVars
  <2> QED BY <2>2, <2>3, <2>4, StutterFromCases
<1> QED BY <1>1, <1>2

LEMMA FinishSettles ==
    ASSUME TypeOK, PermitInv, NEW c \in Cases, NEW result \in CleanupStatus,
           run[c] # "finished", Finish(c, result)
    PROVE  Verdict!Next
<1>1. /\ run' = [run EXCEPT ![c] = "finished"]
      /\ cleanup' = [cleanup EXCEPT ![c] = result]
      /\ UNCHANGED <<external, unknown, steps, quality>>
      /\ SpoilsTheCase(result) => status' = [status EXCEPT ![c] = "error"]
      /\ ~SpoilsTheCase(result) => status' = status
  BY DEF Finish
<1>2. ASSUME NEW d \in Cases \ {c} PROVE Told(d)' = Told(d)
  <2>1. SameEvidence(d) /\ run'[d] = run[d] /\ external'[d] = external[d]
    BY <1>1 DEF SameEvidence, TypeOK
  <2> QED BY <2>1, SameTold
<1>3. \/ Holders' = Holders \ {c}
      \/ Holders' = Holders /\ Told(c)' # "complete"
  <2>1. CASE PermitDue(c, result)
    BY <2>1 DEF Finish, Holders, TypeOK
  <2>2. CASE ~PermitDue(c, result) /\ ~acquired[c]
    BY <2>2 DEF Finish, Holders, permitVars
  <2>3. CASE ~PermitDue(c, result) /\ acquired[c]
    <3>1. SpoilsTheCase(result)
      BY <2>3 DEF PermitDue, SpoilsTheCase
    <3>2. status'[c] = "error"
      BY <1>1, <3>1 DEF TypeOK
    <3>3. Told(c)' # "complete"
      BY <3>2 DEF Told, Complete, ExecutionComplete
    <3>4. UNCHANGED Holders
      BY <2>3, SameHolders DEF Finish, permitVars
    <3> QED BY <3>3, <3>4
  <2> QED BY <2>1, <2>2, <2>3
<1>4. run'[c] = "finished"
  BY <1>1 DEF TypeOK
<1> QED BY <1>2, <1>3, <1>4, OneSettles

LEMMA RunnerImplements ==
    ASSUME TypeOK, PermitInv, NEW c \in Cases, RunnerStep(c)
    PROVE  Verdict!Next \/ UNCHANGED Verdict!vars
<1>1. CASE Abandon(c)
  <2>1. /\ run[c] # "finished" /\ external[c] /\ ~acquired[c]
        /\ run' = [run EXCEPT ![c] = "finished"]
        /\ UNCHANGED <<external, permitVars, recordVars, cleanup>>
    BY <1>1 DEF Abandon, PermitInv
  <2>2. ASSUME NEW d \in Cases \ {c} PROVE Told(d)' = Told(d)
    <3>1. SameEvidence(d) /\ run'[d] = run[d] /\ external'[d] = external[d]
      BY <2>1 DEF SameEvidence, recordVars, TypeOK
    <3> QED BY <3>1, SameTold
  <2>3. Told(c)' # "complete" /\ run'[c] = "finished"
    BY <2>1 DEF Told, TypeOK
  <2>4. UNCHANGED Holders
    BY <2>1, SameHolders DEF permitVars
  <2> QED BY <2>1, <2>2, <2>3, <2>4, OneSettles
<1>2. CASE Start(c) \/ Wake(c) \/ Interrupted(c) \/ BeginCleanup(c) \/ CloseStalls(c)
  <2>1. /\ run[c] # "finished"
        /\ \E place \in RunPlace \ {"finished"} : run' = [run EXCEPT ![c] = place]
        /\ UNCHANGED <<external, permitVars, cleanup>>
    BY <1>2 DEF Start, Wake, Interrupted, BeginCleanup, CloseStalls, RunPlace
  <2>2. UNCHANGED recordVars \/ \E verdict : Abort(c, verdict)
    BY <1>2 DEF Start, Wake, Interrupted, BeginCleanup, CloseStalls
  <2>3. ASSUME NEW d \in Cases \ {c} PROVE Told(d)' = Told(d)
    <3>1. SameEvidence(d)
      BY <2>1, <2>2, AbortIsLocal DEF SameEvidence, recordVars
    <3>2. run'[d] = run[d] /\ external'[d] = external[d]
      BY <2>1 DEF TypeOK
    <3> QED BY <3>1, <3>2, SameTold
  <2>4. Told(c)' = Told(c)
    BY <2>1, NoneTold DEF TypeOK
  <2>5. UNCHANGED Holders
    BY <2>1, SameHolders DEF permitVars
  <2> QED BY <2>3, <2>4, <2>5, StutterFromCases
<1>3. CASE Drained(c)
  <2>1. run[c] # "finished"
    BY <1>3 DEF Drained
  <2>2. CASE Finish(c, IF adapter[c] = "none" THEN "not_created" ELSE "borrowed")
    BY <2>1, <2>2, FinishSettles DEF CleanupStatus
  <2>3. CASE /\ run' = [run EXCEPT ![c] = "closing"]
             /\ UNCHANGED <<external, permitVars, recordVars, cleanup>>
    <3>1. ASSUME NEW d \in Cases \ {c} PROVE Told(d)' = Told(d)
      <4>1. SameEvidence(d) /\ run'[d] = run[d] /\ external'[d] = external[d]
        BY <2>3 DEF SameEvidence, recordVars, TypeOK
      <4> QED BY <4>1, SameTold
    <3>2. Told(c)' = Told(c)
      BY <2>1, <2>3, NoneTold DEF TypeOK
    <3>3. UNCHANGED Holders
      BY <2>3, SameHolders DEF permitVars
    <3> QED BY <3>1, <3>2, <3>3, StutterFromCases
  <2> QED BY <1>3, <2>2, <2>3 DEF Drained
<1>4. CASE DrainExpires(c) \/ CloseReturns(c) \/ CloseFails(c) \/ CloseAbandoned(c)
  <2>1. run[c] # "finished" /\ \E result \in CleanupStatus : Finish(c, result)
    BY <1>4 DEF DrainExpires, CloseReturns, CloseFails, CloseAbandoned, CleanupStatus
  <2> QED BY <2>1, FinishSettles
<1> QED BY <1>1, <1>2, <1>3, <1>4 DEF RunnerStep

LEMMA StepImplements ==
    ASSUME TypeOK, PermitInv, [Next]_vars
    PROVE  [Verdict!Next]_(Verdict!vars)
<1>1. CASE \/ SetCancelEvent \/ CancelBatch \/ UNCHANGED vars
           \/ \E c \in Cases : Expire(c)
  <2>1. UNCHANGED <<run, permitVars, recordVars, cleanup>>
    BY <1>1 DEF SetCancelEvent, CancelBatch, Expire, vars
  <2>2. \A d \in Cases : run[d] = "finished" => external'[d] = external[d]
    <3>1. \/ external' = external
          \/ external' = [d \in Cases |-> external[d] \/ run[d] # "finished"]
      BY <1>1 DEF SetCancelEvent, CancelBatch, Expire, vars
    <3>2. ASSUME NEW d \in Cases, run[d] = "finished",
                 external' = [e \in Cases |-> external[e] \/ run[e] # "finished"]
          PROVE  external'[d] = external[d]
      <4>1. external[d] \in BOOLEAN
        BY DEF TypeOK
      <4>2. external'[d] = (external[d] \/ run[d] # "finished")
        BY <3>2
      <4> QED BY <3>2, <4>1, <4>2
    <3> QED BY <3>1, <3>2
  <2>3. ASSUME NEW d \in Cases PROVE Told(d)' = Told(d)
    <3>1. CASE run[d] = "finished"
      BY <2>1, <2>2, <3>1, SameTold DEF SameEvidence, recordVars
    <3>2. CASE run[d] # "finished"
      BY <2>1, <3>2, NoneTold
    <3> QED BY <3>1, <3>2
  <2>4. UNCHANGED Holders
    BY <2>1, SameHolders DEF permitVars
  <2> QED BY <2>3, <2>4, StutterFromCases
<1> QED BY <1>1, WorkerImplements, RunnerImplements DEF Next

LEMMA InitImplements == Init => Verdict!Init
<1> SUFFICES ASSUME Init PROVE Verdict!Init
  OBVIOUS
<1>1. Holders = {}
  BY DEF Init, Holders
<1>2. \A c \in Cases : Told(c) = "none"
  BY DEF Init, Told
<1> QED BY <1>1, <1>2, VerdictMapping

------------------------------------------------------------------------------
(* The theorems.                                                              *)

\* For any number of cases and permits, run_many gives each case one verdict
\* and never takes it back, admits a case only while a permit is free, and
\* withholds a permit for good only from a case whose verdict is not
\* "complete", whatever interruption, deadline and cleanup failure do.
THEOREM Implements == Spec => ImplementsVerdict
<1>1. TypeOK /\ PermitInv /\ [Next]_vars => [Verdict!Next]_(Verdict!vars)
  BY StepImplements
<1> QED BY InitImplements, Inductive, <1>1, PTL DEF Spec, ImplementsVerdict, Verdict!Spec

\* Success never wins: run() that resumes with the cancel event set, the
\* deadline passed or a cancellation from outside never records a completed
\* case, even if the worker has finished in the same turn.
THEOREM CancelAlwaysWins == Spec => CancelWins
<1>1. ASSUME TypeOK, [Next]_vars, NEW c \in Cases,
             run[c] = "waiting", run'[c] # "waiting", status'[c] = "completed"
      PROVE  ~cancelEvent /\ ~expired[c] /\ ~external[c]
  <2>1. Wake(c) \/ Interrupted(c)
    <3>1. UNCHANGED run \/ \E d \in Cases : RunnerStep(d)
      BY <1>1, WorkerKeepsExternal
      DEF Next, SetCancelEvent, CancelBatch, Expire, vars
    <3>2. PICK d \in Cases : RunnerStep(d)
      BY <1>1, <3>1
    <3>3. \E place : run' = [run EXCEPT ![d] = place]
      BY <3>2 DEF RunnerStep, Start, Abandon, Wake, Interrupted, BeginCleanup, Drained,
                  DrainExpires, CloseReturns, CloseFails, CloseStalls, CloseAbandoned, Finish
    <3>4. d = c
      BY <1>1, <3>3 DEF TypeOK
    <3> QED
      BY <1>1, <3>2, <3>4
      DEF RunnerStep, Start, Abandon, BeginCleanup, Drained, DrainExpires, CloseReturns,
          CloseFails, CloseStalls, CloseAbandoned
  <2>2. ASSUME NEW verdict, Abort(c, verdict) PROVE verdict = "completed"
    BY <1>1, <2>2 DEF Abort, TypeOK
  <2>3. ~Interrupted(c)
    BY <2>2 DEF Interrupted
  <2>4. Wake(c)
    BY <2>1, <2>3
  <2>5. WakeVerdict(c) # "completed"
    BY <1>1 DEF WakeVerdict, Verdicts, TypeOK
  <2>6. WakeVerdict(c) = "ok"
    BY <2>2, <2>4, <2>5 DEF Wake
  <2> QED BY <2>4, <2>6 DEF Wake, WakeVerdict
<1>2. TypeOK /\ [Next]_vars =>
        [\A c \in Cases : run[c] = "waiting" /\ run'[c] # "waiting" =>
            (status'[c] = "completed" => ~cancelEvent /\ ~expired[c] /\ ~external[c])]_vars
  BY <1>1
<1> QED BY <1>2, TypeCorrect, PTL DEF Spec, CancelWins

------------------------------------------------------------------------------
(* The evidence of one case.                                                  *)

\* The list of attempts with the active one at position a: only that one is
\* still open, and one with an interrupted or unknown outcome is known by u.
Sound(list, a, u) ==
    \A i \in 1..Len(list) :
        /\ list[i].status = "started" => i = a
        /\ list[i].status \in {"deadline", "cancelled"} => u
        /\ list[i].unknown => u

\* What every step keeps of a case: how its tasks, its verdict, its active
\* attempt and its adapter go together.
CaseInv(c) ==
    /\ run[c] = "start" => status[c] = "running"
    /\ run[c] = "waiting" => status[c] \in {"running", "completed"}
    /\ run[c] \notin {"start", "waiting"} => status[c] # "running" \/ worker[c] = "none"
    /\ run[c] \notin {"start", "waiting"} => active[c] = 0 \/ unknown[c]
    /\ worker[c] = "request" => active[c] # 0
    /\ worker[c] \in (Awaits \ {"request"}) \cup {"none"} => active[c] = 0
    /\ worker[c] = "ended" /\ outcome[c] = "ok" => active[c] = 0 /\ status[c] # "running"
    /\ status[c] = "completed" => worker[c] = "ended"
    /\ Sound(attempts[c], active[c], unknown[c])
    /\ run[c] # "finished" => cleanup[c] = "not_created" /\ adapter[c] # "closed"
    /\ run[c] \in {"closing", "closeDraining"} => OwnsAdapter /\ adapter[c] = "open"
    /\ cleanup[c] \in {"closed", "borrowed"} => worker[c] \in {"none", "ended"}
    /\ cleanup[c] = "closed" => OwnsAdapter /\ adapter[c] = "closed"
    /\ cleanup[c] = "borrowed" => ~OwnsAdapter /\ adapter[c] = "open"

EvidenceInv == \A c \in Cases : CaseInv(c)

SameCase(c) ==
    /\ run'[c] = run[c] /\ cleanup'[c] = cleanup[c] /\ adapter'[c] = adapter[c]
    /\ worker'[c] = worker[c] /\ outcome'[c] = outcome[c]
    /\ status'[c] = status[c] /\ unknown'[c] = unknown[c]
    /\ attempts'[c] = attempts[c] /\ active'[c] = active[c]

LEMMA SameCaseInv ==
    ASSUME NEW c \in Cases, CaseInv(c), SameCase(c)
    PROVE  CaseInv(c)'
BY DEF CaseInv, SameCase, Sound

LEMMA MarkSound ==
    ASSUME NEW list \in Seq(Attempt), NEW a \in 1..Len(list), NEW u \in BOOLEAN,
           Sound(list, a, u), NEW verdict \in FinalStatus, NEW lost \in BOOLEAN,
           NEW known \in BOOLEAN, u \/ lost => known,
           verdict \in {"deadline", "cancelled"} => known
    PROVE  Sound(Mark(list, a, verdict, lost), 0, known)
<1> DEFINE marked == Mark(list, a, verdict, lost)
<1>1. Len(marked) = Len(list)
  BY MarkType
<1>2. marked = [k \in 1..Len(list) |->
                  IF k = a THEN [list[k] EXCEPT !.status = verdict, !.unknown = lost]
                  ELSE list[k]]
  <2>1. list \in [1..Len(list) -> Attempt]
    OBVIOUS
  <2> QED BY <2>1, Zenon DEF Mark
<1> SUFFICES ASSUME NEW i \in 1..Len(list)
             PROVE  /\ marked[i].status # "started"
                    /\ marked[i].status \in {"deadline", "cancelled"} => known
                    /\ marked[i].unknown => known
  BY <1>1 DEF Sound
<1>3. list[i] \in Attempt /\ list[a] \in Attempt
  OBVIOUS
<1>4. CASE i = a
  <2>1. marked[i] = [list[a] EXCEPT !.status = verdict, !.unknown = lost]
    BY <1>2, <1>4, Zenon
  <2>2. marked[i].status = verdict /\ marked[i].unknown = lost
    BY <1>3, <2>1 DEF Attempt
  <2> QED BY <2>2 DEF FinalStatus
<1>5. CASE i # a
  <2>1. marked[i] = list[i]
    BY <1>2, <1>5, Zenon
  <2> QED BY <1>5, <2>1 DEF Sound
<1> QED BY <1>4, <1>5

LEMMA AppendSound ==
    ASSUME NEW list \in Seq(Attempt), NEW step \in Nat \ {0}, NEW u \in BOOLEAN,
           Sound(list, 0, u)
    PROVE  Sound(Append(list, NewAttempt(list, step)), Len(list) + 1, u)
<1> DEFINE new == NewAttempt(list, step)
<1>1. new.status = "started" /\ new.unknown = FALSE /\ new \in Attempt
  BY NewAttemptType DEF NewAttempt
<1> HIDE DEF new
<1>2. SUFFICES ASSUME NEW i \in 1..(Len(list) + 1)
               PROVE  /\ Append(list, new)[i].status = "started" => i = Len(list) + 1
                      /\ Append(list, new)[i].status \in {"deadline", "cancelled"} => u
                      /\ Append(list, new)[i].unknown => u
  BY <1>1 DEF Sound, new
<1>3. CASE i = Len(list) + 1
  BY <1>1, <1>3
<1>4. CASE i \in 1..Len(list)
  BY <1>4 DEF Sound
<1> QED BY <1>3, <1>4

\* Without an open attempt the position of the active one does not matter.
LEMMA ClosedSound ==
    ASSUME NEW list, NEW u, Sound(list, 0, u), NEW a
    PROVE  Sound(list, a, u)
BY DEF Sound

\* What the parts of a worker's step do to the list of attempts.
LEMMA NextAttemptSound ==
    ASSUME TypeOK, NEW c \in Cases, NEW list \in Seq(Attempt), NEW step \in Nat \ {0},
           NEW late \in BOOLEAN, NextAttempt(c, list, step, late),
           Sound(list, 0, unknown[c]), unknown' = unknown
    PROVE  /\ Sound(attempts[c], active[c], unknown[c])'
           /\ \/ /\ active'[c] = 0 /\ worker'[c] = "ended"
                 /\ outcome'[c] # "ok"
              \/ /\ active'[c] = 0 /\ worker'[c] = "rate" /\ status[c] = "running"
              \/ /\ active'[c] # 0 /\ worker'[c] = "request" /\ status[c] = "running"
<1>1. CASE Checkpoint(c, late) # "ok" /\ NoAttempt(c, list) /\ EndWorker(c, Checkpoint(c, late))
  BY <1>1 DEF NoAttempt, EndWorker, TypeOK
<1>2. CASE Checkpoint(c, late) = "ok" /\ NoAttempt(c, list) /\ Suspend(c, "rate")
  BY <1>2 DEF NoAttempt, Suspend, Checkpoint, TypeOK
<1>3. CASE Checkpoint(c, late) = "ok" /\ Dispatch(c, list, step)
  <2> DEFINE grown == Append(list, NewAttempt(list, step))
  <2>1. Sound(grown, Len(list) + 1, unknown[c])
    BY AppendSound DEF TypeOK
  <2>2. attempts' = [attempts EXCEPT ![c] = grown] /\ active' = [active EXCEPT ![c] = Len(list) + 1]
    BY <1>3 DEF Dispatch
  <2> HIDE DEF grown
  <2>3. attempts'[c] = grown /\ active'[c] = Len(list) + 1 /\ unknown'[c] = unknown[c]
    BY <2>2 DEF TypeOK
  <2>4. Sound(attempts[c], active[c], unknown[c])'
    BY <2>1, <2>3 DEF Sound
  <2>5. Len(list) + 1 # 0
    BY LenProperties
  <2> QED BY <1>3, <2>3, <2>4, <2>5 DEF Dispatch, Suspend, Checkpoint, TypeOK
<1> QED BY <1>1, <1>2, <1>3 DEF NextAttempt

LEMMA FinalizeEnds ==
    ASSUME TypeOK, NEW c \in Cases, NEW late, Finalize(c, late)
    PROVE  /\ worker'[c] = "ended"
           /\ \/ outcome'[c] = "ok" /\ status[c] = "running" /\ status'[c] = "completed"
              \/ outcome'[c] # "ok" /\ status' = status
BY DEF Finalize, EndWorker, Checkpoint, TypeOK

\* The ways a worker's step may leave its case.
Goes(c) ==
    /\ worker[c] \in Awaits
    /\ UNCHANGED <<run, cleanup>>
    /\ adapter'[c] \in {adapter[c], "open"}
    /\ unknown[c] => unknown'[c]
    /\ Sound(attempts[c], active[c], unknown[c])'
    /\ \/ /\ worker'[c] = "ended" /\ outcome'[c] # "ok"
          /\ status'[c] = status[c] /\ active'[c] \in {active[c], 0}
       \/ /\ worker'[c] = "ended" /\ outcome'[c] = "ok"
          /\ status[c] = "running" /\ status'[c] = "completed" /\ active'[c] = 0
       \/ /\ worker'[c] \in Awaits \ {"request"}
          /\ status'[c] = status[c] /\ active'[c] = 0
       \/ /\ worker'[c] = "request"
          /\ status[c] = "running" /\ status'[c] = "running" /\ active'[c] # 0
       \/ worker'[c] = worker[c] /\ status'[c] = status[c] /\ active'[c] = active[c]

LEMMA GoesKeepsInv ==
    ASSUME TypeOK, PermitInv, NEW c \in Cases, CaseInv(c), Goes(c)
    PROVE  CaseInv(c)'
<1>1. /\ run[c] # "start" /\ run[c] \notin {"closing", "closeDraining"}
      /\ worker[c] \notin {"none", "ended"}
  BY DEF Goes, PermitInv, Awaits, Callbacks
<1>2. /\ run'[c] = run[c] /\ cleanup'[c] = cleanup[c]
      /\ cleanup[c] \notin {"closed", "borrowed"} /\ status[c] # "completed"
  BY <1>1 DEF Goes, CaseInv
<1>3. "ended" \notin Awaits /\ "none" \notin Awaits
  BY DEF Awaits, Callbacks
<1> DEFINE alone == run[c] \notin {"start", "waiting"}
<1>4. alone => status'[c] # "running" /\ (active'[c] = 0 \/ unknown'[c])
  <2> SUFFICES ASSUME alone PROVE status'[c] # "running" /\ (active'[c] = 0 \/ unknown'[c])
    OBVIOUS
  <2>1. status[c] # "running"
    BY <1>1 DEF CaseInv
  <2>2. status'[c] # "running"
    BY <2>1 DEF Goes
  <2>3. active'[c] \in {active[c], 0}
    BY <2>1 DEF Goes
  <2>4. active[c] = 0 \/ unknown'[c]
    BY Zenon DEF CaseInv, Goes
  <2> QED BY <2>2, <2>3, <2>4
<1>5. /\ run'[c] = "start" => status'[c] = "running"
      /\ run'[c] = "waiting" => status'[c] \in {"running", "completed"}
  BY <1>1, <1>2 DEF Goes, CaseInv
<1>6. /\ worker'[c] = "request" => active'[c] # 0
      /\ worker'[c] \in (Awaits \ {"request"}) \cup {"none"} => active'[c] = 0
      /\ worker'[c] = "ended" /\ outcome'[c] = "ok" => active'[c] = 0 /\ status'[c] # "running"
      /\ status'[c] = "completed" => worker'[c] = "ended"
  BY <1>1, <1>2, <1>3 DEF Goes, CaseInv
<1>7. run'[c] # "finished" => cleanup'[c] = "not_created" /\ adapter'[c] # "closed"
  BY <1>2 DEF Goes, CaseInv
<1>8. Sound(attempts[c], active[c], unknown[c])'
  BY DEF Goes
<1> QED BY <1>1, <1>2, <1>4, <1>5, <1>6, <1>7, <1>8 DEF CaseInv

\* A worker that ends, or goes to another await, without touching the list.
LEMMA EndGoes ==
    ASSUME TypeOK, NEW c \in Cases, CaseInv(c), worker[c] \in Awaits,
           NEW verdict \in Verdicts \ {"ok"}, EndWorker(c, verdict),
           UNCHANGED <<run, cleanup, status, unknown, attempts, active>>,
           adapter'[c] \in {adapter[c], "open"}
    PROVE  Goes(c)
<1>1. Sound(attempts[c], active[c], unknown[c])'
  BY DEF CaseInv, Sound
<1>2. worker'[c] = "ended" /\ outcome'[c] = verdict
  BY DEF EndWorker, TypeOK
<1> QED BY <1>1, <1>2 DEF Goes

LEMMA SuspendGoes ==
    ASSUME TypeOK, NEW c \in Cases, CaseInv(c), worker[c] \in Awaits,
           NEW place \in Awaits \ {"request"}, Suspend(c, place), active[c] = 0,
           UNCHANGED <<run, cleanup, status, unknown, attempts, active, adapter>>
    PROVE  Goes(c)
<1>1. Sound(attempts[c], active[c], unknown[c])'
  BY DEF CaseInv, Sound
<1>2. worker'[c] = place
  BY DEF Suspend, TypeOK
<1> QED BY <1>1, <1>2 DEF Goes

LEMMA NextAttemptGoes ==
    ASSUME TypeOK, NEW c \in Cases, worker[c] \in Awaits,
           NEW list \in Seq(Attempt), NEW step \in Nat \ {0},
           NEW late \in BOOLEAN, NextAttempt(c, list, step, late),
           Sound(list, 0, unknown[c]),
           UNCHANGED <<run, cleanup, status, unknown>>, adapter'[c] \in {adapter[c], "open"}
    PROVE  Goes(c)
<1>1. "rate" \in Awaits \ {"request"}
  BY DEF Awaits, Callbacks
<1> QED BY <1>1, NextAttemptSound DEF Goes

\* An answer marks the open attempt; the rest of its step starts from a list
\* in which none is open.
LEMMA AnsweredGoes ==
    ASSUME TypeOK, NEW c \in Cases, CaseInv(c), worker[c] = "request",
           NEW verdict, NEW late \in BOOLEAN, Answered(c, verdict, late),
           UNCHANGED <<run, cleanup, unknown, adapter>>
    PROVE  Goes(c)
<1> DEFINE list == Mark(attempts[c], active[c], "completed", FALSE)
<1>1. list \in Seq(Attempt)
  BY MarkType DEF TypeOK, FinalStatus
<1>2. Sound(list, 0, unknown[c])
  <2>1. /\ attempts[c] \in Seq(Attempt) /\ active[c] \in 1..Len(attempts[c])
        /\ unknown[c] \in BOOLEAN
    BY DEF CaseInv, TypeOK
  <2>2. Sound(attempts[c], active[c], unknown[c])
    BY DEF CaseInv
  <2> QED BY <2>1, <2>2, MarkSound DEF FinalStatus
<1>3. worker[c] \in Awaits
  BY DEF Awaits, Callbacks
<1>4. CASE UNCHANGED status /\ NextAttempt(c, list, CurrentStep(c) + 1, late)
  <2>1. CurrentStep(c) + 1 \in Nat \ {0}
    BY StepAndClockType
  <2> HIDE DEF list
  <2> QED BY <1>1, <1>2, <1>3, <1>4, <2>1, NextAttemptGoes
<1>5. ASSUME NoAttempt(c, list)
      PROVE  active'[c] = 0 /\ Sound(attempts[c], active[c], unknown[c])'
  <2> HIDE DEF list
  <2>1. attempts'[c] = list /\ active'[c] = 0 /\ unknown'[c] = unknown[c]
    BY <1>5 DEF NoAttempt, TypeOK
  <2> QED BY <1>2, <2>1 DEF Sound
<1>6. CASE /\ NoAttempt(c, list) /\ UNCHANGED status
           /\ \/ Suspend(c, "evaluation")
              \/ Checkpoint(c, late) # "ok" /\ EndWorker(c, Checkpoint(c, late))
  <2>1. \/ worker'[c] = "evaluation"
        \/ worker'[c] = "ended" /\ outcome'[c] # "ok"
    BY <1>6 DEF Suspend, EndWorker, TypeOK
  <2> QED BY <1>3, <1>5, <1>6, <2>1 DEF Goes, Awaits, Callbacks
<1>7. CASE NoAttempt(c, list) /\ Finalize(c, late)
  BY <1>3, <1>5, <1>7, FinalizeEnds DEF Goes
<1> QED BY <1>4, <1>6, <1>7 DEF Answered

LEMMA WorkerGoes ==
    ASSUME TypeOK, NEW c \in Cases, CaseInv(c), WorkerStep(c)
    PROVE  Goes(c)
<1>0. \A late \in BOOLEAN : Checkpoint(c, late) \in Verdicts
  BY CheckpointType DEF Verdicts
<1>a. /\ expired[c] \in BOOLEAN /\ \A late \in Later(c) : late \in BOOLEAN
      /\ CurrentStep(c) \in Nat \ {0} /\ attempts[c] \in Seq(Attempt)
  BY StepAndClockType DEF TypeOK
<1>b. /\ worker[c] \in Awaits \ {"request"} => active[c] = 0
      /\ Sound(attempts[c], active[c], unknown[c])
  BY DEF CaseInv
<1>1. CASE AcquirePermit(c)
  <2>1. worker[c] = "queue" /\ UNCHANGED <<run, cleanup, status, unknown, attempts, active, adapter>>
    BY <1>1 DEF AcquirePermit, Resumes, recordVars
  <2>2. \/ Suspend(c, "init")
        \/ Checkpoint(c, expired[c]) # "ok" /\ EndWorker(c, Checkpoint(c, expired[c]))
    BY <1>1 DEF AcquirePermit
  <2> QED
    BY <1>0, <1>a, <1>b, <2>1, <2>2, EndGoes, SuspendGoes DEF Awaits, Callbacks
<1>2. ASSUME NEW native \in BOOLEAN, NEW late \in Later(c), InitReturns(c, native, late)
      PROVE  Goes(c)
  <2>1. /\ worker[c] = "init" /\ UNCHANGED <<run, cleanup, status, unknown>>
        /\ adapter'[c] = "open"
    BY <1>2 DEF InitReturns, Resumes, TypeOK
  <2>2. worker[c] \in Awaits \ {"request"}
    BY <2>1 DEF Awaits, Callbacks
  <2>3. CASE /\ \E verdict \in Verdicts \ {"ok"} : EndWorker(c, verdict)
             /\ UNCHANGED <<attempts, active>>
    BY <2>1, <2>2, <2>3, EndGoes
  <2>4. CASE NextAttempt(c, attempts[c], CurrentStep(c), late)
    BY <1>a, <1>b, <2>1, <2>2, <2>4, NextAttemptGoes
  <2>5. \/ /\ \E verdict \in Verdicts \ {"ok"} : EndWorker(c, verdict)
           /\ UNCHANGED <<attempts, active>>
        \/ NextAttempt(c, attempts[c], CurrentStep(c), late)
    BY <1>0, <1>a, <1>2 DEF InitReturns, Verdicts
  <2> QED BY <2>3, <2>4, <2>5
<1>3. CASE RateReturns(c)
  <2>1. /\ worker[c] = "rate" /\ UNCHANGED <<run, cleanup, status, unknown, adapter>>
        /\ worker[c] \in Awaits \ {"request"}
    BY <1>3 DEF RateReturns, Resumes, Awaits, Callbacks
  <2>2. CASE Checkpoint(c, expired[c]) = "ok"
    <3> DEFINE list == Append(attempts[c], NewAttempt(attempts[c], CurrentStep(c)))
    <3>1. Sound(list, Len(attempts[c]) + 1, unknown[c])
      BY <1>a, <1>b, <2>1, AppendSound DEF TypeOK
    <3>2. /\ attempts' = [attempts EXCEPT ![c] = list]
          /\ active' = [active EXCEPT ![c] = Len(attempts[c]) + 1]
          /\ Suspend(c, "request")
      BY <1>3, <2>2 DEF RateReturns, Dispatch
    <3> HIDE DEF list
    <3>3. /\ attempts'[c] = list /\ active'[c] = Len(attempts[c]) + 1
          /\ unknown'[c] = unknown[c] /\ worker'[c] = "request"
      BY <2>1, <3>2 DEF Suspend, TypeOK
    <3>4. Sound(attempts[c], active[c], unknown[c])'
      BY <3>1, <3>3 DEF Sound
    <3>5. status[c] = "running" /\ active'[c] # 0
      BY <1>a, <2>2, <3>3, LenProperties DEF Checkpoint
    <3> QED BY <2>1, <3>3, <3>4, <3>5 DEF Goes
  <2>3. CASE Checkpoint(c, expired[c]) # "ok"
    <3>1. /\ EndWorker(c, Checkpoint(c, expired[c])) /\ UNCHANGED <<attempts, active>>
          /\ Checkpoint(c, expired[c]) \in Verdicts \ {"ok"}
      BY <1>0, <1>a, <1>3, <2>3 DEF RateReturns
    <3> QED BY <2>1, <3>1, EndGoes
  <2> QED BY <2>2, <2>3
<1>4. CASE BackoffEnds(c)
  <2>1. /\ worker[c] = "backoff" /\ UNCHANGED <<run, cleanup, status, unknown, adapter>>
        /\ worker[c] \in Awaits \ {"request"}
        /\ NextAttempt(c, attempts[c], CurrentStep(c), expired[c])
    BY <1>4 DEF BackoffEnds, Resumes, Awaits, Callbacks
  <2> QED BY <1>a, <1>b, <2>1, NextAttemptGoes
<1>5. ASSUME NEW response, NEW late \in Later(c), RequestReturns(c, response, late)
      PROVE  Goes(c)
  <2>1. /\ worker[c] = "request" /\ UNCHANGED <<run, cleanup, unknown, adapter>>
        /\ worker[c] \in Awaits
    BY <1>5 DEF RequestReturns, Resumes, Awaits, Callbacks
  <2>2. CASE /\ \E verdict \in Verdicts \ {"ok"} : EndWorker(c, verdict)
             /\ UNCHANGED <<status, attempts, active>>
    BY <2>1, <2>2, EndGoes
  <2>3. CASE Answered(c, response, late)
    BY <1>a, <2>1, <2>3, AnsweredGoes
  <2>4. \/ /\ \E verdict \in Verdicts \ {"ok"} : EndWorker(c, verdict)
           /\ UNCHANGED <<status, attempts, active>>
        \/ Answered(c, response, late)
    BY <1>0, <1>a, <1>5 DEF RequestReturns, Verdicts
  <2> QED BY <2>2, <2>3, <2>4
<1>6. ASSUME NEW retryable \in BOOLEAN, NEW lost \in BOOLEAN, RequestFails(c, retryable, lost)
      PROVE  Goes(c)
  <2> DEFINE list == Mark(attempts[c], active[c], "error", lost)
  <2>1. /\ worker[c] = "request" /\ worker[c] \in Awaits
        /\ UNCHANGED <<run, cleanup, status, adapter>>
    BY <1>6 DEF RequestFails, Resumes, Awaits, Callbacks
  <2>2. active[c] \in 1..Len(attempts[c]) /\ unknown[c] \in BOOLEAN
    BY <2>1 DEF CaseInv, TypeOK
  <2>3. Sound(list, 0, unknown[c] \/ lost)
    BY <1>a, <1>b, <2>2, MarkSound DEF FinalStatus
  <2>4. /\ attempts' = [attempts EXCEPT ![c] = list]
        /\ unknown' = [unknown EXCEPT ![c] = unknown[c] \/ lost]
        /\ active' = [active EXCEPT ![c] = 0]
    BY <1>6 DEF RequestFails
  <2> HIDE DEF list
  <2>5. attempts'[c] = list /\ active'[c] = 0
    BY <2>4 DEF TypeOK
  <2>6. unknown'[c] = (unknown[c] \/ lost)
    BY <2>4 DEF TypeOK
  <2>7. Sound(attempts[c], active[c], unknown[c])'
    BY <2>3, <2>5, <2>6, Zenon DEF Sound
  <2>8. unknown[c] => unknown'[c]
    BY <2>6, Zenon
  <2>9. \/ worker'[c] = "backoff"
        \/ worker'[c] = "ended" /\ outcome'[c] = "error"
    <3>1. Suspend(c, "backoff") \/ EndWorker(c, "error")
      BY <1>6 DEF RequestFails
    <3> QED BY <3>1 DEF Suspend, EndWorker, TypeOK
  <2> QED BY <2>1, <2>5, <2>7, <2>8, <2>9 DEF Goes, Awaits, Callbacks
<1>7. CASE CallbackRaises(c)
  <2>1. /\ worker[c] \in Awaits /\ EndWorker(c, "error")
        /\ UNCHANGED <<run, cleanup, status, unknown, attempts, active, adapter>>
    BY <1>7 DEF CallbackRaises, Resumes, Awaits, Callbacks, recordVars
  <2> QED BY <2>1, EndGoes DEF Verdicts
<1>8. ASSUME NEW result, NEW late \in Later(c), EvaluationReturns(c, result, late)
      PROVE  Goes(c)
  <2>1. /\ worker[c] = "evaluation" /\ worker[c] \in Awaits \ {"request"}
        /\ UNCHANGED <<run, cleanup, unknown, attempts, active, adapter>>
    BY <1>8 DEF EvaluationReturns, Resumes, Awaits, Callbacks
  <2>2. CASE /\ \E verdict \in Verdicts \ {"ok"} : EndWorker(c, verdict)
             /\ UNCHANGED status
    BY <2>1, <2>2, EndGoes
  <2>3. CASE Finalize(c, late)
    <3>1. Sound(attempts[c], active[c], unknown[c])' /\ active'[c] = 0
      BY <1>b, <2>1 DEF Sound
    <3> QED BY <2>1, <2>3, <3>1, FinalizeEnds DEF Goes
  <2>4. \/ /\ \E verdict \in Verdicts \ {"ok"} : EndWorker(c, verdict)
           /\ UNCHANGED status
        \/ Finalize(c, late)
    BY <1>0, <1>a, <1>8 DEF EvaluationReturns, Verdicts
  <2> QED BY <2>2, <2>3, <2>4
<1>9. CASE WorkerCancelled(c)
  <2>1. /\ worker[c] \in Awaits /\ EndWorker(c, "cancelled")
        /\ UNCHANGED <<run, cleanup, status, unknown, attempts, active, adapter>>
    BY <1>9 DEF WorkerCancelled, Awaits, recordVars
  <2> QED BY <2>1, EndGoes DEF Verdicts
<1>10. CASE Suppress(c)
  <2>1. /\ worker[c] \in Awaits
        /\ UNCHANGED <<run, worker, cleanup, status, unknown, attempts, active, adapter>>
    BY <1>10 DEF Suppress, Awaits, recordVars
  <2>2. Sound(attempts[c], active[c], unknown[c])'
    BY <1>b, <2>1 DEF Sound
  <2> QED BY <2>1, <2>2 DEF Goes
<1> QED
  BY <1>1, <1>2, <1>3, <1>4, <1>5, <1>6, <1>7, <1>8, <1>9, <1>10 DEF WorkerStep

\* A step of one case's tasks leaves the other cases alone.
LEMMA NextAttemptIsLocal ==
    ASSUME TypeOK, NEW c \in Cases, NEW list, NEW step, NEW late,
           NextAttempt(c, list, step, late), NEW d \in Cases \ {c}
    PROVE  /\ worker'[d] = worker[d] /\ outcome'[d] = outcome[d]
           /\ attempts'[d] = attempts[d] /\ active'[d] = active[d]
BY DEF NextAttempt, NoAttempt, EndWorker, Suspend, Dispatch, TypeOK

LEMMA WorkerLeavesOthers ==
    ASSUME TypeOK, NEW c \in Cases, WorkerStep(c), NEW d \in Cases \ {c}
    PROVE  SameCase(d)
<1>1. /\ status'[d] = status[d] /\ unknown'[d] = unknown[d] /\ cleanup'[d] = cleanup[d]
      /\ run'[d] = run[d]
  BY WorkerIsLocal, WorkerKeepsExternal DEF SameEvidence
<1> DEFINE Same == /\ worker'[d] = worker[d] /\ outcome'[d] = outcome[d]
                   /\ attempts'[d] = attempts[d] /\ active'[d] = active[d]
<1>2. ASSUME NEW place, Suspend(c, place), UNCHANGED <<attempts, active>> PROVE Same
  BY <1>2 DEF Suspend, TypeOK
<1>3. ASSUME NEW verdict, EndWorker(c, verdict), UNCHANGED <<attempts, active>> PROVE Same
  BY <1>3 DEF EndWorker, TypeOK
<1>4. ASSUME NEW list, NEW step, Dispatch(c, list, step) PROVE Same
  BY <1>4 DEF Dispatch, Suspend, TypeOK
<1>5. ASSUME NEW late, NEW list, NoAttempt(c, list), Finalize(c, late) PROVE Same
  BY <1>5 DEF Finalize, EndWorker, NoAttempt, TypeOK
<1>6. ASSUME NEW list, NoAttempt(c, list),
             \/ \E place : Suspend(c, place)
             \/ \E verdict : EndWorker(c, verdict)
      PROVE  Same
  BY <1>6 DEF Suspend, EndWorker, NoAttempt, TypeOK
<1> HIDE DEF Same
<1>11. CASE AcquirePermit(c)
  <2>1. /\ UNCHANGED <<adapter, attempts, active>>
        /\ Suspend(c, "init") \/ EndWorker(c, Checkpoint(c, expired[c]))
    BY <1>11 DEF AcquirePermit, recordVars
  <2> QED BY <1>1, <1>2, <1>3, <2>1 DEF SameCase, Same
<1>12. ASSUME NEW native, NEW late, InitReturns(c, native, late) PROVE SameCase(d)
  <2>1. adapter'[d] = adapter[d]
    BY <1>12 DEF InitReturns, TypeOK
  <2>2. \/ /\ \E verdict : EndWorker(c, verdict)
           /\ UNCHANGED <<attempts, active>>
        \/ NextAttempt(c, attempts[c], CurrentStep(c), late)
    BY <1>12 DEF InitReturns
  <2>3. Same
    BY <1>3, <2>2, NextAttemptIsLocal DEF Same
  <2> QED BY <1>1, <2>1, <2>3 DEF SameCase, Same
<1>13. CASE RateReturns(c) \/ BackoffEnds(c)
  <2>1. /\ UNCHANGED adapter
        /\ \/ /\ \E verdict : EndWorker(c, verdict)
              /\ UNCHANGED <<attempts, active>>
           \/ Dispatch(c, attempts[c], CurrentStep(c))
           \/ NextAttempt(c, attempts[c], CurrentStep(c), expired[c])
    BY <1>13 DEF RateReturns, BackoffEnds
  <2>2. Same
    BY <1>3, <1>4, <2>1, NextAttemptIsLocal DEF Same
  <2> QED BY <1>1, <2>1, <2>2 DEF SameCase, Same
<1>14. ASSUME NEW response, NEW late, RequestReturns(c, response, late) PROVE SameCase(d)
  <2>1. UNCHANGED adapter
    BY <1>14 DEF RequestReturns
  <2>2. \/ /\ \E verdict : EndWorker(c, verdict)
           /\ UNCHANGED <<attempts, active>>
        \/ Answered(c, response, late)
    BY <1>14 DEF RequestReturns
  <2>3. ASSUME Answered(c, response, late) PROVE Same
    <3> DEFINE list == Mark(attempts[c], active[c], "completed", FALSE)
    <3>1. \/ NextAttempt(c, list, CurrentStep(c) + 1, late)
          \/ /\ NoAttempt(c, list)
             /\ \/ Suspend(c, "evaluation")
                \/ EndWorker(c, Checkpoint(c, late))
          \/ NoAttempt(c, list) /\ Finalize(c, late)
      BY <2>3 DEF Answered
    <3> HIDE DEF list
    <3> QED BY <1>5, <1>6, <3>1, NextAttemptIsLocal DEF Same
  <2>4. Same
    BY <1>3, <2>2, <2>3
  <2> QED BY <1>1, <2>1, <2>4 DEF SameCase, Same
<1>15. ASSUME NEW retryable, NEW lost, RequestFails(c, retryable, lost) PROVE SameCase(d)
  <2>1. /\ UNCHANGED adapter
        /\ attempts'[d] = attempts[d] /\ active'[d] = active[d]
    BY <1>15 DEF RequestFails, TypeOK
  <2>2. Suspend(c, "backoff") \/ EndWorker(c, "error")
    BY <1>15 DEF RequestFails
  <2>3. worker'[d] = worker[d] /\ outcome'[d] = outcome[d]
    BY <2>2 DEF Suspend, EndWorker, TypeOK
  <2> QED BY <1>1, <2>1, <2>3 DEF SameCase
<1>16. CASE CallbackRaises(c) \/ WorkerCancelled(c) \/ Suppress(c)
  <2>1. /\ UNCHANGED <<adapter, attempts, active>>
        /\ \/ \E verdict : EndWorker(c, verdict)
           \/ UNCHANGED <<worker, outcome>>
    BY <1>16 DEF CallbackRaises, WorkerCancelled, Suppress, recordVars
  <2> QED BY <1>1, <1>3, <2>1 DEF SameCase, Same
<1>17. ASSUME NEW result, NEW late, EvaluationReturns(c, result, late) PROVE SameCase(d)
  <2>1. /\ UNCHANGED <<adapter, attempts, active>>
        /\ \E verdict : EndWorker(c, verdict)
    BY <1>17 DEF EvaluationReturns, Finalize
  <2> QED BY <1>1, <1>3, <2>1 DEF SameCase, Same
<1> QED BY <1>11, <1>12, <1>13, <1>14, <1>15, <1>16, <1>17 DEF WorkerStep

\* _abort settles the case and leaves no attempt open.
LEMMA AbortSettles ==
    ASSUME TypeOK, NEW c \in Cases, CaseInv(c),
           NEW verdict \in {"deadline", "cancelled", "error"}, Abort(c, verdict)
    PROVE  /\ status'[c] = verdict /\ active' = active
           /\ active'[c] = 0 \/ unknown'[c]
           /\ Sound(attempts[c], active[c], unknown[c])'
<1>1. status'[c] = verdict /\ active' = active
  BY DEF Abort, TypeOK
<1>2. Sound(attempts[c], active[c], unknown[c])
  BY DEF CaseInv
<1>3. CASE active[c] = 0
  <2>1. UNCHANGED <<attempts, unknown>> /\ active'[c] = 0
    BY <1>1, <1>3 DEF Abort
  <2>2. Sound(attempts[c], active[c], unknown[c])'
    BY <1>1, <1>2, <2>1 DEF Sound
  <2> QED BY <1>1, <2>1, <2>2
<1>4. CASE active[c] # 0
  <2> DEFINE list == Mark(attempts[c], active[c], verdict, TRUE)
  <2>1. /\ attempts' = [attempts EXCEPT ![c] = list]
        /\ unknown' = [unknown EXCEPT ![c] = unknown[c] \/ TRUE]
    BY <1>4 DEF Abort, UnknownAfterAbort
  <2>2. /\ attempts[c] \in Seq(Attempt) /\ active[c] \in 1..Len(attempts[c])
        /\ unknown[c] \in BOOLEAN
    BY <1>4 DEF TypeOK
  <2>3. Sound(list, 0, TRUE)
    BY <1>2, <2>2, MarkSound DEF FinalStatus
  <2> HIDE DEF list
  <2>4. attempts'[c] = list /\ unknown'[c]
    BY <2>1 DEF TypeOK
  <2>5. Sound(attempts[c], active[c], unknown[c])'
    BY <2>3, <2>4 DEF Sound
  <2> QED BY <1>1, <2>4, <2>5
<1> QED BY <1>3, <1>4

LEMMA AbortLeavesOthers ==
    ASSUME TypeOK, NEW c \in Cases, NEW verdict, Abort(c, verdict), NEW d \in Cases \ {c}
    PROVE  /\ status'[d] = status[d] /\ unknown'[d] = unknown[d]
           /\ attempts'[d] = attempts[d] /\ active'[d] = active[d]
BY DEF Abort, TypeOK

\* The end of cleanup, with what its callers know of the worker and adapter.
LEMMA FinishKeepsInv ==
    ASSUME TypeOK, NEW c \in Cases, CaseInv(c), run[c] \notin {"start", "waiting"},
           NEW result \in CleanupStatus, Finish(c, result),
           result \in {"closed", "borrowed"} => worker[c] \in {"none", "ended"},
           result = "closed" => OwnsAdapter /\ adapter'[c] = "closed",
           result = "borrowed" => ~OwnsAdapter /\ adapter'[c] = "open"
    PROVE  CaseInv(c)'
<1>1. /\ run'[c] = "finished" /\ cleanup'[c] = result
      /\ UNCHANGED <<worker, outcome, unknown, attempts, active>>
      /\ status'[c] \in {status[c], "error"}
  BY DEF Finish, taskVars, TypeOK
<1>2. Sound(attempts[c], active[c], unknown[c])'
  BY <1>1 DEF CaseInv, Sound
<1>3. /\ status'[c] # "running" \/ worker'[c] = "none"
      /\ active'[c] = 0 \/ unknown'[c]
  BY <1>1, Zenon DEF CaseInv
<1>4. /\ worker'[c] = "request" => active'[c] # 0
      /\ worker'[c] \in (Awaits \ {"request"}) \cup {"none"} => active'[c] = 0
      /\ worker'[c] = "ended" /\ outcome'[c] = "ok" => active'[c] = 0 /\ status'[c] # "running"
      /\ status'[c] = "completed" => worker'[c] = "ended"
  BY <1>1 DEF CaseInv
<1> QED BY <1>1, <1>2, <1>3, <1>4 DEF CaseInv

\* A step of run() or cleanup that goes on to another place before the end.
LEMMA MoveKeepsInv ==
    ASSUME TypeOK, NEW c \in Cases, CaseInv(c), run[c] \in {"cleanup", "draining", "closing"},
           NEW place \in {"draining", "closing", "closeDraining"},
           run' = [run EXCEPT ![c] = place],
           UNCHANGED <<worker, outcome, status, unknown, attempts, active, adapter, cleanup>>,
           place \in {"closing", "closeDraining"} => OwnsAdapter /\ adapter[c] = "open"
    PROVE  CaseInv(c)'
<1>1. run'[c] = place
  BY DEF TypeOK
<1>2. Sound(attempts[c], active[c], unknown[c])'
  BY DEF CaseInv, Sound
<1> QED BY <1>1, <1>2 DEF CaseInv

LEMMA RunnerKeepsInv ==
    ASSUME TypeOK, PermitInv, NEW c \in Cases, CaseInv(c), RunnerStep(c)
    PROVE  CaseInv(c)'
<1>0. Sound(attempts[c], active[c], unknown[c])
  BY DEF CaseInv
<1>a. ASSUME NEW verdict \in {"deadline", "cancelled", "error"}, Abort(c, verdict),
             run[c] \in {"start", "waiting"}, run'[c] = "cleanup",
             UNCHANGED <<worker, outcome, adapter, cleanup>>
      PROVE  CaseInv(c)'
  <2>1. /\ status'[c] = verdict /\ active'[c] = active[c]
        /\ active'[c] = 0 \/ unknown'[c]
        /\ Sound(attempts[c], active[c], unknown[c])'
    BY <1>a, AbortSettles
  <2> QED BY <1>a, <2>1 DEF CaseInv
<1>1. CASE Start(c)
  <2>1. CASE cancelEvent
    <3>1. /\ Abort(c, "cancelled") /\ run[c] = "start" /\ run'[c] = "cleanup"
          /\ UNCHANGED <<worker, outcome, adapter, cleanup>>
      BY <1>1, <2>1 DEF Start, TypeOK
    <3> QED BY <1>a, <3>1
  <2>2. CASE ~cancelEvent
    <3>1. /\ run[c] = "start" /\ run'[c] = "waiting" /\ worker'[c] = "queue"
          /\ UNCHANGED <<outcome, adapter, cleanup, status, unknown, attempts, active>>
      BY <1>1, <2>2 DEF Start, recordVars, TypeOK
    <3>2. active[c] = 0 /\ status[c] = "running"
      BY <3>1 DEF CaseInv, PermitInv
    <3>3. Sound(attempts[c], active[c], unknown[c])'
      BY <1>0, <3>1 DEF Sound
    <3> QED BY <3>1, <3>2, <3>3 DEF CaseInv, Awaits, Callbacks
  <2> QED BY <2>1, <2>2
<1>2. CASE Abandon(c)
  <2>1. /\ run[c] = "start" /\ run'[c] = "finished"
        /\ UNCHANGED <<worker, outcome, adapter, cleanup, status, unknown, attempts, active>>
    BY <1>2 DEF Abandon, taskVars, recordVars, TypeOK
  <2>2. worker[c] = "none" /\ active[c] = 0
    BY <2>1 DEF CaseInv, PermitInv
  <2>3. Sound(attempts[c], active[c], unknown[c])'
    BY <1>0, <2>1 DEF Sound
  <2>4. cleanup[c] = "not_created"
    BY <2>1 DEF CaseInv
  <2> QED BY <2>1, <2>2, <2>3, <2>4 DEF CaseInv
<1>3. CASE Wake(c) \/ Interrupted(c)
  <2>1. /\ run[c] = "waiting" /\ run'[c] = "cleanup"
        /\ UNCHANGED <<worker, outcome, adapter, cleanup>>
    BY <1>3 DEF Wake, Interrupted, CancelWorker, TypeOK
  <2>2. CASE \E verdict \in {"deadline", "cancelled", "error"} : Abort(c, verdict)
    BY <1>a, <2>1, <2>2
  <2>3. CASE Wake(c) /\ WakeVerdict(c) = "ok"
    <3>1. /\ worker[c] = "ended" /\ outcome[c] = "ok"
          /\ UNCHANGED <<status, unknown, attempts, active>>
      BY <2>3 DEF Wake, Awakened, WakeVerdict, recordVars
    <3>2. Sound(attempts[c], active[c], unknown[c])'
      BY <1>0, <3>1 DEF Sound
    <3> QED BY <2>1, <3>1, <3>2 DEF CaseInv
  <2>4. Interrupted(c) => Abort(c, "cancelled")
    BY DEF Interrupted
  <2>5. Wake(c) => WakeVerdict(c) \in {"deadline", "cancelled", "error", "ok"}
    <3>1. ASSUME Wake(c) PROVE outcome[c] \in Verdicts \/ cancelEvent \/ expired[c]
      BY <3>1 DEF Wake, Awakened, PermitInv, TypeOK
    <3> QED BY <3>1 DEF WakeVerdict, Verdicts
  <2>6. Wake(c) /\ WakeVerdict(c) # "ok" => Abort(c, WakeVerdict(c))
    BY DEF Wake
  <2> QED BY <1>3, <2>2, <2>3, <2>4, <2>5, <2>6
<1>4. CASE BeginCleanup(c)
  <2>1. /\ run[c] = "cleanup" /\ run' = [run EXCEPT ![c] = "draining"]
        /\ UNCHANGED <<worker, outcome, status, unknown, attempts, active, adapter, cleanup>>
    BY <1>4 DEF BeginCleanup, CancelWorker, recordVars
  <2> QED BY <2>1, MoveKeepsInv
<1>5. CASE Drained(c)
  <2>1. /\ run[c] = "draining" /\ worker[c] \in {"none", "ended"} /\ UNCHANGED adapter
        /\ adapter[c] \in {"none", "open"}
    BY <1>5 DEF Drained, CaseInv, TypeOK
  <2>2. CASE MustClose(c)
    <3>1. /\ run' = [run EXCEPT ![c] = "closing"]
          /\ UNCHANGED <<worker, outcome, status, unknown, attempts, active, cleanup>>
      BY <1>5, <2>2 DEF Drained, taskVars, recordVars
    <3> QED BY <2>1, <2>2, <3>1, MoveKeepsInv DEF MustClose
  <2>3. CASE ~MustClose(c)
    <3>1. Finish(c, IF adapter[c] = "none" THEN "not_created" ELSE "borrowed")
      BY <1>5, <2>3 DEF Drained
    <3>2. CASE adapter[c] = "none"
      BY <2>1, <3>1, <3>2, FinishKeepsInv DEF CleanupStatus
    <3>3. CASE adapter[c] = "open"
      BY <2>1, <2>3, <3>1, <3>3, FinishKeepsInv DEF CleanupStatus, MustClose
    <3> QED BY <2>1, <3>2, <3>3
  <2> QED BY <2>2, <2>3
<1>6. CASE DrainExpires(c) \/ CloseFails(c) \/ CloseAbandoned(c)
  <2>1. /\ run[c] \notin {"start", "waiting"}
        /\ \E result \in {"unresponsive", "error", "timeout"} : Finish(c, result)
    BY <1>6 DEF DrainExpires, CloseFails, CloseAbandoned
  <2> QED BY <2>1, FinishKeepsInv DEF CleanupStatus
<1>7. CASE CloseReturns(c)
  <2>1. /\ run[c] = "closing" /\ adapter'[c] = "closed" /\ Finish(c, "closed")
    BY <1>7 DEF CloseReturns, TypeOK
  <2>2. OwnsAdapter /\ worker[c] \in {"none", "ended"}
    BY <2>1 DEF CaseInv, PermitInv
  <2> QED BY <2>1, <2>2, FinishKeepsInv DEF CleanupStatus
<1>8. CASE CloseStalls(c)
  <2>1. /\ run[c] = "closing" /\ run' = [run EXCEPT ![c] = "closeDraining"]
        /\ UNCHANGED <<worker, outcome, status, unknown, attempts, active, adapter, cleanup>>
        /\ OwnsAdapter /\ adapter[c] = "open"
    BY <1>8 DEF CloseStalls, taskVars, recordVars, CaseInv
  <2> QED BY <2>1, MoveKeepsInv
<1> QED
  BY <1>1, <1>2, <1>3, <1>4, <1>5, <1>6, <1>7, <1>8 DEF RunnerStep

LEMMA RunnerLeavesOthers ==
    ASSUME TypeOK, NEW c \in Cases, RunnerStep(c), NEW d \in Cases \ {c}
    PROVE  SameCase(d) /\ steps'[d] = steps[d] /\ quality'[d] = quality[d]
<1>1. ASSUME NEW result, Finish(c, result), adapter'[d] = adapter[d]
      PROVE  SameCase(d) /\ steps'[d] = steps[d] /\ quality'[d] = quality[d]
  BY <1>1 DEF Finish, SameCase, taskVars, TypeOK
<1>2. ASSUME NEW verdict, Abort(c, verdict), UNCHANGED <<adapter, cleanup, outcome, worker>>,
             NEW place, run' = [run EXCEPT ![c] = place]
      PROVE  SameCase(d) /\ steps'[d] = steps[d] /\ quality'[d] = quality[d]
  BY <1>2, AbortLeavesOthers, AbortIsLocal DEF SameCase, TypeOK
<1>3. ASSUME UNCHANGED <<recordVars, adapter, cleanup, outcome>>,
             worker' = worker \/ worker' = [worker EXCEPT ![c] = "queue"],
             NEW place, run' = [run EXCEPT ![c] = place]
      PROVE  SameCase(d) /\ steps'[d] = steps[d] /\ quality'[d] = quality[d]
  BY <1>3 DEF SameCase, recordVars, TypeOK
<1>4. CASE Start(c)
  BY <1>2, <1>3, <1>4 DEF Start
<1>5. CASE Abandon(c) \/ BeginCleanup(c) \/ CloseStalls(c)
  BY <1>3, <1>5 DEF Abandon, BeginCleanup, CloseStalls, CancelWorker, taskVars
<1>6. CASE Wake(c) \/ Interrupted(c)
  BY <1>2, <1>3, <1>6 DEF Wake, Interrupted, CancelWorker
<1>7. CASE Drained(c)
  BY <1>1, <1>3, <1>7 DEF Drained, taskVars
<1>8. CASE DrainExpires(c) \/ CloseReturns(c) \/ CloseFails(c) \/ CloseAbandoned(c)
  <2>1. (\E result : Finish(c, result)) /\ adapter'[d] = adapter[d]
    BY <1>8 DEF DrainExpires, CloseReturns, CloseFails, CloseAbandoned, TypeOK
  <2> QED BY <1>1, <2>1
<1> QED BY <1>4, <1>5, <1>6, <1>7, <1>8 DEF RunnerStep

LEMMA EvidenceStep ==
    ASSUME TypeOK, PermitInv, EvidenceInv, [Next]_vars
    PROVE  EvidenceInv'
<1> SUFFICES ASSUME NEW d \in Cases PROVE CaseInv(d)'
  BY DEF EvidenceInv
<1>0. \A c \in Cases : CaseInv(c)
  BY DEF EvidenceInv
<1>1. CASE \/ SetCancelEvent \/ CancelBatch \/ UNCHANGED vars
           \/ \E c \in Cases : Expire(c)
  <2>1. SameCase(d)
    BY <1>1 DEF SetCancelEvent, CancelBatch, Expire, vars, taskVars, recordVars, SameCase
  <2> QED BY <1>0, <2>1, SameCaseInv
<1>2. ASSUME NEW c \in Cases, WorkerStep(c) \/ RunnerStep(c)
      PROVE  CaseInv(d)'
  <2>1. CASE c = d
    BY <1>0, <1>2, <2>1, WorkerGoes, GoesKeepsInv, RunnerKeepsInv
  <2>2. CASE c # d
    BY <1>0, <1>2, <2>2, WorkerLeavesOthers, RunnerLeavesOthers, SameCaseInv
  <2> QED BY <2>1, <2>2
<1> QED BY <1>1, <1>2 DEF Next

LEMMA EvidenceInit == Init => EvidenceInv
<1> SUFFICES ASSUME Init, NEW c \in Cases PROVE CaseInv(c)
  BY DEF EvidenceInv
<1>1. attempts[c] = <<>>
  BY DEF Init
<1>2. Sound(attempts[c], active[c], unknown[c])
  BY <1>1 DEF Sound
<1> QED BY <1>2 DEF Init, CaseInv, Awaits, Callbacks

LEMMA EvidenceInductive == Spec => [](TypeOK /\ PermitInv /\ EvidenceInv)
<1>1. TypeOK /\ PermitInv /\ EvidenceInv /\ [Next]_vars => EvidenceInv'
  BY EvidenceStep
<1> QED BY EvidenceInit, Inductive, <1>1, PTL DEF Spec

------------------------------------------------------------------------------
(* Theorems about the evidence.                                               *)

LEMMA OutstandingFollows ==
    ASSUME TypeOK, EvidenceInv, NEW c \in Cases, run[c] = "finished", ~unknown[c]
    PROVE  /\ worker[c] # "request"
           /\ \A i \in DOMAIN attempts[c] :
                  ~attempts[c][i].unknown /\ attempts[c][i].status \in {"completed", "error"}
<1>1. CaseInv(c)
  BY DEF EvidenceInv
<1>2. active[c] = 0 /\ Sound(attempts[c], 0, FALSE)
  BY <1>1 DEF CaseInv, Sound
<1>3. worker[c] # "request"
  BY <1>1, <1>2 DEF CaseInv
<1>4. ASSUME NEW i \in DOMAIN attempts[c]
      PROVE  ~attempts[c][i].unknown /\ attempts[c][i].status \in {"completed", "error"}
  <2>1. attempts[c] \in Seq(Attempt) /\ i \in 1..Len(attempts[c])
    BY DEF TypeOK
  <2>2. attempts[c][i] \in Attempt
    BY <2>1
  <2>3. attempts[c][i].status \in {"started"} \cup FinalStatus
    BY <2>2 DEF Attempt
  <2>4. /\ attempts[c][i].status \notin {"started", "deadline", "cancelled"}
        /\ ~attempts[c][i].unknown
    BY <1>2, <2>1 DEF Sound
  <2> QED BY <2>3, <2>4 DEF FinalStatus
<1> QED BY <1>3, <1>4

\* A case that finished with a request in the air says so: its effect is
\* unknown, whatever the request still does; otherwise every attempt of it was
\* answered or failed with a known outcome.
THEOREM OutstandingAlwaysUnknown == Spec => []OutstandingIsUnknown
<1>1. TypeOK /\ PermitInv /\ EvidenceInv => OutstandingIsUnknown
  BY OutstandingFollows DEF OutstandingIsUnknown
<1> QED BY EvidenceInductive, <1>1, PTL

\* A complete result leaves nothing behind: the worker has ended and gave its
\* permit back, the adapter is closed if it is owned, and each request sent
\* was answered or is known to have failed.
THEOREM CompleteAlwaysSettled == Spec => []CompleteMeansSettled
<1>1. ASSUME TypeOK, PermitInv, EvidenceInv, NEW c \in Cases, Returned(c), Complete(c)
      PROVE  /\ worker[c] = "ended" /\ ~acquired[c]
             /\ adapter[c] = IF OwnsAdapter THEN "closed" ELSE "open"
             /\ \A i \in DOMAIN attempts[c] :
                    ~attempts[c][i].unknown /\ attempts[c][i].status \in {"completed", "error"}
  <2>1. /\ run[c] = "finished" /\ status[c] = "completed" /\ ~unknown[c]
        /\ cleanup[c] \in {"closed", "borrowed"}
    BY <1>1 DEF Returned, Complete, ExecutionComplete
  <2>2. worker[c] = "ended" /\ adapter[c] = IF OwnsAdapter THEN "closed" ELSE "open"
    BY <1>1, <2>1 DEF EvidenceInv, CaseInv
  <2>3. ~acquired[c]
    BY <1>1, <2>1 DEF PermitInv, LeakIsReported
  <2> QED BY <1>1, <2>1, <2>2, <2>3, OutstandingFollows
<1>2. TypeOK /\ PermitInv /\ EvidenceInv => CompleteMeansSettled
  BY <1>1 DEF CompleteMeansSettled
<1> QED BY EvidenceInductive, <1>2, PTL

\* The worker of an interrupted case passes no checkpoint.
LEMMA InterruptedWorker ==
    ASSUME TypeOK, NEW c \in Cases, CaseInv(c), Interruption(c), WorkerStep(c)
    PROVE  /\ Len(attempts'[c]) = Len(attempts[c])
           /\ steps'[c] = steps[c] /\ quality'[c] = quality[c]
<1>1. \A late : Checkpoint(c, late) # "ok"
  BY DEF Checkpoint, Interruption
<1>2. \A list, step, late : NextAttempt(c, list, step, late) => attempts' = [attempts EXCEPT ![c] = list]
  BY <1>1 DEF NextAttempt, NoAttempt
<1>3. CASE AcquirePermit(c) \/ CallbackRaises(c) \/ WorkerCancelled(c) \/ Suppress(c)
  BY <1>3 DEF AcquirePermit, CallbackRaises, WorkerCancelled, Suppress, recordVars
<1>4. ASSUME NEW native, NEW late, InitReturns(c, native, late)
      PROVE  UNCHANGED <<attempts, steps, quality>>
  BY <1>1, <1>4 DEF InitReturns
<1>5. CASE RateReturns(c)
  BY <1>1, <1>5 DEF RateReturns
<1>6. CASE BackoffEnds(c)
  <2>1. attempts'[c] = attempts[c]
    BY <1>2, <1>6 DEF BackoffEnds, TypeOK
  <2> QED BY <1>6, <2>1 DEF BackoffEnds
<1>7. ASSUME NEW response, NEW late, RequestReturns(c, response, late)
      PROVE  UNCHANGED <<attempts, steps, quality>>
  BY <1>1, <1>7 DEF RequestReturns
<1>8. ASSUME NEW retryable \in BOOLEAN, NEW lost \in BOOLEAN, RequestFails(c, retryable, lost)
      PROVE  Len(attempts'[c]) = Len(attempts[c]) /\ UNCHANGED <<steps, quality>>
  <2> DEFINE list == Mark(attempts[c], active[c], "error", lost)
  <2>1. Len(list) = Len(attempts[c])
    <3>1. attempts[c] \in Seq(Attempt) /\ active[c] \in Nat /\ "error" \in FinalStatus
      BY DEF TypeOK, FinalStatus
    <3> QED BY <3>1, MarkType
  <2>2. attempts' = [attempts EXCEPT ![c] = list] /\ UNCHANGED <<steps, quality>>
    BY <1>8 DEF RequestFails
  <2> HIDE DEF list
  <2> QED BY <2>1, <2>2 DEF TypeOK
<1>9. ASSUME NEW result, NEW late, EvaluationReturns(c, result, late)
      PROVE  UNCHANGED <<attempts, steps, quality>>
  BY <1>1, <1>9 DEF EvaluationReturns
<1> QED BY <1>3, <1>4, <1>5, <1>6, <1>7, <1>8, <1>9 DEF WorkerStep

LEMMA InterruptedRunner ==
    ASSUME TypeOK, NEW c \in Cases, CaseInv(c), Interruption(c), RunnerStep(c)
    PROVE  UNCHANGED <<attempts, steps, quality>>
<1>1. run[c] \notin {"start", "waiting"}
  BY DEF CaseInv, Interruption
<1>2. ~Start(c) /\ ~Abandon(c) /\ ~Wake(c) /\ ~Interrupted(c)
  BY <1>1 DEF Start, Abandon, Wake, Interrupted
<1> QED
  BY <1>2 DEF RunnerStep, BeginCleanup, Drained, DrainExpires, CloseReturns, CloseFails,
              CloseStalls, CloseAbandoned, Finish, recordVars

\* An interrupted case is over: no request is dispatched, no step is added and
\* no quality result is stored for it by a callback that answers late.
THEOREM InterruptedStaysOver == Spec => EvidenceFrozen
<1>1. ASSUME TypeOK, PermitInv, EvidenceInv, [Next]_vars,
             NEW c \in Cases, Interruption(c)
      PROVE  /\ Len(attempts'[c]) = Len(attempts[c])
             /\ steps'[c] = steps[c]
             /\ quality'[c] = quality[c]
  <2>1. CaseInv(c)
    BY <1>1 DEF EvidenceInv
  <2>2. CASE \/ SetCancelEvent \/ CancelBatch \/ UNCHANGED vars
             \/ \E d \in Cases : Expire(d)
    BY <2>2 DEF SetCancelEvent, CancelBatch, Expire, vars, recordVars
  <2>3. ASSUME NEW d \in Cases, WorkerStep(d) \/ RunnerStep(d)
        PROVE  /\ Len(attempts'[c]) = Len(attempts[c])
               /\ steps'[c] = steps[c]
               /\ quality'[c] = quality[c]
    <3>1. CASE d = c
      BY <1>1, <2>1, <2>3, <3>1, InterruptedWorker, InterruptedRunner
    <3>2. CASE d # c
      BY <1>1, <2>3, <3>2, WorkerLeavesOthers, WorkerIsLocal, RunnerLeavesOthers
      DEF SameCase, SameEvidence
    <3> QED BY <3>1, <3>2
  <2> QED BY <1>1, <2>2, <2>3 DEF Next
<1>2. TypeOK /\ PermitInv /\ EvidenceInv /\ [Next]_vars =>
        [\A c \in Cases : Interruption(c) =>
            /\ Len(attempts'[c]) = Len(attempts[c])
            /\ steps'[c] = steps[c]
            /\ quality'[c] = quality[c]]_vars
  BY <1>1
<1> QED BY <1>2, EvidenceInductive, PTL DEF Spec, EvidenceFrozen
------------------------------------------------------------------------------
(* The reader's order.  ValidExecution counts and compares the attempts of a  *)
(* finished case; what follows is what the worker keeps of them while the case*)
(* runs, so that they pass whenever and however it is interrupted.            *)

\* A list of attempts the reader can follow: each one is a retry of the one
\* before it or an attempt on the next step, and has the number the reader
\* counts.
Numbered(list) ==
    \A i \in 1..Len(list) :
        /\ IF i = 1 THEN list[i].step = 1 ELSE Follows(list[i - 1], list[i])
        /\ list[i].number = Cardinality({j \in AttemptsOn(list, list[i].step) : j <= i})
        /\ list[i].number <= MaxAttempts
        /\ list[i].status = "completed" => ~list[i].unknown
        /\ list[i].step <= list[Len(list)].step

\* The last attempt on step s was answered.
Closed(list, s) ==
    \E i \in 1..Len(list) :
        /\ list[i].step = s /\ list[i].status = "completed"
        /\ \A j \in 1..Len(list) : list[j].step = s => j <= i

AllAnswered(verdicts) == \A s \in 1..Len(verdicts) : verdicts[s] # "error"

\* A step has a verdict of its own only if its last attempt was answered.
Backed(list, verdicts) ==
    \A s \in 1..Len(verdicts) : verdicts[s] # "error" => Closed(list, s)

\* An attempt on step s may follow the list.
Ready(list, s) ==
    IF list = <<>> THEN s = 1
    ELSE \/ list[Len(list)].step = s - 1 /\ list[Len(list)].status = "completed"
         \/ /\ list[Len(list)].step = s /\ list[Len(list)].status = "error"
            /\ ~list[Len(list)].unknown /\ list[Len(list)].number < MaxAttempts

\* Once the case is settled every attempt has an outcome and belongs to a
\* recorded step.
Settled(list, verdicts) ==
    /\ verdicts # <<>>
    /\ \A i \in 1..Len(list) : list[i].step <= Len(verdicts) /\ list[i].status # "started"

\* What the attempts and the steps of a case with this status have to do with
\* each other.
Trail(verdict, list, verdicts) ==
    /\ Numbered(list) /\ Backed(list, verdicts)
    /\ Len(verdicts) <= ExpectedSteps
    /\ \A i \in 1..Len(list) : list[i].step <= ExpectedSteps
    /\ verdict = "running" => \A i \in 1..Len(list) : list[i].step <= Len(verdicts) + 1
    /\ verdict # "running" => Settled(list, verdicts)
    /\ verdict \in {"running", "completed"} => AllAnswered(verdicts)
    /\ verdict = "completed" => Len(verdicts) = ExpectedSteps

\* What the next request of a worker that may still go on starts from.
Recording(place, list, verdicts) ==
    /\ place \in {"none", "queue"} => list = <<>> /\ verdicts = <<>>
    /\ place \in {"init", "rate", "backoff"} =>
          Ready(list, Len(verdicts) + 1) /\ Len(verdicts) < ExpectedSteps
    /\ place = "request" =>
          list[Len(list)].step = Len(verdicts) + 1 /\ Len(verdicts) < ExpectedSteps
    /\ place = "evaluation" => Len(verdicts) = ExpectedSteps

\* The attempt that is active is the last one and has not been answered.
OpenLast(list, a) == a # 0 => a = Len(list) /\ list[a].status # "completed"

TrailOf(place, verdict, list, a, verdicts) ==
    /\ Trail(verdict, list, verdicts)
    /\ OpenLast(list, a)
    /\ verdict = "running" => Recording(place, list, verdicts)

CaseTrail(c) == TrailOf(worker[c], status[c], attempts[c], active[c], steps[c])

\* Only a task that was cancelled before its first step ends without a verdict.
Unsettled(c) ==
    run[c] \notin {"start", "waiting"} /\ status[c] = "running" => run[c] = "finished" /\ external[c]

TrailInv == \A c \in Cases : CaseTrail(c) /\ Unsettled(c)

\* marked is list with the outcome of its last record rewritten.
MarksLast(marked, list, verdict, lost) ==
    /\ marked \in Seq(Attempt) /\ Len(marked) = Len(list)
    /\ \A k \in 1..Len(list) : k # Len(list) => marked[k] = list[k]
    /\ \A k \in 1..Len(list) :
           marked[k].step = list[k].step /\ marked[k].number = list[k].number
    /\ marked[Len(list)].status = verdict /\ marked[Len(list)].unknown = lost

LEMMA MarkLast ==
    ASSUME NEW list \in Seq(Attempt), list # <<>>,
           NEW verdict \in FinalStatus, NEW lost \in BOOLEAN
    PROVE  MarksLast(Mark(list, Len(list), verdict, lost), list, verdict, lost)
<1> DEFINE marked == Mark(list, Len(list), verdict, lost)
<1>1. marked \in Seq(Attempt) /\ Len(marked) = Len(list) /\ Len(list) \in Nat
  BY MarkType
<1>2. marked = [k \in 1..Len(list) |->
                  IF k = Len(list) THEN [list[k] EXCEPT !.status = verdict, !.unknown = lost]
                  ELSE list[k]]
  <2>1. list \in [1..Len(list) -> Attempt]
    OBVIOUS
  <2> QED BY <2>1, Zenon DEF Mark
<1>3. ASSUME NEW k \in 1..Len(list), k # Len(list)
      PROVE  marked[k] = list[k]
  BY <1>2, <1>3, Zenon
<1>4. Len(list) \in 1..Len(list) /\ list[Len(list)] \in Attempt
  BY EmptySeq
<1>5. marked[Len(list)] = [list[Len(list)] EXCEPT !.status = verdict, !.unknown = lost]
  BY <1>2, <1>4, Zenon
<1>6. /\ marked[Len(list)].status = verdict /\ marked[Len(list)].unknown = lost
      /\ marked[Len(list)].step = list[Len(list)].step
      /\ marked[Len(list)].number = list[Len(list)].number
  BY <1>4, <1>5 DEF Attempt
<1> HIDE DEF marked
<1>7. ASSUME NEW k \in 1..Len(list)
      PROVE  marked[k].step = list[k].step /\ marked[k].number = list[k].number
  BY <1>3, <1>6
<1>8. MarksLast(marked, list, verdict, lost)
  BY <1>1, <1>3, <1>6, <1>7 DEF MarksLast
<1> QED BY <1>8 DEF marked

LEMMA MarkTrail ==
    ASSUME NEW list \in Seq(Attempt), list # <<>>, Numbered(list),
           NEW verdict \in FinalStatus, NEW lost \in BOOLEAN,
           verdict = "completed" => ~lost
    PROVE  Numbered(Mark(list, Len(list), verdict, lost))
<1> DEFINE marked == Mark(list, Len(list), verdict, lost)
<1>0. MarksLast(marked, list, verdict, lost)
  BY MarkLast
<1> HIDE DEF marked
<1>1. /\ marked \in Seq(Attempt) /\ Len(marked) = Len(list)
      /\ \A k \in 1..Len(list) : k # Len(list) => marked[k] = list[k]
      /\ \A k \in 1..Len(list) :
             marked[k].step = list[k].step /\ marked[k].number = list[k].number
      /\ marked[Len(list)].status = verdict /\ marked[Len(list)].unknown = lost
  BY <1>0 DEF MarksLast
<1>2. Len(list) \in Nat /\ Len(list) \in 1..Len(list)
  BY EmptySeq
<1>3. DOMAIN list = 1..Len(list) /\ DOMAIN marked = 1..Len(list)
  BY <1>1
<1>4. \A s : AttemptsOn(marked, s) = AttemptsOn(list, s)
  BY <1>1, <1>3 DEF AttemptsOn
<1> SUFFICES ASSUME NEW i \in 1..Len(list)
             PROVE  /\ IF i = 1 THEN marked[i].step = 1 ELSE Follows(marked[i - 1], marked[i])
                    /\ marked[i].number = Cardinality({j \in AttemptsOn(marked, marked[i].step) : j <= i})
                    /\ marked[i].number <= MaxAttempts
                    /\ marked[i].status = "completed" => ~marked[i].unknown
                    /\ marked[i].step <= marked[Len(marked)].step
  BY <1>1 DEF Numbered, marked
<1>5. IF i = 1 THEN marked[i].step = 1 ELSE Follows(marked[i - 1], marked[i])
  <2>1. CASE i = 1
    BY <1>1, <2>1 DEF Numbered
  <2>2. CASE i # 1
    <3>1. i - 1 \in 1..Len(list) /\ i - 1 # Len(list)
      BY <1>2, <2>2
    <3>2. Follows(list[i - 1], list[i])
      BY <2>2 DEF Numbered
    <3> QED BY <1>1, <2>2, <3>1, <3>2 DEF Follows
  <2> QED BY <2>1, <2>2
<1>6. marked[i].number = Cardinality({j \in AttemptsOn(marked, marked[i].step) : j <= i})
  BY <1>1, <1>4 DEF Numbered
<1>7. marked[i].number <= MaxAttempts /\ marked[i].step <= marked[Len(marked)].step
  BY <1>1, <1>2 DEF Numbered
<1>8. marked[i].status = "completed" => ~marked[i].unknown
  BY <1>1 DEF Numbered
<1> QED BY <1>5, <1>6, <1>7, <1>8

\* An attempt that was not answered backs no step, whatever becomes of it.
LEMMA MarkBacked ==
    ASSUME NEW list \in Seq(Attempt), list # <<>>, NEW verdicts \in Seq(StepStatus),
           Backed(list, verdicts), list[Len(list)].status # "completed",
           NEW verdict \in FinalStatus, NEW lost \in BOOLEAN
    PROVE  Backed(Mark(list, Len(list), verdict, lost), verdicts)
<1> DEFINE marked == Mark(list, Len(list), verdict, lost)
<1>1. /\ Len(marked) = Len(list)
      /\ \A k \in 1..Len(list) : k # Len(list) => marked[k] = list[k]
      /\ \A k \in 1..Len(list) : marked[k].step = list[k].step
  <2>1. MarksLast(marked, list, verdict, lost)
    BY MarkLast
  <2> HIDE DEF marked
  <2> QED BY <2>1 DEF MarksLast
<1> HIDE DEF marked
<1> SUFFICES ASSUME NEW s \in 1..Len(verdicts), verdicts[s] # "error"
             PROVE  Closed(marked, s)
  BY DEF Backed, marked
<1>2. PICK i \in 1..Len(list) :
        /\ list[i].step = s /\ list[i].status = "completed"
        /\ \A j \in 1..Len(list) : list[j].step = s => j <= i
  BY DEF Backed, Closed
<1>3. i # Len(list)
  BY <1>2
<1>4. marked[i] = list[i]
  BY <1>1, <1>3
<1> QED BY <1>1, <1>2, <1>4 DEF Closed

\* The answer of the last attempt closes its step.
LEMMA MarkCloses ==
    ASSUME NEW list \in Seq(Attempt), list # <<>>
    PROVE  Closed(Mark(list, Len(list), "completed", FALSE), list[Len(list)].step)
<1> DEFINE marked == Mark(list, Len(list), "completed", FALSE)
<1>1. /\ Len(marked) = Len(list)
      /\ marked[Len(list)].step = list[Len(list)].step
      /\ marked[Len(list)].status = "completed"
  <2>1. "completed" \in FinalStatus /\ FALSE \in BOOLEAN
    BY DEF FinalStatus
  <2>2. MarksLast(marked, list, "completed", FALSE)
    BY <2>1, MarkLast
  <2>3. Len(list) \in 1..Len(list)
    BY EmptySeq
  <2> HIDE DEF marked
  <2> QED BY <2>2, <2>3 DEF MarksLast
<1>2. Len(list) \in Nat /\ Len(list) \in 1..Len(list)
  BY EmptySeq
<1> HIDE DEF marked
<1>3. \A j \in 1..Len(marked) : j <= Len(list)
  BY <1>1, <1>2
<1>4. Closed(marked, list[Len(list)].step)
  BY <1>1, <1>2, <1>3 DEF Closed
<1> QED BY <1>4 DEF marked

\* The attempts on a step are as many as the last of them counts.
LEMMA AttemptsFinite ==
    ASSUME NEW list \in Seq(Attempt), NEW s
    PROVE  IsFiniteSet(AttemptsOn(list, s)) /\ Cardinality(AttemptsOn(list, s)) \in Nat
<1>1. AttemptsOn(list, s) \subseteq 1..Len(list)
  BY DEF AttemptsOn
<1>2. IsFiniteSet(AttemptsOn(list, s))
  BY <1>1, FS_Interval, FS_Subset
<1> QED BY <1>2, FS_CardinalityType

\* The number of an attempt that may follow is one the policy allows.
LEMMA ReadyNumber ==
    ASSUME NEW list \in Seq(Attempt), Numbered(list), NEW s \in Nat \ {0}, Ready(list, s)
    PROVE  Cardinality(AttemptsOn(list, s)) + 1 <= MaxAttempts
<1> DEFINE n == Len(list)
<1>1. CASE list = <<>>
  <2>1. AttemptsOn(list, s) = {}
    BY <1>1 DEF AttemptsOn
  <2> QED BY <2>1, FS_EmptySet
<1>2. CASE list # <<>> /\ list[n].step = s - 1
  <2>1. n \in 1..n /\ list[n] \in Attempt
    BY <1>2, EmptySeq
  <2>2. AttemptsOn(list, s) = {}
    <3>1. ASSUME NEW i \in 1..n PROVE list[i].step # s
      <4>1. list[i] \in Attempt
        OBVIOUS
      <4>2. list[i].step <= list[n].step
        BY DEF Numbered
      <4> QED BY <1>2, <2>1, <4>1, <4>2 DEF Attempt
    <3> QED BY <3>1 DEF AttemptsOn
  <2> QED BY <2>2, FS_EmptySet
<1>3. CASE list # <<>> /\ list[n].step = s /\ list[n].number < MaxAttempts
  <2>1. n \in 1..n /\ list[n] \in Attempt
    BY <1>3, EmptySeq
  <2>2. list[n].number = Cardinality({j \in AttemptsOn(list, s) : j <= n})
    BY <1>3, <2>1 DEF Numbered
  <2>3. {j \in AttemptsOn(list, s) : j <= n} = AttemptsOn(list, s)
    BY DEF AttemptsOn
  <2>4. list[n].number = Cardinality(AttemptsOn(list, s))
    BY <2>2, <2>3, Zenon
  <2>5. list[n].number \in Nat
    BY <2>1 DEF Attempt
  <2> HIDE DEF n
  <2> QED BY <1>3, <2>4, <2>5
<1> QED BY <1>1, <1>2, <1>3 DEF Ready

LEMMA AppendNumbered ==
    ASSUME NEW list \in Seq(Attempt), Numbered(list), NEW s \in Nat \ {0}, Ready(list, s)
    PROVE  Numbered(Append(list, NewAttempt(list, s)))
<1> DEFINE n == Len(list)
           new == NewAttempt(list, s)
           grown == Append(list, new)
<1>1. /\ new.step = s /\ new.number = Cardinality(AttemptsOn(list, s)) + 1
      /\ new.status = "started" /\ new \in Attempt
  BY NewAttemptType DEF NewAttempt
<1>2. Numbered(list) /\ Ready(list, s) /\ n \in Nat
  OBVIOUS
<1> HIDE DEF new
<1>3. /\ Len(grown) = n + 1 /\ grown[n + 1] = new /\ DOMAIN grown = 1..(n + 1)
      /\ \A i \in 1..n : grown[i] = list[i]
      /\ \A i \in 1..n : list[i] \in Attempt
      /\ DOMAIN list = 1..n
  BY <1>1
<1> HIDE DEF grown
<1>4. \A i \in 1..n : list[i].step <= s
  <2> SUFFICES ASSUME NEW i \in 1..n PROVE list[i].step <= s
    OBVIOUS
  <2>1. n \in 1..n /\ list # <<>>
    BY <1>2
  <2>2. list[i].step <= list[n].step
    BY <1>2 DEF Numbered
  <2>3. list[n].step = s \/ list[n].step = s - 1
    BY <1>2, <2>1 DEF Ready
  <2> QED BY <1>3, <2>1, <2>2, <2>3 DEF Attempt
<1>5. ASSUME NEW i \in 1..n
      PROVE  /\ IF i = 1 THEN grown[i].step = 1 ELSE Follows(grown[i - 1], grown[i])
             /\ grown[i].number = Cardinality({j \in AttemptsOn(grown, grown[i].step) : j <= i})
             /\ grown[i].number <= MaxAttempts
             /\ grown[i].status = "completed" => ~grown[i].unknown
             /\ grown[i].step <= grown[n + 1].step
  <2>1. {j \in AttemptsOn(grown, grown[i].step) : j <= i}
          = {j \in AttemptsOn(list, list[i].step) : j <= i}
    BY <1>2, <1>3 DEF AttemptsOn
  <2>2. i # 1 => i - 1 \in 1..n
    BY <1>2
  <2> QED BY <1>1, <1>2, <1>3, <1>4, <2>1, <2>2 DEF Numbered
<1>6. IF n + 1 = 1 THEN new.step = 1 ELSE Follows(grown[n], new)
  <2>1. CASE list = <<>>
    BY <1>1, <1>2, <2>1 DEF Ready
  <2>2. CASE list # <<>>
    <3>1. n # 0 /\ n \in 1..n
      BY <1>2, <2>2, EmptySeq
    <3>2. list[n].step \in Nat
      BY <1>3, <3>1 DEF Attempt
    <3> QED BY <1>1, <1>2, <1>3, <2>2, <3>1, <3>2 DEF Ready, Follows
  <2> QED BY <2>1, <2>2
<1>7. new.number = Cardinality({j \in AttemptsOn(grown, s) : j <= n + 1})
  <2>1. {j \in AttemptsOn(grown, s) : j <= n + 1} = AttemptsOn(list, s) \cup {n + 1}
    BY <1>1, <1>2, <1>3 DEF AttemptsOn
  <2>2. n + 1 \notin AttemptsOn(list, s)
    BY <1>2, <1>3 DEF AttemptsOn
  <2>3. IsFiniteSet(AttemptsOn(list, s)) /\ Cardinality(AttemptsOn(list, s)) \in Nat
    BY AttemptsFinite
  <2>4. Cardinality(AttemptsOn(list, s) \cup {n + 1}) = Cardinality(AttemptsOn(list, s)) + 1
    BY <2>2, <2>3, FS_AddElement
  <2>5. new.number = Cardinality(AttemptsOn(list, s)) + 1
    BY <1>1
  <2> QED BY <2>1, <2>4, <2>5, Zenon
<1>8. new.number <= MaxAttempts
  BY <1>1, ReadyNumber
<1>9. ASSUME NEW i \in 1..(n + 1)
      PROVE  /\ IF i = 1 THEN grown[i].step = 1 ELSE Follows(grown[i - 1], grown[i])
             /\ grown[i].number = Cardinality({j \in AttemptsOn(grown, grown[i].step) : j <= i})
             /\ grown[i].number <= MaxAttempts
             /\ grown[i].status = "completed" => ~grown[i].unknown
             /\ grown[i].step <= grown[n + 1].step
  <2>1. CASE i \in 1..n
    BY <1>5, <2>1
  <2>2. CASE i = n + 1
    <3>1. grown[i] = new /\ i - 1 = n
      BY <1>2, <1>3, <2>2
    <3>2. grown[i].number = Cardinality({j \in AttemptsOn(grown, grown[i].step) : j <= i})
      BY <1>1, <1>7, <2>2, <3>1, Zenon
    <3>3. IF i = 1 THEN grown[i].step = 1 ELSE Follows(grown[i - 1], grown[i])
      <4>1. CASE i = 1
        BY <1>2, <1>6, <2>2, <3>1, <4>1
      <4>2. CASE i # 1
        <5>1. n \in 1..n /\ Follows(grown[n], new)
          BY <1>2, <1>6, <2>2, <4>2
        <5> QED BY <2>2, <3>1, <4>2, <5>1
      <4> QED BY <4>1, <4>2
    <3>4. grown[i].status = "completed" => ~grown[i].unknown
      BY <1>1, <3>1
    <3>5. grown[i].number <= MaxAttempts /\ grown[i].step <= grown[n + 1].step
      BY <1>1, <1>3, <1>8, <3>1
    <3> QED BY <3>2, <3>3, <3>4, <3>5
  <2> QED BY <1>2, <2>1, <2>2
<1>10. Numbered(grown)
  BY <1>3, <1>9 DEF Numbered
<1> QED BY <1>10 DEF grown, new

\* An attempt on a later step leaves the earlier ones closed.
LEMMA AppendBacked ==
    ASSUME NEW list \in Seq(Attempt), NEW verdicts \in Seq(StepStatus), Backed(list, verdicts)
    PROVE  Backed(Append(list, NewAttempt(list, Len(verdicts) + 1)), verdicts)
<1> DEFINE new == NewAttempt(list, Len(verdicts) + 1)
<1>1. new.step = Len(verdicts) + 1 /\ new \in Attempt
  BY NewAttemptType DEF NewAttempt
<1>2. Backed(list, verdicts)
  OBVIOUS
<1> HIDE DEF new
<1> SUFFICES ASSUME NEW s \in 1..Len(verdicts), verdicts[s] # "error"
             PROVE  Closed(Append(list, new), s)
  BY DEF Backed, new
<1>3. PICK i \in 1..Len(list) :
        /\ list[i].step = s /\ list[i].status = "completed"
        /\ \A j \in 1..Len(list) : list[j].step = s => j <= i
  BY <1>2 DEF Backed, Closed
<1> DEFINE grown == Append(list, new)
<1>4. /\ Len(grown) = Len(list) + 1 /\ grown[Len(list) + 1] = new
      /\ \A k \in 1..Len(list) : grown[k] = list[k]
  BY <1>1
<1> HIDE DEF grown
<1>5. new.step # s
  BY <1>1
<1>6. Closed(grown, s)
  BY <1>3, <1>4, <1>5 DEF Closed
<1> QED BY <1>6 DEF grown

\* The request that is dispatched is one the reader expects there.
LEMMA DispatchTrail ==
    ASSUME TypeOK, NEW c \in Cases, NEW list \in Seq(Attempt), NEW verdicts \in Seq(StepStatus),
           Dispatch(c, list, Len(verdicts) + 1), status[c] = "running",
           Trail("running", list, verdicts),
           Ready(list, Len(verdicts) + 1), Len(verdicts) < ExpectedSteps
    PROVE  TrailOf(worker'[c], "running", attempts'[c], active'[c], verdicts)
<1> DEFINE new == NewAttempt(list, Len(verdicts) + 1)
           grown == Append(list, new)
<1>1. Len(verdicts) \in Nat /\ Len(verdicts) + 1 \in Nat \ {0} /\ Len(list) \in Nat
  OBVIOUS
<1>2. /\ new.step = Len(verdicts) + 1 /\ new.status = "started" /\ new \in Attempt
  BY <1>1, NewAttemptType DEF NewAttempt
<1>3. Numbered(grown) /\ Backed(grown, verdicts)
  BY <1>1, AppendNumbered, AppendBacked DEF Trail
<1>4. /\ attempts'[c] = grown /\ active'[c] = Len(list) + 1 /\ worker'[c] = "request"
  BY DEF Dispatch, Suspend, TypeOK
<1> HIDE DEF new
<1>5. /\ Len(grown) = Len(list) + 1 /\ grown[Len(list) + 1] = new
      /\ \A k \in 1..Len(list) : grown[k] = list[k]
  BY <1>2
<1> HIDE DEF grown
<1>6. \A i \in 1..Len(grown) : grown[i].step <= ExpectedSteps /\ grown[i].step <= Len(verdicts) + 1
  <2> SUFFICES ASSUME NEW i \in 1..Len(grown)
               PROVE  grown[i].step <= ExpectedSteps /\ grown[i].step <= Len(verdicts) + 1
    OBVIOUS
  <2>1. CASE i \in 1..Len(list)
    BY <1>5, <2>1 DEF Trail
  <2>2. CASE i = Len(list) + 1
    BY <1>1, <1>2, <1>5, <2>2
  <2> QED BY <1>1, <1>5, <2>1, <2>2
<1>7. Trail("running", grown, verdicts)
  BY <1>3, <1>6 DEF Trail
<1>8. OpenLast(grown, Len(list) + 1)
  BY <1>2, <1>5 DEF OpenLast
<1>9. Recording("request", grown, verdicts)
  BY <1>2, <1>5 DEF Recording
<1> QED BY <1>4, <1>7, <1>8, <1>9 DEF TrailOf

\* And so is the list when the worker goes to the limiter or ends.
LEMMA NextAttemptTrail ==
    ASSUME TypeOK, NEW c \in Cases, NEW list \in Seq(Attempt), NEW verdicts \in Seq(StepStatus),
           NEW late, NextAttempt(c, list, Len(verdicts) + 1, late),
           Trail(status[c], list, verdicts),
           status[c] = "running" => Ready(list, Len(verdicts) + 1) /\ Len(verdicts) < ExpectedSteps
    PROVE  TrailOf(worker'[c], status[c], attempts'[c], active'[c], verdicts)
<1>1. CASE NoAttempt(c, list) /\ EndWorker(c, Checkpoint(c, late))
  <2>1. attempts'[c] = list /\ active'[c] = 0 /\ worker'[c] = "ended"
    BY <1>1 DEF NoAttempt, EndWorker, TypeOK
  <2> QED BY <2>1 DEF TrailOf, OpenLast, Recording
<1>2. CASE Checkpoint(c, late) = "ok" /\ NoAttempt(c, list) /\ Suspend(c, "rate")
  <2>1. attempts'[c] = list /\ active'[c] = 0 /\ worker'[c] = "rate" /\ status[c] = "running"
    BY <1>2 DEF NoAttempt, Suspend, Checkpoint, TypeOK
  <2> QED BY <2>1 DEF TrailOf, OpenLast, Recording
<1>3. CASE Checkpoint(c, late) = "ok" /\ Dispatch(c, list, Len(verdicts) + 1)
  <2>1. status[c] = "running"
    BY <1>3 DEF Checkpoint
  <2> QED BY <1>3, <2>1, DispatchTrail
<1> QED BY <1>1, <1>2, <1>3 DEF NextAttempt
\* A worker that ends records nothing more.
LEMMA EndedTrail ==
    ASSUME TypeOK, NEW c \in Cases, CaseTrail(c), NEW verdict, EndWorker(c, verdict),
           UNCHANGED <<status, attempts, active, steps>>
    PROVE  CaseTrail(c)'
<1>1. worker'[c] = "ended"
  BY DEF EndWorker, TypeOK
<1> QED BY <1>1 DEF CaseTrail, TrailOf, Recording

\* The last record is given an outcome that is not an answer.
LEMMA RemarkedTrail ==
    ASSUME NEW verdict, NEW list \in Seq(Attempt), NEW verdicts \in Seq(StepStatus), list # <<>>,
           Trail(verdict, list, verdicts), list[Len(list)].status # "completed",
           NEW result \in FinalStatus \ {"completed"}, NEW lost \in BOOLEAN
    PROVE  Trail(verdict, Mark(list, Len(list), result, lost), verdicts)
<1> DEFINE marked == Mark(list, Len(list), result, lost)
<1>1. MarksLast(marked, list, result, lost)
  BY MarkLast
<1>2. Numbered(marked) /\ Backed(marked, verdicts)
  BY MarkTrail, MarkBacked DEF Trail
<1> HIDE DEF marked
<1>3. /\ Len(marked) = Len(list)
      /\ \A i \in 1..Len(marked) : marked[i].step = list[i].step
      /\ \A i \in 1..Len(marked) : marked[i].status \in {list[i].status, result}
  BY <1>1 DEF MarksLast
<1>4. verdict # "running" => Settled(marked, verdicts)
  BY <1>3 DEF Settled, Trail, FinalStatus
<1>5. Trail(verdict, marked, verdicts)
  BY <1>2, <1>3, <1>4 DEF Trail
<1> QED BY <1>5 DEF marked

\* The first request of a case.
LEMMA FirstReady ==
    ASSUME NEW list, NEW verdicts, list = <<>>, verdicts = <<>>
    PROVE  Ready(list, Len(verdicts) + 1) /\ Len(verdicts) < ExpectedSteps
BY DEF Ready

\* A usable response closes the step it answers.
LEMMA AnsweredTrail ==
    ASSUME TypeOK, NEW c \in Cases, CaseInv(c), CaseTrail(c), CaseInv(c)',
           worker[c] = "request", status[c] = "running",
           NEW verdict \in {"passed", "failed"}, NEW late \in BOOLEAN, Answered(c, verdict, late),
           UNCHANGED unknown
    PROVE  CaseTrail(c)'
<1> DEFINE list == attempts[c]
           marked == Mark(list, active[c], "completed", FALSE)
           verdicts == Append(steps[c], verdict)
<1>1. /\ list \in Seq(Attempt) /\ steps[c] \in Seq(StepStatus) /\ active[c] \in 1..Len(list)
      /\ active[c] = Len(list) /\ list # <<>>
  <2>1. list \in Seq(Attempt) /\ steps[c] \in Seq(StepStatus) /\ active[c] \in Nat
        /\ active[c] <= Len(list) /\ active[c] # 0
    BY DEF TypeOK, CaseInv
  <2>2. active[c] = Len(list)
    BY <2>1 DEF CaseTrail, TrailOf, OpenLast
  <2> QED BY <2>1, <2>2
<1>2. /\ Trail("running", list, steps[c]) /\ list[Len(list)].status # "completed"
      /\ list[Len(list)].step = Len(steps[c]) + 1 /\ Len(steps[c]) < ExpectedSteps
  BY <1>1 DEF CaseTrail, TrailOf, Recording, OpenLast
<1>3. MarksLast(marked, list, "completed", FALSE)
  BY <1>1, MarkLast DEF FinalStatus
<1>4. Numbered(marked) /\ Backed(marked, steps[c]) /\ Closed(marked, Len(steps[c]) + 1)
  <2>1. "completed" \in FinalStatus /\ FALSE \in BOOLEAN
    BY DEF FinalStatus
  <2>2. Numbered(list) /\ Backed(list, steps[c])
    BY <1>2 DEF Trail
  <2>3. Numbered(marked)
    BY <1>1, <2>1, <2>2, MarkTrail
  <2>4. Backed(marked, steps[c])
    BY <1>1, <1>2, <2>1, <2>2, MarkBacked
  <2>5. Closed(marked, list[Len(list)].step)
    BY <1>1, MarkCloses
  <2> QED BY <1>2, <2>3, <2>4, <2>5
<1>5. /\ verdicts \in Seq(StepStatus) /\ Len(verdicts) = Len(steps[c]) + 1
      /\ \A s \in 1..Len(steps[c]) : verdicts[s] = steps[c][s]
      /\ verdicts[Len(steps[c]) + 1] = verdict
  BY <1>1 DEF StepStatus
<1>6. steps'[c] = verdicts
  BY DEF Answered, TypeOK
<1>7. /\ marked \in Seq(Attempt) /\ Len(marked) = Len(list) /\ Len(list) \in Nat
      /\ \A i \in 1..Len(marked) : marked[i].step = list[i].step
      /\ marked[Len(marked)].step = Len(steps[c]) + 1 /\ marked[Len(marked)].status = "completed"
      /\ marked # <<>>
  <2> HIDE DEF marked, list
  <2>1. Len(list) \in 1..Len(list)
    BY <1>1, EmptySeq
  <2> QED BY <1>1, <1>2, <1>3, <2>1, EmptySeq DEF MarksLast
<1>8. \/ NextAttempt(c, marked, CurrentStep(c) + 1, late) /\ UNCHANGED status /\ CurrentStep(c) # ExpectedSteps
      \/ /\ NoAttempt(c, marked) /\ CurrentStep(c) = ExpectedSteps
         /\ \/ UNCHANGED status /\ Suspend(c, "evaluation")
            \/ UNCHANGED status /\ EndWorker(c, Checkpoint(c, late))
            \/ Finalize(c, late)
  BY DEF Answered
<1>9. /\ Len(steps[c]) \in Nat /\ Len(verdicts) <= ExpectedSteps
      /\ CurrentStep(c) = Len(verdicts)
  BY <1>1, <1>2, <1>5 DEF CurrentStep
<1> HIDE DEF marked, list, verdicts
<1>10. AllAnswered(verdicts) /\ Backed(marked, verdicts)
  <2>1. ASSUME NEW s \in 1..Len(verdicts)
        PROVE  verdicts[s] # "error" /\ Closed(marked, s)
    <3>1. CASE s \in 1..Len(steps[c])
      BY <1>2, <1>4, <1>5, <3>1 DEF Trail, AllAnswered, Backed
    <3>2. CASE s = Len(steps[c]) + 1
      BY <1>4, <1>5, <3>2
    <3> QED BY <1>5, <1>9, <3>1, <3>2
  <2> QED BY <2>1 DEF AllAnswered, Backed
<1>11. \A i \in 1..Len(marked) : marked[i].step <= Len(verdicts)
  BY <1>2, <1>5, <1>7 DEF Trail
<1>12. ASSUME NEW i \in 1..Len(marked)
       PROVE  marked[i].step <= ExpectedSteps /\ marked[i].step <= Len(verdicts) + 1
  <2>1. marked[i] \in Attempt /\ Len(verdicts) \in Nat
    BY <1>5, <1>7, <1>9
  <2>2. marked[i].step \in Nat /\ marked[i].step <= Len(verdicts)
    BY <1>11, <2>1 DEF Attempt
  <2> QED BY <1>9, <2>1, <2>2
<1>13. Trail("running", marked, verdicts)
  BY <1>4, <1>9, <1>10, <1>12 DEF Trail
<1>14. CASE NextAttempt(c, marked, CurrentStep(c) + 1, late) /\ UNCHANGED status /\ CurrentStep(c) # ExpectedSteps
  <2>1. Ready(marked, Len(verdicts) + 1)
    <3>1. marked[Len(marked)].step = (Len(verdicts) + 1) - 1
      BY <1>5, <1>7, <1>9
    <3> QED BY <1>7, <3>1 DEF Ready
  <2>2. Len(verdicts) < ExpectedSteps
    BY <1>9, <1>14, <1>5
  <2>3. TrailOf(worker'[c], status[c], attempts'[c], active'[c], verdicts)
    BY <1>5, <1>7, <1>9, <1>13, <1>14, <2>1, <2>2, NextAttemptTrail
  <2> QED BY <1>6, <1>14, <2>3 DEF CaseTrail
<1>15. ASSUME NoAttempt(c, marked) PROVE attempts'[c] = marked /\ active'[c] = 0
  BY <1>15 DEF NoAttempt, TypeOK
<1>16. CASE NoAttempt(c, marked) /\ UNCHANGED status /\ CurrentStep(c) = ExpectedSteps
            /\ (Suspend(c, "evaluation") \/ EndWorker(c, Checkpoint(c, late)))
  <2>1. worker'[c] \in {"evaluation", "ended"} /\ status'[c] = "running"
    BY <1>16 DEF Suspend, EndWorker, TypeOK
  <2>2. Recording(worker'[c], marked, verdicts)
    BY <1>9, <1>16, <2>1 DEF Recording
  <2> QED BY <1>6, <1>13, <1>15, <1>16, <2>1, <2>2 DEF CaseTrail, TrailOf, OpenLast
<1>17. CASE NoAttempt(c, marked) /\ CurrentStep(c) = ExpectedSteps /\ Finalize(c, late)
  <2>1. worker'[c] = "ended" /\ status'[c] \in {"running", "completed"}
    BY <1>17, FinalizeEnds
  <2>2. \A i \in 1..Len(marked) : marked[i].status # "started"
    BY <1>15, <1>17 DEF CaseInv, Sound
  <2>3. Settled(marked, verdicts)
    <3>1. verdicts # <<>>
      BY <1>5, <1>9
    <3> QED BY <1>11, <2>2, <3>1 DEF Settled
  <2>4. Trail("completed", marked, verdicts)
    BY <1>4, <1>9, <1>10, <1>12, <1>17, <2>3 DEF Trail
  <2>5. Trail(status'[c], marked, verdicts)
    BY <1>13, <2>1, <2>4
  <2> QED BY <1>6, <1>15, <1>17, <2>1, <2>5 DEF CaseTrail, TrailOf, OpenLast, Recording
<1> QED BY <1>8, <1>14, <1>16, <1>17

LEMMA WorkerTrail ==
    ASSUME TypeOK, NEW c \in Cases, CaseInv(c), CaseTrail(c), CaseInv(c)', WorkerStep(c)
    PROVE  CaseTrail(c)'
<1>a. /\ expired[c] \in BOOLEAN /\ \A late \in Later(c) : late \in BOOLEAN
      /\ attempts[c] \in Seq(Attempt) /\ steps[c] \in Seq(StepStatus)
      /\ CurrentStep(c) = Len(steps[c]) + 1
  BY StepAndClockType DEF TypeOK, CurrentStep
<1>b. /\ Trail(status[c], attempts[c], steps[c])
      /\ status[c] = "running" => Recording(worker[c], attempts[c], steps[c])
      /\ OpenLast(attempts[c], active[c])
  BY DEF CaseTrail, TrailOf
<1>c. \A late : Checkpoint(c, late) = "ok" => status[c] = "running"
  BY DEF Checkpoint
<1>d. ASSUME NEW late, worker[c] \in {"init", "rate", "backoff"},
             NextAttempt(c, attempts[c], CurrentStep(c), late), UNCHANGED <<status, steps>>
      PROVE  CaseTrail(c)'
  <2>1. status[c] = "running" => Ready(attempts[c], Len(steps[c]) + 1) /\ Len(steps[c]) < ExpectedSteps
    BY <1>b, <1>d DEF Recording
  <2>2. TrailOf(worker'[c], status[c], attempts'[c], active'[c], steps[c])
    BY <1>a, <1>b, <1>d, <2>1, NextAttemptTrail
  <2> QED BY <1>d, <2>2 DEF CaseTrail
<1>1. CASE AcquirePermit(c)
  <2>1. /\ worker[c] = "queue" /\ UNCHANGED <<status, attempts, active, steps>>
    BY <1>1 DEF AcquirePermit, Resumes, recordVars
  <2>2. CASE Suspend(c, "init") /\ Checkpoint(c, expired[c]) = "ok"
    <3>1. worker'[c] = "init" /\ attempts[c] = <<>> /\ steps[c] = <<>>
      BY <1>b, <1>c, <2>1, <2>2 DEF Suspend, TypeOK, Recording
    <3>2. Recording("init", attempts[c], steps[c])
      BY <3>1, FirstReady DEF Recording
    <3> QED BY <1>b, <2>1, <3>1, <3>2 DEF CaseTrail, TrailOf
  <2>3. CASE EndWorker(c, Checkpoint(c, expired[c]))
    BY <2>1, <2>3, EndedTrail
  <2> QED BY <1>1, <2>2, <2>3 DEF AcquirePermit
<1>2. ASSUME NEW native \in BOOLEAN, NEW late \in Later(c), InitReturns(c, native, late)
      PROVE  CaseTrail(c)'
  <2>1. worker[c] = "init" /\ UNCHANGED <<status, steps>>
    BY <1>2 DEF InitReturns, Resumes
  <2>2. \/ /\ \E verdict : EndWorker(c, verdict)
           /\ UNCHANGED <<attempts, active>>
        \/ NextAttempt(c, attempts[c], CurrentStep(c), late)
    BY <1>2 DEF InitReturns
  <2> QED BY <1>d, <2>1, <2>2, EndedTrail
<1>3. CASE RateReturns(c)
  <2>1. worker[c] = "rate" /\ UNCHANGED <<status, steps>>
    BY <1>3 DEF RateReturns, Resumes
  <2>2. CASE Checkpoint(c, expired[c]) = "ok" /\ Dispatch(c, attempts[c], CurrentStep(c))
    <3>1. /\ status[c] = "running"
          /\ Ready(attempts[c], Len(steps[c]) + 1) /\ Len(steps[c]) < ExpectedSteps
      BY <1>b, <1>c, <2>1, <2>2 DEF Recording
    <3>2. TrailOf(worker'[c], "running", attempts'[c], active'[c], steps[c])
      BY <1>a, <1>b, <2>2, <3>1, DispatchTrail
    <3> QED BY <2>1, <3>1, <3>2 DEF CaseTrail
  <2>3. CASE EndWorker(c, Checkpoint(c, expired[c])) /\ UNCHANGED <<attempts, active>>
    BY <2>1, <2>3, EndedTrail
  <2> QED BY <1>3, <2>2, <2>3 DEF RateReturns
<1>4. CASE BackoffEnds(c)
  BY <1>d, <1>4 DEF BackoffEnds, Resumes
<1>5. ASSUME NEW response \in {"passed", "failed", "malformed"}, NEW late \in Later(c),
             RequestReturns(c, response, late)
      PROVE  CaseTrail(c)'
  <2>1. worker[c] = "request" /\ UNCHANGED unknown
    BY <1>5 DEF RequestReturns, Resumes
  <2>2. CASE /\ \E verdict : EndWorker(c, verdict)
             /\ UNCHANGED <<status, attempts, active, steps>>
    BY <2>2, EndedTrail
  <2>3. CASE Checkpoint(c, expired[c]) = "ok" /\ response # "malformed" /\ Answered(c, response, late)
    BY <1>a, <1>c, <2>1, <2>3, AnsweredTrail
  <2> QED BY <1>5, <2>2, <2>3 DEF RequestReturns
<1>6. ASSUME NEW retryable \in BOOLEAN, NEW lost \in BOOLEAN, RequestFails(c, retryable, lost)
      PROVE  CaseTrail(c)'
  <2> DEFINE list == attempts[c]
             marked == Mark(list, active[c], "error", lost)
  <2>1. worker[c] = "request" /\ UNCHANGED <<status, steps>>
    BY <1>6 DEF RequestFails, Resumes
  <2>2. active[c] = Len(list) /\ list # <<>> /\ list[Len(list)].status # "completed"
        /\ Len(list) \in 1..Len(list)
    <3>1. active[c] \in Nat /\ active[c] <= Len(list) /\ active[c] # 0
      BY <2>1 DEF TypeOK, CaseInv
    <3> QED BY <1>a, <1>b, <3>1, EmptySeq DEF OpenLast
  <2>3. /\ attempts'[c] = marked /\ active'[c] = 0
    BY <1>6 DEF RequestFails, TypeOK
  <2>4. MarksLast(marked, list, "error", lost)
    BY <1>a, <2>2, MarkLast DEF FinalStatus
  <2>5. Trail(status[c], marked, steps[c])
    <3>1. "error" \in FinalStatus \ {"completed"}
      BY DEF FinalStatus
    <3> QED BY <1>a, <1>b, <2>2, <3>1, RemarkedTrail
  <2>6. \/ /\ worker'[c] = "backoff" /\ ~lost
           /\ list[active[c]].number < MaxAttempts
        \/ worker'[c] = "ended"
    BY <1>6 DEF RequestFails, MayRetry, Suspend, EndWorker, TypeOK
  <2> HIDE DEF marked
  <2>7. status[c] = "running" => Recording(worker'[c], marked, steps[c])
    <3> SUFFICES ASSUME status[c] = "running" PROVE Recording(worker'[c], marked, steps[c])
      OBVIOUS
    <3>1. CASE worker'[c] = "ended"
      BY <3>1 DEF Recording
    <3>2. CASE worker'[c] = "backoff" /\ ~lost /\ list[active[c]].number < MaxAttempts
      <4>1. list[Len(list)].step = Len(steps[c]) + 1 /\ Len(steps[c]) < ExpectedSteps
        BY <1>b, <2>1 DEF Recording
      <4>2. /\ Len(marked) = Len(list) /\ marked # <<>>
            /\ marked[Len(list)].step = list[Len(list)].step
            /\ marked[Len(list)].number = list[Len(list)].number
            /\ marked[Len(list)].status = "error" /\ marked[Len(list)].unknown = lost
        BY <1>a, <2>2, <2>4, EmptySeq DEF MarksLast
      <4>3. Ready(marked, Len(steps[c]) + 1)
        BY <2>2, <3>2, <4>1, <4>2 DEF Ready
      <4> QED BY <3>2, <4>1, <4>3 DEF Recording
    <3> QED BY <2>6, <3>1, <3>2
  <2> QED BY <2>1, <2>3, <2>5, <2>7 DEF CaseTrail, TrailOf, OpenLast
<1>7. CASE CallbackRaises(c) \/ WorkerCancelled(c)
  BY <1>7, EndedTrail DEF CallbackRaises, WorkerCancelled, recordVars
<1>8. ASSUME NEW result, NEW late \in Later(c), EvaluationReturns(c, result, late)
      PROVE  CaseTrail(c)'
  <2>1. worker[c] = "evaluation" /\ UNCHANGED <<attempts, active, steps>>
    BY <1>8 DEF EvaluationReturns, Resumes
  <2>2. CASE (\E verdict : EndWorker(c, verdict)) /\ UNCHANGED status
    BY <2>1, <2>2, EndedTrail
  <2>3. CASE Checkpoint(c, expired[c]) = "ok" /\ Finalize(c, late)
    <3>1. /\ worker'[c] = "ended" /\ status[c] = "running"
          /\ status'[c] \in {"running", "completed"}
      BY <1>c, <2>3, FinalizeEnds
    <3>2. active[c] = 0 /\ Sound(attempts[c], active[c], unknown[c])
      BY <2>1 DEF CaseInv, Awaits, Callbacks
    <3>3. Len(steps[c]) = ExpectedSteps /\ steps[c] # <<>>
      BY <1>a, <1>b, <2>1, <3>1 DEF Recording
    <3>4. Settled(attempts[c], steps[c])
      BY <1>b, <3>2, <3>3 DEF Settled, Sound, Trail
    <3>5. Trail(status'[c], attempts[c], steps[c])
      BY <1>b, <3>1, <3>3, <3>4 DEF Trail
    <3> QED BY <1>b, <2>1, <3>1, <3>5 DEF CaseTrail, TrailOf, Recording
  <2> QED BY <1>8, <2>2, <2>3 DEF EvaluationReturns
<1>9. CASE Suppress(c)
  BY <1>9 DEF Suppress, recordVars, CaseTrail
<1> QED
  BY <1>1, <1>2, <1>3, <1>4, <1>5, <1>6, <1>7, <1>8, <1>9 DEF WorkerStep

\* _abort gives the attempt that is still open its outcome and the step that
\* was not reached an error: what it leaves can be read.
LEMMA AbortTrail ==
    ASSUME TypeOK, NEW c \in Cases, CaseInv(c), CaseTrail(c),
           status[c] \in {"running", "completed"},
           NEW verdict \in {"deadline", "cancelled", "error"}, Abort(c, verdict)
    PROVE  CaseTrail(c)'
<1> DEFINE list == attempts[c]
           closed == attempts'[c]
<1>1. /\ list \in Seq(Attempt) /\ steps[c] \in Seq(StepStatus) /\ active[c] \in Nat
      /\ active[c] <= Len(list) /\ status'[c] = verdict /\ active' = active
      /\ Len(steps[c]) \in Nat
  BY DEF TypeOK, Abort
<1>2. Trail(status[c], list, steps[c]) /\ OpenLast(list, active[c])
  BY DEF CaseTrail, TrailOf
<1>3. /\ Trail(status[c], closed, steps[c]) /\ OpenLast(closed, active[c])
      /\ \A i \in 1..Len(closed) : closed[i].status # "started"
  <2>1. Sound(list, active[c], unknown[c])
    BY DEF CaseInv
  <2>2. CASE active[c] = 0
    <3>1. closed = list
      BY <2>2 DEF Abort
    <3> QED BY <1>2, <2>1, <2>2, <3>1 DEF Sound
  <2>3. CASE active[c] # 0
    <3>1. /\ active[c] = Len(list) /\ list # <<>> /\ list[Len(list)].status # "completed"
          /\ Len(list) \in 1..Len(list)
      BY <1>1, <1>2, <2>3, EmptySeq DEF OpenLast
    <3>a. attempts' = [attempts EXCEPT ![c] = Mark(attempts[c], active[c], verdict, TRUE)]
      BY <2>3 DEF Abort, UnknownAfterAbort
    <3>2. closed = Mark(list, Len(list), verdict, TRUE)
      BY <3>1, <3>a DEF TypeOK
    <3>3. verdict \in FinalStatus \ {"completed"} /\ TRUE \in BOOLEAN
      BY DEF FinalStatus
    <3>4. Trail(status[c], closed, steps[c])
      <4> HIDE DEF closed, list
      <4>1. Trail(status[c], Mark(list, Len(list), verdict, TRUE), steps[c])
        BY <1>1, <1>2, <3>1, <3>3, RemarkedTrail
      <4> QED BY <3>2, <4>1
    <3>5. MarksLast(closed, list, verdict, TRUE)
      BY <1>1, <3>1, <3>2, <3>3, MarkLast
    <3> HIDE DEF closed, list
    <3>6. OpenLast(closed, active[c])
      BY <3>1, <3>5 DEF OpenLast, MarksLast
    <3>7. ASSUME NEW i \in 1..Len(closed) PROVE closed[i].status # "started"
      BY <2>1, <3>1, <3>5, <3>7 DEF MarksLast, Sound
    <3> QED BY <3>4, <3>6, <3>7
  <2> QED BY <2>2, <2>3
<1>4. steps'[c] = IF Len(steps[c]) < ExpectedSteps THEN Append(steps[c], "error") ELSE steps[c]
  BY DEF Abort, TypeOK
<1> HIDE DEF closed, list
<1>5. /\ Len(steps[c]) <= ExpectedSteps
      /\ \A i \in 1..Len(closed) : closed[i].step <= ExpectedSteps
      /\ status[c] = "running" => \A i \in 1..Len(closed) : closed[i].step <= Len(steps[c]) + 1
      /\ status[c] = "completed" => Len(steps[c]) = ExpectedSteps
      /\ Numbered(closed) /\ Backed(closed, steps[c])
  BY <1>2, <1>3 DEF Trail
<1>6. /\ Len(steps'[c]) <= ExpectedSteps /\ steps'[c] # <<>>
      /\ \A i \in 1..Len(closed) : closed[i].step <= Len(steps'[c])
      /\ Backed(closed, steps'[c])
  <2>1. CASE Len(steps[c]) < ExpectedSteps
    <3>1. /\ steps'[c] = Append(steps[c], "error") /\ status[c] = "running"
          /\ "error" \in StepStatus
      BY <1>4, <1>5, <2>1 DEF StepStatus
    <3>2. /\ Len(steps'[c]) = Len(steps[c]) + 1 /\ steps'[c] # <<>>
          /\ \A s \in 1..Len(steps[c]) : steps'[c][s] = steps[c][s]
          /\ steps'[c][Len(steps[c]) + 1] = "error"
      BY <1>1, <3>1
    <3>3. Backed(closed, steps'[c])
      <4> SUFFICES ASSUME NEW s \in 1..Len(steps'[c]), steps'[c][s] # "error"
                   PROVE  Closed(closed, s)
        BY DEF Backed
      <4>1. s \in 1..Len(steps[c])
        BY <1>1, <3>2
      <4> QED BY <1>5, <3>2, <4>1 DEF Backed
    <3> QED BY <1>1, <1>5, <2>1, <3>1, <3>2, <3>3
  <2>2. CASE ~(Len(steps[c]) < ExpectedSteps)
    <3>1. steps'[c] = steps[c] /\ Len(steps[c]) = ExpectedSteps /\ steps[c] # <<>>
      BY <1>1, <1>4, <1>5, <2>2
    <3> QED BY <1>5, <3>1
  <2> QED BY <2>1, <2>2
<1>7. Trail(verdict, closed, steps'[c])
  BY <1>3, <1>5, <1>6 DEF Trail, Settled
<1> QED BY <1>1, <1>3, <1>7 DEF CaseTrail, TrailOf, closed

\* The steps of run() and of cleanup that leave the evidence as it is.
LEMMA SameTrail ==
    ASSUME NEW c \in Cases, CaseTrail(c),
           worker'[c] = worker[c], status'[c] = status[c],
           attempts'[c] = attempts[c], active'[c] = active[c], steps'[c] = steps[c]
    PROVE  CaseTrail(c)'
BY DEF CaseTrail

\* A cleanup that fails makes an error of a case that is already settled.
LEMMA FinishTrail ==
    ASSUME TypeOK, NEW c \in Cases, CaseTrail(c), status[c] # "running",
           NEW result, Finish(c, result)
    PROVE  CaseTrail(c)' /\ status'[c] # "running"
<1>1. /\ status'[c] \in {status[c], "error"}
      /\ UNCHANGED <<worker, attempts, active, steps>>
  BY DEF Finish, taskVars, TypeOK
<1>2. Trail(status'[c], attempts[c], steps[c])
  BY <1>1 DEF CaseTrail, TrailOf, Trail
<1> QED BY <1>1, <1>2 DEF CaseTrail, TrailOf

LEMMA RunnerTrail ==
    ASSUME TypeOK, PermitInv, NEW c \in Cases, CaseInv(c), CaseTrail(c), Unsettled(c),
           RunnerStep(c)
    PROVE  CaseTrail(c)' /\ Unsettled(c)'
<1>a. ASSUME NEW verdict \in {"deadline", "cancelled", "error"}, Abort(c, verdict),
             run[c] \in {"start", "waiting"}
      PROVE  CaseTrail(c)' /\ Unsettled(c)'
  <2>1. status[c] \in {"running", "completed"}
    BY <1>a DEF CaseInv
  <2>2. status'[c] = verdict
    BY <1>a DEF Abort, TypeOK
  <2> QED BY <1>a, <2>1, <2>2, AbortTrail DEF Unsettled
<1>b. ASSUME NEW result, Finish(c, result), run[c] \notin {"start", "waiting", "finished"}
      PROVE  CaseTrail(c)' /\ Unsettled(c)'
  <2>1. status[c] # "running"
    BY <1>b DEF Unsettled
  <2> QED BY <1>b, <2>1, FinishTrail DEF Unsettled
<1>c. ASSUME UNCHANGED <<worker, status, attempts, active, steps>>,
             run[c] \notin {"start", "waiting", "finished"}
      PROVE  CaseTrail(c)' /\ Unsettled(c)'
  BY <1>c, SameTrail DEF Unsettled
<1>1. CASE Start(c)
  <2>1. CASE cancelEvent
    BY <1>a, <1>1, <2>1 DEF Start
  <2>2. CASE ~cancelEvent
    <3>1. /\ run[c] = "start" /\ run'[c] = "waiting" /\ worker'[c] = "queue"
          /\ worker[c] = "none" /\ UNCHANGED <<status, attempts, active, steps>>
      BY <1>1, <2>2 DEF Start, recordVars, PermitInv, TypeOK
    <3>2. CaseTrail(c)'
      BY <3>1 DEF CaseTrail, TrailOf, Recording
    <3> QED BY <3>1, <3>2 DEF Unsettled
  <2> QED BY <2>1, <2>2
<1>2. CASE Abandon(c)
  <2>1. /\ run'[c] = "finished" /\ external'[c]
        /\ UNCHANGED <<worker, status, attempts, active, steps>>
    BY <1>2 DEF Abandon, taskVars, recordVars, TypeOK
  <2> QED BY <2>1, SameTrail DEF Unsettled
<1>3. CASE Wake(c)
  <2>1. run[c] = "waiting" /\ run'[c] = "cleanup" /\ UNCHANGED worker
    BY <1>3 DEF Wake, CancelWorker, TypeOK
  <2>2. CASE WakeVerdict(c) = "ok"
    <3>1. /\ worker[c] = "ended" /\ outcome[c] = "ok"
          /\ UNCHANGED <<status, attempts, active, steps>>
      BY <1>3, <2>2 DEF Wake, Awakened, WakeVerdict, recordVars
    <3>2. status[c] # "running"
      BY <3>1 DEF CaseInv
    <3> QED BY <2>1, <3>1, <3>2, SameTrail DEF Unsettled
  <2>3. CASE WakeVerdict(c) # "ok"
    <3>1. outcome[c] \in Verdicts \/ cancelEvent \/ expired[c]
      BY <1>3 DEF Wake, Awakened, PermitInv, TypeOK
    <3>2. WakeVerdict(c) \in {"deadline", "cancelled", "error"}
      BY <2>3, <3>1 DEF WakeVerdict, Verdicts
    <3>3. Abort(c, WakeVerdict(c))
      BY <1>3, <2>3 DEF Wake
    <3> QED BY <1>a, <2>1, <3>2, <3>3
  <2> QED BY <2>2, <2>3
<1>4. CASE Interrupted(c)
  BY <1>a, <1>4 DEF Interrupted
<1>5. CASE BeginCleanup(c) \/ CloseStalls(c)
  BY <1>c, <1>5 DEF BeginCleanup, CloseStalls, CancelWorker, taskVars, recordVars
<1>6. CASE Drained(c)
  <2>1. CASE MustClose(c)
    BY <1>c, <1>6, <2>1 DEF Drained, taskVars, recordVars
  <2>2. CASE ~MustClose(c)
    BY <1>b, <1>6, <2>2 DEF Drained
  <2> QED BY <2>1, <2>2
<1>7. CASE DrainExpires(c) \/ CloseReturns(c) \/ CloseFails(c) \/ CloseAbandoned(c)
  BY <1>b, <1>7 DEF DrainExpires, CloseReturns, CloseFails, CloseAbandoned
<1> QED BY <1>1, <1>2, <1>3, <1>4, <1>5, <1>6, <1>7 DEF RunnerStep

LEMMA TrailStep ==
    ASSUME TypeOK, PermitInv, EvidenceInv, EvidenceInv', TrailInv, [Next]_vars
    PROVE  TrailInv'
<1> SUFFICES ASSUME NEW d \in Cases PROVE CaseTrail(d)' /\ Unsettled(d)'
  BY DEF TrailInv
<1>0. \A c \in Cases : CaseTrail(c) /\ Unsettled(c) /\ CaseInv(c) /\ CaseInv(c)'
  BY DEF TrailInv, EvidenceInv
<1>1. CASE \/ SetCancelEvent \/ UNCHANGED vars
           \/ \E c \in Cases : Expire(c)
  <2>1. UNCHANGED <<run, external, worker, status, attempts, active, steps>>
    BY <1>1 DEF SetCancelEvent, Expire, vars, taskVars, recordVars
  <2> QED BY <1>0, <2>1, SameTrail DEF Unsettled
<1>2. CASE CancelBatch
  <2>1. /\ UNCHANGED <<run, worker, status, attempts, active, steps>>
        /\ external[d] => external'[d]
    BY <1>2 DEF CancelBatch, taskVars, recordVars, TypeOK
  <2> QED BY <1>0, <2>1, SameTrail DEF Unsettled
<1>3. ASSUME NEW c \in Cases, WorkerStep(c)
      PROVE  CaseTrail(d)' /\ Unsettled(d)'
  <2>1. CASE c = d
    <3>1. CaseTrail(d)'
      BY <1>0, <1>3, <2>1, WorkerTrail
    <3>2. worker[d] \in Awaits /\ UNCHANGED <<run, external>>
      BY <1>0, <1>3, <2>1, WorkerGoes, WorkerKeepsExternal DEF Goes
    <3>3. Unsettled(d)'
      <4>1. status'[d] = "running" => status[d] = "running"
        BY <1>0, <1>3, <2>1, WorkerGoes DEF Goes, CaseInv
      <4> QED BY <1>0, <3>2, <4>1 DEF Unsettled
    <3> QED BY <3>1, <3>3
  <2>2. CASE c # d
    <3>1. /\ SameCase(d) /\ steps'[d] = steps[d] /\ external'[d] = external[d]
      BY <1>3, <2>2, WorkerLeavesOthers, WorkerIsLocal, WorkerKeepsExternal DEF SameEvidence
    <3> QED BY <1>0, <3>1, SameTrail DEF SameCase, Unsettled
  <2> QED BY <2>1, <2>2
<1>4. ASSUME NEW c \in Cases, RunnerStep(c)
      PROVE  CaseTrail(d)' /\ Unsettled(d)'
  <2>1. CASE c = d
    BY <1>0, <1>4, <2>1, RunnerTrail
  <2>2. CASE c # d
    <3>1. SameCase(d) /\ steps'[d] = steps[d]
      BY <1>4, <2>2, RunnerLeavesOthers
    <3>2. external' = external
      BY <1>4 DEF RunnerStep, Start, Abandon, Wake, Interrupted, BeginCleanup, Drained,
                  DrainExpires, CloseReturns, CloseFails, CloseStalls, CloseAbandoned, Finish
    <3> QED BY <1>0, <3>1, <3>2, SameTrail DEF SameCase, Unsettled
  <2> QED BY <2>1, <2>2
<1> QED BY <1>1, <1>2, <1>3, <1>4 DEF Next

LEMMA TrailInit == Init => TrailInv
<1> SUFFICES ASSUME Init, NEW c \in Cases PROVE CaseTrail(c) /\ Unsettled(c)
  BY DEF TrailInv
<1>1. /\ attempts[c] = <<>> /\ steps[c] = <<>> /\ active[c] = 0 /\ status[c] = "running"
      /\ worker[c] = "none" /\ run[c] = "start"
  BY DEF Init
<1>2. Len(<<>>) = 0 /\ \A i \in 1..Len(<<>>) : FALSE
  OBVIOUS
<1>3. Trail("running", <<>>, <<>>)
  BY <1>2 DEF Trail, Numbered, Backed, AllAnswered
<1> QED BY <1>1, <1>3 DEF CaseTrail, TrailOf, OpenLast, Recording, Unsettled

LEMMA TrailInductive == Spec => [](TypeOK /\ PermitInv /\ EvidenceInv /\ TrailInv)
<1>1. TypeOK /\ PermitInv /\ EvidenceInv /\ EvidenceInv' /\ TrailInv /\ [Next]_vars => TrailInv'
  BY TrailStep
<1> QED BY TrailInit, EvidenceInductive, <1>1, PTL DEF Spec

\* The reader finds the answer that closed a step.
LEMMA ClosedTerminal ==
    ASSUME NEW list \in Seq(Attempt), NEW s, Closed(list, s)
    PROVE  AttemptsOn(list, s) # {} /\ Terminal(list, s).status = "completed"
<1>1. PICK i \in 1..Len(list) :
        /\ list[i].step = s /\ list[i].status = "completed"
        /\ \A j \in 1..Len(list) : list[j].step = s => j <= i
  BY DEF Closed
<1>2. i \in AttemptsOn(list, s) /\ \A j \in AttemptsOn(list, s) : j <= i
  BY <1>1 DEF AttemptsOn
<1> DEFINE last == CHOOSE k \in AttemptsOn(list, s) : \A j \in AttemptsOn(list, s) : j <= k
<1>3. last \in AttemptsOn(list, s) /\ \A j \in AttemptsOn(list, s) : j <= last
  BY <1>2
<1>4. AttemptsOn(list, s) \subseteq Nat
  BY DEF AttemptsOn
<1> HIDE DEF last
<1>5. last = i
  <2>1. last <= i /\ i <= last
    BY <1>2, <1>3
  <2> QED BY <1>2, <1>3, <1>4, <2>1
<1>6. Terminal(list, s) = list[last]
  BY DEF Terminal, last
<1> QED BY <1>1, <1>2, <1>5, <1>6

\* A settled case is one the reader accepts.
LEMMA SettledAccepted ==
    ASSUME TypeOK, NEW c \in Cases, CaseInv(c), CaseTrail(c), Unsettled(c), Returned(c)
    PROVE  ValidExecution(status[c], unknown[c], cleanup[c], attempts[c], steps[c])
<1> DEFINE list == attempts[c]
<1>1. /\ list \in Seq(Attempt) /\ steps[c] \in Seq(StepStatus)
      /\ DOMAIN list = 1..Len(list) /\ DOMAIN steps[c] = 1..Len(steps[c])
  BY DEF TypeOK
<1>2. run[c] = "finished" /\ ~external[c] /\ status[c] # "running"
  BY DEF Returned, Unsettled
<1>3. status[c] \in FinalStatus /\ cleanup[c] \in CleanupStatus
  BY <1>2 DEF TypeOK
<1>4. /\ Numbered(list) /\ Backed(list, steps[c]) /\ Len(steps[c]) <= ExpectedSteps
      /\ \A i \in 1..Len(list) : list[i].step <= ExpectedSteps
      /\ Settled(list, steps[c])
      /\ status[c] = "completed" => Len(steps[c]) = ExpectedSteps /\ AllAnswered(steps[c])
  BY <1>2 DEF CaseTrail, TrailOf, Trail
<1>5. Sound(list, active[c], unknown[c])
  BY DEF CaseInv
<1> HIDE DEF list
<1>6. ASSUME NEW i \in DOMAIN list PROVE ValidAttempt(list, steps[c], i)
  <2>1. list[i].status \in FinalStatus
    <3>1. list[i] \in Attempt /\ list[i].status # "started"
      BY <1>1, <1>4 DEF Settled
    <3> QED BY <3>1 DEF Attempt
  <2>2. list[i].step <= ExpectedSteps /\ list[i].step <= Len(steps[c])
    BY <1>1, <1>4 DEF Settled
  <2>3. /\ IF i = 1 THEN list[i].step = 1 ELSE Follows(list[i - 1], list[i])
        /\ list[i].number = Cardinality({j \in AttemptsOn(list, list[i].step) : j <= i})
        /\ list[i].number <= MaxAttempts
        /\ list[i].status = "completed" => ~list[i].unknown
    BY <1>1, <1>4 DEF Numbered
  <2> QED BY <2>1, <2>2, <2>3 DEF ValidAttempt
<1>7. \A s \in DOMAIN steps[c] : steps[c][s] # "error" =>
           AttemptsOn(list, s) # {} /\ Terminal(list, s).status = "completed"
  BY <1>1, <1>4, ClosedTerminal DEF Backed
<1>8. status[c] = "completed" => /\ Len(steps[c]) = ExpectedSteps
                                 /\ \A s \in DOMAIN steps[c] : steps[c][s] # "error"
  BY <1>1, <1>4 DEF AllAnswered
<1>9. (\E i \in DOMAIN list : list[i].unknown) => unknown[c]
  BY <1>1, <1>5 DEF Sound
<1>10. steps[c] # <<>>
  BY <1>4 DEF Settled
<1>11. ValidExecution(status[c], unknown[c], cleanup[c], list, steps[c])
  BY <1>3, <1>4, <1>6, <1>7, <1>8, <1>9, <1>10 DEF ValidExecution
<1> QED BY <1>11 DEF list

\* Whenever and however a case is interrupted, by its deadline, by a
\* cancellation from either side, by an error of a callback or by one that
\* answers late, the evidence run() returns is evidence validate_execution
\* accepts, and stays so while a worker that outlived the case still writes to
\* it (async_runner.py and execution.py of qe_platform/workflow_runner).
THEOREM EvidenceAlwaysAccepted == Spec => []EvidenceAccepted
<1>1. TypeOK /\ EvidenceInv /\ TrailInv => EvidenceAccepted
  BY SettledAccepted DEF EvidenceInv, TrailInv, EvidenceAccepted
<1> QED BY <1>1, TrailInductive, PTL
==============================================================================
