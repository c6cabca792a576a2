------------------------ MODULE ScanLifecycleProofs -------------------------
(* Proofs about ScanLifecycle, for every set of scans, specs and engines, and about RowLocks, *)
(* for every number of sessions, scans and tasks.                                            *)
EXTENDS ScanLifecycle, RowLocks, TLAPS

USE SourceOfAssumption, DiscAssumption, NoEngineAssumption, MaxAttemptsAssumption,
    ReportsAssumption

-----------------------------------------------------------------------------
(* Operators. *)

LEMMA TaskParts ==
  ASSUME NEW t \in Task
  PROVE  /\ t[1] \in Scan /\ t[2] \in Kind /\ t = <<t[1], t[2]>>
         /\ t \in TasksOf(t[1])
BY DEF Task, TasksOf

LEMMA TasksOfParts ==
  ASSUME NEW s \in Scan, NEW t \in TasksOf(s)
  PROVE  t \in Task /\ t[1] = s
BY DEF Task, TasksOf

LEMMA DiscTask ==
  ASSUME NEW s \in Scan
  PROVE  <<s, Disc>> \in Task /\ <<s, Disc>> \in TasksOf(s)
BY DEF Task, TasksOf, Kind

LEMMA NoRowType == NoRow \in TaskRow /\ QueuedRow \in TaskRow
BY DEF NoRow, QueuedRow, TaskRow, LEASED_STATUSES, TERMINAL_TASK_STATUSES, Coverage

LEMMA FinalStatusType ==
  ASSUME NEW s
  PROVE  FinalStatus(s) \in SETTLED_SCAN_STATUSES
BY DEF FinalStatus, SETTLED_SCAN_STATUSES

LEMMA ManifestStateType ==
  ASSUME NEW status, NEW rows
  PROVE  ManifestState(status, rows) \in CoverageState
BY DEF ManifestState, CoverageState

LEMMA OutcomeType ==
  ASSUME NEW report \in Reports
  PROVE  EffectiveOutcome(report) \in {"completed", "failed"} /\ report.coverage \in Coverage
BY DEF EffectiveOutcome, Report

LEMMA FanOutType ==
  ASSUME NEW t \in Task, NEW specs \in SUBSET FetchSpec
  PROVE  /\ FanOut(t, specs) \subseteq Task
         /\ \A u \in FanOut(t, specs) :
              u[1] = t[1] /\ u[2] # Disc /\ t[2] = Disc /\ Active(t[1])
BY TaskParts DEF FanOut, Task, Kind

LEMMA ClaimedRowType ==
  ASSUME TypeOK, NEW t \in Task, NEW e \in EngineId
  PROVE  ClaimedRow(t, e) \in TaskRow /\ task[t].attempts + 1 \in Nat
<1> DEFINE r == task[t]
<1>1. r \in TaskRow
  BY DEF TypeOK
<1>2. r.attempts + 1 \in Nat /\ "leased" \in LEASED_STATUSES
  BY <1>1 DEF TaskRow, LEASED_STATUSES
<1> HIDE DEF r
<1>3. [r EXCEPT !.status = "leased", !.engine = e, !.attempts = r.attempts + 1,
                !.lapsed = FALSE] \in TaskRow
  BY <1>1, <1>2 DEF TaskRow
<1>4. QED
  BY <1>2, <1>3 DEF ClaimedRow, r

LEMMA ResultRowType ==
  ASSUME TypeOK, NEW r \in runs, NEW report \in Reports
  PROVE  ResultRow(r, report) \in TaskRow
<1>1. r \in Run /\ task[r.task] \in TaskRow
  BY DEF TypeOK, Run
<1>2. QED
  BY <1>1, OutcomeType DEF ResultRow, TaskRow, Run, TERMINAL_TASK_STATUSES

-----------------------------------------------------------------------------
(* Types. *)

LEMMA TypeInit == Init => TypeOK
BY NoRowType DEF Init, TypeOK, ScanRow, ScanMode, CoverageState

LEMMA TypeNext == TypeOK /\ [Next]_vars => TypeOK'
<1> SUFFICES ASSUME TypeOK, [Next]_vars PROVE TypeOK'
  OBVIOUS
<1> USE DEF TypeOK
<1>1. ASSUME NEW s \in Scan, NEW mode \in ScanMode, Launch(s, mode) PROVE TypeOK'
  BY <1>1, DiscTask, NoRowType DEF Launch, Enqueue, ScanRow, ACTIVE_SCAN_STATUSES
<1>2. ASSUME NEW s \in Scan, CancelRequest(s) PROVE TypeOK'
  BY <1>2 DEF CancelRequest
<1>3. ASSUME NEW s \in Scan, Cancel(s) PROVE TypeOK'
  <2>1. task' \in [Task -> TaskRow]
    BY <1>3, ZenonT(40) DEF Cancel, TaskRow, TERMINAL_TASK_STATUSES, Coverage
  <2>2. scan' \in [Scan -> ScanRow]
    BY <1>3, ManifestStateType, ZenonT(40) DEF Cancel, ScanRow, SETTLED_SCAN_STATUSES
  <2>3. QED
    BY <1>3, <2>1, <2>2 DEF Cancel
<1>4. ASSUME NEW s \in Scan, SweepStalled(s) PROVE TypeOK'
  BY <1>4 DEF SweepStalled, StartFinalize, Finalizer
<1>5. ASSUME NEW t \in Task, NEW e \in EngineId, Claim(t, e) PROVE TypeOK'
  <2>1. task' \in [Task -> TaskRow]
    BY <1>5, ClaimedRowType DEF Claim
  <2>2. scan' \in [Scan -> ScanRow]
    BY <1>5, TaskParts, SMTT(40) DEF Claim, ScanRow, ACTIVE_SCAN_STATUSES
  <2>3. runs' \subseteq Run
    BY <1>5, ClaimedRowType DEF Claim, Run
  <2>4. QED
    BY <1>5, <2>1, <2>2, <2>3 DEF Claim
<1>6. ASSUME NEW t \in Task, DropMessage(t) PROVE TypeOK'
  BY <1>6 DEF DropMessage
<1>7. ASSUME NEW t \in Task, LeaseLapses(t) PROVE TypeOK'
  BY <1>7 DEF LeaseLapses, TaskRow
<1>8. ASSUME NEW t \in Task, Redispatch(t) PROVE TypeOK'
  BY <1>8 DEF Redispatch
<1>9. ASSUME NEW r \in runs, RunStep(r) PROVE TypeOK'
  <2> r \in Run /\ r.task \in Task /\ r.task[1] \in Scan
    BY TaskParts DEF Run
  <2>1. CASE LeaseGranted(r)
    BY <2>1 DEF LeaseGranted, Run
  <2>2. CASE LeaseFails(r)
    <3>1. task' \in [Task -> TaskRow]
      BY <2>2, SMTT(30) DEF LeaseFails, TaskRow, TERMINAL_TASK_STATUSES, Coverage
    <3>2. QED
      BY <2>2, <3>1 DEF LeaseFails, StartFinalize, Finalizer
  <2>3. CASE Heartbeat(r)
    BY <2>3 DEF Heartbeat, TaskRow, LEASED_STATUSES
  <2>4. CASE ObserveCancel(r) \/ RunDies(r) \/ SubmitRefused(r) \/ SubmitAnswered(r)
    BY <2>4 DEF ObserveCancel, RunDies, SubmitRefused, SubmitAnswered
  <2>5. ASSUME NEW report \in Reports, NEW specs \in SUBSET FetchSpec,
               SubmitResults(r, report, specs)
        PROVE  TypeOK'
    <3>1. task' \in [Task -> TaskRow]
      BY <2>5, ResultRowType, NoRowType DEF SubmitResults
    <3>2. scan' \in [Scan -> ScanRow]
      BY <2>5 DEF SubmitResults, ScanRow, ACTIVE_SCAN_STATUSES
    <3>3. broker' \subseteq Task
      BY <2>5, FanOutType DEF SubmitResults, Enqueue
    <3>4. runs' \subseteq Run
      BY <2>5 DEF SubmitResults, Run
    <3>5. finalizers' \subseteq Finalizer
      BY <2>5 DEF SubmitResults, StartFinalize, Finalizer
    <3>6. QED
      BY <2>5, <3>1, <3>2, <3>3, <3>4, <3>5 DEF SubmitResults
  <2>6. CASE SubmitReplayed(r)
    BY <2>6 DEF SubmitReplayed, StartFinalize, Finalizer
  <2>7. QED
    BY <1>9, <2>1, <2>2, <2>3, <2>4, <2>5, <2>6 DEF RunStep
<1>10. ASSUME NEW f \in finalizers, FinalizeRead(f) \/ FinalizeCommit(f) \/ FinalizeDies(f)
       PROVE  TypeOK'
  <2>1. CASE FinalizeRead(f)
    BY <2>1, FinalStatusType DEF FinalizeRead, Finalizer
  <2>2. CASE FinalizeCommit(f)
    <3>1. scan' \in [Scan -> ScanRow]
      BY <2>2, ManifestStateType DEF FinalizeCommit, ScanRow, Finalizer
    <3>2. reconciles' \in [Scan -> Nat] /\ releases' \in [Scan -> Nat]
      BY <2>2 DEF FinalizeCommit, Finalizer
    <3>3. QED
      BY <2>2, <3>1, <3>2 DEF FinalizeCommit
  <2>3. CASE FinalizeDies(f)
    BY <2>3 DEF FinalizeDies
  <2>4. QED
    BY <1>10, <2>1, <2>2, <2>3
<1>11. CASE Reclaim
  <2>1. task' \in [Task -> TaskRow]
    BY <1>11, ZenonT(40) DEF Reclaim, TaskRow
  <2>2. QED
    BY <1>11, <2>1 DEF Reclaim, Enqueue
<1>12. CASE UNCHANGED vars
  BY <1>12 DEF vars
<1>13. QED
  BY <1>1, <1>2, <1>3, <1>4, <1>5, <1>6, <1>7, <1>8, <1>9, <1>10, <1>11, <1>12 DEF Next

\* Every table, queue and request set keeps its type along every behaviour.
THEOREM TypeCorrect == Spec => []TypeOK
<1>1. QED
  BY TypeInit, TypeNext, PTL DEF Spec

-----------------------------------------------------------------------------
(* Frames: what a step that leaves settled scans alone preserves. *)

\* A step moves scans at most between active statuses.
ScanFrame ==
  \A s \in Scan :
    /\ \/ scan'[s].status = scan[s].status
       \/ Active(s) /\ scan'[s].status \in ACTIVE_SCAN_STATUSES
    /\ scan'[s].mode = scan[s].mode
    /\ scan'[s].manifest = scan[s].manifest

\* A step leaves the tasks of settled scans alone.
SettledTasksFrame ==
  \A t \in Task : scan[t[1]].status \in SETTLED_SCAN_STATUSES => task'[t] = task[t]

LEMMA StatusesDisjoint ==
  /\ ACTIVE_SCAN_STATUSES \cap SETTLED_SCAN_STATUSES = {}
  /\ "none" \notin ACTIVE_SCAN_STATUSES /\ "none" \notin SETTLED_SCAN_STATUSES
  /\ LEASED_STATUSES \cap TERMINAL_TASK_STATUSES = {}
  /\ "none" \notin LEASED_STATUSES /\ "none" \notin TERMINAL_TASK_STATUSES
  /\ "queued" \notin LEASED_STATUSES /\ "queued" \notin TERMINAL_TASK_STATUSES
BY DEF ACTIVE_SCAN_STATUSES, SETTLED_SCAN_STATUSES, LEASED_STATUSES, TERMINAL_TASK_STATUSES

LEMMA ScanFrameFacts ==
  ASSUME TypeOK, ScanFrame, NEW s \in Scan
  PROVE  /\ Active(s)' <=> Active(s)
         /\ scan'[s].status = "none" <=> scan[s].status = "none"
         /\ scan'[s].status \in SETTLED_SCAN_STATUSES
              <=> scan[s].status \in SETTLED_SCAN_STATUSES
         /\ scan'[s].status \in SETTLED_SCAN_STATUSES => scan'[s].status = scan[s].status
BY StatusesDisjoint DEF TypeOK, ScanFrame, Active

LEMMA ActiveMoveFrame ==
  ASSUME TypeOK, NEW s \in Scan, Active(s), NEW v \in ACTIVE_SCAN_STATUSES,
         scan' = [scan EXCEPT ![s].status = v]
  PROVE  ScanFrame
<1>1. scan \in [Scan -> ScanRow]
  BY DEF TypeOK
<1>2. \A o \in Scan : o # s => scan'[o] = scan[o]
  BY <1>1
<1>3. /\ scan'[s].status = v
      /\ scan'[s].mode = scan[s].mode
      /\ scan'[s].manifest = scan[s].manifest
  BY <1>1 DEF ScanRow
<1>4. QED
  BY <1>2, <1>3 DEF ScanFrame

LEMMA SettledFrame ==
  ASSUME LifecycleInv, ScanFrame, SettledTasksFrame, UNCHANGED <<reconciles, releases>>
  PROVE  SettledHasNoLiveTask' /\ CompletedScanIsSound' /\ EffectsNeedEvidence'
<1> USE DEF LifecycleInv
<1>1. ASSUME NEW s \in Scan, scan[s].status \in SETTLED_SCAN_STATUSES, NEW t \in TasksOf(s)
      PROVE  task'[t] = task[t]
  BY <1>1, TasksOfParts DEF SettledTasksFrame
<1>2. SettledHasNoLiveTask'
  BY <1>1, ScanFrameFacts DEF SettledHasNoLiveTask
<1>3. CompletedScanIsSound'
  <2> SUFFICES ASSUME NEW s \in Scan, scan'[s].status = "completed"
               PROVE  /\ \A t \in TasksOf(s) : Exists(t)' =>
                           task'[t].status = "completed" /\ task'[t].key # 0
                      /\ scan'[s].manifest = "complete" =>
                           \A t \in TasksOf(s) : Exists(t)' => task'[t].coverage = "complete"
    BY DEF CompletedScanIsSound
  <2>1. scan[s].status = "completed" /\ scan[s].status \in SETTLED_SCAN_STATUSES
    BY ScanFrameFacts DEF SETTLED_SCAN_STATUSES
  <2>2. QED
    BY <1>1, <2>1 DEF CompletedScanIsSound, ScanFrame, Exists
<1>4. EffectsNeedEvidence'
  <2> SUFFICES ASSUME NEW s \in Scan, releases[s] # 0 \/ reconciles[s] # 0
               PROVE  /\ scan'[s].mode = scan[s].mode /\ scan'[s].status = scan[s].status
                      /\ \A t \in TasksOf(s) : task'[t] = task[t]
    BY TasksOfParts DEF EffectsNeedEvidence, Exists, TasksOf, Kind
  <2>1. scan[s].status = "completed" /\ scan[s].status \in SETTLED_SCAN_STATUSES
    BY DEF EffectsNeedEvidence, SETTLED_SCAN_STATUSES
  <2>2. QED
    BY <1>1, <2>1, ScanFrameFacts DEF ScanFrame
<1>5. QED
  BY <1>2, <1>3, <1>4

LEMMA FinalStatusFrame ==
  ASSUME NEW s \in Scan, \A t \in TasksOf(s) : task'[t] = task[t]
  PROVE  FinalStatus(s)' = FinalStatus(s)
<1>1. {u \in TasksOf(s) : Exists(u)}' = {u \in TasksOf(s) : Exists(u)}
  BY DEF Exists, TasksOf
<1>2. {task[t].status : t \in {u \in TasksOf(s) : Exists(u)}}'
        = {task[t].status : t \in {u \in TasksOf(s) : Exists(u)}}
  BY <1>1 DEF Exists, TasksOf
<1>3. QED
  BY <1>2 DEF FinalStatus

\* A finalisation that has read its scan's tasks keeps the truth as long as no
\* finished task changes.
LEMMA FinalReadFrame ==
  ASSUME LifecycleInv, ScanFrame, finalizers' \subseteq finalizers \cup
           {[scan |-> s, final |-> "unread"] : s \in Scan},
         \A t \in Task : /\ Active(t[1])
                         /\ task[t].status \in {"none"} \cup TERMINAL_TASK_STATUSES
                         /\ task'[t] # task[t]
                         => \E u \in TasksOf(t[1]) :
                              task[u].status \notin {"none"} \cup TERMINAL_TASK_STATUSES
  PROVE  FinalReadStillTrue'
<1> USE DEF LifecycleInv
<1> SUFFICES ASSUME NEW f \in finalizers', f.final # "unread", Active(f.scan)'
             PROVE  /\ \A t \in TasksOf(f.scan) :
                         task'[t].status \in {"none"} \cup TERMINAL_TASK_STATUSES
                    /\ f.final = FinalStatus(f.scan)'
  BY DEF FinalReadStillTrue
<1>1. f \in finalizers /\ f.scan \in Scan
  BY DEF TypeOK, Finalizer
<1>2. Active(f.scan)
  BY <1>1, ScanFrameFacts
<1>3. /\ \A t \in TasksOf(f.scan) : task[t].status \in {"none"} \cup TERMINAL_TASK_STATUSES
      /\ f.final = FinalStatus(f.scan)
  BY <1>1, <1>2 DEF FinalReadStillTrue
<1>4. \A t \in TasksOf(f.scan) : task'[t] = task[t]
  BY <1>1, <1>2, <1>3, TasksOfParts
<1>5. QED
  BY <1>1, <1>3, <1>4, FinalStatusFrame

-----------------------------------------------------------------------------
(* The invariant, action by action. *)

LEMMA LifecycleInit == Init => LifecycleInv
<1> SUFFICES ASSUME Init PROVE LifecycleInv
  OBVIOUS
<1>1. TypeOK
  BY TypeInit
<1>2. \A t \in Task : task[t] = NoRow /\ task[t].status = "none" /\ task[t].key = 0
  BY DEF Init, NoRow
<1>3. \A s \in Scan : scan[s].status = "none" /\ reconciles[s] = 0 /\ releases[s] = 0
  BY DEF Init
<1>4. RowsRooted /\ KeysEndTasks /\ CancelledBySettlement /\ ReclaimedResultsRefused
  BY <1>2 DEF RowsRooted, KeysEndTasks, CancelledBySettlement, ReclaimedResultsRefused, Exists
<1>5. RunsKnown /\ LeaseExclusive /\ RequestsRooted /\ FinalReadStillTrue
  BY <1>3 DEF Init, RunsKnown, LeaseExclusive, RequestsRooted, FinalReadStillTrue
<1>6. SettledHasNoLiveTask /\ CompletedScanIsSound /\ EffectsNeedEvidence
  BY <1>3 DEF SettledHasNoLiveTask, CompletedScanIsSound, EffectsNeedEvidence,
              SETTLED_SCAN_STATUSES
<1>7. QED
  BY <1>1, <1>4, <1>5, <1>6 DEF LifecycleInv

\* A step that touches neither table and starts no run.
LEMMA QuietStep ==
  ASSUME LifecycleInv, TypeOK', UNCHANGED <<scan, task, reconciles, releases>>,
         runs' \subseteq runs, FinalReadStillTrue',
         \A f \in finalizers' : scan[f.scan].status # "none",
         \A s \in cancelling' : scan[s].status # "none"
  PROVE  LifecycleInv'
<1> USE DEF LifecycleInv
<1>1. RowsRooted' /\ KeysEndTasks' /\ CancelledBySettlement' /\ ReclaimedResultsRefused'
  BY DEF RowsRooted, KeysEndTasks, CancelledBySettlement, ReclaimedResultsRefused, Exists
<1>2. RunsKnown' /\ LeaseExclusive'
  BY DEF RunsKnown, LeaseExclusive, Exists, Leased
<1>3. RequestsRooted'
  BY DEF RequestsRooted
<1>4. SettledHasNoLiveTask' /\ CompletedScanIsSound' /\ EffectsNeedEvidence'
  BY DEF SettledHasNoLiveTask, CompletedScanIsSound, EffectsNeedEvidence, Exists
<1>5. QED
  BY <1>1, <1>2, <1>3, <1>4

\* With the tables unchanged, a finalisation that has not read yet adds nothing.
LEMMA QuietFinalRead ==
  ASSUME LifecycleInv, UNCHANGED <<scan, task>>,
         \A f \in finalizers' : f \in finalizers \/ f.final = "unread"
  PROVE  FinalReadStillTrue'
<1> SUFFICES ASSUME NEW f \in finalizers', f.final # "unread", Active(f.scan)'
             PROVE  /\ \A t \in TasksOf(f.scan) :
                         task'[t].status \in {"none"} \cup TERMINAL_TASK_STATUSES
                    /\ f.final = FinalStatus(f.scan)'
  BY DEF FinalReadStillTrue
<1>1. f \in finalizers /\ f.scan \in Scan /\ Active(f.scan)
  BY DEF LifecycleInv, TypeOK, Finalizer, Active
<1>2. QED
  BY <1>1, FinalStatusFrame DEF LifecycleInv, FinalReadStillTrue

LEMMA QuietActions ==
  ASSUME LifecycleInv, TypeOK',
         \/ \E s \in Scan : CancelRequest(s) \/ SweepStalled(s)
         \/ \E t \in Task : DropMessage(t) \/ Redispatch(t)
         \/ \E r \in runs : \/ ObserveCancel(r) \/ RunDies(r) \/ SubmitRefused(r)
                            \/ SubmitAnswered(r) \/ SubmitReplayed(r)
         \/ \E f \in finalizers : FinalizeDies(f)
  PROVE  LifecycleInv'
<1>1. /\ UNCHANGED <<scan, task, reconciles, releases>>
      /\ runs' \subseteq runs
  BY DEF CancelRequest, SweepStalled, DropMessage, Redispatch, ObserveCancel, RunDies,
         SubmitRefused, SubmitAnswered, SubmitReplayed, FinalizeDies
<1>2. ASSUME NEW f \in finalizers'
      PROVE  f \in finalizers \/ (f.final = "unread" /\ scan[f.scan].status # "none")
  <2>1. ASSUME NEW s \in Scan, SweepStalled(s)
        PROVE  f \in finalizers \/ (f.final = "unread" /\ scan[f.scan].status # "none")
    BY <2>1, StatusesDisjoint DEF SweepStalled, StartFinalize, Sweepable, Active
  <2>2. ASSUME NEW r \in runs, SubmitReplayed(r)
        PROVE  f \in finalizers \/ (f.final = "unread" /\ scan[f.scan].status # "none")
    <3>1. scan[r.task[1]].status # "none"
      BY DEF LifecycleInv, TypeOK, Run, RunsKnown, RowsRooted
    <3>2. QED
      BY <2>2, <3>1 DEF SubmitReplayed, StartFinalize
  <2>3. QED
    BY <2>1, <2>2 DEF CancelRequest, DropMessage, Redispatch, ObserveCancel, RunDies,
         SubmitRefused, SubmitAnswered, FinalizeDies
<1>3. \A s \in cancelling' : scan[s].status # "none"
  BY StatusesDisjoint
  DEF LifecycleInv, RequestsRooted, CancelRequest, SweepStalled, DropMessage, Redispatch,
      ObserveCancel, RunDies, SubmitRefused, SubmitAnswered, SubmitReplayed, FinalizeDies, Active
<1>4. QED
  BY <1>1, <1>2, <1>3, QuietFinalRead, QuietStep DEF LifecycleInv, RequestsRooted

LEMMA LeaseGrantedInv ==
  ASSUME LifecycleInv, TypeOK', NEW r \in runs, LeaseGranted(r)
  PROVE  LifecycleInv'
<1> USE DEF LifecycleInv
<1> DEFINE started == [r EXCEPT !.phase = "running"]
<1>1. r \in Run /\ started.task = r.task /\ started.attempt = r.attempt
      /\ started.engine = r.engine /\ started.phase = "running"
  BY DEF TypeOK, Run
<1>2. runs' = (runs \ {r}) \cup {started} /\ UNCHANGED <<scan, task, finalizers, cancelling, reconciles, releases>>
  BY DEF LeaseGranted
<1> HIDE DEF started
<1>3. RowsRooted' /\ KeysEndTasks' /\ CancelledBySettlement' /\ ReclaimedResultsRefused'
  BY <1>2 DEF RowsRooted, KeysEndTasks, CancelledBySettlement, ReclaimedResultsRefused, Exists
<1>4. RunsKnown'
  BY <1>1, <1>2 DEF RunsKnown, Exists
<1>5. LeaseExclusive'
  BY <1>1, <1>2 DEF LeaseExclusive, Leased
<1>6. RequestsRooted' /\ FinalReadStillTrue'
  BY <1>2, QuietFinalRead DEF RequestsRooted
<1>7. SettledHasNoLiveTask' /\ CompletedScanIsSound' /\ EffectsNeedEvidence'
  BY <1>2 DEF SettledHasNoLiveTask, CompletedScanIsSound, EffectsNeedEvidence, Exists
<1>8. QED
  BY <1>3, <1>4, <1>5, <1>6, <1>7

LEMMA FinalizeReadInv ==
  ASSUME LifecycleInv, TypeOK', NEW f \in finalizers, FinalizeRead(f)
  PROVE  LifecycleInv'
<1> USE DEF LifecycleInv
<1> DEFINE read == [f EXCEPT !.final = FinalStatus(f.scan)]
<1>1. f.scan \in Scan /\ read.scan = f.scan /\ read.final = FinalStatus(f.scan)
  BY DEF TypeOK, Finalizer
<1>2. /\ UNCHANGED <<scan, task, runs, cancelling, reconciles, releases>>
      /\ \A g \in finalizers' : g \in finalizers \/ (g = read /\ AllDone(f.scan))
  BY DEF FinalizeRead
<1> HIDE DEF read
<1>3. FinalReadStillTrue'
  <2> SUFFICES ASSUME NEW g \in finalizers', g.final # "unread", Active(g.scan)'
               PROVE  /\ \A t \in TasksOf(g.scan) :
                           task'[t].status \in {"none"} \cup TERMINAL_TASK_STATUSES
                      /\ g.final = FinalStatus(g.scan)'
    BY DEF FinalReadStillTrue
  <2>1. CASE g \in finalizers
    <3>1. g.scan \in Scan /\ Active(g.scan)
      BY <1>2, <2>1 DEF TypeOK, Finalizer, Active
    <3>2. QED
      BY <1>2, <2>1, <3>1, FinalStatusFrame DEF FinalReadStillTrue
  <2>2. CASE g = read /\ AllDone(f.scan)
    BY <1>1, <1>2, <2>2, FinalStatusFrame DEF AllDone, Exists
  <2>3. QED
    BY <1>2, <2>1, <2>2
<1>4. QED
  BY <1>1, <1>2, <1>3, QuietStep DEF RequestsRooted

-----------------------------------------------------------------------------
(* Steps that move rows which carry no results. *)

\* Rows change only while they exist and carry no results.
OpenRowsFrame ==
  \A t \in Task : \/ task'[t] = task[t]
                  \/ /\ Exists(t) /\ task'[t].status \notin {"none", "completed"}
                     /\ task[t].key = 0 /\ task'[t].key = 0

LEMMA OpenRows ==
  ASSUME LifecycleInv, OpenRowsFrame,
         \A s \in Scan : scan[s].status # "none" => scan'[s].status # "none"
  PROVE  RowsRooted' /\ KeysEndTasks' /\ ReclaimedResultsRefused'
<1> USE DEF LifecycleInv
<1>1. KeysEndTasks' /\ ReclaimedResultsRefused'
  BY DEF OpenRowsFrame, KeysEndTasks, ReclaimedResultsRefused
<1>2. ASSUME NEW t \in Task
      PROVE  /\ ~Exists(t)' => task'[t] = NoRow
             /\ Exists(t)' => scan'[t[1]].status # "none"
             /\ Exists(t)' /\ t[2] # Disc => task'[<<t[1], Disc>>].key # 0
  <2>1. Exists(t)' <=> Exists(t)
    BY DEF OpenRowsFrame, Exists
  <2>2. t[1] \in Scan /\ <<t[1], Disc>> \in Task
    BY TaskParts, DiscTask
  <2>3. QED
    BY <2>1, <2>2 DEF OpenRowsFrame, RowsRooted, Exists
<1>3. QED
  BY <1>1, <1>2 DEF RowsRooted

\* While tables of settled scans stand still, requests keep their root.
LEMMA RequestsFrame ==
  ASSUME LifecycleInv, ScanFrame, UNCHANGED <<reconciles, releases>>,
         cancelling' \subseteq cancelling,
         \A f \in finalizers' : f \in finalizers \/ scan[f.scan].status # "none",
         \A f \in finalizers' : f.scan \in Scan
  PROVE  RequestsRooted'
<1>1. \A s \in cancelling' : s \in Scan
  BY DEF LifecycleInv, TypeOK
<1>2. \A s \in Scan : scan'[s].status \in {"none"} \cup ACTIVE_SCAN_STATUSES
                        => scan[s].status \in {"none"} \cup ACTIVE_SCAN_STATUSES
  BY DEF ScanFrame, Active
<1>3. QED
  BY <1>1, <1>2, ScanFrameFacts DEF LifecycleInv, RequestsRooted

LEMMA ScanUnchangedFrame ==
  ASSUME scan' = scan
  PROVE  ScanFrame
BY DEF ScanFrame

\* A lease is live only under a scan that has not settled.
LEMMA LiveTaskActive ==
  ASSUME LifecycleInv, NEW t \in Task,
         task[t].status \notin {"none"} \cup TERMINAL_TASK_STATUSES
  PROVE  Active(t[1])
BY TaskParts DEF LifecycleInv, SettledHasNoLiveTask, RowsRooted, Exists, TypeOK, ScanRow, Active

LEMMA HeartbeatInv ==
  ASSUME LifecycleInv, TypeOK', NEW r \in runs, Heartbeat(r)
  PROVE  LifecycleInv'
<1> USE DEF LifecycleInv
<1> DEFINE t == r.task
<1>1. r \in Run /\ t \in Task /\ task[t] \in TaskRow
  BY DEF TypeOK, Run
<1> HIDE DEF t
<1>2. /\ UNCHANGED <<scan, runs, finalizers, cancelling, reconciles, releases>>
      /\ Leased(t)
      /\ task' = [task EXCEPT ![t].status = "running", ![t].lapsed = FALSE]
  BY DEF Heartbeat, t
<1>3. \A u \in Task : u # t => task'[u] = task[u]
  BY <1>1, <1>2 DEF TypeOK
<1>4. /\ task'[t].status = "running" /\ task'[t].engine = task[t].engine
      /\ task'[t].attempts = task[t].attempts /\ task'[t].key = task[t].key
      /\ ~task'[t].lapsed
  BY <1>1, <1>2 DEF TypeOK, TaskRow
<1>5. task[t].key = 0 /\ Active(t[1])
      /\ task[t].status \notin {"none"} \cup TERMINAL_TASK_STATUSES
  BY <1>1, <1>2, LiveTaskActive, StatusesDisjoint
  DEF Leased, KeysEndTasks, LEASED_STATUSES, TERMINAL_TASK_STATUSES
<1>6. ScanFrame
  BY <1>2, ScanUnchangedFrame
<1>7. OpenRowsFrame
  BY <1>3, <1>4, <1>5 DEF OpenRowsFrame, Exists
<1>8. SettledTasksFrame
  BY <1>3, <1>5, StatusesDisjoint DEF SettledTasksFrame, Active
<1>9. FinalReadStillTrue'
  BY <1>2, <1>3, <1>5, <1>6, FinalReadFrame
<1>10. CancelledBySettlement'
  BY <1>2, <1>3, <1>4 DEF CancelledBySettlement
<1>11. RunsKnown'
  BY <1>1, <1>2, <1>3, <1>4 DEF RunsKnown, Exists, TypeOK, Run
<1>12. LeaseExclusive'
  BY <1>1, <1>2, <1>3, <1>4 DEF LeaseExclusive, Leased, TypeOK, Run, LEASED_STATUSES
<1>13. RequestsRooted'
  BY <1>2, <1>6, RequestsFrame DEF TypeOK, Finalizer
<1>14. QED
  BY <1>2, <1>6, <1>7, <1>8, <1>9, <1>10, <1>11, <1>12, <1>13, OpenRows, SettledFrame

LEMMA LeaseLapsesInv ==
  ASSUME LifecycleInv, TypeOK', NEW t \in Task, LeaseLapses(t)
  PROVE  LifecycleInv'
<1> USE DEF LifecycleInv
<1>1. task[t] \in TaskRow
  BY DEF TypeOK
<1>2. /\ UNCHANGED <<scan, runs, finalizers, cancelling, reconciles, releases>>
      /\ Leased(t) /\ task' = [task EXCEPT ![t].lapsed = TRUE]
      /\ \A r \in runs : ~(r.task = t /\ r.phase = "leasing")
  BY DEF LeaseLapses
<1>3. \A u \in Task : u # t => task'[u] = task[u]
  BY <1>1, <1>2 DEF TypeOK
<1>4. /\ task'[t].status = task[t].status /\ task'[t].engine = task[t].engine
      /\ task'[t].attempts = task[t].attempts /\ task'[t].key = task[t].key
  BY <1>1, <1>2 DEF TypeOK, TaskRow
<1>5. task[t].key = 0 /\ Active(t[1])
      /\ task[t].status \notin {"none"} \cup TERMINAL_TASK_STATUSES
  BY <1>1, <1>2, LiveTaskActive, StatusesDisjoint
  DEF Leased, KeysEndTasks, LEASED_STATUSES, TERMINAL_TASK_STATUSES
<1>6. ScanFrame
  BY <1>2, ScanUnchangedFrame
<1>7. OpenRowsFrame
  BY <1>3, <1>4, <1>5 DEF OpenRowsFrame, Exists, TERMINAL_TASK_STATUSES
<1>8. SettledTasksFrame
  BY <1>3, <1>5, StatusesDisjoint DEF SettledTasksFrame, Active
<1>9. FinalReadStillTrue'
  BY <1>2, <1>3, <1>5, <1>6, FinalReadFrame
<1>10. CancelledBySettlement'
  BY <1>2, <1>3, <1>4 DEF CancelledBySettlement
<1>11. RunsKnown'
  BY <1>1, <1>2, <1>3, <1>4 DEF RunsKnown, Exists, TypeOK, Run
<1>12. LeaseExclusive'
  BY <1>1, <1>2, <1>3, <1>4 DEF LeaseExclusive, Leased, TypeOK, Run, LEASED_STATUSES
<1>13. RequestsRooted'
  BY <1>2, <1>6, RequestsFrame DEF TypeOK, Finalizer
<1>14. QED
  BY <1>2, <1>6, <1>7, <1>8, <1>9, <1>10, <1>11, <1>12, <1>13, OpenRows, SettledFrame

LEMMA ReclaimInv ==
  ASSUME LifecycleInv, TypeOK', Reclaim
  PROVE  LifecycleInv'
<1> USE DEF LifecycleInv
<1> DEFINE expired == {t \in Task : Leased(t) /\ task[t].lapsed /\ task[t].attempts < MaxAttempts}
<1>1. UNCHANGED <<scan, runs, finalizers, cancelling, reconciles, releases>>
  BY DEF Reclaim
<1>2. \A t \in Task : t \notin expired => task'[t] = task[t]
  BY DEF Reclaim
<1>3. ASSUME NEW t \in expired
      PROVE  /\ t \in Task /\ Leased(t) /\ task[t].lapsed
             /\ task'[t].status = "queued" /\ task'[t].engine = NoEngine
             /\ task'[t].attempts = task[t].attempts /\ task'[t].key = task[t].key
  <2>1. task[t] \in TaskRow /\ task'[t] = [task[t] EXCEPT !.status = "queued",
                                             !.engine = NoEngine, !.lapsed = FALSE]
    BY DEF Reclaim, TypeOK
  <2>2. QED
    BY <2>1 DEF TaskRow
<1>4. \A t \in expired :
        /\ task[t].key = 0 /\ Active(t[1])
        /\ task[t].status \notin {"none"} \cup TERMINAL_TASK_STATUSES
  BY <1>3, LiveTaskActive, StatusesDisjoint
  DEF Leased, KeysEndTasks, LEASED_STATUSES, TERMINAL_TASK_STATUSES
<1> HIDE DEF expired
<1>5. ScanFrame
  BY <1>1, ScanUnchangedFrame
<1>6. OpenRowsFrame
  BY <1>2, <1>3, <1>4 DEF OpenRowsFrame, Exists
<1>7. SettledTasksFrame
  BY <1>2, <1>4, StatusesDisjoint DEF SettledTasksFrame, Active
<1>8. FinalReadStillTrue'
  BY <1>1, <1>2, <1>4, <1>5, FinalReadFrame
<1>9. CancelledBySettlement'
  BY <1>1, <1>2, <1>3 DEF CancelledBySettlement
<1>10. RunsKnown'
  BY <1>1, <1>2, <1>3 DEF RunsKnown, Exists, TypeOK, Run
<1>11. LeaseExclusive'
  BY <1>1, <1>2, <1>3, StatusesDisjoint DEF LeaseExclusive, Leased, TypeOK, Run
<1>12. RequestsRooted'
  BY <1>1, <1>5, RequestsFrame DEF TypeOK, Finalizer
<1>13. QED
  BY <1>1, <1>5, <1>6, <1>7, <1>8, <1>9, <1>10, <1>11, <1>12, OpenRows, SettledFrame

\* Effects keep their evidence while the scans that had any stand still.
LEMMA EffectsFrame ==
  ASSUME EffectsNeedEvidence, UNCHANGED <<reconciles, releases>>,
         \A s \in Scan : releases[s] # 0 \/ reconciles[s] # 0 =>
           /\ scan'[s].mode = scan[s].mode /\ scan'[s].status = scan[s].status
           /\ \A u \in TasksOf(s) : task'[u] = task[u]
  PROVE  EffectsNeedEvidence'
<1>1. ASSUME NEW s \in Scan, reconciles[s] # 0
      PROVE  /\ reconciles[s] = 1 /\ releases[s] = 1 /\ scan'[s].mode = "full"
             /\ \E p \in FetchSpec : task'[<<s, p>>].status = "completed"
  <2>1. PICK p \in FetchSpec : task[<<s, p>>].status = "completed"
    BY <1>1 DEF EffectsNeedEvidence
  <2>2. task'[<<s, p>>] = task[<<s, p>>]
    BY <1>1 DEF TasksOf, Kind
  <2>3. QED
    BY <1>1, <2>1, <2>2 DEF EffectsNeedEvidence
<1>2. ASSUME NEW s \in Scan, releases[s] # 0
      PROVE  /\ releases[s] = 1 /\ scan'[s].status = "completed"
             /\ \A u \in TasksOf(s) : Exists(u)' =>
                  task'[u].status = "completed" /\ task'[u].coverage = "complete"
  BY <1>2 DEF EffectsNeedEvidence, Exists
<1>3. QED
  BY <1>1, <1>2 DEF EffectsNeedEvidence

LEMMA LeaseFailsInv ==
  ASSUME LifecycleInv, TypeOK', NEW r \in runs, LeaseFails(r)
  PROVE  LifecycleInv'
<1> USE DEF LifecycleInv
<1> DEFINE t == r.task
<1>1. r \in Run /\ t \in Task /\ task[t] \in TaskRow /\ t[1] \in Scan
  BY TaskParts DEF TypeOK, Run
<1>2. /\ UNCHANGED <<scan, cancelling, reconciles, releases>>
      /\ r.phase = "leasing" /\ runs' = runs \ {r}
      /\ finalizers' = finalizers \cup {[scan |-> t[1], final |-> "unread"]}
      /\ task' = [task EXCEPT ![t].status = "failed", ![t].lapsed = FALSE,
                              ![t].coverage = "gaps"]
  BY DEF LeaseFails, StartFinalize, t
<1>3. \A u \in Task : u # t => task'[u] = task[u]
  BY <1>1, <1>2 DEF TypeOK
<1>4. /\ task'[t].status = "failed" /\ task'[t].engine = task[t].engine
      /\ task'[t].attempts = task[t].attempts /\ task'[t].key = task[t].key
  BY <1>1, <1>2 DEF TypeOK, TaskRow
<1>5. /\ task[t].key = 0 /\ task[t].engine = r.engine
      /\ task[t].status \in {"leased", "running", "cancelled"}
  BY <1>2 DEF LeaseExclusive, LEASED_STATUSES, t
<1> HIDE DEF t
<1>6. /\ scan[t[1]].status # "completed" /\ scan[t[1]].status # "none"
      /\ releases[t[1]] = 0 /\ reconciles[t[1]] = 0
  <2>1. t \in TasksOf(t[1]) /\ Exists(t) /\ task[t].status # "completed"
    BY <1>1, <1>5, TaskParts DEF Exists
  <2>2. scan[t[1]].status # "completed"
    BY <1>1, <2>1 DEF CompletedScanIsSound
  <2>3. releases[t[1]] = 0
    BY <1>1, <2>2 DEF EffectsNeedEvidence
  <2>4. reconciles[t[1]] = 0
    BY <1>1, <2>3 DEF EffectsNeedEvidence
  <2>5. QED
    BY <1>1, <2>1, <2>2, <2>3, <2>4 DEF RowsRooted
<1>7. ScanFrame
  BY <1>2, ScanUnchangedFrame
<1>8. OpenRowsFrame
  BY <1>3, <1>4, <1>5 DEF OpenRowsFrame, Exists
<1>9. FinalReadStillTrue'
  <2>1. Active(t[1]) => task[t].status \notin {"none"} \cup TERMINAL_TASK_STATUSES
    BY <1>1, <1>5, StatusesDisjoint
    DEF CancelledBySettlement, Active, TERMINAL_TASK_STATUSES
  <2>2. \A u \in Task : /\ Active(u[1])
                        /\ task[u].status \in {"none"} \cup TERMINAL_TASK_STATUSES
                        => task'[u] = task[u]
    BY <1>3, <2>1
  <2>3. QED
    BY <1>1, <1>2, <1>7, <2>2, FinalReadFrame
<1>10. CancelledBySettlement'
  BY <1>2, <1>3, <1>4 DEF CancelledBySettlement
<1>11. RunsKnown'
  BY <1>1, <1>2, <1>3, <1>4 DEF RunsKnown, Exists, TypeOK, Run
<1>12. LeaseExclusive'
  <2>1. \A q \in runs' : q.task = t => q.engine # task[t].engine
    BY <1>2, <1>5 DEF RunsKnown, t
  <2>2. QED
    BY <1>1, <1>2, <1>3, <1>4, <2>1 DEF LeaseExclusive, Leased, TypeOK, Run
<1>13. RequestsRooted'
  BY <1>1, <1>2, <1>6, <1>7, RequestsFrame DEF TypeOK, Finalizer
<1>14. SettledHasNoLiveTask'
  BY <1>2, <1>3, <1>4, TasksOfParts DEF SettledHasNoLiveTask, TERMINAL_TASK_STATUSES
<1>15. CompletedScanIsSound'
  <2>1. ASSUME NEW s \in Scan, scan[s].status = "completed", NEW u \in TasksOf(s)
        PROVE  task'[u] = task[u]
    BY <1>3, <1>6, <2>1, TasksOfParts
  <2>2. QED
    BY <1>2, <2>1, ZenonT(40) DEF CompletedScanIsSound, Exists
<1>16. EffectsNeedEvidence'
  <2>1. ASSUME NEW s \in Scan, releases[s] # 0 \/ reconciles[s] # 0, NEW u \in TasksOf(s)
        PROVE  task'[u] = task[u]
    BY <1>3, <1>6, <2>1, TasksOfParts
  <2>2. QED
    BY <1>2, <2>1, EffectsFrame
<1>17. QED
  BY <1>2, <1>8, <1>9, <1>10, <1>11, <1>12, <1>13, <1>14, <1>15, <1>16, OpenRows

LEMMA ClaimInv ==
  ASSUME LifecycleInv, TypeOK', OneAttemptPerEngine = TRUE,
         NEW t \in Task, NEW e \in EngineId, Claim(t, e)
  PROVE  LifecycleInv'
<1> USE DEF LifecycleInv
<1> DEFINE q == [task |-> t, attempt |-> task[t].attempts + 1, engine |-> e,
                 phase |-> "leasing"]
<1>1. /\ UNCHANGED <<finalizers, cancelling, reconciles, releases>>
      /\ task[t].status = "queued" /\ runs' = runs \cup {q}
      /\ task' = [task EXCEPT ![t] = ClaimedRow(t, e)]
      /\ \A r \in runs : ~(r.task = t /\ r.engine = e)
  BY DEF Claim
<1>2. task[t] \in TaskRow /\ task[t].attempts \in Nat /\ t[1] \in Scan
  BY TaskParts DEF TypeOK, TaskRow
<1>3. \A u \in Task : u # t => task'[u] = task[u]
  BY <1>1 DEF TypeOK
<1>4. /\ task'[t].status = "leased" /\ task'[t].engine = e /\ ~task'[t].lapsed
      /\ task'[t].attempts = task[t].attempts + 1 /\ task'[t].key = task[t].key
  BY <1>1, <1>2 DEF TypeOK, TaskRow, ClaimedRow
<1>5. /\ task[t].key = 0 /\ Active(t[1])
      /\ task[t].status \notin {"none"} \cup TERMINAL_TASK_STATUSES
  BY <1>1, LiveTaskActive, StatusesDisjoint DEF KeysEndTasks
<1>6. q.task = t /\ q.attempt = task[t].attempts + 1 /\ q.engine = e /\ q.phase = "leasing"
  OBVIOUS
<1> HIDE DEF q
<1>7. ScanFrame
  <2>1. scan' = scan \/ \E v \in ACTIVE_SCAN_STATUSES :
                          scan' = [scan EXCEPT ![t[1]].status = v]
    BY DEF Claim, ACTIVE_SCAN_STATUSES
  <2>2. QED
    <3>1. CASE scan' = scan
      BY <3>1, ScanUnchangedFrame
    <3>2. ASSUME NEW v \in ACTIVE_SCAN_STATUSES, scan' = [scan EXCEPT ![t[1]].status = v]
          PROVE  ScanFrame
      BY <1>2, <1>5, <3>2, ActiveMoveFrame
    <3>3. QED
      BY <2>1, <3>1, <3>2
<1>8. OpenRowsFrame
  BY <1>1, <1>3, <1>4, <1>5 DEF OpenRowsFrame, Exists
<1>9. SettledTasksFrame
  BY <1>3, <1>5, StatusesDisjoint DEF SettledTasksFrame, Active
<1>10. FinalReadStillTrue'
  BY <1>1, <1>3, <1>5, <1>7, FinalReadFrame
<1>11. CancelledBySettlement'
  BY <1>3, <1>4, <1>7, ScanFrameFacts, TaskParts DEF CancelledBySettlement
<1>12. RunsKnown'
  <2>1. ASSUME NEW r \in runs' PROVE Exists(r.task)' /\ r.attempt \in 1..task'[r.task].attempts
    <3>1. CASE r = q
      BY <1>2, <1>4, <1>6, <3>1 DEF Exists
    <3>2. CASE r \in runs /\ r.task = t
      BY <1>2, <1>4, <3>2 DEF RunsKnown, Exists
    <3>3. CASE r \in runs /\ r.task # t
      BY <1>3, <3>3 DEF RunsKnown, Exists, TypeOK, Run
    <3>4. QED
      BY <1>1, <3>1, <3>2, <3>3
  <2>2. QED
    BY <1>1, <1>6, <2>1 DEF RunsKnown
<1>13. LeaseExclusive'
  <2> SUFFICES ASSUME NEW r \in runs'
               PROVE  /\ Leased(r.task)' /\ task'[r.task].engine = r.engine
                           => r.attempt = task'[r.task].attempts
                      /\ r.phase = "leasing" =>
                           /\ task'[r.task].status \in LEASED_STATUSES \cup {"cancelled"}
                           /\ task'[r.task].engine = r.engine
                           /\ task'[r.task].key = 0
                           /\ ~task'[r.task].lapsed
    BY DEF LeaseExclusive
  <2>1. CASE r = q
    BY <1>4, <1>5, <1>6, <2>1 DEF LEASED_STATUSES
  <2>2. CASE r \in runs /\ r.task = t
    <3>1. r.engine # e /\ r.phase # "leasing"
      BY <1>1, <2>2, StatusesDisjoint DEF LeaseExclusive
    <3>2. QED
      BY <1>4, <2>2, <3>1
  <2>3. CASE r \in runs /\ r.task # t
    BY <1>3, <2>3 DEF LeaseExclusive, Leased, TypeOK, Run
  <2>4. QED
    BY <1>1, <2>1, <2>2, <2>3
<1>14. RequestsRooted'
  BY <1>1, <1>7, RequestsFrame DEF TypeOK, Finalizer
<1>15. QED
  BY <1>1, <1>7, <1>8, <1>9, <1>10, <1>11, <1>12, <1>13, <1>14, OpenRows, SettledFrame,
     ScanFrameFacts

LEMMA LaunchInv ==
  ASSUME LifecycleInv, TypeOK', NEW s \in Scan, NEW mode \in ScanMode, Launch(s, mode)
  PROVE  LifecycleInv'
<1> USE DEF LifecycleInv
<1> DEFINE d == <<s, Disc>>
<1>1. /\ UNCHANGED <<runs, finalizers, cancelling, reconciles, releases>>
      /\ scan[s].status = "none"
      /\ task' = [task EXCEPT ![d] = QueuedRow]
  BY DEF Launch
<1>2. d \in Task /\ d[1] = s /\ d[2] = Disc
  BY DiscTask
<1> HIDE DEF d
<1>3. /\ \A o \in Scan : o # s => scan'[o] = scan[o]
      /\ scan'[s].status = "queued"
  BY DEF Launch, TypeOK, ScanRow
<1>4. /\ \A u \in Task : u # d => task'[u] = task[u]
      /\ task'[d] = QueuedRow
  BY <1>1, <1>2 DEF TypeOK
<1>5. \A u \in Task : u[1] = s => task[u] = NoRow
  BY <1>1 DEF RowsRooted
<1>6. /\ QueuedRow.status = "queued" /\ QueuedRow.key = 0
      /\ NoRow.status = "none" /\ NoRow.key = 0
  BY DEF QueuedRow, NoRow
<1>7. "queued" \in ACTIVE_SCAN_STATUSES /\ "queued" \notin SETTLED_SCAN_STATUSES
  BY DEF ACTIVE_SCAN_STATUSES, SETTLED_SCAN_STATUSES
<1>8. \A o \in Scan : o # s => \A u \in TasksOf(o) : task'[u] = task[u]
  BY <1>2, <1>4, TasksOfParts
<1>9. releases[s] = 0 /\ reconciles[s] = 0
  BY <1>1 DEF RequestsRooted
<1>10. RowsRooted'
  <2>1. ASSUME NEW t \in Task
        PROVE  /\ ~Exists(t)' => task'[t] = NoRow
               /\ Exists(t)' => scan'[t[1]].status # "none"
               /\ Exists(t)' /\ t[2] # Disc => task'[<<t[1], Disc>>].key # 0
    <3>1. t[1] \in Scan /\ <<t[1], Disc>> \in Task
      BY TaskParts, DiscTask
    <3>2. CASE t = d
      BY <1>2, <1>3, <1>4, <1>6, <3>2 DEF Exists
    <3>3. CASE t # d /\ t[1] = s
      BY <1>4, <1>5, <1>6, <3>3 DEF Exists
    <3>4. CASE t[1] # s
      <4>1. task'[t] = task[t] /\ task'[<<t[1], Disc>>] = task[<<t[1], Disc>>]
        BY <1>2, <1>4, <3>1, <3>4
      <4>2. QED
        BY <1>3, <3>1, <3>4, <4>1 DEF RowsRooted, Exists
    <3>5. QED
      BY <3>2, <3>3, <3>4
  <2>2. QED
    BY <2>1 DEF RowsRooted
<1>11. KeysEndTasks' /\ ReclaimedResultsRefused'
  BY <1>4, <1>6 DEF KeysEndTasks, ReclaimedResultsRefused
<1>12. CancelledBySettlement'
  BY <1>3, <1>4, <1>5, <1>6, TaskParts DEF CancelledBySettlement
<1>13. \A r \in runs : task'[r.task] = task[r.task] /\ r.task \in Task
  BY <1>2, <1>4, <1>5, <1>6 DEF RunsKnown, Exists, TypeOK, Run
<1>14. RunsKnown' /\ LeaseExclusive'
  BY <1>1, <1>13 DEF RunsKnown, LeaseExclusive, Exists, Leased
<1>15. RequestsRooted'
  BY <1>1, <1>3, <1>9, StatusesDisjoint DEF RequestsRooted, TypeOK, Finalizer
<1>16. SettledHasNoLiveTask'
  BY <1>3, <1>7, <1>8 DEF SettledHasNoLiveTask
<1>17. CompletedScanIsSound'
  BY <1>3, <1>8 DEF CompletedScanIsSound, Exists
<1>18. EffectsNeedEvidence'
  BY <1>1, <1>3, <1>8, <1>9, EffectsFrame
<1>19. FinalReadStillTrue'
  <2> SUFFICES ASSUME NEW f \in finalizers', f.final # "unread", Active(f.scan)'
               PROVE  /\ \A t \in TasksOf(f.scan) :
                           task'[t].status \in {"none"} \cup TERMINAL_TASK_STATUSES
                      /\ f.final = FinalStatus(f.scan)'
    BY DEF FinalReadStillTrue
  <2>1. f \in finalizers /\ f.scan \in Scan /\ f.scan # s
    BY <1>1 DEF TypeOK, Finalizer, RequestsRooted
  <2>2. Active(f.scan) /\ \A u \in TasksOf(f.scan) : task'[u] = task[u]
    BY <1>3, <1>8, <2>1 DEF Active
  <2>3. QED
    BY <2>1, <2>2, FinalStatusFrame DEF FinalReadStillTrue
<1>20. QED
  BY <1>10, <1>11, <1>12, <1>14, <1>15, <1>16, <1>17, <1>18, <1>19

LEMMA CancelInv ==
  ASSUME LifecycleInv, TypeOK', NEW s \in Scan, Cancel(s)
  PROVE  LifecycleInv'
<1> USE DEF LifecycleInv
<1> DEFINE status == IF Active(s) THEN "cancelled" ELSE scan[s].status
           stopped == Unfinished(s)
<1>1. /\ UNCHANGED <<runs, finalizers, reconciles, releases>>
      /\ s \in cancelling /\ cancelling' = cancelling \ {s}
      /\ scan[s].status # "none"
  BY DEF Cancel, RequestsRooted
<1>2. \A t \in Task : t \notin stopped => task'[t] = task[t]
  BY DEF Cancel
<1>3. ASSUME NEW t \in stopped
      PROVE  /\ t \in Task /\ t[1] = s /\ Exists(t)
             /\ task[t].status \notin {"none"} \cup TERMINAL_TASK_STATUSES
             /\ task'[t].status = "cancelled" /\ ~task'[t].lapsed
             /\ task'[t].engine = task[t].engine
             /\ task'[t].attempts = task[t].attempts /\ task'[t].key = task[t].key
  <2>1. t \in Task /\ t[1] = s /\ Exists(t) /\ task[t].status \notin TERMINAL_TASK_STATUSES
    BY TasksOfParts DEF Unfinished
  <2>2. /\ task[t] \in TaskRow
        /\ task'[t] = [task[t] EXCEPT !.status = "cancelled", !.lapsed = FALSE,
                                      !.coverage = "gaps"]
    BY <2>1 DEF Cancel, TypeOK
  <2>3. QED
    BY <2>1, <2>2 DEF TaskRow, Exists
<1>4. \A t \in stopped : task[t].key = 0 /\ Active(s)
  BY <1>3, LiveTaskActive DEF KeysEndTasks, TERMINAL_TASK_STATUSES
<1>5. /\ \A o \in Scan : o # s => scan'[o] = scan[o]
      /\ scan'[s].status = status /\ scan'[s].mode = scan[s].mode
      /\ scan'[s].manifest = ManifestState(status, RowsOf(s, task'))
  BY DEF Cancel, TypeOK, ScanRow
<1>6. /\ scan'[s].status \in SETTLED_SCAN_STATUSES
      /\ scan[s].status \in SETTLED_SCAN_STATUSES => scan'[s].status = scan[s].status
      /\ scan'[s].status # "none" /\ ~Active(s)'
      /\ scan[s].status # "completed" => scan'[s].status # "completed"
  BY <1>1, <1>5, StatusesDisjoint
  DEF TypeOK, ScanRow, Active, SETTLED_SCAN_STATUSES
<1>7. \A t \in Task : scan[t[1]].status \in SETTLED_SCAN_STATUSES => task'[t] = task[t]
  BY <1>2, <1>3, <1>4, StatusesDisjoint DEF Active
<1>8. \A o \in Scan : o # s \/ scan[o].status \in SETTLED_SCAN_STATUSES =>
                        \A u \in TasksOf(o) : task'[u] = task[u]
  BY <1>2, <1>3, <1>7, TasksOfParts
<1>9. \A u \in TasksOf(s) : task'[u].status \in {"none"} \cup TERMINAL_TASK_STATUSES
  BY <1>2, <1>3, TasksOfParts DEF Unfinished, Exists, TERMINAL_TASK_STATUSES
<1> HIDE DEF stopped
<1>10. OpenRowsFrame
  BY <1>2, <1>3, <1>4 DEF OpenRowsFrame
<1>11. RowsRooted' /\ KeysEndTasks' /\ ReclaimedResultsRefused'
  BY <1>5, <1>6, <1>10, OpenRows
<1>12. CancelledBySettlement'
  BY <1>2, <1>3, <1>5, <1>6, TaskParts DEF CancelledBySettlement
<1>13. RunsKnown'
  BY <1>1, <1>2, <1>3 DEF RunsKnown, Exists, TypeOK, Run
<1>14. LeaseExclusive'
  BY <1>1, <1>2, <1>3, <1>4, StatusesDisjoint
  DEF LeaseExclusive, Leased, TypeOK, Run, LEASED_STATUSES
<1>15. RequestsRooted'
  BY <1>1, <1>5, <1>6, StatusesDisjoint DEF RequestsRooted, TypeOK, Finalizer
<1>16. SettledHasNoLiveTask'
  BY <1>5, <1>8, <1>9 DEF SettledHasNoLiveTask
<1>17. CompletedScanIsSound'
  <2>1. ASSUME NEW o \in Scan, scan'[o].status = "completed"
        PROVE  /\ \A t \in TasksOf(o) : Exists(t)' =>
                    task'[t].status = "completed" /\ task'[t].key # 0
               /\ scan'[o].manifest = "complete" =>
                    \A t \in TasksOf(o) : Exists(t)' => task'[t].coverage = "complete"
    <3>1. scan[o].status = "completed" /\ scan[o].status \in SETTLED_SCAN_STATUSES
      BY <1>5, <1>6, <2>1 DEF SETTLED_SCAN_STATUSES
    <3>2. \A t \in TasksOf(o) : task'[t] = task[t]
      BY <1>8, <3>1
    <3>3. \A t \in TasksOf(o) : Exists(t)' =>
            task'[t].status = "completed" /\ task'[t].key # 0
      BY <3>1, <3>2 DEF CompletedScanIsSound, Exists
    <3>4. CASE o # s
      BY <1>5, <3>1, <3>2, <3>3, <3>4 DEF CompletedScanIsSound, Exists
    <3>5. CASE o = s
      <4>1. ASSUME scan'[o].manifest = "complete", NEW t \in TasksOf(o), Exists(t)'
            PROVE  task'[t].coverage = "complete"
        <5>1. status = "completed" /\ ManifestState(status, RowsOf(s, task')) = "complete"
          BY <1>5, <2>1, <3>5, <4>1
        <5>2. \A r \in RowsOf(s, task') : r.coverage = "complete"
          BY <5>1 DEF ManifestState
        <5>3. QED
          BY <3>5, <4>1, <5>2 DEF RowsOf, Exists
      <4>2. QED
        BY <3>3, <4>1
    <3>6. QED
      BY <3>4, <3>5
  <2>2. QED
    BY <2>1 DEF CompletedScanIsSound
<1>18. EffectsNeedEvidence'
  <2>1. ASSUME NEW o \in Scan, releases[o] # 0 \/ reconciles[o] # 0
        PROVE  /\ scan'[o].mode = scan[o].mode /\ scan'[o].status = scan[o].status
               /\ \A u \in TasksOf(o) : task'[u] = task[u]
    <3>1. scan[o].status \in SETTLED_SCAN_STATUSES
      BY <2>1 DEF EffectsNeedEvidence, SETTLED_SCAN_STATUSES
    <3>2. QED
      BY <1>5, <1>6, <1>8, <3>1
  <2>2. QED
    BY <1>1, <2>1, EffectsFrame
<1>19. FinalReadStillTrue'
  <2> SUFFICES ASSUME NEW f \in finalizers', f.final # "unread", Active(f.scan)'
               PROVE  /\ \A t \in TasksOf(f.scan) :
                           task'[t].status \in {"none"} \cup TERMINAL_TASK_STATUSES
                      /\ f.final = FinalStatus(f.scan)'
    BY DEF FinalReadStillTrue
  <2>1. f \in finalizers /\ f.scan \in Scan /\ f.scan # s
    BY <1>1, <1>6 DEF TypeOK, Finalizer
  <2>2. Active(f.scan) /\ \A u \in TasksOf(f.scan) : task'[u] = task[u]
    BY <1>5, <1>8, <2>1 DEF Active
  <2>3. QED
    BY <2>1, <2>2, FinalStatusFrame DEF FinalReadStillTrue
<1>20. QED
  BY <1>11, <1>12, <1>13, <1>14, <1>15, <1>16, <1>17, <1>18, <1>19

LEMMA SubmitResultsInv ==
  ASSUME LifecycleInv, TypeOK', NEW r \in runs, NEW report \in Reports,
         NEW specs \in SUBSET FetchSpec, SubmitResults(r, report, specs)
  PROVE  LifecycleInv'
<1> USE DEF LifecycleInv
<1> DEFINE t == r.task
           created == FanOut(r.task, specs)
           done == [r EXCEPT !.phase = "submitted"]
<1>1. /\ UNCHANGED <<cancelling, reconciles, releases>>
      /\ runs' = (runs \ {r}) \cup {done}
      /\ finalizers' = finalizers \cup {[scan |-> t[1], final |-> "unread"]}
      /\ r.phase = "running" /\ task[t].engine = r.engine /\ Leased(t) /\ task[t].key = 0
  BY DEF SubmitResults, StartFinalize, ClaimsResult
<1>2. /\ r \in Run /\ t \in Task /\ t[1] \in Scan /\ task[t] \in TaskRow
      /\ done.task = t /\ done.attempt = r.attempt /\ done.engine = r.engine
      /\ done.phase = "submitted"
      /\ t \in TasksOf(t[1]) /\ <<t[1], Disc>> \in Task /\ t = <<t[1], t[2]>>
  BY TaskParts, DiscTask DEF TypeOK, Run
<1>3. /\ created \subseteq Task
      /\ \A u \in created : u[1] = t[1] /\ u[2] # Disc /\ t[2] = Disc
  BY <1>2, FanOutType
<1>4. \A u \in Task : task'[u] = IF u = t THEN ResultRow(r, report)
                                 ELSE IF u \in created THEN QueuedRow ELSE task[u]
  BY DEF SubmitResults
<1>5. scan' = scan \/ scan' = [scan EXCEPT ![t[1]].status = "running"]
  BY DEF SubmitResults
<1>6. r.attempt = task[t].attempts /\ r.attempt # 0
  BY <1>1, <1>2 DEF LeaseExclusive, RunsKnown, Run, TaskRow
<1>7. /\ task[t].status \notin {"none"} \cup TERMINAL_TASK_STATUSES
      /\ Active(t[1]) /\ Exists(t)
  BY <1>1, <1>2, LiveTaskActive, StatusesDisjoint DEF Leased, Exists
<1>8. /\ task'[t].status \in {"completed", "failed"} /\ task'[t].key = r.attempt
      /\ task'[t].attempts = task[t].attempts /\ task'[t].engine = task[t].engine
  <2>1. task'[t] = ResultRow(r, report)
    BY <1>2, <1>4
  <2>2. QED
    BY <1>2, <2>1, OutcomeType DEF ResultRow, TaskRow
<1>9. \A u \in created : /\ u \in Task /\ u # t /\ task'[u] = QueuedRow
                         /\ task[u] = NoRow
  <2>1. ASSUME NEW u \in created PROVE u \in Task /\ u # t /\ task'[u] = QueuedRow
    BY <1>3, <1>4
  <2>2. ASSUME NEW u \in created PROVE task[u] = NoRow
    <3>1. u \in Task /\ u[1] = t[1] /\ u[2] # Disc /\ t[2] = Disc
      BY <1>3
    <3>2. task[<<u[1], Disc>>].key = 0
      BY <1>1, <1>2, <3>1
    <3>3. QED
      BY <3>1, <3>2 DEF RowsRooted
  <2>3. QED
    BY <2>1, <2>2
<1>10. /\ QueuedRow.status = "queued" /\ QueuedRow.key = 0
       /\ NoRow.status = "none" /\ NoRow.key = 0
  BY DEF QueuedRow, NoRow
<1>11. \A u \in Task : u # t /\ u \notin created => task'[u] = task[u]
  BY <1>4
<1> HIDE DEF t, created, done
<1>12. ScanFrame
  <2>1. CASE scan' = scan
    BY <2>1, ScanUnchangedFrame
  <2>2. CASE scan' = [scan EXCEPT ![t[1]].status = "running"]
    BY <1>2, <1>7, <2>2, ActiveMoveFrame DEF ACTIVE_SCAN_STATUSES
  <2>3. QED
    BY <1>5, <2>1, <2>2
<1>13. SettledTasksFrame
  BY <1>3, <1>7, <1>11, StatusesDisjoint DEF SettledTasksFrame, Active
<1>14. FinalReadStillTrue'
  <2>1. finalizers' \subseteq finalizers \cup {[scan |-> s, final |-> "unread"] : s \in Scan}
    BY <1>1, <1>2
  <2>2. ASSUME NEW u \in Task, task'[u] # task[u]
        PROVE  \E w \in TasksOf(u[1]) :
                 task[w].status \notin {"none"} \cup TERMINAL_TASK_STATUSES
    <3>1. u[1] = t[1]
      BY <1>3, <1>11, <2>2
    <3>2. QED
      BY <1>2, <1>7, <3>1
  <2>3. QED
    BY <1>12, <2>1, <2>2, FinalReadFrame
<1>15. RowsRooted'
  <2>1. ASSUME NEW u \in Task
        PROVE  /\ ~Exists(u)' => task'[u] = NoRow
               /\ Exists(u)' => scan'[u[1]].status # "none"
               /\ Exists(u)' /\ u[2] # Disc => task'[<<u[1], Disc>>].key # 0
    <3>1. u[1] \in Scan /\ <<u[1], Disc>> \in Task
      BY TaskParts, DiscTask
    <3>2. \A w \in Task : task[w].key # 0 => task'[w].key # 0
      BY <1>1, <1>9, <1>10, <1>11
    <3>3. scan[u[1]].status # "none" => scan'[u[1]].status # "none"
      BY <1>12, <3>1, ScanFrameFacts
    <3>4. CASE u = t
      BY <1>7, <1>8, <3>1, <3>2, <3>3, <3>4 DEF RowsRooted, Exists
    <3>5. CASE u \in created
      <4>1. u[1] = t[1] /\ <<u[1], Disc>> = t /\ task'[u].status = "queued"
        BY <1>2, <1>3, <1>9, <1>10, <3>5
      <4>2. QED
        BY <1>6, <1>7, <1>8, <3>3, <4>1, <1>2 DEF RowsRooted, Exists
    <3>6. CASE u # t /\ u \notin created
      BY <1>11, <3>1, <3>2, <3>3, <3>6 DEF RowsRooted, Exists
    <3>7. QED
      BY <3>4, <3>5, <3>6
  <2>2. QED
    BY <2>1 DEF RowsRooted
<1>16. KeysEndTasks'
  BY <1>6, <1>8, <1>9, <1>10, <1>11 DEF KeysEndTasks
<1>17. ReclaimedResultsRefused'
  BY <1>6, <1>8, <1>9, <1>10, <1>11 DEF ReclaimedResultsRefused
<1>18. CancelledBySettlement'
  BY <1>8, <1>9, <1>10, <1>11, <1>12, ScanFrameFacts, TaskParts DEF CancelledBySettlement
<1>19. \A q \in runs : q.task \in Task /\ q.task \notin created
  BY <1>9, <1>10 DEF RunsKnown, Exists, TypeOK, Run
<1>20. RunsKnown'
  <2>1. \A q \in runs : /\ Exists(q.task)'
                        /\ task'[q.task].attempts = task[q.task].attempts
    BY <1>8, <1>11, <1>19 DEF RunsKnown, Exists
  <2>2. \A q \in runs' : (q \in runs /\ q # r) \/ q = done
    BY <1>1
  <2>3. QED
    BY <1>2, <2>1, <2>2 DEF RunsKnown, t
<1>21. LeaseExclusive'
  <2>1. ASSUME NEW q \in runs, q # r
        PROVE  task'[q.task] = task[q.task] \/ (q.task = t /\ q.engine # task[t].engine)
    BY <1>1, <1>11, <1>19, <2>1 DEF RunsKnown, t
  <2>2. \A q \in runs' : (q \in runs /\ q # r) \/ q = done
    BY <1>1
  <2>3. ~Leased(t)'
    BY <1>8, StatusesDisjoint DEF Leased, LEASED_STATUSES
  <2>4. ASSUME NEW q \in runs, q # r, q.task = t
        PROVE  q.phase # "leasing"
    BY <1>1, <2>4 DEF LeaseExclusive, RunsKnown, t
  <2>5. QED
    BY <1>2, <2>1, <2>2, <2>3, <2>4 DEF LeaseExclusive, Leased
<1>22. RequestsRooted'
  BY <1>1, <1>2, <1>7, <1>12, RequestsFrame, StatusesDisjoint
  DEF TypeOK, Finalizer, Active
<1>23. QED
  BY <1>1, <1>12, <1>13, <1>14, <1>15, <1>16, <1>17, <1>18, <1>20, <1>21, <1>22, SettledFrame

LEMMA FinalizeCommitInv ==
  ASSUME LifecycleInv, TypeOK', NEW f \in finalizers, FinalizeCommit(f)
  PROVE  LifecycleInv'
<1> USE DEF LifecycleInv
<1> DEFINE s == f.scan
           manifest == ManifestState(f.final, RowsOf(f.scan, task))
           licensed == f.final = "completed" /\ manifest = "complete"
           resolves == licensed /\ scan[f.scan].mode = "full" /\ SawAnyContent(f.scan)
<1>1. /\ UNCHANGED <<task, runs, cancelling>> /\ finalizers' \subseteq finalizers
      /\ f.final # "unread" /\ s \in Scan /\ f.final \in SETTLED_SCAN_STATUSES
  BY DEF FinalizeCommit, TypeOK, Finalizer
<1>2. CASE ~Active(s)
  <2>1. UNCHANGED <<scan, reconciles, releases>>
    BY <1>2 DEF FinalizeCommit, MaySettle
  <2>2. QED
    BY <1>1, <2>1, QuietFinalRead, QuietStep DEF RequestsRooted
<1>3. CASE Active(s)
  <2>1. /\ scan' = [scan EXCEPT ![s].status = f.final, ![s].manifest = manifest]
        /\ reconciles' = [reconciles EXCEPT ![s] = IF resolves THEN @ + 1 ELSE @]
        /\ releases' = [releases EXCEPT ![s] = IF licensed THEN @ + 1 ELSE @]
    BY <1>3 DEF FinalizeCommit, MaySettle
  <2>2. reconciles[s] = 0 /\ releases[s] = 0
    BY <1>1, <1>3 DEF RequestsRooted, Active
  <2>3. /\ \A o \in Scan : o # s => /\ scan'[o] = scan[o] /\ reconciles'[o] = reconciles[o]
                                    /\ releases'[o] = releases[o]
        /\ scan'[s].status = f.final /\ scan'[s].mode = scan[s].mode
        /\ scan'[s].manifest = manifest
        /\ reconciles'[s] = IF resolves THEN 1 ELSE 0
        /\ releases'[s] = IF licensed THEN 1 ELSE 0
    BY <1>1, <2>1, <2>2 DEF TypeOK, ScanRow
  <2>4. /\ \A t \in TasksOf(s) : task[t].status \in {"none"} \cup TERMINAL_TASK_STATUSES
        /\ f.final = FinalStatus(s)
    BY <1>1, <1>3 DEF FinalReadStillTrue
  <2>5. f.final = "completed" =>
          \A t \in TasksOf(s) : Exists(t) => task[t].status = "completed"
    BY <2>4 DEF FinalStatus
  <2>6. f.final = "completed" /\ manifest = "complete" =>
          \A t \in TasksOf(s) : Exists(t) => task[t].coverage = "complete"
    BY DEF ManifestState, RowsOf, Exists
  <2>7. resolves => \E p \in FetchSpec : Exists(<<s, p>>)
    BY DEF SawAnyContent
  <2>8. /\ resolves => licensed /\ scan[s].mode = "full"
        /\ licensed => f.final = "completed" /\ manifest = "complete"
    OBVIOUS
  <2> HIDE DEF s, manifest, licensed, resolves
  <2>9. RowsRooted' /\ KeysEndTasks' /\ CancelledBySettlement' /\ ReclaimedResultsRefused'
    <3>1. \A o \in Scan : scan[o].status # "none" => scan'[o].status # "none"
      BY <1>1, <2>3, StatusesDisjoint
    <3>2. \A o \in Scan : scan[o].status \in SETTLED_SCAN_STATUSES
                            => scan'[o].status \in SETTLED_SCAN_STATUSES
      BY <1>1, <2>3
    <3>3. QED
      BY <1>1, <3>1, <3>2, TaskParts
      DEF RowsRooted, KeysEndTasks, CancelledBySettlement, ReclaimedResultsRefused, Exists
  <2>10. RunsKnown' /\ LeaseExclusive'
    BY <1>1 DEF RunsKnown, LeaseExclusive, Exists, Leased
  <2>11. RequestsRooted'
    BY <1>1, <2>3, StatusesDisjoint DEF RequestsRooted, TypeOK, Finalizer
  <2>12. SettledHasNoLiveTask'
    BY <1>1, <2>3, <2>4 DEF SettledHasNoLiveTask
  <2>13. CompletedScanIsSound'
    <3>1. f.final = "completed" =>
            \A t \in TasksOf(s) : Exists(t) => task[t].key # 0
      BY <1>1, <2>5, TasksOfParts DEF KeysEndTasks
    <3>2. QED
      BY <1>1, <2>3, <2>5, <2>6, <3>1 DEF CompletedScanIsSound, Exists
  <2>14. EffectsNeedEvidence'
    <3>1. resolves => \E p \in FetchSpec : task[<<s, p>>].status = "completed"
      <4>1. SUFFICES ASSUME resolves
                     PROVE  \E p \in FetchSpec : task[<<s, p>>].status = "completed"
        OBVIOUS
      <4>2. PICK p \in FetchSpec : Exists(<<s, p>>)
        BY <2>7, <4>1
      <4>3. <<s, p>> \in TasksOf(s)
        BY DEF TasksOf, Kind
      <4>4. QED
        BY <2>5, <2>8, <4>1, <4>2, <4>3
    <3>2. ASSUME NEW o \in Scan, o # s
          PROVE  /\ reconciles'[o] # 0 =>
                      /\ reconciles'[o] = 1 /\ releases'[o] = 1 /\ scan'[o].mode = "full"
                      /\ \E p \in FetchSpec : task'[<<o, p>>].status = "completed"
                 /\ releases'[o] # 0 =>
                      /\ releases'[o] = 1 /\ scan'[o].status = "completed"
                      /\ \A t \in TasksOf(o) : Exists(t)' =>
                           task'[t].status = "completed" /\ task'[t].coverage = "complete"
      BY <1>1, <2>3, <3>2, SMTT(40) DEF EffectsNeedEvidence, Exists
    <3>3. /\ reconciles'[s] # 0 =>
               /\ reconciles'[s] = 1 /\ releases'[s] = 1 /\ scan'[s].mode = "full"
               /\ \E p \in FetchSpec : task'[<<s, p>>].status = "completed"
          /\ releases'[s] # 0 =>
               /\ releases'[s] = 1 /\ scan'[s].status = "completed"
               /\ \A t \in TasksOf(s) : Exists(t)' =>
                    task'[t].status = "completed" /\ task'[t].coverage = "complete"
      BY <1>1, <2>3, <2>5, <2>6, <2>8, <3>1 DEF Exists
    <3>4. QED
      BY <3>2, <3>3, SMTT(30) DEF EffectsNeedEvidence
  <2>15. FinalReadStillTrue'
    <3> SUFFICES ASSUME NEW g \in finalizers', g.final # "unread", Active(g.scan)'
                 PROVE  /\ \A t \in TasksOf(g.scan) :
                             task'[t].status \in {"none"} \cup TERMINAL_TASK_STATUSES
                        /\ g.final = FinalStatus(g.scan)'
      BY DEF FinalReadStillTrue
    <3>1. g \in finalizers /\ g.scan \in Scan /\ g.scan # s
      BY <1>1, <2>3, StatusesDisjoint DEF TypeOK, Finalizer, Active
    <3>2. Active(g.scan) /\ FinalStatus(g.scan)' = FinalStatus(g.scan)
      BY <1>1, <2>3, <3>1, FinalStatusFrame DEF Active
    <3>3. QED
      BY <1>1, <3>1, <3>2 DEF FinalReadStillTrue
  <2>16. QED
    BY <2>9, <2>10, <2>11, <2>12, <2>13, <2>14, <2>15
<1>4. QED
  BY <1>2, <1>3

LEMMA LifecycleNext ==
  ASSUME OneAttemptPerEngine = TRUE
  PROVE  LifecycleInv /\ [Next]_vars => LifecycleInv'
<1> SUFFICES ASSUME LifecycleInv, [Next]_vars PROVE LifecycleInv'
  OBVIOUS
<1>1. TypeOK'
  BY TypeNext DEF LifecycleInv
<1>2. CASE \E r \in runs : RunStep(r)
  BY <1>1, <1>2, QuietActions, LeaseGrantedInv, LeaseFailsInv, HeartbeatInv, SubmitResultsInv
  DEF RunStep
<1>3. CASE \E f \in finalizers : FinalizeRead(f) \/ FinalizeCommit(f) \/ FinalizeDies(f)
  BY <1>1, <1>3, QuietActions, FinalizeReadInv, FinalizeCommitInv
<1>4. CASE UNCHANGED vars
  BY <1>1, <1>4, QuietStep, QuietFinalRead DEF vars, LifecycleInv, RequestsRooted
<1>5. QED
  BY <1>1, <1>2, <1>3, <1>4, QuietActions, LaunchInv, CancelInv, ClaimInv, LeaseLapsesInv,
     ReclaimInv DEF Next

\* The rows, runs and requests of ScanLifecycle agree along every behaviour in
\* which an engine identity never runs one task twice at once.
THEOREM LifecycleSafe ==
  ASSUME OneAttemptPerEngine = TRUE
  PROVE  Spec => []LifecycleInv
<1>1. QED
  BY LifecycleInit, LifecycleNext, PTL DEF Spec

\* finalize_scan_if_done's unlocked read is still true when its UPDATE settles
\* the scan, whatever was leased, reclaimed or cancelled in between.
THEOREM FinalReadSafe ==
  ASSUME OneAttemptPerEngine = TRUE
  PROVE  Spec => []FinalReadStillTrue
<1>1. LifecycleInv => FinalReadStillTrue
  BY DEF LifecycleInv
<1>2. QED
  BY <1>1, LifecycleSafe, PTL

\* No task of a settled scan can be leased or worked on again.
THEOREM SettledSafe ==
  ASSUME OneAttemptPerEngine = TRUE
  PROVE  Spec => []SettledHasNoLiveTask
<1>1. LifecycleInv => SettledHasNoLiveTask
  BY DEF LifecycleInv
<1>2. QED
  BY <1>1, LifecycleSafe, PTL

\* A completed scan is backed by recorded results of every one of its tasks.
THEOREM CompletedSafe ==
  ASSUME OneAttemptPerEngine = TRUE
  PROVE  Spec => []CompletedScanIsSound
<1>1. LifecycleInv => CompletedScanIsSound
  BY DEF LifecycleInv
<1>2. QED
  BY <1>1, LifecycleSafe, PTL

\* finalize_and_reconcile resolves findings and releases cursors and
\* announcements at most once per scan, and only on complete coverage.
THEOREM EffectsSafe ==
  ASSUME OneAttemptPerEngine = TRUE
  PROVE  Spec => []EffectsNeedEvidence
<1>1. LifecycleInv => EffectsNeedEvidence
  BY DEF LifecycleInv
<1>2. QED
  BY <1>1, LifecycleSafe, PTL

\* claim_result records the results of the last leased attempt and no other.
THEOREM ResultsSafe ==
  ASSUME OneAttemptPerEngine = TRUE
  PROVE  Spec => []ReclaimedResultsRefused
<1>1. LifecycleInv => ReclaimedResultsRefused
  BY DEF LifecycleInv
<1>2. QED
  BY <1>1, LifecycleSafe, PTL

-----------------------------------------------------------------------------
(* Recorded results stand. *)

LEMMA ResultsStep ==
  LifecycleInv /\ [Next]_vars => \A t \in Task : task[t].key # 0 => task'[t] = task[t]
<1> SUFFICES ASSUME LifecycleInv, [Next]_vars, NEW t \in Task, task[t].key # 0
             PROVE  task'[t] = task[t]
  OBVIOUS
<1> USE DEF LifecycleInv
<1>1. task[t].status \in {"completed", "failed"} /\ task \in [Task -> TaskRow]
  BY DEF KeysEndTasks, TypeOK
<1>2. /\ ~Leased(t) /\ Exists(t) /\ task[t].status \in TERMINAL_TASK_STATUSES
      /\ task[t].status # "queued"
  BY <1>1 DEF Leased, Exists, LEASED_STATUSES, TERMINAL_TASK_STATUSES
<1>3. ASSUME NEW s \in Scan, NEW mode \in ScanMode, Launch(s, mode) PROVE task'[t] = task[t]
  <2>1. t # <<s, Disc>>
    BY <1>2, <1>3, TaskParts DEF Launch, RowsRooted
  <2>2. QED
    BY <1>1, <1>3, <2>1, DiscTask DEF Launch
<1>4. ASSUME NEW s \in Scan, Cancel(s) PROVE task'[t] = task[t]
  BY <1>2, <1>4 DEF Cancel, Unfinished
<1>5. ASSUME NEW u \in Task, NEW e \in EngineId, Claim(u, e) PROVE task'[t] = task[t]
  BY <1>1, <1>2, <1>5 DEF Claim
<1>6. ASSUME NEW u \in Task, LeaseLapses(u) PROVE task'[t] = task[t]
  BY <1>1, <1>2, <1>6 DEF LeaseLapses
<1>7. ASSUME NEW r \in runs, LeaseFails(r) \/ Heartbeat(r) PROVE task'[t] = task[t]
  <2>1. t # r.task
    BY <1>2, <1>7 DEF LeaseFails, Heartbeat, LeaseExclusive
  <2>2. QED
    BY <1>1, <1>7, <2>1 DEF LeaseFails, Heartbeat, TypeOK, Run
<1>8. ASSUME NEW r \in runs, NEW report \in Reports, NEW specs \in SUBSET FetchSpec,
             SubmitResults(r, report, specs)
      PROVE  task'[t] = task[t]
  <2>1. r.task \in Task /\ task[r.task].key = 0
    BY <1>8 DEF SubmitResults, ClaimsResult, TypeOK, Run
  <2>2. t # r.task
    BY <2>1
  <2>3. t \notin FanOut(r.task, specs)
    <3>1. SUFFICES ASSUME t \in FanOut(r.task, specs) PROVE FALSE
      OBVIOUS
    <3>2. t[1] = r.task[1] /\ t[2] # Disc /\ r.task[2] = Disc
      BY <2>1, <3>1, FanOutType
    <3>3. r.task = <<t[1], Disc>>
      BY <2>1, <3>2, TaskParts
    <3>4. QED
      BY <1>2, <2>1, <3>2, <3>3 DEF RowsRooted
  <2>4. QED
    BY <1>8, <2>2, <2>3 DEF SubmitResults
<1>9. CASE Reclaim
  BY <1>2, <1>9 DEF Reclaim
<1>10. ASSUME NEW r \in runs, RunStep(r) PROVE task'[t] = task[t]
  BY <1>7, <1>8, <1>10
  DEF RunStep, LeaseGranted, ObserveCancel, RunDies, SubmitRefused, SubmitReplayed,
      SubmitAnswered
<1>11. ASSUME NEW f \in finalizers, FinalizeRead(f) \/ FinalizeCommit(f) \/ FinalizeDies(f)
       PROVE  task'[t] = task[t]
  BY <1>11 DEF FinalizeRead, FinalizeCommit, FinalizeDies
<1>12. CASE UNCHANGED vars
  BY <1>12 DEF vars
<1>13. QED
  BY <1>3, <1>4, <1>5, <1>6, <1>9, <1>10, <1>11, <1>12
  DEF Next, CancelRequest, SweepStalled, DropMessage, Redispatch

\* No retry, reclaim, late attempt, cancellation or failing lease alters a task
\* row whose results have been recorded.
THEOREM ResultsStandForever ==
  ASSUME OneAttemptPerEngine = TRUE
  PROVE  Spec => ResultsStand
<1>1. LifecycleInv /\ [Next]_vars
        => [\A t \in Task : task[t].key # 0 => task'[t] = task[t]]_vars
  BY ResultsStep
<1>2. QED
  BY <1>1, LifecycleSafe, PTL DEF Spec, ResultsStand

-----------------------------------------------------------------------------
(* The contract. *)

\* The abstract state of each scan.
AbstractState == [s \in Scan |-> IF Active(s) THEN "active" ELSE scan[s].status]

LEMMA ContractInitStep == Init => Contract!ContractInit
BY StatusesDisjoint DEF Init, Contract!ContractInit, Active

\* A step that only moves scans between active statuses is a stutter.
LEMMA ContractStutter ==
  ASSUME TypeOK, ScanFrame, UNCHANGED reconciles
  PROVE  UNCHANGED Contract!contractVars
<1>1. \A s \in Scan : (IF Active(s) THEN "active" ELSE scan[s].status)'
                        = IF Active(s) THEN "active" ELSE scan[s].status
  BY ScanFrameFacts DEF ScanFrame
<1>2. QED
  BY <1>1 DEF Contract!contractVars

\* A step that moves one scan maps to the abstract EXCEPT.
LEMMA ContractMove ==
  ASSUME NEW s \in Scan, NEW v, \A o \in Scan : o # s => scan'[o] = scan[o],
         (IF Active(s) THEN "active" ELSE scan[s].status)' = v
  PROVE  AbstractState' = [AbstractState EXCEPT ![s] = v]
<1>1. \A o \in Scan : o # s => (IF Active(o) THEN "active" ELSE scan[o].status)'
                                 = IF Active(o) THEN "active" ELSE scan[o].status
  BY DEF Active
<1>2. QED
  BY <1>1 DEF AbstractState

LEMMA ContractStep ==
  LifecycleInv /\ [Next]_vars => [Contract!ContractNext]_(Contract!contractVars)
<1> SUFFICES ASSUME LifecycleInv, [Next]_vars
             PROVE  Contract!ContractNext \/ UNCHANGED Contract!contractVars
  OBVIOUS
<1> USE DEF LifecycleInv
<1>1. ASSUME NEW s \in Scan, NEW mode \in ScanMode, Launch(s, mode)
      PROVE  Contract!ContractNext
  <2>1. /\ \A o \in Scan : o # s => scan'[o] = scan[o]
        /\ scan'[s].status = "queued" /\ scan[s].status = "none"
    BY <1>1 DEF Launch, TypeOK, ScanRow
  <2>2. AbstractState' = [AbstractState EXCEPT ![s] = "active"]
    BY <2>1, ContractMove DEF Active, ACTIVE_SCAN_STATUSES
  <2>3. AbstractState[s] = "none"
    BY <2>1, StatusesDisjoint DEF AbstractState, Active
  <2>4. \A o \in Scan : SourceOf[o] = SourceOf[s] => AbstractState[o] # "active"
    BY <1>1 DEF Launch, SourceFree, AbstractState, TypeOK, ScanRow,
                ACTIVE_SCAN_STATUSES, SETTLED_SCAN_STATUSES
  <2>5. Contract!Begin(s)
    BY <1>1, <2>2, <2>3, <2>4 DEF Launch, Contract!Begin, AbstractState
  <2>6. QED
    BY <2>5 DEF Contract!ContractNext
<1>2. ASSUME NEW s \in Scan, Cancel(s)
      PROVE  Contract!ContractNext \/ UNCHANGED Contract!contractVars
  <2>1. /\ \A o \in Scan : o # s => scan'[o] = scan[o]
        /\ scan'[s].status = IF Active(s) THEN "cancelled" ELSE scan[s].status
        /\ UNCHANGED reconciles
    BY <1>2 DEF Cancel, TypeOK, ScanRow
  <2>2. CASE Active(s)
    <3>1. AbstractState' = [AbstractState EXCEPT ![s] = "cancelled"]
      BY <2>1, <2>2, ContractMove DEF Active, ACTIVE_SCAN_STATUSES
    <3>2. AbstractState[s] = "active"
      BY <2>2 DEF AbstractState
    <3>3. Contract!Settle(s, "cancelled")
      BY <2>1, <3>1, <3>2 DEF Contract!Settle, AbstractState
    <3>4. QED
      BY <3>3 DEF Contract!ContractNext, Contract!Outcome
  <2>3. CASE ~Active(s)
    <3>1. AbstractState' = AbstractState
      BY <2>1, <2>3 DEF AbstractState, Active
    <3>2. QED
      BY <2>1, <3>1 DEF Contract!contractVars, AbstractState
  <2>4. QED
    BY <2>2, <2>3
<1>3. ASSUME NEW f \in finalizers, FinalizeCommit(f)
      PROVE  Contract!ContractNext \/ UNCHANGED Contract!contractVars
  <2> DEFINE s == f.scan
  <2>1. s \in Scan /\ f.final \in SETTLED_SCAN_STATUSES
    BY <1>3 DEF FinalizeCommit, TypeOK, Finalizer
  <2>2. CASE ~Active(s)
    BY <1>3, <2>2, ScanUnchangedFrame, ContractStutter DEF FinalizeCommit, MaySettle
  <2>3. CASE Active(s)
    <3>1. /\ \A o \in Scan : o # s => scan'[o] = scan[o]
          /\ scan'[s].status = f.final
          /\ reconciles[s] = 0
      BY <1>3, <2>1, <2>3 DEF FinalizeCommit, MaySettle, TypeOK, ScanRow, RequestsRooted, Active
    <3>2. \/ reconciles' = reconciles
          \/ f.final = "completed" /\ reconciles' = [reconciles EXCEPT ![s] = 1]
      <4> DEFINE resolves == /\ f.final = "completed"
                             /\ ManifestState(f.final, RowsOf(f.scan, task)) = "complete"
                             /\ scan[f.scan].mode = "full" /\ SawAnyContent(f.scan)
      <4>1. reconciles' = [reconciles EXCEPT ![s] = IF resolves THEN @ + 1 ELSE @]
        BY <1>3, <2>3 DEF FinalizeCommit, MaySettle
      <4>2. resolves => f.final = "completed"
        OBVIOUS
      <4>3. reconciles \in [Scan -> Nat]
        BY DEF TypeOK
      <4> HIDE DEF resolves, s
      <4>4. CASE resolves
        BY <2>1, <3>1, <4>1, <4>2, <4>3, <4>4
      <4>5. CASE ~resolves
        BY <2>1, <4>1, <4>3, <4>5
      <4>6. QED
        BY <4>4, <4>5
    <3> HIDE DEF s
    <3>3. AbstractState' = [AbstractState EXCEPT ![s] = f.final]
      BY <2>1, <3>1, ContractMove, StatusesDisjoint DEF Active
    <3>4. AbstractState[s] = "active"
      BY <2>1, <2>3 DEF AbstractState
    <3>5. Contract!Settle(s, f.final)
      BY <3>2, <3>3, <3>4 DEF Contract!Settle, AbstractState
    <3>6. QED
      BY <2>1, <3>5 DEF Contract!ContractNext, Contract!Outcome, SETTLED_SCAN_STATUSES
  <2>4. QED
    BY <2>2, <2>3
<1>4. ASSUME NEW t \in Task, NEW e \in EngineId, Claim(t, e)
      PROVE  UNCHANGED Contract!contractVars
  <2>1. t[1] \in Scan /\ UNCHANGED reconciles
    BY <1>4, TaskParts DEF Claim
  <2>2. scan' = scan \/ (/\ Active(t[1])
                         /\ \E v \in ACTIVE_SCAN_STATUSES :
                              scan' = [scan EXCEPT ![t[1]].status = v])
    BY <1>4 DEF Claim, Active, ACTIVE_SCAN_STATUSES
  <2>3. QED
    BY <2>1, <2>2, ScanUnchangedFrame, ActiveMoveFrame, ContractStutter
<1>5. ASSUME NEW r \in runs, NEW report \in Reports, NEW specs \in SUBSET FetchSpec,
             SubmitResults(r, report, specs)
      PROVE  UNCHANGED Contract!contractVars
  <2>1. r.task \in Task /\ r.task[1] \in Scan /\ UNCHANGED reconciles
    BY <1>5, TaskParts DEF SubmitResults, TypeOK, Run
  <2>2. FanOut(r.task, specs) # {} => Active(r.task[1])
    BY DEF FanOut
  <2>3. scan' = scan \/ (/\ Active(r.task[1])
                         /\ scan' = [scan EXCEPT ![r.task[1]].status = "running"])
    BY <1>5, <2>2 DEF SubmitResults
  <2>4. QED
    BY <2>1, <2>3, ScanUnchangedFrame, ActiveMoveFrame, ContractStutter
    DEF ACTIVE_SCAN_STATUSES
<1>6. CASE UNCHANGED <<scan, reconciles>>
  BY <1>6, ScanUnchangedFrame, ContractStutter
<1>7. QED
  BY <1>1, <1>2, <1>3, <1>4, <1>5, <1>6
  DEF Next, RunStep, vars, CancelRequest, SweepStalled, DropMessage, LeaseLapses, Redispatch,
      LeaseGranted, LeaseFails, Heartbeat, ObserveCancel, RunDies, SubmitRefused,
      SubmitReplayed, SubmitAnswered, FinalizeRead, FinalizeDies, Reclaim

\* The scan machinery implements ScanContract: one active scan per source, one
\* settlement per scan, resolution of findings only by a completed settlement.
THEOREM LifecycleImplementsContract ==
  ASSUME OneAttemptPerEngine = TRUE
  PROVE  Spec => ImplementsContract
<1>1. QED
  BY ContractInitStep, ContractStep, LifecycleSafe, PTL
  DEF Spec, ImplementsContract, Contract!ContractSpec
----------------------------------------------------------------------------
(* RowLocks: what each transaction holds, and what it knows of the rows, at each of  *)
(* its statements; for any number of sessions, scans and tasks.                      *)

NoScanHeld(y) == \A s \in ScanKey : owner[s] # y
NoTaskHeld(y) == \A t \in TaskKey : owner[t] # y
OwnScanHeld(y) ==
  tx[y].scan \in ScanKey /\ owner[tx[y].scan] = y /\ \A s \in ScanKey : owner[s] = y => s = tx[y].scan
OwnTask(y, t) == t \in TaskKey /\ ScanOf[t] = tx[y].scan
OnlyHeld(y, t) == owner[t] = y /\ \A u \in TaskKey : owner[u] = y => u = t
OneToDo(y) == tx[y].scan \in ScanKey /\ \E t \in TaskKey : OwnTask(y, t) /\ tx[y].todo = {t}

\* A submission holds its scan from its first lock on, and what it creates is of a
\* discovery that is still leased.
SubmissionHolds(y) ==
  /\ tx[y].at \in {"scan", "tasks", "fan_out", "commit"}
  /\ tx[y].at = "scan" => NoScanHeld(y) /\ NoTaskHeld(y) /\ OneToDo(y)
  /\ tx[y].at = "tasks" => OwnScanHeld(y) /\ NoTaskHeld(y) /\ OneToDo(y)
  /\ tx[y].at = "fan_out" =>
       /\ tx[y].kind = "results" /\ OwnScanHeld(y) /\ tx[y].todo = {}
       /\ OnlyHeld(y, DiscoveryOf[tx[y].scan]) /\ row[DiscoveryOf[tx[y].scan]] = "leased"
  /\ tx[y].at = "commit" =>
       /\ OwnScanHeld(y) /\ tx[y].todo = {}
       /\ \E t \in TaskKey :
            /\ OwnTask(y, t) /\ owner[t] = y /\ row[t] = "leased"
            /\ \A u \in TaskKey : owner[u] = y /\ u # t =>
                 /\ row[u] = "none" /\ OwnTask(y, u)
                 /\ tx[y].kind = "results" /\ t = DiscoveryOf[tx[y].scan]
                 /\ row[tx[y].scan] # "settled"

\* A claim that goes on to write its scan knows it is queued, also before it has the lock.
ClaimHolds(y) ==
  /\ tx[y].scan \in ScanKey
  /\ tx[y].at \in {"tasks", "read", "scan", "commit"}
  /\ tx[y].at = "tasks" => NoTaskHeld(y) /\ OneToDo(y)
  /\ tx[y].at # "commit" => NoScanHeld(y)
  /\ tx[y].at # "tasks" =>
       tx[y].todo = {} /\ \E t \in TaskKey : OwnTask(y, t) /\ OnlyHeld(y, t) /\ row[t] = "queued"
  /\ tx[y].at = "scan" => row[tx[y].scan] = "queued"
  /\ tx[y].at = "commit" => \/ OwnScanHeld(y) /\ row[tx[y].scan] = "queued"
                            \/ NoScanHeld(y) /\ row[tx[y].scan] # "queued"

\* The other transactions of one task.
SingleHolds(y) ==
  /\ tx[y].scan \in ScanKey
  /\ tx[y].at \in {"tasks", "commit"}
  /\ NoScanHeld(y)
  /\ tx[y].at = "tasks" => NoTaskHeld(y) /\ OneToDo(y)
  /\ tx[y].at = "commit" =>
       tx[y].todo = {} /\ \E t \in TaskKey : OwnTask(y, t) /\ OnlyHeld(y, t) /\ row[t] # "none"
  /\ tx[y].kind = "fail" => row[tx[y].scan] # "queued"

\* What a cancellation has not locked and does not mean to is over.
CancelHolds(y) ==
  /\ tx[y].scan \in ScanKey
  /\ tx[y].at \in {"scan", "select", "tasks", "commit"}
  /\ tx[y].at = "scan" => NoScanHeld(y)
  /\ tx[y].at # "scan" => OwnScanHeld(y)
  /\ tx[y].at \in {"scan", "select"} => NoTaskHeld(y) /\ tx[y].todo = {}
  /\ \A t \in tx[y].todo : OwnTask(y, t)
  /\ \A t \in TaskKey : owner[t] = y => OwnTask(y, t) /\ row[t] \in {"queued", "leased"}
  /\ tx[y].at \in {"tasks", "commit"} =>
       \A t \in TaskKey : OwnTask(y, t) =>
         t \in tx[y].todo \/ owner[t] = y \/ row[t] \in {"none", "final"}
  /\ tx[y].at = "commit" => tx[y].todo = {}

\* What a settlement has read stays true.
FinaliseHolds(y) ==
  /\ tx[y].scan \in ScanKey
  /\ tx[y].at \in {"scan", "commit"}
  /\ NoTaskHeld(y) /\ tx[y].todo = {}
  /\ tx[y].at = "scan" => NoScanHeld(y)
  /\ tx[y].at = "commit" => OwnScanHeld(y)
  /\ \A t \in TaskKey : OwnTask(y, t) => row[t] \in {"none", "final"}
  /\ row[DiscoveryOf[tx[y].scan]] = "final"

SweepHolds(y) ==
  /\ tx[y].at \in {"tasks", "commit"}
  /\ NoScanHeld(y)
  /\ \A t \in TaskKey : owner[t] = y =>
       row[t] # "none" /\ (tx[y].kind = "reclaim" => row[t] = "leased")

SessionOK(y) ==
  /\ \A t \in tx[y].todo : row[t] # "none"
  /\ tx[y].at = "idle" => tx[y] = Idle
  /\ tx[y].kind = "none" => tx[y] = Idle /\ NoScanHeld(y) /\ NoTaskHeld(y)
  /\ tx[y].kind \in Submission => SubmissionHolds(y)
  /\ tx[y].kind = "claim" => ClaimHolds(y)
  /\ tx[y].kind \in {"renew", "fail", "discard"} => SingleHolds(y)
  /\ tx[y].kind = "cancel" => CancelHolds(y)
  /\ tx[y].kind = "finalise" => FinaliseHolds(y)
  /\ tx[y].kind \in Sweep => SweepHolds(y)

\* A queued scan is as launch_scan left it.
FreshScans ==
  \A t \in TaskKey : row[ScanOf[t]] = "queued" =>
    row[t] = IF t = DiscoveryOf[ScanOf[t]] THEN "queued" ELSE "none"
DiscoveriesExist == \A s \in ScanKey : row[DiscoveryOf[s]] # "none"

LockTypes ==
  /\ row \in [Row -> ScanStatus \cup TaskStatus]
  /\ \A s \in ScanKey : row[s] \in ScanStatus
  /\ \A t \in TaskKey : row[t] \in TaskStatus
  /\ owner \in [Row -> Tx \cup {NoTx}]
  /\ tx \in [Tx -> [kind : TxKind,
                    at : {"idle", "scan", "tasks", "read", "select", "fan_out", "commit"},
                    scan : ScanKey \cup {NoTx}, todo : SUBSET TaskKey]]

RowsInv == FreshScans /\ DiscoveriesExist
LockInv == LockTypes /\ RowsInv /\ \A y \in Tx : SessionOK(y)

TxRecord ==
  [kind : TxKind, at : {"idle", "scan", "tasks", "read", "select", "fan_out", "commit"},
   scan : ScanKey \cup {NoTx}, todo : SUBSET TaskKey]

LEMMA OrderIs ==
  /\ \A k \in Submission : Order(k) = ScanThenTask
  /\ Order("claim") = TaskThenScan
  /\ Order("cancel") = ScanThenFound
  /\ Order("finalise") = ScanOnly
  /\ \A k \in Sweep \cup {"renew", "fail", "discard"} : Order(k) = TasksOnly
BY DEF Order, Submission, Sweep

LEMMA IdleTyped == Idle \in TxRecord /\ Idle.kind = "none" /\ Idle.at = "idle" /\ Idle.todo = {}
BY DEF Idle, TxRecord, TxKind

LEMMA LockInvInit == RowLocksInit => LockInv
<1> SUFFICES ASSUME RowLocksInit PROVE LockInv
  OBVIOUS
<1>1. /\ \A s \in ScanKey : row[s] = "queued"
      /\ \A t \in TaskKey : row[t] = IF t = DiscoveryOf[ScanOf[t]] THEN "queued" ELSE "none"
      /\ \A r \in Row : owner[r] = NoTx
      /\ \A x \in Tx : tx[x] = Idle
  BY RowLocksAssumption DEF RowLocksInit, Row
<1>2. row \in [Row -> ScanStatus \cup TaskStatus]
  BY DEF RowLocksInit, ScanStatus, TaskStatus
<1>3. owner \in [Row -> Tx \cup {NoTx}]
  BY DEF RowLocksInit
<1>4. tx \in [Tx -> TxRecord]
  BY IdleTyped DEF RowLocksInit
<1>5. LockTypes
  BY <1>1, <1>2, <1>3, <1>4 DEF LockTypes, ScanStatus, TaskStatus, TxRecord
<1>6. FreshScans
  BY <1>1 DEF FreshScans
<1>7. DiscoveriesExist
  BY <1>1, RowLocksAssumption DEF DiscoveriesExist
<1>8. ASSUME NEW y \in Tx PROVE SessionOK(y)
  <2>1. tx[y] = Idle /\ NoScanHeld(y) /\ NoTaskHeld(y)
    BY <1>1, RowLocksAssumption DEF NoScanHeld, NoTaskHeld, Row
  <2>2. tx[y].kind = "none" /\ tx[y].todo = {} /\ tx[y].at = "idle"
    BY <2>1, IdleTyped
  <2>3. QED
    BY <2>1, <2>2 DEF SessionOK, Submission, Sweep
<1>9. QED
  BY <1>5, <1>6, <1>7, <1>8 DEF LockInv, RowsInv

\* A session is as it was when its transaction, its locks and the rows are.
LEMMA SessionKept ==
  ASSUME NEW y, SessionOK(y), tx'[y] = tx[y], row' = row,
         \A r \in Row : owner'[r] = y <=> owner[r] = y, DiscoveryOf \in [ScanKey -> TaskKey]
  PROVE  SessionOK(y)'
<1>1. NoScanHeld(y)' <=> NoScanHeld(y)
  BY DEF NoScanHeld, Row
<1>2. NoTaskHeld(y)' <=> NoTaskHeld(y)
  BY DEF NoTaskHeld, Row
<1>3. OwnScanHeld(y)' <=> OwnScanHeld(y)
  BY DEF OwnScanHeld, Row
<1>4. \A t : OwnTask(y, t)' <=> OwnTask(y, t)
  BY DEF OwnTask
<1>5. \A t \in TaskKey : OnlyHeld(y, t)' <=> OnlyHeld(y, t)
  BY DEF OnlyHeld, Row
<1>6. OneToDo(y)' <=> OneToDo(y)
  BY <1>4 DEF OneToDo
<1>7. \A t \in TaskKey : owner'[t] = y <=> owner[t] = y
  BY DEF Row
<1> HIDE DEF NoScanHeld, NoTaskHeld, OwnScanHeld, OwnTask, OnlyHeld, OneToDo
<1>8. SubmissionHolds(y) => SubmissionHolds(y)'
  <2> SUFFICES ASSUME SubmissionHolds(y) PROVE SubmissionHolds(y)'
    OBVIOUS
  <2>1. CASE tx[y].at = "commit"
    <3>1. PICK t \in TaskKey :
            /\ OwnTask(y, t) /\ owner[t] = y /\ row[t] = "leased"
            /\ \A u \in TaskKey : owner[u] = y /\ u # t =>
                 /\ row[u] = "none" /\ OwnTask(y, u)
                 /\ tx[y].kind = "results" /\ t = DiscoveryOf[tx[y].scan]
                 /\ row[tx[y].scan] # "settled"
      BY <2>1 DEF SubmissionHolds
    <3>2. QED
      BY <2>1, <3>1, <1>3, <1>4, <1>7 DEF SubmissionHolds
  <2>2. CASE tx[y].at = "fan_out"
    BY <2>2, <1>3, <1>5 DEF SubmissionHolds, OwnScanHeld
  <2>3. CASE tx[y].at \notin {"commit", "fan_out"}
    BY <2>3, <1>1, <1>2, <1>3, <1>6 DEF SubmissionHolds
  <2>4. QED
    BY <2>1, <2>2, <2>3
<1>9. ClaimHolds(y) => ClaimHolds(y)'
  BY <1>1, <1>2, <1>3, <1>4, <1>5, <1>6 DEF ClaimHolds
<1>10. SingleHolds(y) => SingleHolds(y)'
  BY <1>1, <1>2, <1>4, <1>5, <1>6 DEF SingleHolds
<1>11. CancelHolds(y) => CancelHolds(y)'
  BY <1>1, <1>2, <1>3, <1>4, <1>7 DEF CancelHolds
<1>12. FinaliseHolds(y) => FinaliseHolds(y)'
  BY <1>1, <1>2, <1>3, <1>4 DEF FinaliseHolds
<1>13. SweepHolds(y) => SweepHolds(y)'
  BY <1>1, <1>7 DEF SweepHolds
<1>14. QED
  BY <1>1, <1>2, <1>8, <1>9, <1>10, <1>11, <1>12, <1>13 DEF SessionOK

\* A step of x that writes no row: what is left to show is x itself.
LEMMA OthersKept ==
  ASSUME LockInv, NEW x \in Tx, row' = row, owner' \in [Row -> Tx \cup {NoTx}],
         NEW c \in TxRecord, tx' = [tx EXCEPT ![x] = c],
         \A r \in Row : owner'[r] = owner[r] \/ (owner[r] \in {x, NoTx} /\ owner'[r] \in {x, NoTx}),
         SessionOK(x)'
  PROVE  LockInv'
<1>1. LockTypes'
  BY DEF LockInv, LockTypes, TxRecord
<1>2. RowsInv'
  BY DEF LockInv, RowsInv, FreshScans, DiscoveriesExist
<1>3. ASSUME NEW y \in Tx PROVE SessionOK(y)'
  <2>1. CASE y = x
    BY <2>1
  <2>2. CASE y # x
    <3>1. tx'[y] = tx[y]
      BY <2>2 DEF LockInv, LockTypes
    <3>2. \A r \in Row : owner'[r] = y <=> owner[r] = y
      BY <2>2, RowLocksAssumption
    <3>3. QED
      BY <3>1, <3>2, SessionKept, RowLocksAssumption DEF LockInv
  <2>3. QED
    BY <2>1, <2>2
<1>4. QED
  BY <1>1, <1>2, <1>3 DEF LockInv

LEMMA StartedTyped ==
  ASSUME NEW k \in TxKind \ {"none"}, NEW s \in ScanKey \cup {NoTx}, NEW todo \in SUBSET TaskKey
  PROVE  /\ Started(k, s, todo) \in TxRecord
         /\ Started(k, s, todo).kind = k /\ Started(k, s, todo).scan = s
         /\ Started(k, s, todo).todo = todo
         /\ Started(k, s, todo).at =
              IF k \in Submission \cup {"cancel", "finalise"} THEN "scan" ELSE "tasks"
<1>1. Order(k).idle = IF k \in Submission \cup {"cancel", "finalise"} THEN "scan" ELSE "tasks"
  BY OrderIs DEF TxKind, Submission, Sweep, ScanThenTask, TaskThenScan, ScanThenFound, ScanOnly,
     TasksOnly
<1> DEFINE a == Order(k).idle
<1>2. a \in {"idle", "scan", "tasks", "read", "select", "fan_out", "commit"}
  BY <1>1
<1> HIDE DEF a
<1>3. [kind |-> k, at |-> a, scan |-> s, todo |-> todo] \in TxRecord
  BY <1>2 DEF TxRecord
<1>4. Started(k, s, todo) = [kind |-> k, at |-> a, scan |-> s, todo |-> todo]
  BY DEF Started, a
<1>5. QED
  BY <1>1, <1>3, <1>4 DEF a

\* An idle session holds nothing.
LEMMA IdleHoldsNothing ==
  ASSUME LockInv, NEW x \in Tx, tx[x] = Idle
  PROVE  NoScanHeld(x) /\ NoTaskHeld(x)
BY IdleTyped DEF LockInv, SessionOK

LEMMA BeginsKeeps ==
  ASSUME LockInv, NEW x \in Tx, NEW k \in TxKind \ {"none"}, NEW s \in ScanKey \cup {NoTx},
         NEW todo \in SUBSET TaskKey, Begins(x, k, s, todo),
         \A t \in todo : row[t] # "none",
         k \notin Sweep => s \in ScanKey,
         k \in Submission \cup {"claim", "renew"} =>
           \E t \in TaskKey : ScanOf[t] = s /\ todo = {t},
         k \in {"cancel", "finalise"} => todo = {},
         k = "finalise" =>
           /\ \A t \in TaskKey : ScanOf[t] = s => row[t] \in {"none", "final"}
           /\ row[DiscoveryOf[s]] = "final",
         k \notin {"fail", "discard"}
  PROVE  LockInv'
<1> DEFINE c == Started(k, s, todo)
<1>1. tx[x] = Idle /\ tx' = [tx EXCEPT ![x] = c] /\ row' = row /\ owner' = owner
  BY DEF Begins
<1>2. /\ c \in TxRecord /\ c.kind = k /\ c.scan = s /\ c.todo = todo
      /\ c.at = IF k \in Submission \cup {"cancel", "finalise"} THEN "scan" ELSE "tasks"
  BY StartedTyped
<1> HIDE DEF c
<1>3. tx'[x] = c
  BY <1>1 DEF LockInv, LockTypes
<1>4. NoScanHeld(x)' /\ NoTaskHeld(x)'
  BY <1>1, IdleHoldsNothing DEF NoScanHeld, NoTaskHeld
<1>5. k \in Submission \cup {"claim", "renew"} => OneToDo(x)'
  BY <1>2, <1>3 DEF OneToDo, OwnTask, Submission, Sweep
<1>6. \A t \in TaskKey : owner'[t] # x
  BY <1>4 DEF NoTaskHeld
<1>7. k \in Submission => SubmissionHolds(x)'
  BY <1>2, <1>3, <1>4, <1>5 DEF SubmissionHolds
<1>8. k = "claim" => ClaimHolds(x)'
  BY <1>2, <1>3, <1>4, <1>5 DEF ClaimHolds, Submission, Sweep
<1>9. k = "renew" => SingleHolds(x)'
  BY <1>2, <1>3, <1>4, <1>5 DEF SingleHolds, Submission, Sweep
<1>10. k = "cancel" => CancelHolds(x)'
  BY <1>2, <1>3, <1>4, <1>6 DEF CancelHolds, Sweep
<1>11. k = "finalise" => FinaliseHolds(x)'
  BY <1>1, <1>2, <1>3, <1>4 DEF FinaliseHolds, Sweep, OwnTask
<1>12. k \in Sweep => SweepHolds(x)'
  BY <1>2, <1>3, <1>4, <1>6 DEF SweepHolds, Sweep, Submission
<1>13. SessionOK(x)'
  BY <1>1, <1>2, <1>3, <1>7, <1>8, <1>9, <1>10, <1>11, <1>12 DEF SessionOK
<1>14. owner' \in [Row -> Tx \cup {NoTx}] /\ \A r \in Row : owner'[r] = owner[r]
  BY <1>1 DEF LockInv, LockTypes
<1>15. QED
  BY <1>1, <1>2, <1>13, <1>14, OthersKept

LEMMA BeginKeeps ==
  ASSUME LockInv, NEW x \in Tx, Begin(x)
  PROVE  LockInv'
<1> USE DEF TxKind, Submission, Sweep
<1>1. ASSUME NEW t \in TaskKey, BeginSubmission(x, t) \/ BeginClaim(x, t) \/ BeginRenew(x, t)
      PROVE  LockInv'
  <2>1. ScanOf[t] \in ScanKey /\ {t} \in SUBSET TaskKey
    BY RowLocksAssumption
  <2>2. PICK k \in Submission \cup {"claim", "renew"} : Begins(x, k, ScanOf[t], {t}) /\ row[t] # "none"
    BY <1>1 DEF BeginSubmission, BeginClaim, BeginRenew
  <2>3. k \in TxKind \ {"none"} /\ k \notin {"cancel", "finalise", "fail", "discard"}
    OBVIOUS
  <2>4. \A u \in {t} : row[u] # "none"
    BY <2>2
  <2>5. QED
    BY <2>1, <2>2, <2>3, <2>4, BeginsKeeps
<1>2. ASSUME NEW s \in ScanKey, BeginCancel(x, s)
      PROVE  LockInv'
  BY <1>2, BeginsKeeps DEF BeginCancel
<1>3. ASSUME NEW s \in ScanKey, BeginFinalise(x, s)
      PROVE  LockInv'
  <2>1. \A t \in TaskKey : ScanOf[t] = s => row[t] \in {"none", "final"}
    BY <1>3 DEF BeginFinalise, TasksIn
  <2>2. row[DiscoveryOf[s]] = "final"
    BY <2>1, RowLocksAssumption DEF LockInv, RowsInv, DiscoveriesExist
  <2>3. Begins(x, "finalise", s, {}) /\ {} \in SUBSET TaskKey
    BY <1>3 DEF BeginFinalise
  <2>4. QED
    BY <2>1, <2>2, <2>3, BeginsKeeps
<1>4. CASE BeginSweep(x)
  <2>1. PICK ts \in SUBSET TaskKey, k \in Sweep :
          Begins(x, k, NoTx, ts) /\ \A t \in ts : row[t] # "none"
    BY <1>4 DEF BeginSweep
  <2>2. QED
    BY <2>1, BeginsKeeps
<1>5. QED
  BY <1>1, <1>2, <1>3, <1>4 DEF Begin

LEMMA RollbackKeeps ==
  ASSUME LockInv, NEW x \in Tx, Rollback(x)
  PROVE  LockInv'
<1>1. tx' = [tx EXCEPT ![x] = Idle] /\ row' = row /\ owner' = Released(x)
  BY DEF Rollback
<1>2. tx'[x] = Idle
  BY <1>1 DEF LockInv, LockTypes
<1>3. \A r \in Row : owner'[r] = IF owner[r] = x THEN NoTx ELSE owner[r]
  BY <1>1 DEF Released
<1>4. owner' \in [Row -> Tx \cup {NoTx}]
  BY <1>1 DEF Released, LockInv, LockTypes
<1>5. NoScanHeld(x)' /\ NoTaskHeld(x)'
  BY <1>3, RowLocksAssumption DEF NoScanHeld, NoTaskHeld, Row
<1>6. SessionOK(x)'
  BY <1>2, <1>5, IdleTyped DEF SessionOK, Submission, Sweep
<1>7. \A r \in Row : owner'[r] = owner[r] \/ (owner[r] \in {x, NoTx} /\ owner'[r] \in {x, NoTx})
  BY <1>3
<1>8. QED
  BY <1>1, <1>4, <1>6, <1>7, IdleTyped, OthersKept

\* The lock of a scan row.
LEMMA LockScanKeeps ==
  ASSUME LockInv, NEW x \in Tx, NEW r \in Row, Lock(x, r), tx[x].at = "scan"
  PROVE  LockInv'
<1> DEFINE c == tx[x]
           d == Continued(c, r)
<1>1. c \in TxRecord /\ SessionOK(x) /\ c.kind \in TxKind
  BY DEF LockInv, LockTypes, TxRecord
<1>2. r = c.scan /\ row' = row /\ owner[r] = NoTx /\ tx' = [tx EXCEPT ![x] = d]
      /\ owner' = [owner EXCEPT ![r] = x]
  BY DEF Lock, Target
<1>3. c.kind \in Submission \cup {"claim", "cancel", "finalise"}
  BY <1>1, IdleTyped DEF SessionOK, TxKind, SingleHolds, SweepHolds, Sweep, Submission
<1>4. c.scan \in ScanKey /\ r \notin TaskKey
  BY <1>1, <1>2, <1>3, RowLocksAssumption DEF SessionOK, SubmissionHolds, ClaimHolds, CancelHolds,
     FinaliseHolds, OneToDo
<1> DEFINE a == IF c.kind \in Submission THEN "tasks" ELSE IF c.kind = "cancel" THEN "select"
                ELSE "commit"
<1>5. ~(c.kind = "results" /\ r = DiscoveryOf[c.scan])
  BY <1>2, <1>4, RowLocksAssumption
<1>6. d = [c EXCEPT !.todo = c.todo \ {r}, !.at = a]
  <2>1. Order(c.kind)[c.at] = a
    BY <1>3, OrderIs DEF ScanThenTask, TaskThenScan, ScanThenFound, ScanOnly, Submission
  <2>2. QED
    BY <2>1, <1>1, <1>4, <1>5 DEF Continued, TxRecord
<1>7. c.todo \ {r} = c.todo /\ a \in {"tasks", "select", "commit"}
  BY <1>1, <1>4 DEF TxRecord
<1> HIDE DEF a, d
<1>8. d \in TxRecord /\ d.kind = c.kind /\ d.at = a /\ d.scan = c.scan /\ d.todo = c.todo
  BY <1>1, <1>6, <1>7 DEF TxRecord
<1>9. tx'[x] = d
  BY <1>2 DEF LockInv, LockTypes
<1> HIDE DEF c
<1>10. \A q \in Row : owner'[q] = IF q = r THEN x ELSE owner[q]
  BY <1>2 DEF LockInv, LockTypes
<1>11. NoScanHeld(x)
  BY <1>1, <1>3 DEF SessionOK, SubmissionHolds, ClaimHolds, CancelHolds, FinaliseHolds, c
<1>12. OwnScanHeld(x)'
  BY <1>2, <1>4, <1>8, <1>9, <1>10, <1>11 DEF OwnScanHeld, NoScanHeld, Row
<1>13. \A t \in TaskKey : owner'[t] = owner[t]
  BY <1>4, <1>10 DEF Row
<1>14. NoTaskHeld(x) => NoTaskHeld(x)'
  BY <1>13 DEF NoTaskHeld
<1>15. \A t \in TaskKey : /\ OwnTask(x, t)' <=> OwnTask(x, t)
                          /\ OnlyHeld(x, t)' <=> OnlyHeld(x, t)
  BY <1>8, <1>9, <1>13 DEF OwnTask, OnlyHeld, c
<1>16. OneToDo(x) => OneToDo(x)'
  BY <1>8, <1>9, <1>15 DEF OneToDo, c
<1> HIDE DEF OwnScanHeld, NoTaskHeld, OneToDo, OnlyHeld, OwnTask, NoScanHeld
<1>17. ASSUME c.kind \in Submission PROVE SessionOK(x)'
  <2>1. SubmissionHolds(x)'
    BY <1>1, <1>8, <1>9, <1>12, <1>14, <1>16, <1>17 DEF SessionOK, SubmissionHolds, a, c
  <2>2. QED
    BY <2>1, <1>1, <1>2, <1>8, <1>9, <1>17 DEF SessionOK, Submission, Sweep, a, c
<1>18. ASSUME c.kind = "claim" PROVE SessionOK(x)'
  <2>1. ClaimHolds(x)'
    BY <1>1, <1>2, <1>8, <1>9, <1>12, <1>15, <1>18 DEF SessionOK, ClaimHolds, Submission, a, c
  <2>2. QED
    BY <2>1, <1>1, <1>2, <1>8, <1>9, <1>18 DEF SessionOK, Submission, Sweep, a, c
<1>19. ASSUME c.kind = "cancel" PROVE SessionOK(x)'
  <2>1. CancelHolds(x)'
    BY <1>1, <1>2, <1>8, <1>9, <1>12, <1>13, <1>14, <1>15, <1>19
    DEF SessionOK, CancelHolds, Submission, a, c, NoTaskHeld
  <2>2. QED
    BY <2>1, <1>1, <1>2, <1>8, <1>9, <1>19 DEF SessionOK, Submission, Sweep, a, c
<1>20. ASSUME c.kind = "finalise" PROVE SessionOK(x)'
  <2>1. FinaliseHolds(x)'
    BY <1>1, <1>2, <1>8, <1>9, <1>12, <1>14, <1>15, <1>20
    DEF SessionOK, FinaliseHolds, Submission, a, c
  <2>2. QED
    BY <2>1, <1>1, <1>2, <1>8, <1>9, <1>20 DEF SessionOK, Submission, Sweep, a, c
<1>21. SessionOK(x)' => LockInv'
  <2>1. owner' \in [Row -> Tx \cup {NoTx}]
    BY <1>2 DEF LockInv, LockTypes
  <2>2. \A q \in Row : owner'[q] = owner[q] \/ (owner[q] \in {x, NoTx} /\ owner'[q] \in {x, NoTx})
    BY <1>2, <1>10
  <2>3. QED
    BY <1>2, <1>8, <2>1, <2>2, OthersKept
<1>22. QED
  BY <1>3, <1>17, <1>18, <1>19, <1>20, <1>21

\* The lock of a task row.
LEMMA LockTaskKeeps ==
  ASSUME LockInv, NEW x \in Tx, NEW r \in Row, Lock(x, r), tx[x].at = "tasks"
  PROVE  LockInv'
<1> DEFINE c == tx[x]
           d == Continued(c, r)
           a == IF c.todo # {r} THEN "tasks"
                ELSE IF c.kind = "results" /\ r = DiscoveryOf[c.scan] THEN "fan_out"
                ELSE IF c.kind = "claim" THEN "read" ELSE "commit"
<1>1. c \in TxRecord /\ SessionOK(x) /\ c.kind \in TxKind
  BY DEF LockInv, LockTypes, TxRecord
<1>2. /\ r \in c.todo /\ row' = row /\ owner[r] = NoTx /\ tx' = [tx EXCEPT ![x] = d]
      /\ owner' = [owner EXCEPT ![r] = x] /\ Selects(c.kind, r)
  BY DEF Lock, Target
<1>3. c.kind \in Submission \cup Sweep \cup {"claim", "cancel", "renew", "fail", "discard"}
  BY <1>1, IdleTyped DEF SessionOK, TxKind, FinaliseHolds, Sweep, Submission
<1>4. r \in TaskKey /\ r \notin ScanKey /\ row[r] # "none"
  BY <1>1, <1>2, RowLocksAssumption DEF TxRecord, SessionOK
<1>5. d = [c EXCEPT !.todo = c.todo \ {r}, !.at = a]
  <2>1. Order(c.kind)[c.at] = IF c.kind = "claim" THEN "read" ELSE "commit"
    BY <1>3, OrderIs DEF ScanThenTask, TaskThenScan, ScanThenFound, TasksOnly, Submission, Sweep
  <2>2. QED
    BY <2>1, <1>1, <1>4 DEF Continued, TxRecord
<1>6. a \in {"tasks", "fan_out", "read", "commit"} /\ c.todo \ {r} \in SUBSET TaskKey
  BY <1>1 DEF TxRecord
<1> HIDE DEF a, d
<1>7. d \in TxRecord /\ d.kind = c.kind /\ d.at = a /\ d.scan = c.scan /\ d.todo = c.todo \ {r}
  BY <1>1, <1>5, <1>6 DEF TxRecord
<1>8. tx'[x] = d
  BY <1>2 DEF LockInv, LockTypes
<1> HIDE DEF c
<1>9. \A q \in Row : owner'[q] = IF q = r THEN x ELSE owner[q]
  BY <1>2 DEF LockInv, LockTypes
<1>10. \A t \in TaskKey : owner'[t] = IF t = r THEN x ELSE owner[t]
  BY <1>9 DEF Row
<1>11. \A s \in ScanKey : owner'[s] = owner[s]
  BY <1>4, <1>9 DEF Row
<1>12. NoScanHeld(x) => NoScanHeld(x)'
  BY <1>11 DEF NoScanHeld
<1>13. OwnScanHeld(x) => OwnScanHeld(x)'
  BY <1>7, <1>8, <1>11 DEF OwnScanHeld, c
<1>14. \A t : OwnTask(x, t)' <=> OwnTask(x, t)
  BY <1>7, <1>8 DEF OwnTask, c
<1>15. NoTaskHeld(x) => OnlyHeld(x, r)'
  BY <1>4, <1>10 DEF NoTaskHeld, OnlyHeld
<1>16. \A t \in d.todo : row'[t] # "none"
  BY <1>1, <1>2, <1>7 DEF SessionOK, c
<1>17. ASSUME OneToDo(x)
       PROVE  OwnTask(x, r) /\ d.todo = {} /\ c.todo = {r} /\ c.scan \in ScanKey
  BY <1>17, <1>2, <1>7 DEF OneToDo, c
<1> HIDE DEF OwnScanHeld, NoTaskHeld, OneToDo, OnlyHeld, OwnTask, NoScanHeld
<1>18. ASSUME c.kind \in Submission PROVE SessionOK(x)'
  <2>1. OwnScanHeld(x) /\ NoTaskHeld(x) /\ OneToDo(x)
    BY <1>1, <1>18 DEF SessionOK, SubmissionHolds, c
  <2>2. row[r] = "leased"
    BY <1>2, <1>4, <1>18 DEF Selects
  <2>3. a = IF c.kind = "results" /\ r = DiscoveryOf[c.scan] THEN "fan_out" ELSE "commit"
    BY <2>1, <1>17, <1>18 DEF a, Submission
  <2>4. \A u \in TaskKey : owner'[u] = x => u = r
    BY <2>1, <1>15 DEF OnlyHeld
  <2>5. owner'[r] = x /\ OwnTask(x, r)' /\ row'[r] = "leased"
    BY <1>2, <1>4, <1>10, <1>14, <1>17, <2>1, <2>2
  <2>6. SubmissionHolds(x)'
    BY <1>4, <1>7, <1>8, <1>13, <1>15, <1>17, <2>1, <2>3, <2>4, <2>5 DEF SubmissionHolds
  <2>7. QED
    BY <2>6, <2>3, <1>7, <1>8, <1>16, <1>18 DEF SessionOK, Submission, Sweep
<1>19. ASSUME c.kind = "claim" PROVE SessionOK(x)'
  <2>1. NoScanHeld(x) /\ NoTaskHeld(x) /\ OneToDo(x)
    BY <1>1, <1>19 DEF SessionOK, ClaimHolds, c
  <2>2. row[r] = "queued"
    BY <1>2, <1>4, <1>19 DEF Selects
  <2>3. a = "read"
    BY <2>1, <1>17, <1>19 DEF a
  <2>4. ClaimHolds(x)'
    BY <1>2, <1>4, <1>7, <1>8, <1>12, <1>14, <1>15, <1>17, <2>1, <2>2, <2>3 DEF ClaimHolds
  <2>5. QED
    BY <2>4, <2>3, <1>7, <1>8, <1>16, <1>19 DEF SessionOK, Submission, Sweep
<1>20. ASSUME c.kind \in {"renew", "fail", "discard"} PROVE SessionOK(x)'
  <2>1. NoScanHeld(x) /\ NoTaskHeld(x) /\ OneToDo(x) /\ (c.kind = "fail" => row[c.scan] # "queued")
    BY <1>1, <1>20 DEF SessionOK, SingleHolds, c
  <2>2. a = "commit"
    BY <2>1, <1>17, <1>20 DEF a
  <2>3. SingleHolds(x)'
    BY <1>2, <1>4, <1>7, <1>8, <1>12, <1>14, <1>15, <1>17, <2>1, <2>2 DEF SingleHolds
  <2>4. QED
    BY <2>3, <2>2, <1>7, <1>8, <1>16, <1>20 DEF SessionOK, Submission, Sweep
<1>21. ASSUME c.kind = "cancel" PROVE SessionOK(x)'
  <2>1. CancelHolds(x)
    BY <1>1, <1>21 DEF SessionOK, c
  <2>2. row[r] \in {"queued", "leased"} /\ OwnTask(x, r)
    BY <1>2, <1>4, <1>21, <2>1 DEF Selects, CancelHolds, c
  <2>3. a = IF c.todo # {r} THEN "tasks" ELSE "commit"
    BY <1>21 DEF a
  <2>4. a = "commit" => d.todo = {}
    BY <2>3, <1>7
  <2>5. OwnScanHeld(x)' /\ d.scan \in ScanKey
    BY <2>1, <1>7, <1>13 DEF CancelHolds, c
  <2>6. \A t \in TaskKey : owner'[t] = x => OwnTask(x, t)' /\ row'[t] \in {"queued", "leased"}
    BY <2>1, <2>2, <1>2, <1>10, <1>14 DEF CancelHolds
  <2>7. \A t \in TaskKey : OwnTask(x, t)' => t \in d.todo \/ owner'[t] = x \/ row'[t] \in {"none", "final"}
    BY <2>1, <1>2, <1>7, <1>10, <1>14 DEF CancelHolds, c
  <2>8. \A t \in d.todo : OwnTask(x, t)'
    BY <2>1, <1>7, <1>14 DEF CancelHolds, c
  <2>9. CancelHolds(x)'
    BY <1>7, <1>8, <2>3, <2>4, <2>5, <2>6, <2>7, <2>8 DEF CancelHolds
  <2>10. QED
    BY <2>9, <2>3, <1>7, <1>8, <1>16, <1>21 DEF SessionOK, Submission, Sweep
<1>22. ASSUME c.kind \in Sweep PROVE SessionOK(x)'
  <2>1. SweepHolds(x)
    BY <1>1, <1>22 DEF SessionOK, c
  <2>2. a \in {"tasks", "commit"}
    BY <1>22 DEF a, Sweep
  <2>3. c.kind = "reclaim" => row[r] = "leased"
    BY <1>2, <1>4 DEF Selects
  <2>4. SweepHolds(x)'
    BY <1>2, <1>4, <1>7, <1>8, <1>10, <1>12, <2>1, <2>2, <2>3 DEF SweepHolds, c
  <2>5. QED
    BY <2>4, <2>2, <1>7, <1>8, <1>16, <1>22 DEF SessionOK, Submission, Sweep
<1>23. SessionOK(x)' => LockInv'
  <2>1. owner' \in [Row -> Tx \cup {NoTx}]
    BY <1>2 DEF LockInv, LockTypes
  <2>2. \A q \in Row : owner'[q] = owner[q] \/ (owner[q] \in {x, NoTx} /\ owner'[q] \in {x, NoTx})
    BY <1>2, <1>9
  <2>3. QED
    BY <1>2, <1>7, <2>1, <2>2, OthersKept
<1>24. QED
  BY <1>3, <1>18, <1>19, <1>20, <1>21, <1>22, <1>23

LEMMA LockKeeps ==
  ASSUME LockInv, NEW x \in Tx, NEW r \in Row, Lock(x, r)
  PROVE  LockInv'
<1>1. tx[x].at \in {"scan", "tasks"}
  BY DEF Lock, Target
<1>2. QED
  BY <1>1, LockScanKeeps, LockTaskKeeps

\* A step of x that only moves it on.
LEMMA MovedOn ==
  ASSUME LockInv, NEW x \in Tx, row' = row, owner' = owner, NEW c \in TxRecord,
         tx' = [tx EXCEPT ![x] = c], SessionOK(x)'
  PROVE  LockInv'
<1>1. owner' \in [Row -> Tx \cup {NoTx}] /\ \A r \in Row : owner'[r] = owner[r]
  BY DEF LockInv, LockTypes
<1>2. QED
  BY <1>1, OthersKept

LEMMA MissKeeps ==
  ASSUME LockInv, NEW x \in Tx, NEW r \in Row, Miss(x, r)
  PROVE  LockInv'
<1>1. CASE Rollback(x)
  BY <1>1, RollbackKeeps
<1>2. CASE tx[x].kind \in {"cancel", "reclaim"}
  <2> DEFINE c == tx[x]
             a == IF c.todo = {r} THEN "commit" ELSE c.at
             d == [c EXCEPT !.todo = c.todo \ {r}, !.at = a]
  <2>1. c \in TxRecord /\ SessionOK(x) /\ tx \in [Tx -> TxRecord]
    BY DEF LockInv, LockTypes, TxRecord
  <2>2. /\ r \in Target(x) /\ row' = row /\ owner' = owner
        /\ ~Selects(c.kind, r) \/ (r \in TaskKey /\ MayMiss(c.kind))
        /\ tx' = [tx EXCEPT ![x].todo = @ \ {r}, ![x].at = IF tx[x].todo = {r} THEN "commit" ELSE @]
    BY <1>2 DEF Miss
  <2>3. tx' = [tx EXCEPT ![x] = d]
    BY <2>1, <2>2 DEF TxRecord
  <2>4. c.at = "tasks" /\ r \in c.todo /\ r \in TaskKey
    <3>1. CASE c.at = "tasks"
      BY <3>1, <2>1, <2>2 DEF Target, TxRecord
    <3>2. CASE c.at = "scan"
      <4>1. c.kind = "cancel"
        BY <1>2, <2>1, <3>2 DEF SessionOK, SweepHolds, Sweep
      <4>2. r = c.scan /\ r \in ScanKey
        BY <4>1, <2>1, <2>2, <3>2 DEF SessionOK, CancelHolds, Target
      <4>3. QED
        BY <4>1, <4>2, <2>2, RowLocksAssumption DEF Selects
    <3>3. QED
      BY <3>1, <3>2, <2>2 DEF Target
  <2>5. a \in {"tasks", "commit"} /\ c.todo \ {r} \in SUBSET TaskKey
    BY <2>1, <2>4 DEF TxRecord
  <2>6. a = "commit" => c.todo \ {r} = {}
    BY <2>4
  <2> HIDE DEF a
  <2>7. d \in TxRecord /\ d.kind = c.kind /\ d.at = a /\ d.scan = c.scan /\ d.todo = c.todo \ {r}
    BY <2>1, <2>5 DEF TxRecord
  <2> HIDE DEF d
  <2>8. tx'[x] = d
    BY <2>1, <2>3
  <2> HIDE DEF c
  <2>9. /\ NoScanHeld(x)' <=> NoScanHeld(x)
        /\ OwnScanHeld(x) => OwnScanHeld(x)'
        /\ \A t : OwnTask(x, t)' <=> OwnTask(x, t)
    BY <2>2, <2>7, <2>8 DEF NoScanHeld, OwnScanHeld, OwnTask, c
  <2>10. \A t \in d.todo : row'[t] # "none"
    BY <2>1, <2>2, <2>7 DEF SessionOK, c
  <2> HIDE DEF OwnScanHeld, NoScanHeld, OwnTask
  <2>11. ASSUME c.kind = "cancel" PROVE SessionOK(x)'
    <3>1. CancelHolds(x)
      BY <2>1, <2>11 DEF SessionOK, c
    <3>2. row[r] \in {"none", "final"}
      <4>1. row[r] \notin {"queued", "leased"}
        BY <2>2, <2>4, <2>11, RowLocksAssumption DEF Selects, MayMiss, Submission
      <4>2. QED
        BY <4>1, <2>4 DEF LockInv, LockTypes, TaskStatus
    <3>3. CancelHolds(x)'
      BY <2>2, <2>4, <2>5, <2>6, <2>7, <2>8, <2>9, <3>1, <3>2 DEF CancelHolds, c
    <3>4. QED
      BY <3>3, <2>5, <2>7, <2>8, <2>10, <2>11 DEF SessionOK, Submission, Sweep
  <2>12. ASSUME c.kind = "reclaim" PROVE SessionOK(x)'
    <3>1. SweepHolds(x)
      BY <2>1, <2>12 DEF SessionOK, Sweep, c
    <3>2. SweepHolds(x)'
      BY <2>2, <2>5, <2>7, <2>8, <2>9, <3>1 DEF SweepHolds, c
    <3>3. QED
      BY <3>2, <2>5, <2>7, <2>8, <2>10, <2>12 DEF SessionOK, Submission, Sweep
  <2>13. QED
    BY <1>2, <2>2, <2>3, <2>7, <2>11, <2>12, MovedOn DEF c
<1>3. QED
  BY <1>1, <1>2 DEF Miss

LEMMA ClaimReadKeeps ==
  ASSUME LockInv, NEW x \in Tx, ClaimRead(x)
  PROVE  LockInv'
<1> DEFINE c == tx[x]
           a == IF row[c.scan] = "queued" THEN "scan" ELSE "commit"
           d == [c EXCEPT !.at = a]
<1>1. c \in TxRecord /\ SessionOK(x) /\ tx \in [Tx -> TxRecord]
  BY DEF LockInv, LockTypes, TxRecord
<1>2. c.kind = "claim" /\ c.at = "read" /\ row' = row /\ owner' = owner /\ tx' = [tx EXCEPT ![x].at = a]
  BY DEF ClaimRead
<1>3. tx' = [tx EXCEPT ![x] = d]
  BY <1>1, <1>2 DEF TxRecord
<1>4. a \in {"scan", "commit"}
  OBVIOUS
<1>5. a = "scan" <=> row[c.scan] = "queued"
  OBVIOUS
<1> HIDE DEF a
<1>6. d \in TxRecord /\ d.kind = c.kind /\ d.at = a /\ d.scan = c.scan /\ d.todo = c.todo
  BY <1>1, <1>4 DEF TxRecord
<1> HIDE DEF d
<1>7. tx'[x] = d
  BY <1>1, <1>3
<1> HIDE DEF c
<1>8. /\ NoScanHeld(x)' <=> NoScanHeld(x)
      /\ \A t : (OwnTask(x, t)' <=> OwnTask(x, t)) /\ (OnlyHeld(x, t)' <=> OnlyHeld(x, t))
  BY <1>2, <1>6, <1>7 DEF NoScanHeld, OwnTask, OnlyHeld, c
<1> HIDE DEF NoScanHeld, OwnTask, OnlyHeld
<1>9. ClaimHolds(x)
  BY <1>1, <1>2 DEF SessionOK, c
<1>10. ClaimHolds(x)'
  BY <1>2, <1>4, <1>5, <1>6, <1>7, <1>8, <1>9 DEF ClaimHolds, c
<1>11. SessionOK(x)'
  BY <1>1, <1>2, <1>4, <1>6, <1>7, <1>10 DEF SessionOK, Submission, Sweep, c
<1>12. QED
  BY <1>2, <1>3, <1>6, <1>11, MovedOn

LEMMA CancelSelectKeeps ==
  ASSUME LockInv, NEW x \in Tx, CancelSelect(x)
  PROVE  LockInv'
<1> DEFINE c == tx[x]
           f == {t \in TasksIn(c.scan) : row[t] \in {"queued", "leased"}}
           a == IF f = {} THEN "commit" ELSE "tasks"
           d == [c EXCEPT !.todo = f, !.at = a]
<1>1. c \in TxRecord /\ SessionOK(x) /\ tx \in [Tx -> TxRecord]
  BY DEF LockInv, LockTypes, TxRecord
<1>2. /\ c.kind = "cancel" /\ c.at = "select" /\ row' = row /\ owner' = owner
      /\ tx' = [tx EXCEPT ![x].todo = f, ![x].at = a]
  BY DEF CancelSelect
<1>3. tx' = [tx EXCEPT ![x] = d]
  BY <1>1, <1>2 DEF TxRecord
<1>4. a \in {"tasks", "commit"} /\ (a = "commit" => f = {})
  OBVIOUS
<1>5. f \in SUBSET TaskKey /\ \A t \in TaskKey : t \in f <=> ScanOf[t] = c.scan /\ row[t] \in {"queued", "leased"}
  BY DEF TasksIn
<1> HIDE DEF a, f
<1>6. d \in TxRecord /\ d.kind = c.kind /\ d.at = a /\ d.scan = c.scan /\ d.todo = f
  BY <1>1, <1>4, <1>5 DEF TxRecord
<1> HIDE DEF d
<1>7. tx'[x] = d
  BY <1>1, <1>3
<1>8. CancelHolds(x)
  BY <1>1, <1>2 DEF SessionOK
<1>9. \A t \in TaskKey : row[t] \in {"none", "queued", "leased", "final"}
  BY DEF LockInv, LockTypes, TaskStatus
<1> HIDE DEF c
<1>10. CancelHolds(x)'
  <2>1. c.scan \in ScanKey /\ OwnScanHeld(x) /\ \A t \in TaskKey : owner[t] # x
    BY <1>2, <1>8 DEF CancelHolds, NoTaskHeld, c
  <2>2. OwnScanHeld(x)'
    BY <1>2, <1>6, <1>7, <2>1 DEF OwnScanHeld, c
  <2>3. \A t \in TaskKey : OwnTask(x, t)' <=> ScanOf[t] = c.scan
    BY <1>6, <1>7 DEF OwnTask
  <2>4. \A t \in TaskKey : owner'[t] # x
    BY <1>2, <2>1
  <2>5. \A t \in f : OwnTask(x, t)'
    BY <1>5, <2>3
  <2>6. \A t \in TaskKey : OwnTask(x, t)' => t \in f \/ row'[t] \in {"none", "final"}
    BY <1>2, <1>5, <1>9, <2>3
  <2>7. QED
    BY <1>4, <1>6, <1>7, <2>1, <2>2, <2>4, <2>5, <2>6 DEF CancelHolds
<1>11. SessionOK(x)'
  BY <1>2, <1>4, <1>5, <1>6, <1>7, <1>10 DEF SessionOK, Submission, Sweep
<1>12. QED
  BY <1>2, <1>3, <1>6, <1>11, MovedOn

LEMMA FanOutKeeps ==
  ASSUME LockInv, NEW x \in Tx, CreateFetchTasks(x)
  PROVE  LockInv'
<1> DEFINE c == tx[x]
           d == [c EXCEPT !.at = "commit"]
<1>1. c \in TxRecord /\ SessionOK(x) /\ tx \in [Tx -> TxRecord]
  BY DEF LockInv, LockTypes, TxRecord
<1>2. c.at = "fan_out" /\ row' = row /\ tx' = [tx EXCEPT ![x].at = "commit"]
  BY DEF CreateFetchTasks
<1>3. PICK new \in SUBSET TaskKey :
        /\ \A t \in new : ScanOf[t] = c.scan /\ row[t] = "none" /\ row[c.scan] # "settled"
        /\ owner' = [r \in Row |-> IF r \in new THEN x ELSE owner[r]]
  BY DEF CreateFetchTasks, TasksIn
<1>4. tx' = [tx EXCEPT ![x] = d]
  BY <1>1, <1>2 DEF TxRecord
<1>5. d \in TxRecord /\ d.kind = c.kind /\ d.at = "commit" /\ d.scan = c.scan /\ d.todo = c.todo
  BY <1>1 DEF TxRecord
<1> HIDE DEF d
<1>6. tx'[x] = d
  BY <1>1, <1>4
<1>7. c.kind \in Submission /\ SubmissionHolds(x)
  BY <1>1, <1>2, IdleTyped DEF SessionOK, TxRecord, TxKind, SubmissionHolds, ClaimHolds, SingleHolds,
     CancelHolds, FinaliseHolds, SweepHolds, Submission, Sweep
<1>8. PICK t \in TaskKey :
        /\ t = DiscoveryOf[c.scan] /\ ScanOf[t] = c.scan /\ OnlyHeld(x, t) /\ row[t] = "leased"
        /\ c.kind = "results" /\ OwnScanHeld(x) /\ c.todo = {}
  BY <1>2, <1>7, RowLocksAssumption DEF SubmissionHolds, OwnScanHeld
\* What it creates was no one's: a row that does not exist has no lock but its creator's.
<1>9. \A u \in new : owner[u] = NoTx
  <2> SUFFICES ASSUME NEW u \in new, owner[u] # NoTx PROVE FALSE
    OBVIOUS
  <2>1. u \in TaskKey /\ owner[u] \in Tx /\ row[u] = "none" /\ ScanOf[u] = c.scan
    BY <1>3 DEF LockInv, LockTypes, Row
  <2> DEFINE y == owner[u]
  <2>2. SessionOK(y) /\ tx[y].kind \in TxKind
    BY <2>1 DEF LockInv, LockTypes
  <2> HIDE DEF c
  <2>3. y # x
    BY <2>1, <1>8 DEF OnlyHeld
  <2>4. tx[y].kind \in Submission
    BY <2>1, <2>2 DEF SessionOK, TxKind, NoTaskHeld, ClaimHolds, SingleHolds, OnlyHeld,
       CancelHolds, FinaliseHolds, SweepHolds, Submission, Sweep
  <2>5. SubmissionHolds(y)
    BY <2>2, <2>4 DEF SessionOK
  <2>6. tx[y].at = "commit"
    BY <2>1, <2>5 DEF SubmissionHolds, NoTaskHeld, OnlyHeld
  <2>7. OwnScanHeld(y) /\ OwnTask(y, u)
    BY <2>1, <2>5, <2>6 DEF SubmissionHolds
  <2>8. owner[c.scan] = y
    BY <2>1, <2>7 DEF OwnScanHeld, OwnTask
  <2>9. QED
    BY <2>3, <2>8, <1>8 DEF OwnScanHeld, c
<1>10. \A s \in ScanKey : owner'[s] = owner[s]
  BY <1>3, RowLocksAssumption DEF Row
<1>11. \A u \in TaskKey : owner'[u] = IF u \in new THEN x ELSE owner[u]
  BY <1>3 DEF Row
<1> HIDE DEF c
<1>12. OwnScanHeld(x)'
  BY <1>5, <1>6, <1>8, <1>10 DEF OwnScanHeld, c
<1>13. OwnTask(x, t)' /\ owner'[t] = x /\ row'[t] = "leased"
  BY <1>2, <1>3, <1>5, <1>6, <1>8, <1>11 DEF OwnTask, OnlyHeld
<1>14. \A u \in TaskKey : owner'[u] = x /\ u # t =>
         row'[u] = "none" /\ OwnTask(x, u)' /\ row'[d.scan] # "settled"
  BY <1>2, <1>3, <1>5, <1>6, <1>8, <1>11 DEF OwnTask, OnlyHeld
<1>15. SubmissionHolds(x)'
  BY <1>5, <1>6, <1>8, <1>12, <1>13, <1>14 DEF SubmissionHolds
<1>16. SessionOK(x)'
  BY <1>5, <1>6, <1>8, <1>15 DEF SessionOK, Submission, Sweep
<1>17. owner' \in [Row -> Tx \cup {NoTx}]
  BY <1>3 DEF LockInv, LockTypes
<1>18. \A q \in Row : owner'[q] = owner[q] \/ (owner[q] \in {x, NoTx} /\ owner'[q] \in {x, NoTx})
  BY <1>3, <1>9
<1>19. QED
  BY <1>2, <1>4, <1>5, <1>16, <1>17, <1>18, OthersKept

----------------------------------------------------------------------------
(* RowLocks: what a commit does. *)

CommittedRow(x) ==
  [r \in Row |-> IF owner[r] # x THEN row[r]
                 ELSE IF r \in ScanKey THEN WrittenScan(x, r) ELSE WrittenTask(x, r)]

CommitEffect(x) ==
  \/ row' = row /\ tx[x].kind # "claim"
  \/ /\ tx[x].kind = "claim"
     /\ \E t \in TaskKey : OwnTask(x, t) /\ owner[t] = x /\ ClaimAtOnce(t)
  \/ /\ tx[x].kind = "results"
     /\ \E t \in TaskKey, new \in SUBSET TaskKey :
          /\ OwnTask(x, t) /\ owner[t] = x /\ ResultsAtOnce(t, new)
          /\ new # {} => t = DiscoveryOf[tx[x].scan] /\ owner[tx[x].scan] = x
          /\ \A n \in new : ScanOf[n] = tx[x].scan
  \/ tx[x].kind = "fail" /\ \E t \in TaskKey : OwnTask(x, t) /\ row[t] # "none" /\ FailAtOnce(t)
  \/ tx[x].kind = "reclaim" /\ \E ts \in SUBSET TaskKey : ReclaimAtOnce(ts)
  \/ /\ tx[x].kind \in {"cancel", "finalise"} /\ tx[x].scan \in ScanKey
     /\ owner[tx[x].scan] = x /\ SettleAtOnce(tx[x].scan)

LEMMA CommitIs ==
  ASSUME LockInv, NEW x \in Tx, Commit(x)
  PROVE  CommitEffect(x)
<1>1. tx[x].at = "commit" /\ row' = CommittedRow(x) /\ SessionOK(x) /\ tx[x].kind \in TxKind
  BY DEF Commit, CommittedRow, LockInv, LockTypes
<1>2. row \in [Row -> ScanStatus \cup TaskStatus]
  BY DEF LockInv, LockTypes
<1>3. /\ \A s \in ScanKey : s \in Row /\ s \notin TaskKey
      /\ \A t \in TaskKey : t \in Row /\ t \notin ScanKey
      /\ \A r \in Row : r \in ScanKey \/ r \in TaskKey
  BY RowLocksAssumption DEF Row
<1>4. /\ \A s \in ScanKey : row'[s] = IF owner[s] = x THEN WrittenScan(x, s) ELSE row[s]
      /\ \A t \in TaskKey : row'[t] = IF owner[t] = x THEN WrittenTask(x, t) ELSE row[t]
      /\ row' = [r \in Row |-> row'[r]]
  BY <1>1, <1>3 DEF CommittedRow
<1>5. row = [r \in Row |-> row[r]]
  BY <1>2
<1>6. CASE tx[x].kind \in {"progress", "renew", "discard", "redispatch"}
  <2>1. \A t \in TaskKey : owner[t] = x => row[t] # "none"
    <3>1. CASE tx[x].kind = "progress"
      <4>1. SubmissionHolds(x)
        BY <1>1, <3>1 DEF SessionOK, Submission
      <4>2. QED
        BY <4>1, <1>1, <3>1 DEF SubmissionHolds
    <3>2. CASE tx[x].kind \in {"renew", "discard"}
      BY <1>1, <3>2 DEF SessionOK, SingleHolds, OnlyHeld
    <3>3. CASE tx[x].kind = "redispatch"
      BY <1>1, <3>3 DEF SessionOK, SweepHolds, Sweep
    <3>4. QED
      BY <1>6, <3>1, <3>2, <3>3
  <2>2. \A t \in TaskKey : row'[t] = row[t]
    BY <1>4, <1>6, <2>1 DEF WrittenTask
  <2>3. \A s \in ScanKey : row'[s] = row[s]
    BY <1>4, <1>6, <2>1 DEF WrittenScan, FannedOut
  <2>4. \A r \in Row : row'[r] = row[r]
    BY <1>3, <2>2, <2>3
  <2>5. row' = row
    BY <1>4, <1>5, <2>4
  <2>6. QED
    BY <1>6, <2>5 DEF CommitEffect
<1>7. CASE tx[x].kind = "claim"
  <2>1. ClaimHolds(x)
    BY <1>1, <1>7 DEF SessionOK
  <2>2. PICK t \in TaskKey : OwnTask(x, t) /\ OnlyHeld(x, t) /\ row[t] = "queued"
    BY <1>1, <2>1 DEF ClaimHolds
  <2> DEFINE s == ScanOf[t]
             F == [row EXCEPT ![t] = "leased", ![s] = IF @ = "queued" THEN "active" ELSE @]
  <2>3. s = tx[x].scan /\ s \in ScanKey /\ s # t
    BY <2>1, <2>2, <1>3 DEF ClaimHolds, OwnTask
  <2>4. row'[t] = "leased" /\ \A u \in TaskKey : u # t => row'[u] = row[u]
    BY <1>4, <1>7, <2>2 DEF OnlyHeld, WrittenTask
  <2>5. row'[s] = IF row[s] = "queued" THEN "active" ELSE row[s]
    <3>1. CASE OwnScanHeld(x) /\ row[s] = "queued"
      BY <3>1, <1>4, <1>7, <2>3 DEF OwnScanHeld, WrittenScan
    <3>2. CASE NoScanHeld(x) /\ row[s] # "queued"
      BY <3>2, <1>4, <2>3 DEF NoScanHeld
    <3>3. QED
      BY <3>1, <3>2, <2>1, <2>3, <1>1 DEF ClaimHolds
  <2>6. \A q \in ScanKey : q # s => row'[q] = row[q]
    BY <1>1, <1>4, <2>1, <2>3 DEF ClaimHolds, OwnScanHeld, NoScanHeld
  <2>7. F = [r \in Row |-> F[r]] /\ t \in Row /\ s \in Row
    BY <1>2, <1>3, <2>3
  <2>8. \A r \in Row : F[r] = IF r = t THEN "leased" ELSE IF r = s
                              THEN (IF row[s] = "queued" THEN "active" ELSE row[s]) ELSE row[r]
    BY <1>2, <2>3, <2>7
  <2>9. \A r \in Row : row'[r] = F[r]
    BY <1>3, <2>4, <2>5, <2>6, <2>8
  <2> HIDE DEF F
  <2>10. row' = F
    BY <1>4, <2>7, <2>9
  <2>11. ClaimAtOnce(t)
    BY <2>2, <2>10 DEF ClaimAtOnce, F
  <2>12. QED
    BY <1>7, <2>2, <2>11 DEF CommitEffect, OnlyHeld
<1>8. CASE tx[x].kind = "results"
  <2>1. SubmissionHolds(x)
    BY <1>1, <1>8 DEF SessionOK, Submission
  <2>2. OwnScanHeld(x)
    BY <1>1, <2>1 DEF SubmissionHolds
  <2>3. PICK t \in TaskKey :
          /\ OwnTask(x, t) /\ owner[t] = x /\ row[t] = "leased"
          /\ \A u \in TaskKey : owner[u] = x /\ u # t =>
               /\ row[u] = "none" /\ OwnTask(x, u)
               /\ tx[x].kind = "results" /\ t = DiscoveryOf[tx[x].scan]
               /\ row[tx[x].scan] # "settled"
    BY <1>1, <2>1 DEF SubmissionHolds
  <2> DEFINE new == {u \in TaskKey : owner[u] = x /\ u # t}
             s == ScanOf[t]
             F == [r \in Row |-> IF r = t THEN "final" ELSE IF r \in new THEN "queued"
                                 ELSE IF r = s /\ new # {} THEN "active" ELSE row[r]]
  <2>4. s = tx[x].scan /\ s \in ScanKey /\ owner[s] = x
    BY <2>2, <2>3 DEF OwnScanHeld, OwnTask
  <2>5. new \in SUBSET TaskKey /\ \A n \in new : /\ row[n] = "none" /\ ScanOf[n] = s
                                                 /\ row[s] # "settled" /\ t = DiscoveryOf[tx[x].scan]
    BY <2>3, <2>4 DEF OwnTask
  <2>6. FannedOut(x) <=> new # {}
    BY <2>3 DEF FannedOut
  <2>7. /\ row'[t] = "final"
        /\ \A u \in new : row'[u] = "queued"
        /\ \A u \in TaskKey : u # t /\ u \notin new => row'[u] = row[u]
    BY <1>4, <1>8, <2>3 DEF WrittenTask
  <2>8. \A q \in ScanKey : row'[q] = IF q = s /\ new # {} THEN "active" ELSE row[q]
    BY <1>4, <1>8, <2>2, <2>4, <2>6 DEF WrittenScan, OwnScanHeld
  <2> HIDE DEF new, s
  <2>9. \A r \in Row : row'[r] = F[r]
    <3>1. \A u \in TaskKey : u # s /\ u \in Row
      BY <1>3, <2>4
    <3>2. \A q \in ScanKey : q # t /\ q \notin new
      BY <1>3, <2>5
    <3>3. \A u \in TaskKey : row'[u] = F[u]
      BY <2>5, <2>7, <3>1
    <3>4. \A q \in ScanKey : row'[q] = F[q]
      BY <1>3, <2>8, <3>2
    <3>5. QED
      BY <1>3, <3>3, <3>4
  <2>10. row' = F
    BY <1>4, <2>9
  <2>11. ResultsAtOnce(t, new)
    BY <2>3, <2>5, <2>10 DEF ResultsAtOnce, s
  <2>12. QED
    BY <1>8, <2>3, <2>4, <2>5, <2>11 DEF CommitEffect
<1>9. CASE tx[x].kind = "fail"
  <2>1. SingleHolds(x)
    BY <1>1, <1>9 DEF SessionOK
  <2>2. PICK t \in TaskKey : OwnTask(x, t) /\ OnlyHeld(x, t) /\ row[t] # "none"
    BY <1>1, <2>1 DEF SingleHolds
  <2> DEFINE F == [row EXCEPT ![t] = "final"]
  <2>3. row'[t] = "final" /\ \A u \in TaskKey : u # t => row'[u] = row[u]
    BY <1>4, <1>9, <2>2 DEF OnlyHeld, WrittenTask
  <2>4. \A q \in ScanKey : row'[q] = row[q]
    BY <1>4, <2>1 DEF SingleHolds, NoScanHeld
  <2>5. \A r \in Row : F[r] = IF r = t THEN "final" ELSE row[r]
    BY <1>2
  <2>6. \A r \in Row : row'[r] = F[r]
    BY <1>3, <2>3, <2>4, <2>5
  <2>7. F = [r \in Row |-> F[r]]
    BY <1>2
  <2> HIDE DEF F
  <2>8. row' = F
    BY <1>4, <2>6, <2>7
  <2>9. FailAtOnce(t)
    BY <1>9, <2>1, <2>2, <2>8 DEF FailAtOnce, F, SingleHolds, OwnTask
  <2>10. QED
    BY <1>9, <2>2, <2>9 DEF CommitEffect
<1>10. CASE tx[x].kind = "reclaim"
  <2>1. SweepHolds(x)
    BY <1>1, <1>10 DEF SessionOK, Sweep
  <2> DEFINE ts == {t \in TaskKey : owner[t] = x}
             F == [r \in Row |-> IF r \in ts THEN "queued" ELSE row[r]]
  <2>2. \A t \in ts : row[t] = "leased"
    BY <1>10, <2>1 DEF SweepHolds
  <2>3. \A t \in TaskKey : row'[t] = IF t \in ts THEN "queued" ELSE row[t]
    BY <1>4, <1>10 DEF WrittenTask
  <2>4. \A q \in ScanKey : row'[q] = row[q]
    BY <1>4, <2>1 DEF SweepHolds, NoScanHeld
  <2>5. \A r \in Row : row'[r] = F[r]
    BY <1>3, <2>3, <2>4
  <2>6. row' = F
    BY <1>4, <2>5
  <2>7. ts \in SUBSET TaskKey
    OBVIOUS
  <2> HIDE DEF ts
  <2>8. ReclaimAtOnce(ts)
    BY <2>2, <2>6 DEF ReclaimAtOnce
  <2>9. QED
    BY <1>10, <2>7, <2>8 DEF CommitEffect
<1>11. CASE tx[x].kind \in {"cancel", "finalise"}
  <2> DEFINE s == tx[x].scan
             F == [r \in Row |-> IF r = s THEN "settled"
                       ELSE IF r \in TasksIn(s) /\ row[r] \in {"queued", "leased"} THEN "final"
                       ELSE row[r]]
  <2>1. OwnScanHeld(x) /\ s \in ScanKey /\ owner[s] = x
    BY <1>1, <1>11 DEF SessionOK, CancelHolds, FinaliseHolds, OwnScanHeld
  <2>2. row'[s] = "settled" /\ \A q \in ScanKey : q # s => row'[q] = row[q]
    BY <1>4, <1>11, <2>1 DEF OwnScanHeld, WrittenScan
  <2>3. \A t \in TaskKey : row'[t] = IF ScanOf[t] = s /\ row[t] \in {"queued", "leased"}
                                     THEN "final" ELSE row[t]
    <3>1. CASE tx[x].kind = "finalise"
      BY <3>1, <1>1, <1>4 DEF SessionOK, FinaliseHolds, NoTaskHeld, OwnTask
    <3>2. CASE tx[x].kind = "cancel"
      <4>1. CancelHolds(x)
        BY <3>2, <1>1 DEF SessionOK
      <4> SUFFICES ASSUME NEW t \in TaskKey
                   PROVE  row'[t] = IF ScanOf[t] = s /\ row[t] \in {"queued", "leased"}
                                    THEN "final" ELSE row[t]
        OBVIOUS
      <4>2. CASE owner[t] = x
        BY <4>1, <4>2, <1>4, <3>2 DEF CancelHolds, OwnTask, WrittenTask
      <4>3. CASE owner[t] # x
        BY <4>1, <4>3, <1>1, <1>4 DEF CancelHolds, OwnTask
      <4>4. QED
        BY <4>2, <4>3
    <3>3. QED
      BY <1>11, <3>1, <3>2
  <2>4. \A r \in Row : row'[r] = F[r]
    BY <1>3, <2>1, <2>2, <2>3 DEF TasksIn
  <2>5. row' = F
    BY <1>4, <2>4
  <2>6. SettleAtOnce(s)
    BY <2>5 DEF SettleAtOnce
  <2>7. QED
    BY <1>11, <2>1, <2>6 DEF CommitEffect
<1>12. tx[x].kind # "none"
  BY <1>1, IdleTyped DEF SessionOK
<1>13. QED
  BY <1>1, <1>6, <1>7, <1>8, <1>9, <1>10, <1>11, <1>12 DEF TxKind, Submission, Sweep

\* What a commit means to everyone else.
CommitFacts(x) ==
  /\ \A t \in TaskKey :
       /\ row'[t] \in TaskStatus
       /\ row[t] = "final" => row'[t] = "final"
       /\ row[t] # "none" => row'[t] # "none"
       /\ row[t] = "none" /\ row'[t] # "none" =>
            owner[ScanOf[t]] = x /\ row[DiscoveryOf[ScanOf[t]]] = "leased"
       /\ row'[ScanOf[t]] = "queued" => row'[t] = row[t]
  /\ \A s \in ScanKey :
       /\ row'[s] \in ScanStatus
       /\ row[s] # "queued" => row'[s] # "queued"
       /\ row[s] = "queued" /\ row'[s] # "queued" => owner[DiscoveryOf[s]] = x

LEMMA CommitMeans ==
  ASSUME LockInv, NEW x \in Tx, Commit(x)
  PROVE  CommitFacts(x)
<1>1. CommitEffect(x) /\ SessionOK(x) /\ tx[x].at = "commit"
  BY CommitIs DEF Commit, LockInv
<1>2. /\ row \in [Row -> ScanStatus \cup TaskStatus]
      /\ \A s \in ScanKey : row[s] \in ScanStatus
      /\ \A t \in TaskKey : row[t] \in TaskStatus
  BY DEF LockInv, LockTypes
<1>3. /\ \A s \in ScanKey : s \in Row /\ s \notin TaskKey
      /\ \A t \in TaskKey : t \in Row /\ t \notin ScanKey
      /\ \A t \in TaskKey : ScanOf[t] \in ScanKey
      /\ \A s \in ScanKey : DiscoveryOf[s] \in TaskKey /\ ScanOf[DiscoveryOf[s]] = s
  BY RowLocksAssumption DEF Row
\* In a queued scan nothing is leased and only the discovery is queued.
<1>4. \A t \in TaskKey : row[ScanOf[t]] = "queued" =>
        row[t] = IF t = DiscoveryOf[ScanOf[t]] THEN "queued" ELSE "none"
  BY DEF LockInv, RowsInv, FreshScans
<1>5. CASE row' = row
  BY <1>2, <1>3, <1>5 DEF CommitFacts
<1>6. ASSUME NEW t \in TaskKey, OwnTask(x, t), owner[t] = x, ClaimAtOnce(t)
      PROVE  CommitFacts(x)
  <2>1. /\ row[t] = "queued" /\ row'[t] = "leased"
        /\ \A u \in TaskKey : u # t => row'[u] = row[u]
        /\ \A s \in ScanKey : row'[s] = IF s = ScanOf[t] /\ row[s] = "queued" THEN "active" ELSE row[s]
    BY <1>2, <1>3, <1>6 DEF ClaimAtOnce
  <2>2. row[ScanOf[t]] = "queued" => t = DiscoveryOf[ScanOf[t]]
    BY <1>4, <2>1
  <2>3. QED
    BY <1>2, <1>3, <1>6, <2>1, <2>2 DEF CommitFacts, TaskStatus, ScanStatus
<1>7. ASSUME NEW t \in TaskKey, NEW new \in SUBSET TaskKey, OwnTask(x, t), ResultsAtOnce(t, new),
             new # {} => t = DiscoveryOf[tx[x].scan] /\ owner[tx[x].scan] = x,
             \A n \in new : ScanOf[n] = tx[x].scan
      PROVE  CommitFacts(x)
  <2>1. row[t] = "leased" /\ ScanOf[t] = tx[x].scan /\ \A n \in new : row[n] = "none"
    BY <1>7 DEF ResultsAtOnce, OwnTask
  <2>2. \A u \in TaskKey : row'[u] = IF u = t THEN "final" ELSE IF u \in new THEN "queued" ELSE row[u]
    BY <1>3, <1>7 DEF ResultsAtOnce
  <2>3. \A s \in ScanKey : row'[s] = IF s = ScanOf[t] /\ new # {} THEN "active" ELSE row[s]
    BY <1>3, <1>7 DEF ResultsAtOnce
  <2>4. row[ScanOf[t]] # "queued"
    BY <1>3, <1>4, <2>1
  <2>5. \A n \in new : owner[ScanOf[n]] = x /\ row[DiscoveryOf[ScanOf[n]]] = "leased" /\ ScanOf[n] = ScanOf[t]
    BY <1>7, <2>1
  <2>6. \A u \in TaskKey : row'[ScanOf[u]] = "queued" => row'[u] = row[u]
    BY <1>3, <2>2, <2>3, <2>4, <2>5
  <2>7. QED
    BY <1>2, <1>3, <2>1, <2>2, <2>3, <2>4, <2>5, <2>6 DEF CommitFacts, TaskStatus, ScanStatus
<1>8. ASSUME NEW t \in TaskKey, row[t] # "none", FailAtOnce(t)
      PROVE  CommitFacts(x)
  <2>1. row'[t] = "final" /\ row[ScanOf[t]] # "queued"
    BY <1>2, <1>3, <1>8 DEF FailAtOnce
  <2>2. (\A u \in TaskKey : u # t => row'[u] = row[u]) /\ (\A s \in ScanKey : row'[s] = row[s])
    BY <1>2, <1>3, <1>8 DEF FailAtOnce
  <2>3. QED
    BY <1>2, <1>3, <1>8, <2>1, <2>2 DEF CommitFacts, TaskStatus
<1>9. ASSUME NEW ts \in SUBSET TaskKey, ReclaimAtOnce(ts)
      PROVE  CommitFacts(x)
  <2>1. /\ \A t \in ts : row[t] = "leased"
        /\ \A u \in TaskKey : row'[u] = IF u \in ts THEN "queued" ELSE row[u]
        /\ \A s \in ScanKey : row'[s] = row[s]
    BY <1>3, <1>9 DEF ReclaimAtOnce
  <2>2. \A u \in ts : row[ScanOf[u]] # "queued"
    BY <1>4, <2>1
  <2>3. QED
    BY <1>2, <1>3, <2>1, <2>2 DEF CommitFacts, TaskStatus
<1>10. ASSUME NEW s \in ScanKey, tx[x].kind \in {"cancel", "finalise"}, s = tx[x].scan, SettleAtOnce(s)
       PROVE  CommitFacts(x)
  <2>1. /\ \A u \in TaskKey : row'[u] = IF ScanOf[u] = s /\ row[u] \in {"queued", "leased"}
                                        THEN "final" ELSE row[u]
        /\ \A q \in ScanKey : row'[q] = IF q = s THEN "settled" ELSE row[q]
    BY <1>3, <1>10 DEF SettleAtOnce, TasksIn
  <2>2. row[s] = "queued" => row[DiscoveryOf[s]] = "queued"
    BY <1>3, <1>4
  <2>3. row[s] = "queued" => owner[DiscoveryOf[s]] = x
    <3>1. CASE tx[x].kind = "finalise"
      BY <1>1, <1>10, <2>2, <3>1 DEF SessionOK, FinaliseHolds
    <3>2. CASE tx[x].kind = "cancel"
      <4>1. CancelHolds(x)
        BY <1>1, <3>2 DEF SessionOK
      <4>2. tx[x].todo = {} /\ OwnTask(x, DiscoveryOf[s])
        BY <1>1, <1>3, <1>10, <4>1 DEF CancelHolds, OwnTask
      <4>3. QED
        BY <1>1, <2>2, <4>1, <4>2 DEF CancelHolds, OwnTask
    <3>3. QED
      BY <1>10, <3>1, <3>2
  <2>4. QED
    BY <1>2, <1>3, <2>1, <2>3 DEF CommitFacts, TaskStatus, ScanStatus
<1>11. QED
  BY <1>1, <1>5, <1>6, <1>7, <1>8, <1>9, <1>10 DEF CommitEffect

\* A session is as it was when another commits.
LEMMA OthersAfterCommit ==
  ASSUME LockInv, NEW x \in Tx, CommitFacts(x), NEW y \in Tx, y # x, tx'[y] = tx[y],
         \A r \in Row : owner[r] # x => row'[r] = row[r],
         \A r \in Row : owner'[r] = y <=> owner[r] = y
  PROVE  SessionOK(y)'
<1>1. SessionOK(y) /\ tx[y].todo \in SUBSET TaskKey /\ tx[y].kind \in TxKind
  BY DEF LockInv, LockTypes
<1>2. /\ \A s \in ScanKey : s \in Row
      /\ \A t \in TaskKey : t \in Row
      /\ \A t \in TaskKey : ScanOf[t] \in ScanKey
      /\ \A s \in ScanKey : DiscoveryOf[s] \in TaskKey /\ ScanOf[DiscoveryOf[s]] = s
  BY RowLocksAssumption DEF Row
<1>3. /\ \A s \in ScanKey : (owner'[s] = y <=> owner[s] = y) /\ (owner[s] = y => row'[s] = row[s])
      /\ \A t \in TaskKey : (owner'[t] = y <=> owner[t] = y) /\ (owner[t] = y => row'[t] = row[t])
  BY <1>2
<1>4. /\ \A t \in TaskKey : row[t] = "final" => row'[t] = "final"
      /\ \A t \in TaskKey : row[t] # "none" => row'[t] # "none"
      /\ \A t \in TaskKey : row[t] = "none" /\ row'[t] # "none" =>
           owner[ScanOf[t]] = x /\ row[DiscoveryOf[ScanOf[t]]] = "leased"
      /\ \A s \in ScanKey : row[s] # "queued" => row'[s] # "queued"
      /\ \A s \in ScanKey : row[s] = "queued" /\ row'[s] # "queued" => owner[DiscoveryOf[s]] = x
  BY DEF CommitFacts
<1>5. /\ NoScanHeld(y)' <=> NoScanHeld(y)
      /\ NoTaskHeld(y)' <=> NoTaskHeld(y)
      /\ OwnScanHeld(y)' <=> OwnScanHeld(y)
      /\ OneToDo(y)' <=> OneToDo(y)
      /\ \A t \in TaskKey : (OwnTask(y, t)' <=> OwnTask(y, t)) /\ (OnlyHeld(y, t)' <=> OnlyHeld(y, t))
  BY <1>3 DEF NoScanHeld, NoTaskHeld, OwnScanHeld, OneToDo, OwnTask, OnlyHeld
<1>6. \A t \in tx'[y].todo : row'[t] # "none"
  BY <1>1, <1>4 DEF SessionOK
<1>7. ASSUME tx[y].kind \in Submission PROVE SubmissionHolds(y)'
  <2>1. SubmissionHolds(y)
    BY <1>1, <1>7 DEF SessionOK
  <2>2. ASSUME tx[y].at = "fan_out"
        PROVE  /\ tx[y].kind = "results" /\ OwnScanHeld(y) /\ tx[y].todo = {}
               /\ OnlyHeld(y, DiscoveryOf[tx[y].scan]) /\ row'[DiscoveryOf[tx[y].scan]] = "leased"
    BY <1>2, <1>3, <2>1, <2>2 DEF SubmissionHolds, OwnScanHeld, OnlyHeld
  <2>3. ASSUME tx[y].at = "commit"
        PROVE  /\ OwnScanHeld(y) /\ tx[y].todo = {}
               /\ \E t \in TaskKey :
                    /\ OwnTask(y, t) /\ owner'[t] = y /\ row'[t] = "leased"
                    /\ \A u \in TaskKey : owner'[u] = y /\ u # t =>
                         /\ row'[u] = "none" /\ OwnTask(y, u)
                         /\ tx[y].kind = "results" /\ t = DiscoveryOf[tx[y].scan]
                         /\ row'[tx[y].scan] # "settled"
    <3>1. PICK t \in TaskKey :
            /\ OwnTask(y, t) /\ owner[t] = y /\ row[t] = "leased"
            /\ \A u \in TaskKey : owner[u] = y /\ u # t =>
                 /\ row[u] = "none" /\ OwnTask(y, u)
                 /\ tx[y].kind = "results" /\ t = DiscoveryOf[tx[y].scan]
                 /\ row[tx[y].scan] # "settled"
      BY <2>1, <2>3 DEF SubmissionHolds
    <3>2. OwnScanHeld(y) /\ tx[y].todo = {} /\ row'[tx[y].scan] = row[tx[y].scan]
      BY <1>3, <2>1, <2>3 DEF SubmissionHolds, OwnScanHeld
    <3>3. QED
      BY <1>3, <3>1, <3>2
  <2>4. tx[y].at = "scan" => NoScanHeld(y) /\ NoTaskHeld(y) /\ OneToDo(y)
    BY <2>1 DEF SubmissionHolds
  <2>5. tx[y].at = "tasks" => OwnScanHeld(y) /\ NoTaskHeld(y) /\ OneToDo(y)
    BY <2>1 DEF SubmissionHolds
  <2>6. tx[y].at \in {"scan", "tasks", "fan_out", "commit"}
    BY <2>1 DEF SubmissionHolds
  <2>7. DiscoveryOf[tx[y].scan] \in TaskKey \/ tx[y].at # "fan_out"
    BY <1>2, <2>2 DEF OwnScanHeld
  <2>8. QED
    BY <1>5, <2>2, <2>3, <2>4, <2>5, <2>6, <2>7 DEF SubmissionHolds
<1>8. ASSUME tx[y].kind = "claim" PROVE ClaimHolds(y)'
  <2>1. ClaimHolds(y)
    BY <1>1, <1>8 DEF SessionOK
  \* The row it has read as queued still is: who changes it has the discovery's lock.
  <2>2. ASSUME tx[y].at = "scan" PROVE row'[tx[y].scan] = "queued"
    <3>1. PICK t \in TaskKey : OwnTask(y, t) /\ owner[t] = y /\ row[t] = "queued"
      BY <2>1, <2>2 DEF ClaimHolds, OnlyHeld
    <3>2. row[ScanOf[t]] = "queued" /\ ScanOf[t] = tx[y].scan /\ tx[y].scan \in ScanKey
      BY <2>1, <2>2, <3>1 DEF ClaimHolds, OwnTask
    <3>3. t = DiscoveryOf[tx[y].scan]
      BY <3>1, <3>2 DEF LockInv, RowsInv, FreshScans
    <3>4. QED
      BY <1>4, <3>1, <3>2, <3>3
  <2>3. ASSUME tx[y].at # "tasks"
        PROVE  tx[y].todo = {} /\ \E t \in TaskKey : OwnTask(y, t) /\ OnlyHeld(y, t) /\ row'[t] = "queued"
    BY <1>3, <2>1, <2>3 DEF ClaimHolds, OnlyHeld
  <2>4. ASSUME tx[y].at = "commit"
        PROVE  \/ OwnScanHeld(y) /\ row'[tx[y].scan] = "queued"
               \/ NoScanHeld(y) /\ row'[tx[y].scan] # "queued"
    BY <1>3, <1>4, <2>1, <2>4 DEF ClaimHolds, OwnScanHeld
  <2>5. /\ tx[y].scan \in ScanKey
        /\ tx[y].at \in {"tasks", "read", "scan", "commit"}
        /\ tx[y].at = "tasks" => NoTaskHeld(y) /\ OneToDo(y)
        /\ tx[y].at # "commit" => NoScanHeld(y)
    BY <2>1 DEF ClaimHolds
  <2>6. QED
    BY <1>5, <2>2, <2>3, <2>4, <2>5 DEF ClaimHolds
<1>9. ASSUME tx[y].kind \in {"renew", "fail", "discard"} PROVE SingleHolds(y)'
  <2>1. SingleHolds(y)
    BY <1>1, <1>9 DEF SessionOK
  <2>2. ASSUME tx[y].at = "commit"
        PROVE  tx[y].todo = {} /\ \E t \in TaskKey : OwnTask(y, t) /\ OnlyHeld(y, t) /\ row'[t] # "none"
    BY <1>3, <2>1, <2>2 DEF SingleHolds, OnlyHeld
  <2>3. QED
    BY <1>4, <1>5, <2>1, <2>2 DEF SingleHolds
<1>10. ASSUME tx[y].kind = "cancel" PROVE CancelHolds(y)'
  <2>1. CancelHolds(y)
    BY <1>1, <1>10 DEF SessionOK
  <2>2. ASSUME NEW t \in TaskKey, OwnTask(y, t), tx[y].at \in {"tasks", "commit"}
        PROVE  t \in tx[y].todo \/ owner'[t] = y \/ row'[t] \in {"none", "final"}
    <3>1. owner[ScanOf[t]] = y
      BY <2>1, <2>2 DEF CancelHolds, OwnScanHeld, OwnTask
    <3>2. t \in tx[y].todo \/ owner[t] = y \/ row[t] \in {"none", "final"}
      BY <2>1, <2>2 DEF CancelHolds
    <3>3. QED
      BY <1>3, <1>4, <3>1, <3>2
  <2>3. \A t \in TaskKey : owner'[t] = y => OwnTask(y, t) /\ row'[t] \in {"queued", "leased"}
    BY <1>3, <2>1 DEF CancelHolds
  <2>4. \A t \in tx[y].todo : OwnTask(y, t) /\ t \in TaskKey
    BY <1>1, <2>1 DEF CancelHolds
  <2>5. /\ tx[y].scan \in ScanKey
        /\ tx[y].at \in {"scan", "select", "tasks", "commit"}
        /\ tx[y].at = "scan" => NoScanHeld(y)
        /\ tx[y].at # "scan" => OwnScanHeld(y)
        /\ tx[y].at \in {"scan", "select"} => NoTaskHeld(y) /\ tx[y].todo = {}
        /\ tx[y].at = "commit" => tx[y].todo = {}
    BY <2>1 DEF CancelHolds
  <2>6. QED
    BY <1>5, <2>2, <2>3, <2>4, <2>5 DEF CancelHolds
<1>11. ASSUME tx[y].kind = "finalise" PROVE FinaliseHolds(y)'
  <2>1. FinaliseHolds(y)
    BY <1>1, <1>11 DEF SessionOK
  <2>2. tx[y].scan \in ScanKey /\ row[DiscoveryOf[tx[y].scan]] = "final"
    BY <2>1 DEF FinaliseHolds
  <2>3. \A t \in TaskKey : OwnTask(y, t) => row'[t] \in {"none", "final"}
    BY <1>4, <2>1, <2>2 DEF FinaliseHolds, OwnTask
  <2>4. row'[DiscoveryOf[tx[y].scan]] = "final"
    BY <1>2, <1>4, <2>2
  <2>5. QED
    BY <1>5, <2>1, <2>3, <2>4 DEF FinaliseHolds
<1>12. ASSUME tx[y].kind \in Sweep PROVE SweepHolds(y)'
  <2>1. SweepHolds(y)
    BY <1>1, <1>12 DEF SessionOK
  <2>2. QED
    BY <1>3, <1>5, <2>1 DEF SweepHolds
<1>13. QED
  BY <1>1, <1>5, <1>6, <1>7, <1>8, <1>9, <1>10, <1>11, <1>12 DEF SessionOK

LEMMA CommitKeeps ==
  ASSUME LockInv, NEW x \in Tx, Commit(x)
  PROVE  LockInv'
<1>1. CommitFacts(x) /\ CommitEffect(x)
  BY CommitMeans, CommitIs
<1>2. /\ row' = CommittedRow(x)
      /\ owner' = Released(x)
      /\ tx[x].at = "commit"
  BY DEF Commit, CommittedRow
<1>3. PICK c : /\ tx' = [tx EXCEPT ![x] = c]
               /\ \/ c = Idle
                  \/ \E k \in {"fail", "discard"}, t \in TaskKey :
                       tx[x].kind = "claim" /\ owner[t] = x /\ c = Started(k, tx[x].scan, {t})
  BY Zenon DEF Commit, AfterCommit
<1>4. tx \in [Tx -> TxRecord] /\ owner \in [Row -> Tx \cup {NoTx}] /\ SessionOK(x)
  BY DEF LockInv, LockTypes, TxRecord
<1>5. /\ \A s \in ScanKey : s \in Row /\ s \notin TaskKey
      /\ \A t \in TaskKey : t \in Row /\ t \notin ScanKey
      /\ \A t \in TaskKey : ScanOf[t] \in ScanKey
      /\ \A s \in ScanKey : DiscoveryOf[s] \in TaskKey
      /\ \A r \in Row : r \in ScanKey \/ r \in TaskKey
      /\ NoTx \notin Tx
  BY RowLocksAssumption DEF Row
<1>6. /\ owner' \in [Row -> Tx \cup {NoTx}]
      /\ \A r \in Row : owner'[r] # x
      /\ \A r \in Row, y \in Tx : y # x => (owner'[r] = y <=> owner[r] = y)
  BY <1>2, <1>4, <1>5 DEF Released
<1>7. \A r \in Row : owner[r] # x => row'[r] = row[r]
  BY <1>2 DEF CommittedRow
<1>8. /\ \A s \in ScanKey : row'[s] \in ScanStatus
      /\ \A t \in TaskKey : row'[t] \in TaskStatus
  BY <1>1 DEF CommitFacts
<1>9. row' \in [Row -> ScanStatus \cup TaskStatus]
  <2>1. row' = [r \in Row |-> row'[r]]
    BY <1>2 DEF CommittedRow
  <2>2. \A r \in Row : row'[r] \in ScanStatus \cup TaskStatus
    BY <1>5, <1>8
  <2>3. QED
    BY <2>1, <2>2
<1>10. RowsInv'
  <2>1. FreshScans'
    BY <1>1, <1>5 DEF CommitFacts, LockInv, RowsInv, FreshScans
  <2>2. DiscoveriesExist'
    BY <1>1, <1>5 DEF CommitFacts, LockInv, RowsInv, DiscoveriesExist
  <2>3. QED
    BY <2>1, <2>2 DEF RowsInv
<1>11. NoScanHeld(x)' /\ NoTaskHeld(x)'
  BY <1>5, <1>6 DEF NoScanHeld, NoTaskHeld
<1>12. c \in TxRecord /\ (tx'[x] = c => SessionOK(x)')
  <2>1. CASE c = Idle
    BY <2>1, <1>11, IdleTyped DEF SessionOK, Submission, Sweep
  <2>2. ASSUME NEW k \in {"fail", "discard"}, NEW t \in TaskKey, tx[x].kind = "claim", owner[t] = x,
               c = Started(k, tx[x].scan, {t})
        PROVE  c \in TxRecord /\ (tx'[x] = c => SessionOK(x)')
    <3>1. ClaimHolds(x) /\ tx[x].scan \in ScanKey
      BY <1>4, <2>2 DEF SessionOK, ClaimHolds
    <3>2. PICK u \in TaskKey : OwnTask(x, u) /\ OnlyHeld(x, u) /\ row[u] = "queued"
      BY <1>2, <3>1 DEF ClaimHolds
    <3>3. ScanOf[t] = tx[x].scan /\ row[t] = "queued"
      BY <2>2, <3>2 DEF OnlyHeld, OwnTask
    <3>4. row'[tx[x].scan] # "queued"
      <4>1. PICK v \in TaskKey : OwnTask(x, v) /\ ClaimAtOnce(v)
        BY <1>1, <2>2 DEF CommitEffect
      <4>2. ScanOf[v] = tx[x].scan /\ v # tx[x].scan /\ tx[x].scan \in Row
        BY <1>5, <3>1, <4>1 DEF OwnTask
      <4>3. row \in [Row -> ScanStatus \cup TaskStatus]
        BY DEF LockInv, LockTypes
      <4>4. QED
        BY <4>1, <4>2, <4>3 DEF ClaimAtOnce
    <3>5. /\ k \in TxKind \ {"none"} /\ tx[x].scan \in ScanKey \cup {NoTx} /\ {t} \in SUBSET TaskKey
          /\ row'[t] # "none"
      BY <1>1, <2>2, <3>1, <3>3 DEF TxKind, CommitFacts
    <3>6. /\ c \in TxRecord /\ c.kind = k /\ c.scan = tx[x].scan /\ c.todo = {t} /\ c.at = "tasks"
      BY <2>2, <3>5, StartedTyped, OrderIs DEF TasksOnly, Started
    <3>7. ASSUME tx'[x] = c PROVE SingleHolds(x)'
      BY <1>11, <2>2, <3>1, <3>3, <3>4, <3>6, <3>7 DEF SingleHolds, OneToDo, OwnTask
    <3>8. QED
      BY <2>2, <3>5, <3>6, <3>7 DEF SessionOK, Submission, Sweep
  <2>3. QED
    BY <1>3, <2>1, <2>2
<1>13. tx' \in [Tx -> TxRecord] /\ tx'[x] = c /\ \A y \in Tx : y # x => tx'[y] = tx[y]
  BY <1>3, <1>4, <1>12
<1>14. \A y \in Tx : SessionOK(y)'
  <2> SUFFICES ASSUME NEW y \in Tx PROVE SessionOK(y)'
    OBVIOUS
  <2>1. CASE y = x
    BY <2>1, <1>12, <1>13
  <2>2. CASE y # x
    BY <2>2, <1>1, <1>6, <1>7, <1>13, OthersAfterCommit
  <2>3. QED
    BY <2>1, <2>2
<1>15. LockTypes'
  BY <1>6, <1>8, <1>9, <1>13 DEF LockTypes, TxRecord
<1>16. QED
  BY <1>10, <1>14, <1>15 DEF LockInv

LEMMA LockInvStep == LockInv /\ [RowLocksNext]_rlvars => LockInv'
<1> SUFFICES ASSUME LockInv, [RowLocksNext]_rlvars PROVE LockInv'
  OBVIOUS
<1>1. CASE UNCHANGED rlvars
  <2>1. row' = row /\ owner' = owner /\ tx' = tx
    BY <1>1 DEF rlvars
  <2>2. \A y \in Tx : SessionOK(y)'
    BY <2>1, SessionKept, RowLocksAssumption DEF LockInv
  <2>3. LockTypes' /\ RowsInv'
    BY <2>1 DEF LockInv, LockTypes, RowsInv, FreshScans, DiscoveriesExist
  <2>4. QED
    BY <2>2, <2>3 DEF LockInv
<1>2. CASE RowLocksNext
  <2>1. PICK x \in Tx : Begin(x) \/ Statement(x) \/ Rollback(x)
    BY <1>2 DEF RowLocksNext
  <2>2. CASE Statement(x)
    BY <2>2, LockKeeps, MissKeeps, ClaimReadKeeps, CancelSelectKeeps, FanOutKeeps, CommitKeeps
    DEF Statement
  <2>3. QED
    BY <2>1, <2>2, BeginKeeps, RollbackKeeps
<1>3. QED
  BY <1>1, <1>2

LEMMA RowLocksInvariant == RowLocksSpec => []LockInv
BY LockInvInit, LockInvStep, PTL DEF RowLocksSpec

\* The rows of scans and tasks keep their statuses, a session its place in its
\* transaction, and a session that is between transactions holds no row's lock: no path
\* of a submission, a claim, a cancellation or a sweep returns with a lock.
THEOREM RowLocksTyped == RowLocksSpec => []RowLocksTypeOK
<1>1. LockInv => RowLocksTypeOK
  <2> SUFFICES ASSUME LockInv PROVE RowLocksTypeOK
    OBVIOUS
  <2>1. ASSUME NEW r \in Row, owner[r] # NoTx PROVE tx[owner[r]] # Idle
    <3>1. owner[r] \in Tx
      BY <2>1 DEF LockInv, LockTypes
    <3>2. SUFFICES ASSUME tx[owner[r]] = Idle PROVE FALSE
      OBVIOUS
    <3>3. NoScanHeld(owner[r]) /\ NoTaskHeld(owner[r])
      BY <3>1, <3>2, IdleHoldsNothing
    <3>4. QED
      BY <2>1, <3>3 DEF NoScanHeld, NoTaskHeld, Row
  <2>2. QED
    BY <2>1 DEF LockInv, LockTypes, RowLocksTypeOK
<1>2. QED
  BY <1>1, RowLocksInvariant, PTL

----------------------------------------------------------------------------
(* RowLocks: who can be in a deadlock. *)

\* One that is in a deadlock is at a statement that locks, and holds a row.
LEMMA InDeadlock ==
  ASSUME LockInv, NEW xs \in SUBSET Tx, Deadlocked(xs), NEW x \in xs
  PROVE  /\ x \in Tx /\ SessionOK(x) /\ tx[x].kind \in TxKind /\ tx[x].todo \in SUBSET TaskKey
         /\ tx[x].at \in {"scan", "tasks"}
         /\ \E y \in xs : y # x /\ \E r \in Target(x) : Selects(tx[x].kind, r) /\ owner[r] = y
         /\ \E z \in xs : z # x /\ \E r \in Target(z) : Selects(tx[z].kind, r) /\ owner[r] = x
<1>1. x \in Tx /\ SessionOK(x) /\ tx[x].kind \in TxKind /\ tx[x].todo \in SUBSET TaskKey
  BY DEF LockInv, LockTypes
<1>2. \E y \in xs : y # x /\ \E r \in Target(x) : Selects(tx[x].kind, r) /\ owner[r] = y
  BY DEF Deadlocked, WaitsFor
<1>3. \E z \in xs : z # x /\ \E r \in Target(z) : Selects(tx[z].kind, r) /\ owner[r] = x
  BY DEF Deadlocked, WaitsFor
<1>4. tx[x].at \in {"scan", "tasks"}
  BY <1>2 DEF Target
<1>5. QED
  BY <1>1, <1>2, <1>3, <1>4

\* What it waits for is its scan at "scan" and one of its tasks at "tasks".
LEMMA TargetIs ==
  ASSUME LockInv, NEW z \in Tx, NEW r \in Target(z), tx[z].at = "scan" => tx[z].scan \in ScanKey
  PROVE  /\ r \in Row
         /\ r \in ScanKey => tx[z].at = "scan" /\ r = tx[z].scan
         /\ r \in TaskKey => tx[z].at = "tasks" /\ r \in tx[z].todo
<1>1. tx[z].todo \in SUBSET TaskKey
  BY DEF LockInv, LockTypes
<1>2. QED
  BY <1>1, RowLocksAssumption DEF Target, Row

\* Holding a row while waiting is for claims, cancellations and sweeps, and for a
\* submission that has its scan.
LEMMA HolderIs ==
  ASSUME LockInv, NEW xs \in SUBSET Tx, Deadlocked(xs), NEW x \in xs
  PROVE  /\ tx[x].at = "scan" => tx[x].kind = "claim" /\ tx[x].scan \in ScanKey
         /\ tx[x].kind \in Submission \cup {"claim", "cancel"} \cup Sweep
         /\ tx[x].kind = "claim" => tx[x].at = "scan"
         /\ tx[x].kind \in Submission => tx[x].at = "tasks"
<1>1. /\ x \in Tx /\ SessionOK(x) /\ tx[x].kind \in TxKind /\ tx[x].at \in {"scan", "tasks"}
      /\ \E z \in xs : z # x /\ \E r \in Target(z) : Selects(tx[z].kind, r) /\ owner[r] = x
  BY InDeadlock
<1>2. PICK z \in xs : \E r \in Target(z) : owner[r] = x
  BY <1>1
<1>3. PICK r \in Target(z) : owner[r] = x
  BY <1>2
<1>4. z \in Tx /\ SessionOK(z) /\ tx[z].kind \in TxKind
  BY InDeadlock
<1>5. tx[z].at = "scan" => tx[z].scan \in ScanKey
  BY <1>4, IdleTyped DEF SessionOK, TxKind, SubmissionHolds, OneToDo, ClaimHolds, SingleHolds,
     CancelHolds, FinaliseHolds, SweepHolds, Submission, Sweep
<1>6. r \in ScanKey \/ r \in TaskKey
  BY <1>3, <1>4, <1>5, TargetIs DEF Row
<1>7. ~(NoScanHeld(x) /\ NoTaskHeld(x))
  BY <1>3, <1>6 DEF NoScanHeld, NoTaskHeld
<1>8. CASE tx[x].kind = "none"
  BY <1>1, <1>8, IdleTyped DEF SessionOK
<1>9. CASE tx[x].kind \in Submission
  BY <1>1, <1>7, <1>9 DEF SessionOK, SubmissionHolds, Submission, Sweep
<1>10. CASE tx[x].kind = "claim"
  BY <1>1, <1>7, <1>10 DEF SessionOK, ClaimHolds, Submission, Sweep
<1>11. CASE tx[x].kind \in {"renew", "fail", "discard"}
  BY <1>1, <1>7, <1>11 DEF SessionOK, SingleHolds
<1>12. CASE tx[x].kind = "cancel"
  BY <1>1, <1>7, <1>12 DEF SessionOK, CancelHolds, Submission
<1>13. CASE tx[x].kind = "finalise"
  BY <1>1, <1>7, <1>13 DEF SessionOK, FinaliseHolds
<1>14. CASE tx[x].kind \in Sweep
  BY <1>1, <1>14 DEF SessionOK, SweepHolds, Submission, Sweep
<1>15. QED
  BY <1>1, <1>8, <1>9, <1>10, <1>11, <1>12, <1>13, <1>14 DEF TxKind

LEMMA SubmissionsStayOut ==
  ASSUME LockInv, NEW xs \in SUBSET Tx, Deadlocked(xs), NEW x \in xs
  PROVE  tx[x].kind \in {"claim", "cancel"} \cup Sweep
<1>1. SUFFICES ASSUME tx[x].kind \in Submission PROVE FALSE
  BY HolderIs
<1>2. /\ x \in Tx /\ SessionOK(x) /\ tx[x].at = "tasks"
  BY <1>1, InDeadlock, HolderIs
<1>3. OwnScanHeld(x) /\ NoTaskHeld(x) /\ OneToDo(x)
  BY <1>1, <1>2 DEF SessionOK, SubmissionHolds
\* Who waits for it wants its scan, and so is a claim that knows the scan is queued.
<1>4. PICK z \in xs : \E r \in Target(z) : owner[r] = x
  BY InDeadlock
<1>5. PICK r \in Target(z) : owner[r] = x
  BY <1>4
<1>6. z \in Tx /\ SessionOK(z) /\ (tx[z].at = "scan" => tx[z].kind = "claim" /\ tx[z].scan \in ScanKey)
  BY InDeadlock, HolderIs
<1>7. r \in ScanKey /\ tx[z].at = "scan" /\ r = tx[z].scan
  BY <1>3, <1>5, <1>6, TargetIs DEF NoTaskHeld, Row
<1>8. r = tx[x].scan /\ tx[z].kind = "claim" /\ row[r] = "queued"
  BY <1>3, <1>5, <1>6, <1>7 DEF OwnScanHeld, SessionOK, ClaimHolds
\* But in a queued scan no task is leased, and a submission waits for one that is.
<1>9. PICK t \in Target(x) : Selects(tx[x].kind, t)
  BY InDeadlock
<1>10. t \in TaskKey /\ ScanOf[t] = tx[x].scan
  BY <1>2, <1>3, <1>9 DEF Target, OneToDo, OwnTask
<1>11. row[t] = "leased"
  BY <1>1, <1>9, <1>10, RowLocksAssumption DEF Selects
<1>12. QED
  BY <1>8, <1>10, <1>11 DEF LockInv, RowsInv, FreshScans

LEMMA CancelOrSweeps ==
  ASSUME LockInv, NEW xs \in SUBSET Tx, Deadlocked(xs), \A x \in xs : tx[x].kind # "cancel"
  PROVE  \E x, y \in xs : x # y /\ tx[x].kind \in Sweep /\ tx[y].kind \in Sweep
<1>1. \A x \in xs : tx[x].kind \in {"claim"} \cup Sweep
  BY SubmissionsStayOut
<1>2. \A x \in xs : NoScanHeld(x)
  BY <1>1, InDeadlock DEF SessionOK, ClaimHolds, SweepHolds
<1>3. \A x \in xs : tx[x].kind # "claim"
  <2> SUFFICES ASSUME NEW x \in xs, tx[x].kind = "claim" PROVE FALSE
    OBVIOUS
  <2>1. tx[x].at = "scan" /\ tx[x].scan \in ScanKey
    BY HolderIs
  <2>2. PICK y \in xs : \E r \in Target(x) : owner[r] = y
    BY InDeadlock
  <2>3. owner[tx[x].scan] = y
    BY <2>1, <2>2 DEF Target
  <2>4. QED
    BY <1>2, <2>1, <2>3 DEF NoScanHeld
<1>4. \A x \in xs : tx[x].kind \in Sweep
  BY <1>1, <1>3
<1>5. PICK x \in xs : TRUE
  BY DEF Deadlocked
<1>6. PICK y \in xs : y # x
  BY InDeadlock
<1>7. QED
  BY <1>4, <1>6

\* However many engines report, claim and heartbeat at once, and whatever else runs, no
\* submission, heartbeat or settlement of a scan is part of a circle of waiting sessions:
\* submit_progress and submit_results take the scan first, and the one transaction that
\* takes a task first, a claim, only wants a scan whose tasks none of them waits for.
\* A circle has a cancellation in it, or two sweeps.
THEOREM DeadlocksNeedCancel == RowLocksSpec => []DeadlockNeedsCancel
<1>1. LockInv => DeadlockNeedsCancel
  <2> SUFFICES ASSUME LockInv, NEW xs \in SUBSET Tx, Deadlocked(xs)
               PROVE  /\ \A x \in xs : tx[x].kind \in {"claim", "cancel"} \cup Sweep
                      /\ \/ \E x \in xs : tx[x].kind = "cancel"
                         \/ \E x, y \in xs : x # y /\ tx[x].kind \in Sweep /\ tx[y].kind \in Sweep
    BY DEF DeadlockNeedsCancel
  <2>1. \A x \in xs : tx[x].kind \in {"claim", "cancel"} \cup Sweep
    BY SubmissionsStayOut
  <2>2. \/ \E x \in xs : tx[x].kind = "cancel"
        \/ \E x, y \in xs : x # y /\ tx[x].kind \in Sweep /\ tx[y].kind \in Sweep
    BY CancelOrSweeps
  <2>3. QED
    BY <2>1, <2>2
<1>2. QED
  BY <1>1, RowLocksInvariant, PTL

\* Each transaction of scans/service.py is one atomic step of the rows: what ScanLifecycle
\* takes for granted when it makes an operation one action.
THEOREM TransactionsAtomic == RowLocksSpec => CommitsAreAtomic
<1> DEFINE A == \/ \E t \in TaskKey : ClaimAtOnce(t) \/ FailAtOnce(t)
                \/ \E t \in TaskKey, new \in SUBSET TaskKey : ResultsAtOnce(t, new)
                \/ \E ts \in SUBSET TaskKey : ReclaimAtOnce(ts)
                \/ \E s \in ScanKey : SettleAtOnce(s)
<1>1. LockInv /\ [RowLocksNext]_rlvars => [A]_row
  <2> SUFFICES ASSUME LockInv, RowLocksNext PROVE A \/ row' = row
    BY DEF rlvars
  <2>1. PICK x \in Tx : Begin(x) \/ Statement(x) \/ Rollback(x)
    BY DEF RowLocksNext
  <2>2. CASE Commit(x)
    <3>1. CommitEffect(x)
      BY <2>2, CommitIs
    <3>2. QED
      BY <3>1 DEF CommitEffect
  <2>3. CASE Begin(x)
    BY <2>3 DEF Begin, BeginSubmission, BeginClaim, BeginRenew, BeginSweep, BeginCancel,
       BeginFinalise, Begins
  <2>4. CASE Statement(x) /\ ~Commit(x)
    BY <2>4 DEF Statement, Lock, Miss, Rollback, ClaimRead, CancelSelect, CreateFetchTasks
  <2>5. CASE Rollback(x)
    BY <2>5 DEF Rollback
  <2>6. QED
    BY <2>1, <2>2, <2>3, <2>4, <2>5
<1>2. QED
  BY <1>1, RowLocksInvariant, PTL DEF RowLocksSpec, CommitsAreAtomic
=============================================================================
