--------------------------- MODULE ScanLifecycle ---------------------------
(***************************************************************************)
(* The scan and scan-task state machine of the API (scans/service.py and   *)
(* engines/routes.py), the engines that lease tasks, the broker that       *)
(* carries task ids between them, and the maintenance sweeps.              *)
(*                                                                         *)
(* One action is one committed database transaction.  What a request does  *)
(* after its commit - enqueue on the broker, settle the scan in a second   *)
(* transaction, answer the engine - is a separate action or a separate     *)
(* nondeterministic choice, because a crash can fall in between.           *)
(***************************************************************************)
EXTENDS Naturals, FiniteSets

CONSTANTS
  Source,               \* the sources that can be scanned
  Scan,                 \* scan ids
  SourceOf,             \* the source a scan id is used for
  FetchSpec,            \* fetch specs a discovery can yield
  Disc,                 \* stands for the empty spec of the discovery task
  EngineId,             \* registered engine identities (one token each)
  NoEngine,             \* NULL engine_id
  Reports,              \* the reports engines can send, a subset of Report
  MaxAttempts,          \* bound on claims of one task (the code has none)
  OneAttemptPerEngine   \* deployment: an identity never runs a task twice at once

ASSUME SourceOfAssumption == SourceOf \in [Scan -> Source]
ASSUME DiscAssumption == Disc \notin FetchSpec
ASSUME NoEngineAssumption == NoEngine \notin EngineId
ASSUME MaxAttemptsAssumption == MaxAttempts \in Nat
ASSUME DeploymentAssumption == OneAttemptPerEngine \in BOOLEAN

ACTIVE_SCAN_STATUSES == {"queued", "discovering", "running"}
SETTLED_SCAN_STATUSES == {"completed", "partial", "failed", "cancelled"}
LEASED_STATUSES == {"leased", "running"}
TERMINAL_TASK_STATUSES == {"completed", "failed", "cancelled"}
ScanMode == {"full", "incremental"}

\* What a task's stored coverage report says of its content: "gaps" stands
\* for failed objects and scope gaps, "skipped" for content left out on
\* purpose, "unreported" for a report that is missing or unreadable.
Coverage == {"complete", "skipped", "gaps", "unreported"}
CoverageState == {"none", "complete", "partial", "failed", "cancelled"}

\* The body of a results submission: the engine's verdict, its coverage, and
\* whether its tallies admit units it failed to read or had to truncate.
Report == [status : {"completed", "failed"}, coverage : Coverage, unreadable : BOOLEAN]

ASSUME ReportsAssumption == Reports \subseteq Report

Kind == FetchSpec \cup {Disc}
Task == Scan \X Kind
TasksOf(s) == {s} \X Kind

\* A row of scan_tasks.  "none" is a row that does not exist.  key is the
\* attempt named by result_key (keys are "<task>:<attempt>"), 0 for NULL.
TaskRow == [status   : {"none", "queued"} \cup LEASED_STATUSES
                         \cup TERMINAL_TASK_STATUSES,
            engine   : EngineId \cup {NoEngine},
            attempts : Nat,
            key      : Nat,
            lapsed   : BOOLEAN,       \* lease_expires_at < now
            coverage : Coverage]

ScanRow == [status   : {"none"} \cup ACTIVE_SCAN_STATUSES \cup SETTLED_SCAN_STATUSES,
            mode     : ScanMode,
            manifest : CoverageState]

\* One attempt at a task inside an engine: "leasing" until the lease response
\* arrives, "running" until results are recorded, "submitted" until the engine
\* has read the answer.
Run == [task : Task, attempt : Nat, engine : EngineId,
        phase : {"leasing", "running", "submitted"}]

\* One call of finalize_and_reconcile: not started, or past its SELECT with
\* the status it is about to write.
Finalizer == [scan : Scan, final : {"unread"} \cup SETTLED_SCAN_STATUSES]

VARIABLES
  scan,         \* table scans
  task,         \* table scan_tasks
  broker,       \* task ids on the queue: unordered, lossy, redelivering
  runs,         \* attempts alive in engines
  finalizers,   \* finalize_and_reconcile calls alive in API processes
  cancelling,   \* cancel requests past the route's status check
  reconciles,   \* history: reconciliations each scan caused
  releases      \* history: cursor commits and announcements each scan caused

vars == <<scan, task, broker, runs, finalizers, cancelling, reconciles, releases>>

-----------------------------------------------------------------------------
NoRow == [status |-> "none", engine |-> NoEngine, attempts |-> 0, key |-> 0,
          lapsed |-> FALSE, coverage |-> "unreported"]

QueuedRow == [NoRow EXCEPT !.status = "queued"]

Init ==
  /\ scan = [s \in Scan |-> [status |-> "none", mode |-> "full", manifest |-> "none"]]
  /\ task = [t \in Task |-> NoRow]
  /\ broker = {}
  /\ runs = {}
  /\ finalizers = {}
  /\ cancelling = {}
  /\ reconciles = [s \in Scan |-> 0]
  /\ releases = [s \in Scan |-> 0]

Active(s) == scan[s].status \in ACTIVE_SCAN_STATUSES
Leased(t) == task[t].status \in LEASED_STATUSES
Exists(t) == task[t].status # "none"

\* A message is sent after the commit; a crash or a broker outage loses it.
Enqueue(T) == \E sent \in SUBSET T : broker' = broker \cup sent

\* A finalisation is started; calls in the same state are one element.
StartFinalize(s) ==
  finalizers' = finalizers \cup {[scan |-> s, final |-> "unread"]}

-----------------------------------------------------------------------------
(* The operator and the scheduler. *)

\* Faulty variant: an index that leaves out scans not yet picked up.
SourceFreeOfRunning(s) ==
  \A other \in Scan : SourceOf[other] = SourceOf[s] =>
    scan[other].status \notin {"discovering", "running"}

\* The partial unique index on scans: one active scan per source.
SourceFree(s) ==
  \A other \in Scan : SourceOf[other] = SourceOf[s] => ~Active(other)

\* launch_scan: the partial unique index refuses a second active scan of the
\* source; the mode is whatever the cursor plan resolved to.
Launch(s, mode) ==
  /\ scan[s].status = "none"
  /\ SourceFree(s)
  /\ scan' = [scan EXCEPT ![s].status = "queued", ![s].mode = mode]
  /\ task' = [task EXCEPT ![<<s, Disc>>] = QueuedRow]
  /\ Enqueue({<<s, Disc>>})
  /\ UNCHANGED <<runs, finalizers, cancelling, reconciles, releases>>

\* The cancel route reads the scan before the service takes its lock.
CancelRequest(s) ==
  /\ Active(s)
  /\ s \notin cancelling
  /\ cancelling' = cancelling \cup {s}
  /\ UNCHANGED <<scan, task, broker, runs, finalizers, reconciles, releases>>

\* Faulty variant: a report that is missing counts as no gap.
ManifestIgnoringSilence(status, rows) ==
  CASE status = "cancelled" -> "cancelled"
    [] status = "failed" -> "failed"
    [] status = "partial" -> "partial"
    [] OTHER -> IF \A row \in rows : row.coverage \in {"complete", "unreported"}
                THEN "complete" ELSE "partial"

\* build_manifest and _coverage_state, over the rows a transaction leaves.
ManifestState(status, rows) ==
  CASE status = "cancelled" -> "cancelled"
    [] status = "failed" -> "failed"
    [] status = "partial" -> "partial"
    [] OTHER -> IF \A row \in rows : row.coverage = "complete"
                THEN "complete" ELSE "partial"

RowsOf(s, table) == {table[t] : t \in {u \in TasksOf(s) : table[u].status # "none"}}

\* Faulty variants: leased work is left alone, or finished work is stopped too.
UnfinishedQueued(s) == {t \in TasksOf(s) : task[t].status = "queued"}
UnfinishedAny(s) == {t \in TasksOf(s) : Exists(t)}

\* The tasks a cancellation stops.
Unfinished(s) ==
  {t \in TasksOf(s) : Exists(t) /\ task[t].status \notin TERMINAL_TASK_STATUSES}

\* cancel_scan: under the scan's lock, every task that has not finished is
\* cancelled with the gap merged onto its coverage, an active scan is
\* cancelled, and the manifest is rebuilt whatever the scan's status is.
Cancel(s) ==
  LET rows == [t \in Task |-> IF t \in Unfinished(s)
                              THEN [task[t] EXCEPT !.status = "cancelled",
                                                   !.lapsed = FALSE,
                                                   !.coverage = "gaps"]
                              ELSE task[t]]
      status == IF Active(s) THEN "cancelled" ELSE scan[s].status
  IN /\ s \in cancelling
     /\ cancelling' = cancelling \ {s}
     /\ task' = rows
     /\ scan' = [scan EXCEPT ![s].status = status,
                             ![s].manifest = ManifestState(status, RowsOf(s, rows))]
     /\ UNCHANGED <<broker, runs, finalizers, reconciles, releases>>

-----------------------------------------------------------------------------
(* Leases. *)

\* The values of claim_task's UPDATE.
ClaimedRow(t, e) ==
  [task[t] EXCEPT !.status = "leased", !.engine = e,
                  !.attempts = task[t].attempts + 1, !.lapsed = FALSE]

\* claim_task, called by an engine that took the task's id off the queue: one
\* conditional UPDATE.  The message is acknowledged, or a copy stays behind.
Claim(t, e) ==
  /\ t \in broker
  /\ \/ broker' = broker \ {t}
     \/ broker' = broker
  /\ task[t].status = "queued"
  /\ task[t].attempts < MaxAttempts
  /\ OneAttemptPerEngine => \A r \in runs : ~(r.task = t /\ r.engine = e)
  /\ task' = [task EXCEPT ![t] = ClaimedRow(t, e)]
  /\ scan' = IF scan[t[1]].status = "queued"
             THEN [scan EXCEPT ![t[1]].status =
                     IF t[2] = Disc THEN "discovering" ELSE "running"]
             ELSE scan
  /\ runs' = runs \cup {[task |-> t, attempt |-> task[t].attempts + 1,
                         engine |-> e, phase |-> "leasing"]}
  /\ UNCHANGED <<finalizers, cancelling, reconciles, releases>>

\* The message is lost, or a refused lease makes the engine drop it.
DropMessage(t) ==
  /\ t \in broker
  /\ broker' = broker \ {t}
  /\ UNCHANGED <<scan, task, runs, finalizers, cancelling, reconciles, releases>>

\* lease_task answers and the engine starts working.
LeaseGranted(r) ==
  /\ r.phase = "leasing"
  /\ runs' = (runs \ {r}) \cup {[r EXCEPT !.phase = "running"]}
  /\ UNCHANGED <<scan, task, broker, finalizers, cancelling, reconciles, releases>>

\* lease_task cannot read the pepper or the credential: the task it has just
\* claimed is failed by an unconditional write, and the scan is settled.
LeaseFails(r) ==
  /\ r.phase = "leasing"
  /\ task' = [task EXCEPT ![r.task].status = "failed", ![r.task].lapsed = FALSE,
                          ![r.task].coverage = "gaps"]
  /\ runs' = runs \ {r}
  /\ StartFinalize(r.task[1])
  /\ UNCHANGED <<scan, broker, cancelling, reconciles, releases>>

\* heartbeat and renew_lease: the row is matched on the engine, not on the
\* attempt.
Heartbeat(r) ==
  /\ r.phase = "running"
  /\ Leased(r.task)
  /\ task[r.task].engine = r.engine
  /\ task' = [task EXCEPT ![r.task].status = "running", ![r.task].lapsed = FALSE]
  /\ UNCHANGED <<scan, broker, runs, finalizers, cancelling, reconciles, releases>>

\* A heartbeat answer names a cancelled task: the run stops and says nothing.
ObserveCancel(r) ==
  /\ r.phase = "running"
  /\ task[r.task].status = "cancelled"
  /\ task[r.task].engine = r.engine
  /\ runs' = runs \ {r}
  /\ UNCHANGED <<scan, task, broker, finalizers, cancelling, reconciles, releases>>

\* An engine dies, drains, loses the lease response or gives up on reporting.
\* Bound: the last attempt MaxAttempts allows does not die.
RunDies(r) ==
  /\ r.attempt < MaxAttempts
  /\ r.phase \in {"leasing", "running"}
  /\ runs' = runs \ {r}
  /\ UNCHANGED <<scan, task, broker, finalizers, cancelling, reconciles, releases>>

\* A lease nobody renewed passes its expiry.  The lease handler is assumed to
\* answer within DEFAULT_LEASE_SECONDS.
LeaseLapses(t) ==
  /\ Leased(t)
  /\ ~task[t].lapsed
  /\ \A r \in runs : ~(r.task = t /\ r.phase = "leasing")
  /\ task' = [task EXCEPT ![t].lapsed = TRUE]
  /\ UNCHANGED <<scan, broker, runs, finalizers, cancelling, reconciles, releases>>

-----------------------------------------------------------------------------
(* Results. *)

\* _effective_outcome: a completed report with uninspected content is failed.
EffectiveOutcome(report) ==
  IF /\ report.status = "completed"
     /\ report.coverage = "gaps" \/ report.unreadable
  THEN "failed" ELSE report.status

\* Faulty variant: whoever submits first wins, whatever the lease says.
ClaimsResultUnleased(r) == Leased(r.task) /\ task[r.task].key = 0

\* The predicate of claim_result's conditional UPDATE.
ClaimsResult(r) ==
  /\ task[r.task].engine = r.engine
  /\ Leased(r.task)
  /\ task[r.task].key = 0

\* create_fetch_tasks, in the transaction that completes the discovery: the
\* fetch tasks of an active scan; a fetch task's results create none.
FanOut(t, specs) ==
  IF t[2] = Disc /\ specs # {} /\ Active(t[1]) THEN {t[1]} \X specs ELSE {}

\* claim_result and complete_task on the row of the submitting run.
ResultRow(r, report) ==
  [task[r.task] EXCEPT !.status = EffectiveOutcome(report), !.key = r.attempt,
                       !.lapsed = FALSE, !.coverage = report.coverage]

\* submit_results, accepted: result_key, fan-out, outcome and coverage commit
\* together; enqueueing and finalisation follow the commit.
SubmitResults(r, report, specs) ==
  LET created == FanOut(r.task, specs) IN
  /\ r.phase = "running"
  /\ ClaimsResult(r)
  /\ r.task[2] # Disc => specs = {}
  /\ task' = [t \in Task |-> IF t = r.task THEN ResultRow(r, report)
                             ELSE IF t \in created THEN QueuedRow ELSE task[t]]
  /\ scan' = IF created = {} THEN scan
             ELSE [scan EXCEPT ![r.task[1]].status = "running"]
  /\ Enqueue(created)
  /\ runs' = (runs \ {r}) \cup {[r EXCEPT !.phase = "submitted"]}
  /\ StartFinalize(r.task[1])
  /\ UNCHANGED <<cancelling, reconciles, releases>>

\* submit_results refused with 403 or 409: the engine drops its work.
SubmitRefused(r) ==
  /\ r.phase = "running"
  /\ ~ClaimsResult(r)
  /\ runs' = runs \ {r}
  /\ UNCHANGED <<scan, task, broker, finalizers, cancelling, reconciles, releases>>

\* The answer was lost and the retry carries the same key: _replay settles
\* the scan again and ingests nothing.
SubmitReplayed(r) ==
  /\ r.phase = "submitted"
  /\ task[r.task].engine = r.engine
  /\ task[r.task].key = r.attempt
  /\ StartFinalize(r.task[1])
  /\ UNCHANGED <<scan, task, broker, runs, cancelling, reconciles, releases>>

\* The engine reads the answer, or gives up on it.
SubmitAnswered(r) ==
  /\ r.phase = "submitted"
  /\ runs' = runs \ {r}
  /\ UNCHANGED <<scan, task, broker, finalizers, cancelling, reconciles, releases>>

-----------------------------------------------------------------------------
(* Settling a scan. *)

\* Faulty variant: one completed task makes the scan completed.
FinalStatusOptimistic(s) ==
  LET statuses == {task[t].status : t \in {u \in TasksOf(s) : Exists(u)}}
  IN IF "cancelled" \in statuses THEN "cancelled"
     ELSE IF "completed" \in statuses THEN "completed" ELSE "failed"

\* _final_status
FinalStatus(s) ==
  LET statuses == {task[t].status : t \in {u \in TasksOf(s) : Exists(u)}}
  IN IF "cancelled" \in statuses THEN "cancelled"
     ELSE IF statuses = {"completed"} THEN "completed"
     ELSE IF "completed" \in statuses THEN "partial" ELSE "failed"

\* Faulty variant: work nobody has leased yet does not hold the scan open.
NothingLeased(s) ==
  /\ \E t \in TasksOf(s) : Exists(t)
  /\ \A t \in TasksOf(s) : ~Leased(t)

\* finalize_scan_if_done: there are tasks and all of them are terminal.
AllDone(s) ==
  /\ \E t \in TasksOf(s) : Exists(t)
  /\ \A t \in TasksOf(s) : Exists(t) => task[t].status \in TERMINAL_TASK_STATUSES

\* finalize_scan_if_done, its SELECT: unlocked, in a transaction of its own.
FinalizeRead(f) ==
  /\ f.final = "unread"
  /\ finalizers' = IF AllDone(f.scan)
                   THEN (finalizers \ {f}) \cup {[f EXCEPT !.final = FinalStatus(f.scan)]}
                   ELSE finalizers \ {f}
  /\ UNCHANGED <<scan, task, broker, runs, cancelling, reconciles, releases>>

\* The predicate of finalize_scan_if_done's conditional UPDATE.
MaySettle(s) == Active(s)

\* _saw_any_content: reconcile_scan resolves nothing for a scan without fetch work.
SawAnyContent(s) == \E p \in FetchSpec : Exists(<<s, p>>)

\* finalize_scan_if_done, its conditional UPDATE, and what finalize_and_reconcile
\* commits with it: the manifest and, for complete coverage, reconciliation
\* (full scans only), the cursors and the announcements.
FinalizeCommit(f) ==
  LET manifest == ManifestState(f.final, RowsOf(f.scan, task))
      licensed == f.final = "completed" /\ manifest = "complete"
      resolves == licensed /\ scan[f.scan].mode = "full" /\ SawAnyContent(f.scan)
  IN /\ f.final # "unread"
     /\ finalizers' = finalizers \ {f}
     /\ IF MaySettle(f.scan)
        THEN /\ scan' = [scan EXCEPT ![f.scan].status = f.final,
                                     ![f.scan].manifest = manifest]
             /\ reconciles' = [reconciles EXCEPT ![f.scan] =
                                 IF resolves THEN @ + 1 ELSE @]
             /\ releases' = [releases EXCEPT ![f.scan] = IF licensed THEN @ + 1 ELSE @]
        ELSE UNCHANGED <<scan, reconciles, releases>>
     /\ UNCHANGED <<task, broker, runs, cancelling>>

\* The API process dies inside finalize_and_reconcile: its transaction is void.
FinalizeDies(f) ==
  /\ finalizers' = finalizers \ {f}
  /\ UNCHANGED <<scan, task, broker, runs, cancelling, reconciles, releases>>

-----------------------------------------------------------------------------
(* The maintenance beat. *)

\* reclaim_expired_leases: every lapsed lease goes back to the queue.
Reclaim ==
  LET expired == {t \in Task : Leased(t) /\ task[t].lapsed /\ task[t].attempts < MaxAttempts}
  IN /\ expired # {}
     /\ task' = [t \in Task |-> IF t \in expired
                                THEN [task[t] EXCEPT !.status = "queued",
                                                     !.engine = NoEngine,
                                                     !.lapsed = FALSE]
                                ELSE task[t]]
     /\ Enqueue(expired)
     /\ UNCHANGED <<scan, runs, finalizers, cancelling, reconciles, releases>>

\* redispatch_stale_tasks: a task queued for too long is enqueued again.
Redispatch(t) ==
  /\ task[t].status = "queued"
  /\ t \notin broker
  /\ broker' = broker \cup {t}
  /\ UNCHANGED <<scan, task, runs, finalizers, cancelling, reconciles, releases>>

\* Faulty variant: a scan still discovering is not swept.
SweepableRunning(s) == scan[s].status = "running"

\* The scans finalize_stalled_scans looks at.
Sweepable(s) == Active(s)

\* finalize_stalled_scans, for one active scan.
SweepStalled(s) ==
  /\ Sweepable(s)
  /\ StartFinalize(s)
  /\ UNCHANGED <<scan, task, broker, runs, cancelling, reconciles, releases>>

-----------------------------------------------------------------------------
RunStep(r) ==
  \/ LeaseGranted(r)
  \/ LeaseFails(r)
  \/ Heartbeat(r)
  \/ ObserveCancel(r)
  \/ RunDies(r)
  \/ \E report \in Reports, specs \in SUBSET FetchSpec : SubmitResults(r, report, specs)
  \/ SubmitRefused(r)
  \/ SubmitReplayed(r)
  \/ SubmitAnswered(r)

Next ==
  \/ \E s \in Scan, mode \in ScanMode : Launch(s, mode)
  \/ \E s \in Scan : CancelRequest(s) \/ Cancel(s) \/ SweepStalled(s)
  \/ \E t \in Task, e \in EngineId : Claim(t, e)
  \/ \E t \in Task : DropMessage(t) \/ LeaseLapses(t) \/ Redispatch(t)
  \/ \E r \in runs : RunStep(r)
  \/ \E f \in finalizers : FinalizeRead(f) \/ FinalizeCommit(f) \/ FinalizeDies(f)
  \/ Reclaim

Spec == Init /\ [][Next]_vars

-----------------------------------------------------------------------------
(* Fairness: the maintenance beat keeps running, clocks advance, an engine   *)
(* takes a message that keeps being offered, a run ends, and an API process  *)
(* does not die in every finalisation.  Nothing is assumed of operators, of  *)
(* heartbeats or of the broker.                                              *)

RunOf(t, a, step(_)) == \E r \in runs : r.task = t /\ r.attempt = a /\ step(r)

RunEnds(r) ==
  \/ LeaseGranted(r)
  \/ LeaseFails(r)
  \/ \E report \in Reports, specs \in SUBSET FetchSpec : SubmitResults(r, report, specs)
  \/ SubmitRefused(r)
  \/ SubmitAnswered(r)

Fairness ==
  /\ WF_vars(Reclaim)
  /\ \A s \in Scan :
       /\ WF_vars(SweepStalled(s))
       /\ SF_vars(\E f \in finalizers : f.scan = s /\ FinalizeRead(f))
       /\ SF_vars(\E f \in finalizers : f.scan = s /\ FinalizeCommit(f))
  /\ \A t \in Task :
       /\ WF_vars(Redispatch(t))
       /\ WF_vars(LeaseLapses(t))
       /\ SF_vars(\E e \in EngineId : Claim(t, e))
       /\ \A a \in 1..MaxAttempts : WF_vars(RunOf(t, a, RunEnds))

FairSpec == Spec /\ Fairness

-----------------------------------------------------------------------------
(* Properties. *)

TypeOK ==
  /\ scan \in [Scan -> ScanRow]
  /\ task \in [Task -> TaskRow]
  /\ broker \subseteq Task
  /\ runs \subseteq Run
  /\ finalizers \subseteq Finalizer
  /\ cancelling \subseteq Scan
  /\ reconciles \in [Scan -> Nat]
  /\ releases \in [Scan -> Nat]

\* A scan that has settled leaves no task an engine could still lease or work
\* on: cancel_scan stops all of them, a fan-out never follows the settlement,
\* and no lease transition brings a task back.
SettledHasNoLiveTask ==
  \A s \in Scan : scan[s].status \in SETTLED_SCAN_STATUSES =>
    \A t \in TasksOf(s) : task[t].status \in {"none"} \cup TERMINAL_TASK_STATUSES

\* A completed scan is one whose every task has recorded results and completed,
\* and stays so; the manifest frozen with it is true of the task rows.
CompletedScanIsSound ==
  \A s \in Scan : scan[s].status = "completed" =>
    /\ \A t \in TasksOf(s) : Exists(t) => task[t].status = "completed" /\ task[t].key # 0
    /\ scan[s].manifest = "complete" =>
         \A t \in TasksOf(s) : Exists(t) => task[t].coverage = "complete"

\* finalize_and_reconcile: reconciliation happens at most once per scan, and
\* only for a full scan that completed with every task's coverage complete;
\* cursors and announcements are released under the same evidence, once.
EffectsNeedEvidence ==
  \A s \in Scan :
    /\ reconciles[s] # 0 =>
         /\ reconciles[s] = 1
         /\ releases[s] = 1
         /\ scan[s].mode = "full"
         /\ \E p \in FetchSpec : task[<<s, p>>].status = "completed"
    /\ releases[s] # 0 =>
         /\ releases[s] = 1
         /\ scan[s].status = "completed"
         /\ \A t \in TasksOf(s) :
              Exists(t) => task[t].status = "completed" /\ task[t].coverage = "complete"

\* finalize_scan_if_done reads the task statuses without a lock; what it read
\* is still the truth when its UPDATE finds the scan active.
FinalReadStillTrue ==
  \A f \in finalizers : f.final # "unread" /\ Active(f.scan) =>
    /\ \A t \in TasksOf(f.scan) : task[t].status \in {"none"} \cup TERMINAL_TASK_STATUSES
    /\ f.final = FinalStatus(f.scan)

\* claim_result refuses the results of an attempt whose lease was reclaimed:
\* the recorded results are those of the last attempt that was leased.
ReclaimedResultsRefused ==
  \A t \in Task : task[t].key # 0 => task[t].key = task[t].attempts

\* Results once recorded are never altered: not by a retry, a reclaim, a late
\* attempt, a cancellation or a failing lease.
ResultsStand ==
  [][\A t \in Task : task[t].key # 0 => task'[t] = task[t]]_vars

\* The abstract view of the two tables.
Contract == INSTANCE ScanContract WITH
  state    <- [s \in Scan |-> IF Active(s) THEN "active" ELSE scan[s].status],
  resolved <- reconciles

\* The scan machinery implements its contract: one scan of a source at a time,
\* one settlement per scan, findings resolved only by a completed settlement.
ImplementsContract == Contract!ContractSpec

\* Every scan settles, whatever is lost, reclaimed, cancelled or crashes on the
\* way; until it does the one-active-scan index blocks its source.
ScanSettles ==
  \A s \in Scan : Active(s) ~> scan[s].status \in SETTLED_SCAN_STATUSES

-----------------------------------------------------------------------------
(* What the proofs need beside the properties: rows and runs agree. *)

\* A row exists only under a launched scan; one that does not exist is blank,
\* and fetch rows exist only once the discovery's results are recorded.
RowsRooted ==
  \A t \in Task :
    /\ ~Exists(t) => task[t] = NoRow
    /\ Exists(t) => scan[t[1]].status # "none"
    /\ Exists(t) /\ t[2] # Disc => task[<<t[1], Disc>>].key # 0

\* result_key is set exactly by the step that ends the task for its engine.
KeysEndTasks ==
  \A t \in Task :
    /\ task[t].key # 0 => task[t].status \in {"completed", "failed"}
    /\ task[t].status = "completed" => task[t].key # 0

\* Only the settlement of a scan cancels tasks.
CancelledBySettlement ==
  \A t \in Task : task[t].status = "cancelled" =>
    scan[t[1]].status \in SETTLED_SCAN_STATUSES

\* A run works on an attempt that was leased; an identity has one run of a task.
RunsKnown ==
  /\ \A r \in runs : Exists(r.task) /\ r.attempt \in 1..task[r.task].attempts
  /\ \A r1, r2 \in runs : r1.task = r2.task /\ r1.engine = r2.engine => r1 = r2

\* The engine named in a leased row runs the row's current attempt, and while
\* the lease is being answered nothing but a cancellation touches the row.
LeaseExclusive ==
  \A r \in runs :
    /\ Leased(r.task) /\ task[r.task].engine = r.engine => r.attempt = task[r.task].attempts
    /\ r.phase = "leasing" =>
         /\ task[r.task].status \in LEASED_STATUSES \cup {"cancelled"}
         /\ task[r.task].engine = r.engine
         /\ task[r.task].key = 0
         /\ ~task[r.task].lapsed

\* Requests in flight are about launched scans, and an active scan has had no
\* effects yet.
RequestsRooted ==
  /\ \A f \in finalizers : scan[f.scan].status # "none"
  /\ \A s \in cancelling : scan[s].status # "none"
  /\ \A s \in Scan : scan[s].status \in {"none"} \cup ACTIVE_SCAN_STATUSES =>
       reconciles[s] = 0 /\ releases[s] = 0

LifecycleInv ==
  /\ TypeOK
  /\ RowsRooted
  /\ KeysEndTasks
  /\ CancelledBySettlement
  /\ RunsKnown
  /\ LeaseExclusive
  /\ RequestsRooted
  /\ SettledHasNoLiveTask
  /\ CompletedScanIsSound
  /\ EffectsNeedEvidence
  /\ FinalReadStillTrue
  /\ ReclaimedResultsRefused
=============================================================================
