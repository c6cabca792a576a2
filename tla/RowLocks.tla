------------------------------ MODULE RowLocks ------------------------------
(***************************************************************************)
(* The row locks of the transactions that write scan and task rows         *)
(* (scans/service.py, engines/routes.py): SELECT ... FOR UPDATE on a scan, *)
(* conditional UPDATEs of task and scan rows, and writes by id, under      *)
(* PostgreSQL's READ COMMITTED, with whatever is aborted on the way.       *)
(*                                                                         *)
(* ScanLifecycle takes each of these transactions for one atomic step.     *)
(* Here a step is one statement, and of a row only what the predicates     *)
(* read of its status is kept.                                             *)
(***************************************************************************)
EXTENDS FiniteSets

CONSTANTS
  Tx, NoTx,       \* database sessions
  ScanKey,        \* rows of scan
  TaskKey,        \* rows of scan_task, those a discovery may still create too
  ScanOf,         \* [TaskKey -> ScanKey], scan_id
  DiscoveryOf     \* [ScanKey -> TaskKey]

ASSUME RowLocksAssumption ==
  /\ NoTx \notin Tx
  /\ ScanKey \cap TaskKey = {}
  /\ ScanOf \in [TaskKey -> ScanKey]
  /\ DiscoveryOf \in [ScanKey -> TaskKey]
  /\ \A s \in ScanKey : ScanOf[DiscoveryOf[s]] = s

Row == ScanKey \cup TaskKey
TasksIn(s) == {t \in TaskKey : ScanOf[t] = s}

\* queued, active (discovering, running) and settled; none is no row, leased also
\* running, final each terminal status.
ScanStatus == {"queued", "active", "settled"}
TaskStatus == {"none", "queued", "leased", "final"}

\* The transactions: submit_progress and submit_results, claim_task, renew_lease,
\* the two that may follow a claim (complete_task of a task that cannot be handed
\* out, discard_checkpoint), cancel_scan, finalize_and_reconcile and the sweeps.
Submission == {"progress", "results"}
Sweep == {"reclaim", "redispatch"}
TxKind == Submission \cup Sweep \cup
          {"none", "claim", "renew", "fail", "discard", "cancel", "finalise"}

VARIABLES
  row,      \* [Row -> its committed status]
  owner,    \* [Row -> the session that holds its lock, or NoTx]
  tx        \* [Tx -> its transaction: kind, the statement it is at, its scan (NoTx for a
            \* sweep), the tasks to do]

rlvars == <<row, owner, tx>>

Idle == [kind |-> "none", at |-> "idle", scan |-> NoTx, todo |-> {}]

\* launch_scan's rows: the scan and its discovery task.
RowLocksInit ==
  /\ row = [r \in Row |-> IF r \in ScanKey THEN "queued"
                          ELSE IF r = DiscoveryOf[ScanOf[r]] THEN "queued" ELSE "none"]
  /\ owner = [r \in Row |-> NoTx]
  /\ tx = [x \in Tx |-> Idle]

----------------------------------------------------------------------------
(* The order of the statements *)

\* What follows which: the lock of the scan, the UPDATEs of the tasks, reads in between.
ScanThenTask == [idle |-> "scan", scan |-> "tasks", tasks |-> "commit"]
ScanThenFound == [idle |-> "scan", scan |-> "select", tasks |-> "commit"]
TaskThenScan == [idle |-> "tasks", tasks |-> "read", scan |-> "commit"]
ScanOnly == [idle |-> "scan", scan |-> "commit"]
TasksOnly == [idle |-> "tasks", tasks |-> "commit"]

\* Faulty variant: results take the task row first, as they once did.
TaskFirst(kind) ==
  CASE kind = "progress" -> ScanThenTask
    [] kind = "results"  -> [idle |-> "tasks", tasks |-> "scan", scan |-> "commit"]
    [] kind = "claim"    -> TaskThenScan
    [] kind = "cancel"   -> ScanThenFound
    [] kind = "finalise" -> ScanOnly
    [] OTHER             -> TasksOnly

\* Only a claim takes a task before its scan.
Order(kind) ==
  CASE kind \in Submission -> ScanThenTask
    [] kind = "claim"      -> TaskThenScan
    [] kind = "cancel"     -> ScanThenFound
    [] kind = "finalise"   -> ScanOnly
    [] OTHER               -> TasksOnly

----------------------------------------------------------------------------
(* How a transaction begins: with an unlocked read *)

Started(kind, s, todo) ==
  [kind |-> kind, at |-> Order(kind).idle, scan |-> s, todo |-> todo]

Begins(x, kind, s, todo) ==
  /\ tx[x] = Idle
  /\ tx' = [tx EXCEPT ![x] = Started(kind, s, todo)]
  /\ UNCHANGED <<row, owner>>

\* submit_progress, of a fetch task, and submit_results: the engine's own task.
BeginSubmission(x, t) ==
  /\ row[t] \in {"leased", "final"}
  /\ \E kind \in Submission : /\ kind = "progress" => t # DiscoveryOf[ScanOf[t]]
                             /\ Begins(x, kind, ScanOf[t], {t})

\* claim_task: the id came off the queue.
BeginClaim(x, t) == row[t] # "none" /\ Begins(x, "claim", ScanOf[t], {t})

BeginRenew(x, t) == row[t] = "leased" /\ Begins(x, "renew", ScanOf[t], {t})

\* The sweeps: what a SELECT without an order finds, in one transaction.
BeginSweep(x) ==
  \E ts \in SUBSET TaskKey \ {{}} :
    \/ (\A t \in ts : row[t] = "leased") /\ Begins(x, "reclaim", NoTx, ts)
    \/ (\A t \in ts : row[t] = "queued") /\ Begins(x, "redispatch", NoTx, ts)

BeginCancel(x, s) == row[s] # "settled" /\ Begins(x, "cancel", s, {})

\* finalize_scan_if_done, of a submission, a replay, a lease or the sweep.
BeginFinalise(x, s) ==
  /\ row[s] # "settled"
  /\ \A t \in TasksIn(s) : row[t] \in {"none", "final"}
  /\ Begins(x, "finalise", s, {})

Begin(x) ==
  \/ \E t \in TaskKey : BeginSubmission(x, t) \/ BeginClaim(x, t) \/ BeginRenew(x, t)
  \/ \E s \in ScanKey : BeginCancel(x, s) \/ BeginFinalise(x, s)
  \/ BeginSweep(x)

----------------------------------------------------------------------------
(* Statements *)

\* The rows the statement x is at may be about: a sweep's order is any.
Target(x) ==
  IF tx[x].at = "scan" THEN {tx[x].scan} ELSE IF tx[x].at = "tasks" THEN tx[x].todo ELSE {}

\* The status part of the WHERE clause; FOR UPDATE and writes by id ask for none.
Selects(kind, r) ==
  IF r \in ScanKey THEN kind = "finalise" => row[r] # "settled"
  ELSE /\ kind = "claim" => row[r] = "queued"
       /\ kind \in Submission \cup {"renew", "reclaim"} => row[r] = "leased"
       /\ kind = "cancel" => row[r] \in {"queued", "leased"}

\* Engine, result key, sequence and expiry, which those clauses also ask for.
MayMiss(kind) == kind \in Submission \cup {"renew", "reclaim"}

\* A statement waits for the lock of a row its clause selects, and for no other.
WaitsFor(x, y) ==
  x # y /\ \E r \in Target(x) : Selects(tx[x].kind, r) /\ owner[r] = y

\* Where a transaction is once it has the lock of r.
Continued(c, r) ==
  [c EXCEPT !.todo = @ \ {r},
            !.at = IF r \in TaskKey /\ c.todo # {r} THEN "tasks"
                   ELSE IF c.kind = "results" /\ r = DiscoveryOf[c.scan] THEN "fan_out"
                   ELSE Order(c.kind)[@]]

Lock(x, r) ==
  /\ r \in Target(x)
  /\ Selects(tx[x].kind, r)
  /\ owner[r] = NoTx
  /\ owner' = [owner EXCEPT ![r] = x]
  /\ tx' = [tx EXCEPT ![x] = Continued(tx[x], r)]
  /\ UNCHANGED row

Released(x) == [r \in Row |-> IF owner[r] = x THEN NoTx ELSE owner[r]]

\* Lost to a crash, an error or the deadlock detector, or given up: nothing stays.
Rollback(x) ==
  /\ tx[x].at # "idle"
  /\ owner' = Released(x)
  /\ tx' = [tx EXCEPT ![x] = Idle]
  /\ UNCHANGED row

\* No row matched: the loops over many tasks go on to the next, the rest give up.
Miss(x, r) ==
  /\ r \in Target(x)
  /\ ~Selects(tx[x].kind, r) \/ (r \in TaskKey /\ MayMiss(tx[x].kind))
  /\ IF tx[x].kind \in {"cancel", "reclaim"}
     THEN /\ tx' = [tx EXCEPT ![x].todo = @ \ {r},
                              ![x].at = IF tx[x].todo = {r} THEN "commit" ELSE @]
          /\ UNCHANGED <<row, owner>>
     ELSE Rollback(x)

\* claim_task reads the scan, and writes it if it is still queued.
ClaimRead(x) ==
  /\ tx[x].kind = "claim" /\ tx[x].at = "read"
  /\ tx' = [tx EXCEPT ![x].at = IF row[tx[x].scan] = "queued" THEN "scan" ELSE "commit"]
  /\ UNCHANGED <<row, owner>>

\* Faulty variant: a cancellation passes over the tasks that are locked.
CancelSkipsLocked(x) ==
  LET found == {t \in TasksIn(tx[x].scan) : row[t] \in {"queued", "leased"} /\ owner[t] = NoTx} IN
  /\ tx[x].kind = "cancel" /\ tx[x].at = "select"
  /\ tx' = [tx EXCEPT ![x].todo = found, ![x].at = IF found = {} THEN "commit" ELSE "tasks"]
  /\ UNCHANGED <<row, owner>>

\* cancel_scan's SELECT of what has not finished.
CancelSelect(x) ==
  LET found == {t \in TasksIn(tx[x].scan) : row[t] \in {"queued", "leased"}} IN
  /\ tx[x].kind = "cancel" /\ tx[x].at = "select"
  /\ tx' = [tx EXCEPT ![x].todo = found, ![x].at = IF found = {} THEN "commit" ELSE "tasks"]
  /\ UNCHANGED <<row, owner>>

\* create_fetch_tasks: rows no one else sees yet, unless the scan has settled.
CreateFetchTasks(x) ==
  /\ tx[x].at = "fan_out"
  /\ \E new \in SUBSET {t \in TasksIn(tx[x].scan) : row[t] = "none"} :
       /\ row[tx[x].scan] = "settled" => new = {}
       /\ owner' = [r \in Row |-> IF r \in new THEN x ELSE owner[r]]
  /\ tx' = [tx EXCEPT ![x].at = "commit"]
  /\ UNCHANGED row

----------------------------------------------------------------------------
(* Commit *)

FannedOut(x) == \E t \in TaskKey : owner[t] = x /\ row[t] = "none"

\* What x has written to a row it has locked.
WrittenScan(x, s) ==
  IF tx[x].kind \in {"cancel", "finalise"} THEN "settled"
  ELSE IF tx[x].kind = "claim" \/ FannedOut(x) THEN "active" ELSE row[s]
WrittenTask(x, t) ==
  IF tx[x].kind = "claim" THEN "leased"
  ELSE IF tx[x].kind = "reclaim" \/ row[t] = "none" THEN "queued"
  ELSE IF tx[x].kind \in {"results", "fail", "cancel"} THEN "final" ELSE row[t]

\* A lease that cannot be handed out goes on with one more write of its task.
AfterCommit(x) ==
  \/ tx' = [tx EXCEPT ![x] = Idle]
  \/ /\ tx[x].kind = "claim"
     /\ \E kind \in {"fail", "discard"}, t \in TaskKey :
          owner[t] = x /\ tx' = [tx EXCEPT ![x] = Started(kind, tx[x].scan, {t})]

Commit(x) ==
  /\ tx[x].at = "commit"
  /\ row' = [r \in Row |-> IF owner[r] # x THEN row[r]
                           ELSE IF r \in ScanKey THEN WrittenScan(x, r) ELSE WrittenTask(x, r)]
  /\ owner' = Released(x)
  /\ AfterCommit(x)

Statement(x) ==
  \/ \E r \in Row : Lock(x, r) \/ Miss(x, r)
  \/ ClaimRead(x) \/ CancelSelect(x) \/ CreateFetchTasks(x) \/ Commit(x)

RowLocksNext == \E x \in Tx : Begin(x) \/ Statement(x) \/ Rollback(x)

RowLocksSpec == RowLocksInit /\ [][RowLocksNext]_rlvars

----------------------------------------------------------------------------
RowLocksTypeOK ==
  /\ row \in [Row -> ScanStatus \cup TaskStatus]
  /\ \A s \in ScanKey : row[s] \in ScanStatus
  /\ \A t \in TaskKey : row[t] \in TaskStatus
  /\ owner \in [Row -> Tx \cup {NoTx}]
  /\ tx \in [Tx -> [kind : TxKind,
                    at : {"idle", "scan", "tasks", "read", "select", "fan_out", "commit"},
                    scan : ScanKey \cup {NoTx}, todo : SUBSET TaskKey]]
  \* Between transactions a session holds no lock.
  /\ \A r \in Row : owner[r] # NoTx => tx[owner[r]] # Idle

\* Sessions that wait for each other's rows in a circle, which PostgreSQL breaks by
\* aborting one.  (Who is served first of those that wait for one row is left out.)
Deadlocked(xs) ==
  /\ xs # {}
  /\ \A x \in xs : (\E y \in xs : WaitsFor(x, y)) /\ (\E y \in xs : WaitsFor(y, x))

\* Submissions take the scan before the task, and so are never in a deadlock: not with
\* each other, nor with a claim, which takes them the other way round, a cancellation
\* or a sweep (submit_progress, submit_results: "scan first, always").  Nor are the
\* heartbeat and the settling of a scan, which hold one row.  What is left takes a
\* cancellation, which locks tasks in any order and behind the scan a claim wants next,
\* or two sweeps at once, which the leader lock is there to prevent.
DeadlockNeedsCancel ==
  \A xs \in SUBSET Tx : Deadlocked(xs) =>
    /\ \A x \in xs : tx[x].kind \in {"claim", "cancel"} \cup Sweep
    /\ \/ \E x \in xs : tx[x].kind = "cancel"
       \/ \E x, y \in xs : x # y /\ tx[x].kind \in Sweep /\ tx[y].kind \in Sweep

\* What the transactions do to the rows, each at one instant.
ClaimAtOnce(t) ==
  /\ row[t] = "queued"
  /\ row' = [row EXCEPT ![t] = "leased", ![ScanOf[t]] = IF @ = "queued" THEN "active" ELSE @]
ResultsAtOnce(t, new) ==
  /\ row[t] = "leased"
  /\ \A n \in new : row[n] = "none" /\ ScanOf[n] = ScanOf[t] /\ row[ScanOf[t]] # "settled"
  /\ row' = [r \in Row |-> IF r = t THEN "final" ELSE IF r \in new THEN "queued"
                           ELSE IF r = ScanOf[t] /\ new # {} THEN "active" ELSE row[r]]
ReclaimAtOnce(ts) ==
  /\ \A t \in ts : row[t] = "leased"
  /\ row' = [r \in Row |-> IF r \in ts THEN "queued" ELSE row[r]]
FailAtOnce(t) == row[ScanOf[t]] # "queued" /\ row' = [row EXCEPT ![t] = "final"]
\* A cancellation, or with nothing left to cancel a settlement.
SettleAtOnce(s) ==
  row' = [r \in Row |-> IF r = s THEN "settled"
                       ELSE IF r \in TasksIn(s) /\ row[r] \in {"queued", "leased"} THEN "final"
                       ELSE row[r]]

\* Whatever the statements interleave with, a transaction that commits has done what it
\* would have done alone at that instant, on the rows as they were then: a claim still
\* finds its scan as it read it, and never puts a settled scan back to work by its write
\* without a condition; a cancellation leaves no task of its scan unfinished.
CommitsAreAtomic ==
  [][\/ \E t \in TaskKey : ClaimAtOnce(t) \/ FailAtOnce(t)
     \/ \E t \in TaskKey, new \in SUBSET TaskKey : ResultsAtOnce(t, new)
     \/ \E ts \in SUBSET TaskKey : ReclaimAtOnce(ts)
     \/ \E s \in ScanKey : SettleAtOnce(s)]_row

=============================================================================
