----------------------------- MODULE Checkpoint -----------------------------
(***************************************************************************)
(* One fetch task that reports in batches: the engine's _Batcher           *)
(* (engine/runner.py), the progress and results handlers of the API        *)
(* (engines/routes.py) and the resume point kept on the task row           *)
(* (scans/service.py), across attempts that die, stall and are reclaimed.  *)
(*                                                                         *)
(* The content is a sequence of items.  A readable item is one unit of the *)
(* connector's generator; an unreadable one is only counted as failed.     *)
(* A handler reads the task row without a lock and writes later, so a      *)
(* request has two steps in the API and both can be late.                  *)
(***************************************************************************)
EXTENDS Naturals

CONSTANTS
  N,              \* number of items
  Readable,       \* items the connector can read
  PageEnd,        \* items after which the connector publishes a checkpoint
  EngineId,       \* registered engine identities
  NoEngine,       \* NULL engine_id
  Pack,           \* rule pack versions
  NoPack,         \* NULL rulepack_version
  MaxAttempts,    \* bound on attempts (the code has none)
  EngineOf,       \* the identity an attempt runs under
  PackOf          \* the rule pack the attempt's engine loaded

Item == 1..N
Attempt == 1..MaxAttempts

ASSUME SizesAssumption == N \in Nat /\ MaxAttempts \in Nat
ASSUME ContentAssumption == Readable \subseteq Item /\ PageEnd \subseteq Item
ASSUME EngineOfAssumption == EngineOf \in [Attempt -> EngineId] /\ NoEngine \notin EngineId
ASSUME PackOfAssumption == PackOf \in [Attempt -> Pack] /\ NoPack \notin Pack

\* A body on its way to the API: a batch of a running task or its final
\* results.  It covers the items after "from" up to "to".
Body == [kind    : {"progress", "results"},
         attempt : Attempt,
         seq     : Nat,                \* sequence, or checkpoint_sequence
         from    : 0..N,
         to      : 0..N,
         pos     : 0..N,               \* the checkpoint of a batch
         status  : {"running", "completed", "failed"}]

\* A batch says "this much is safe", final results have an outcome.
Request == {q \in Body : q.kind = "progress" <=> q.status = "running"}

\* A fetch inside an engine with its _Batcher: "sent" is where the ledger of
\* accepted work ends, "at" the last unit processed, "flight" the unacknowledged
\* batch (none as the empty set).
Run == [phase   : {"idle", "fetching", "waiting", "reporting", "ended"},
        start   : 0..N,
        at      : 0..N,
        sent    : 0..N,
        seq     : Nat,
        flushed : 0..N,
        flight  : SUBSET Request]

\* The columns of scan_tasks batching uses; position 0 is an empty checkpoint.
Row == [status  : {"queued", "leased", "completed", "failed", "cancelled"},
        engine  : EngineId \cup {NoEngine},
        attempt : Nat,
        seq     : Nat,
        pos     : 0..N,
        context : Pack \cup {NoPack},
        keyed   : BOOLEAN]                 \* result_key is set

VARIABLES
  row,        \* the task's row
  coverage,   \* scan_task.coverage: how often each item is counted
  stored,     \* findings ingested: pairs of an item and the pack that scanned it
  scanPack,   \* scan.rulepack_version
  run,        \* the attempts
  net,        \* requests no API process has read yet
  handlers    \* requests past their unlocked read of the task row

vars == <<row, coverage, stored, scanPack, run, net, handlers>>

Handler == [request : Request, base : [Item -> Nat]]

Nothing == [i \in Item |-> 0]

IdleRun == [phase |-> "idle", start |-> 0, at |-> 0, sent |-> 0, seq |-> 0, flushed |-> 0,
            flight |-> {}]

Init ==
  /\ row = [status |-> "queued", engine |-> NoEngine, attempt |-> 0, seq |-> 0, pos |-> 0,
            context |-> NoPack, keyed |-> FALSE]
  /\ coverage = Nothing
  /\ stored = {}
  /\ scanPack = NoPack
  /\ run = [a \in Attempt |-> IdleRun]
  /\ net = {}
  /\ handlers = {}

Covered(q) == (q.from + 1)..q.to

\* merge_task_report: a delta is added to what is there.
Merge(base, q) == [i \in Item |-> IF i \in Covered(q) THEN base[i] + 1 ELSE base[i]]

\* ingest_findings, by fingerprint: what is stored already is not stored twice.
Ingest(q) == stored \cup {<<i, PackOf[q.attempt]>> : i \in Covered(q) \cap Readable}

-----------------------------------------------------------------------------
(* Leases. *)

\* _checkpoint_still_valid (the source configuration of a scan never changes).
CheckpointStillValid == row.context = scanPack

\* claim_task and lease_task: a resume point of another pack is discarded, the
\* batch counter and the coverage of the accepted batches stay.
Lease(a) ==
  LET pos == IF row.pos # 0 /\ ~CheckpointStillValid THEN 0 ELSE row.pos IN
  /\ row.status = "queued"
  /\ a = row.attempt + 1
  /\ row' = [row EXCEPT !.status = "leased", !.engine = EngineOf[a], !.attempt = a,
                        !.pos = pos, !.context = IF pos = 0 THEN NoPack ELSE @]
  /\ run' = [run EXCEPT ![a] = [IdleRun EXCEPT !.phase = "fetching", !.start = pos,
                                               !.at = pos, !.sent = pos, !.seq = row.seq]]
  /\ UNCHANGED <<coverage, stored, scanPack, net, handlers>>

\* lease_task without a pepper or a credential: the failure report replaces the
\* task's coverage.
LeaseFails(a) ==
  /\ row.status = "queued"
  /\ a = row.attempt + 1
  /\ row' = [row EXCEPT !.status = "failed", !.engine = EngineOf[a], !.attempt = a]
  /\ coverage' = Nothing
  /\ UNCHANGED <<stored, scanPack, run, net, handlers>>

\* reclaim_expired_leases, once the lease has lapsed.
Reclaim ==
  /\ row.status = "leased"
  /\ row.attempt < MaxAttempts
  /\ row' = [row EXCEPT !.status = "queued", !.engine = NoEngine]
  /\ UNCHANGED <<coverage, stored, scanPack, run, net, handlers>>

\* cancel_scan: the gap it merges adds to no item.
Cancel ==
  /\ row.status \in {"queued", "leased"}
  /\ row' = [row EXCEPT !.status = "cancelled"]
  /\ UNCHANGED <<coverage, stored, scanPack, run, net, handlers>>

\* Another task of the scan reports under the pack its engine loaded.
OtherTaskReports(p) ==
  /\ scanPack # p
  /\ scanPack' = p
  /\ UNCHANGED <<row, coverage, stored, run, net, handlers>>

-----------------------------------------------------------------------------
(* The fetch loop. *)

\* The generator's next unit after item i.
NextUnit(i, j) ==
  /\ j \in Readable /\ j > i
  /\ \A k \in Readable : k > i => k >= j

\* Faulty variant: the position the unit in hand will end at.
PublishedWithUnit(start, j, p) ==
  /\ p \in PageEnd /\ start < p /\ p <= j
  /\ \A k \in PageEnd : k <= j => k <= p

\* The checkpoint this fetch has published when the generator yields item j.
Published(start, j, p) ==
  /\ p \in PageEnd /\ start < p /\ p < j
  /\ \A k \in PageEnd : k < j => k <= p

\* One iteration of _fetch's loop that does not flush: the unit is scanned and
\* boundary records it.
ScanUnit(a) ==
  /\ run[a].phase = "fetching"
  /\ \E j \in Readable : /\ NextUnit(run[a].at, j)
                         /\ run' = [run EXCEPT ![a].at = j]
  /\ UNCHANGED <<row, coverage, stored, scanPack, net, handlers>>

\* Faulty variant: a batch is composed afresh while one is unacknowledged.
MayComposeAlways(r) == r.at > r.sent

\* due, when nothing is in flight and there is work past the ledger.
MayCompose(r) == r.flight = {} /\ r.at > r.sent

\* send: at the top of an iteration the pending boundary goes out with the
\* checkpoint published so far.  When it is due (500 findings or 30 seconds) is
\* left open.
Flush(a) ==
  LET r == run[a] IN
  /\ r.phase = "fetching"
  /\ MayCompose(r)
  /\ \E j \in Readable, p \in PageEnd :
       LET batch == [kind |-> "progress", attempt |-> a, seq |-> r.seq + 1,
                     from |-> r.sent, to |-> r.at, pos |-> p, status |-> "running"]
       IN /\ NextUnit(r.at, j)
          /\ Published(r.start, j, p)
          /\ p # r.flushed
          /\ run' = [run EXCEPT ![a].phase = "waiting", ![a].flight = {batch}]
          /\ net' = net \cup {batch}
  /\ UNCHANGED <<row, coverage, stored, scanPack, handlers>>

\* deliver, again: the batch in flight goes out verbatim.
Redeliver(a) ==
  /\ run[a].phase = "fetching"
  /\ run[a].flight # {}
  /\ \E j \in Readable : NextUnit(run[a].at, j)
  /\ run' = [run EXCEPT ![a].phase = "waiting"]
  /\ net' = net \cup run[a].flight
  /\ UNCHANGED <<row, coverage, stored, scanPack, handlers>>

\* The engine gives up on an answer: the batch stays in flight.
Timeout(a) ==
  /\ run[a].phase = "waiting"
  /\ run' = [run EXCEPT ![a].phase = "fetching"]
  /\ UNCHANGED <<row, coverage, stored, scanPack, net, handlers>>

\* The engine dies, stops on a cancellation, or gives up on reporting.
RunDies(a) ==
  /\ run[a].phase \in {"fetching", "waiting", "reporting"}
  /\ run' = [run EXCEPT ![a].phase = "ended"]
  /\ UNCHANGED <<row, coverage, stored, scanPack, net, handlers>>

\* The end of _fetch and _submit: what no acknowledged batch carried goes out
\* with the ledger's sequence.  The generator either ran dry, or raised.
Report(a) ==
  LET r == run[a]
      unread == \E i \in Item \ Readable : i > r.start
      body(to, status) == [kind |-> "results", attempt |-> a, seq |-> r.seq,
                           from |-> r.sent, to |-> to, pos |-> 0, status |-> status]
  IN /\ r.phase = "fetching"
     /\ \/ /\ \A j \in Readable : j <= r.at
           /\ net' = net \cup {body(N, IF unread THEN "failed" ELSE "completed")}
        \/ net' = net \cup {body(r.at, "failed")}
     /\ run' = [run EXCEPT ![a].phase = "reporting"]
     /\ UNCHANGED <<row, coverage, stored, scanPack, handlers>>

-----------------------------------------------------------------------------
(* The API. *)

\* Faulty variant: results are accepted whatever batches they build on.
AnySequence(q) == TRUE

\* submit_results: the engine must have flushed what the API recorded.
SequenceMatches(q) == q.kind = "results" => q.seq = row.seq

\* The unlocked read of submit_progress and submit_results.
Receive(q) ==
  /\ net' = net \ {q}
  /\ row.engine = EngineOf[q.attempt]
  /\ SequenceMatches(q)
  /\ handlers' = handlers \cup {[request |-> q, base |-> coverage]}
  /\ UNCHANGED <<row, coverage, stored, scanPack, run>>

\* The request is lost, or answered with 403 or 409 by its first checks.
Refuse(q) ==
  /\ net' = net \ {q}
  /\ UNCHANGED <<row, coverage, stored, scanPack, run, handlers>>

\* The API process dies before its commit.
HandlerDies(h) ==
  /\ handlers' = handlers \ {h}
  /\ UNCHANGED <<row, coverage, stored, scanPack, run, net>>

\* The lease conditions of advance_checkpoint and claim_result (a leased task
\* has no result_key).
HoldsLease(q) == row.status = "leased" /\ row.engine = EngineOf[q.attempt]

\* The predicate of advance_checkpoint's conditional UPDATE.
Advances(q) == HoldsLease(q) /\ row.seq + 1 = q.seq

\* deliver, on an answer: the API's counter decides whether the ledger moves.
Acknowledged(r, q, seq) ==
  IF seq < q.seq THEN [r EXCEPT !.phase = "fetching", !.flight = {}]
  ELSE [r EXCEPT !.phase = "fetching", !.flight = {}, !.seq = seq, !.sent = q.to,
                 !.flushed = q.pos]

\* An answer to request q reaches the engine if it still waits for it.
Answer(q, seq) ==
  \/ UNCHANGED run
  \/ /\ run[q.attempt].phase = "waiting" /\ q \in run[q.attempt].flight
     /\ run' = [run EXCEPT ![q.attempt] = Acknowledged(@, q, seq)]

\* submit_progress, accepted: findings, checkpoint and coverage commit together.
ProgressStored(h) ==
  LET q == h.request IN
  /\ q.kind = "progress"
  /\ Advances(q)
  /\ row' = [row EXCEPT !.seq = q.seq, !.pos = q.pos, !.context = PackOf[q.attempt]]
  /\ coverage' = Merge(h.base, q)
  /\ stored' = Ingest(q)
  /\ scanPack' = PackOf[q.attempt]
  /\ handlers' = handlers \ {h}
  /\ Answer(q, q.seq)
  /\ UNCHANGED net

\* submit_progress, not accepted: answered as a replay naming the stored counter,
\* or with 409 when the lease is gone or results are recorded.
ProgressReplayed(h) ==
  LET q == h.request IN
  /\ q.kind = "progress"
  /\ ~Advances(q)
  /\ handlers' = handlers \ {h}
  /\ IF row.engine = EngineOf[q.attempt] /\ ~row.keyed
     THEN Answer(q, row.seq)
     ELSE UNCHANGED run
  /\ UNCHANGED <<row, coverage, stored, scanPack, net>>

\* _effective_outcome, on the merged coverage of the task.
EffectiveOutcome(status, merged) ==
  IF status = "completed" /\ \E i \in Item \ Readable : merged[i] > 0 THEN "failed" ELSE status

\* submit_results, accepted: the remainder is merged onto the coverage the
\* handler read at its start.
ResultsStored(h) ==
  LET q == h.request
      merged == Merge(IF q.seq > 0 THEN h.base ELSE Nothing, q)
  IN /\ q.kind = "results"
     /\ HoldsLease(q)
     /\ row' = [row EXCEPT !.status = EffectiveOutcome(q.status, merged), !.keyed = TRUE]
     /\ coverage' = merged
     /\ stored' = Ingest(q)
     /\ scanPack' = PackOf[q.attempt]
     /\ handlers' = handlers \ {h}
     /\ UNCHANGED <<run, net>>

\* submit_results whose lease is gone: 409, nothing ingested.
ResultsRefused(h) ==
  /\ h.request.kind = "results"
  /\ ~HoldsLease(h.request)
  /\ handlers' = handlers \ {h}
  /\ UNCHANGED <<row, coverage, stored, scanPack, run, net>>

-----------------------------------------------------------------------------
RunStep(a) ==
  \/ Lease(a)
  \/ LeaseFails(a)
  \/ ScanUnit(a)
  \/ Flush(a)
  \/ Redeliver(a)
  \/ Timeout(a)
  \/ RunDies(a)
  \/ Report(a)

Next ==
  \/ \E a \in Attempt : RunStep(a)
  \/ Reclaim
  \/ Cancel
  \/ \E p \in Pack : OtherTaskReports(p)
  \/ \E q \in net : Receive(q) \/ Refuse(q)
  \/ \E h \in handlers : HandlerDies(h) \/ ProgressStored(h) \/ ProgressReplayed(h)
                         \/ ResultsStored(h) \/ ResultsRefused(h)

Spec == Init /\ [][Next]_vars

-----------------------------------------------------------------------------
(* Properties. *)

TypeOK ==
  /\ row \in Row
  /\ coverage \in [Item -> Nat]
  /\ stored \subseteq Item \X Pack
  /\ scanPack \in Pack \cup {NoPack}
  /\ run \in [Attempt -> Run]
  /\ net \subseteq Request
  /\ handlers \subseteq Handler

\* The findings of every item up to i are in the database.
StoredUpTo(i) == \A k \in Readable : k <= i => \E p \in Pack : <<k, p>> \in stored

\* A completed task has stored the findings of every readable item, whichever
\* attempts read them: "advancing the ledger past what the API stored would
\* cost the findings" (_Batcher.deliver).
NoFindingLost == row.status = "completed" => StoredUpTo(N)

\* The stored resume point never runs ahead of the stored findings, so that the
\* next attempt starts beyond nothing nobody stored (advance_checkpoint).
ResumeBehindFindings == StoredUpTo(row.pos)

\* No attempt, also none whose lease was reclaimed, believes accepted what the
\* API does not hold: the ledger of _Batcher is honest.
LedgerHonest == \A a \in Attempt : StoredUpTo(run[a].sent)

\* Neither position of a task, the resume point in its row and the ledger of the
\* engine, is ahead of what is stored: whichever attempt dies, and whichever goes on,
\* nothing behind it has to be read again (advance_checkpoint, _Batcher.deliver).
PositionsHonest == ResumeBehindFindings /\ LedgerHonest

\* "What makes a resumed attempt neither skip nor double-count": the merged
\* coverage of a completed task counts every item once.
CoverageExact == row.status = "completed" => \A i \in Item : coverage[i] = 1

\* "Fail closed when a connector could not read requested content": a task over
\* content that cannot be read does not complete.
UnreadNotCompleted == row.status = "completed" => Readable = Item

\* "Skip content the new rules have never seen": all of a completed task's
\* content was scanned under the pack its scan names.
ScannedUnderScanPack ==
  row.status = "completed" =>
    \A i \in Readable : <<i, PackOf[row.attempt]>> \in stored

-----------------------------------------------------------------------------
(* What the proofs need beside the properties. *)

\* The requests that have not been answered or dropped.
Pending == net \cup {h.request : h \in handlers}

\* Attempts start at a lease, and the row names the last attempt's identity.
AttemptsKnown ==
  /\ \A a \in Attempt : run[a].phase # "idle" => a <= row.attempt
  /\ \A q \in Pending : run[q.attempt].phase # "idle"
  /\ row.engine # NoEngine => row.attempt \in Attempt /\ row.engine = EngineOf[row.attempt]
  /\ row.status = "queued" => row.engine = NoEngine

\* A request starts where stored findings end and its checkpoint does not pass
\* its own work; completed results reach the end of the content.
RequestHonest(q) ==
  /\ StoredUpTo(q.from)
  /\ q.kind = "progress" => \A k \in Readable : k <= q.pos => k <= q.to
  /\ q.status = "completed" => q.to = N

RequestsHonest == \A q \in Pending : RequestHonest(q)

\* A sequence number is bound to the batch it was first sent with.
SequenceBound ==
  /\ \A a \in Attempt : \A f \in run[a].flight :
       /\ run[a].flight = {f} /\ run[a].phase # "idle"
       /\ f.kind = "progress" /\ f.attempt = a /\ f.seq = run[a].seq + 1
       /\ RequestHonest(f)
  /\ \A q \in Pending : q.kind = "progress" =>
       /\ q.seq <= run[q.attempt].seq + 1
       /\ HoldsLease(q) /\ q.seq = run[q.attempt].seq + 1 => q \in run[q.attempt].flight

\* The counter of the row is the ledger's, or one ahead of it by the batch in
\* flight, whose findings are then stored.
LedgerMatchesRow ==
  \A a \in Attempt : row.engine = EngineOf[a] /\ run[a].phase # "idle" =>
    \/ row.seq = run[a].seq
    \/ /\ row.seq = run[a].seq + 1
       /\ \E f \in run[a].flight : StoredUpTo(f.to)

CheckpointInv ==
  /\ TypeOK
  /\ AttemptsKnown
  /\ RequestsHonest
  /\ SequenceBound
  /\ LedgerMatchesRow
  /\ LedgerHonest
  /\ ResumeBehindFindings
  /\ NoFindingLost
=============================================================================
