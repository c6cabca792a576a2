-------------------------- MODULE CheckpointProofs --------------------------
(* Proofs about Checkpoint, for every content, every number of attempts and *)
(* every order in which requests arrive.                                    *)
EXTENDS Checkpoint, TLAPS

USE SizesAssumption, ContentAssumption, EngineOfAssumption, PackOfAssumption

-----------------------------------------------------------------------------
(* Types. *)

LEMMA IdleRunType == IdleRun \in Run
BY DEF IdleRun, Run

LEMMA MergeType ==
  ASSUME NEW base \in [Item -> Nat], NEW q
  PROVE  Merge(base, q) \in [Item -> Nat]
BY DEF Merge

LEMMA IngestType ==
  ASSUME stored \subseteq Item \X Pack, NEW q \in Request
  PROVE  Ingest(q) \subseteq Item \X Pack
BY DEF Ingest, Request, Body

LEMMA HandlerType ==
  ASSUME TypeOK, NEW h \in handlers
  PROVE  h \in Handler /\ h.request \in Request /\ h.base \in [Item -> Nat]
BY DEF TypeOK, Handler

LEMMA AcknowledgedType ==
  ASSUME NEW r \in Run, NEW q \in Request, NEW seq \in Nat
  PROVE  Acknowledged(r, q, seq) \in Run
<1>1. q.to \in 0..N /\ q.pos \in 0..N
  BY DEF Request, Body
<1>2. [r EXCEPT !.phase = "fetching", !.flight = {}] \in Run
  BY DEF Run
<1>3. [r EXCEPT !.phase = "fetching", !.flight = {}, !.seq = seq, !.sent = q.to,
                !.flushed = q.pos] \in Run
  BY <1>1 DEF Run
<1>4. QED
  BY <1>2, <1>3 DEF Acknowledged

LEMMA AnswerType ==
  ASSUME run \in [Attempt -> Run], NEW q \in Request, NEW seq \in Nat, Answer(q, seq)
  PROVE  run' \in [Attempt -> Run]
BY AcknowledgedType DEF Answer, Request, Body

LEMMA PositionsType == /\ Readable \subseteq 0..N /\ PageEnd \subseteq 0..N
                       /\ 0 \in 0..N /\ N \in 0..N /\ Attempt \subseteq Nat
BY DEF Item, Attempt

LEMMA TypeInit == Init => TypeOK
BY IdleRunType, PositionsType DEF Init, TypeOK, Row, Nothing

LEMMA TypeNext == TypeOK /\ [Next]_vars => TypeOK'
<1> SUFFICES ASSUME TypeOK, [Next]_vars PROVE TypeOK'
  OBVIOUS
<1> USE DEF TypeOK
<1>1. ASSUME NEW a \in Attempt, RunStep(a) PROVE TypeOK'
  <2> DEFINE r == run[a]
  <2>0. r \in Run /\ a \in Nat
    BY PositionsType
  <2>1. CASE Lease(a)
    <3> DEFINE pos == IF row.pos # 0 /\ ~CheckpointStillValid THEN 0 ELSE row.pos
    <3>1. pos \in 0..N /\ row.seq \in Nat
      BY PositionsType DEF Row
    <3> HIDE DEF pos
    <3>2. /\ row' = [row EXCEPT !.status = "leased", !.engine = EngineOf[a], !.attempt = a,
                                !.pos = pos, !.context = IF pos = 0 THEN NoPack ELSE @]
          /\ run' = [run EXCEPT ![a] = [IdleRun EXCEPT !.phase = "fetching", !.start = pos,
                                               !.at = pos, !.sent = pos, !.seq = row.seq]]
          /\ UNCHANGED <<coverage, stored, scanPack, net, handlers>>
      BY <2>1 DEF Lease, pos
    <3>3. row' \in Row
      BY <3>1, <3>2, <2>0 DEF Row
    <3>4. [IdleRun EXCEPT !.phase = "fetching", !.start = pos, !.at = pos, !.sent = pos,
                          !.seq = row.seq] \in Run
      BY <3>1, IdleRunType DEF Run
    <3>5. QED
      BY <3>2, <3>3, <3>4
  <2>2. CASE LeaseFails(a)
    <3>1. row' \in Row
      BY <2>2, <2>0 DEF LeaseFails, Row
    <3>2. QED
      BY <2>2, <3>1 DEF LeaseFails, Nothing
  <2>3. CASE ScanUnit(a)
    <3>1. PICK j \in Readable : run' = [run EXCEPT ![a].at = j]
      BY <2>3 DEF ScanUnit
    <3>2. [r EXCEPT !.at = j] \in Run
      BY <2>0, PositionsType DEF Run
    <3>3. QED
      BY <2>3, <3>1, <3>2 DEF ScanUnit
  <2>4. CASE Flush(a)
    <3> DEFINE batch(p) == [kind |-> "progress", attempt |-> a, seq |-> r.seq + 1,
                            from |-> r.sent, to |-> r.at, pos |-> p, status |-> "running"]
    <3>1. PICK p \in PageEnd :
            /\ run' = [run EXCEPT ![a].phase = "waiting", ![a].flight = {batch(p)}]
            /\ net' = net \cup {batch(p)}
      BY <2>4 DEF Flush
    <3>2. batch(p) \in Request
      BY <2>0, PositionsType DEF Run, Request, Body
    <3> HIDE DEF batch
    <3>3. [r EXCEPT !.phase = "waiting", !.flight = {batch(p)}] \in Run
      BY <2>0, <3>2 DEF Run
    <3>4. QED
      BY <2>4, <3>1, <3>2, <3>3 DEF Flush
  <2>5. CASE Redeliver(a)
    <3>1. [r EXCEPT !.phase = "waiting"] \in Run /\ r.flight \subseteq Request
      BY <2>0 DEF Run
    <3>2. QED
      BY <2>5, <3>1 DEF Redeliver
  <2>6. CASE Timeout(a)
    <3>1. [r EXCEPT !.phase = "fetching"] \in Run
      BY <2>0 DEF Run
    <3>2. QED
      BY <2>6, <3>1 DEF Timeout
  <2>7. CASE RunDies(a)
    <3>1. [r EXCEPT !.phase = "ended"] \in Run
      BY <2>0 DEF Run
    <3>2. QED
      BY <2>7, <3>1 DEF RunDies
  <2>8. CASE Report(a)
    <3> DEFINE body(to, status) == [kind |-> "results", attempt |-> a, seq |-> r.seq,
                                    from |-> r.sent, to |-> to, pos |-> 0,
                                    status |-> status]
    <3>1. \E to \in {N, r.at}, status \in {"completed", "failed"} :
            net' = net \cup {body(to, status)}
      BY <2>8 DEF Report
    <3>2. \A to \in {N, r.at}, status \in {"completed", "failed"} :
            body(to, status) \in Request
      BY <2>0, PositionsType DEF Run, Request, Body
    <3>3. [r EXCEPT !.phase = "reporting"] \in Run
      BY <2>0 DEF Run
    <3> HIDE DEF body
    <3>4. QED
      BY <2>8, <3>1, <3>2, <3>3 DEF Report
  <2>9. QED
    BY <1>1, <2>1, <2>2, <2>3, <2>4, <2>5, <2>6, <2>7, <2>8 DEF RunStep
<1>2. CASE Reclaim
  BY <1>2 DEF Reclaim, Row
<1>3. CASE Cancel
  BY <1>3 DEF Cancel, Row
<1>4. ASSUME NEW p \in Pack, OtherTaskReports(p) PROVE TypeOK'
  BY <1>4 DEF OtherTaskReports
<1>5. ASSUME NEW q \in net, Receive(q) \/ Refuse(q) PROVE TypeOK'
  BY <1>5 DEF Receive, Refuse, Handler
<1>6. ASSUME NEW h \in handlers,
             HandlerDies(h) \/ ProgressStored(h) \/ ProgressReplayed(h)
               \/ ResultsStored(h) \/ ResultsRefused(h)
      PROVE  TypeOK'
  <2> DEFINE q == h.request
  <2>0. /\ h \in Handler /\ q \in Request /\ h.base \in [Item -> Nat]
        /\ q.seq \in Nat /\ q.pos \in 0..N /\ PackOf[q.attempt] \in Pack /\ row.seq \in Nat
    BY HandlerType DEF Request, Body, Row
  <2>1. CASE HandlerDies(h) \/ ResultsRefused(h)
    BY <2>1 DEF HandlerDies, ResultsRefused
  <2>2. CASE ProgressStored(h)
    <3>1. row' \in Row
      BY <2>2, <2>0 DEF ProgressStored, Row
    <3>2. run' \in [Attempt -> Run]
      BY <2>2, <2>0, AnswerType DEF ProgressStored
    <3>3. QED
      BY <2>2, <2>0, <3>1, <3>2, MergeType, IngestType DEF ProgressStored
  <2>3. CASE ProgressReplayed(h)
    <3>1. run' \in [Attempt -> Run]
      BY <2>3, <2>0, AnswerType DEF ProgressReplayed
    <3>2. QED
      BY <2>3, <3>1 DEF ProgressReplayed
  <2>4. CASE ResultsStored(h)
    <3> DEFINE merged == Merge(IF q.seq > 0 THEN h.base ELSE Nothing, q)
    <3>1. merged \in [Item -> Nat]
      BY <2>0, MergeType DEF Nothing
    <3>2. q.status \in {"completed", "failed"}
      BY <2>0, <2>4 DEF Request, Body, ResultsStored
    <3>3. EffectiveOutcome(q.status, merged) \in {"completed", "failed"}
      BY <3>2 DEF EffectiveOutcome
    <3>4. QED
      BY <2>4, <2>0, <3>1, <3>3, IngestType DEF ResultsStored, Row
  <2>5. QED
    BY <1>6, <2>1, <2>2, <2>3, <2>4
<1>7. CASE UNCHANGED vars
  BY <1>7 DEF vars
<1>8. QED
  BY <1>1, <1>2, <1>3, <1>4, <1>5, <1>6, <1>7 DEF Next

\* Rows, runs and requests keep their types along every behaviour.
THEOREM TypeCorrect == Spec => []TypeOK
<1>1. QED
  BY TypeInit, TypeNext, PTL DEF Spec

-----------------------------------------------------------------------------
(* Stored findings only grow. *)

\* The deployment the results below are about: every attempt at the task runs
\* under an identity of its own.
OwnIdentity == \A a, b \in Attempt : EngineOf[a] = EngineOf[b] => a = b

LEMMA StoredGrows ==
  ASSUME stored \subseteq stored', NEW i, StoredUpTo(i)
  PROVE  StoredUpTo(i)'
BY DEF StoredUpTo

LEMMA HonestyStays ==
  ASSUME stored \subseteq stored', NEW q, RequestHonest(q)
  PROVE  RequestHonest(q)'
BY StoredGrows DEF RequestHonest

LEMMA StoredBelow ==
  ASSUME NEW i, NEW j, \A k \in Readable : k <= j => k <= i, StoredUpTo(i)
  PROVE  StoredUpTo(j)
BY DEF StoredUpTo

LEMMA IngestStores ==
  ASSUME NEW q \in Request, StoredUpTo(q.from), stored' = Ingest(q)
  PROVE  stored \subseteq stored' /\ StoredUpTo(q.to)'
<1>1. stored \subseteq stored'
  BY DEF Ingest
<1>2. q.from \in 0..N /\ q.to \in 0..N /\ PackOf[q.attempt] \in Pack
  BY DEF Request, Body
<1>3. ASSUME NEW k \in Readable, k <= q.to PROVE \E p \in Pack : <<k, p>> \in stored'
  <2>1. k \in Nat /\ k \in 1..N
    BY DEF Item
  <2>2. CASE k <= q.from
    BY <2>2, <1>1 DEF StoredUpTo
  <2>3. CASE k > q.from
    <3>1. k \in Covered(q) \cap Readable
      BY <1>2, <1>3, <2>1, <2>3 DEF Covered
    <3>2. <<k, PackOf[q.attempt]>> \in stored'
      BY <3>1 DEF Ingest
    <3>3. QED
      BY <3>2, <1>2
  <2>4. QED
    BY <1>2, <2>1, <2>2, <2>3
<1>4. QED
  BY <1>1, <1>3 DEF StoredUpTo

-----------------------------------------------------------------------------
(* Requests. *)

LEMMA PendingType ==
  ASSUME TypeOK, NEW q \in Pending
  PROVE  q \in Request /\ q.attempt \in Attempt /\ q.seq \in Nat
BY DEF TypeOK, Pending, Handler, Request, Body

LEMMA HandlerPending ==
  ASSUME NEW h \in handlers
  PROVE  h.request \in Pending
BY DEF Pending

LEMMA RunType ==
  ASSUME TypeOK, NEW a \in Attempt
  PROVE  /\ run[a] \in Run /\ run[a].seq \in Nat /\ run[a].flight \subseteq Request
         /\ run[a].sent \in 0..N /\ run[a].at \in 0..N
BY DEF TypeOK, Run

LEMMA RowType ==
  ASSUME TypeOK
  PROVE  row.seq \in Nat /\ row.attempt \in Nat /\ row.pos \in 0..N
BY DEF TypeOK, Row

\* Nothing but the set of pending requests changes, and no request is new.
LEMMA RequestStep ==
  ASSUME CheckpointInv, TypeOK', row' = row, stored' = stored, run' = run,
         Pending' \subseteq Pending
  PROVE  CheckpointInv'
<1>1. AttemptsKnown'
  BY DEF CheckpointInv, AttemptsKnown
<1>2. RequestsHonest'
  BY HonestyStays DEF CheckpointInv, RequestsHonest
<1>3. SequenceBound'
  BY HonestyStays DEF CheckpointInv, SequenceBound, HoldsLease
<1>4. LedgerMatchesRow'
  BY StoredGrows DEF CheckpointInv, LedgerMatchesRow
<1>5. LedgerHonest' /\ ResumeBehindFindings' /\ NoFindingLost'
  BY StoredGrows DEF CheckpointInv, LedgerHonest, ResumeBehindFindings, NoFindingLost
<1>6. QED
  BY <1>1, <1>2, <1>3, <1>4, <1>5 DEF CheckpointInv

\* A run moves without touching its ledger, and may send again what is in flight
\* or send final results.
LedgerStays(a) ==
  /\ row' = row /\ stored' = stored
  /\ \A b \in Attempt : b # a => run'[b] = run[b]
  /\ run[a].phase # "idle" /\ run'[a].phase # "idle" /\ run'[a].seq = run[a].seq
  /\ run'[a].sent = run[a].sent /\ run'[a].flight = run[a].flight
  /\ \A q \in Pending' : \/ q \in Pending
                         \/ q \in run[a].flight
                         \/ q.kind = "results" /\ q.attempt = a /\ RequestHonest(q)

LEMMA LedgerKept ==
  \A a \in Attempt : CheckpointInv /\ TypeOK' /\ LedgerStays(a) => CheckpointInv'
<1> SUFFICES ASSUME CheckpointInv, TypeOK', NEW a \in Attempt,
                    row' = row, stored' = stored,
                    \A b \in Attempt : b # a => run'[b] = run[b],
                    run[a].phase # "idle", run'[a].phase # "idle",
                    run'[a].seq = run[a].seq, run'[a].sent = run[a].sent,
                    run'[a].flight = run[a].flight,
                    \A q \in Pending' :
                      \/ q \in Pending
                      \/ q \in run[a].flight
                      \/ q.kind = "results" /\ q.attempt = a /\ RequestHonest(q)
             PROVE  CheckpointInv'
  BY DEF LedgerStays
<1>0. /\ TypeOK /\ \A b \in Attempt : run[b].phase # "idle" <=> run'[b].phase # "idle"
      /\ \A b \in Attempt : /\ run'[b].seq = run[b].seq
                            /\ run'[b].sent = run[b].sent
                            /\ run'[b].flight = run[b].flight
  BY DEF CheckpointInv
<1>1. ASSUME NEW q \in Pending'
      PROVE  /\ q.attempt \in Attempt
             /\ run'[q.attempt].phase # "idle"
             /\ RequestHonest(q)
             /\ q.kind = "progress" =>
                  /\ q.seq <= run'[q.attempt].seq + 1
                  /\ HoldsLease(q)' /\ q.seq = run'[q.attempt].seq + 1
                       => q \in run'[q.attempt].flight
  <2>0. HoldsLease(q)' <=> HoldsLease(q)
    BY DEF HoldsLease
  <2>1. CASE q \in Pending
    <3>1. /\ q.attempt \in Attempt /\ run[q.attempt].phase # "idle" /\ RequestHonest(q)
          /\ q.kind = "progress" =>
               /\ q.seq <= run[q.attempt].seq + 1
               /\ HoldsLease(q) /\ q.seq = run[q.attempt].seq + 1
                    => q \in run[q.attempt].flight
      BY <2>1, <1>0, PendingType
      DEF CheckpointInv, AttemptsKnown, RequestsHonest, SequenceBound
    <3>2. QED
      BY <3>1, <2>0, <1>0
  <2>2. CASE q \in run[a].flight
    <3>1. q.attempt = a /\ q.seq = run[a].seq + 1 /\ RequestHonest(q)
      BY <2>2 DEF CheckpointInv, SequenceBound
    <3>2. run[a].seq \in Nat
      BY <1>0, RunType
    <3>3. QED
      BY <2>2, <3>1, <3>2, <1>0
  <2>3. CASE q.kind = "results" /\ q.attempt = a /\ RequestHonest(q)
    BY <2>3
  <2>4. QED
    BY <2>1, <2>2, <2>3
<1>2. AttemptsKnown'
  <2>1. \A b \in Attempt : run'[b].phase # "idle" => b <= row'.attempt
    BY <1>0 DEF CheckpointInv, AttemptsKnown
  <2>2. \A q \in Pending' : run'[q.attempt].phase # "idle"
    BY <1>1
  <2>3. QED
    BY <2>1, <2>2 DEF CheckpointInv, AttemptsKnown
<1>3. RequestsHonest'
  <2>1. ASSUME NEW q \in Pending' PROVE RequestHonest(q)'
    BY <1>1, HonestyStays
  <2>2. QED
    BY <2>1 DEF RequestsHonest
<1>4. SequenceBound'
  <2>1. \A b \in Attempt : \A f \in run'[b].flight :
          /\ run'[b].flight = {f} /\ run'[b].phase # "idle"
          /\ f.kind = "progress" /\ f.attempt = b /\ f.seq = run'[b].seq + 1
          /\ RequestHonest(f)'
    BY <1>0, HonestyStays DEF CheckpointInv, SequenceBound
  <2>2. ASSUME NEW q \in Pending', q.kind = "progress"
        PROVE  /\ q.seq <= run'[q.attempt].seq + 1
               /\ HoldsLease(q)' /\ q.seq = run'[q.attempt].seq + 1
                    => q \in run'[q.attempt].flight
    BY <1>1, <2>2
  <2>3. QED
    BY <2>1, <2>2 DEF SequenceBound
<1>5. LedgerMatchesRow'
  BY <1>0, StoredGrows DEF CheckpointInv, LedgerMatchesRow
<1>6. LedgerHonest' /\ ResumeBehindFindings' /\ NoFindingLost'
  BY <1>0, StoredGrows DEF CheckpointInv, LedgerHonest, ResumeBehindFindings, NoFindingLost
<1>7. QED
  BY <1>2, <1>3, <1>4, <1>5, <1>6 DEF CheckpointInv

-----------------------------------------------------------------------------
(* The steps. *)

LEMMA InvInit == Init => CheckpointInv
<1> SUFFICES ASSUME Init PROVE CheckpointInv
  OBVIOUS
<1>1. TypeOK
  BY TypeInit
<1>2. /\ row.status = "queued" /\ row.engine = NoEngine /\ row.pos = 0
      /\ \A a \in Attempt : run[a].phase = "idle" /\ run[a].sent = 0 /\ run[a].flight = {}
      /\ Pending = {}
  BY DEF Init, IdleRun, Pending
<1>3. StoredUpTo(0)
  BY DEF StoredUpTo, Item
<1>4. AttemptsKnown /\ RequestsHonest /\ SequenceBound /\ LedgerMatchesRow
  BY <1>2 DEF AttemptsKnown, RequestsHonest, SequenceBound, LedgerMatchesRow
<1>5. LedgerHonest /\ ResumeBehindFindings /\ NoFindingLost
  BY <1>2, <1>3 DEF LedgerHonest, ResumeBehindFindings, NoFindingLost
<1>6. QED
  BY <1>1, <1>4, <1>5 DEF CheckpointInv

\* The row leaves the lease, the runs do not move and no request is new.
LEMMA LeaseEnds ==
  ASSUME CheckpointInv, TypeOK', run' = run, stored \subseteq stored',
         Pending' \subseteq Pending, row'.pos = row.pos, row'.status # "leased",
         AttemptsKnown', LedgerMatchesRow', NoFindingLost'
  PROVE  CheckpointInv'
<1>1. RequestsHonest'
  BY HonestyStays DEF CheckpointInv, RequestsHonest
<1>2. SequenceBound'
  BY HonestyStays DEF CheckpointInv, SequenceBound, HoldsLease
<1>3. LedgerHonest' /\ ResumeBehindFindings'
  BY StoredGrows DEF CheckpointInv, LedgerHonest, ResumeBehindFindings
<1>4. QED
  BY <1>1, <1>2, <1>3 DEF CheckpointInv

\* The ledger of an attempt is settled with the counter of the row, which may
\* move in the same step.
LEMMA LedgerSettled ==
  ASSUME CheckpointInv, TypeOK', OwnIdentity, stored \subseteq stored',
         Pending' \subseteq Pending, NEW a \in Attempt,
         run[a].phase # "idle",
         \A b \in Attempt : b # a => run'[b] = run[b],
         run'[a].phase # "idle", run'[a].flight = {}, StoredUpTo(run[a].sent)',
         row.engine = EngineOf[a], run'[a].seq = row'.seq,
         \/ run'[a].seq = run[a].seq + 1
         \/ run'[a].seq = run[a].seq /\ row.status # "leased",
         row'.engine = row.engine, row'.attempt = row.attempt, row'.status = row.status,
         StoredUpTo(row.pos)'
  PROVE  CheckpointInv'
<1>0. TypeOK /\ run[a].seq \in Nat
  BY RunType DEF CheckpointInv
<1>1. AttemptsKnown'
  <2>1. \A b \in Attempt : run'[b].phase # "idle" => run[b].phase # "idle"
    OBVIOUS
  <2>2. \A b \in Attempt : run[b].phase # "idle" => run'[b].phase # "idle"
    OBVIOUS
  <2>3. \A q \in Pending' : q.attempt \in Attempt
    BY <1>0, PendingType
  <2>4. QED
    BY <2>1, <2>2, <2>3 DEF CheckpointInv, AttemptsKnown
<1>2. RequestsHonest'
  BY HonestyStays DEF CheckpointInv, RequestsHonest
<1>3. SequenceBound'
  <2>1. \A b \in Attempt : \A f \in run'[b].flight :
          /\ run'[b].flight = {f} /\ run'[b].phase # "idle"
          /\ f.kind = "progress" /\ f.attempt = b /\ f.seq = run'[b].seq + 1
          /\ RequestHonest(f)'
    BY HonestyStays DEF CheckpointInv, SequenceBound
  <2>2. ASSUME NEW q \in Pending', q.kind = "progress"
        PROVE  /\ q.seq <= run'[q.attempt].seq + 1
               /\ HoldsLease(q)' /\ q.seq = run'[q.attempt].seq + 1
                    => q \in run'[q.attempt].flight
    <3>1. /\ q \in Pending /\ q.attempt \in Attempt /\ q.seq \in Nat
          /\ q.seq <= run[q.attempt].seq + 1
          /\ HoldsLease(q) /\ q.seq = run[q.attempt].seq + 1 => q \in run[q.attempt].flight
      BY <1>0, <2>2, PendingType DEF CheckpointInv, SequenceBound
    <3>2. HoldsLease(q)' <=> HoldsLease(q)
      BY DEF HoldsLease
    <3>3. CASE q.attempt # a
      BY <3>1, <3>2, <3>3
    <3>4. CASE q.attempt = a /\ run'[a].seq = run[a].seq + 1
      BY <3>1, <3>4, <1>0
    <3>5. CASE q.attempt = a /\ run'[a].seq = run[a].seq /\ row.status # "leased"
      BY <3>1, <3>2, <3>5, <1>0 DEF HoldsLease
    <3>6. QED
      BY <3>3, <3>4, <3>5
  <2>3. QED
    BY <2>1, <2>2 DEF SequenceBound
<1>4. LedgerMatchesRow'
  BY DEF LedgerMatchesRow, OwnIdentity
<1>5. LedgerHonest'
  BY StoredGrows DEF CheckpointInv, LedgerHonest
<1>6. ResumeBehindFindings' /\ NoFindingLost'
  BY StoredGrows DEF CheckpointInv, ResumeBehindFindings, NoFindingLost
<1>7. QED
  BY <1>1, <1>2, <1>3, <1>4, <1>5, <1>6 DEF CheckpointInv

\* An attempt that has not started has sent nothing.
LEMMA NextAttemptFresh ==
  ASSUME CheckpointInv, NEW a \in Attempt, a = row.attempt + 1
  PROVE  /\ run[a].phase = "idle"
         /\ \A q \in Pending : q.attempt \in Attempt /\ q.attempt # a
<1>0. TypeOK /\ a \in Nat /\ row.attempt \in Nat
  BY RowType, PositionsType DEF CheckpointInv
<1>1. run[a].phase = "idle"
  BY <1>0 DEF CheckpointInv, AttemptsKnown
<1>2. QED
  BY <1>0, <1>1, PendingType DEF CheckpointInv, AttemptsKnown

LEMMA LeaseKeeps ==
  ASSUME CheckpointInv, TypeOK', OwnIdentity, NEW a \in Attempt, Lease(a)
  PROVE  CheckpointInv'
<1> DEFINE pos == IF row.pos # 0 /\ ~CheckpointStillValid THEN 0 ELSE row.pos
<1>0. TypeOK /\ row \in Row /\ run \in [Attempt -> Run] /\ row.attempt \in Nat
  BY RowType DEF CheckpointInv, TypeOK
<1>1. StoredUpTo(pos)
  BY DEF CheckpointInv, ResumeBehindFindings, StoredUpTo, Item
<1> HIDE DEF pos
<1>2. /\ row'.status = "leased" /\ row'.engine = EngineOf[a] /\ row'.attempt = a
      /\ row'.pos = pos /\ row'.seq = row.seq
  BY <1>0 DEF Lease, Row, pos
<1>3. /\ run'[a].phase = "fetching" /\ run'[a].sent = pos /\ run'[a].seq = row.seq
      /\ run'[a].flight = {}
      /\ \A b \in Attempt : b # a => run'[b] = run[b]
  BY <1>0 DEF Lease, IdleRun, pos
<1>4. stored' = stored /\ Pending' = Pending /\ a = row.attempt + 1
  BY DEF Lease, Pending
<1>5. /\ run[a].phase = "idle"
      /\ \A q \in Pending : q.attempt \in Attempt /\ q.attempt # a
  BY <1>4, NextAttemptFresh
<1>6. AttemptsKnown'
  <2>1. \A b \in Attempt : run'[b].phase # "idle" => b <= row'.attempt
    <3> SUFFICES ASSUME NEW b \in Attempt, run'[b].phase # "idle" PROVE b <= a
      BY <1>2
    <3>1. b \in Nat /\ a \in Nat
      BY PositionsType
    <3>2. CASE b = a
      BY <3>1, <3>2
    <3>3. CASE b # a
      <4>1. b <= row.attempt
        BY <3>3, <1>3 DEF CheckpointInv, AttemptsKnown
      <4>2. QED
        BY <4>1, <3>1, <1>0, <1>4
    <3>4. QED
      BY <3>2, <3>3
  <2>2. \A q \in Pending' : run'[q.attempt].phase # "idle"
    BY <1>3, <1>4, <1>5 DEF CheckpointInv, AttemptsKnown
  <2>3. QED
    BY <2>1, <2>2, <1>2 DEF AttemptsKnown
<1>7. RequestsHonest'
  BY <1>4, HonestyStays DEF CheckpointInv, RequestsHonest
<1>8. SequenceBound'
  <2>1. \A b \in Attempt : \A f \in run'[b].flight :
          /\ run'[b].flight = {f} /\ run'[b].phase # "idle"
          /\ f.kind = "progress" /\ f.attempt = b /\ f.seq = run'[b].seq + 1
          /\ RequestHonest(f)'
    BY <1>3, <1>4, HonestyStays DEF CheckpointInv, SequenceBound
  <2>2. ASSUME NEW q \in Pending', q.kind = "progress"
        PROVE  q.seq <= run'[q.attempt].seq + 1 /\ ~HoldsLease(q)'
    <3>1. q \in Pending /\ q.attempt \in Attempt /\ q.attempt # a
      BY <1>4, <1>5
    <3>2. q.seq <= run'[q.attempt].seq + 1
      BY <3>1, <2>2, <1>3 DEF CheckpointInv, SequenceBound
    <3>3. ~HoldsLease(q)'
      BY <3>1, <1>2 DEF HoldsLease, OwnIdentity
    <3>4. QED
      BY <3>2, <3>3
  <2>3. QED
    BY <2>1, <2>2 DEF SequenceBound
<1>9. LedgerMatchesRow'
  BY <1>2, <1>3 DEF LedgerMatchesRow, OwnIdentity
<1>10. LedgerHonest' /\ ResumeBehindFindings' /\ NoFindingLost'
  BY <1>1, <1>2, <1>3, <1>4, StoredGrows
  DEF CheckpointInv, LedgerHonest, ResumeBehindFindings, NoFindingLost
<1>11. QED
  BY <1>6, <1>7, <1>8, <1>9, <1>10 DEF CheckpointInv

LEMMA LeaseFailsKeeps ==
  ASSUME CheckpointInv, TypeOK', OwnIdentity, NEW a \in Attempt, LeaseFails(a)
  PROVE  CheckpointInv'
<1>0. TypeOK /\ row \in Row /\ row.attempt \in Nat /\ a \in Nat
  BY RowType, PositionsType DEF CheckpointInv, TypeOK
<1>1. /\ row'.status = "failed" /\ row'.engine = EngineOf[a] /\ row'.attempt = a
      /\ row'.pos = row.pos /\ row'.seq = row.seq
  BY <1>0 DEF LeaseFails, Row
<1>2. /\ run' = run /\ stored' = stored /\ Pending' = Pending /\ a = row.attempt + 1
  BY DEF LeaseFails, Pending
<1>3. run[a].phase = "idle"
  BY <1>2, NextAttemptFresh
<1>4. AttemptsKnown'
  <2>1. \A b \in Attempt : run'[b].phase # "idle" => b <= row'.attempt
    <3> SUFFICES ASSUME NEW b \in Attempt, run[b].phase # "idle" PROVE b <= a
      BY <1>1, <1>2
    <3>1. b <= row.attempt /\ b \in Nat
      BY PositionsType DEF CheckpointInv, AttemptsKnown
    <3>2. QED
      BY <3>1, <1>0, <1>2
  <2>2. QED
    BY <2>1, <1>1, <1>2 DEF CheckpointInv, AttemptsKnown
<1>5. LedgerMatchesRow'
  BY <1>1, <1>2, <1>3 DEF LedgerMatchesRow, OwnIdentity
<1>6. NoFindingLost'
  BY <1>1 DEF NoFindingLost
<1>7. QED
  BY <1>1, <1>2, <1>4, <1>5, <1>6, LeaseEnds

LEMMA ReclaimKeeps ==
  ASSUME CheckpointInv, TypeOK', Reclaim
  PROVE  CheckpointInv'
<1>0. TypeOK /\ row \in Row
  BY DEF CheckpointInv, TypeOK
<1>1. /\ row'.status = "queued" /\ row'.engine = NoEngine /\ row'.attempt = row.attempt
      /\ row'.pos = row.pos
  BY <1>0 DEF Reclaim, Row
<1>2. run' = run /\ stored' = stored /\ Pending' = Pending
  BY DEF Reclaim, Pending
<1>3. AttemptsKnown'
  BY <1>1, <1>2 DEF CheckpointInv, AttemptsKnown
<1>4. LedgerMatchesRow' /\ NoFindingLost'
  BY <1>1 DEF LedgerMatchesRow, NoFindingLost
<1>5. QED
  BY <1>1, <1>2, <1>3, <1>4, LeaseEnds

LEMMA CancelKeeps ==
  ASSUME CheckpointInv, TypeOK', Cancel
  PROVE  CheckpointInv'
<1>0. TypeOK /\ row \in Row
  BY DEF CheckpointInv, TypeOK
<1>1. /\ row'.status = "cancelled" /\ row'.engine = row.engine
      /\ row'.attempt = row.attempt /\ row'.pos = row.pos /\ row'.seq = row.seq
  BY <1>0 DEF Cancel, Row
<1>2. run' = run /\ stored' = stored /\ Pending' = Pending
  BY DEF Cancel, Pending
<1>3. AttemptsKnown'
  BY <1>1, <1>2 DEF CheckpointInv, AttemptsKnown
<1>4. LedgerMatchesRow' /\ NoFindingLost'
  BY <1>1, <1>2, StoredGrows DEF CheckpointInv, LedgerMatchesRow, NoFindingLost
<1>5. QED
  BY <1>1, <1>2, <1>3, <1>4, LeaseEnds

\* Composing a batch: nothing is in flight, so its number is new to the row.
LEMMA FlushKeeps ==
  ASSUME CheckpointInv, TypeOK', NEW a \in Attempt, Flush(a)
  PROVE  CheckpointInv'
<1> DEFINE batch(p) == [kind |-> "progress", attempt |-> a, seq |-> run[a].seq + 1,
                        from |-> run[a].sent, to |-> run[a].at, pos |-> p,
                        status |-> "running"]
<1>0. /\ TypeOK /\ run \in [Attempt -> Run] /\ run[a] \in Run /\ run[a].seq \in Nat
      /\ run[a].at \in Nat
  BY RunType DEF CheckpointInv, TypeOK
<1>1. PICK j \in Readable, p \in PageEnd :
        /\ NextUnit(run[a].at, j)
        /\ Published(run[a].start, j, p)
        /\ run' = [run EXCEPT ![a].phase = "waiting", ![a].flight = {batch(p)}]
        /\ net' = net \cup {batch(p)}
  BY DEF Flush
<1>2. /\ run[a].phase = "fetching" /\ run[a].flight = {}
      /\ row' = row /\ stored' = stored /\ handlers' = handlers
  BY DEF Flush, MayCompose
<1>3. /\ batch(p).kind = "progress" /\ batch(p).attempt = a
      /\ batch(p).seq = run[a].seq + 1 /\ batch(p).from = run[a].sent
      /\ batch(p).to = run[a].at /\ batch(p).pos = p /\ batch(p).status = "running"
  OBVIOUS
<1> HIDE DEF batch
<1> DEFINE f == batch(p)
<1>4. /\ run'[a].phase = "waiting" /\ run'[a].flight = {f} /\ run'[a].seq = run[a].seq
      /\ run'[a].sent = run[a].sent
      /\ \A b \in Attempt : b # a => run'[b] = run[b]
  BY <1>0, <1>1 DEF Run
<1>5. Pending' = Pending \cup {f}
  BY <1>1, <1>2 DEF Pending
<1>6. RequestHonest(f)
  <2>1. \A k \in Readable : k <= p => k <= run[a].at
    <3> SUFFICES ASSUME NEW k \in Readable, k <= p, ~(k <= run[a].at) PROVE FALSE
      OBVIOUS
    <3>1. k \in Nat /\ j \in Nat /\ p \in Nat
      BY PositionsType
    <3>2. p < j
      BY <1>1 DEF Published
    <3>3. k > run[a].at
      BY <1>0, <3>1
    <3>4. k >= j
      BY <3>3, <1>1 DEF NextUnit
    <3>5. QED
      BY <3>1, <3>2, <3>4
  <2>2. QED
    BY <2>1, <1>3 DEF CheckpointInv, LedgerHonest, RequestHonest
<1>7. AttemptsKnown'
  <2>1. \A b \in Attempt : run'[b].phase # "idle" <=> run[b].phase # "idle"
    BY <1>2, <1>4
  <2>2. \A q \in Pending' : q.attempt \in Attempt /\ run[q.attempt].phase # "idle"
    BY <1>0, <1>2, <1>3, <1>5, PendingType DEF CheckpointInv, AttemptsKnown
  <2>3. QED
    BY <2>1, <2>2, <1>2 DEF CheckpointInv, AttemptsKnown
<1>8. RequestsHonest'
  BY <1>2, <1>5, <1>6, HonestyStays DEF CheckpointInv, RequestsHonest
<1>9. SequenceBound'
  <2>1. ASSUME NEW b \in Attempt, NEW g \in run'[b].flight
        PROVE  /\ run'[b].flight = {g} /\ run'[b].phase # "idle"
               /\ g.kind = "progress" /\ g.attempt = b /\ g.seq = run'[b].seq + 1
               /\ RequestHonest(g)'
    <3>1. CASE b = a
      BY <3>1, <2>1, <1>2, <1>3, <1>4, <1>6, HonestyStays
    <3>2. CASE b # a
      BY <3>2, <2>1, <1>2, <1>4, HonestyStays DEF CheckpointInv, SequenceBound
    <3>3. QED
      BY <3>1, <3>2
  <2>2. ASSUME NEW q \in Pending', q.kind = "progress"
        PROVE  /\ q.seq <= run'[q.attempt].seq + 1
               /\ HoldsLease(q)' /\ q.seq = run'[q.attempt].seq + 1
                    => q \in run'[q.attempt].flight
    <3>1. CASE q = f
      BY <3>1, <1>0, <1>3, <1>4
    <3>2. CASE q \in Pending
      <4>1. /\ q.attempt \in Attempt
            /\ q.seq <= run[q.attempt].seq + 1
            /\ HoldsLease(q) /\ q.seq = run[q.attempt].seq + 1
                 => q \in run[q.attempt].flight
        BY <3>2, <2>2, <1>0, PendingType DEF CheckpointInv, SequenceBound
      <4>2. HoldsLease(q)' <=> HoldsLease(q)
        BY <1>2 DEF HoldsLease
      <4>3. QED
        BY <4>1, <4>2, <1>2, <1>4
    <3>3. QED
      BY <3>1, <3>2, <1>5
  <2>3. QED
    BY <2>1, <2>2 DEF SequenceBound
<1>10. LedgerMatchesRow'
  <2> SUFFICES ASSUME NEW b \in Attempt, row'.engine = EngineOf[b], run'[b].phase # "idle"
               PROVE  \/ row'.seq = run'[b].seq
                      \/ /\ row'.seq = run'[b].seq + 1
                         /\ \E g \in run'[b].flight : StoredUpTo(g.to)'
    BY DEF LedgerMatchesRow
  <2>1. CASE b = a
    BY <2>1, <1>2, <1>4 DEF CheckpointInv, LedgerMatchesRow
  <2>2. CASE b # a
    BY <2>2, <1>2, <1>4, StoredGrows DEF CheckpointInv, LedgerMatchesRow
  <2>3. QED
    BY <2>1, <2>2
<1>11. LedgerHonest' /\ ResumeBehindFindings' /\ NoFindingLost'
  BY <1>2, <1>4, StoredGrows
  DEF CheckpointInv, LedgerHonest, ResumeBehindFindings, NoFindingLost
<1>12. QED
  BY <1>7, <1>8, <1>9, <1>10, <1>11 DEF CheckpointInv

\* The steps of a run between two answers.
LEMMA RunKeeps ==
  ASSUME CheckpointInv, TypeOK', NEW a \in Attempt,
         ScanUnit(a) \/ Redeliver(a) \/ Timeout(a) \/ RunDies(a) \/ Report(a)
  PROVE  CheckpointInv'
<1>0. TypeOK /\ run \in [Attempt -> Run] /\ run[a] \in Run
  BY RunType DEF CheckpointInv, TypeOK
<1>1. CASE ScanUnit(a) \/ Timeout(a) \/ RunDies(a)
  <2>1. /\ row' = row /\ stored' = stored /\ Pending' = Pending
        /\ run[a].phase # "idle"
    BY <1>1 DEF ScanUnit, Timeout, RunDies, Pending
  <2>2. /\ \A b \in Attempt : b # a => run'[b] = run[b]
        /\ run'[a].phase # "idle" /\ run'[a].seq = run[a].seq
        /\ run'[a].sent = run[a].sent /\ run'[a].flight = run[a].flight
    BY <1>0, <1>1 DEF ScanUnit, Timeout, RunDies, Run
  <2>3. LedgerStays(a)
    BY <2>1, <2>2 DEF LedgerStays
  <2>4. QED
    BY <2>3, LedgerKept
<1>2. CASE Redeliver(a)
  <2>1. /\ row' = row /\ stored' = stored /\ Pending' = Pending \cup run[a].flight
        /\ run[a].phase # "idle"
    BY <1>2 DEF Redeliver, Pending
  <2>2. /\ \A b \in Attempt : b # a => run'[b] = run[b]
        /\ run'[a].phase # "idle" /\ run'[a].seq = run[a].seq
        /\ run'[a].sent = run[a].sent /\ run'[a].flight = run[a].flight
    BY <1>0, <1>2 DEF Redeliver, Run
  <2>3. LedgerStays(a)
    BY <2>1, <2>2 DEF LedgerStays
  <2>4. QED
    BY <2>3, LedgerKept
<1>3. CASE Report(a)
  <2> DEFINE body(to, status) == [kind |-> "results", attempt |-> a, seq |-> run[a].seq,
                                  from |-> run[a].sent, to |-> to, pos |-> 0,
                                  status |-> status]
  <2>1. PICK to \in {N, run[a].at}, status \in {"completed", "failed"} :
          /\ net' = net \cup {body(to, status)}
          /\ status = "completed" => to = N
    BY <1>3 DEF Report
  <2>2. /\ row' = row /\ stored' = stored /\ handlers' = handlers
        /\ run[a].phase # "idle"
    BY <1>3 DEF Report
  <2>3. /\ \A b \in Attempt : b # a => run'[b] = run[b]
        /\ run'[a].phase # "idle" /\ run'[a].seq = run[a].seq
        /\ run'[a].sent = run[a].sent /\ run'[a].flight = run[a].flight
    BY <1>0, <1>3 DEF Report, Run
  <2>4. /\ body(to, status).kind = "results" /\ body(to, status).attempt = a
        /\ body(to, status).from = run[a].sent /\ body(to, status).to = to
        /\ body(to, status).status = status
    OBVIOUS
  <2> HIDE DEF body
  <2>5. Pending' = Pending \cup {body(to, status)}
    BY <2>1, <2>2 DEF Pending
  <2>6. RequestHonest(body(to, status))
    BY <2>1, <2>4 DEF CheckpointInv, LedgerHonest, RequestHonest
  <2>7. LedgerStays(a)
    BY <2>2, <2>3, <2>4, <2>5, <2>6 DEF LedgerStays
  <2>8. QED
    BY <2>7, LedgerKept
<1>4. QED
  BY <1>1, <1>2, <1>3

\* The batch the row's predicate lets through is the one in flight.
LEMMA AdvancesOnlyFlight ==
  ASSUME CheckpointInv, NEW q \in Pending, q.kind = "progress", Advances(q)
  PROVE  /\ q.attempt \in Attempt /\ run[q.attempt].phase # "idle"
         /\ q \in run[q.attempt].flight /\ run[q.attempt].flight = {q}
         /\ row.engine = EngineOf[q.attempt]
         /\ q.seq = run[q.attempt].seq + 1
<1> DEFINE a == q.attempt
<1>0. /\ TypeOK /\ a \in Attempt /\ q.seq \in Nat /\ run[a].seq \in Nat /\ row.seq \in Nat
  BY PendingType, RunType, RowType DEF CheckpointInv
<1>1. /\ HoldsLease(q) /\ row.seq + 1 = q.seq /\ row.engine = EngineOf[a]
  BY DEF Advances, HoldsLease
<1>2. run[a].phase # "idle"
  BY DEF CheckpointInv, AttemptsKnown
<1>3. row.seq = run[a].seq \/ row.seq = run[a].seq + 1
  BY <1>0, <1>1, <1>2 DEF CheckpointInv, LedgerMatchesRow
<1>4. /\ q.seq <= run[a].seq + 1
      /\ HoldsLease(q) /\ q.seq = run[a].seq + 1 => q \in run[a].flight
  BY DEF CheckpointInv, SequenceBound
<1>5. q.seq = run[a].seq + 1
  BY <1>0, <1>1, <1>3, <1>4
<1>6. q \in run[a].flight
  BY <1>1, <1>4, <1>5
<1>7. run[a].flight = {q}
  BY <1>0, <1>6 DEF CheckpointInv, SequenceBound
<1>8. QED
  BY <1>0, <1>1, <1>2, <1>5, <1>6, <1>7

LEMMA ProgressStoredKeeps ==
  ASSUME CheckpointInv, TypeOK', OwnIdentity, NEW h \in handlers, ProgressStored(h)
  PROVE  CheckpointInv'
<1> DEFINE q == h.request
           a == q.attempt
<1>0. /\ TypeOK /\ row \in Row /\ run \in [Attempt -> Run] /\ q \in Request
      /\ q \in Pending /\ q.seq \in Nat /\ q.kind = "progress" /\ Advances(q)
  BY HandlerPending, PendingType DEF CheckpointInv, TypeOK, ProgressStored
<1>1. /\ a \in Attempt /\ run[a].phase # "idle" /\ q \in run[a].flight
      /\ run[a].flight = {q} /\ row.engine = EngineOf[a] /\ q.seq = run[a].seq + 1
  BY <1>0, AdvancesOnlyFlight
<1>2. /\ row'.status = row.status /\ row'.engine = row.engine
      /\ row'.attempt = row.attempt /\ row'.seq = q.seq /\ row'.pos = q.pos
  BY <1>0 DEF ProgressStored, Row
<1>3. RequestHonest(q)
  BY <1>0 DEF CheckpointInv, RequestsHonest
<1>4. stored \subseteq stored' /\ StoredUpTo(q.to)'
  BY <1>0, <1>3, IngestStores DEF ProgressStored, RequestHonest
<1>5. StoredUpTo(row.pos)'
  BY <1>0, <1>2, <1>3, <1>4 DEF RequestHonest, StoredUpTo
<1>6. Pending' \subseteq Pending
  BY DEF ProgressStored, Pending
<1>7. CASE run' = run
  <2>1. AttemptsKnown'
    BY <1>2, <1>6, <1>7 DEF CheckpointInv, AttemptsKnown
  <2>2. RequestsHonest'
    BY <1>4, <1>6, HonestyStays DEF CheckpointInv, RequestsHonest
  <2>3. SequenceBound'
    BY <1>2, <1>4, <1>6, <1>7, HonestyStays DEF CheckpointInv, SequenceBound, HoldsLease
  <2>4. LedgerMatchesRow'
    BY <1>1, <1>2, <1>4, <1>7 DEF LedgerMatchesRow, OwnIdentity
  <2>5. LedgerHonest' /\ ResumeBehindFindings' /\ NoFindingLost'
    BY <1>2, <1>4, <1>5, <1>7, StoredGrows
    DEF CheckpointInv, LedgerHonest, ResumeBehindFindings, NoFindingLost
  <2>6. QED
    BY <2>1, <2>2, <2>3, <2>4, <2>5 DEF CheckpointInv
<1>8. CASE run' = [run EXCEPT ![a] = Acknowledged(@, q, q.seq)]
  <2>1. Acknowledged(run[a], q, q.seq) =
          [run[a] EXCEPT !.phase = "fetching", !.flight = {}, !.seq = q.seq,
                         !.sent = q.to, !.flushed = q.pos]
    BY <1>0 DEF Acknowledged
  <2>2. /\ run'[a] = [run[a] EXCEPT !.phase = "fetching", !.flight = {}, !.seq = q.seq,
                                    !.sent = q.to, !.flushed = q.pos]
        /\ \A b \in Attempt : b # a => run'[b] = run[b]
    BY <1>0, <1>1, <1>8, <2>1
  <2>3. /\ run'[a].phase # "idle" /\ run'[a].flight = {} /\ run'[a].seq = q.seq
        /\ run'[a].sent = q.to
    BY <1>0, <1>1, <2>2 DEF Run
  <2>4. StoredUpTo(run[a].sent)'
    BY <1>4, <2>3 DEF StoredUpTo
  <2>5. QED
    BY <1>1, <1>2, <1>4, <1>5, <1>6, <2>2, <2>3, <2>4, LedgerSettled, ZenonT(40)
<1>9. QED
  BY <1>7, <1>8 DEF ProgressStored, Answer

\* An answer that stores nothing names a counter the row really holds.
LEMMA ProgressReplayedKeeps ==
  ASSUME CheckpointInv, TypeOK', OwnIdentity, NEW h \in handlers, ProgressReplayed(h)
  PROVE  CheckpointInv'
<1> DEFINE q == h.request
           a == q.attempt
<1>0. /\ TypeOK /\ run \in [Attempt -> Run] /\ q \in Request /\ a \in Attempt
      /\ q \in Pending /\ q.seq \in Nat /\ row.seq \in Nat /\ run[a].seq \in Nat
  BY HandlerPending, PendingType, RunType, RowType DEF CheckpointInv, TypeOK
<1>1. /\ row' = row /\ stored' = stored /\ Pending' \subseteq Pending /\ ~Advances(q)
  BY DEF ProgressReplayed, Pending
<1>2. CASE run' = run
  BY <1>1, <1>2, RequestStep
<1>3. CASE /\ row.engine = EngineOf[a] /\ q \in run[a].flight
           /\ run' = [run EXCEPT ![a] = Acknowledged(@, q, row.seq)]
  <2>1. /\ run[a].phase # "idle" /\ run[a].flight = {q} /\ q.seq = run[a].seq + 1
    BY <1>0, <1>3 DEF CheckpointInv, SequenceBound
  <2>2. \A b \in Attempt : b # a => run'[b] = run[b]
    BY <1>0, <1>3
  <2>3. run'[a] = Acknowledged(run[a], q, row.seq)
    BY <1>0, <1>3
  <2>4. StoredUpTo(row.pos)'
    BY <1>1, StoredGrows DEF CheckpointInv, ResumeBehindFindings
  <2>5. CASE row.seq = run[a].seq
    <3>1. row.status # "leased"
      BY <1>0, <1>1, <1>3, <2>1, <2>5 DEF Advances, HoldsLease
    <3>2. run'[a] = [run[a] EXCEPT !.phase = "fetching", !.flight = {}]
      BY <1>0, <2>1, <2>3, <2>5 DEF Acknowledged
    <3>3. /\ run'[a].phase # "idle" /\ run'[a].flight = {} /\ run'[a].seq = run[a].seq
          /\ run'[a].sent = run[a].sent
      BY <1>0, <3>2 DEF Run
    <3>4. StoredUpTo(run[a].sent)'
      BY <1>0, <1>1, <3>3 DEF CheckpointInv, LedgerHonest, StoredUpTo
    <3>5. QED
      BY <1>0, <1>1, <1>3, <2>1, <2>2, <2>4, <2>5, <3>1, <3>3, <3>4, LedgerSettled
  <2>6. CASE /\ row.seq = run[a].seq + 1
             /\ \E f \in run[a].flight : StoredUpTo(f.to)
    <3>1. StoredUpTo(q.to)
      BY <2>1, <2>6
    <3>2. run'[a] = [run[a] EXCEPT !.phase = "fetching", !.flight = {}, !.seq = row.seq,
                                   !.sent = q.to, !.flushed = q.pos]
      BY <1>0, <2>1, <2>3, <2>6 DEF Acknowledged
    <3>3. /\ run'[a].phase # "idle" /\ run'[a].flight = {} /\ run'[a].seq = row.seq
          /\ run'[a].sent = q.to
      BY <1>0, <3>2 DEF Run
    <3>4. StoredUpTo(run[a].sent)'
      BY <1>1, <3>1, <3>3 DEF StoredUpTo
    <3>5. QED
      BY <1>0, <1>1, <1>3, <2>1, <2>2, <2>4, <2>6, <3>3, <3>4, LedgerSettled
  <2>7. QED
    BY <1>0, <1>3, <2>1, <2>5, <2>6 DEF CheckpointInv, LedgerMatchesRow
<1>4. QED
  BY <1>2, <1>3 DEF ProgressReplayed, Answer

LEMMA ResultsStoredKeeps ==
  ASSUME CheckpointInv, TypeOK', NEW h \in handlers, ResultsStored(h)
  PROVE  CheckpointInv'
<1> DEFINE q == h.request
           merged == Merge(IF q.seq > 0 THEN h.base ELSE Nothing, q)
           outcome == EffectiveOutcome(q.status, merged)
<1>0. TypeOK /\ row \in Row /\ q \in Request /\ q \in Pending /\ q.kind = "results"
  BY HandlerPending, PendingType DEF CheckpointInv, TypeOK, ResultsStored
<1>1. RequestHonest(q) /\ q.status # "running"
  BY <1>0 DEF CheckpointInv, RequestsHonest, Request
<1>2. stored \subseteq stored' /\ StoredUpTo(q.to)'
  BY <1>0, <1>1, IngestStores DEF ResultsStored, RequestHonest
<1>3. /\ outcome \in {"completed", "failed"}
      /\ outcome = "completed" => q.status = "completed"
  BY <1>0, <1>1 DEF EffectiveOutcome, Request, Body
<1>4. row' = [row EXCEPT !.status = outcome, !.keyed = TRUE]
  BY DEF ResultsStored
<1> HIDE DEF outcome, merged
<1>5. /\ row'.status = outcome /\ row'.engine = row.engine /\ row'.attempt = row.attempt
      /\ row'.seq = row.seq /\ row'.pos = row.pos
  BY <1>0, <1>4 DEF Row
<1>6. run' = run /\ Pending' \subseteq Pending
  BY DEF ResultsStored, Pending
<1>7. AttemptsKnown'
  BY <1>3, <1>5, <1>6 DEF CheckpointInv, AttemptsKnown
<1>8. LedgerMatchesRow'
  BY <1>2, <1>5, <1>6, StoredGrows DEF CheckpointInv, LedgerMatchesRow
<1>9. NoFindingLost'
  BY <1>1, <1>2, <1>3, <1>5 DEF NoFindingLost, RequestHonest
<1>10. QED
  BY <1>2, <1>3, <1>5, <1>6, <1>7, <1>8, <1>9, LeaseEnds

-----------------------------------------------------------------------------
(* The results. *)

LEMMA InvNext == OwnIdentity /\ CheckpointInv /\ [Next]_vars => CheckpointInv'
<1> SUFFICES ASSUME OwnIdentity, CheckpointInv, [Next]_vars PROVE CheckpointInv'
  OBVIOUS
<1>0. TypeOK'
  BY TypeNext DEF CheckpointInv
<1>1. ASSUME NEW a \in Attempt, RunStep(a) PROVE CheckpointInv'
  <2>1. CASE Lease(a)
    BY <1>0, <2>1, LeaseKeeps
  <2>2. CASE LeaseFails(a)
    BY <1>0, <2>2, LeaseFailsKeeps
  <2>3. CASE Flush(a)
    BY <1>0, <2>3, FlushKeeps
  <2>4. CASE ScanUnit(a) \/ Redeliver(a) \/ Timeout(a) \/ RunDies(a) \/ Report(a)
    BY <1>0, <2>4, RunKeeps
  <2>5. QED
    BY <1>1, <2>1, <2>2, <2>3, <2>4 DEF RunStep
<1>2. CASE Reclaim
  BY <1>0, <1>2, ReclaimKeeps
<1>3. CASE Cancel
  BY <1>0, <1>3, CancelKeeps
<1>4. ASSUME NEW p \in Pack, OtherTaskReports(p) PROVE CheckpointInv'
  <2>1. row' = row /\ stored' = stored /\ run' = run /\ Pending' \subseteq Pending
    BY <1>4 DEF OtherTaskReports, Pending
  <2>2. QED
    BY <1>0, <2>1, RequestStep
<1>5. ASSUME NEW q \in net, Receive(q) \/ Refuse(q) PROVE CheckpointInv'
  <2>1. row' = row /\ stored' = stored /\ run' = run /\ Pending' \subseteq Pending
    BY <1>5 DEF Receive, Refuse, Pending
  <2>2. QED
    BY <1>0, <2>1, RequestStep
<1>6. ASSUME NEW h \in handlers,
             HandlerDies(h) \/ ProgressStored(h) \/ ProgressReplayed(h)
               \/ ResultsStored(h) \/ ResultsRefused(h)
      PROVE  CheckpointInv'
  <2>1. CASE HandlerDies(h) \/ ResultsRefused(h)
    <3>1. row' = row /\ stored' = stored /\ run' = run /\ Pending' \subseteq Pending
      BY <2>1 DEF HandlerDies, ResultsRefused, Pending
    <3>2. QED
      BY <1>0, <3>1, RequestStep
  <2>2. CASE ProgressStored(h)
    BY <1>0, <2>2, ProgressStoredKeeps
  <2>3. CASE ProgressReplayed(h)
    BY <1>0, <2>3, ProgressReplayedKeeps
  <2>4. CASE ResultsStored(h)
    BY <1>0, <2>4, ResultsStoredKeeps
  <2>5. QED
    BY <1>6, <2>1, <2>2, <2>3, <2>4
<1>7. CASE UNCHANGED vars
  <2>1. row' = row /\ stored' = stored /\ run' = run /\ Pending' \subseteq Pending
    BY <1>7 DEF vars, Pending
  <2>2. QED
    BY <1>0, <2>1, RequestStep
<1>8. QED
  BY <1>1, <1>2, <1>3, <1>4, <1>5, <1>6, <1>7 DEF Next

\* The inductive invariant of batching: whatever is lost, repeated or late, the
\* batches, the ledgers of the attempts and the row's counter agree.
THEOREM CheckpointSafe ==
  ASSUME OwnIdentity
  PROVE  Spec => []CheckpointInv
<1>1. CheckpointInv /\ [Next]_vars => CheckpointInv'
  BY InvNext
<1>2. QED
  BY <1>1, InvInit, PTL DEF Spec

\* No finding of a completed task is lost, over any content and any number of
\* attempts under identities of their own (_Batcher, submit_progress,
\* submit_results).
THEOREM FindingsKept ==
  ASSUME OwnIdentity
  PROVE  Spec => []NoFindingLost
<1>1. CheckpointInv => NoFindingLost
  BY DEF CheckpointInv
<1>2. QED
  BY <1>1, CheckpointSafe, PTL

\* A resume point (advance_checkpoint) never passes the findings the API holds, and an
\* engine's ledger (_Batcher.deliver) never claims work the API does not hold.
THEOREM PositionsSafe ==
  ASSUME OwnIdentity
  PROVE  Spec => []PositionsHonest
<1>1. CheckpointInv => PositionsHonest
  BY DEF CheckpointInv, PositionsHonest
<1>2. QED
  BY <1>1, CheckpointSafe, PTL

-----------------------------------------------------------------------------
(* Coverage counted once.                                                      *)

\* The file share's content: every item is readable and its connector publishes a
\* checkpoint after every item, so that a batch ends where its checkpoint is; and the
\* scan's engines load one rule pack.
CheckpointEveryItem == Readable = Item /\ PageEnd = Item
OneRulePack == \A p, q \in Pack : p = q

UpTo(n) == [i \in Item |-> IF i <= n THEN 1 ELSE 0]

\* Until the task ends, the coverage on its row is that of the items up to its resume point.
RowCovered == row.status \in {"queued", "leased"} => coverage = UpTo(row.pos)

\* A resume point is a batch's, and no lease discards it.
ResumeKept ==
  row.pos # 0 => row.seq # 0 /\ row.context \in Pack /\ scanPack \in Pack

\* A batch starts where the ledger ends and ends where its checkpoint is; the ledger ends
\* where the row's resume point is, unless the batch in flight has been stored.
LedgerPlaced ==
  \A a \in Attempt :
    /\ run[a].seq = 0 => run[a].sent = 0
    /\ \A f \in run[a].flight : f.from = run[a].sent /\ f.from <= f.to /\ f.pos = f.to
    /\ row.engine = EngineOf[a] /\ run[a].phase # "idle" =>
         \/ row.seq = run[a].seq /\ row.pos = run[a].sent
         \/ row.seq = run[a].seq + 1 /\ \E f \in run[a].flight : row.pos = f.pos

\* Final results are the end of a run.
ResultsPlaced ==
  \A q \in Pending : q.kind = "results" =>
    /\ run[q.attempt].phase \in {"reporting", "ended"}
    /\ q.seq = run[q.attempt].seq /\ q.from = run[q.attempt].sent

\* What a handler read before it took its turn is not out of date when it matters.
BaseCurrent(h) ==
  /\ h.request.kind = "progress" /\ Advances(h.request) => h.base = coverage
  /\ h.request.kind = "results" /\ HoldsLease(h.request) /\ h.request.seq > 0
       => h.base = UpTo(h.request.from)

BasesCurrent == \A h \in handlers : BaseCurrent(h)

CoverageInv ==
  /\ RowCovered
  /\ ResumeKept
  /\ LedgerPlaced
  /\ ResultsPlaced
  /\ BasesCurrent
  /\ CoverageExact

LEMMA CoverageInit == Init => CoverageInv
<1> SUFFICES ASSUME Init PROVE CoverageInv
  OBVIOUS
<1>1. row.status = "queued" /\ row.engine = NoEngine /\ row.pos = 0 /\ row.seq = 0
  BY DEF Init
<1>2. \A a \in Attempt : run[a].seq = 0 /\ run[a].sent = 0 /\ run[a].flight = {}
  BY DEF Init, IdleRun
<1>3. Pending = {} /\ handlers = {}
  BY DEF Init, Pending
<1>4. coverage = UpTo(0)
  BY DEF Init, Nothing, UpTo, Item
<1>5. \A a \in Attempt : EngineOf[a] # NoEngine
  OBVIOUS
<1>6. QED
  BY <1>1, <1>2, <1>3, <1>4, <1>5 DEF CoverageInv, RowCovered, ResumeKept, LedgerPlaced,
     ResultsPlaced, BasesCurrent, CoverageExact

\* A step that leaves the row, its coverage and the ledgers alone.
LEMMA CoverageQuiet ==
  ASSUME CoverageInv, TypeOK, TypeOK',
         row' = row, coverage' = coverage, scanPack \in Pack => scanPack' \in Pack,
         \A a \in Attempt :
           /\ run'[a].seq = run[a].seq /\ run'[a].sent = run[a].sent
           /\ run'[a].flight = run[a].flight
           /\ run'[a].phase # "idle" => run[a].phase # "idle"
           /\ run[a].phase \in {"reporting", "ended"} => run'[a].phase \in {"reporting", "ended"},
         handlers' \subseteq handlers,
         \A q \in Pending' :
           \/ q \in Pending
           \/ q.kind = "progress"
           \/ /\ run'[q.attempt].phase \in {"reporting", "ended"}
              /\ q.seq = run[q.attempt].seq /\ q.from = run[q.attempt].sent
  PROVE  CoverageInv'
<1>1. RowCovered' /\ ResumeKept' /\ CoverageExact'
  BY DEF CoverageInv, RowCovered, ResumeKept, CoverageExact, UpTo
<1>2. LedgerPlaced'
  BY DEF CoverageInv, LedgerPlaced
<1>3. ResultsPlaced'
  <2> SUFFICES ASSUME NEW q \in Pending', q.kind = "results"
               PROVE  /\ run'[q.attempt].phase \in {"reporting", "ended"}
                      /\ q.seq = run'[q.attempt].seq /\ q.from = run'[q.attempt].sent
    BY DEF ResultsPlaced
  <2>1. q.attempt \in Attempt
    BY DEF TypeOK, Pending, Handler, Request, Body
  <2>2. QED
    BY <2>1 DEF CoverageInv, ResultsPlaced
<1>4. BasesCurrent'
  BY DEF CoverageInv, BasesCurrent, BaseCurrent, Advances, HoldsLease, UpTo
<1>5. QED
  BY <1>1, <1>2, <1>3, <1>4 DEF CoverageInv

LEMMA RunCovers ==
  ASSUME CheckpointInv, CoverageInv, TypeOK, TypeOK', NEW a \in Attempt,
         ScanUnit(a) \/ Redeliver(a) \/ Timeout(a) \/ RunDies(a) \/ Report(a)
  PROVE  CoverageInv'
<1>0. run \in [Attempt -> Run] /\ run[a] \in Run /\ run[a].flight \subseteq Request
  BY RunType DEF TypeOK
<1>1. UNCHANGED <<row, coverage, scanPack, handlers>>
  BY DEF ScanUnit, Redeliver, Timeout, RunDies, Report
<1>2. \A b \in Attempt :
           /\ run'[b].seq = run[b].seq /\ run'[b].sent = run[b].sent
           /\ run'[b].flight = run[b].flight
           /\ run'[b].phase # "idle" => run[b].phase # "idle"
           /\ run[b].phase \in {"reporting", "ended"} => run'[b].phase \in {"reporting", "ended"}
  <2>1. CASE ScanUnit(a)
    <3>1. PICK j \in Readable : run' = [run EXCEPT ![a].at = j]
      BY <2>1 DEF ScanUnit
    <3>2. QED
      BY <1>0, <3>1 DEF Run
  <2>2. CASE Redeliver(a)
    BY <1>0, <2>2 DEF Redeliver, Run
  <2>3. CASE Timeout(a)
    BY <1>0, <2>3 DEF Timeout, Run
  <2>4. CASE RunDies(a)
    BY <1>0, <2>4 DEF RunDies, Run
  <2>5. CASE Report(a)
    BY <1>0, <2>5 DEF Report, Run
  <2>6. QED
    BY <2>1, <2>2, <2>3, <2>4, <2>5
<1>3. CASE ScanUnit(a) \/ Timeout(a) \/ RunDies(a)
  <2>1. Pending' = Pending
    BY <1>3 DEF ScanUnit, Timeout, RunDies, Pending
  <2>2. QED
    BY <1>1, <1>2, <2>1, CoverageQuiet
<1>4. CASE Redeliver(a)
  <2>1. ASSUME NEW q \in Pending' PROVE q \in Pending \/ q \in run[a].flight
    BY <1>4 DEF Redeliver, Pending
  <2>2. \A q \in run[a].flight : q.kind = "progress"
    BY DEF CheckpointInv, SequenceBound
  <2>3. QED
    BY <1>1, <1>2, <2>1, <2>2, CoverageQuiet
<1>5. CASE Report(a)
  <2> DEFINE body(to, status) == [kind |-> "results", attempt |-> a, seq |-> run[a].seq,
                                  from |-> run[a].sent, to |-> to, pos |-> 0,
                                  status |-> status]
  <2>1. \E to \in {N, run[a].at}, status \in {"completed", "failed"} :
          net' = net \cup {body(to, status)}
    BY <1>5 DEF Report
  <2>2. run'[a].phase = "reporting"
    BY <1>0, <1>5 DEF Report, Run
  <2>3. \A to, status : /\ body(to, status).attempt = a /\ body(to, status).seq = run[a].seq
                        /\ body(to, status).from = run[a].sent
    OBVIOUS
  <2> HIDE DEF body
  <2>4. \A q \in Pending' : \/ q \in Pending
                            \/ q.attempt = a /\ q.seq = run[a].seq /\ q.from = run[a].sent
    BY <1>1, <2>1, <2>3 DEF Pending
  <2>5. QED
    BY <1>1, <1>2, <2>2, <2>4, CoverageQuiet
<1>6. QED
  BY <1>3, <1>4, <1>5

\* A batch is composed when nothing is in flight, and ends at the checkpoint it carries.
LEMMA FlushCovers ==
  ASSUME CheckpointEveryItem, CheckpointInv, CoverageInv, TypeOK', NEW a \in Attempt, Flush(a)
  PROVE  CoverageInv'
<1> DEFINE batch(p) == [kind |-> "progress", attempt |-> a, seq |-> run[a].seq + 1,
                        from |-> run[a].sent, to |-> run[a].at, pos |-> p,
                        status |-> "running"]
<1>0. /\ TypeOK /\ run \in [Attempt -> Run] /\ run[a] \in Run /\ run[a].at \in 0..N
      /\ run[a].sent \in 0..N
  BY RunType DEF CheckpointInv, TypeOK
<1>1. PICK j \in Readable, p \in PageEnd :
        /\ NextUnit(run[a].at, j) /\ Published(run[a].start, j, p)
        /\ run' = [run EXCEPT ![a].phase = "waiting", ![a].flight = {batch(p)}]
        /\ net' = net \cup {batch(p)}
  BY DEF Flush
<1>2. /\ run[a].flight = {} /\ run[a].at > run[a].sent /\ run[a].phase = "fetching"
      /\ UNCHANGED <<row, coverage, scanPack, handlers>>
  BY DEF Flush, MayCompose
<1>3. p = run[a].at
  <2>1. run[a].at \in 1..N /\ run[a].at < j /\ j \in 1..N
    BY <1>0, <1>1, <1>2 DEF NextUnit, Item
  <2>2. p \in 1..N /\ p < j /\ run[a].at <= p
    BY <1>1, <2>1 DEF Published, CheckpointEveryItem, Item
  <2>3. j <= run[a].at + 1
    <3>1. CASE run[a].at + 1 \in 1..N
      BY <1>1, <2>1, <3>1 DEF NextUnit, CheckpointEveryItem, Item
    <3>2. CASE run[a].at + 1 \notin 1..N
      BY <2>1, <3>2
    <3>3. QED
      BY <3>1, <3>2
  <2>4. QED
    BY <2>1, <2>2, <2>3
<1>4. /\ batch(p).kind = "progress" /\ batch(p).from = run[a].sent
      /\ batch(p).pos = batch(p).to /\ batch(p).from <= batch(p).to
  BY <1>0, <1>2, <1>3
<1> HIDE DEF batch
<1>5. /\ \A b \in Attempt : b # a => run'[b] = run[b]
      /\ run'[a].seq = run[a].seq /\ run'[a].sent = run[a].sent
      /\ run'[a].flight = {batch(p)} /\ run'[a].phase = "waiting"
  BY <1>0, <1>1 DEF Run
<1>6. RowCovered' /\ ResumeKept' /\ CoverageExact'
  BY <1>2 DEF CoverageInv, RowCovered, ResumeKept, CoverageExact, UpTo
<1>7. LedgerPlaced'
  <2> SUFFICES ASSUME NEW b \in Attempt
               PROVE
                 /\ run'[b].seq = 0 => run'[b].sent = 0
                 /\ \A f \in run'[b].flight : /\ f.from = run'[b].sent /\ f.from <= f.to
                                              /\ f.pos = f.to
                 /\ row'.engine = EngineOf[b] /\ run'[b].phase # "idle" =>
                      \/ row'.seq = run'[b].seq /\ row'.pos = run'[b].sent
                      \/ row'.seq = run'[b].seq + 1 /\ \E f \in run'[b].flight : row'.pos = f.pos
    BY DEF LedgerPlaced
  <2>1. CASE b = a
    BY <1>2, <1>4, <1>5, <2>1 DEF CoverageInv, LedgerPlaced
  <2>2. CASE b # a
    BY <1>2, <1>5, <2>2 DEF CoverageInv, LedgerPlaced
  <2>3. QED
    BY <2>1, <2>2
<1>8. ResultsPlaced'
  <2> SUFFICES ASSUME NEW q \in Pending', q.kind = "results"
               PROVE  /\ run'[q.attempt].phase \in {"reporting", "ended"}
                      /\ q.seq = run'[q.attempt].seq /\ q.from = run'[q.attempt].sent
    BY DEF ResultsPlaced
  <2>1. q \in Pending
    BY <1>1, <1>2, <1>4 DEF Pending
  <2>2. q.attempt \in Attempt
    BY <1>0, <2>1, PendingType
  <2>3. run[q.attempt].phase \in {"reporting", "ended"}
    BY <2>1 DEF CoverageInv, ResultsPlaced
  <2>4. q.attempt # a
    BY <1>2, <2>3
  <2>5. QED
    BY <1>5, <2>1, <2>2, <2>4 DEF CoverageInv, ResultsPlaced
<1>9. BasesCurrent'
  BY <1>2 DEF CoverageInv, BasesCurrent, BaseCurrent, Advances, HoldsLease, UpTo
<1>10. QED
  BY <1>6, <1>7, <1>8, <1>9 DEF CoverageInv

\* No lease discards the resume point under one pack.
LEMMA LeaseCovers ==
  ASSUME OneRulePack, OwnIdentity, CheckpointInv, CoverageInv, TypeOK', NEW a \in Attempt,
         Lease(a)
  PROVE  CoverageInv'
<1>0. TypeOK /\ row \in Row /\ run \in [Attempt -> Run]
  BY DEF CheckpointInv, TypeOK
<1>1. (row.pos # 0 /\ ~CheckpointStillValid) = FALSE
  BY DEF CoverageInv, ResumeKept, OneRulePack, CheckpointStillValid
<1>2. /\ row.status = "queued" /\ a = row.attempt + 1
      /\ row' = [row EXCEPT !.status = "leased", !.engine = EngineOf[a], !.attempt = a,
                            !.pos = row.pos, !.context = IF row.pos = 0 THEN NoPack ELSE @]
      /\ run' = [run EXCEPT ![a] = [IdleRun EXCEPT !.phase = "fetching", !.start = row.pos,
                                           !.at = row.pos, !.sent = row.pos, !.seq = row.seq]]
      /\ UNCHANGED <<coverage, stored, scanPack, net, handlers>>
  BY <1>1 DEF Lease
<1>3. /\ row'.status = "leased" /\ row'.engine = EngineOf[a] /\ row'.pos = row.pos
      /\ row'.seq = row.seq /\ (row.pos # 0 => row'.context = row.context)
  BY <1>0, <1>2 DEF Row
<1>4. /\ run'[a].seq = row.seq /\ run'[a].sent = row.pos /\ run'[a].flight = {}
      /\ run'[a].phase = "fetching" /\ \A b \in Attempt : b # a => run'[b] = run[b]
  BY <1>0, <1>2 DEF IdleRun
<1>5. \A q \in Pending : q.attempt \in Attempt /\ q.attempt # a
  BY <1>2, NextAttemptFresh
<1>6. Pending' = Pending
  BY <1>2 DEF Pending
<1>7. RowCovered' /\ ResumeKept' /\ CoverageExact'
  BY <1>2, <1>3 DEF CoverageInv, RowCovered, ResumeKept, CoverageExact, UpTo
<1>8. LedgerPlaced'
  <2> SUFFICES ASSUME NEW b \in Attempt
               PROVE
                 /\ run'[b].seq = 0 => run'[b].sent = 0
                 /\ \A f \in run'[b].flight : /\ f.from = run'[b].sent /\ f.from <= f.to
                                              /\ f.pos = f.to
                 /\ row'.engine = EngineOf[b] /\ run'[b].phase # "idle" =>
                      \/ row'.seq = run'[b].seq /\ row'.pos = run'[b].sent
                      \/ row'.seq = run'[b].seq + 1 /\ \E f \in run'[b].flight : row'.pos = f.pos
    BY DEF LedgerPlaced
  <2>1. CASE b = a
    BY <1>3, <1>4, <2>1 DEF CoverageInv, ResumeKept
  <2>2. CASE b # a
    <3>1. EngineOf[b] # EngineOf[a]
      BY <2>2 DEF OwnIdentity
    <3>2. QED
      BY <1>3, <1>4, <2>2, <3>1 DEF CoverageInv, LedgerPlaced
  <2>3. QED
    BY <2>1, <2>2
<1>9. ResultsPlaced'
  BY <1>4, <1>5, <1>6 DEF CoverageInv, ResultsPlaced
<1>10. BasesCurrent'
  <2>1. \A h \in handlers : ~HoldsLease(h.request)'
    <3>1. \A h \in handlers : h.request.attempt \in Attempt /\ h.request.attempt # a
      BY <1>5, HandlerPending
    <3>2. QED
      BY <1>3, <3>1 DEF HoldsLease, OwnIdentity
  <2>2. QED
    BY <1>2, <2>1 DEF BasesCurrent, BaseCurrent, Advances
<1>11. QED
  BY <1>7, <1>8, <1>9, <1>10 DEF CoverageInv

\* The lease ends, however it does: what handlers still hold is of no consequence.
LEMMA EndCovers ==
  ASSUME CoverageInv, run' = run, Pending' \subseteq Pending, row'.status # "leased",
         RowCovered', ResumeKept', CoverageExact',
         \A a \in Attempt : row'.engine = EngineOf[a] /\ run[a].phase # "idle" =>
           row.engine = EngineOf[a] /\ row'.seq = row.seq /\ row'.pos = row.pos
  PROVE  CoverageInv'
<1>1. LedgerPlaced'
  BY DEF CoverageInv, LedgerPlaced
<1>2. ResultsPlaced'
  BY DEF CoverageInv, ResultsPlaced
<1>3. BasesCurrent'
  BY DEF BasesCurrent, BaseCurrent, Advances, HoldsLease
<1>4. QED
  BY <1>1, <1>2, <1>3 DEF CoverageInv

LEMMA RowCovers ==
  ASSUME OwnIdentity, CheckpointInv, CoverageInv, TypeOK',
         (\E a \in Attempt : LeaseFails(a)) \/ Reclaim \/ Cancel
  PROVE  CoverageInv'
<1>0. row \in Row /\ UNCHANGED <<run, scanPack, net, handlers>> /\ TypeOK
  BY DEF CheckpointInv, TypeOK, LeaseFails, Reclaim, Cancel
<1>1. Pending' = Pending
  BY <1>0 DEF Pending
<1>2. /\ row'.pos = row.pos /\ row'.seq = row.seq /\ row'.context = row.context
      /\ row'.status \in {"queued", "failed", "cancelled"}
  BY <1>0 DEF LeaseFails, Reclaim, Cancel, Row
<1>3. ResumeKept' /\ CoverageExact'
  BY <1>0, <1>2 DEF CoverageInv, ResumeKept, CoverageExact
<1>4. CASE Reclaim \/ Cancel
  <2>1. row.status \in {"queued", "leased"} /\ coverage' = coverage
    BY <1>4 DEF Reclaim, Cancel
  <2>2. RowCovered'
    BY <1>2, <2>1 DEF CoverageInv, RowCovered, UpTo
  <2>3. row'.engine \in {NoEngine, row.engine}
    BY <1>0, <1>4 DEF Reclaim, Cancel, Row
  <2>4. \A a \in Attempt : EngineOf[a] # NoEngine
    OBVIOUS
  <2>5. QED
    BY <1>0, <1>1, <1>2, <1>3, <2>2, <2>3, <2>4, EndCovers
<1>5. ASSUME NEW a \in Attempt, LeaseFails(a) PROVE CoverageInv'
  <2>1. a = row.attempt + 1 /\ row'.status = "failed" /\ row'.engine = EngineOf[a]
    BY <1>0, <1>5 DEF LeaseFails, Row
  <2>2. run[a].phase = "idle"
    BY <2>1, NextAttemptFresh
  <2>3. \A b \in Attempt : row'.engine = EngineOf[b] => b = a
    BY <2>1 DEF OwnIdentity
  <2>4. RowCovered'
    BY <2>1 DEF RowCovered
  <2>5. QED
    BY <1>0, <1>1, <1>3, <2>1, <2>2, <2>3, <2>4, EndCovers
<1>6. QED
  BY <1>4, <1>5

\* The unlocked read: what it reads is the coverage of what the request builds on.
LEMMA ReceiveCovers ==
  ASSUME CheckpointInv, CoverageInv, TypeOK', NEW q \in net, Receive(q)
  PROVE  CoverageInv'
<1>0. TypeOK /\ q \in Pending /\ q.attempt \in Attempt
  BY PendingType DEF CheckpointInv, Pending
<1>1. /\ handlers' = handlers \cup {[request |-> q, base |-> coverage]}
      /\ row.engine = EngineOf[q.attempt] /\ SequenceMatches(q)
      /\ UNCHANGED <<row, coverage, scanPack, run>> /\ net' = net \ {q}
  BY DEF Receive
<1>2. Pending' \subseteq Pending
  BY <1>0, <1>1 DEF Pending
<1>3. RowCovered' /\ ResumeKept' /\ CoverageExact' /\ LedgerPlaced'
  BY <1>1 DEF CoverageInv, RowCovered, ResumeKept, CoverageExact, UpTo, LedgerPlaced
<1>4. ResultsPlaced'
  BY <1>1, <1>2 DEF CoverageInv, ResultsPlaced
<1>5. ASSUME q.kind = "results", HoldsLease(q)
      PROVE  coverage = UpTo(q.from)
  <2>1. q.seq = run[q.attempt].seq /\ q.from = run[q.attempt].sent /\ q.seq = row.seq
    BY <1>0, <1>1, <1>5 DEF CoverageInv, ResultsPlaced, SequenceMatches
  <2>2. run[q.attempt].phase # "idle"
    BY <1>0 DEF CheckpointInv, AttemptsKnown
  <2>3. run[q.attempt].seq \in Nat
    BY <1>0, RunType
  <2>4. row.pos = q.from
    <3>1. row.seq # run[q.attempt].seq + 1
      BY <2>1, <2>3
    <3>2. QED
      BY <1>0, <1>1, <2>1, <2>2, <3>1 DEF CoverageInv, LedgerPlaced
  <2>5. QED
    BY <1>5, <2>4 DEF CoverageInv, RowCovered, HoldsLease
<1>6. BasesCurrent'
  <2> SUFFICES ASSUME NEW h \in handlers' PROVE BaseCurrent(h)'
    BY DEF BasesCurrent
  <2>1. CASE h \in handlers
    BY <1>1, <2>1 DEF CoverageInv, BasesCurrent, BaseCurrent, Advances, HoldsLease, UpTo
  <2>2. CASE h = [request |-> q, base |-> coverage]
    BY <1>1, <1>5, <2>2 DEF BaseCurrent, Advances, HoldsLease, UpTo
  <2>3. QED
    BY <1>1, <2>1, <2>2
<1>7. QED
  BY <1>3, <1>4, <1>6 DEF CoverageInv

LEMMA MergeExtends ==
  ASSUME NEW q \in Request, NEW base, base = UpTo(q.from)
  PROVE  /\ q.from <= q.to => Merge(base, q) = UpTo(q.to)
         /\ q.to = N => \A i \in Item : Merge(base, q)[i] = 1
<1>1. q.from \in 0..N /\ q.to \in 0..N /\ Item \subseteq Nat
  BY DEF Request, Body, Item
<1>2. \A i \in Item : Merge(base, q)[i] = IF i <= q.to \/ i <= q.from THEN 1 ELSE 0
  BY <1>1 DEF Merge, UpTo, Covered, Item
<1>3. QED
  BY <1>1, <1>2 DEF Merge, UpTo, Item

\* A run's ledger settles on the row: what Acknowledged does with the API's counter.
LEMMA AnswerCovers ==
  ASSUME TypeOK, NEW q \in Request, NEW seq \in Nat, Answer(q, seq), q.attempt \in Attempt
  PROVE  /\ \A b \in Attempt : b # q.attempt => run'[b] = run[b]
         /\ \/ run' = run
            \/ /\ run[q.attempt].phase = "waiting" /\ q \in run[q.attempt].flight
               /\ run'[q.attempt].phase = "fetching" /\ run'[q.attempt].flight = {}
               /\ \/ /\ seq < q.seq /\ run'[q.attempt].seq = run[q.attempt].seq
                     /\ run'[q.attempt].sent = run[q.attempt].sent
                  \/ /\ ~(seq < q.seq) /\ run'[q.attempt].seq = seq
                     /\ run'[q.attempt].sent = q.to
<1> DEFINE a == q.attempt
<1>0. run \in [Attempt -> Run] /\ run[a] \in Run
  BY RunType DEF TypeOK
<1>1. CASE run' = run
  BY <1>1
<1>2. CASE /\ run[a].phase = "waiting" /\ q \in run[a].flight
           /\ run' = [run EXCEPT ![a] = Acknowledged(@, q, seq)]
  <2>1. run'[a] = Acknowledged(run[a], q, seq) /\ \A b \in Attempt : b # a => run'[b] = run[b]
    BY <1>0, <1>2
  <2>2. CASE seq < q.seq
    <3>1. run'[a] = [run[a] EXCEPT !.phase = "fetching", !.flight = {}]
      BY <2>1, <2>2 DEF Acknowledged
    <3>2. QED
      BY <1>0, <1>2, <2>1, <2>2, <3>1 DEF Run
  <2>3. CASE ~(seq < q.seq)
    <3>1. run'[a] = [run[a] EXCEPT !.phase = "fetching", !.flight = {}, !.seq = seq,
                                   !.sent = q.to, !.flushed = q.pos]
      BY <2>1, <2>3 DEF Acknowledged
    <3>2. QED
      BY <1>0, <1>2, <2>1, <2>3, <3>1 DEF Run
  <2>4. QED
    BY <2>2, <2>3
<1>3. QED
  BY <1>1, <1>2 DEF Answer

LEMMA ProgressStoredCovers ==
  ASSUME OwnIdentity, CheckpointInv, CoverageInv, TypeOK', NEW h \in handlers,
         ProgressStored(h)
  PROVE  CoverageInv'
<1> DEFINE q == h.request
           a == q.attempt
<1>0. /\ TypeOK /\ row \in Row /\ q \in Request /\ q \in Pending /\ q.seq \in Nat
      /\ q.kind = "progress" /\ Advances(q) /\ q.to \in 0..N
  BY HandlerType, HandlerPending, PendingType
     DEF CheckpointInv, TypeOK, ProgressStored, Request, Body
<1>1. /\ a \in Attempt /\ run[a].phase # "idle" /\ run[a].flight = {q}
      /\ row.engine = EngineOf[a] /\ q.seq = run[a].seq + 1
  BY <1>0, AdvancesOnlyFlight
<1>2. /\ row' = [row EXCEPT !.seq = q.seq, !.pos = q.pos, !.context = PackOf[a]]
      /\ coverage' = Merge(h.base, q) /\ scanPack' = PackOf[a] /\ handlers' = handlers \ {h}
      /\ Answer(q, q.seq) /\ net' = net
  BY DEF ProgressStored
<1>3. /\ row'.status = "leased" /\ row.status = "leased" /\ row'.engine = row.engine
      /\ row'.seq = q.seq /\ row'.pos = q.pos /\ row'.context = PackOf[a]
  BY <1>0, <1>2 DEF Row, Advances, HoldsLease
<1>4. row.seq + 1 = q.seq /\ row.seq \in Nat /\ run[a].seq \in Nat
  BY <1>0, <1>1, RowType, RunType DEF Advances
<1>5. /\ \A b \in Attempt : b # a => run'[b] = run[b]
      /\ \/ run' = run
         \/ /\ run[a].phase = "waiting" /\ run'[a].phase = "fetching" /\ run'[a].flight = {}
            /\ run'[a].seq = q.seq /\ run'[a].sent = q.to
  BY <1>0, <1>1, <1>2, AnswerCovers
<1>6. q.from = run[a].sent /\ q.from <= q.to /\ q.pos = q.to /\ row.pos = q.from
  <2>1. q.from = run[a].sent /\ q.from <= q.to /\ q.pos = q.to
    BY <1>1 DEF CoverageInv, LedgerPlaced
  <2>2. row.seq # run[a].seq + 1
    BY <1>1, <1>4
  <2>3. QED
    BY <1>1, <2>1, <2>2 DEF CoverageInv, LedgerPlaced
<1>7. coverage' = UpTo(q.to)
  <2>1. h.base = coverage
    BY <1>0 DEF CoverageInv, BasesCurrent, BaseCurrent
  <2>2. coverage = UpTo(q.from)
    BY <1>3, <1>6 DEF CoverageInv, RowCovered
  <2>3. QED
    BY <1>0, <1>2, <1>6, <2>1, <2>2, MergeExtends
<1>8. RowCovered' /\ ResumeKept' /\ CoverageExact'
  <2>1. PackOf[a] \in Pack /\ q.seq # 0
    BY <1>1, <1>4
  <2>2. QED
    BY <1>2, <1>3, <1>6, <1>7, <2>1 DEF RowCovered, ResumeKept, CoverageExact, UpTo
<1>9. LedgerPlaced'
  <2> SUFFICES ASSUME NEW b \in Attempt
               PROVE
                 /\ run'[b].seq = 0 => run'[b].sent = 0
                 /\ \A f \in run'[b].flight : /\ f.from = run'[b].sent /\ f.from <= f.to
                                              /\ f.pos = f.to
                 /\ row'.engine = EngineOf[b] /\ run'[b].phase # "idle" =>
                      \/ row'.seq = run'[b].seq /\ row'.pos = run'[b].sent
                      \/ row'.seq = run'[b].seq + 1 /\ \E f \in run'[b].flight : row'.pos = f.pos
    BY DEF LedgerPlaced
  <2>1. CASE b # a
    <3>1. row'.engine # EngineOf[b]
      BY <1>1, <1>3, <2>1 DEF OwnIdentity
    <3>2. QED
      BY <1>5, <2>1, <3>1 DEF CoverageInv, LedgerPlaced
  <2>2. CASE b = a /\ run' = run
    BY <1>1, <1>3, <2>2 DEF CoverageInv, LedgerPlaced
  <2>3. CASE b = a /\ run' # run
    BY <1>3, <1>4, <1>5, <1>6, <2>3
  <2>4. QED
    BY <2>1, <2>2, <2>3
<1>10. Pending' \subseteq Pending
  BY <1>2 DEF Pending
<1>11. ResultsPlaced'
  <2> SUFFICES ASSUME NEW p \in Pending, p.kind = "results"
               PROVE  /\ run'[p.attempt].phase \in {"reporting", "ended"}
                      /\ p.seq = run'[p.attempt].seq /\ p.from = run'[p.attempt].sent
    BY <1>10 DEF ResultsPlaced
  <2>1. p.attempt \in Attempt
    BY <1>0, PendingType
  <2>2. run[p.attempt].phase \in {"reporting", "ended"}
    BY DEF CoverageInv, ResultsPlaced
  <2>3. run'[p.attempt] = run[p.attempt]
    BY <1>5, <2>1, <2>2
  <2>4. QED
    BY <2>3 DEF CoverageInv, ResultsPlaced
<1>12. BasesCurrent'
  <2> SUFFICES ASSUME NEW g \in handlers, g \in handlers' PROVE BaseCurrent(g)'
    BY <1>2 DEF BasesCurrent
  <2>1. HoldsLease(g.request)' <=> HoldsLease(g.request)
    BY <1>3 DEF HoldsLease
  <2>2. g.request \in Pending /\ g.request.attempt \in Attempt /\ g.request.seq \in Nat
    BY <1>0, HandlerPending, PendingType
  <2>3. g.request.kind = "progress" => ~Advances(g.request)'
    <3> SUFFICES ASSUME g.request.kind = "progress", Advances(g.request)' PROVE FALSE
      OBVIOUS
    <3>1. row.engine = EngineOf[g.request.attempt] /\ q.seq + 1 = g.request.seq
      BY <1>3 DEF Advances, HoldsLease
    <3>2. g.request.attempt = a
      BY <1>1, <2>2, <3>1 DEF OwnIdentity
    <3>3. g.request.seq <= run[a].seq + 1
      BY <2>2, <3>2 DEF CheckpointInv, SequenceBound
    <3>4. QED
      BY <1>1, <1>4, <2>2, <3>1, <3>3
  <2>4. QED
    BY <2>1, <2>3 DEF CoverageInv, BasesCurrent, BaseCurrent, UpTo
<1>13. QED
  BY <1>8, <1>9, <1>11, <1>12 DEF CoverageInv

LEMMA ProgressReplayedCovers ==
  ASSUME OwnIdentity, CheckpointInv, CoverageInv, TypeOK', NEW h \in handlers,
         ProgressReplayed(h)
  PROVE  CoverageInv'
<1> DEFINE q == h.request
           a == q.attempt
<1>0. /\ TypeOK /\ q \in Request /\ q \in Pending /\ q.seq \in Nat /\ a \in Attempt
      /\ row.seq \in Nat /\ run[a].seq \in Nat
  BY HandlerType, HandlerPending, PendingType, RowType, RunType DEF CheckpointInv
<1>1. /\ handlers' = handlers \ {h} /\ UNCHANGED <<row, coverage, scanPack, net>>
      /\ run' = run \/ (row.engine = EngineOf[a] /\ Answer(q, row.seq))
  BY DEF ProgressReplayed
<1>2. Pending' \subseteq Pending
  BY <1>1 DEF Pending
<1>3. CASE run' = run
  BY <1>0, <1>1, <1>2, <1>3, CoverageQuiet
<1>4. CASE run' # run
  <2>1. /\ \A b \in Attempt : b # a => run'[b] = run[b]
        /\ run[a].phase = "waiting" /\ q \in run[a].flight
        /\ run'[a].phase = "fetching" /\ run'[a].flight = {}
        /\ \/ /\ row.seq < q.seq /\ run'[a].seq = run[a].seq /\ run'[a].sent = run[a].sent
           \/ /\ ~(row.seq < q.seq) /\ run'[a].seq = row.seq /\ run'[a].sent = q.to
    BY <1>0, <1>1, <1>4, AnswerCovers
  <2>2. row.engine = EngineOf[a]
    BY <1>1, <1>4
  <2>3. run[a].flight = {q} /\ q.seq = run[a].seq + 1
    BY <1>0, <2>1 DEF CheckpointInv, SequenceBound
  <2>4. \/ row.seq = run[a].seq /\ row.pos = run[a].sent
        \/ row.seq = run[a].seq + 1 /\ row.pos = q.pos
    BY <1>0, <2>1, <2>2, <2>3 DEF CoverageInv, LedgerPlaced
  <2>5. q.pos = q.to /\ (run[a].seq = 0 => run[a].sent = 0)
    BY <1>0, <2>3 DEF CoverageInv, LedgerPlaced
  <2>6. /\ row.seq = run'[a].seq /\ row.pos = run'[a].sent
        /\ run'[a].seq = 0 => run'[a].sent = 0
    BY <1>0, <2>1, <2>3, <2>4, <2>5
  <2>7. LedgerPlaced'
    <3> SUFFICES ASSUME NEW b \in Attempt
                 PROVE
                 /\ run'[b].seq = 0 => run'[b].sent = 0
                 /\ \A f \in run'[b].flight : /\ f.from = run'[b].sent /\ f.from <= f.to
                                              /\ f.pos = f.to
                 /\ row'.engine = EngineOf[b] /\ run'[b].phase # "idle" =>
                      \/ row'.seq = run'[b].seq /\ row'.pos = run'[b].sent
                      \/ row'.seq = run'[b].seq + 1 /\ \E f \in run'[b].flight : row'.pos = f.pos
      BY DEF LedgerPlaced
    <3>1. CASE b = a
      BY <1>1, <2>1, <2>6, <3>1
    <3>2. CASE b # a
      BY <1>1, <2>1, <3>2 DEF CoverageInv, LedgerPlaced
    <3>3. QED
      BY <3>1, <3>2
  <2>8. ResultsPlaced'
    <3> SUFFICES ASSUME NEW p \in Pending, p.kind = "results"
                 PROVE  /\ run'[p.attempt].phase \in {"reporting", "ended"}
                        /\ p.seq = run'[p.attempt].seq /\ p.from = run'[p.attempt].sent
      BY <1>2 DEF ResultsPlaced
    <3>1. p.attempt \in Attempt /\ run[p.attempt].phase \in {"reporting", "ended"}
      BY <1>0, PendingType DEF CoverageInv, ResultsPlaced
    <3>2. run'[p.attempt] = run[p.attempt]
      BY <2>1, <3>1
    <3>3. QED
      BY <3>2 DEF CoverageInv, ResultsPlaced
  <2>9. RowCovered' /\ ResumeKept' /\ CoverageExact' /\ BasesCurrent'
    BY <1>1 DEF CoverageInv, RowCovered, ResumeKept, CoverageExact, BasesCurrent, BaseCurrent,
       Advances, HoldsLease, UpTo
  <2>10. QED
    BY <2>7, <2>8, <2>9 DEF CoverageInv
<1>5. QED
  BY <1>3, <1>4

LEMMA ResultsStoredCovers ==
  ASSUME CheckpointInv, CoverageInv, TypeOK', NEW h \in handlers, ResultsStored(h)
  PROVE  CoverageInv'
<1> DEFINE q == h.request
           base == IF q.seq > 0 THEN h.base ELSE Nothing
           merged == Merge(base, q)
           outcome == EffectiveOutcome(q.status, merged)
<1>0. /\ TypeOK /\ row \in Row /\ q \in Request /\ q \in Pending /\ q.seq \in Nat
      /\ q.kind = "results" /\ HoldsLease(q) /\ q.attempt \in Attempt
      /\ q.status \in {"completed", "failed"}
  BY HandlerType, HandlerPending, PendingType
     DEF CheckpointInv, TypeOK, ResultsStored, Request, Body
<1>1. /\ row' = [row EXCEPT !.status = outcome, !.keyed = TRUE] /\ coverage' = merged
      /\ scanPack' = PackOf[q.attempt] /\ handlers' = handlers \ {h}
      /\ UNCHANGED <<run, net>>
  BY DEF ResultsStored
<1>2. outcome \in {"completed", "failed"} /\ (outcome = "completed" => q.status = "completed")
  BY <1>0 DEF EffectiveOutcome
<1>3. base = UpTo(q.from)
  <2>1. CASE q.seq > 0
    BY <1>0, <2>1 DEF CoverageInv, BasesCurrent, BaseCurrent
  <2>2. CASE ~(q.seq > 0)
    <3>1. q.from = 0
      BY <1>0, <2>2 DEF CoverageInv, ResultsPlaced, LedgerPlaced
    <3>2. UpTo(0) = Nothing
      BY DEF UpTo, Nothing, Item
    <3>3. QED
      BY <2>2, <3>1, <3>2
  <2>3. QED
    BY <2>1, <2>2
<1>4. q.status = "completed" => \A i \in Item : merged[i] = 1
  <2>1. q.status = "completed" => q.to = N
    BY <1>0 DEF CheckpointInv, RequestsHonest, RequestHonest
  <2>2. QED
    BY <1>0, <1>3, <2>1, MergeExtends
<1> HIDE DEF base, merged, outcome
<1>5. /\ row'.status = outcome /\ row'.engine = row.engine /\ row'.pos = row.pos
      /\ row'.seq = row.seq /\ row'.context = row.context
  BY <1>0, <1>1 DEF Row
<1>6. RowCovered' /\ CoverageExact'
  BY <1>1, <1>2, <1>4, <1>5 DEF RowCovered, CoverageExact
<1>7. ResumeKept'
  <2>1. PackOf[q.attempt] \in Pack
    BY <1>0
  <2>2. QED
    BY <1>1, <1>5, <2>1 DEF CoverageInv, ResumeKept
<1>8. Pending' \subseteq Pending
  BY <1>1 DEF Pending
<1>9. QED
  BY <1>1, <1>2, <1>5, <1>6, <1>7, <1>8, EndCovers

LEMMA CoverageNext ==
  ASSUME OwnIdentity, CheckpointEveryItem, OneRulePack, CheckpointInv, CoverageInv, [Next]_vars
  PROVE  CoverageInv'
<1>0. TypeOK /\ TypeOK'
  BY TypeNext DEF CheckpointInv
<1>1. ASSUME NEW a \in Attempt, RunStep(a) PROVE CoverageInv'
  BY <1>0, <1>1, LeaseCovers, RowCovers, FlushCovers, RunCovers DEF RunStep
<1>2. CASE Reclaim \/ Cancel
  BY <1>0, <1>2, RowCovers
<1>3. ASSUME NEW p \in Pack, OtherTaskReports(p) PROVE CoverageInv'
  <2>1. scanPack' = p /\ UNCHANGED <<row, coverage, run, net, handlers>>
    BY <1>3 DEF OtherTaskReports
  <2>2. Pending' = Pending
    BY <2>1 DEF Pending
  <2>3. QED
    BY <1>0, <2>1, <2>2, CoverageQuiet
<1>4. ASSUME NEW q \in net, Refuse(q) PROVE CoverageInv'
  <2>1. net' \subseteq net /\ UNCHANGED <<row, coverage, scanPack, run, handlers>>
    BY <1>4 DEF Refuse
  <2>2. Pending' \subseteq Pending
    BY <2>1 DEF Pending
  <2>3. QED
    BY <1>0, <2>1, <2>2, CoverageQuiet
<1>5. ASSUME NEW q \in net, Receive(q) PROVE CoverageInv'
  BY <1>0, <1>5, ReceiveCovers
<1>6. ASSUME NEW h \in handlers, HandlerDies(h) \/ ResultsRefused(h) PROVE CoverageInv'
  <2>1. handlers' \subseteq handlers /\ UNCHANGED <<row, coverage, scanPack, run, net>>
    BY <1>6 DEF HandlerDies, ResultsRefused
  <2>2. Pending' \subseteq Pending
    BY <2>1 DEF Pending
  <2>3. QED
    BY <1>0, <2>1, <2>2, CoverageQuiet
<1>7. ASSUME NEW h \in handlers, ProgressStored(h) \/ ProgressReplayed(h) \/ ResultsStored(h)
      PROVE  CoverageInv'
  BY <1>0, <1>7, ProgressStoredCovers, ProgressReplayedCovers, ResultsStoredCovers
<1>8. CASE UNCHANGED vars
  <2>1. UNCHANGED <<row, coverage, scanPack, run, net, handlers>> /\ Pending' = Pending
    BY <1>8 DEF vars, Pending
  <2>2. QED
    BY <1>0, <2>1, CoverageQuiet
<1>9. QED
  BY <1>1, <1>2, <1>3, <1>4, <1>5, <1>6, <1>7, <1>8 DEF Next

\* The merged coverage of a completed task counts every item once, whichever attempts
\* read it and whatever requests came late: under the deployment of OwnIdentity, for a
\* connector that publishes a checkpoint after every item and a scan under one pack
\* (advance_checkpoint, merge_task_report).  Where a checkpoint covers a page of several
\* items, run checkpoint_pages finds an item counted twice.
THEOREM CoverageCounted ==
  ASSUME OwnIdentity, CheckpointEveryItem, OneRulePack
  PROVE  Spec => []CoverageExact
<1>1. Init => CheckpointInv /\ CoverageInv
  BY InvInit, CoverageInit
<1>2. CheckpointInv /\ CoverageInv /\ [Next]_vars => (CheckpointInv /\ CoverageInv)'
  BY InvNext, CoverageNext
<1>3. CheckpointInv /\ CoverageInv => CoverageExact
  BY DEF CoverageInv
<1>4. QED
  BY <1>1, <1>2, <1>3, PTL DEF Spec
=============================================================================
