------------------------- MODULE EngineProcessProofs -------------------------
(* Proofs about what runs on an engine: EngineProcess, for every number of     *)
(* threads, tasks, credentials and policies, any number of policy changes,     *)
(* cancellations and crashes; Http; and Share, for every tree and every cap.   *)
EXTENDS EngineProcess, Http, Share, SequenceTheorems, FiniteSetTheorems, TLAPS

LEMMA ConstantTypes ==
  /\ IsFiniteSet(Thread) /\ FetchTask # {}
  /\ RuleFor \in [Credential -> Detector]
  /\ Ceiling \subseteq Nat \ {0}
  /\ TaskBudget \in Nat \ {0} /\ MaxChange \in Nat /\ MaxUpset \in Nat
BY EngineAssumption, Zenon

USE ConstantTypes

Pulse == [step : {"idle", "sent", "answered"}, names : SUBSET FetchTask]

----------------------------------------------------------------------------
(* The records. *)

LEMMA Blanks ==
  /\ NoPolicy \in Policy
  /\ NoPulse \in Pulse /\ NoPulse.step = "idle"
  /\ NewMinute \in BudgetMinute /\ NewMinute.permits = 0 /\ NewMinute.count = 0 /\ NewMinute.top = 0
BY DEF NoPolicy, Policy, NoPulse, Pulse, NewMinute, BudgetMinute

LEMMA IdleShape ==
  ASSUME NEW j \in FetchTask
  PROVE  /\ Idle(j) \in ThreadState
         /\ Idle(j).step = "idle" /\ Idle(j).job = j /\ Idle(j).acked = FALSE
<1>1. /\ [d \in Detector |-> 0] \in [Detector -> Ceiling \cup {0}]
      /\ [d \in Detector |-> 0] \in [Detector -> 0..TaskBudget]
      /\ [c \in Credential |-> "none"] \in [Credential -> {"none", "blocked", "answered"}]
  OBVIOUS
<1>2. QED
  BY <1>1 DEF Idle, ThreadState

LEMMA SnapshotType ==
  ASSUME EngineTypeOK
  PROVE  LeaseSnapshot \in [Detector -> Ceiling \cup {0}]
BY DEF EngineTypeOK, LeaseSnapshot, Policy

LEMMA LeasedShape ==
  ASSUME NEW j \in FetchTask, NEW f \in [Detector -> Ceiling \cup {0}]
  PROVE  /\ [Idle(j) EXCEPT !.step = "scanning", !.limits = f] \in ThreadState
         /\ [Idle(j) EXCEPT !.step = "scanning", !.limits = f].step = "scanning"
         /\ [Idle(j) EXCEPT !.step = "scanning", !.limits = f].job = j
         /\ [Idle(j) EXCEPT !.step = "scanning", !.limits = f].acked = FALSE
<1> DEFINE k == Idle(j)
<1>1. k \in ThreadState /\ k.job = j /\ k.acked = FALSE
  BY IdleShape
<1> HIDE DEF k
<1>2. /\ [k EXCEPT !.step = "scanning", !.limits = f] \in ThreadState
      /\ [k EXCEPT !.step = "scanning", !.limits = f].step = "scanning"
      /\ [k EXCEPT !.step = "scanning", !.limits = f].job = j
      /\ [k EXCEPT !.step = "scanning", !.limits = f].acked = FALSE
  BY <1>1 DEF ThreadState
<1>3. QED
  BY <1>2 DEF k

----------------------------------------------------------------------------
(* What each step of a thread makes of its state: still a thread's, and the *)
(* step, task and acknowledgement it has next.                              *)

Moves(w, step, its, acked) ==
  /\ workers' \in [Thread -> ThreadState]
  /\ \A v \in Thread \ {w} : workers'[v] = workers[v]
  /\ workers'[w].step = step /\ workers'[w].job = its /\ workers'[w].acked = acked

LEMMA MovesTo ==
  ASSUME EngineTypeOK, NEW w \in Thread, NEW k \in ThreadState,
         workers' = [workers EXCEPT ![w] = k]
  PROVE  Moves(w, k.step, k.job, k.acked)
BY DEF Moves, EngineTypeOK

LEMMA LeaseMoves ==
  ASSUME EngineTypeOK, NEW w \in Thread, NEW j \in FetchTask, LeaseJob(w, j)
  PROVE  Moves(w, "scanning", j, FALSE)
<1> DEFINE k == [Idle(j) EXCEPT !.step = "scanning", !.limits = LeaseSnapshot]
<1>1. k \in ThreadState /\ k.step = "scanning" /\ k.job = j /\ k.acked = FALSE
  BY SnapshotType, LeasedShape
<1>2. workers' = [workers EXCEPT ![w] = k]
  BY DEF LeaseJob
<1> HIDE DEF k
<1>3. Moves(w, k.step, k.job, k.acked)
  BY <1>1, <1>2, MovesTo
<1>4. QED
  BY <1>1, <1>3

LEMMA PrepareMoves ==
  ASSUME EngineTypeOK, NEW w \in Thread, NEW b \in BOOLEAN, Prepare(w, b)
  PROVE  Moves(w, "preparing", workers[w].job, workers[w].acked)
<1> DEFINE old == workers[w]
           t == IF workers[w].acked THEN {} ELSE Credential
           k == [old EXCEPT !.step = "preparing", !.last = b, !.todo = t]
<1>1. old \in ThreadState /\ t \in SUBSET Credential
  BY DEF EngineTypeOK
<1>2. workers' = [workers EXCEPT ![w] = k]
  BY DEF Prepare, EngineTypeOK
<1> HIDE DEF t, old
<1>3. k \in ThreadState /\ k.step = "preparing" /\ k.job = old.job /\ k.acked = old.acked
  BY <1>1 DEF ThreadState
<1> HIDE DEF k
<1>4. Moves(w, k.step, k.job, k.acked)
  BY <1>2, <1>3, MovesTo
<1>5. QED
  BY <1>3, <1>4 DEF old

LEMMA ValidateMoves ==
  ASSUME EngineTypeOK, NEW w \in Thread, NEW c \in Credential, NEW r \in BOOLEAN,
         Validate(w, c, r)
  PROVE  Moves(w, workers[w].step, workers[w].job, workers[w].acked)
<1> DEFINE k == workers[w]
           d == RuleFor[c]
           limit == k.limits[d]
           asks == limit # 0 /\ k.cache[c] = "none" /\ k.tries[d] < TaskBudget
           answered == asks /\ r /\ Permits(limit)
           t == k.todo \ {c}
           n == IF answered THEN k.tries[d] + 1 ELSE k.tries[d]
           x == IF answered THEN "answered"
                ELSE IF limit # 0 /\ k.cache[c] = "none" THEN "blocked" ELSE k.cache[c]
           next == [k EXCEPT !.todo = t, !.tries[d] = n, !.cache[c] = x]
<1>1. workers' = [workers EXCEPT ![w] = next]
  BY DEF Validate
<1>2. k \in ThreadState /\ d \in Detector
  BY DEF EngineTypeOK
<1>3. /\ k.tries[d] \in 0..TaskBudget /\ k.cache[c] \in {"none", "blocked", "answered"}
      /\ t \in SUBSET Credential
  BY <1>2 DEF ThreadState
<1>4. n \in 0..TaskBudget /\ x \in {"none", "blocked", "answered"}
  BY <1>3
<1> HIDE DEF k, d, t, n, x, answered, asks, limit
<1>5. next \in ThreadState /\ next.step = k.step /\ next.job = k.job /\ next.acked = k.acked
  <2>1. /\ [k.tries EXCEPT ![d] = n] \in [Detector -> 0..TaskBudget]
        /\ [k.cache EXCEPT ![c] = x] \in [Credential -> {"none", "blocked", "answered"}]
    BY <1>2, <1>4 DEF ThreadState
  <2>2. next = [k EXCEPT !.todo = t, !.tries = [k.tries EXCEPT ![d] = n],
                         !.cache = [k.cache EXCEPT ![c] = x]]
    BY <1>2 DEF ThreadState
  <2>3. QED
    BY <1>2, <1>3, <2>1, <2>2 DEF ThreadState
<1> HIDE DEF next
<1>6. Moves(w, next.step, next.job, next.acked)
  BY <1>1, <1>5, MovesTo
<1>7. QED
  BY <1>5, <1>6 DEF k

LEMMA BatchMoves ==
  ASSUME EngineTypeOK, NEW w \in Thread, SendBatch(w)
  PROVE  Moves(w, "scanning", workers[w].job, workers[w].acked \/ BatchTaken(w))
<1> DEFINE old == workers[w]
           b == workers[w].acked \/ BatchTaken(w)
           k == [old EXCEPT !.step = "scanning", !.acked = b]
<1>1. old \in ThreadState /\ b \in BOOLEAN
  BY DEF EngineTypeOK
<1>2. workers' = [workers EXCEPT ![w] = k]
  BY DEF SendBatch, EngineTypeOK
<1> HIDE DEF b, old
<1>3. k \in ThreadState /\ k.step = "scanning" /\ k.job = old.job /\ k.acked = b
  BY <1>1 DEF ThreadState
<1> HIDE DEF k
<1>4. Moves(w, k.step, k.job, k.acked)
  BY <1>2, <1>3, MovesTo
<1>5. QED
  BY <1>3, <1>4 DEF b, old

LEMMA DoneMoves ==
  ASSUME EngineTypeOK, NEW w \in Thread, FetchDone(w)
  PROVE  Moves(w, "reporting", workers[w].job, workers[w].acked)
<1> DEFINE old == workers[w]
           k == [old EXCEPT !.step = "reporting"]
<1>1. old \in ThreadState
  BY DEF EngineTypeOK
<1>2. workers' = [workers EXCEPT ![w] = k]
  BY DEF FetchDone, EngineTypeOK
<1> HIDE DEF old
<1>3. k \in ThreadState /\ k.step = "reporting" /\ k.job = old.job /\ k.acked = old.acked
  BY <1>1 DEF ThreadState
<1> HIDE DEF k
<1>4. Moves(w, k.step, k.job, k.acked)
  BY <1>2, <1>3, MovesTo
<1>5. QED
  BY <1>3, <1>4 DEF old

LEMMA EndMoves ==
  ASSUME EngineTypeOK, NEW w \in Thread, Abandon(w) \/ Report(w)
  PROVE  Moves(w, "idle", workers[w].job, FALSE)
<1>1. workers[w].job \in FetchTask
  BY DEF EngineTypeOK, ThreadState
<1>2. workers' = [workers EXCEPT ![w] = Idle(workers[w].job)]
  BY DEF Abandon, Report, EngineTypeOK
<1>3. QED
  BY <1>1, <1>2, IdleShape, MovesTo

----------------------------------------------------------------------------
(* The request budget. *)

BudgetInv == budget \in BudgetMinute /\ budget.permits <= budget.count /\ FleetCeiling

LEMMA HighestIsTop == Highest \in Ceiling /\ \A m \in Ceiling : m <= Highest
BY EngineAssumption DEF Highest

\* A permit is given at a count below the limit, and no count stands still below one.
LEMMA CountedKeeps ==
  ASSUME BudgetInv, NEW limit \in Ceiling \cup {0}
  PROVE  /\ Counted(limit) \in BudgetMinute
         /\ Counted(limit).permits <= Counted(limit).count
         /\ Counted(limit).permits <= Counted(limit).top
<1>1. /\ budget.count \in Nat /\ budget.permits \in Nat /\ budget.top \in Ceiling \cup {0}
      /\ budget.permits <= budget.count /\ budget.permits <= budget.top
  BY DEF BudgetInv, BudgetMinute, FleetCeiling
<1>2. limit \in Nat /\ Highest \in Nat /\ limit <= Highest /\ budget.top \in Nat
  <2>1. \A n \in Ceiling \cup {0} : n \in Nat
    OBVIOUS
  <2>2. Highest \in Nat /\ 0 <= Highest
    BY <2>1, HighestIsTop
  <2>3. QED
    BY <1>1, <2>1, <2>2, HighestIsTop
<1>3. QED
  BY <1>1, <1>2 DEF Counted, Permits, BudgetMinute

LEMMA BudgetStep == EngineTypeOK /\ BudgetInv /\ [EngineNext]_engineVars => BudgetInv'
<1> SUFFICES ASSUME EngineTypeOK, BudgetInv, [EngineNext]_engineVars PROVE BudgetInv'
  OBVIOUS
<1>1. CASE UNCHANGED budget
  BY <1>1 DEF BudgetInv, FleetCeiling
<1>2. CASE MinuteEnds
  BY <1>2, Blanks DEF MinuteEnds, BudgetInv, FleetCeiling
<1>3. ASSUME NEW w \in Thread, NEW c \in Credential, NEW r \in BOOLEAN, Validate(w, c, r)
      PROVE  BudgetInv'
  <2>1. workers[w].limits[RuleFor[c]] \in Ceiling \cup {0}
    BY DEF EngineTypeOK, ThreadState
  <2>2. budget' = budget \/ budget' = Counted(workers[w].limits[RuleFor[c]])
    BY <1>3 DEF Validate
  <2>3. QED
    BY <1>1, <2>1, <2>2, CountedKeeps DEF BudgetInv, FleetCeiling
<1>4. CASE UNCHANGED engineVars
  BY <1>1, <1>4 DEF engineVars
<1>5. ASSUME NEW d \in Detector,
             \/ \E on \in BOOLEAN, n \in Ceiling : CreatePolicy(d, on, n) \/ UpdatePolicy(d, on, n)
             \/ DeletePolicy(d)
      PROVE  BudgetInv'
  BY <1>1, <1>5 DEF CreatePolicy, UpdatePolicy, DeletePolicy, SetPolicy
<1>6. ASSUME NEW w \in Thread,
             \/ \E j \in FetchTask : LeaseJob(w, j)
             \/ Abandon(w)
             \/ \E last \in BOOLEAN : Prepare(w, last)
             \/ SendBatch(w) \/ FetchDone(w) \/ Report(w)
      PROVE  BudgetInv'
  BY <1>1, <1>6 DEF LeaseJob, Abandon, Prepare, SendBatch, FetchDone, Report
<1>7. CASE \/ \E j \in FetchTask : Lapse(j) \/ CancelJob(j)
           \/ BeatSent \/ (\E ok \in BOOLEAN : BeatAnswered(ok)) \/ BeatHeard \/ EngineStops
  BY <1>1, <1>7 DEF Lapse, CancelJob, BeatSent, BeatAnswered, BeatHeard, EngineStops
<1>8. QED
  BY <1>2, <1>3, <1>4, <1>5, <1>6, <1>7 DEF EngineNext

----------------------------------------------------------------------------
(* Types. *)

LEMMA TypesInit == EngineInit => EngineTypeOK /\ BudgetInv
<1> SUFFICES ASSUME EngineInit PROVE EngineTypeOK /\ BudgetInv
  OBVIOUS
<1> DEFINE j0 == CHOOSE j \in FetchTask : TRUE
<1>1. j0 \in FetchTask
  OBVIOUS
<1>2. workers \in [Thread -> ThreadState]
  <2>1. Idle(j0) \in ThreadState
    BY <1>1, IdleShape
  <2>2. workers = [w \in Thread |-> Idle(j0)]
    BY DEF EngineInit
  <2>3. QED
    BY <2>1, <2>2
<1>3. jobs \in [FetchTask -> LeaseRow]
  BY DEF EngineInit, LeaseRow
<1>4. QED
  BY <1>2, <1>3, Blanks DEF EngineInit, EngineTypeOK, BudgetInv, FleetCeiling, Pulse

LEMMA UpsetType ==
  ASSUME EngineTypeOK, NEW b, Upset(b)
  PROVE  upsets' \in 0..MaxUpset
BY DEF EngineTypeOK, Upset

LEMMA PolicyTypes ==
  ASSUME EngineTypeOK, NEW d \in Detector,
         \/ \E on \in BOOLEAN, n \in Ceiling : CreatePolicy(d, on, n) \/ UpdatePolicy(d, on, n)
         \/ DeletePolicy(d)
  PROVE  EngineTypeOK'
<1>1. ASSUME NEW p \in Policy, SetPolicy(d, p)
      PROVE  EngineTypeOK'
  BY <1>1 DEF SetPolicy, EngineTypeOK
<1>2. policies[d] \in Policy
  BY DEF EngineTypeOK
<1>3. ASSUME NEW on \in BOOLEAN, NEW n \in Ceiling, CreatePolicy(d, on, n)
      PROVE  EngineTypeOK'
  <2>1. [exists |-> TRUE, enabled |-> on, limit |-> n] \in Policy
    BY DEF Policy
  <2>2. QED
    BY <1>1, <1>3, <2>1 DEF CreatePolicy
<1>4. ASSUME NEW on \in BOOLEAN, NEW n \in Ceiling, UpdatePolicy(d, on, n)
      PROVE  EngineTypeOK'
  <2> DEFINE p == [policies[d] EXCEPT !.enabled = on, !.limit = n]
  <2>1. p \in Policy
    BY <1>2 DEF Policy
  <2>2. SetPolicy(d, p)
    BY <1>4 DEF UpdatePolicy
  <2> HIDE DEF p
  <2>3. QED
    BY <1>1, <2>1, <2>2
<1>5. CASE DeletePolicy(d)
  BY <1>1, <1>5, Blanks DEF DeletePolicy
<1>6. QED
  BY <1>3, <1>4, <1>5

LEMMA ReleasedTypes ==
  ASSUME EngineTypeOK, NEW j \in FetchTask, Released(j)
  PROVE  registry' \in [FetchTask -> Nat] /\ toldCancelled' \subseteq FetchTask
BY DEF Released, EngineTypeOK

LEMMA ThreadTypes ==
  ASSUME EngineTypeOK, NEW w \in Thread,
         \/ \E j \in FetchTask : LeaseJob(w, j)
         \/ Abandon(w)
         \/ \E last \in BOOLEAN : Prepare(w, last)
         \/ SendBatch(w) \/ FetchDone(w) \/ Report(w)
  PROVE  EngineTypeOK'
<1>1. workers[w].job \in FetchTask
  BY DEF EngineTypeOK, ThreadState
<1>2. ASSUME NEW j \in FetchTask, LeaseJob(w, j)
      PROVE  EngineTypeOK'
  <2>1. workers' \in [Thread -> ThreadState]
    BY <1>2, LeaseMoves DEF Moves
  <2>2. jobs' \in [FetchTask -> LeaseRow] /\ registry' \in [FetchTask -> Nat]
    <3>1. [state |-> "leased", by |-> w] \in LeaseRow
      BY DEF LeaseRow
    <3>2. /\ jobs' = [jobs EXCEPT ![j] = [state |-> "leased", by |-> w]]
          /\ registry' = [registry EXCEPT ![j] = @ + 1]
      BY <1>2 DEF LeaseJob, HeldMore
    <3>3. QED
      BY <3>1, <3>2 DEF EngineTypeOK
  <2>3. QED
    BY <1>2, <2>1, <2>2 DEF LeaseJob, EngineTypeOK
<1>3. CASE Abandon(w)
  <2>1. workers' \in [Thread -> ThreadState]
    BY <1>3, EndMoves DEF Moves
  <2>2. registry' \in [FetchTask -> Nat] /\ toldCancelled' \subseteq FetchTask
    BY <1>1, <1>3, ReleasedTypes DEF Abandon
  <2>3. QED
    BY <1>3, <2>1, <2>2 DEF Abandon, EngineTypeOK
<1>4. ASSUME NEW last \in BOOLEAN, Prepare(w, last)
      PROVE  EngineTypeOK'
  <2>1. workers' \in [Thread -> ThreadState]
    BY <1>4, PrepareMoves DEF Moves
  <2>2. QED
    BY <1>4, <2>1 DEF Prepare, EngineTypeOK
<1>5. CASE SendBatch(w)
  <2>1. workers' \in [Thread -> ThreadState]
    BY <1>5, BatchMoves DEF Moves
  <2>2. inApi' \in [FetchTask -> SUBSET Credential]
    BY <1>5 DEF SendBatch, EngineTypeOK
  <2>3. QED
    BY <1>5, <2>1, <2>2 DEF SendBatch, EngineTypeOK
<1>6. CASE FetchDone(w)
  <2>1. workers' \in [Thread -> ThreadState]
    BY <1>6, DoneMoves DEF Moves
  <2>2. registry' \in [FetchTask -> Nat] /\ toldCancelled' \subseteq FetchTask
    BY <1>1, <1>6, ReleasedTypes DEF FetchDone
  <2>3. QED
    BY <1>6, <2>1, <2>2 DEF FetchDone, EngineTypeOK
<1>7. CASE Report(w)
  <2>1. workers' \in [Thread -> ThreadState]
    BY <1>7, EndMoves DEF Moves
  <2>2. inApi' \in [FetchTask -> SUBSET Credential]
    BY <1>7 DEF Report, EngineTypeOK
  <2>3. jobs' \in [FetchTask -> LeaseRow]
    BY <1>1, <1>7 DEF Report, EngineTypeOK, LeaseRow
  <2>4. QED
    BY <1>7, <2>1, <2>2, <2>3 DEF Report, EngineTypeOK
<1>8. QED
  BY <1>2, <1>3, <1>4, <1>5, <1>6, <1>7

LEMMA TypesStep == EngineTypeOK /\ BudgetInv /\ [EngineNext]_engineVars => EngineTypeOK'
<1> SUFFICES ASSUME EngineTypeOK, BudgetInv, [EngineNext]_engineVars PROVE EngineTypeOK'
  OBVIOUS
<1>1. budget' \in BudgetMinute
  BY BudgetStep DEF BudgetInv
<1>2. CASE UNCHANGED engineVars
  BY <1>2 DEF engineVars, EngineTypeOK
<1>3. CASE MinuteEnds
  BY <1>1, <1>3 DEF MinuteEnds, EngineTypeOK
<1>4. ASSUME NEW w \in Thread, NEW c \in Credential, NEW r \in BOOLEAN, Validate(w, c, r)
      PROVE  EngineTypeOK'
  <2>1. workers' \in [Thread -> ThreadState]
    BY <1>4, ValidateMoves DEF Moves
  <2>2. upsets' \in 0..MaxUpset
    BY <1>4, UpsetType DEF Validate
  <2>3. UNCHANGED <<policies, jobs, registry, toldCancelled, pulse, inApi, changes>>
    BY <1>4 DEF Validate
  <2>4. QED
    BY <1>1, <2>1, <2>2, <2>3 DEF EngineTypeOK
<1>5. ASSUME NEW j \in FetchTask, Lapse(j) \/ CancelJob(j)
      PROVE  EngineTypeOK'
  <2>1. upsets' \in 0..MaxUpset
    BY <1>5, UpsetType DEF Lapse, CancelJob
  <2>2. jobs' \in [FetchTask -> LeaseRow]
    <3>1. /\ [state |-> "free", by |-> NoThread] \in LeaseRow
          /\ [state |-> "cancelled", by |-> NoThread] \in LeaseRow
      BY DEF LeaseRow
    <3>2. QED
      BY <1>5, <3>1 DEF Lapse, CancelJob, EngineTypeOK
  <2>3. QED
    BY <1>5, <2>1, <2>2 DEF Lapse, CancelJob, EngineTypeOK
<1>6. CASE BeatSent \/ (\E ok \in BOOLEAN : BeatAnswered(ok)) \/ BeatHeard
  <2>1. pulse' \in Pulse
    BY <1>6, Blanks DEF BeatSent, BeatAnswered, BeatHeard, EngineTypeOK, Pulse
  <2>2. toldCancelled' \subseteq FetchTask
    BY <1>6 DEF BeatSent, BeatAnswered, BeatHeard, EngineTypeOK
  <2>3. QED
    BY <1>6, <2>1, <2>2 DEF BeatSent, BeatAnswered, BeatHeard, EngineTypeOK, Pulse
<1>7. CASE EngineStops
  <2>1. \A w \in Thread : Idle(workers[w].job) \in ThreadState
    BY IdleShape DEF EngineTypeOK, ThreadState
  <2>2. workers' \in [Thread -> ThreadState]
    BY <1>7, <2>1 DEF EngineStops
  <2>3. upsets' \in 0..MaxUpset
    BY <1>7, UpsetType DEF EngineStops
  <2>4. pulse' \in Pulse
    BY <1>7, Blanks DEF EngineStops
  <2>5. QED
    BY <1>7, <2>2, <2>3, <2>4 DEF EngineStops, EngineTypeOK, Pulse
<1>8. QED
  BY <1>2, <1>3, <1>4, <1>5, <1>6, <1>7, PolicyTypes, ThreadTypes DEF EngineNext

\* Policies, leases, threads, registry and budget have the shape declared.
THEOREM EngineTypes == EngineSpec => []EngineTypeOK
BY TypesInit, TypesStep, BudgetStep, PTL DEF EngineSpec

\* In one life of the counter the fleet is given no more permits than the highest limit
\* one of them was given under, however many engines ask (RedisMinuteLimiter.acquire).
THEOREM FleetKeepsCeiling == EngineSpec => []FleetCeiling
<1>1. BudgetInv => FleetCeiling
  BY DEF BudgetInv
<1>2. QED
  BY TypesInit, TypesStep, BudgetStep, <1>1, PTL DEF EngineSpec

----------------------------------------------------------------------------
(* Nothing is lost to a revocation. *)

\* What a thread has been told is stored is stored.
AckedStored == \A w \in Thread : workers[w].acked => inApi[workers[w].job] = Credential

StoredInv == AckedStored /\ RevocationLosesNothing

LEMMA StoredInit == EngineInit => StoredInv
<1> SUFFICES ASSUME EngineInit PROVE StoredInv
  OBVIOUS
<1> DEFINE j0 == CHOOSE j \in FetchTask : TRUE
<1>1. Idle(j0).acked = FALSE
  BY IdleShape
<1>2. workers = [w \in Thread |-> Idle(j0)]
  BY DEF EngineInit
<1> HIDE DEF j0
<1>3. AckedStored
  BY <1>1, <1>2 DEF AckedStored
<1>4. RevocationLosesNothing
  BY DEF EngineInit, RevocationLosesNothing
<1>5. QED
  BY <1>3, <1>4 DEF StoredInv

\* A step after which threads know no more, and no further task is done.
LEMMA StoredKept ==
  ASSUME StoredInv,
         \A w \in Thread : workers'[w].acked => workers[w].acked /\ workers'[w].job = workers[w].job,
         \A j \in FetchTask : jobs'[j].state = "done" => jobs[j].state = "done",
         inApi' = inApi
  PROVE  StoredInv'
BY DEF StoredInv, AckedStored, RevocationLosesNothing

LEMMA BatchStored ==
  ASSUME EngineTypeOK, StoredInv, NEW w \in Thread, SendBatch(w)
  PROVE  StoredInv'
<1> DEFINE j == workers[w].job
<1>1. j \in FetchTask /\ \A v \in Thread : workers[v].job \in FetchTask
  BY DEF EngineTypeOK, ThreadState
<1>2. /\ \A v \in Thread \ {w} : workers'[v] = workers[v]
      /\ workers'[w].job = j
      /\ workers'[w].acked = (workers[w].acked \/ BatchTaken(w))
  BY BatchMoves DEF Moves
<1>3. /\ inApi' = IF BatchTaken(w) THEN [inApi EXCEPT ![j] = Credential] ELSE inApi
      /\ jobs' = jobs
  BY DEF SendBatch, BatchTaken
<1>4. \A i \in FetchTask : inApi'[i] = IF i = j /\ BatchTaken(w) THEN Credential ELSE inApi[i]
  BY <1>1, <1>3 DEF EngineTypeOK
<1> HIDE DEF j
<1>5. ASSUME NEW v \in Thread, workers'[v].acked
      PROVE  inApi'[workers'[v].job] = Credential
  <2>1. CASE v = w
    <3>1. workers[w].acked => inApi[j] = Credential
      BY DEF StoredInv, AckedStored, j
    <3>2. QED
      BY <1>1, <1>2, <1>4, <1>5, <2>1, <3>1
  <2>2. CASE v # w
    BY <1>1, <1>2, <1>4, <1>5, <2>2 DEF StoredInv, AckedStored
  <2>3. QED
    BY <2>1, <2>2
<1>6. RevocationLosesNothing'
  BY <1>3, <1>4 DEF StoredInv, RevocationLosesNothing
<1>7. QED
  BY <1>5, <1>6 DEF StoredInv, AckedStored

LEMMA ReportStored ==
  ASSUME EngineTypeOK, StoredInv, NEW w \in Thread, Report(w)
  PROVE  StoredInv'
<1> DEFINE j == workers[w].job
           taken == LeasedBy(w) /\ (workers[w].acked \/ Authorized(w))
<1>1. j \in FetchTask /\ \A v \in Thread : workers[v].job \in FetchTask
  BY DEF EngineTypeOK, ThreadState
<1>2. /\ \A v \in Thread \ {w} : workers'[v] = workers[v]
      /\ workers'[w].acked = FALSE
  BY EndMoves DEF Moves
<1>3. /\ inApi' = IF taken /\ ~workers[w].acked THEN [inApi EXCEPT ![j] = Credential] ELSE inApi
      /\ jobs' = IF taken THEN [jobs EXCEPT ![j] = [state |-> "done", by |-> NoThread]] ELSE jobs
  BY DEF Report
<1>4. workers[w].acked => inApi[j] = Credential
  BY DEF StoredInv, AckedStored
<1> HIDE DEF j, taken
<1>5. /\ \A i \in FetchTask : inApi'[i] = inApi[i] \/ inApi'[i] = Credential
      /\ taken => inApi'[j] = Credential
      /\ \A i \in FetchTask : jobs'[i].state = "done" => jobs[i].state = "done" \/ (taken /\ i = j)
  BY <1>1, <1>3, <1>4 DEF EngineTypeOK
<1>6. AckedStored'
  BY <1>1, <1>2, <1>5 DEF StoredInv, AckedStored
<1>7. RevocationLosesNothing'
  BY <1>5 DEF StoredInv, RevocationLosesNothing
<1>8. QED
  BY <1>6, <1>7 DEF StoredInv

LEMMA StoredStep ==
  EngineTypeOK /\ StoredInv /\ [EngineNext]_engineVars => StoredInv'
<1> SUFFICES ASSUME EngineTypeOK, StoredInv, [EngineNext]_engineVars PROVE StoredInv'
  OBVIOUS
<1>1. CASE UNCHANGED <<workers, jobs, inApi>>
  BY <1>1, StoredKept
<1>2. ASSUME NEW w \in Thread, NEW step, NEW its, NEW acked, Moves(w, step, its, acked),
             acked = FALSE \/ (acked = workers[w].acked /\ its = workers[w].job),
             inApi' = inApi,
             \A j \in FetchTask : jobs'[j].state = "done" => jobs[j].state = "done"
      PROVE  StoredInv'
  <2>1. \A v \in Thread : workers'[v].acked =>
                            workers[v].acked /\ workers'[v].job = workers[v].job
    BY <1>2 DEF Moves
  <2>2. QED
    BY <1>2, <2>1, StoredKept
<1>3. ASSUME NEW w \in Thread, NEW j \in FetchTask, LeaseJob(w, j)
      PROVE  StoredInv'
  <2>1. inApi' = inApi /\ \A i \in FetchTask : jobs'[i].state = "done" => jobs[i].state = "done"
    BY <1>3 DEF LeaseJob, EngineTypeOK
  <2>2. QED
    BY <1>2, <1>3, <2>1, LeaseMoves
<1>4. ASSUME NEW w \in Thread, Abandon(w)
      PROVE  StoredInv'
  BY <1>2, <1>4, EndMoves DEF Abandon
<1>5. ASSUME NEW w \in Thread, NEW b \in BOOLEAN, Prepare(w, b)
      PROVE  StoredInv'
  BY <1>2, <1>5, PrepareMoves DEF Prepare
<1>6. ASSUME NEW w \in Thread, NEW c \in Credential, NEW r \in BOOLEAN, Validate(w, c, r)
      PROVE  StoredInv'
  <2>1. UNCHANGED <<jobs, inApi>>
    BY <1>6 DEF Validate
  <2>2. Moves(w, workers[w].step, workers[w].job, workers[w].acked)
    BY <1>6, ValidateMoves
  <2>3. QED
    BY <1>2, <2>1, <2>2
<1>7. ASSUME NEW w \in Thread, FetchDone(w)
      PROVE  StoredInv'
  BY <1>2, <1>7, DoneMoves DEF FetchDone
<1>8. ASSUME NEW j \in FetchTask, Lapse(j) \/ CancelJob(j)
      PROVE  StoredInv'
  <2>1. \A i \in FetchTask : jobs'[i].state = "done" => jobs[i].state = "done"
    <3>1. PICK x \in {"free", "cancelled"} :
             jobs' = [jobs EXCEPT ![j] = [state |-> x, by |-> NoThread]]
      BY <1>8 DEF Lapse, CancelJob
    <3>2. QED
      BY <3>1 DEF EngineTypeOK
  <2>2. UNCHANGED <<workers, inApi>>
    BY <1>8 DEF Lapse, CancelJob
  <2>3. QED
    BY <2>1, <2>2, StoredKept
<1>9. CASE EngineStops
  <2>1. \A w \in Thread : workers'[w].acked = FALSE
    <3>1. \A w \in Thread : Idle(workers[w].job).acked = FALSE
      BY IdleShape DEF EngineTypeOK, ThreadState
    <3>2. QED
      BY <1>9, <3>1 DEF EngineStops
  <2>2. QED
    BY <1>9, <2>1, StoredKept DEF EngineStops
<1>10. ASSUME NEW d \in Detector,
             \/ \E on \in BOOLEAN, n \in Ceiling : CreatePolicy(d, on, n) \/ UpdatePolicy(d, on, n)
             \/ DeletePolicy(d)
      PROVE  StoredInv'
  BY <1>1, <1>10 DEF CreatePolicy, UpdatePolicy, DeletePolicy, SetPolicy
<1>11. CASE MinuteEnds \/ BeatSent \/ (\E ok \in BOOLEAN : BeatAnswered(ok)) \/ BeatHeard
  BY <1>1, <1>11 DEF MinuteEnds, BeatSent, BeatAnswered, BeatHeard
<1>12. CASE UNCHANGED engineVars
  BY <1>1, <1>12 DEF engineVars
<1>13. QED
  BY <1>3, <1>4, <1>5, <1>6, <1>7, <1>8, <1>9, <1>10, <1>11, <1>12, BatchStored, ReportStored
     DEF EngineNext

\* A task is done only with every finding stored, whenever administrators revoke the
\* policies its validations ran under (require_authorized_results, _Batcher.deliver).
THEOREM RevocationIsHarmless == EngineSpec => []RevocationLosesNothing
<1>1. StoredInv => RevocationLosesNothing
  BY DEF StoredInv
<1>2. QED
  BY TypesInit, TypesStep, BudgetStep, StoredInit, StoredStep, <1>1, PTL DEF EngineSpec

----------------------------------------------------------------------------
(* The registry counts the threads at work. *)

Holders(j) == {w \in Thread : Working(w) /\ workers[w].job = j}
RegistryCounts == \A j \in FetchTask : registry[j] = Cardinality(Holders(j))
ToldOnly == \A j \in toldCancelled : jobs[j].state = "cancelled" /\ registry[j] # 0
PulseTruthful == pulse.step = "answered" => \A j \in pulse.names : jobs[j].state = "cancelled"

HeldInv == RegistryCounts /\ ToldOnly /\ PulseTruthful

LEMMA HoldersFinite ==
  ASSUME NEW j
  PROVE  IsFiniteSet(Holders(j)) /\ Cardinality(Holders(j)) \in Nat
<1>1. Holders(j) \in SUBSET Thread
  BY DEF Holders
<1>2. IsFiniteSet(Holders(j))
  BY <1>1, FS_Subset
<1>3. QED
  BY <1>2, FS_CardinalityType

LEMMA HeldInit == EngineInit => HeldInv
<1> SUFFICES ASSUME EngineInit PROVE HeldInv
  OBVIOUS
<1> DEFINE j0 == CHOOSE j \in FetchTask : TRUE
<1>1. Idle(j0).step = "idle"
  BY IdleShape
<1>2. workers = [w \in Thread |-> Idle(j0)]
  BY DEF EngineInit
<1> HIDE DEF j0
<1>3. \A j \in FetchTask : Holders(j) = {}
  BY <1>1, <1>2 DEF Holders, Working
<1>4. RegistryCounts
  BY <1>3, FS_EmptySet DEF EngineInit, RegistryCounts
<1>5. ToldOnly /\ PulseTruthful
  BY Blanks DEF EngineInit, ToldOnly, PulseTruthful
<1>6. QED
  BY <1>4, <1>5 DEF HeldInv

\* A cancelled task stays cancelled, so what was told and answered stays true.
LEMMA WordsKept ==
  ASSUME HeldInv, RegistryCounts',
         \A j \in FetchTask : jobs[j].state = "cancelled" => jobs'[j].state = "cancelled",
         toldCancelled \subseteq FetchTask, pulse.names \subseteq FetchTask,
         toldCancelled' \subseteq toldCancelled, pulse' = pulse,
         \A j \in toldCancelled' : registry'[j] # 0
  PROVE  HeldInv'
BY DEF HeldInv, ToldOnly, PulseTruthful

LEMMA NamesType ==
  ASSUME EngineTypeOK
  PROVE  toldCancelled \subseteq FetchTask /\ pulse.names \subseteq FetchTask
BY DEF EngineTypeOK

\* Nobody begins or ends.
LEMMA HoldersKept ==
  ASSUME HeldInv, EngineTypeOK,
         \A w \in Thread : /\ Working(w)' <=> Working(w)
                           /\ Working(w) => workers'[w].job = workers[w].job,
         \A j \in FetchTask : jobs[j].state = "cancelled" => jobs'[j].state = "cancelled",
         UNCHANGED <<registry, toldCancelled, pulse>>
  PROVE  HeldInv'
<1>1. \A j \in FetchTask : Holders(j)' = Holders(j)
  BY DEF Holders
<1>2. RegistryCounts'
  BY <1>1 DEF HeldInv, RegistryCounts
<1>3. QED
  BY <1>2, WordsKept, NamesType DEF HeldInv, ToldOnly

LEMMA ThreadEnters ==
  ASSUME HeldInv, EngineTypeOK, NEW w \in Thread, NEW j \in FetchTask, LeaseJob(w, j)
  PROVE  HeldInv'
<1>1. /\ \A v \in Thread \ {w} : workers'[v] = workers[v]
      /\ workers'[w].step = "scanning" /\ workers'[w].job = j /\ workers[w].step = "idle"
  BY LeaseMoves DEF Moves, LeaseJob
<1>2. /\ \A i \in FetchTask \ {j} : Holders(i)' = Holders(i)
      /\ Holders(j)' = Holders(j) \cup {w} /\ w \notin Holders(j)
  BY <1>1 DEF Holders, Working
<1>3. Cardinality(Holders(j)') = Cardinality(Holders(j)) + 1
  BY <1>2, HoldersFinite, FS_AddElement
<1>4. \A i \in FetchTask : registry'[i] = IF i = j THEN registry[i] + 1 ELSE registry[i]
  BY DEF LeaseJob, HeldMore, EngineTypeOK
<1>5. RegistryCounts'
  BY <1>2, <1>3, <1>4 DEF HeldInv, RegistryCounts
<1>6. /\ \A i \in FetchTask : jobs[i].state = "cancelled" => jobs'[i].state = "cancelled"
      /\ UNCHANGED <<toldCancelled, pulse>>
  BY DEF LeaseJob, EngineTypeOK
<1>7. \A i \in toldCancelled' : registry'[i] # 0
  BY <1>4, <1>6, NamesType DEF HeldInv, ToldOnly, EngineTypeOK
<1>8. QED
  BY <1>5, <1>6, <1>7, WordsKept, NamesType

LEMMA ThreadLeaves ==
  ASSUME HeldInv, EngineTypeOK, NEW w \in Thread, Abandon(w) \/ FetchDone(w)
  PROVE  HeldInv'
<1>1. PICK j \in FetchTask : j = workers[w].job
  BY DEF EngineTypeOK, ThreadState
<1>2. /\ \A v \in Thread \ {w} : workers'[v] = workers[v]
      /\ workers'[w].step \in {"idle", "reporting"}
      /\ Working(w) /\ Released(j) /\ UNCHANGED <<jobs, pulse>>
  BY <1>1, EndMoves, DoneMoves DEF Moves, Abandon, FetchDone, Working
<1>3. /\ \A i \in FetchTask \ {j} : Holders(i)' = Holders(i)
      /\ Holders(j)' = Holders(j) \ {w} /\ w \in Holders(j)
  BY <1>1, <1>2 DEF Holders, Working
<1>4. Cardinality(Holders(j)') = Cardinality(Holders(j)) - 1
  BY <1>3, HoldersFinite, FS_RemoveElement
<1>5. Cardinality(Holders(j)) # 0
  BY <1>3, HoldersFinite, FS_EmptySet
<1>6. \A i \in FetchTask : registry'[i] = IF i = j THEN registry[i] - 1 ELSE registry[i]
  BY <1>1, <1>2, <1>5 DEF Released, EngineTypeOK, HeldInv, RegistryCounts
<1>7. RegistryCounts'
  BY <1>3, <1>4, <1>6 DEF HeldInv, RegistryCounts
<1>8. /\ toldCancelled' \subseteq toldCancelled
      /\ j \in toldCancelled' => registry'[j] # 0
  BY <1>2 DEF Released
<1>9. \A i \in toldCancelled' : registry'[i] # 0
  BY <1>6, <1>8, NamesType DEF HeldInv, ToldOnly
<1>10. QED
  BY <1>2, <1>7, <1>8, <1>9, WordsKept, NamesType

LEMMA ThreadStays ==
  ASSUME HeldInv, EngineTypeOK, NEW w \in Thread,
         \/ \E b \in BOOLEAN : Prepare(w, b)
         \/ \E c \in Credential, r \in BOOLEAN : Validate(w, c, r)
         \/ SendBatch(w) \/ Report(w)
  PROVE  HeldInv'
<1>1. /\ \A v \in Thread \ {w} : workers'[v] = workers[v]
      /\ workers'[w].job = workers[w].job
      /\ Working(w)' <=> Working(w)
  <2>1. CASE \E b \in BOOLEAN : Prepare(w, b)
    BY <2>1, PrepareMoves DEF Moves, Prepare, Working
  <2>2. CASE \E c \in Credential, r \in BOOLEAN : Validate(w, c, r)
    BY <2>2, ValidateMoves DEF Moves, Working
  <2>3. CASE SendBatch(w)
    BY <2>3, BatchMoves DEF Moves, SendBatch, Working
  <2>4. CASE Report(w)
    BY <2>4, EndMoves DEF Moves, Report, Working
  <2>5. QED
    BY <2>1, <2>2, <2>3, <2>4
<1>2. /\ \A j \in FetchTask : jobs[j].state = "cancelled" => jobs'[j].state = "cancelled"
      /\ UNCHANGED <<registry, toldCancelled, pulse>>
  <2>1. CASE Report(w)
    <3> DEFINE j == workers[w].job
               taken == LeasedBy(w) /\ (workers[w].acked \/ Authorized(w))
    <3>1. jobs' = IF taken THEN [jobs EXCEPT ![j] = [state |-> "done", by |-> NoThread]] ELSE jobs
      BY <2>1 DEF Report
    <3>2. taken => jobs[j].state = "leased"
      BY DEF LeasedBy
    <3> HIDE DEF j, taken
    <3>3. \A i \in FetchTask : jobs[i].state = "cancelled" => jobs'[i].state = "cancelled"
      BY <3>1, <3>2 DEF EngineTypeOK
    <3>4. QED
      BY <2>1, <3>3 DEF Report
  <2>2. CASE SendBatch(w) \/ \E b \in BOOLEAN : Prepare(w, b)
    BY <2>2 DEF SendBatch, Prepare
  <2>3. CASE \E c \in Credential, r \in BOOLEAN : Validate(w, c, r)
    BY <2>3 DEF Validate
  <2>4. QED
    BY <2>1, <2>2, <2>3
<1>3. \A v \in Thread : /\ Working(v)' <=> Working(v)
                        /\ Working(v) => workers'[v].job = workers[v].job
  BY <1>1 DEF Working
<1>4. QED
  BY <1>2, <1>3, HoldersKept

LEMMA BeatKeeps ==
  ASSUME HeldInv, EngineTypeOK,
         BeatSent \/ (\E ok \in BOOLEAN : BeatAnswered(ok)) \/ BeatHeard
  PROVE  HeldInv'
<1>1. UNCHANGED <<workers, jobs, registry>>
  BY DEF BeatSent, BeatAnswered, BeatHeard
<1>2. RegistryCounts'
  BY <1>1 DEF HeldInv, RegistryCounts, Holders, Working
<1>3. ToldOnly'
  BY <1>1 DEF HeldInv, ToldOnly, PulseTruthful, BeatSent, BeatAnswered, BeatHeard
<1>4. PulseTruthful'
  <2>1. CASE BeatSent
    BY <2>1 DEF BeatSent, PulseTruthful
  <2>2. CASE BeatHeard
    BY <2>2, Blanks DEF BeatHeard, PulseTruthful
  <2>3. CASE \E ok \in BOOLEAN : BeatAnswered(ok)
    BY <1>1, <2>3, Blanks DEF BeatAnswered, PulseTruthful
  <2>4. QED
    BY <2>1, <2>2, <2>3
<1>5. QED
  BY <1>2, <1>3, <1>4 DEF HeldInv

LEMMA StopKeeps ==
  ASSUME HeldInv, EngineTypeOK, EngineStops
  PROVE  HeldInv'
<1>1. \A w \in Thread : workers'[w].step = "idle"
  <2>1. \A w \in Thread : Idle(workers[w].job).step = "idle"
    BY IdleShape DEF EngineTypeOK, ThreadState
  <2>2. QED
    BY <2>1 DEF EngineStops
<1>2. \A j \in FetchTask : Holders(j)' = {}
  BY <1>1 DEF Holders, Working
<1>3. RegistryCounts'
  BY <1>2, FS_EmptySet DEF EngineStops, RegistryCounts
<1>4. ToldOnly' /\ PulseTruthful'
  BY Blanks DEF EngineStops, ToldOnly, PulseTruthful
<1>5. QED
  BY <1>3, <1>4 DEF HeldInv

LEMMA HeldStep == EngineTypeOK /\ HeldInv /\ [EngineNext]_engineVars => HeldInv'
<1> SUFFICES ASSUME EngineTypeOK, HeldInv, [EngineNext]_engineVars PROVE HeldInv'
  OBVIOUS
<1>1. CASE /\ UNCHANGED <<workers, registry, toldCancelled, pulse>>
           /\ \A j \in FetchTask : jobs[j].state = "cancelled" => jobs'[j].state = "cancelled"
  BY <1>1, HoldersKept DEF Working
<1>2. ASSUME NEW j \in FetchTask, Lapse(j) \/ CancelJob(j)
      PROVE  HeldInv'
  <2>1. \A i \in FetchTask : jobs[i].state = "cancelled" => jobs'[i].state = "cancelled"
    BY <1>2 DEF Lapse, CancelJob, EngineTypeOK
  <2>2. UNCHANGED <<workers, registry, toldCancelled, pulse>>
    BY <1>2 DEF Lapse, CancelJob
  <2>3. QED
    BY <1>1, <2>1, <2>2
<1>3. ASSUME NEW d \in Detector,
             \/ \E on \in BOOLEAN, n \in Ceiling : CreatePolicy(d, on, n) \/ UpdatePolicy(d, on, n)
             \/ DeletePolicy(d)
      PROVE  HeldInv'
  BY <1>1, <1>3 DEF CreatePolicy, UpdatePolicy, DeletePolicy, SetPolicy
<1>4. CASE MinuteEnds \/ UNCHANGED engineVars
  BY <1>1, <1>4 DEF MinuteEnds, engineVars
<1>5. QED
  BY <1>2, <1>3, <1>4, ThreadEnters, ThreadLeaves, ThreadStays, BeatKeeps, StopKeeps
     DEF EngineNext

LEMMA HeldIsBeaten == HeldInv /\ EngineTypeOK => LiveAttemptsBeaten
<1> SUFFICES ASSUME HeldInv, EngineTypeOK PROVE LiveAttemptsBeaten
  OBVIOUS
<1>1. ASSUME NEW w \in Thread, Working(w)
      PROVE  registry[workers[w].job] # 0
  <2>1. workers[w].job \in FetchTask /\ w \in Holders(workers[w].job)
    BY <1>1 DEF EngineTypeOK, ThreadState, Holders
  <2>2. Cardinality(Holders(workers[w].job)) # 0
    BY <2>1, HoldersFinite, FS_EmptySet
  <2>3. QED
    BY <2>1, <2>2 DEF HeldInv, RegistryCounts
<1>2. QED
  BY <1>1 DEF HeldInv, ToldOnly, LiveAttemptsBeaten

\* Every heartbeat names every task some thread is at work on, and a thread is told to
\* abandon cancelled tasks only: the registry's count of a task is the number of threads
\* on it, also while a redelivered task overlaps its first attempt (TaskRegistry).
THEOREM AttemptsAreBeaten == EngineSpec => []LiveAttemptsBeaten
BY TypesInit, TypesStep, BudgetStep, HeldInit, HeldStep, HeldIsBeaten, PTL DEF EngineSpec

----------------------------------------------------------------------------
(* Http, the clients the threads fetch and probe through: for every site, every  *)
(* number of attempts, redirects and pages.                                       *)

Shaped(c) ==
  c = [kind |-> c.kind, site |-> c.site, auth |-> c.auth, tries |-> c.tries,
       backoff |-> c.backoff, waited |-> c.waited, hop |-> c.hop,
       page |-> c.page, seen |-> c.seen, state |-> c.state]

\* A call is the record the clients keep, and its credential is for home only.
Carried ==
  /\ Shaped(call)
  /\ call.auth \in BOOLEAN
  /\ call.auth => call.site = Home

LEMMA CarriedInit == HttpInit => Carried
BY DEF HttpInit, NoCall, Carried, Shaped

LEMMA EndsCarried ==
  ASSUME NEW how, Ends(how)
  PROVE  Carried'
BY DEF Ends, NoCall, Carried, Shaped

LEMMA ExceptShaped ==
  ASSUME NEW c, Shaped(c), NEW v, NEW d,
         d \in {[c EXCEPT !.kind = v], [c EXCEPT !.page = v], [c EXCEPT !.seen = v]}
  PROVE  Shaped(d)
BY DEF Shaped

\* Every request but a followed redirect is asked at home or not at all.
LEMMA AskSiteCarried ==
  ASSUME NEW c, NEW site, AskSite(c, site), Shaped(c)
  PROVE  Carried'
BY DEF AskSite, Asking, Authorised, NoCall, Carried, Shaped

LEMMA FailsCarried == Carried /\ Fails => Carried'
BY EndsCarried DEF Fails, Carried, Shaped

LEMMA ThrottledCarried ==
  ASSUME Carried, NEW said, Throttled(said)
  PROVE  Carried'
<1>1. CASE call' = [call EXCEPT !.backoff = DelayAfter(@), !.waited = @ + WaitFor(said)]
  BY <1>1 DEF Carried, Shaped
<1>2. CASE \E how : Ends(how)
  BY <1>2, EndsCarried
<1>3. QED
  BY <1>1, <1>2 DEF Throttled

LEMMA RedirectedCarried ==
  ASSUME Carried, NEW site, Redirected(site)
  PROVE  Carried'
<1>1. CASE call' = Follow(site)
  BY <1>1 DEF Carried, Follow, Asking, Shaped
<1>2. CASE Ends("failed")
  BY <1>2, EndsCarried
<1>3. QED
  BY <1>1, <1>2 DEF Redirected

LEMMA PageCarried ==
  ASSUME Carried,
         \/ \E t \in Token : SearchPage(t)
         \/ OffsetPage
         \/ \E s \in Site : CursorPage(s)
  PROVE  Carried'
<1>1. CASE Ends("failed")
  BY <1>1, EndsCarried
<1>2. CASE \E site : AskSite(NextPage, site)
  <2>1. PICK site : AskSite(NextPage, site)
    BY <1>2
  <2>2. Shaped(NextPage)
    BY ExceptShaped DEF Carried, NextPage
  <2>3. QED
    BY <2>1, <2>2, AskSiteCarried
<1>3. CASE \E t \in Token : AskSite([NextPage EXCEPT !.seen = @ \cup {t}], Home)
  <2>1. PICK t \in Token : AskSite([NextPage EXCEPT !.seen = @ \cup {t}], Home)
    BY <1>3
  <2>2. Shaped([NextPage EXCEPT !.seen = @ \cup {t}])
    <3>1. Shaped(NextPage)
      BY ExceptShaped DEF Carried, NextPage
    <3>2. QED
      BY <3>1, ExceptShaped
  <2>3. QED
    BY <2>1, <2>2, AskSiteCarried
<1>4. QED
  BY <1>1, <1>2, <1>3 DEF SearchPage, OffsetPage, CursorPage

LEMMA CarriedStep == Carried /\ [HttpNext]_call => Carried'
<1> SUFFICES ASSUME Carried, [HttpNext]_call PROVE Carried'
  OBVIOUS
<1>1. CASE UNCHANGED call
  BY <1>1 DEF Carried, Shaped
<1>2. CASE Fails
  BY <1>2, FailsCarried
<1>3. CASE \E s \in RetryAfter : Throttled(s)
  BY <1>3, ThrottledCarried
<1>4. CASE \/ \E h \in {"credential", "denied", "failed"} : Refused(h)
           \/ Responded \/ WalkEnds \/ ReaderStops
  BY <1>4, EndsCarried DEF Refused, Responded, WalkEnds, ReaderStops
<1>5. CASE \E s \in Site : Redirected(s)
  BY <1>5, RedirectedCarried
<1>6. CASE OffsetPage \/ (\E t \in Token : SearchPage(t)) \/ \E s \in Site : CursorPage(s)
  BY <1>6, PageCarried
<1>7. CASE \E k \in CallKind, s \in Site : Call(k, s)
  <2>1. PICK k \in CallKind, s \in Site : AskSite([NoCall EXCEPT !.kind = k], s)
    BY <1>7 DEF Call
  <2>2. Shaped([NoCall EXCEPT !.kind = k])
    <3>1. Shaped(NoCall)
      BY DEF NoCall, Shaped
    <3>2. QED
      BY <3>1, ExceptShaped
  <2>3. QED
    BY <2>1, <2>2, AskSiteCarried
<1>8. QED
  BY <1>1, <1>2, <1>3, <1>4, <1>5, <1>6, <1>7 DEF HttpNext, Reply

\* The source's credential is never sent to another site, however many redirects and
\* pages a server strings together (_headers, _require_same_origin, get_bytes).
THEOREM CredentialAtHome == HttpSpec => []CredentialStaysHome
<1>1. Carried => CredentialStaysHome
  BY DEF Carried, CredentialStaysHome
<1>2. QED
  BY <1>1, CarriedInit, CarriedStep, PTL DEF HttpSpec

----------------------------------------------------------------------------
(* What a call may spend. *)

Ended(kind, how) == [NoCall EXCEPT !.kind = kind, !.state = how]
Attempts(kind) == IF kind = "api" THEN ApiTries ELSE SourceTries
CallRecord ==
  [kind : CallKind, site : Site, auth : BOOLEAN, tries : Nat, backoff : Nat \ {0},
   waited : 0..MaxWait, hop : 0..RedirectLimit, page : 0..PageCap, seen : SUBSET Token,
   state : Ending \cup {"going"}]

\* Every budget has something left while the call goes on.
Afford(c) ==
  /\ c \in CallRecord
  /\ c.state = "going" => c.tries < Attempts(c.kind) /\ c.page < PageCap

\* d is further than c: a later page, or on the same page a later hop, or on the same
\* hop an attempt or a wait more.
Further(c, d) ==
  \/ d.page > c.page
  \/ d.page = c.page /\ d.hop > c.hop
  \/ d.page = c.page /\ d.hop = c.hop /\ d.tries + d.waited > c.tries + c.waited

LEMMA DelaysPositive ==
  /\ FirstDelay \in Nat \ {0}
  /\ \A d \in Nat \ {0} : DelayAfter(d) \in Nat \ {0}
BY HttpAssumption DEF FirstDelay, DelayAfter, Smaller

LEMMA NoCallAffords == Afford(NoCall) /\ NoCall.state = "left" /\ NoCall.hop = 0 /\ NoCall.page = 0
<1>1. /\ 0 \in 0..MaxWait /\ 0 \in 0..RedirectLimit /\ 0 \in 0..PageCap /\ 0 \in Nat
      /\ {} \in SUBSET Token /\ FALSE \in BOOLEAN /\ Home \in Site /\ "api" \in CallKind
      /\ "left" \in Ending \cup {"going"} /\ FirstDelay \in Nat \ {0}
  BY HttpAssumption, DelaysPositive DEF Site, CallKind, Ending
<1> HIDE DEF FirstDelay, Site, CallKind, Ending
<1>2. QED
  BY <1>1 DEF NoCall, Afford, CallRecord

LEMMA EndsAffords ==
  ASSUME Afford(call), NEW how \in Ending, Ends(how)
  PROVE  Afford(call') /\ call'.state # "going"
<1>1. call.kind \in CallKind
  BY DEF Afford, CallRecord
<1>2. NoCall \in CallRecord
  BY NoCallAffords DEF Afford
<1>3. how # "going" /\ how \in Ending \cup {"going"}
  BY DEF Ending
<1> HIDE DEF NoCall, CallKind, Ending
<1>4. call' \in CallRecord /\ call'.state = how
  BY <1>1, <1>2, <1>3 DEF Ends, CallRecord
<1>5. QED
  BY <1>3, <1>4 DEF Afford

\* A page, a hop or the first request, asked for with all the budgets anew.
LEMMA AskingAffords ==
  ASSUME NEW c \in CallRecord, c.page < PageCap, NEW site \in Site, NEW auth \in BOOLEAN
  PROVE  /\ Afford(Asking(c, site, auth))
         /\ Asking(c, site, auth).page = c.page /\ Asking(c, site, auth).hop = c.hop
         /\ Asking(c, site, auth).kind = c.kind
<1>1. /\ 0 \in 0..MaxWait /\ 0 \in Nat /\ "going" \in Ending \cup {"going"}
      /\ FirstDelay \in Nat \ {0}
  BY HttpAssumption, DelaysPositive
<1>2. \A k : 0 < Attempts(k)
  BY HttpAssumption DEF Attempts
<1> DEFINE d == Asking(c, site, auth)
<1> HIDE DEF FirstDelay, Site, CallKind, Ending
<1>3. d \in CallRecord /\ d.page = c.page /\ d.hop = c.hop /\ d.tries = 0 /\ d.kind = c.kind
  BY <1>1 DEF Asking, CallRecord
<1>4. QED
  BY <1>2, <1>3 DEF Afford

LEMMA AskSiteAffords ==
  ASSUME NEW c \in CallRecord, c.page < PageCap, NEW site, AskSite(c, site)
  PROVE  /\ Afford(call')
         /\ \/ call'.state # "going"
            \/ call'.page = c.page /\ call'.hop = c.hop
<1>1. CASE site = Home
  <2>1. site \in Site /\ Authorised(site) \in BOOLEAN
    BY <1>1 DEF Site, Authorised
  <2>2. call' = Asking(c, site, Authorised(site))
    BY <1>1 DEF AskSite
  <2>3. QED
    BY <2>1, <2>2, AskingAffords
<1>2. CASE site # Home
  <2>1. c.kind \in CallKind
    BY DEF CallRecord
  <2>2. "failed" \in Ending \cup {"going"} /\ "failed" # "going"
    BY DEF Ending
  <2>3. NoCall \in CallRecord
    BY NoCallAffords DEF Afford
  <2>4. call' = [NoCall EXCEPT !.kind = c.kind, !.state = "failed"]
    BY <1>2 DEF AskSite
  <2> HIDE DEF NoCall, CallKind, Ending
  <2>5. call' \in CallRecord /\ call'.state = "failed"
    BY <2>1, <2>2, <2>3, <2>4 DEF CallRecord
  <2>6. QED
    BY <2>2, <2>5 DEF Afford
<1>3. QED
  BY <1>1, <1>2

\* What a step that answers leaves: budgets, and a call that ended or is further.
Onward == Afford(call') /\ (call'.state = "going" => Further(call, call'))

LEMMA FailsOnward == Afford(call) /\ Fails => Onward
<1> SUFFICES ASSUME Afford(call), Fails PROVE Onward
  OBVIOUS
<1>1. CASE Ends("exhausted")
  BY <1>1, EndsAffords DEF Ending, Onward
<1>2. CASE ~Ends("exhausted")
  <2>1. call.tries + 1 < Attempts(call.kind) /\ call' = [call EXCEPT !.tries = @ + 1]
    BY <1>2 DEF Fails, Tries, Attempts
  <2>2. call.tries \in Nat /\ call.waited \in Nat /\ call \in CallRecord
    BY DEF Afford, CallRecord
  <2> DEFINE t == call.tries + 1
  <2>3. t \in Nat /\ t + call.waited > call.tries + call.waited
    BY <2>2
  <2> HIDE DEF t
  <2>4. call' = [call EXCEPT !.tries = t]
    BY <2>1 DEF t
  <2>5. /\ call' \in CallRecord /\ call'.tries = t /\ call'.kind = call.kind
        /\ call'.page = call.page /\ call'.hop = call.hop /\ call'.waited = call.waited
        /\ call'.state = call.state
    BY <2>2, <2>3, <2>4 DEF CallRecord
  <2>6. t < Attempts(call.kind)
    BY <2>1 DEF t
  <2>7. Further(call, call')
    BY <2>3, <2>5 DEF Further
  <2>8. QED
    BY <2>5, <2>6, <2>7 DEF Onward, Afford
<1>3. QED
  BY <1>1, <1>2

LEMMA ThrottledOnward ==
  ASSUME Afford(call), NEW said \in RetryAfter, Throttled(said)
  PROVE  Onward
<1>1. CASE Ends("failed") \/ Ends("rate_limited")
  BY <1>1, EndsAffords DEF Ending, Onward
<1>2. CASE ~(Ends("failed") \/ Ends("rate_limited"))
  <2> DEFINE w == call.waited + WaitFor(said)
             b == DelayAfter(call.backoff)
  <2>1. ~(w > MaxWait) /\ call' = [call EXCEPT !.backoff = b, !.waited = w]
    BY <1>2 DEF Throttled
  <2>2. /\ call.tries \in Nat /\ call.waited \in 0..MaxWait /\ call.backoff \in Nat \ {0}
        /\ call \in CallRecord
    BY DEF Afford, CallRecord
  <2>3. WaitFor(said) \in Nat \ {0}
    BY <2>2, HttpAssumption DEF WaitFor
  <2>4. w \in 0..MaxWait /\ call.tries + w > call.tries + call.waited
    BY <2>1, <2>2, <2>3, HttpAssumption
  <2>5. b \in Nat \ {0}
    BY <2>2, DelaysPositive
  <2> HIDE DEF w, b
  <2>6. /\ call' \in CallRecord /\ call'.tries = call.tries /\ call'.kind = call.kind
        /\ call'.page = call.page /\ call'.hop = call.hop /\ call'.waited = w
        /\ call'.state = call.state
    BY <2>1, <2>2, <2>4, <2>5 DEF CallRecord
  <2>7. Further(call, call')
    BY <2>4, <2>6 DEF Further
  <2>8. QED
    BY <2>6, <2>7 DEF Onward, Afford
<1>3. QED
  BY <1>1, <1>2

LEMMA RedirectedOnward ==
  ASSUME Afford(call), NEW site \in Site, Redirected(site)
  PROVE  Onward
<1>1. CASE Ends("failed")
  BY <1>1, EndsAffords DEF Ending, Onward
<1>2. CASE ~Ends("failed")
  <2> DEFINE d == Asking(call, site, FALSE)
             n == call.hop + 1
  <2>1. Follow(site).hop <= RedirectLimit /\ call' = [d EXCEPT !.hop = @ + 1] /\ Going
    BY <1>2 DEF Redirected, Follow
  <2>2. call \in CallRecord /\ call.page < PageCap /\ call.page \in Nat /\ call.hop \in Nat
    BY <2>1 DEF Afford, CallRecord, Going
  <2>3. Afford(d) /\ d.page = call.page /\ d.hop = call.hop
    BY <2>2, AskingAffords
  <2> HIDE DEF d
  <2>4. d \in CallRecord
    BY <2>3 DEF Afford
  <2>5. call' = [d EXCEPT !.hop = n]
    BY <2>1, <2>3
  <2>6. call' = Follow(site)
    BY <2>1 DEF Follow, d
  <2>7. call'.hop = n
    BY <2>4, <2>5 DEF CallRecord
  <2>8. n \in 0..RedirectLimit /\ n > call.hop
    BY <2>1, <2>2, <2>6, <2>7, HttpAssumption
  <2> HIDE DEF n
  <2>9. /\ call' \in CallRecord /\ call'.page = d.page /\ call'.state = d.state
        /\ call'.tries = d.tries /\ call'.kind = d.kind
    BY <2>4, <2>5, <2>8 DEF CallRecord
  <2>10. Further(call, call')
    BY <2>3, <2>7, <2>8, <2>9 DEF Further
  <2>11. QED
    BY <2>3, <2>9, <2>10 DEF Onward, Afford
<1>3. QED
  BY <1>1, <1>2

LEMMA NextPageAffords ==
  ASSUME Afford(call), Going, ~LastAllowed
  PROVE  /\ NextPage \in CallRecord /\ NextPage.page < PageCap
         /\ NextPage.page > call.page /\ NextPage.seen = call.seen
<1> DEFINE n == call.page + 1
<1>1. call \in CallRecord /\ call.page < PageCap /\ call.page \in 0..PageCap
  BY DEF Afford, CallRecord, Going
<1>2. n \in 0..PageCap /\ n < PageCap /\ n > call.page
  BY <1>1, HttpAssumption DEF LastAllowed
<1> HIDE DEF n
<1>3. NextPage = [call EXCEPT !.page = n]
  BY DEF NextPage, n
<1>4. NextPage \in CallRecord /\ NextPage.page = n /\ NextPage.seen = call.seen
  BY <1>1, <1>2, <1>3 DEF CallRecord
<1>5. QED
  BY <1>2, <1>4

LEMMA PageOnward ==
  ASSUME Afford(call),
         \/ \E t \in Token : SearchPage(t)
         \/ OffsetPage
         \/ \E s \in Site : CursorPage(s)
  PROVE  Onward
<1>1. CASE Ends("failed")
  BY <1>1, EndsAffords DEF Ending, Onward
<1>2. CASE ~LastAllowed /\ Going /\ \E site : AskSite(NextPage, site)
  <2>1. PICK site : AskSite(NextPage, site)
    BY <1>2
  <2>2. NextPage \in CallRecord /\ NextPage.page < PageCap /\ NextPage.page > call.page
    BY <1>2, NextPageAffords
  <2>3. Afford(call') /\ (call'.state # "going" \/ call'.page = NextPage.page)
    BY <2>1, <2>2, AskSiteAffords
  <2>4. QED
    BY <2>2, <2>3 DEF Onward, Further
<1>3. CASE ~LastAllowed /\ Going /\ \E t \in Token : AskSite([NextPage EXCEPT !.seen = @ \cup {t}], Home)
  <2>1. PICK t \in Token : AskSite([NextPage EXCEPT !.seen = @ \cup {t}], Home)
    BY <1>3
  <2> DEFINE s == call.seen \cup {t}
             c == [NextPage EXCEPT !.seen = s]
  <2>2. NextPage \in CallRecord /\ NextPage.page < PageCap /\ NextPage.page > call.page
        /\ NextPage.seen = call.seen
    BY <1>3, NextPageAffords
  <2>3. AskSite(c, Home)
    BY <2>1, <2>2
  <2>4. s \in SUBSET Token
    BY DEF Afford, CallRecord
  <2> HIDE DEF s
  <2>5. c \in CallRecord /\ c.page = NextPage.page
    BY <2>2, <2>4 DEF CallRecord
  <2> HIDE DEF c
  <2>6. Afford(call') /\ (call'.state # "going" \/ call'.page = c.page)
    BY <2>2, <2>3, <2>5, AskSiteAffords
  <2>7. QED
    BY <2>2, <2>5, <2>6 DEF Onward, Further
<1>4. QED
  BY <1>1, <1>2, <1>3 DEF SearchPage, OffsetPage, CursorPage

LEMMA ReplyOnward == Afford(call) /\ Reply => Onward
<1> SUFFICES ASSUME Afford(call), Reply PROVE Onward
  OBVIOUS
<1>1. CASE Fails
  BY <1>1, FailsOnward
<1>2. CASE \E s \in RetryAfter : Throttled(s)
  BY <1>2, ThrottledOnward
<1>3. CASE \/ \E h \in {"credential", "denied", "failed"} : Refused(h)
           \/ Responded \/ WalkEnds \/ ReaderStops
  <2>1. \E how \in Ending : Ends(how)
    BY <1>3 DEF Refused, Responded, WalkEnds, ReaderStops, Ending
  <2>2. QED
    BY <2>1, EndsAffords DEF Onward
<1>4. CASE \E s \in Site : Redirected(s)
  BY <1>4, RedirectedOnward
<1>5. CASE OffsetPage \/ (\E t \in Token : SearchPage(t)) \/ \E s \in Site : CursorPage(s)
  BY <1>5, PageOnward
<1>6. QED
  BY <1>1, <1>2, <1>3, <1>4, <1>5 DEF Reply

LEMMA AffordStep == Afford(call) /\ [HttpNext]_call => Afford(call)'
<1> SUFFICES ASSUME Afford(call), [HttpNext]_call PROVE Afford(call')
  OBVIOUS
<1>1. CASE UNCHANGED call
  BY <1>1
<1>2. CASE Reply
  BY <1>2, ReplyOnward DEF Onward
<1>3. CASE \E k \in CallKind, s \in Site : Call(k, s)
  <2>1. PICK k \in CallKind, s \in Site : AskSite([NoCall EXCEPT !.kind = k], s)
    BY <1>3 DEF Call
  <2> DEFINE c == [NoCall EXCEPT !.kind = k]
  <2>2. NoCall \in CallRecord /\ NoCall.page < PageCap
    BY NoCallAffords, HttpAssumption DEF Afford
  <2> HIDE DEF NoCall
  <2>3. c \in CallRecord /\ c.page = NoCall.page
    BY <2>2 DEF CallRecord
  <2> HIDE DEF c
  <2>4. AskSite(c, s)
    BY <2>1 DEF c
  <2>5. QED
    BY <2>2, <2>3, <2>4, AskSiteAffords
<1>4. QED
  BY <1>1, <1>2, <1>3 DEF HttpNext

LEMMA AffordTyped == Afford(call) => HttpTypeOK
BY DEF Afford, CallRecord, HttpTypeOK

LEMMA AffordInit == HttpInit => Afford(call)
BY NoCallAffords DEF HttpInit

\* A call keeps within its budgets: the waits add up to max_wait_seconds at most, and
\* hops and pages stay within MAX_REDIRECTS and MAX_PAGES (_stream, get_bytes, paginate).
THEOREM HttpTyped == HttpSpec => []HttpTypeOK
BY AffordInit, AffordStep, AffordTyped, PTL DEF HttpSpec

\* Every answer ends the call or takes it further, within budgets that are not spent:
\* no run of failures, throttles, redirects and pages is endless (_stream, get_bytes,
\* search, paginate).
THEOREM AnswersLeadOn ==
  HttpSpec =>
    /\ []Afford(call)
    /\ [][Going /\ call'.state = "going" => Further(call, call')]_call
<1>1. Afford(call) /\ [HttpNext]_call => [Going /\ call'.state = "going" => Further(call, call')]_call
  <2> SUFFICES ASSUME Afford(call), HttpNext, Going, call'.state = "going"
               PROVE  Further(call, call')
    OBVIOUS
  <2>1. Reply
    BY DEF HttpNext, Call
  <2>2. QED
    BY <2>1, ReplyOnward DEF Onward
<1>2. QED
  BY <1>1, AffordInit, AffordStep, PTL DEF HttpSpec

----------------------------------------------------------------------------
(* Share. *)

HIDE ConstantTypes

----------------------------------------------------------------------------
(* Paths, place by place. *)

\* d leads to p: p is d or lies below it.
Leads(d, p) == Len(d) <= Len(p) /\ \A k \in 1..Len(d) : d[k] = p[k]

\* a and all below it come before b and all below it.
Apart(a, b) ==
  \E n \in Nat : /\ n \in 1..Len(a) /\ n \in 1..Len(b) /\ a[n] < b[n]
                 /\ \A k \in 1..(n - 1) : a[k] = b[k]

LEMMA PathTypes ==
  ASSUME NEW p \in Spot \cup {Root}
  PROVE  /\ p \in Seq(Nat) /\ Len(p) \in Nat
         /\ \A k \in 1..Len(p) : p[k] \in Nat
<1>1. <<>> \in Seq(Nat)
  OBVIOUS
<1>2. p \in Seq(Nat)
  BY <1>1, ShareAssumption DEF Root
<1>3. QED
  BY <1>2

LEMMA RootLeads ==
  ASSUME NEW p \in Spot
  PROVE  Leads(Root, p) /\ Len(Root) = 0 /\ Len(p) > 0
<1>1. p \in Seq(Nat) /\ p # <<>>
  BY ShareAssumption DEF Root
<1>2. Len(p) \in Nat \ {0}
  BY <1>1
<1>3. QED
  BY <1>2 DEF Leads, Root

\* The start of a path.
LEMMA StartOf ==
  ASSUME NEW p \in Seq(Nat), NEW n \in Nat, n <= Len(p)
  PROVE  /\ SubSeq(p, 1, n) \in Seq(Nat) /\ Len(SubSeq(p, 1, n)) = n
         /\ \A k \in 1..n : SubSeq(p, 1, n)[k] = p[k]
<1>1. \A k \in 1..n : p[k] \in Nat
  OBVIOUS
<1>2. /\ SubSeq(p, 1, n) \in Seq(Nat)
      /\ Len(SubSeq(p, 1, n)) = IF 1 <= n THEN n - 1 + 1 ELSE 0
      /\ \A k \in 1..(n - 1 + 1) : SubSeq(p, 1, n)[k] = p[1 + k - 1]
  BY <1>1, SubSeqProperties
<1>3. QED
  BY <1>2

LEMMA PrefixLeads ==
  ASSUME NEW p \in Seq(Nat), NEW q \in Seq(Nat), IsPrefix(p, q)
  PROVE  Leads(p, q)
<1>1. Len(p) <= Len(q) /\ SubSeq(p, 1, Len(p)) = SubSeq(q, 1, Len(p)) /\ Len(p) \in Nat
  BY DEF IsPrefix
<1>2. \A k \in 1..Len(p) : SubSeq(p, 1, Len(p))[k] = p[k] /\ SubSeq(q, 1, Len(p))[k] = q[k]
  BY <1>1, StartOf
<1>3. QED
  BY <1>1, <1>2 DEF Leads

\* UpTo is at most the order of the walk: what comes apart after q is not up to it.
LEMMA ApartNotUpTo ==
  ASSUME NEW p \in Seq(Nat), NEW b \in Seq(Nat), NEW q \in Seq(Nat),
         Apart(q, b), Leads(b, p)
  PROVE  ~UpTo(p, q)
<1>1. PICK n \in Nat : /\ n \in 1..Len(q) /\ n \in 1..Len(b) /\ q[n] < b[n]
                       /\ \A k \in 1..(n - 1) : q[k] = b[k]
  BY DEF Apart
<1>2. /\ n \in 1..Len(p) /\ p[n] = b[n] /\ \A k \in 1..(n - 1) : p[k] = q[k]
      /\ q[n] < p[n] /\ q[n] \in Nat /\ p[n] \in Nat /\ p[n] # q[n]
      /\ Len(p) \in Nat /\ Len(q) \in Nat
  <2>1. Len(p) \in Nat /\ Len(q) \in Nat /\ Len(b) \in Nat /\ Len(b) <= Len(p)
    BY DEF Leads
  <2>2. n \in 1..Len(p) /\ p[n] = b[n] /\ q[n] < p[n]
    BY <1>1, <2>1 DEF Leads
  <2>3. \A k \in 1..(n - 1) : k \in 1..Len(b) /\ b[k] = q[k]
    BY <1>1, <2>1, SMTT(30)
  <2>4. \A k \in 1..(n - 1) : p[k] = q[k]
    BY <2>3 DEF Leads
  <2>5. q[n] \in Nat /\ p[n] \in Nat
    BY <1>1, <2>2, SMTT(30)
  <2>6. p[n] # q[n]
    BY <2>2, <2>5
  <2>7. QED
    BY <2>1, <2>2, <2>4, <2>5, <2>6
<1>3. ~IsPrefix(p, q)
  BY <1>2, PrefixLeads DEF Leads
<1>4. ASSUME NEW m \in 1..Segments(p, q), p[m] < q[m],
             SubSeq(p, 1, m - 1) = SubSeq(q, 1, m - 1)
      PROVE  FALSE
  <2>1. m \in 1..Len(p) /\ m \in 1..Len(q)
    <3>1. CASE Len(p) < Len(q)
      BY <1>2, <3>1 DEF Segments
    <3>2. CASE ~(Len(p) < Len(q))
      BY <1>2, <3>2 DEF Segments
    <3>3. QED
      BY <3>1, <3>2
  <2>2. m - 1 \in Nat /\ m - 1 <= Len(p) /\ m - 1 <= Len(q)
    BY <1>2, <2>1, SMTT(30)
  <2>3. \A k \in 1..(m - 1) : p[k] = q[k]
    BY <1>4, <2>2, StartOf
  <2>4. CASE m < n
    BY <1>2, <1>4, <2>1, <2>4
  <2>5. CASE m = n
    BY <1>2, <1>4, <2>5
  <2>6. CASE n < m
    <3>1. n \in 1..(m - 1)
      BY <1>1, <2>1, <2>6
    <3>2. QED
      BY <3>1, <2>3, <1>2
  <2>7. QED
    BY <2>1, <2>4, <2>5, <2>6
<1>5. QED
  BY <1>3, <1>4 DEF UpTo

LEMMA ApartBelow ==
  ASSUME NEW a \in Seq(Nat), NEW b \in Seq(Nat), NEW c \in Seq(Nat), Apart(a, b), Leads(a, c)
  PROVE  Apart(c, b)
<1>1. PICK n \in Nat : /\ n \in 1..Len(a) /\ n \in 1..Len(b) /\ a[n] < b[n]
                       /\ \A k \in 1..(n - 1) : a[k] = b[k]
  BY DEF Apart
<1>2. Len(a) \in Nat /\ Len(c) \in Nat
  OBVIOUS
<1>3. n \in 1..Len(c) /\ c[n] < b[n] /\ \A k \in 1..(n - 1) : c[k] = b[k]
  BY <1>1, <1>2 DEF Leads
<1>4. QED
  BY <1>1, <1>3 DEF Apart

\* What leads to a path below one of two that are apart does not lead to the other.
LEMMA ApartNotBelow ==
  ASSUME NEW a \in Seq(Nat), NEW b \in Seq(Nat), NEW c \in Seq(Nat), Apart(a, b),
         Leads(a, c) /\ Leads(b, c)
  PROVE  FALSE
<1>1. PICK n \in Nat : n \in 1..Len(a) /\ n \in 1..Len(b) /\ a[n] < b[n]
  BY DEF Apart
<1>2. a[n] = b[n] /\ a[n] \in Nat
  BY <1>1 DEF Leads
<1>3. QED
  BY <1>1, <1>2

\* Siblings: the entries of one directory.
LEMMA ChildShape ==
  ASSUME NEW d \in Spot \cup {Root}, NEW c \in InDirectory(d)
  PROVE  c \in Spot /\ Leads(d, c) /\ Len(c) = Len(d) + 1 /\ Last(c) = c[Len(c)]
<1>1. c \in Spot /\ Len(c) = Len(d) + 1 /\ SubSeq(c, 1, Len(c) - 1) = d
  BY DEF InDirectory, Front
<1>2. c \in Seq(Nat) /\ Len(d) \in Nat /\ Len(c) - 1 = Len(d)
  BY <1>1, PathTypes
<1>3. \A k \in 1..Len(d) : SubSeq(c, 1, Len(d))[k] = c[k]
  BY <1>1, <1>2, StartOf
<1>4. QED
  BY <1>1, <1>2, <1>3 DEF Leads, Last

LEMMA SiblingsApart ==
  ASSUME NEW d \in Spot \cup {Root}, NEW b \in InDirectory(d), NEW c \in InDirectory(d),
         Last(b) < Last(c)
  PROVE  Apart(b, c) /\ b # c
<1>1. /\ Leads(d, b) /\ Leads(d, c) /\ Len(b) = Len(d) + 1 /\ Len(c) = Len(d) + 1
      /\ Last(b) = b[Len(d) + 1] /\ Last(c) = c[Len(d) + 1] /\ b \in Spot /\ c \in Spot
  BY ChildShape
<1>2. Len(d) \in Nat /\ b[Len(d) + 1] \in Nat /\ c[Len(d) + 1] \in Nat
  BY <1>1, PathTypes
<1>3. \A k \in 1..Len(d) : b[k] = c[k]
  BY <1>1 DEF Leads
<1>4. b[Len(d) + 1] < c[Len(d) + 1]
  BY <1>1
<1> DEFINE n == Len(d) + 1
<1>5. n \in Nat /\ n \in 1..Len(b) /\ n \in 1..Len(c) /\ n - 1 = Len(d)
  BY <1>1, <1>2
<1> HIDE DEF n
<1>6. Apart(b, c)
  BY <1>3, <1>4, <1>5 DEF Apart, n
<1>7. QED
  BY <1>2, <1>4, <1>6

\* The entry of a directory that leads to a path below it.
LEMMA ChildTowards ==
  ASSUME NEW d \in Spot \cup {Root}, NEW p \in Spot, Leads(d, p), d # p
  PROVE  \E c \in InDirectory(d) : Leads(c, p) /\ c = SubSeq(p, 1, Len(d) + 1)
<1>1. /\ d \in Seq(Nat) /\ p \in Seq(Nat) /\ Len(d) \in Nat /\ Len(p) \in Nat
      /\ Len(d) <= Len(p) /\ \A k \in 1..Len(d) : d[k] = p[k]
  BY PathTypes DEF Leads
<1>2. Len(d) # Len(p)
  <2> SUFFICES ASSUME Len(d) = Len(p) PROVE FALSE
    OBVIOUS
  <2>1. d = p
    BY <1>1, SeqEqual
  <2>2. QED
    BY <2>1
<1> DEFINE n == Len(d) + 1
           c == SubSeq(p, 1, n)
<1>3. n \in Nat /\ n \in 1..Len(p) /\ n <= Len(p) /\ n - 1 = Len(d)
  BY <1>1, <1>2
<1>4. c \in Spot
  BY <1>3, ShareAssumption
<1>5. Len(c) = n /\ c \in Seq(Nat) /\ \A k \in 1..n : c[k] = p[k]
  <2> HIDE DEF n
  <2> QED BY <1>1, <1>3, StartOf
<1> HIDE DEF c
<1>6. SubSeq(c, 1, Len(d)) = d
  <2>1. /\ SubSeq(c, 1, Len(d)) \in Seq(Nat) /\ Len(SubSeq(c, 1, Len(d))) = Len(d)
        /\ \A k \in 1..Len(d) : SubSeq(c, 1, Len(d))[k] = c[k]
    BY <1>1, <1>3, <1>5, StartOf
  <2>2. \A k \in 1..Len(d) : SubSeq(c, 1, Len(d))[k] = d[k]
    <3>1. \A k \in 1..Len(d) : k \in 1..n
      BY <1>1, <1>3
    <3> HIDE DEF n
    <3>2. QED
      BY <1>1, <1>5, <2>1, <3>1
  <2>3. QED
    BY <1>1, <2>1, <2>2, SeqEqual
<1>7. Front(c) = d
  BY <1>3, <1>5, <1>6 DEF Front
<1>8. c \in InDirectory(d)
  BY <1>4, <1>5, <1>7 DEF InDirectory
<1>9. Leads(c, p)
  BY <1>3, <1>5 DEF Leads
<1>10. QED
  BY <1>8, <1>9 DEF c

----------------------------------------------------------------------------
(* The inductive invariant. *)

StackEntry == [path : Spot \cup {Root}, dir : {TRUE}, depth : Nat]
              \cup [path : Spot, dir : {FALSE}, depth : Nat]
Visit == [stack : Seq(StackEntry), seen : SUBSET (Spot \cup {Root}), files : 0..FileCap,
          given : SUBSET Spot, at : Spot \cup {Root}, next : Spot \cup {Root}]

\* The walk the property is about.
Clean == ~gapped /\ ~follows
Covered == stored \cup unscanned \cup visit.given

\* A steady file stays a file reached through directories.
SteadyKept ==
  \A p \in steady : tree[p].kind = "file" /\ Plain(tree, p) /\ Len(p) <= Depths + 1

\* The stack is in the order of the walk, from its top down.
StackOrder ==
  /\ \A i \in DOMAIN visit.stack : visit.stack[i].depth = Len(visit.stack[i].path)
  /\ \A i, j \in DOMAIN visit.stack :
       i < j => Apart(visit.stack[i].path, visit.stack[j].path)

\* Nothing below an entry of the stack has been seen.
SeenAbove ==
  \A i \in DOMAIN visit.stack, s \in visit.seen :
    Leads(visit.stack[i].path, s) => s = visit.stack[i].path

Ahead(e, p) == Leads(e.path, p) /\ (e.dir <=> e.path # p)

\* What the walk has not covered is ahead of it.
StillAhead ==
  task = "walking" =>
    \A p \in steady \ Covered : \E i \in DOMAIN visit.stack : Ahead(visit.stack[i], p)

Behind(q, done) == q # Root => \A p \in steady : UpTo(p, q) => p \in done

CleanInv ==
  Clean => /\ StackOrder /\ SeenAbove /\ StillAhead
           /\ Behind(visit.at, Covered) /\ Behind(visit.next, Covered)
           /\ Behind(resumeAt, stored \cup unscanned)

IdleFresh == task = "idle" => resumeAt = Root

ShareInv == /\ ShareTypeOK /\ visit \in Visit /\ SteadyKept /\ IdleFresh /\ CleanInv
            /\ ResumeSkipsNothing

----------------------------------------------------------------------------
(* Types. *)

ShareTypes == ShareTypeOK /\ visit \in Visit

\* The parts of ShareTypeOK that Visit does not say.
LEMMA TypesAfter ==
  ASSUME tree' \in [Spot -> Entry], follows' \in BOOLEAN, visit' \in Visit,
         resumeAt' \in Spot \cup {Root}, stored' \subseteq Spot, steady' \subseteq Spot,
         unscanned' \subseteq Spot, gapped' \in BOOLEAN, task' \in {"idle", "walking", "over"},
         faults' \in 0..MaxShareFault
  PROVE  ShareTypes'
<1>1. /\ visit'.seen \subseteq Spot \cup {Root} /\ visit'.files \in 0..FileCap
      /\ visit'.given \subseteq Spot /\ visit'.at \in Spot \cup {Root}
      /\ visit'.next \in Spot \cup {Root}
  BY DEF Visit
<1>2. {visit'.at, visit'.next, resumeAt'} \subseteq Spot \cup {Root}
  BY <1>1
<1>3. QED
  BY <1>1, <1>2 DEF ShareTypes, ShareTypeOK, Visit

LEMMA TypeParts ==
  ASSUME ShareTypes
  PROVE  /\ tree \in [Spot -> Entry] /\ follows \in BOOLEAN /\ visit \in Visit
         /\ resumeAt \in Spot \cup {Root} /\ stored \subseteq Spot /\ steady \subseteq Spot
         /\ unscanned \subseteq Spot /\ gapped \in BOOLEAN
         /\ task \in {"idle", "walking", "over"} /\ faults \in 0..MaxShareFault
         /\ visit.stack \in Seq(StackEntry) /\ visit.seen \subseteq Spot \cup {Root}
         /\ visit.files \in 0..FileCap /\ visit.given \subseteq Spot
         /\ visit.at \in Spot \cup {Root} /\ visit.next \in Spot \cup {Root}
<1>1. resumeAt \in Spot \cup {Root}
  BY DEF ShareTypes, ShareTypeOK
<1>2. QED
  BY <1>1 DEF ShareTypes, ShareTypeOK, Visit

LEMMA VisitOf ==
  ASSUME NEW st \in Seq(StackEntry), NEW se, se \subseteq Spot \cup {Root}, NEW fi \in 0..FileCap,
         NEW gi, gi \subseteq Spot, NEW at \in Spot \cup {Root}, NEW ne \in Spot \cup {Root}
  PROVE  [stack |-> st, seen |-> se, files |-> fi, given |-> gi, at |-> at, next |-> ne] \in Visit
BY DEF Visit

FreshStack == <<[path |-> Root, dir |-> TRUE, depth |-> 0]>>
FreshVisit == [NoVisit EXCEPT !.stack = FreshStack, !.seen = {Root}]

LEMMA FreshStackShape ==
  /\ FreshStack \in Seq(StackEntry) /\ Len(FreshStack) = 1 /\ DOMAIN FreshStack = {1}
  /\ FreshStack[1] = [path |-> Root, dir |-> TRUE, depth |-> 0]
<1>1. [path |-> Root, dir |-> TRUE, depth |-> 0] \in StackEntry
  BY DEF StackEntry
<1>2. FreshStack \in Seq(StackEntry) /\ Len(FreshStack) = 1 /\ DOMAIN FreshStack = {1}
  BY <1>1 DEF FreshStack
<1>3. FreshStack[1] = [path |-> Root, dir |-> TRUE, depth |-> 0]
  BY DEF FreshStack
<1>4. QED
  BY <1>2, <1>3

LEMMA FreshShape ==
  /\ NoVisit \in Visit /\ FreshVisit \in Visit
  /\ NoVisit.stack = <<>> /\ NoVisit.given = {} /\ NoVisit.at = Root /\ NoVisit.next = Root
  /\ FreshVisit.stack = FreshStack /\ FreshVisit.seen = {Root} /\ FreshVisit.given = {}
  /\ FreshVisit.at = Root /\ FreshVisit.next = Root
<1>1. {} \subseteq Spot /\ {Root} \subseteq Spot \cup {Root} /\ 0 \in 0..FileCap
      /\ Root \in Spot \cup {Root} /\ <<>> \in Seq(StackEntry) /\ {} \subseteq Spot \cup {Root}
  BY ShareAssumption
<1>2. NoVisit \in Visit
  BY <1>1, VisitOf DEF NoVisit
<1>3. /\ NoVisit.stack = <<>> /\ NoVisit.given = {} /\ NoVisit.at = Root /\ NoVisit.next = Root
  BY DEF NoVisit
<1>4. FreshVisit \in Visit
  BY <1>1, <1>2, FreshStackShape DEF FreshVisit, Visit
<1>5. /\ FreshVisit.stack = FreshStack /\ FreshVisit.seen = {Root}
      /\ FreshVisit.given = NoVisit.given
      /\ FreshVisit.at = NoVisit.at /\ FreshVisit.next = NoVisit.next
  BY <1>2 DEF FreshVisit, Visit
<1>6. QED
  BY <1>2, <1>3, <1>4, <1>5

LEMMA FaultType ==
  ASSUME NEW happens, Fault(happens), faults \in 0..MaxShareFault
  PROVE  faults' \in 0..MaxShareFault
<1>1. MaxShareFault \in Nat
  BY ShareAssumption
<1>2. CASE faults' = faults
  BY <1>2
<1>3. CASE faults' = faults + 1 /\ faults < MaxShareFault
  BY <1>1, <1>3
<1>4. QED
  BY <1>2, <1>3 DEF Fault

LEMMA ShareInitTypes == ShareInit => ShareTypes
<1> SUFFICES ASSUME ShareInit PROVE ShareTypes
  OBVIOUS
<1>1. [kind |-> "none", to |-> Root] \in Entry
  BY DEF Entry
<1>2. tree \in [Spot -> Entry]
  BY <1>1 DEF ShareInit
<1>3. visit \in Visit
  BY FreshShape DEF ShareInit
<1>4. /\ resumeAt \in Spot \cup {Root} /\ stored \subseteq Spot /\ steady \subseteq Spot
      /\ unscanned \subseteq Spot /\ task \in {"idle", "walking", "over"}
      /\ faults \in 0..MaxShareFault
  BY ShareAssumption DEF ShareInit
<1>5. follows \in BOOLEAN /\ gapped \in BOOLEAN
  BY Zenon DEF ShareInit
<1>6. /\ visit.seen \subseteq Spot \cup {Root} /\ visit.files \in 0..FileCap
      /\ visit.given \subseteq Spot
  BY <1>3 DEF Visit
<1>7. {visit.at, visit.next, resumeAt} \subseteq Spot \cup {Root}
  BY <1>3, <1>4 DEF Visit
<1>8. QED
  BY <1>2, <1>3, <1>4, <1>5, <1>6, <1>7 DEF ShareTypes, ShareTypeOK

LEMMA EntryKinds ==
  ASSUME NEW t \in [Spot -> Entry], NEW p \in Spot
  PROVE  /\ t[p] \in Entry /\ t[p].kind \in {"none", "file", "dir", "other", "link"}
         /\ t[p].kind = "link" => t[p].to \in LinkTarget
         /\ t[p].kind # "link" => t[p] = [kind |-> t[p].kind, to |-> Root]
<1>1. t[p] \in Entry
  OBVIOUS
<1>2. QED
  BY <1>1 DEF Entry

LEMMA MountTypes ==
  ASSUME ShareTypes, NEW t \in [Spot -> Entry], NEW links \in BOOLEAN, MountShare(t, links)
  PROVE  ShareTypes'
<1>1. visit' = FreshVisit
  BY DEF MountShare, FreshVisit, FreshStack
<1>2. PlainFiles(t) \subseteq Spot
  BY DEF PlainFiles
<1>3. QED
  BY <1>1, <1>2, TypeParts, FreshShape, TypesAfter DEF MountShare

LEMMA FileChangesTypes ==
  ASSUME ShareTypes, NEW p \in Spot, FileChanges(p)
  PROVE  ShareTypes'
<1> DEFINE k == IF tree[p].kind = "file" THEN "none" ELSE "file"
<1>1. tree[p] = [kind |-> tree[p].kind, to |-> Root]
  BY TypeParts, EntryKinds DEF FileChanges
<1>2. tree' = [tree EXCEPT ![p] = [kind |-> k, to |-> Root]]
  <2>1. tree' = [tree EXCEPT ![p] = [tree[p] EXCEPT !.kind = k]]
    BY Zenon DEF FileChanges
  <2>2. [tree[p] EXCEPT !.kind = k] = [kind |-> k, to |-> Root]
    BY <1>1
  <2>3. QED
    BY <2>1, <2>2
<1>3. [kind |-> k, to |-> Root] \in Entry
  BY DEF Entry
<1>4. tree' \in [Spot -> Entry]
  <2> HIDE DEF k
  <2> QED BY <1>2, <1>3, TypeParts
<1>5. faults' \in 0..MaxShareFault
  BY FaultType, TypeParts DEF FileChanges
<1>6. QED
  BY <1>4, <1>5, TypeParts, TypesAfter DEF FileChanges

LEMMA VisitEta ==
  ASSUME ShareTypes
  PROVE  visit = [stack |-> visit.stack, seen |-> visit.seen, files |-> visit.files,
                  given |-> visit.given, at |-> visit.at, next |-> visit.next]
BY TypeParts DEF Visit

LEMMA RootMissingTypes ==
  ASSUME ShareTypes, RootMissing
  PROVE  ShareTypes' /\ gapped'
<1>1. visit' = [stack |-> <<>>, seen |-> visit.seen, files |-> visit.files,
                given |-> visit.given, at |-> visit.at, next |-> visit.next]
  BY VisitEta DEF RootMissing
<1>2. <<>> \in Seq(StackEntry)
  OBVIOUS
<1>3. visit' \in Visit
  BY <1>1, <1>2, TypeParts, VisitOf
<1>4. faults' \in 0..MaxShareFault
  BY FaultType, TypeParts DEF RootMissing
<1>5. QED
  BY <1>3, <1>4, TypeParts, TypesAfter DEF RootMissing

\* A directory under way: what it is, and what its entries resolve to.
LEMMA TopShape ==
  ASSUME ShareTypes, visit.stack # <<>>
  PROVE  /\ Top \in StackEntry /\ Top = visit.stack[1] /\ 1 \in DOMAIN visit.stack
         /\ Top.path \in Spot \cup {Root} /\ Top.depth \in Nat /\ Top.dir \in BOOLEAN
         /\ ~Top.dir => Top.path \in Spot
         /\ Tail(visit.stack) \in Seq(StackEntry)
         /\ Len(visit.stack) \in Nat /\ DOMAIN visit.stack = 1..Len(visit.stack)
         /\ Len(Tail(visit.stack)) = Len(visit.stack) - 1 /\ Len(visit.stack) > 0
         /\ \A i \in 1..(Len(visit.stack) - 1) : Tail(visit.stack)[i] = visit.stack[i + 1]
<1>1. visit.stack \in Seq(StackEntry)
  BY TypeParts
<1>2. /\ Head(visit.stack) \in StackEntry /\ Tail(visit.stack) \in Seq(StackEntry)
      /\ Len(Tail(visit.stack)) = Len(visit.stack) - 1
      /\ \A i \in 1..Len(Tail(visit.stack)) : Tail(visit.stack)[i] = visit.stack[i + 1]
  BY <1>1, HeadTailProperties
<1>3. /\ Len(visit.stack) \in Nat \ {0} /\ DOMAIN visit.stack = 1..Len(visit.stack)
      /\ Head(visit.stack) = visit.stack[1]
  BY <1>1
<1>4. /\ Top.path \in Spot \cup {Root} /\ Top.depth \in Nat /\ Top.dir \in BOOLEAN
      /\ ~Top.dir => Top.path \in Spot
  BY <1>2 DEF Top, StackEntry
<1>5. QED
  BY <1>2, <1>3, <1>4 DEF Top

LEMMA FollowedShape ==
  ASSUME ShareTypes, NEW c \in Spot, Followed(c)
  PROVE  /\ ResolvedTo(c) \in Spot \cup {Root}
         /\ KindAt(ResolvedTo(c)) # "dir" => ResolvedTo(c) \in Spot
         /\ ~follows => ResolvedTo(c) = c
<1>1. tree[c].kind = "link" => tree[c].to \in LinkTarget
  BY TypeParts, EntryKinds
<1>2. ResolvedTo(c) \in Spot \cup {Root}
  BY <1>1, ShareAssumption DEF Followed, ResolvedTo
<1>3. KindAt(Root) = "dir"
  BY DEF KindAt
<1>4. QED
  BY <1>2, <1>3 DEF Followed, ResolvedTo

LEMMA PushedType ==
  ASSUME ShareTypes, visit.stack # <<>>, NEW items, items \subseteq Spot,
         NEW order \in Sorted(Children(items))
  PROVE  /\ Pushed(order) \in Seq(StackEntry)
         /\ Cardinality(Children(items)) \in Nat
         /\ DOMAIN order = 1..Cardinality(Children(items))
         /\ Len(Pushed(order)) = Cardinality(Children(items))
         /\ \A i \in DOMAIN order :
              /\ order[i] \in Children(items)
              /\ Pushed(order)[i] = [path |-> ResolvedTo(order[i]),
                                     dir |-> KindAt(ResolvedTo(order[i])) = "dir",
                                     depth |-> Top.depth + 1]
<1> DEFINE n == Cardinality(Children(items))
<1>1. n \in Nat
  <2>1. Children(items) \subseteq Spot
    BY DEF Children
  <2>2. IsFiniteSet(Children(items))
    BY <2>1, ShareAssumption, FS_Subset
  <2>3. QED
    BY <2>2, FS_CardinalityType
<1>2. order \in [1..n -> Children(items)]
  BY DEF Sorted
<1>3. ASSUME NEW i \in 1..n
      PROVE  [path |-> ResolvedTo(order[i]), dir |-> KindAt(ResolvedTo(order[i])) = "dir",
              depth |-> Top.depth + 1] \in StackEntry
  <2>1. order[i] \in Spot /\ Followed(order[i])
    BY <1>2, <1>3 DEF Children
  <2>2. /\ ResolvedTo(order[i]) \in Spot \cup {Root}
        /\ KindAt(ResolvedTo(order[i])) # "dir" => ResolvedTo(order[i]) \in Spot
    BY <2>1, FollowedShape
  <2>3. Top.depth + 1 \in Nat
    BY TopShape
  <2>4. QED
    BY <2>2, <2>3 DEF StackEntry
<1> HIDE DEF n
<1>4. DOMAIN order = 1..n /\ \A i \in 1..n : order[i] \in Children(items)
  BY <1>2
<1>5. Pushed(order) \in [1..n -> StackEntry]
  BY <1>3, <1>4 DEF Pushed
<1>6. Pushed(order) \in Seq(StackEntry) /\ Len(Pushed(order)) = n
  BY <1>1, <1>5
<1>7. QED
  BY <1>1, <1>4, <1>6 DEF n, Pushed

\* What walking a directory does, where its entries were taken in this order.
WalkedTo(items, order) ==
  /\ visit'.stack = Pushed(order) \o Tail(visit.stack)
  /\ visit'.seen = visit.seen \cup {ResolvedTo(c) : c \in {e \in Children(items) :
                                                            KindAt(ResolvedTo(e)) = "dir"}}
  /\ visit'.at = visit.next /\ visit'.next = visit.next /\ visit'.given = visit.given

LEMMA WalkDirectoryTypes ==
  ASSUME ShareTypes, NEW items \in SUBSET Spot, WalkDirectory(items)
  PROVE  /\ ShareTypes'
         /\ \E order \in Sorted(Children(items)) : WalkedTo(items, order)
<1>1. PICK order \in Sorted(Children(items)) :
        visit' = [visit EXCEPT !.stack = Pushed(order) \o Tail(visit.stack), !.at = visit.next,
                    !.seen = visit.seen \cup {ResolvedTo(c) : c \in {e \in Children(items) :
                                                                     KindAt(ResolvedTo(e)) = "dir"}}]
  BY DEF WalkDirectory
<1> DEFINE st == Pushed(order) \o Tail(visit.stack)
           se == visit.seen \cup {ResolvedTo(c) : c \in {e \in Children(items) :
                                                         KindAt(ResolvedTo(e)) = "dir"}}
           at == visit.next
<1>2. visit.stack # <<>>
  BY DEF WalkDirectory, Walking
<1>3. st \in Seq(StackEntry)
  <2>1. Pushed(order) \in Seq(StackEntry) /\ Tail(visit.stack) \in Seq(StackEntry)
    BY <1>2, PushedType, TopShape
  <2>2. QED
    BY <2>1, ConcatProperties
<1>4. se \subseteq Spot \cup {Root}
  <2>1. \A c \in Children(items) : ResolvedTo(c) \in Spot \cup {Root}
    BY FollowedShape DEF Children
  <2>2. QED
    BY <2>1, TypeParts
<1>5. visit' = [visit EXCEPT !.stack = st, !.at = at, !.seen = se] /\ at \in Spot \cup {Root}
  BY <1>1, TypeParts
<1> HIDE DEF st, se, at
<1>6. /\ visit' \in Visit /\ visit'.stack = st /\ visit'.at = at /\ visit'.seen = se
      /\ visit'.next = visit.next /\ visit'.given = visit.given
  BY <1>3, <1>4, <1>5, TypeParts DEF Visit
<1>7. gapped' \in BOOLEAN
  BY DEF WalkDirectory
<1>8. ShareTypes'
  BY <1>6, <1>7, TypeParts, TypesAfter DEF WalkDirectory
<1>9. WalkedTo(items, order)
  BY <1>6 DEF WalkedTo, st, se, at
<1>10. QED
  BY <1>8, <1>9

LEMMA WalkPastTypes ==
  ASSUME ShareTypes, NEW deep \in BOOLEAN, WalkPastDirectory(deep)
  PROVE  /\ ShareTypes'
         /\ visit'.stack = Tail(visit.stack) /\ visit'.seen = visit.seen
         /\ visit'.at = visit.next /\ visit'.next = visit.next /\ visit'.given = visit.given
<1>1. visit.stack # <<>> /\ visit' = [visit EXCEPT !.stack = Tail(visit.stack), !.at = visit.next]
  BY DEF WalkPastDirectory, Walking
<1>2. Tail(visit.stack) \in Seq(StackEntry) /\ visit.next \in Spot \cup {Root} /\ visit \in Visit
  BY <1>1, TopShape, TypeParts
<1>3. /\ visit' \in Visit /\ visit'.stack = Tail(visit.stack) /\ visit'.at = visit.next
      /\ visit'.seen = visit.seen /\ visit'.next = visit.next /\ visit'.given = visit.given
  <2> DEFINE st == Tail(visit.stack)
             at == visit.next
  <2>1. /\ visit' = [visit EXCEPT !.stack = st, !.at = at]
        /\ st \in Seq(StackEntry) /\ at \in Spot \cup {Root}
    BY <1>1, <1>2
  <2> HIDE DEF st, at
  <2>2. /\ visit' \in Visit /\ visit'.stack = st /\ visit'.at = at /\ visit'.seen = visit.seen
        /\ visit'.next = visit.next /\ visit'.given = visit.given
    BY <1>2, <2>1 DEF Visit
  <2>3. QED
    BY <2>2 DEF st, at
<1>4. faults' \in 0..MaxShareFault
  BY FaultType, TypeParts DEF WalkPastDirectory
<1>5. gapped' \in BOOLEAN
  BY DEF WalkPastDirectory
<1>6. QED
  BY <1>3, <1>4, <1>5, TypeParts, TypesAfter DEF WalkPastDirectory

\* The visit after a file: Past, and what reading it adds.
Past == [visit EXCEPT !.stack = Tail(visit.stack), !.files = visit.files + 1, !.at = visit.next]

LEMMA PastShape ==
  ASSUME ShareTypes, visit.stack # <<>>, visit.files # FileCap
  PROVE  /\ Past \in Visit /\ Past.stack = Tail(visit.stack) /\ Past.seen = visit.seen
         /\ Past.at = visit.next /\ Past.next = visit.next /\ Past.given = visit.given
<1>1. visit.files + 1 \in 0..FileCap
  BY TypeParts, ShareAssumption
<1>2. Tail(visit.stack) \in Seq(StackEntry) /\ visit.next \in Spot \cup {Root} /\ visit \in Visit
  BY TopShape, TypeParts
<1> DEFINE f == visit.files + 1
           st == Tail(visit.stack)
           at == visit.next
<1>3. Past = [visit EXCEPT !.stack = st, !.files = f, !.at = at]
  BY DEF Past
<1>4. f \in 0..FileCap /\ st \in Seq(StackEntry) /\ at \in Spot \cup {Root}
  BY <1>1, <1>2
<1> HIDE DEF f, st, at
<1>5. /\ Past \in Visit /\ Past.stack = st /\ Past.seen = visit.seen
      /\ Past.at = at /\ Past.next = visit.next /\ Past.given = visit.given
  BY <1>2, <1>3, <1>4 DEF Visit
<1>6. QED
  BY <1>5 DEF st, at

\* How WalkFile ends.
FileCapped == gapped' /\ visit'.stack = <<>> /\ unscanned' = unscanned
FileHandedOver ==
  /\ HandedOver(Top.path) /\ gapped' = gapped /\ unscanned' = unscanned
  /\ visit'.stack = Tail(visit.stack) /\ visit'.seen = visit.seen
  /\ visit'.at = visit.next /\ visit'.next = visit.next /\ visit'.given = visit.given
FileReadAs(reading) ==
  /\ gapped' = (gapped \/ Failing(reading))
  /\ unscanned' = IF reading = "extracted" \/ Failing(reading) THEN unscanned
                  ELSE unscanned \cup {Top.path}
  /\ visit'.given = IF reading = "extracted" THEN visit.given \cup {Top.path} ELSE visit.given
  /\ visit'.stack = Tail(visit.stack) /\ visit'.seen = visit.seen
  /\ visit'.at = (IF reading = "extracted" THEN visit.next ELSE Top.path)
  /\ visit'.next = Top.path

LEMMA WalkFileTypes ==
  ASSUME ShareTypes, NEW r \in Reading, WalkFile(r)
  PROVE  /\ ShareTypes'
         /\ FileCapped \/ FileHandedOver \/ FileReadAs(r)
<1>1. visit.stack # <<>> /\ ~Top.dir /\ UNCHANGED <<tree, follows, resumeAt, stored, steady, task>>
  BY DEF WalkFile, Walking, Top
<1>2. Top.path \in Spot
  BY <1>1, TopShape
<1>3. CASE visit.files = FileCap
  <2>1. visit' = [visit EXCEPT !.stack = <<>>] /\ gapped' = TRUE /\ UNCHANGED <<unscanned, faults>>
    BY <1>3 DEF WalkFile
  <2>2. visit' \in Visit /\ visit'.stack = <<>>
    <3>1. <<>> \in Seq(StackEntry)
      OBVIOUS
    <3>2. QED
      BY <2>1, <3>1, TypeParts DEF Visit
  <2>3. ShareTypes'
    BY <1>1, <2>1, <2>2, TypeParts, TypesAfter
  <2>4. QED
    BY <2>1, <2>2, <2>3 DEF FileCapped
<1>4. CASE visit.files # FileCap /\ HandedOver(Top.path)
  <2>1. visit' = Past /\ UNCHANGED <<unscanned, gapped, faults>>
    BY <1>4 DEF WalkFile, Past
  <2>2. /\ visit' \in Visit /\ visit'.stack = Tail(visit.stack) /\ visit'.seen = visit.seen
        /\ visit'.at = visit.next /\ visit'.next = visit.next /\ visit'.given = visit.given
    BY <1>1, <1>4, <2>1, PastShape
  <2>3. ShareTypes'
    BY <1>1, <2>1, <2>2, TypeParts, TypesAfter
  <2>4. QED
    BY <1>4, <2>1, <2>2, <2>3 DEF FileHandedOver
<1>5. CASE visit.files # FileCap /\ ~HandedOver(Top.path)
  <2> DEFINE gi == IF r = "extracted" THEN visit.given \cup {Top.path} ELSE visit.given
             at == IF r = "extracted" THEN visit.next ELSE Top.path
             key == Top.path
  <2>1. /\ visit' = [Past EXCEPT !.given = IF r = "extracted" THEN Past.given \cup {Top.path} ELSE Past.given,
                                 !.at = IF r = "extracted" THEN Past.at ELSE Top.path,
                                 !.next = Top.path]
        /\ gapped' = (gapped \/ Failing(r))
        /\ unscanned' = IF r = "extracted" \/ Failing(r) THEN unscanned ELSE unscanned \cup {Top.path}
        /\ Fault(Failing(r) /\ KindAt(Top.path) = "file")
    BY <1>5 DEF WalkFile, Past
  <2>2. /\ Past \in Visit /\ Past.stack = Tail(visit.stack) /\ Past.seen = visit.seen
        /\ Past.at = visit.next /\ Past.next = visit.next /\ Past.given = visit.given
    BY <1>1, <1>5, PastShape
  <2>3. gi \subseteq Spot /\ at \in Spot \cup {Root}
    BY <1>2, TypeParts
  <2>4. visit' = [Past EXCEPT !.given = gi, !.at = at, !.next = key] /\ key \in Spot
    BY <1>2, <2>1, <2>2
  <2> HIDE DEF gi, at, key
  <2>5. /\ visit' \in Visit /\ visit'.stack = Past.stack /\ visit'.seen = Past.seen
        /\ visit'.given = gi /\ visit'.at = at /\ visit'.next = key
    BY <2>2, <2>3, <2>4 DEF Visit
  <2>6. faults' \in 0..MaxShareFault
    BY <2>1, FaultType, TypeParts
  <2>7. unscanned' \subseteq Spot /\ gapped' \in BOOLEAN
    BY <1>2, <2>1, TypeParts
  <2>8. ShareTypes'
    BY <1>1, <2>5, <2>6, <2>7, TypeParts, TypesAfter
  <2>9. FileReadAs(r)
    BY <2>1, <2>2, <2>5 DEF FileReadAs, gi, at, key
  <2>10. QED
    BY <2>8, <2>9
<1>6. QED
  BY <1>3, <1>4, <1>5

LEMMA RunnerTypes ==
  ASSUME ShareTypes, ShareBatch \/ AttemptDies \/ ShareRead
  PROVE  ShareTypes'
<1>1. CASE ShareBatch
  <2>1. stored' \subseteq Spot /\ resumeAt' \in Spot \cup {Root}
    BY <1>1, TypeParts DEF ShareBatch
  <2>2. QED
    BY <1>1, <2>1, TypeParts, TypesAfter DEF ShareBatch
<1>2. CASE AttemptDies
  <2>1. visit' = FreshVisit
    BY <1>2 DEF AttemptDies, FreshVisit, FreshStack
  <2>2. faults' \in 0..MaxShareFault
    BY <1>2, FaultType, TypeParts DEF AttemptDies
  <2>3. QED
    BY <1>2, <2>1, <2>2, TypeParts, TypesAfter, FreshShape DEF AttemptDies
<1>3. CASE ShareRead
  <2>1. stored' \subseteq Spot /\ visit' \in Visit
    BY <1>3, TypeParts, FreshShape DEF ShareRead
  <2>2. QED
    BY <1>3, <2>1, TypeParts, TypesAfter DEF ShareRead
<1>4. QED
  BY <1>1, <1>2, <1>3

----------------------------------------------------------------------------
(* The stack: a pop, and a directory replaced by its entries. *)

LEMMA PopShape ==
  ASSUME ShareTypes, visit.stack # <<>>, visit'.stack = Tail(visit.stack)
  PROVE  /\ \A i \in DOMAIN visit'.stack : i \in Nat /\ i + 1 \in DOMAIN visit.stack
                                           /\ visit'.stack[i] = visit.stack[i + 1]
         /\ \A i \in DOMAIN visit.stack : i \in Nat /\ (i # 1 =>
                                           i - 1 \in DOMAIN visit'.stack
                                           /\ visit'.stack[i - 1] = visit.stack[i])
<1> DEFINE n == Len(visit.stack)
<1>1. /\ n \in Nat /\ n > 0 /\ DOMAIN visit.stack = 1..n /\ Tail(visit.stack) \in Seq(StackEntry)
      /\ Len(Tail(visit.stack)) = n - 1
      /\ \A i \in 1..(n - 1) : Tail(visit.stack)[i] = visit.stack[i + 1]
  BY TopShape
<1>2. DOMAIN Tail(visit.stack) = 1..(n - 1)
  BY <1>1
<1> HIDE DEF n
<1>3. \A i \in 1..(n - 1) : i \in Nat /\ i + 1 \in 1..n
  BY <1>1
<1>4. \A i \in 1..n : i \in Nat /\ (i # 1 => i - 1 \in 1..(n - 1) /\ (i - 1) + 1 = i)
  BY <1>1
<1>5. \A i \in 1..n : i # 1 => Tail(visit.stack)[i - 1] = visit.stack[i]
  <2> SUFFICES ASSUME NEW i \in 1..n, i # 1 PROVE Tail(visit.stack)[i - 1] = visit.stack[i]
    OBVIOUS
  <2>1. Tail(visit.stack)[i - 1] = visit.stack[(i - 1) + 1]
    BY <1>1, <1>4
  <2>2. QED
    BY <2>1, <1>4
<1>6. QED
  BY <1>1, <1>2, <1>3, <1>4, <1>5

\* A pop leaves the order.
LEMMA PopOrder ==
  ASSUME ShareTypes, visit.stack # <<>>, visit'.stack = Tail(visit.stack),
         visit'.seen = visit.seen, StackOrder, SeenAbove
  PROVE  StackOrder' /\ SeenAbove'
<1>1. \A i \in DOMAIN visit'.stack : i \in Nat /\ i + 1 \in DOMAIN visit.stack
                                     /\ visit'.stack[i] = visit.stack[i + 1]
  BY PopShape
<1>2. \A i, j \in DOMAIN visit'.stack : i < j => i + 1 < j + 1
  BY <1>1
<1>3. StackOrder'
  BY <1>1, <1>2 DEF StackOrder
<1>4. SeenAbove'
  BY <1>1 DEF SeenAbove
<1>5. QED
  BY <1>3, <1>4

LEMMA PushShape ==
  ASSUME ShareTypes, visit.stack # <<>>, NEW items, items \subseteq Spot,
         NEW order \in Sorted(Children(items)),
         visit'.stack = Pushed(order) \o Tail(visit.stack)
  PROVE  /\ \A i \in DOMAIN visit'.stack :
              /\ i \in Nat
              /\ \/ /\ i \in DOMAIN order /\ visit'.stack[i] = Pushed(order)[i]
                 \/ /\ i > Len(Pushed(order)) /\ i - Len(Pushed(order)) + 1 \in DOMAIN visit.stack
                    /\ i - Len(Pushed(order)) + 1 # 1
                    /\ visit'.stack[i] = visit.stack[i - Len(Pushed(order)) + 1]
         /\ \A i \in DOMAIN order : i \in DOMAIN visit'.stack /\ visit'.stack[i] = Pushed(order)[i]
         /\ \A j \in DOMAIN visit.stack : j # 1 =>
              \E i \in DOMAIN visit'.stack : visit'.stack[i] = visit.stack[j]
<1> DEFINE n == Len(visit.stack)
           m == Len(Pushed(order))
           st == Pushed(order) \o Tail(visit.stack)
<1>1. /\ n \in Nat /\ n > 0 /\ DOMAIN visit.stack = 1..n /\ Tail(visit.stack) \in Seq(StackEntry)
      /\ Len(Tail(visit.stack)) = n - 1
      /\ \A i \in 1..(n - 1) : Tail(visit.stack)[i] = visit.stack[i + 1]
  BY TopShape
<1>2. /\ m \in Nat /\ DOMAIN order = 1..m /\ Pushed(order) \in Seq(StackEntry)
  BY PushedType
<1>3. /\ st \in Seq(StackEntry) /\ Len(st) = m + (n - 1)
      /\ \A i \in 1..(m + (n - 1)) : st[i] = IF i <= m THEN Pushed(order)[i]
                                             ELSE Tail(visit.stack)[i - m]
  BY <1>1, <1>2, ConcatProperties
<1>4. DOMAIN st = 1..(m + (n - 1))
  BY <1>3
<1> HIDE DEF n, m, st
<1>5. ASSUME NEW i \in 1..(m + (n - 1)), i > m
      PROVE  i - m + 1 \in 1..n /\ i - m + 1 # 1 /\ st[i] = visit.stack[i - m + 1]
  <2>1. i - m \in 1..(n - 1) /\ ~(i <= m) /\ i - m + 1 \in 1..n /\ i - m + 1 # 1
    BY <1>1, <1>2, <1>5
  <2>2. st[i] = Tail(visit.stack)[i - m]
    BY <1>3, <2>1
  <2>3. QED
    BY <1>1, <2>1, <2>2
<1>6. \A i \in 1..m : i \in 1..(m + (n - 1)) /\ st[i] = Pushed(order)[i]
  BY <1>1, <1>2, <1>3
<1>7. ASSUME NEW j \in 1..n, j # 1
      PROVE  \E i \in 1..(m + (n - 1)) : st[i] = visit.stack[j]
  <2> DEFINE i == m + (j - 1)
  <2>1. i \in 1..(m + (n - 1)) /\ i > m /\ i - m + 1 = j
    BY <1>1, <1>2, <1>7
  <2> HIDE DEF i
  <2>2. st[i] = visit.stack[j]
    BY <2>1, <1>5
  <2>3. QED
    BY <2>1, <2>2
<1>8. \A i \in 1..(m + (n - 1)) : i \in Nat /\ (i \in 1..m \/ i > m)
  BY <1>1, <1>2
<1>9. visit'.stack = st
  BY DEF st
<1>10. QED
  BY <1>1, <1>2, <1>4, <1>5, <1>6, <1>7, <1>8, <1>9 DEF m

----------------------------------------------------------------------------
(* A directory of a clean walk. *)

ListedIn(d) == {p \in InDirectory(d) : tree[p].kind # "none"}

LEMMA CleanChildren ==
  ASSUME ShareTypes, ~follows, NEW d \in Spot \cup {Root}, NEW c \in Children(ListedIn(d))
  PROVE  /\ c \in InDirectory(d) /\ ResolvedTo(c) = c /\ c \in Spot
         /\ Leads(d, c) /\ Len(c) = Len(d) + 1
<1>1. c \in InDirectory(d) /\ Followed(c)
  BY DEF Children, ListedIn
<1>2. QED
  BY <1>1, ChildShape, FollowedShape

LEMMA CleanChildTowards ==
  ASSUME ShareTypes, ~follows, SteadyKept, NEW d \in Spot \cup {Root},
         \A s \in visit.seen : Leads(d, s) => s = d,
         NEW p \in steady, Leads(d, p), d # p
  PROVE  \E c \in Children(ListedIn(d)) :
           Leads(c, p) /\ (KindAt(c) = "dir" <=> c # p)
<1>1. p \in Spot /\ tree[p].kind = "file" /\ Plain(tree, p)
  BY TypeParts DEF SteadyKept
<1>2. PICK c \in InDirectory(d) : Leads(c, p) /\ c = SubSeq(p, 1, Len(d) + 1)
  BY <1>1, ChildTowards
<1>3. c \in Spot /\ Leads(d, c) /\ Len(c) = Len(d) + 1 /\ c # Root
  BY ChildShape, ShareAssumption
<1>4. Len(d) \in Nat /\ Len(p) \in Nat /\ Len(c) \in Nat /\ c \in Seq(Nat) /\ p \in Seq(Nat)
      /\ d \in Seq(Nat)
  BY <1>1, <1>3, PathTypes
<1>5. tree[c].kind = IF c = p THEN "file" ELSE "dir"
  <2>1. CASE c # p
    <3>1. Len(c) # Len(p)
      <4> SUFFICES ASSUME Len(c) = Len(p) PROVE FALSE
        OBVIOUS
      <4>1. c = p
        BY <1>2, <1>4, SeqEqual DEF Leads
      <4>2. QED
        BY <4>1, <2>1
    <3>2. Len(d) + 1 \in 1..(Len(p) - 1)
      BY <1>2, <1>3, <1>4, <3>1 DEF Leads
    <3>3. QED
      BY <1>1, <1>2, <2>1, <3>2 DEF Plain
  <2>2. CASE c = p
    BY <1>1, <2>2
  <2>3. QED
    BY <2>1, <2>2
<1>6. ResolvedTo(c) = c /\ KindAt(c) = tree[c].kind
  BY <1>3, <1>5 DEF ResolvedTo, KindAt
<1>7. Followed(c) /\ c \in ListedIn(d)
  BY <1>5, <1>6 DEF Followed, ListedIn
<1>8. c \notin visit.seen
  BY <1>3, <1>4
<1>9. ASSUME NEW e \in ListedIn(d), Last(e) < Last(c), Followed(e), ResolvedTo(e) = c
      PROVE  FALSE
  <2>1. e \in InDirectory(d)
    BY DEF ListedIn
  <2>2. e \in Spot
    BY <2>1, ChildShape
  <2>3. ResolvedTo(e) = e
    BY <1>9, <2>2, FollowedShape
  <2>4. e # c
    BY <1>9, <2>1, SiblingsApart
  <2>5. QED
    BY <1>9, <2>3, <2>4
<1>10. ~Repeated(c, ListedIn(d))
  BY <1>6, <1>8, <1>9 DEF Repeated
<1>11. c \in Children(ListedIn(d))
  BY <1>7, <1>10 DEF Children
<1>12. QED
  BY <1>2, <1>5, <1>6, <1>11

LEMMA CleanWalkDirectory ==
  ASSUME ShareInv, NEW items \in SUBSET Spot, WalkDirectory(items), Clean'
  PROVE  StackOrder' /\ SeenAbove' /\ StillAhead'
<1> DEFINE d == Top.path
<1>1. /\ ShareTypes /\ SteadyKept /\ Clean /\ StackOrder /\ SeenAbove /\ StillAhead
      /\ UNCHANGED <<tree, follows, resumeAt, stored, steady, unscanned, task>>
      /\ visit.stack # <<>> /\ Top.dir /\ task = "walking"
  BY DEF ShareInv, ShareTypes, CleanInv, Clean, WalkDirectory, Walking, Top
<1>2. items = ListedIn(d)
  BY DEF WalkDirectory, Clean, ListedIn
<1>3. PICK order \in Sorted(Children(items)) : WalkedTo(items, order)
  BY <1>1, WalkDirectoryTypes
<1>4. d \in Spot \cup {Root} /\ 1 \in DOMAIN visit.stack /\ visit.stack[1] = Top /\ Top.depth = Len(d)
  BY <1>1, TopShape DEF StackOrder
<1>5. /\ ~follows /\ visit'.stack = Pushed(order) \o Tail(visit.stack)
      /\ visit'.seen = visit.seen \cup {ResolvedTo(c) : c \in {e \in Children(items) :
                                                               KindAt(ResolvedTo(e)) = "dir"}}
      /\ visit'.given = visit.given
  BY <1>1, <1>3 DEF Clean, WalkedTo
<1> DEFINE m == Len(Pushed(order))
           Old(i) == i - m + 1
<1>6. /\ \A i \in DOMAIN visit'.stack :
           /\ i \in Nat
           /\ \/ /\ i \in DOMAIN order /\ visit'.stack[i] = Pushed(order)[i]
              \/ /\ i > m /\ Old(i) \in DOMAIN visit.stack /\ Old(i) # 1
                 /\ visit'.stack[i] = visit.stack[Old(i)]
      /\ \A i \in DOMAIN order : i \in DOMAIN visit'.stack /\ visit'.stack[i] = Pushed(order)[i]
      /\ \A j \in DOMAIN visit.stack : j # 1 =>
           \E i \in DOMAIN visit'.stack : visit'.stack[i] = visit.stack[j]
  BY <1>1, <1>5, PushShape, ZenonT(40)
<1>7. /\ m \in Nat /\ DOMAIN order = 1..m
      /\ \A i \in DOMAIN order :
           /\ order[i] \in Children(items)
           /\ Pushed(order)[i] = [path |-> ResolvedTo(order[i]),
                                  dir |-> KindAt(ResolvedTo(order[i])) = "dir",
                                  depth |-> Top.depth + 1]
  BY <1>1, PushedType
<1>8. \A c \in Children(items) : /\ c \in InDirectory(d) /\ ResolvedTo(c) = c /\ c \in Spot
                                 /\ Leads(d, c) /\ Len(c) = Len(d) + 1
  BY <1>1, <1>2, <1>4, <1>5, CleanChildren
<1>9. \A i \in DOMAIN order : /\ Pushed(order)[i].path = order[i] /\ order[i] \in InDirectory(d)
                              /\ Pushed(order)[i].dir = (KindAt(order[i]) = "dir")
                              /\ Pushed(order)[i].depth = Len(order[i]) /\ Leads(d, order[i])
                              /\ order[i] \in Spot
  <2> SUFFICES ASSUME NEW i \in DOMAIN order
               PROVE  /\ Pushed(order)[i].path = order[i] /\ order[i] \in InDirectory(d)
                      /\ Pushed(order)[i].dir = (KindAt(order[i]) = "dir")
                      /\ Pushed(order)[i].depth = Len(order[i]) /\ Leads(d, order[i])
                      /\ order[i] \in Spot
    OBVIOUS
  <2>1. order[i] \in Children(items)
    BY <1>7
  <2>2. /\ order[i] \in InDirectory(d) /\ ResolvedTo(order[i]) = order[i] /\ order[i] \in Spot
        /\ Leads(d, order[i]) /\ Len(order[i]) = Len(d) + 1
    <3> HIDE DEF d
    <3> QED BY <1>8, <2>1
  <2>3. Top.depth + 1 = Len(order[i])
    BY <1>4, <2>2
  <2>4. Pushed(order)[i] = [path |-> order[i], dir |-> KindAt(order[i]) = "dir",
                            depth |-> Len(order[i])]
    BY <1>7, <2>2, <2>3
  <2>5. QED
    <3> HIDE DEF d
    <3> QED BY <2>2, <2>4
<1> HIDE DEF d, m
<1>10. \A j \in DOMAIN visit.stack : j \in Nat /\ visit.stack[j].path \in Spot \cup {Root}
  <2>1. visit.stack \in Seq(StackEntry)
    BY <1>1, TypeParts
  <2>2. \A j \in DOMAIN visit.stack : j \in Nat /\ visit.stack[j] \in StackEntry
    BY <2>1
  <2>3. \A e \in StackEntry : e.path \in Spot \cup {Root}
    BY DEF StackEntry
  <2>4. QED
    BY <2>2, <2>3
<1>11. \A j \in DOMAIN visit.stack : j # 1 => Apart(d, visit.stack[j].path)
  <2>1. \A j \in DOMAIN visit.stack : j # 1 => 1 < j
    BY <1>1, TopShape
  <2>2. QED
    BY <1>1, <1>4, <2>1 DEF StackOrder, d
<1>12. StackOrder'
  <2>1. ASSUME NEW i \in DOMAIN visit'.stack
        PROVE  visit'.stack[i].depth = Len(visit'.stack[i].path)
    BY <1>1, <1>6, <1>9 DEF StackOrder
  <2>2. ASSUME NEW i \in DOMAIN visit'.stack, NEW j \in DOMAIN visit'.stack, i < j
        PROVE  Apart(visit'.stack[i].path, visit'.stack[j].path)
    <3>1. CASE i \in DOMAIN order /\ j \in DOMAIN order
      <4>1. Last(order[i]) < Last(order[j])
        BY <2>2, <3>1 DEF Sorted, ByName
      <4>2. Apart(order[i], order[j])
        BY <1>4, <1>9, <3>1, <4>1, SiblingsApart DEF d
      <4>3. QED
        BY <1>6, <1>9, <3>1, <4>2
    <3>2. CASE i \in DOMAIN order /\ j \notin DOMAIN order
      <4>1. Old(j) \in DOMAIN visit.stack /\ Old(j) # 1 /\ visit'.stack[j] = visit.stack[Old(j)]
        BY <1>6, <3>2
      <4>2. /\ d \in Seq(Nat) /\ order[i] \in Seq(Nat) /\ visit.stack[Old(j)].path \in Seq(Nat)
            /\ Leads(d, order[i]) /\ Apart(d, visit.stack[Old(j)].path)
        BY <1>4, <1>9, <1>10, <1>11, <3>2, <4>1, PathTypes DEF d
      <4>3. Apart(order[i], visit.stack[Old(j)].path)
        BY <4>2, ApartBelow
      <4>4. visit'.stack[i].path = order[i]
        BY <1>6, <1>9, <3>2
      <4>5. QED
        BY <4>1, <4>3, <4>4
    <3>3. CASE i \notin DOMAIN order
      <4>1. /\ i \in Nat /\ i > m /\ Old(i) \in DOMAIN visit.stack
            /\ visit'.stack[i] = visit.stack[Old(i)]
        BY <1>6, <3>3
      <4>2. j \in Nat /\ j \notin 1..m
        BY <1>6, <1>7, <2>2, <4>1
      <4>3. Old(j) \in DOMAIN visit.stack /\ visit'.stack[j] = visit.stack[Old(j)]
        BY <1>6, <1>7, <4>2
      <4>4. Old(i) < Old(j)
        BY <1>7, <2>2, <4>1, <4>2
      <4>5. QED
        BY <1>1, <4>1, <4>3, <4>4 DEF StackOrder
    <3>4. QED
      BY <3>1, <3>2, <3>3
  <2>3. QED
    BY <2>1, <2>2 DEF StackOrder
<1>13. SeenAbove'
  <2> SUFFICES ASSUME NEW i \in DOMAIN visit'.stack, NEW s \in visit'.seen,
                      Leads(visit'.stack[i].path, s)
               PROVE  s = visit'.stack[i].path
    BY DEF SeenAbove
  <2>0. s \in visit.seen \/ s \in Children(items)
    BY <1>5, <1>8
  <2>1. s \in Spot \cup {Root} /\ s \in Seq(Nat) /\ Len(s) \in Nat /\ d \in Seq(Nat) /\ Len(d) \in Nat
    BY <1>1, <1>4, <1>8, <2>0, TypeParts, PathTypes DEF d
  <2>2. CASE i \in DOMAIN order
    <3>1. visit'.stack[i].path = order[i] /\ Leads(d, order[i]) /\ order[i] \in Spot
      BY <1>6, <1>9, <2>2
    <3>2. Len(order[i]) = Len(d) + 1 /\ order[i] \in Seq(Nat)
      BY <1>7, <1>8, <2>2, <3>1, PathTypes
    <3>3. Leads(d, s) /\ Len(order[i]) <= Len(s)
      BY <2>1, <3>1, <3>2 DEF Leads
    <3>4. s \notin visit.seen
      <4> SUFFICES ASSUME s \in visit.seen PROVE FALSE
        OBVIOUS
      <4>1. s = d
        BY <1>1, <1>4, <3>3 DEF SeenAbove, d
      <4>2. QED
        BY <2>1, <3>2, <3>3, <4>1
    <3>5. Len(s) = Len(d) + 1
      BY <1>8, <2>0, <3>4
    <3>6. \A k \in 1..Len(s) : order[i][k] = s[k]
      BY <3>1, <3>2, <3>5 DEF Leads
    <3>7. QED
      BY <2>1, <3>1, <3>2, <3>5, <3>6, SeqEqual
  <2>3. CASE i \notin DOMAIN order
    <3>1. Old(i) \in DOMAIN visit.stack /\ Old(i) # 1 /\ visit'.stack[i] = visit.stack[Old(i)]
      BY <1>6, <2>3
    <3>2. s \notin Children(items)
      <4> SUFFICES ASSUME s \in Children(items) PROVE FALSE
        OBVIOUS
      <4>1. Leads(d, s) /\ Apart(d, visit.stack[Old(i)].path)
            /\ visit.stack[Old(i)].path \in Seq(Nat) /\ Leads(visit.stack[Old(i)].path, s)
        BY <1>8, <1>10, <1>11, <3>1, PathTypes
      <4>2. QED
        BY <2>1, <4>1, ApartNotBelow
    <3>3. QED
      BY <1>1, <2>0, <3>1, <3>2 DEF SeenAbove
  <2>4. QED
    BY <2>2, <2>3
<1>14. StillAhead'
  <2> SUFFICES ASSUME NEW p \in steady, p \notin Covered
               PROVE  \E i \in DOMAIN visit'.stack : Ahead(visit'.stack[i], p)
    BY <1>1, <1>5 DEF StillAhead, Covered
  <2>1. PICK j \in DOMAIN visit.stack : Ahead(visit.stack[j], p)
    BY <1>1 DEF StillAhead
  <2>2. CASE j # 1
    BY <1>6, <2>1, <2>2
  <2>3. CASE j = 1
    <3>1. Leads(d, p) /\ d # p
      BY <1>1, <1>4, <2>1, <2>3 DEF Ahead, d
    <3>2. \A s \in visit.seen : Leads(d, s) => s = d
      BY <1>1, <1>4 DEF SeenAbove, d
    <3>3. PICK c \in Children(items) : Leads(c, p) /\ (KindAt(c) = "dir" <=> c # p)
      BY <1>1, <1>2, <1>4, <1>5, <3>1, <3>2, CleanChildTowards DEF d
    <3>4. PICK i \in DOMAIN order : order[i] = c
      BY <3>3 DEF Sorted
    <3>5. /\ i \in DOMAIN visit'.stack /\ visit'.stack[i].path = c
          /\ visit'.stack[i].dir = (KindAt(c) = "dir")
      BY <1>6, <1>9, <3>4
    <3>6. Ahead(visit'.stack[i], p)
      BY <3>3, <3>5 DEF Ahead
    <3>7. QED
      BY <3>5, <3>6
  <2>4. QED
    BY <2>2, <2>3
<1>15. QED
  BY <1>12, <1>13, <1>14

----------------------------------------------------------------------------
(* The other steps of a clean walk. *)

\* An attempt that starts has everything ahead of it.
LEMMA FreshClean ==
  ASSUME visit' = FreshVisit, steady' \subseteq Spot
  PROVE  /\ StackOrder' /\ SeenAbove' /\ StillAhead'
         /\ visit'.at = Root /\ visit'.next = Root
<1>1. /\ visit'.stack = FreshStack /\ visit'.seen = {Root} /\ visit'.at = Root
      /\ visit'.next = Root
  BY FreshShape
<1>2. /\ DOMAIN visit'.stack = {1} /\ visit'.stack[1].path = Root
      /\ visit'.stack[1].dir = TRUE /\ visit'.stack[1].depth = 0
  BY <1>1, FreshStackShape
<1>3. StackOrder'
  <2>1. Len(Root) = 0
    BY DEF Root
  <2>2. \A i, j \in {1} : ~(i < j)
    OBVIOUS
  <2>3. QED
    BY <1>2, <2>1, <2>2 DEF StackOrder
<1>4. SeenAbove'
  BY <1>1, <1>2 DEF SeenAbove
<1>5. \A p \in steady' : Leads(Root, p) /\ p # Root
  BY RootLeads, ShareAssumption
<1>6. \A p \in steady' : Ahead(visit'.stack[1], p)
  BY <1>2, <1>5 DEF Ahead
<1>7. StillAhead'
  BY <1>2, <1>6 DEF StillAhead
<1>8. QED
  BY <1>1, <1>3, <1>4, <1>7

LEMMA MountInv ==
  ASSUME ShareInv, NEW t \in [Spot -> Entry], NEW links \in BOOLEAN, MountShare(t, links)
  PROVE  ShareInv'
<1>1. ShareTypes /\ task = "idle" /\ resumeAt = Root
  BY DEF ShareInv, ShareTypes, IdleFresh, MountShare
<1>2. ShareTypes'
  BY <1>1, MountTypes
<1>3. visit' = FreshVisit /\ tree' = t /\ steady' = PlainFiles(t) /\ task' = "walking"
      /\ resumeAt' = Root
  BY <1>1 DEF MountShare, FreshVisit, FreshStack
<1>4. SteadyKept'
  BY <1>3 DEF SteadyKept, PlainFiles
<1>5. steady' \subseteq Spot
  BY <1>3 DEF PlainFiles
<1>6. /\ StackOrder' /\ SeenAbove' /\ StillAhead' /\ visit'.at = Root /\ visit'.next = Root
  BY <1>3, <1>5, FreshClean
<1>7. CleanInv'
  BY <1>3, <1>6 DEF CleanInv, Behind
<1>8. QED
  BY <1>2, <1>3, <1>4, <1>7 DEF ShareInv, ShareTypes, IdleFresh, ResumeSkipsNothing

LEMMA FileChangesInv ==
  ASSUME ShareInv, NEW p \in Spot, FileChanges(p)
  PROVE  ShareInv'
<1>1. /\ ShareTypes /\ SteadyKept /\ CleanInv /\ task = "walking" /\ task' = "walking"
      /\ steady' = steady \ {p} /\ tree[p].kind \in {"none", "file"}
      /\ UNCHANGED <<follows, visit, resumeAt, stored, unscanned, gapped, task>>
  BY DEF ShareInv, ShareTypes, FileChanges
<1>2. ShareTypes'
  BY <1>1, FileChangesTypes
<1>3. \A x \in Spot : x # p => tree'[x] = tree[x]
  BY <1>1, TypeParts DEF FileChanges
<1>4. SteadyKept'
  <2> SUFFICES ASSUME NEW q \in steady, q # p
               PROVE  tree'[q].kind = "file" /\ Plain(tree', q) /\ Len(q) <= Depths + 1
    BY <1>1 DEF SteadyKept
  <2>1. q \in Spot /\ tree[q].kind = "file" /\ Plain(tree, q) /\ Len(q) <= Depths + 1
    BY <1>1, TypeParts DEF SteadyKept
  <2>2. tree'[q].kind = "file"
    BY <1>3, <2>1
  <2>3. ASSUME NEW n \in 1..(Len(q) - 1)
        PROVE  tree'[SubSeq(q, 1, n)].kind = "dir"
    <3>1. Len(q) \in Nat
      BY <2>1, PathTypes
    <3>2. n \in 1..Len(q)
      BY <3>1
    <3>3. SubSeq(q, 1, n) \in Spot
      BY <2>1, <3>2, ShareAssumption
    <3>4. tree[SubSeq(q, 1, n)].kind = "dir"
      BY <2>1 DEF Plain
    <3>5. SubSeq(q, 1, n) # p
      BY <1>1, <3>4
    <3>6. QED
      BY <1>3, <3>3, <3>4, <3>5
  <2>4. QED
    BY <2>1, <2>2, <2>3 DEF Plain
<1>5. CleanInv'
  <2> SUFFICES ASSUME Clean' PROVE CleanInv'
    BY DEF CleanInv
  <2>1. Clean
    BY <1>1 DEF Clean
  <2>2. StackOrder' /\ SeenAbove'
    BY <1>1, <2>1 DEF CleanInv, StackOrder, SeenAbove
  <2>3. StillAhead'
    BY <1>1, <2>1 DEF CleanInv, StillAhead, Covered
  <2>4. /\ Behind(visit.at, Covered)' /\ Behind(visit.next, Covered)'
        /\ Behind(resumeAt, stored \cup unscanned)'
    BY <1>1, <2>1 DEF CleanInv, Behind, Covered
  <2>5. QED
    BY <2>2, <2>3, <2>4 DEF CleanInv
<1>6. QED
  BY <1>1, <1>2, <1>4, <1>5 DEF ShareInv, ShareTypes, IdleFresh, ResumeSkipsNothing

LEMMA RootMissingInv ==
  ASSUME ShareInv, RootMissing
  PROVE  ShareInv'
<1>1. ShareTypes' /\ gapped'
  BY RootMissingTypes DEF ShareInv, ShareTypes
<1>2. SteadyKept' /\ IdleFresh'
  BY DEF ShareInv, SteadyKept, IdleFresh, RootMissing
<1>3. CleanInv' /\ ResumeSkipsNothing'
  BY <1>1 DEF CleanInv, Clean, ResumeSkipsNothing
<1>4. QED
  BY <1>1, <1>2, <1>3 DEF ShareInv, ShareTypes

\* While the task is walking, the clean walk is what is left to show.
LEMMA WalkingInv ==
  ASSUME ShareInv, ShareTypes', UNCHANGED <<tree, steady, task>>, task = "walking",
         Clean' => CleanInv'
  PROVE  ShareInv'
<1>1. SteadyKept' /\ IdleFresh' /\ ResumeSkipsNothing'
  BY DEF ShareInv, SteadyKept, IdleFresh, ResumeSkipsNothing
<1>2. CleanInv'
  BY DEF CleanInv
<1>3. QED
  BY <1>1, <1>2 DEF ShareInv, ShareTypes

LEMMA WalkDirectoryInv ==
  ASSUME ShareInv, NEW items \in SUBSET Spot, WalkDirectory(items)
  PROVE  ShareInv'
<1>1. /\ ShareTypes /\ task = "walking"
      /\ UNCHANGED <<tree, follows, resumeAt, stored, steady, unscanned, task>>
  BY DEF ShareInv, ShareTypes, WalkDirectory, Walking
<1>2. ShareTypes' /\ \E order \in Sorted(Children(items)) : WalkedTo(items, order)
  BY <1>1, WalkDirectoryTypes
<1>3. ASSUME Clean'
      PROVE  CleanInv'
  <2>1. Clean
    <3>1. (gapped \/ items # ListedIn(Top.path) \/ \E c \in items : Dangles(c)) = gapped'
      BY DEF WalkDirectory, ListedIn
    <3>2. ~gapped' /\ ~follows
      BY <1>1, <1>3 DEF Clean
    <3>3. QED
      BY <3>1, <3>2, Zenon DEF Clean
  <2>2. Behind(visit.next, Covered) /\ Behind(resumeAt, stored \cup unscanned)
    BY <2>1 DEF ShareInv, CleanInv
  <2>3. visit'.at = visit.next /\ visit'.next = visit.next /\ visit'.given = visit.given
    BY <1>2 DEF WalkedTo
  <2>4. /\ Behind(visit.at, Covered)' /\ Behind(visit.next, Covered)'
        /\ Behind(resumeAt, stored \cup unscanned)'
    BY <1>1, <2>2, <2>3 DEF Behind, Covered
  <2>5. QED
    BY <1>3, <2>4, CleanWalkDirectory DEF CleanInv
<1>4. QED
  BY <1>1, <1>2, <1>3, WalkingInv

LEMMA LeadsShorter ==
  ASSUME NEW d \in Seq(Nat), NEW p \in Seq(Nat), Leads(d, p), d # p
  PROVE  Len(d) < Len(p)
<1>1. Len(d) \in Nat /\ Len(p) \in Nat /\ Len(d) <= Len(p)
  BY DEF Leads
<1>2. Len(d) # Len(p)
  <2> SUFFICES ASSUME Len(d) = Len(p) PROVE FALSE
    OBVIOUS
  <2>1. d = p
    BY SeqEqual DEF Leads
  <2>2. QED
    BY <2>1
<1>3. QED
  BY <1>1, <1>2

\* A pop leaves ahead what is not below the top.
LEMMA PopAhead ==
  ASSUME ShareTypes, visit.stack # <<>>, visit'.stack = Tail(visit.stack), task = "walking",
         StillAhead, steady' = steady,
         \A p \in steady : Ahead(Top, p) /\ p \notin Covered => p \in Covered',
         Covered \subseteq Covered'
  PROVE  StillAhead'
<1> SUFFICES ASSUME NEW p \in steady, p \notin Covered'
             PROVE  \E i \in DOMAIN visit'.stack : Ahead(visit'.stack[i], p)
  BY DEF StillAhead
<1>1. PICK j \in DOMAIN visit.stack : Ahead(visit.stack[j], p)
  BY DEF StillAhead
<1>2. Top = visit.stack[1]
  BY TopShape
<1>3. j # 1
  BY <1>1, <1>2
<1>4. j - 1 \in DOMAIN visit'.stack /\ visit'.stack[j - 1] = visit.stack[j]
  BY <1>3, PopShape
<1>5. QED
  BY <1>1, <1>4

LEMMA WalkPastInv ==
  ASSUME ShareInv, NEW deep \in BOOLEAN, WalkPastDirectory(deep)
  PROVE  ShareInv'
<1>1. /\ ShareTypes /\ task = "walking" /\ visit.stack # <<>> /\ Top.dir
      /\ UNCHANGED <<tree, follows, resumeAt, stored, steady, unscanned, task>>
      /\ SteadyKept
  BY DEF ShareInv, ShareTypes, WalkPastDirectory, Walking, Top
<1>2. /\ ShareTypes' /\ visit'.stack = Tail(visit.stack) /\ visit'.seen = visit.seen
      /\ visit'.at = visit.next /\ visit'.next = visit.next /\ visit'.given = visit.given
  BY <1>1, WalkPastTypes
<1>3. ASSUME Clean'
      PROVE  CleanInv'
  <2>1. Clean /\ deep
    <3>1. gapped' = (gapped \/ ~deep)
      BY DEF WalkPastDirectory
    <3>2. ~gapped' /\ ~follows
      BY <1>1, <1>3 DEF Clean
    <3>3. QED
      BY <3>1, <3>2, Zenon DEF Clean
  <2>2. /\ StackOrder /\ SeenAbove /\ StillAhead
        /\ Behind(visit.next, Covered) /\ Behind(resumeAt, stored \cup unscanned)
    BY <2>1 DEF ShareInv, CleanInv
  <2>3. StackOrder' /\ SeenAbove'
    BY <1>1, <1>2, <2>2, PopOrder
  <2>4. Covered' = Covered
    BY <1>1, <1>2 DEF Covered
  <2>5. ASSUME NEW p \in steady, Ahead(Top, p)
        PROVE  FALSE
    <3>1. /\ Top.depth = Len(Top.path) /\ Top.depth > Depths /\ Top.path \in Seq(Nat)
          /\ Top.depth \in Nat
      BY <1>1, <2>1, <2>2, TopShape, PathTypes DEF StackOrder, WalkPastDirectory
    <3>2. p \in Spot /\ Len(p) <= Depths + 1 /\ p \in Seq(Nat) /\ Len(p) \in Nat
      BY <1>1, TypeParts, PathTypes DEF SteadyKept
    <3>3. Len(Top.path) < Len(p)
      BY <1>1, <2>5, <3>1, <3>2, LeadsShorter DEF Ahead
    <3>4. Depths \in Nat
      BY ShareAssumption
    <3>5. QED
      BY <3>1, <3>2, <3>3, <3>4
  <2>6. StillAhead'
    BY <1>1, <1>2, <2>2, <2>4, <2>5, PopAhead
  <2>7. /\ Behind(visit.at, Covered)' /\ Behind(visit.next, Covered)'
        /\ Behind(resumeAt, stored \cup unscanned)'
    BY <1>1, <1>2, <2>2, <2>4 DEF Behind
  <2>8. QED
    BY <2>3, <2>6, <2>7 DEF CleanInv
<1>4. QED
  BY <1>1, <1>2, <1>3, WalkingInv

LEMMA WalkFileInv ==
  ASSUME ShareInv, NEW r \in Reading, WalkFile(r)
  PROVE  ShareInv'
<1> DEFINE key == Top.path
<1>1. /\ ShareTypes /\ task = "walking" /\ visit.stack # <<>> /\ ~Top.dir
      /\ UNCHANGED <<tree, follows, resumeAt, stored, steady, task>>
  BY DEF ShareInv, ShareTypes, WalkFile, Walking, Top
<1>2. ShareTypes' /\ (FileCapped \/ FileHandedOver \/ FileReadAs(r))
  BY <1>1, WalkFileTypes
<1>3. /\ Top = visit.stack[1] /\ 1 \in DOMAIN visit.stack /\ key \in Spot /\ key \in Seq(Nat)
  BY <1>1, TopShape, PathTypes
<1>4. \A p \in steady : Ahead(Top, p) => p = key
  BY <1>1 DEF Ahead
<1> HIDE DEF key
<1>5. ASSUME Clean'
      PROVE  CleanInv'
  <2>1. Clean /\ ~FileCapped /\ (FileReadAs(r) => ~Failing(r))
    <3>1. ~gapped' /\ ~follows
      BY <1>1, <1>5 DEF Clean
    <3>2. FileHandedOver => gapped' = gapped
      BY DEF FileHandedOver
    <3>3. FileReadAs(r) => gapped' = (gapped \/ Failing(r))
      BY DEF FileReadAs
    <3>4. FileCapped => gapped'
      BY DEF FileCapped
    <3>5. ~FileCapped
      BY <3>1, <3>4, Zenon
    <3>6. FileHandedOver => ~gapped
      BY <3>1, <3>2, Zenon
    <3>7. FileReadAs(r) => ~gapped /\ ~Failing(r)
      BY <3>1, <3>3, Zenon
    <3>8. QED
      BY <1>2, <3>1, <3>5, <3>6, <3>7, Zenon DEF Clean
  <2>2. /\ StackOrder /\ SeenAbove /\ StillAhead
        /\ Behind(visit.next, Covered) /\ Behind(resumeAt, stored \cup unscanned)
    BY <2>1 DEF ShareInv, CleanInv
  <2>3. visit'.stack = Tail(visit.stack) /\ visit'.seen = visit.seen
    BY <1>2, <2>1 DEF FileHandedOver, FileReadAs
  <2>4. StackOrder' /\ SeenAbove'
    BY <1>1, <2>2, <2>3, PopOrder
  <2>5. CASE FileHandedOver
    <3>1. /\ Covered' = Covered /\ unscanned' = unscanned
          /\ visit'.at = visit.next /\ visit'.next = visit.next
      BY <1>1, <2>5 DEF Covered, FileHandedOver
    <3>2. key \in steady => key \in Covered
      BY <2>2, <2>5 DEF FileHandedOver, HandedOver, Behind, Covered, key
    <3>3. StillAhead'
      BY <1>1, <1>4, <2>2, <2>3, <3>1, <3>2, PopAhead
    <3>4. /\ Behind(visit.at, Covered)' /\ Behind(visit.next, Covered)'
          /\ Behind(resumeAt, stored \cup unscanned)'
      BY <1>1, <2>2, <3>1 DEF Behind
    <3>5. QED
      BY <2>4, <3>3, <3>4 DEF CleanInv
  <2>6. CASE FileReadAs(r)
    <3>1. /\ Covered' = Covered \cup {key} /\ unscanned \subseteq unscanned'
          /\ visit'.at \in {visit.next, key} /\ visit'.next = key
      BY <1>1, <2>1, <2>6 DEF Covered, FileReadAs, key
    <3>2. StillAhead'
      BY <1>1, <1>4, <2>2, <2>3, <3>1, PopAhead
    <3>3. ASSUME NEW p \in steady, UpTo(p, key)
          PROVE  p \in Covered \cup {key}
      <4> SUFFICES ASSUME p \notin Covered, p # key PROVE FALSE
        OBVIOUS
      <4>1. PICK j \in DOMAIN visit.stack : Ahead(visit.stack[j], p)
        BY <1>1, <2>2 DEF StillAhead
      <4>2. j # 1 /\ j \in 1..Len(visit.stack) /\ Len(visit.stack) \in Nat
        BY <1>1, <1>3, <1>4, <4>1, TopShape
      <4>3. 1 < j
        BY <4>2
      <4>4. Apart(key, visit.stack[j].path)
        BY <1>3, <2>2, <4>3 DEF StackOrder, key
      <4>5. visit.stack[j].path \in Seq(Nat) /\ p \in Seq(Nat)
        <5>1. visit.stack \in Seq(StackEntry) /\ p \in Spot
          BY <1>1, TypeParts
        <5>2. visit.stack[j] \in StackEntry
          BY <5>1
        <5>3. visit.stack[j].path \in Spot \cup {Root}
          BY <5>2 DEF StackEntry
        <5>4. QED
          BY <5>1, <5>3, PathTypes
      <4>6. Leads(visit.stack[j].path, p)
        BY <4>1 DEF Ahead
      <4>7. QED
        BY <1>3, <3>3, <4>4, <4>5, <4>6, ApartNotUpTo
    <3>4. Behind(visit.next, Covered)'
      BY <1>1, <3>1, <3>3 DEF Behind
    <3>5. Behind(visit.at, Covered)'
      BY <1>1, <2>2, <3>1, <3>3 DEF Behind
    <3>6. Behind(resumeAt, stored \cup unscanned)'
      BY <1>1, <2>2, <3>1 DEF Behind
    <3>7. QED
      BY <2>4, <3>2, <3>4, <3>5, <3>6 DEF CleanInv
  <2>7. QED
    BY <1>2, <2>1, <2>5, <2>6
<1>6. QED
  BY <1>1, <1>2, <1>5, WalkingInv

LEMMA RunnerInv ==
  ASSUME ShareInv, ShareBatch \/ AttemptDies \/ ShareRead
  PROVE  ShareInv'
<1>1. ShareTypes /\ task = "walking" /\ UNCHANGED <<tree, steady, follows, gapped>> /\ ShareTypes'
  <2>1. ShareTypes
    BY DEF ShareInv, ShareTypes
  <2>2. QED
    BY <2>1, RunnerTypes DEF ShareBatch, AttemptDies, ShareRead
<1>2. CASE ShareBatch
  <2>1. ASSUME Clean'
        PROVE  CleanInv'
    <3>1. Clean
      BY <1>1, <2>1 DEF Clean
    <3>2. /\ StackOrder /\ SeenAbove /\ StillAhead
          /\ Behind(visit.at, Covered) /\ Behind(visit.next, Covered)
      BY <3>1 DEF ShareInv, CleanInv
    <3>3. /\ UNCHANGED <<visit, task, unscanned, steady>> /\ resumeAt' = visit.at
          /\ stored' = stored \cup visit.given
      BY <1>2 DEF ShareBatch
    <3>4. Covered' = Covered /\ (stored \cup unscanned)' = Covered
      BY <3>3 DEF Covered
    <3>5. StackOrder' /\ SeenAbove' /\ StillAhead'
      BY <3>2, <3>3, <3>4 DEF StackOrder, SeenAbove, StillAhead
    <3>6. /\ Behind(visit.at, Covered)' /\ Behind(visit.next, Covered)'
          /\ Behind(resumeAt, stored \cup unscanned)'
      BY <3>2, <3>3, <3>4 DEF Behind
    <3>7. QED
      BY <3>5, <3>6 DEF CleanInv
  <2>2. QED
    BY <1>1, <1>2, <2>1, WalkingInv DEF ShareBatch
<1>3. CASE AttemptDies
  <2>1. /\ visit' = FreshVisit /\ UNCHANGED <<resumeAt, stored, unscanned, task, steady>>
    BY <1>3 DEF AttemptDies, FreshVisit, FreshStack
  <2>2. steady' \subseteq Spot
    BY <1>1, TypeParts
  <2>3. /\ StackOrder' /\ SeenAbove' /\ StillAhead' /\ visit'.at = Root /\ visit'.next = Root
    BY <2>1, <2>2, FreshClean
  <2>4. ASSUME Clean'
        PROVE  CleanInv'
    <3>1. Behind(resumeAt, stored \cup unscanned)
      BY <1>1, <2>4 DEF Clean, ShareInv, CleanInv
    <3>2. QED
      BY <2>1, <2>3, <3>1 DEF CleanInv, Behind
  <2>5. QED
    BY <1>1, <2>1, <2>4, WalkingInv
<1>4. CASE ShareRead
  <2>1. /\ visit.stack = <<>> /\ visit' = NoVisit /\ task' = "over"
        /\ stored' = stored \cup visit.given /\ UNCHANGED <<resumeAt, unscanned>>
    BY <1>4 DEF ShareRead
  <2>2. visit'.stack = <<>> /\ visit'.at = Root /\ visit'.next = Root
    BY <2>1, FreshShape
  <2>3. DOMAIN visit.stack = {} /\ DOMAIN visit'.stack = {}
    BY <2>1, <2>2
  <2>4. StackOrder' /\ SeenAbove' /\ StillAhead'
    BY <2>1, <2>3 DEF StackOrder, SeenAbove, StillAhead
  <2>5. ASSUME Clean'
        PROVE  CleanInv'
    <3>1. Behind(resumeAt, stored \cup unscanned)
      BY <1>1, <2>5 DEF Clean, ShareInv, CleanInv
    <3>2. Behind(resumeAt, stored \cup unscanned)'
      BY <1>1, <2>1, <3>1 DEF Behind
    <3>3. QED
      BY <2>2, <2>4, <3>2 DEF CleanInv, Behind
  <2>6. ResumeSkipsNothing'
    <3> SUFFICES ASSUME ~gapped, ~follows PROVE steady \subseteq stored' \cup unscanned
      BY <1>1, <2>1 DEF ResumeSkipsNothing
    <3>1. StillAhead
      BY DEF ShareInv, CleanInv, Clean
    <3>2. steady \subseteq Covered
      BY <1>1, <2>3, <3>1 DEF StillAhead
    <3>3. QED
      BY <2>1, <3>2 DEF Covered
  <2>7. SteadyKept' /\ IdleFresh'
    BY <1>1, <2>1 DEF ShareInv, SteadyKept, IdleFresh
  <2>8. CleanInv'
    BY <2>5 DEF CleanInv
  <2>9. QED
    BY <1>1, <2>6, <2>7, <2>8 DEF ShareInv, ShareTypes
<1>5. QED
  BY <1>2, <1>3, <1>4

LEMMA ShareInitInv == ShareInit => ShareInv
<1> SUFFICES ASSUME ShareInit PROVE ShareInv
  OBVIOUS
<1>1. ShareTypes
  BY ShareInitTypes
<1>2. visit = NoVisit /\ resumeAt = Root /\ steady = {} /\ task = "idle"
  BY DEF ShareInit
<1>3. visit.stack = <<>> /\ visit.at = Root /\ visit.next = Root /\ DOMAIN visit.stack = {}
  BY <1>2, FreshShape
<1>4. SteadyKept /\ IdleFresh /\ ResumeSkipsNothing
  BY <1>2 DEF SteadyKept, IdleFresh, ResumeSkipsNothing
<1>5. CleanInv
  BY <1>2, <1>3 DEF CleanInv, StackOrder, SeenAbove, StillAhead, Behind
<1>6. QED
  BY <1>1, <1>4, <1>5 DEF ShareInv, ShareTypes

LEMMA ShareStep ==
  ASSUME ShareInv, [ShareNext]_shareVars
  PROVE  ShareInv'
<1>1. CASE \E t \in [Spot -> Entry], links \in BOOLEAN : MountShare(t, links)
  BY <1>1, MountInv
<1>2. CASE \E p \in Spot : FileChanges(p)
  BY <1>2, FileChangesInv
<1>3. CASE RootMissing
  BY <1>3, RootMissingInv
<1>4. CASE \E items \in SUBSET Spot : WalkDirectory(items)
  BY <1>4, WalkDirectoryInv
<1>5. CASE \E deep \in BOOLEAN : WalkPastDirectory(deep)
  BY <1>5, WalkPastInv
<1>6. CASE \E r \in Reading : WalkFile(r)
  BY <1>6, WalkFileInv
<1>7. CASE ShareBatch \/ AttemptDies \/ ShareRead
  BY <1>7, RunnerInv
<1>8. CASE UNCHANGED shareVars
  BY <1>8 DEF shareVars, ShareInv, ShareTypeOK, SteadyKept, IdleFresh, CleanInv, Clean, Covered,
              StackOrder, SeenAbove, StillAhead, Behind, ResumeSkipsNothing
<1>9. QED
  BY <1>1, <1>2, <1>3, <1>4, <1>5, <1>6, <1>7, <1>8 DEF ShareNext

LEMMA ShareInvariant == ShareSpec => []ShareInv
<1>1. ShareInit => ShareInv
  BY ShareInitInv
<1>2. ShareInv /\ [ShareNext]_shareVars => ShareInv'
  BY ShareStep
<1>3. QED
  BY <1>1, <1>2, PTL DEF ShareSpec

\* The walk of a share keeps its state well formed: what it stacks, publishes and hands
\* over are paths of the share, and the count of files stays under MAX_FILES_PER_SPEC.
THEOREM ShareTyped == ShareSpec => []ShareTypeOK
<1>1. ShareInv => ShareTypeOK
  BY DEF ShareInv
<1>2. QED
  BY <1>1, ShareInvariant, PTL

\* A walk taken up again after an engine died skips nothing: for a share of any shape and
\* any caps, every file that was there all along has been read or passed over by policy
\* when a task ends without a gap and links are not followed (_walk, _position).
THEOREM WalkResumes == ShareSpec => []ResumeSkipsNothing
<1>1. ShareInv => ResumeSkipsNothing
  BY DEF ShareInv
<1>2. QED
  BY <1>1, ShareInvariant, PTL

===============================================================================
