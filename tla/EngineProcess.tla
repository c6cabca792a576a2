--------------------------- MODULE EngineProcess ---------------------------
(***************************************************************************)
(* An engine process (worker.py): threads that run tasks, the registry and *)
(* the heartbeat thread that keep their leases alive (heartbeat.py), and   *)
(* the check of found credentials against their provider (validation.py),  *)
(* under policies administrators change meanwhile (validation/service.py). *)
(*                                                                         *)
(* Leases are module ScanLifecycle's and batches module Checkpoint's; here *)
(* a task is free, leased by a thread, done or cancelled, and a fetch      *)
(* sends at most one batch before its report.  The request budget is one   *)
(* Redis counter, so for it the threads may be of any engine.              *)
(***************************************************************************)
EXTENDS Naturals, FiniteSets

CONSTANTS
  Thread,      \* worker threads
  NoThread,
  FetchTask,   \* fetch tasks
  Credential,  \* what a fetch finds, by secret hash
  Detector,    \* rule ids with a reviewed validator
  RuleFor,     \* [Credential -> Detector]
  Ceiling,     \* requests_per_minute a policy may carry
  TaskBudget,  \* max_attempts_per_task
  MaxChange,   \* bound on policy changes
  MaxUpset     \* bound on Redis failures, lapses under a live thread, deaths and cancels

ASSUME EngineAssumption ==
  /\ NoThread \notin Thread /\ IsFiniteSet(Thread) /\ FetchTask # {}
  /\ RuleFor \in [Credential -> Detector]
  /\ Ceiling \subseteq Nat \ {0} /\ \E n \in Ceiling : \A m \in Ceiling : m <= n
  /\ TaskBudget \in Nat \ {0}
  /\ MaxChange \in Nat /\ MaxUpset \in Nat

Policy == [exists : BOOLEAN, enabled : BOOLEAN, limit : Ceiling \cup {0}]
NoPolicy == [exists |-> FALSE, enabled |-> FALSE, limit |-> 0]

VARIABLES
  policies,  \* [Detector -> Policy]
  jobs,      \* [FetchTask -> state, and the thread that leases it]
  workers,   \* [Thread -> what it is doing]
  registry,  \* [FetchTask -> Nat], TaskRegistry._held
  toldCancelled,  \* TaskRegistry._cancelled
  pulse,     \* the heartbeat under way
  budget,    \* the Redis counter: count, permits given and the highest limit they were under
  inApi,     \* [FetchTask -> findings the API has]
  changes, upsets

engineVars == <<policies, jobs, workers, registry, toldCancelled, pulse, budget, inApi,
                changes, upsets>>

Idle(j) == [step |-> "idle", job |-> j, limits |-> [d \in Detector |-> 0],
            cache |-> [c \in Credential |-> "none"], tries |-> [d \in Detector |-> 0],
            todo |-> {}, last |-> FALSE, acked |-> FALSE]
NoPulse == [step |-> "idle", names |-> {}]
NewMinute == [count |-> 0, permits |-> 0, top |-> 0]

EngineInit ==
  /\ policies = [d \in Detector |-> NoPolicy]
  /\ jobs = [j \in FetchTask |-> [state |-> "free", by |-> NoThread]]
  /\ workers = [w \in Thread |-> Idle(CHOOSE j \in FetchTask : TRUE)]
  /\ registry = [j \in FetchTask |-> 0]
  /\ toldCancelled = {}
  /\ pulse = NoPulse
  /\ budget = NewMinute
  /\ inApi = [j \in FetchTask |-> {}]
  /\ changes = 0 /\ upsets = 0

Upset(happens) ==
  /\ happens => upsets < MaxUpset
  /\ upsets' = IF happens THEN upsets + 1 ELSE upsets

----------------------------------------------------------------------------
\* The administrators' policies.

SetPolicy(d, p) ==
  /\ changes < MaxChange
  /\ changes' = changes + 1
  /\ policies' = [policies EXCEPT ![d] = p]
  /\ UNCHANGED <<jobs, workers, registry, toldCancelled, pulse, budget, inApi, upsets>>

CreatePolicy(d, on, n) ==
  ~policies[d].exists /\ SetPolicy(d, [exists |-> TRUE, enabled |-> on, limit |-> n])

UpdatePolicy(d, on, n) ==
  /\ policies[d].exists
  /\ SetPolicy(d, [policies[d] EXCEPT !.enabled = on, !.limit = n])
  /\ policies'[d] # policies[d]

DeletePolicy(d) == policies[d].exists /\ SetPolicy(d, NoPolicy)

\* enabled_lease_snapshot: frozen into the lease, 0 where nothing is authorised.
LeaseSnapshot == [d \in Detector |-> IF policies[d].enabled THEN policies[d].limit ELSE 0]

----------------------------------------------------------------------------
\* A thread and its task.

\* Faulty variant: the registry is a set.
HeldOnce(count) == 1
\* TaskRegistry.holding, entered: one more thread works on the task ...
HeldMore(count) == count + 1

\* A message names a task; whoever leases it works on it, and holds it meanwhile.
LeaseJob(w, j) ==
  /\ workers[w].step = "idle"
  /\ jobs[j].state = "free"
  /\ jobs' = [jobs EXCEPT ![j] = [state |-> "leased", by |-> w]]
  /\ registry' = [registry EXCEPT ![j] = HeldMore(@)]
  /\ workers' = [workers EXCEPT ![w] = [Idle(j) EXCEPT !.step = "scanning",
                                                       !.limits = LeaseSnapshot]]
  /\ UNCHANGED <<policies, toldCancelled, pulse, budget, inApi, changes, upsets>>

\* ... and left.
Released(j) ==
  /\ registry' = [registry EXCEPT ![j] = IF @ = 0 THEN 0 ELSE @ - 1]
  /\ toldCancelled' = IF registry'[j] = 0 THEN toldCancelled \ {j} ELSE toldCancelled

\* is_cancelled, looked at between units.
Abandon(w) ==
  /\ workers[w].step = "scanning" /\ workers[w].job \in toldCancelled
  /\ Released(workers[w].job)
  /\ workers' = [workers EXCEPT ![w] = Idle(@.job)]
  /\ UNCHANGED <<policies, jobs, pulse, budget, inApi, changes, upsets>>

\* _prepare begins: for a batch, or for the report once the fetch has ended, which
\* carries what no accepted batch did.
Prepare(w, last) ==
  /\ workers[w].step = "scanning"
  /\ workers' = [workers EXCEPT ![w] = [@ EXCEPT !.step = "preparing", !.last = last,
                                                 !.todo = IF workers[w].acked THEN {}
                                                           ELSE Credential]]
  /\ UNCHANGED <<policies, jobs, registry, toldCancelled, pulse, budget, inApi, changes, upsets>>

----------------------------------------------------------------------------
\* The provider.

Highest == CHOOSE n \in Ceiling : \A m \in Ceiling : m <= n

\* RedisMinuteLimiter: INCR and compare, one script.
Permits(limit) == budget.count + 1 <= limit

\* Counted no further than one past every limit.
Counted(limit) ==
  [count |-> IF budget.count > Highest THEN budget.count ELSE budget.count + 1,
   permits |-> IF Permits(limit) THEN budget.permits + 1 ELSE budget.permits,
   top |-> IF Permits(limit) /\ limit > budget.top THEN limit ELSE budget.top]

\* ValidationExecutor.validate: cached, out of the task's budget, out of the fleet's
\* (or Redis fails), or asked.  What the provider said is one answer here: no state
\* depends on whether it was live, revoked, unknown or an error.
Validate(w, c, redis) ==
  LET k == workers[w]
      d == RuleFor[c]
      limit == k.limits[d]
      asks == limit # 0 /\ k.cache[c] = "none" /\ k.tries[d] < TaskBudget
      answered == asks /\ redis /\ Permits(limit)
  IN /\ k.step = "preparing" /\ c \in k.todo
     /\ redis \/ asks
     /\ Upset(~redis)
     /\ budget' = IF asks /\ redis THEN Counted(limit) ELSE budget
     /\ workers' = [workers EXCEPT ![w] =
          [k EXCEPT !.todo = @ \ {c},
                    !.tries[d] = IF answered THEN @ + 1 ELSE @,
                    !.cache[c] = IF answered THEN "answered"
                                 ELSE IF limit # 0 /\ @ = "none" THEN "blocked" ELSE @]]
     /\ UNCHANGED <<policies, jobs, registry, toldCancelled, pulse, inApi, changes>>

\* The counter's EXPIRE.
MinuteEnds ==
  /\ budget # NewMinute
  /\ budget' = NewMinute
  /\ UNCHANGED <<policies, jobs, workers, registry, toldCancelled, pulse, inApi, changes, upsets>>

----------------------------------------------------------------------------
\* Reporting.

\* require_authorized_results: what carries a validation needs its policy enabled now.
Authorized(w) == \A c \in Credential : workers[w].cache[c] # "none" => policies[RuleFor[c]].enabled

LeasedBy(w) == jobs[workers[w].job] = [state |-> "leased", by |-> w]

\* Faulty variant: a batch the API refused is taken to be stored.
TakenAnyway(w) == TRUE
\* The ledger moves on the API's word alone.
BatchTaken(w) == LeasedBy(w) /\ Authorized(w)

SendBatch(w) ==
  LET k == workers[w] IN
  /\ k.step = "preparing" /\ ~k.last /\ k.todo = {}
  /\ inApi' = IF LeasedBy(w) /\ Authorized(w) THEN [inApi EXCEPT ![k.job] = Credential] ELSE inApi
  /\ workers' = [workers EXCEPT ![w].step = "scanning", ![w].acked = @ \/ BatchTaken(w)]
  /\ UNCHANGED <<policies, jobs, registry, toldCancelled, pulse, budget, changes, upsets>>

\* The task is no longer held while its report is sent.
FetchDone(w) ==
  LET k == workers[w] IN
  /\ k.step = "preparing" /\ k.last /\ k.todo = {}
  /\ Released(k.job)
  /\ workers' = [workers EXCEPT ![w].step = "reporting"]
  /\ UNCHANGED <<policies, jobs, pulse, budget, inApi, changes, upsets>>

\* _submit: 409 and 403 when the lease is gone, 422 for a validation no policy covers
\* any more; each leaves the task to its lease.
Report(w) ==
  LET k == workers[w]
      taken == LeasedBy(w) /\ (k.acked \/ Authorized(w)) IN
  /\ k.step = "reporting"
  /\ inApi' = IF taken /\ ~k.acked THEN [inApi EXCEPT ![k.job] = Credential] ELSE inApi
  /\ jobs' = IF taken THEN [jobs EXCEPT ![k.job] = [state |-> "done", by |-> NoThread]] ELSE jobs
  /\ workers' = [workers EXCEPT ![w] = Idle(k.job)]
  /\ UNCHANGED <<policies, registry, toldCancelled, pulse, budget, changes, upsets>>

----------------------------------------------------------------------------
\* The API's side of a lease, and the heartbeat.

\* A lease nobody renews lapses; one that is renewed only while beats fail.
Lapse(j) ==
  /\ jobs[j].state = "leased"
  /\ Upset(registry[j] # 0)
  /\ jobs' = [jobs EXCEPT ![j] = [state |-> "free", by |-> NoThread]]
  /\ UNCHANGED <<policies, workers, registry, toldCancelled, pulse, budget, inApi, changes>>

CancelJob(j) ==
  /\ jobs[j].state \in {"free", "leased"}
  /\ Upset(TRUE)
  /\ jobs' = [jobs EXCEPT ![j] = [state |-> "cancelled", by |-> NoThread]]
  /\ UNCHANGED <<policies, workers, registry, toldCancelled, pulse, budget, inApi, changes>>

BeatSent ==
  /\ pulse.step = "idle" /\ \E j \in FetchTask : registry[j] # 0
  /\ pulse' = [step |-> "sent", names |-> {j \in FetchTask : registry[j] # 0}]
  /\ UNCHANGED <<policies, jobs, workers, registry, toldCancelled, budget, inApi, changes, upsets>>

\* The API answers with the cancelled ones; an answer without any, and a beat that
\* fails, change nothing.
BeatAnswered(ok) ==
  LET named == {j \in pulse.names : jobs[j].state = "cancelled"} IN
  /\ pulse.step = "sent"
  /\ pulse' = IF ok /\ named # {} THEN [step |-> "answered", names |-> named] ELSE NoPulse
  /\ UNCHANGED <<policies, jobs, workers, registry, toldCancelled, budget, inApi, changes, upsets>>

\* note_cancelled keeps what is still held.
BeatHeard ==
  /\ pulse.step = "answered"
  /\ toldCancelled' = toldCancelled \cup {j \in pulse.names : registry[j] # 0}
  /\ pulse' = NoPulse
  /\ UNCHANGED <<policies, jobs, workers, registry, budget, inApi, changes, upsets>>

\* A crash, or a drain whose time ran out: the threads are daemons.
EngineStops ==
  /\ Upset(TRUE)
  /\ workers' = [w \in Thread |-> Idle(workers[w].job)]
  /\ registry' = [j \in FetchTask |-> 0]
  /\ toldCancelled' = {} /\ pulse' = NoPulse
  /\ UNCHANGED <<policies, jobs, budget, inApi, changes>>

EngineNext ==
  \/ \E d \in Detector :
       \/ \E on \in BOOLEAN, n \in Ceiling : CreatePolicy(d, on, n) \/ UpdatePolicy(d, on, n)
       \/ DeletePolicy(d)
  \/ \E w \in Thread :
       \/ \E j \in FetchTask : LeaseJob(w, j)
       \/ Abandon(w)
       \/ \E last \in BOOLEAN : Prepare(w, last)
       \/ \E c \in Credential, redis \in BOOLEAN : Validate(w, c, redis)
       \/ SendBatch(w) \/ FetchDone(w) \/ Report(w)
  \/ MinuteEnds
  \/ \E j \in FetchTask : Lapse(j) \/ CancelJob(j)
  \/ BeatSent \/ (\E ok \in BOOLEAN : BeatAnswered(ok)) \/ BeatHeard
  \/ EngineStops

EngineSpec == EngineInit /\ [][EngineNext]_engineVars

----------------------------------------------------------------------------
LeaseRow == [state : {"free", "leased", "done", "cancelled"}, by : Thread \cup {NoThread}]
ThreadState ==
  [step : {"idle", "scanning", "preparing", "reporting"}, job : FetchTask,
   limits : [Detector -> Ceiling \cup {0}], cache : [Credential -> {"none", "blocked", "answered"}],
   tries : [Detector -> 0..TaskBudget], todo : SUBSET Credential, last : BOOLEAN, acked : BOOLEAN]
BudgetMinute == [count : Nat, permits : Nat, top : Ceiling \cup {0}]

EngineTypeOK ==
  /\ policies \in [Detector -> Policy]
  /\ jobs \in [FetchTask -> LeaseRow]
  /\ workers \in [Thread -> ThreadState]
  /\ registry \in [FetchTask -> Nat] /\ toldCancelled \subseteq FetchTask
  /\ pulse \in [step : {"idle", "sent", "answered"}, names : SUBSET FetchTask]
  /\ budget \in BudgetMinute
  /\ inApi \in [FetchTask -> SUBSET Credential]
  /\ changes \in 0..MaxChange /\ upsets \in 0..MaxUpset

Working(w) == workers[w].step \in {"scanning", "preparing"}

\* Every heartbeat names what some thread is working on, a second attempt at a task
\* the first thread is still leaving included; and no thread is told to abandon a task
\* nobody cancelled, also when the word comes after its own attempt has gone
\* (TaskRegistry).
LiveAttemptsBeaten ==
  /\ \A w \in Thread : Working(w) => registry[workers[w].job] # 0
  /\ \A j \in toldCancelled : jobs[j].state = "cancelled" /\ registry[j] # 0

\* An administrator who revokes a policy while engines hold results under it costs no
\* finding: what the API refuses stays unreported, and the task is done only with
\* everything stored (require_authorized_results, _Batcher.deliver, _submit).
RevocationLosesNothing == \A j \in FetchTask : jobs[j].state = "done" => inApi[j] = Credential

\* Between two expiries of the counter the fleet asks the provider no more often than
\* the highest limit it was permitted under (RedisMinuteLimiter.acquire).
FleetCeiling == budget.permits <= budget.top
=============================================================================
