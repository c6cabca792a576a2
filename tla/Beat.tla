-------------------------------- MODULE Beat --------------------------------
(***************************************************************************)
(* The maintenance beat (maintenance.py) and its two jobs that no other    *)
(* module models: the scheduler tick (scheduler.py, scheduler_launcher.py) *)
(* and the fleet sweep (engines/fleet.py), with the schedule routes and    *)
(* the engine heartbeat that run beside them.                              *)
(*                                                                         *)
(* Every replica beats.  A round is held together by an advisory lock on a *)
(* guard connection of its own, which the server frees when the process    *)
(* dies or the connection drops; the launcher commits in mid-tick, which   *)
(* also commits the bookkeeping of the schedules before it, and a process  *)
(* that dies loses the bookkeeping it had not committed.                   *)
(***************************************************************************)
EXTENDS Naturals, FiniteSets

CONSTANTS
  Cadence,        \* schedules, each on a source of its own
  Beater,         \* API replicas
  Nobody,         \* the advisory lock is free
  Probe,          \* engines
  MaxArrival,     \* bound on schedules coming due and heartbeats, together
  MaxMishap       \* bound on deaths, dropped guards, failing launches and deletions

ASSUME BeatAssumption ==
  /\ Nobody \notin Beater
  /\ MaxArrival \in Nat /\ MaxMishap \in Nat

VARIABLES
  schedule,    \* [Cadence -> its row: absent, off, waiting for next_run_at, or due]
  scanning,    \* schedules whose source has an active scan
  guard,       \* who holds the advisory lock
  round,       \* [Beater -> where its round is]
  todo,        \* [Beater -> due schedules its tick loaded and has not come to]
  noted,       \* [Beater -> schedules whose bookkeeping is written, not committed]
  stale,       \* [Beater -> engines its fleet sweep selected]
  engine,      \* [Probe -> status, and how old last_heartbeat_at is]
  beating,     \* [Probe -> the status a heartbeat in flight loaded, or "none"]
  arrivals,    \* schedules that came due and heartbeats so far
  fires,       \* [Cadence -> scans launched since it last came due]
  mishaps,
  blind        \* engines swept while a heartbeat that loaded them was in flight

bvars == <<schedule, scanning, guard, round, todo, noted, stale, engine, beating, arrivals,
           fires, mishaps, blind>>
tickVars == <<schedule, scanning, guard, round, todo, noted, fires, mishaps>>
fleetVars == <<stale, engine, beating, blind>>

EngineRow == [status : {"active", "offline"}, heard : {"never", "fresh", "stale"}]

BeatInit ==
  /\ schedule = [s \in Cadence |-> "absent"]
  /\ scanning = {}
  /\ guard = Nobody
  /\ round = [r \in Beater |-> "idle"]
  /\ todo = [r \in Beater |-> {}]
  /\ noted = [r \in Beater |-> {}]
  /\ stale = [r \in Beater |-> {}]
  /\ engine = [e \in Probe |-> [status |-> "active", heard |-> "never"]]
  /\ beating = [e \in Probe |-> "none"]
  /\ arrivals = 0
  /\ fires = [s \in Cadence |-> 0]
  /\ mishaps = 0
  /\ blind = {}

----------------------------------------------------------------------------
\* The schedule routes and the clock.

\* create_schedule, and update_schedule: every change recomputes next_run_at from
\* now, so neither makes a schedule due.
SetSchedule(s, enabled) ==
  /\ schedule' = [schedule EXCEPT ![s] = IF enabled THEN "waiting" ELSE "off"]
  /\ schedule[s] # schedule'[s]
  /\ UNCHANGED <<scanning, guard, round, todo, noted, arrivals, fires, mishaps, fleetVars>>

\* next_run_at arrives.
ComesDue(s) ==
  /\ schedule[s] = "waiting"
  /\ arrivals < MaxArrival
  /\ schedule' = [schedule EXCEPT ![s] = "due"]
  /\ arrivals' = arrivals + 1
  /\ fires' = [fires EXCEPT ![s] = 0]
  /\ UNCHANGED <<scanning, guard, round, todo, noted, mishaps, fleetVars>>

\* A scan of the source is launched by hand.
ManualScan(s) ==
  /\ s \notin scanning
  /\ scanning' = scanning \cup {s}
  /\ UNCHANGED <<schedule, guard, round, todo, noted, arrivals, fires, mishaps, fleetVars>>

ScanOver(s) ==
  /\ scanning' = scanning \ {s}
  /\ s \in scanning
  /\ UNCHANGED <<schedule, guard, round, todo, noted, arrivals, fires, mishaps, fleetVars>>

----------------------------------------------------------------------------
\* The round.  The schedules it has come to are the ones no longer in todo.

\* Faulty variant: every replica runs its round.
RoundBeginUnled(r) ==
  /\ round[r] = "idle"
  /\ guard' = r
  /\ round' = [round EXCEPT ![r] = "tick"]
  /\ todo' = [todo EXCEPT ![r] = {s \in Cadence : schedule[s] = "due"}]
  /\ noted' = [noted EXCEPT ![r] = {}]
  /\ UNCHANGED <<schedule, scanning, arrivals, fires, mishaps, fleetVars>>

\* run_once: the guard session tries the lock, and a replica without it is done.
RoundBegin(r) ==
  /\ round[r] = "idle"
  /\ guard = Nobody
  /\ guard' = r
  /\ round' = [round EXCEPT ![r] = "tick"]
  /\ todo' = [todo EXCEPT ![r] = {s \in Cadence : schedule[s] = "due"}]   \* due_schedules
  /\ noted' = [noted EXCEPT ![r] = {}]
  /\ UNCHANGED <<schedule, scanning, arrivals, fires, mishaps, fleetVars>>

\* Writing last_run_at and next_run_at: with enabled kept, the schedule waits again.
Advanced(ss) ==
  [s \in Cadence |-> IF s \in ss /\ schedule[s] = "due" THEN "waiting" ELSE schedule[s]]

\* A conflicting launch is undone by its own SAVEPOINT: the bookkeeping written
\* before it stays in the transaction.
AfterConflict(r, s) == noted[r] \cup {s}

\* launch_scan commits the new scan, its discovery task, and with them whatever
\* bookkeeping was pending; this schedule's own is written after.
TickLaunch(r, s) ==
  /\ round[r] = "tick" /\ s \in todo[r] /\ schedule[s] # "absent"
  /\ s \notin scanning
  /\ scanning' = scanning \cup {s}
  /\ fires' = [fires EXCEPT ![s] = @ + 1]
  /\ schedule' = Advanced(noted[r])
  /\ noted' = [noted EXCEPT ![r] = {s}]
  /\ todo' = [todo EXCEPT ![r] = @ \ {s}]
  /\ UNCHANGED <<guard, round, arrivals, mishaps, fleetVars>>

\* The launcher declines: a missing or disabled source, or ScanConflict.
TickSkip(r, s) ==
  /\ round[r] = "tick" /\ s \in todo[r] /\ schedule[s] # "absent"
  /\ s \in scanning
  /\ noted' = [noted EXCEPT ![r] = AfterConflict(r, s)]
  /\ todo' = [todo EXCEPT ![r] = @ \ {s}]
  /\ UNCHANGED <<schedule, scanning, guard, round, arrivals, fires, mishaps, fleetVars>>

\* The launcher raises: this schedule keeps its next_run_at, the others go on.
TickRaises(r, s) ==
  /\ round[r] = "tick" /\ s \in todo[r] /\ schedule[s] # "absent"
  /\ mishaps < MaxMishap
  /\ mishaps' = mishaps + 1
  /\ todo' = [todo EXCEPT ![r] = @ \ {s}]
  /\ UNCHANGED <<schedule, scanning, guard, round, noted, arrivals, fires, fleetVars>>

TickCommit(r) ==
  /\ round[r] = "tick" /\ todo[r] = {}
  /\ noted[r] \subseteq {s \in Cadence : schedule[s] # "absent"}
  /\ schedule' = Advanced(noted[r])
  /\ noted' = [noted EXCEPT ![r] = {}]
  /\ round' = [round EXCEPT ![r] = "fleet"]
  /\ UNCHANGED <<scanning, guard, todo, arrivals, fires, mishaps, fleetVars>>

\* Faulty variant: a round that fails leaves the lock on its pooled connection.
AbandonedLocked(r) ==
  /\ round' = [round EXCEPT ![r] = "idle"]
  /\ todo' = [todo EXCEPT ![r] = {}]
  /\ noted' = [noted EXCEPT ![r] = {}]
  /\ stale' = [stale EXCEPT ![r] = {}]
  /\ guard' = guard

\* The round is over and its guard session closed: what it had not committed is gone.
Abandoned(r) ==
  /\ round' = [round EXCEPT ![r] = "idle"]
  /\ todo' = [todo EXCEPT ![r] = {}]
  /\ noted' = [noted EXCEPT ![r] = {}]
  /\ stale' = [stale EXCEPT ![r] = {}]
  /\ guard' = IF guard = r THEN Nobody ELSE guard

\* A schedule the tick still holds was deleted by another replica: reading it
\* again, or writing its bookkeeping, raises, and so does the handler that wants
\* to log its id.  The round is given up with what it had not committed.
TickAborts(r) ==
  /\ round[r] = "tick"
  /\ \E s \in todo[r] \cup noted[r] : schedule[s] = "absent"
  /\ Abandoned(r)
  /\ UNCHANGED <<schedule, scanning, arrivals, fires, mishaps, engine, beating, blind>>

DeleteSchedule(s) ==
  /\ schedule[s] # "absent"
  /\ mishaps < MaxMishap
  /\ mishaps' = mishaps + 1
  /\ schedule' = [schedule EXCEPT ![s] = "absent"]
  /\ UNCHANGED <<scanning, guard, round, todo, noted, arrivals, fires, fleetVars>>

BeaterDies(r) ==
  /\ round[r] # "idle"
  /\ mishaps < MaxMishap
  /\ mishaps' = mishaps + 1
  /\ Abandoned(r)
  /\ UNCHANGED <<schedule, scanning, arrivals, fires, engine, beating, blind>>

\* The guard connection drops while the round goes on with connections of its own.
GuardDrops(r) ==
  /\ guard = r
  /\ mishaps < MaxMishap
  /\ mishaps' = mishaps + 1
  /\ guard' = Nobody
  /\ UNCHANGED <<schedule, scanning, round, todo, noted, arrivals, fires, fleetVars>>

RoundEnd(r) ==
  /\ round[r] = "rest"
  /\ round' = [round EXCEPT ![r] = "idle"]
  /\ guard' = IF guard = r THEN Nobody ELSE guard
  /\ UNCHANGED <<schedule, scanning, todo, noted, arrivals, fires, mishaps, fleetVars>>

----------------------------------------------------------------------------
\* Fleet health.

FleetSelect(r) ==
  /\ round[r] = "fleet"
  /\ round' = [round EXCEPT ![r] = "mark"]
  /\ stale' = [stale EXCEPT ![r] = {e \in Probe : engine[e].status # "offline"
                                                   /\ engine[e].heard = "stale"}]
  /\ UNCHANGED <<schedule, scanning, guard, todo, noted, arrivals, fires, mishaps, engine,
                 beating, blind>>

\* Faulty variant: the UPDATE trusts the SELECT.
TrustSelect(e) == engine[e].status # "offline"
\* The UPDATE repeats the condition the SELECT had.
StillQuiet(e) == engine[e].status # "offline" /\ engine[e].heard = "stale"

FleetMark(r) ==
  /\ round[r] = "mark"
  /\ LET marked == {e \in stale[r] : StillQuiet(e)}
     IN /\ engine' = [e \in Probe |-> IF e \in marked THEN [engine[e] EXCEPT !.status = "offline"]
                                                      ELSE engine[e]]
        /\ blind' = blind \cup {e \in marked : beating[e] # "none"}
  /\ stale' = [stale EXCEPT ![r] = {}]
  /\ round' = [round EXCEPT ![r] = "rest"]
  /\ UNCHANGED <<schedule, scanning, guard, todo, noted, arrivals, fires, mishaps, beating>>

GoesQuiet(e) ==
  /\ engine[e].heard = "fresh"
  /\ engine' = [engine EXCEPT ![e].heard = "stale"]
  /\ UNCHANGED <<tickVars, stale, beating, arrivals, blind>>

\* current_engine loads the row, record_heartbeat stamps it; the flush writes the
\* status only if the row that was loaded was offline.
HeartbeatLoads(e) ==
  /\ beating[e] = "none"
  /\ arrivals < MaxArrival
  /\ arrivals' = arrivals + 1
  /\ beating' = [beating EXCEPT ![e] = engine[e].status]
  /\ UNCHANGED <<tickVars, stale, engine, blind>>

HeartbeatCommits(e) ==
  /\ beating[e] # "none"
  /\ engine' = [engine EXCEPT ![e] =
                  [status |-> IF beating[e] = "offline" THEN "active" ELSE @.status,
                   heard |-> "fresh"]]
  /\ beating' = [beating EXCEPT ![e] = "none"]
  /\ blind' = IF beating[e] = "offline" THEN blind \ {e} ELSE blind
  /\ UNCHANGED <<tickVars, stale, arrivals>>

----------------------------------------------------------------------------
TickStep(r) ==
  \/ \E s \in Cadence : TickLaunch(r, s) \/ TickSkip(r, s)
  \/ TickCommit(r) \/ TickAborts(r)
  \/ FleetSelect(r) \/ FleetMark(r) \/ RoundEnd(r)

BeatNext ==
  \/ \E s \in Cadence : ComesDue(s) \/ ManualScan(s) \/ ScanOver(s) \/ DeleteSchedule(s)
                        \/ \E b \in BOOLEAN : SetSchedule(s, b)
  \/ \E r \in Beater : RoundBegin(r) \/ TickStep(r) \/ BeaterDies(r) \/ GuardDrops(r)
                       \/ \E s \in Cadence : TickRaises(r, s)
  \/ \E e \in Probe : GoesQuiet(e) \/ HeartbeatLoads(e) \/ HeartbeatCommits(e)

\* Every replica's loop sleeps and runs a round, whatever the last one did.
BeatFairness ==
  /\ WF_bvars(\E r \in Beater : RoundBegin(r))
  /\ \A r \in Beater : WF_bvars(TickStep(r))

BeatSpec == BeatInit /\ [][BeatNext]_bvars /\ BeatFairness

----------------------------------------------------------------------------
BeatTypeOK ==
  /\ schedule \in [Cadence -> {"absent", "off", "waiting", "due"}]
  /\ scanning \subseteq Cadence
  /\ guard \in Beater \cup {Nobody}
  /\ round \in [Beater -> {"idle", "tick", "fleet", "mark", "rest"}]
  /\ todo \in [Beater -> SUBSET Cadence]
  /\ noted \in [Beater -> SUBSET Cadence]
  /\ stale \in [Beater -> SUBSET Probe]
  /\ engine \in [Probe -> EngineRow]
  /\ beating \in [Probe -> {"none", "active", "offline"}]
  /\ arrivals \in 0..MaxArrival
  /\ fires \in [Cadence -> Nat]
  /\ mishaps \in 0..MaxMishap
  /\ blind \subseteq Probe

\* A schedule that came due launches one scan however many replicas beat and
\* however its neighbours' launches end; only a death, a dropped guard, a deletion
\* under the tick or a failing launch can cost it a second one.
FiresOnce == \A s \in Cadence : fires[s] <= 1 + mishaps

\* An engine shown offline has been silent, unless it spoke in the very moment it
\* was swept (then its next heartbeat brings it back).
HeartbeatWins ==
  \A e \in Probe : engine[e].status = "offline" /\ engine[e].heard = "fresh" => e \in blind

\* A schedule that came due is dealt with: it fires or is skipped and waits for
\* its next time, or an administrator took it away; deaths and dropped guards
\* only delay it.
DueScheduleAdvances == \A s \in Cadence : schedule[s] = "due" ~> schedule[s] # "due"

=============================================================================
