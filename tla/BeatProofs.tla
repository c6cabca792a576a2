------------------------------ MODULE BeatProofs ------------------------------
(* Proofs about Beat, for every number of replicas, schedules and engines, any  *)
(* number of heartbeats and mishaps, and about Accounts, for every set of       *)
(* subjects, seeds and tabs, every number of logins, changes and key rotations. *)
EXTENDS Beat, Accounts, FiniteSetTheorems, TLAPS

USE BeatAssumption

\* A heartbeat in flight that loaded an engine the sweep has since marked.
SweptInFlight ==
  \A e \in Probe : beating[e] = "active" /\ engine[e].status = "offline" => e \in blind

FleetTypeOK ==
  /\ engine \in [Probe -> EngineRow]
  /\ beating \in [Probe -> {"none", "active", "offline"}]

FleetInv == FleetTypeOK /\ SweptInFlight /\ HeartbeatWins

LEMMA FleetInit == BeatInit => FleetInv
BY DEF BeatInit, FleetInv, FleetTypeOK, EngineRow, SweptInFlight, HeartbeatWins

\* The routes, the tick and the lock leave the fleet alone.
LEMMA FleetUntouched ==
  ASSUME FleetInv, UNCHANGED <<engine, beating, blind>>
  PROVE  FleetInv'
BY DEF FleetInv, FleetTypeOK, SweptInFlight, HeartbeatWins

LEMMA ScheduleSteps ==
  ASSUME FleetInv, NEW s \in Cadence,
         \/ ComesDue(s) \/ ManualScan(s) \/ ScanOver(s) \/ DeleteSchedule(s)
         \/ \E b \in BOOLEAN : SetSchedule(s, b)
  PROVE  FleetInv'
BY FleetUntouched DEF ComesDue, ManualScan, ScanOver, DeleteSchedule, SetSchedule, fleetVars

LEMMA MarkStep ==
  ASSUME FleetInv, NEW r \in Beater, FleetMark(r)
  PROVE  FleetInv'
<1> DEFINE marked == {e \in stale[r] : StillQuiet(e)}
<1>1. /\ engine' = [e \in Probe |-> IF e \in marked THEN [engine[e] EXCEPT !.status = "offline"]
                                    ELSE engine[e]]
      /\ blind' = blind \cup {e \in marked : beating[e] # "none"}
      /\ beating' = beating
  BY DEF FleetMark
<1>2. \A e \in marked : engine[e].heard = "stale"
  BY DEF StillQuiet
<1>3. \A e \in Probe : engine[e] \in EngineRow
  BY DEF FleetInv, FleetTypeOK
<1> HIDE DEF marked
<1>4. \A e \in Probe : /\ engine'[e] \in EngineRow
                       /\ engine'[e].heard = engine[e].heard
                       /\ e \notin marked => engine'[e] = engine[e]
  BY <1>1, <1>3 DEF EngineRow
<1>5. FleetTypeOK'
  BY <1>1, <1>4 DEF FleetInv, FleetTypeOK
<1>6. SweptInFlight'
  BY <1>1, <1>4 DEF FleetInv, FleetTypeOK, SweptInFlight
<1>7. HeartbeatWins'
  BY <1>1, <1>2, <1>4 DEF FleetInv, HeartbeatWins
<1>8. QED
  BY <1>5, <1>6, <1>7 DEF FleetInv

LEMMA RoundSteps ==
  ASSUME FleetInv, NEW r \in Beater,
         \/ RoundBegin(r) \/ TickStep(r) \/ BeaterDies(r) \/ GuardDrops(r)
         \/ \E s \in Cadence : TickRaises(r, s)
  PROVE  FleetInv'
<1>1. CASE FleetMark(r)
  BY <1>1, MarkStep
<1>2. CASE RoundBegin(r) \/ BeaterDies(r) \/ GuardDrops(r) \/ \E s \in Cadence : TickRaises(r, s)
  BY <1>2, FleetUntouched DEF RoundBegin, BeaterDies, GuardDrops, TickRaises, fleetVars
<1>3. CASE \E s \in Cadence : TickLaunch(r, s) \/ TickSkip(r, s)
  BY <1>3, FleetUntouched DEF TickLaunch, TickSkip, fleetVars
<1>4. CASE TickCommit(r) \/ TickAborts(r) \/ FleetSelect(r) \/ RoundEnd(r)
  BY <1>4, FleetUntouched DEF TickCommit, TickAborts, FleetSelect, RoundEnd, fleetVars
<1>5. QED
  BY <1>1, <1>2, <1>3, <1>4 DEF TickStep

LEMMA EngineSteps ==
  ASSUME FleetInv, NEW e \in Probe,
         GoesQuiet(e) \/ HeartbeatLoads(e) \/ HeartbeatCommits(e)
  PROVE  FleetInv'
<1>1. engine[e] \in EngineRow
  BY DEF FleetInv, FleetTypeOK
<1>2. CASE GoesQuiet(e)
  <2>1. [engine[e] EXCEPT !.heard = "stale"] \in EngineRow
    BY <1>1 DEF EngineRow
  <2>2. QED
    BY <1>1, <1>2, <2>1 DEF GoesQuiet, FleetInv, FleetTypeOK, SweptInFlight, HeartbeatWins,
       EngineRow
<1>3. CASE HeartbeatLoads(e)
  BY <1>1, <1>3 DEF HeartbeatLoads, FleetInv, FleetTypeOK, SweptInFlight, HeartbeatWins, EngineRow
<1>4. CASE HeartbeatCommits(e)
  BY <1>1, <1>4 DEF HeartbeatCommits, FleetInv, FleetTypeOK, SweptInFlight, HeartbeatWins,
     EngineRow
<1>5. QED
  BY <1>2, <1>3, <1>4

LEMMA FleetStep == FleetInv /\ [BeatNext]_bvars => FleetInv'
<1> SUFFICES ASSUME FleetInv, [BeatNext]_bvars PROVE FleetInv'
  OBVIOUS
<1>1. CASE UNCHANGED bvars
  BY <1>1, FleetUntouched DEF bvars
<1>2. CASE BeatNext
  BY <1>2, ScheduleSteps, RoundSteps, EngineSteps DEF BeatNext
<1>3. QED
  BY <1>1, <1>2

\* An engine that has been heard from is shown offline only if its heartbeat was in
\* flight when the sweep marked it: the UPDATE of mark_stale_engines_offline repeats the
\* condition its SELECT had.
THEOREM HeartbeatsWin == BeatSpec => []HeartbeatWins
<1>1. FleetInv => HeartbeatWins
  BY DEF FleetInv
<1>2. QED
  BY FleetInit, FleetStep, <1>1, PTL DEF BeatSpec

----------------------------------------------------------------------------
(* Types. *)

LEMMA BeatTypesInit == BeatInit => BeatTypeOK
BY DEF BeatInit, BeatTypeOK, EngineRow

LEMMA ScheduleTypes ==
  ASSUME BeatTypeOK, NEW s \in Cadence,
         \/ ComesDue(s) \/ ManualScan(s) \/ ScanOver(s) \/ DeleteSchedule(s)
         \/ \E b \in BOOLEAN : SetSchedule(s, b)
  PROVE  BeatTypeOK'
BY DEF ComesDue, ManualScan, ScanOver, DeleteSchedule, SetSchedule, fleetVars, BeatTypeOK

LEMMA AdvancedType ==
  ASSUME BeatTypeOK, NEW ss
  PROVE  Advanced(ss) \in [Cadence -> {"absent", "off", "waiting", "due"}]
BY DEF Advanced, BeatTypeOK

LEMMA AbandonedTypes ==
  ASSUME BeatTypeOK, NEW r \in Beater, Abandoned(r)
  PROVE  /\ guard' \in Beater \cup {Nobody}
         /\ round' \in [Beater -> {"idle", "tick", "fleet", "mark", "rest"}]
         /\ todo' \in [Beater -> SUBSET Cadence] /\ noted' \in [Beater -> SUBSET Cadence]
         /\ stale' \in [Beater -> SUBSET Probe]
<1>1. {} \in SUBSET Cadence /\ {} \in SUBSET Probe
  OBVIOUS
<1>2. QED
  BY <1>1 DEF Abandoned, BeatTypeOK

LEMMA TickTypes ==
  ASSUME BeatTypeOK, NEW r \in Beater, NEW s \in Cadence,
         TickLaunch(r, s) \/ TickSkip(r, s) \/ TickRaises(r, s)
  PROVE  BeatTypeOK'
<1>1. /\ {s} \in SUBSET Cadence /\ todo[r] \ {s} \in SUBSET Cadence
      /\ noted[r] \cup {s} \in SUBSET Cadence /\ fires[s] + 1 \in Nat
  BY DEF BeatTypeOK
<1>2. CASE TickLaunch(r, s)
  <2>1. schedule' \in [Cadence -> {"absent", "off", "waiting", "due"}]
    BY <1>2, AdvancedType DEF TickLaunch
  <2>2. QED
    BY <1>1, <1>2, <2>1 DEF TickLaunch, fleetVars, BeatTypeOK
<1>3. CASE TickSkip(r, s)
  BY <1>1, <1>3 DEF TickSkip, AfterConflict, fleetVars, BeatTypeOK
<1>4. CASE TickRaises(r, s)
  BY <1>1, <1>4 DEF TickRaises, fleetVars, BeatTypeOK
<1>5. QED
  BY <1>2, <1>3, <1>4

LEMMA RoundTypes ==
  ASSUME BeatTypeOK, NEW r \in Beater,
         \/ RoundBegin(r) \/ TickCommit(r) \/ TickAborts(r) \/ BeaterDies(r) \/ GuardDrops(r)
         \/ FleetSelect(r) \/ FleetMark(r) \/ RoundEnd(r)
  PROVE  BeatTypeOK'
<1>1. {} \in SUBSET Cadence /\ {} \in SUBSET Probe
  OBVIOUS
<1>2. CASE RoundBegin(r)
  <2>1. {s \in Cadence : schedule[s] = "due"} \in SUBSET Cadence
    OBVIOUS
  <2>2. QED
    BY <1>1, <1>2, <2>1 DEF RoundBegin, fleetVars, BeatTypeOK
<1>3. CASE TickCommit(r)
  <2>1. schedule' \in [Cadence -> {"absent", "off", "waiting", "due"}]
    BY <1>3, AdvancedType DEF TickCommit
  <2>2. QED
    BY <1>1, <1>3, <2>1 DEF TickCommit, fleetVars, BeatTypeOK
<1>4. CASE TickAborts(r) \/ BeaterDies(r)
  <2>1. Abandoned(r)
    BY <1>4 DEF TickAborts, BeaterDies
  <2>2. /\ schedule' = schedule /\ scanning' = scanning /\ arrivals' = arrivals
        /\ fires' = fires /\ engine' = engine /\ beating' = beating /\ blind' = blind
    BY <1>4 DEF TickAborts, BeaterDies
  <2>3. mishaps' \in 0..MaxMishap
    BY <1>4 DEF TickAborts, BeaterDies, BeatTypeOK
  <2>4. QED
    BY <2>2, <2>3, <2>1, AbandonedTypes DEF BeatTypeOK
<1>5. CASE GuardDrops(r) \/ RoundEnd(r)
  BY <1>5 DEF GuardDrops, RoundEnd, fleetVars, BeatTypeOK
<1>6. CASE FleetSelect(r)
  <2>1. {e \in Probe : engine[e].status # "offline" /\ engine[e].heard = "stale"} \in SUBSET Probe
    OBVIOUS
  <2>2. QED
    BY <1>6, <2>1 DEF FleetSelect, BeatTypeOK
<1>7. CASE FleetMark(r)
  <2> DEFINE marked == {e \in stale[r] : StillQuiet(e)}
  <2>1. /\ engine' = [e \in Probe |-> IF e \in marked THEN [engine[e] EXCEPT !.status = "offline"]
                                      ELSE engine[e]]
        /\ blind' = blind \cup {e \in marked : beating[e] # "none"}
    BY <1>7 DEF FleetMark
  <2>2. marked \subseteq Probe
    BY DEF BeatTypeOK
  <2> HIDE DEF marked
  <2>3. engine' \in [Probe -> EngineRow] /\ blind' \subseteq Probe
    BY <2>1, <2>2 DEF BeatTypeOK, EngineRow
  <2>4. QED
    BY <1>1, <1>7, <2>3 DEF FleetMark, BeatTypeOK
<1>8. QED
  BY <1>2, <1>3, <1>4, <1>5, <1>6, <1>7

LEMMA EngineTypes ==
  ASSUME BeatTypeOK, NEW e \in Probe,
         GoesQuiet(e) \/ HeartbeatLoads(e) \/ HeartbeatCommits(e)
  PROVE  BeatTypeOK'
<1>1. engine[e] \in EngineRow
  BY DEF BeatTypeOK
<1>2. CASE GoesQuiet(e)
  <2>1. [engine[e] EXCEPT !.heard = "stale"] \in EngineRow
    BY <1>1 DEF EngineRow
  <2>2. QED
    BY <1>2, <2>1 DEF GoesQuiet, tickVars, BeatTypeOK
<1>3. CASE HeartbeatLoads(e)
  BY <1>1, <1>3 DEF HeartbeatLoads, tickVars, BeatTypeOK, EngineRow
<1>4. CASE HeartbeatCommits(e)
  BY <1>1, <1>4 DEF HeartbeatCommits, tickVars, BeatTypeOK, EngineRow
<1>5. QED
  BY <1>2, <1>3, <1>4

LEMMA BeatTypesStep == BeatTypeOK /\ [BeatNext]_bvars => BeatTypeOK'
<1> SUFFICES ASSUME BeatTypeOK, [BeatNext]_bvars PROVE BeatTypeOK'
  OBVIOUS
<1>1. CASE UNCHANGED bvars
  BY <1>1 DEF bvars, BeatTypeOK
<1>2. CASE BeatNext
  BY <1>2, ScheduleTypes, TickTypes, RoundTypes, EngineTypes DEF BeatNext, TickStep
<1>3. QED
  BY <1>1, <1>2

\* Every step of the beat, its jobs and the routes beside it keeps the state well typed.
THEOREM BeatTyped == BeatSpec => []BeatTypeOK
BY BeatTypesInit, BeatTypesStep, PTL DEF BeatSpec

----------------------------------------------------------------------------
(* How often a schedule fires.  A scan that may still be launched for a         *)
(* schedule is owed by a round that loaded it, or by the next round when the    *)
(* schedule is due and the round under the lock has not come to it; losing the  *)
(* lock and losing bookkeeping are the mishaps that add one.                    *)

Loaders(s) == {r \in Beater : s \in todo[r]}

\* Rounds that go on without the lock.
Unguarded == {r \in Beater : round[r] = "tick" /\ guard # r}

\* The round under the lock has the schedule: loaded, or written and not committed.
Dealt(s) == guard \in Beater /\ s \in todo[guard] \cup noted[guard]

\* 1 when the next round would load the schedule.
Owed(s) == IF schedule[s] = "due" /\ ~Dealt(s) THEN 1 ELSE 0

\* 1 when the round under the lock holds a deleted schedule and will be given up.
Doom == IF guard \in Beater /\ \E s \in todo[guard] \cup noted[guard] : schedule[s] = "absent"
        THEN 1 ELSE 0

OnlyTicking == \A r \in Beater : todo[r] \cup noted[r] # {} => round[r] = "tick"

UnguardedPaid == IsFiniteSet(Unguarded) /\ Cardinality(Unguarded) + Doom <= mishaps

FiresPaid ==
  \A s \in Cadence : fires[s] + Cardinality(Loaders(s)) + Owed(s) + Doom <= 1 + mishaps

TickInv == OnlyTicking /\ UnguardedPaid /\ FiresPaid

LEMMA Bits == Doom \in {0, 1} /\ \A s : Owed(s) \in {0, 1}
BY DEF Doom, Owed

LEMMA OneMore ==
  ASSUME NEW S, NEW x, IsFiniteSet(S)
  PROVE  /\ IsFiniteSet(S \cup {x}) /\ Cardinality(S) \in Nat
         /\ Cardinality(S \cup {x}) \in Nat /\ Cardinality(S \cup {x}) <= Cardinality(S) + 1
<1>1. Cardinality(S) \in Nat
  BY FS_CardinalityType
<1>2. /\ IsFiniteSet(S \cup {x})
      /\ Cardinality(S \cup {x}) = IF x \in S THEN Cardinality(S) ELSE Cardinality(S) + 1
  BY FS_AddElement
<1>3. QED
  BY <1>1, <1>2

LEMMA LoadersCounted ==
  ASSUME BeatTypeOK, OnlyTicking, IsFiniteSet(Unguarded), NEW s
  PROVE  /\ IsFiniteSet(Loaders(s)) /\ Cardinality(Loaders(s)) \in Nat
         /\ Cardinality(Unguarded) \in Nat
         /\ Cardinality(Loaders(s)) <= Cardinality(Unguarded) + 1
         /\ guard \notin Loaders(s) => Cardinality(Loaders(s)) <= Cardinality(Unguarded)
<1>1. Loaders(s) \subseteq Unguarded \cup {guard}
  BY DEF Loaders, Unguarded, OnlyTicking
<1>2. /\ IsFiniteSet(Unguarded \cup {guard}) /\ Cardinality(Unguarded) \in Nat
      /\ Cardinality(Unguarded \cup {guard}) \in Nat
      /\ Cardinality(Unguarded \cup {guard}) <= Cardinality(Unguarded) + 1
  BY OneMore
<1>3. IsFiniteSet(Loaders(s)) /\ Cardinality(Loaders(s)) <= Cardinality(Unguarded \cup {guard})
  BY <1>1, <1>2, FS_Subset
<1>4. Cardinality(Loaders(s)) \in Nat
  BY <1>3, FS_CardinalityType
<1>5. ASSUME guard \notin Loaders(s)
      PROVE  Cardinality(Loaders(s)) <= Cardinality(Unguarded)
  <2>1. Loaders(s) \subseteq Unguarded
    BY <1>1, <1>5
  <2>2. QED
    BY <2>1, FS_Subset
<1>6. QED
  BY <1>2, <1>3, <1>4, <1>5

LEMMA FewerLoaders ==
  ASSUME BeatTypeOK, TickInv, NEW s, Loaders(s)' \subseteq Loaders(s)
  PROVE  /\ Cardinality(Loaders(s)) \in Nat /\ Cardinality(Loaders(s)') \in Nat
         /\ Cardinality(Loaders(s)') <= Cardinality(Loaders(s))
<1>1. IsFiniteSet(Loaders(s))
  BY LoadersCounted DEF TickInv, UnguardedPaid
<1>2. IsFiniteSet(Loaders(s)') /\ Cardinality(Loaders(s)') <= Cardinality(Loaders(s))
  BY <1>1, FS_Subset
<1>3. QED
  BY <1>1, <1>2, FS_CardinalityType

LEMMA FewerUnguarded ==
  ASSUME TickInv, Unguarded' \subseteq Unguarded
  PROVE  /\ IsFiniteSet(Unguarded')
         /\ Cardinality(Unguarded) \in Nat /\ Cardinality(Unguarded') \in Nat
         /\ Cardinality(Unguarded') <= Cardinality(Unguarded)
<1>1. IsFiniteSet(Unguarded') /\ Cardinality(Unguarded') <= Cardinality(Unguarded)
  BY FS_Subset DEF TickInv, UnguardedPaid
<1>2. QED
  BY <1>1, FS_CardinalityType DEF TickInv, UnguardedPaid

\* A step that launches nothing and owes nothing new.
LEMMA Settles ==
  ASSUME BeatTypeOK, BeatTypeOK', TickInv, OnlyTicking',
         fires' = fires, mishaps' = mishaps,
         Unguarded' \subseteq Unguarded, Doom' <= Doom,
         \A s \in Cadence : /\ Loaders(s)' \subseteq Loaders(s)
                            /\ Owed(s)' + Doom' <= Owed(s) + Doom
  PROVE  TickInv'
<1>1. Doom \in {0, 1} /\ Doom' \in {0, 1} /\ mishaps \in Nat
  BY Bits DEF BeatTypeOK, Doom
<1>2. UnguardedPaid'
  BY <1>1, FewerUnguarded DEF TickInv, UnguardedPaid
<1>3. FiresPaid'
  <2> SUFFICES ASSUME NEW s \in Cadence
               PROVE  fires'[s] + Cardinality(Loaders(s)') + Owed(s)' + Doom' <= 1 + mishaps'
    BY DEF FiresPaid
  <2>1. /\ Cardinality(Loaders(s)) \in Nat /\ Cardinality(Loaders(s)') \in Nat
        /\ Cardinality(Loaders(s)') <= Cardinality(Loaders(s))
    BY FewerLoaders
  <2>2. Owed(s) \in {0, 1} /\ Owed(s)' \in {0, 1} /\ fires[s] \in Nat
    BY Bits DEF Owed, BeatTypeOK
  <2>3. fires[s] + Cardinality(Loaders(s)) + Owed(s) + Doom <= 1 + mishaps
    BY DEF TickInv, FiresPaid
  <2>4. Owed(s)' + Doom' <= Owed(s) + Doom
    OBVIOUS
  <2>5. QED
    BY <1>1, <2>1, <2>2, <2>3, <2>4
<1>4. QED
  BY <1>2, <1>3 DEF TickInv

\* A mishap pays for one more round without the lock, or for bookkeeping that is lost.
LEMMA MishapPays ==
  ASSUME BeatTypeOK, BeatTypeOK', TickInv, OnlyTicking',
         fires' = fires, mishaps' = mishaps + 1, NEW r,
         \A s \in Cadence : Loaders(s)' \subseteq Loaders(s),
         \/ /\ Unguarded' \subseteq Unguarded \cup {r} /\ Doom' <= Doom
         \/ /\ Unguarded' \subseteq Unguarded
            /\ \A s \in Cadence : Owed(s)' <= Owed(s)
  PROVE  TickInv'
<1>1. Doom \in {0, 1} /\ Doom' \in {0, 1} /\ mishaps \in Nat
  BY Bits DEF BeatTypeOK, Doom
<1>2. UnguardedPaid'
  <2>1. CASE Unguarded' \subseteq Unguarded
    BY <1>1, <2>1, FewerUnguarded DEF TickInv, UnguardedPaid
  <2>2. CASE Unguarded' \subseteq Unguarded \cup {r} /\ Doom' <= Doom
    <3>1. /\ IsFiniteSet(Unguarded \cup {r}) /\ Cardinality(Unguarded) \in Nat
          /\ Cardinality(Unguarded \cup {r}) \in Nat
          /\ Cardinality(Unguarded \cup {r}) <= Cardinality(Unguarded) + 1
      BY OneMore DEF TickInv, UnguardedPaid
    <3>2. /\ IsFiniteSet(Unguarded')
          /\ Cardinality(Unguarded') <= Cardinality(Unguarded \cup {r})
      BY <2>2, <3>1, FS_Subset
    <3>3. Cardinality(Unguarded') \in Nat
      BY <3>2, FS_CardinalityType
    <3>4. QED
      BY <1>1, <2>2, <3>1, <3>2, <3>3 DEF TickInv, UnguardedPaid
  <2>3. QED
    BY <2>1, <2>2
<1>3. FiresPaid'
  <2> SUFFICES ASSUME NEW s \in Cadence
               PROVE  fires'[s] + Cardinality(Loaders(s)') + Owed(s)' + Doom' <= 1 + mishaps'
    BY DEF FiresPaid
  <2>1. /\ Cardinality(Loaders(s)) \in Nat /\ Cardinality(Loaders(s)') \in Nat
        /\ Cardinality(Loaders(s)') <= Cardinality(Loaders(s))
    BY FewerLoaders
  <2>2. Owed(s) \in {0, 1} /\ Owed(s)' \in {0, 1} /\ fires[s] \in Nat
    BY Bits DEF Owed, BeatTypeOK
  <2>3. fires[s] + Cardinality(Loaders(s)) + Owed(s) + Doom <= 1 + mishaps
    BY DEF TickInv, FiresPaid
  <2>4. Doom' <= Doom \/ Owed(s)' <= Owed(s)
    OBVIOUS
  <2>5. QED
    BY <1>1, <2>1, <2>2, <2>3, <2>4
<1>4. QED
  BY <1>2, <1>3 DEF TickInv

LEMMA TickInit == BeatInit => TickInv
<1> SUFFICES ASSUME BeatInit PROVE TickInv
  OBVIOUS
<1>1. Unguarded = {} /\ \A s \in Cadence : Loaders(s) = {}
  BY DEF BeatInit, Unguarded, Loaders
<1>2. Doom = 0 /\ \A s \in Cadence : Owed(s) = 0
  BY DEF BeatInit, Doom, Owed
<1>3. QED
  BY <1>1, <1>2, FS_EmptySet, SMTT(30) DEF BeatInit, TickInv, OnlyTicking, UnguardedPaid, FiresPaid

\* Next to the tick: the routes, the scans, the fleet sweep and the engines.
LEMMA BesideTick ==
  ASSUME BeatTypeOK, BeatTypeOK', TickInv,
         UNCHANGED <<guard, todo, noted, fires, mishaps>>,
         \A s \in Cadence : /\ schedule'[s] = "due" => schedule[s] = "due"
                            /\ schedule'[s] = "absent" => schedule[s] = "absent",
         \A r \in Beater : round[r] = "tick" <=> round'[r] = "tick"
  PROVE  TickInv'
<1>1. OnlyTicking' /\ Unguarded' \subseteq Unguarded
  BY DEF TickInv, OnlyTicking, Unguarded
<1>2. Doom' <= Doom
  <2>1. \A r \in Beater : todo[r] \cup noted[r] \subseteq Cadence
    BY DEF BeatTypeOK
  <2>2. QED
    BY <2>1 DEF Doom
<1>3. \A s \in Cadence : Loaders(s)' \subseteq Loaders(s) /\ Owed(s)' <= Owed(s)
  BY DEF Loaders, Owed, Dealt
<1>4. \A s \in Cadence : Owed(s)' + Doom' <= Owed(s) + Doom
  BY <1>2, <1>3 DEF Owed, Doom
<1>5. QED
  BY <1>1, <1>2, <1>3, <1>4, Settles

LEMMA ComesDueCounts ==
  ASSUME BeatTypeOK, BeatTypeOK', TickInv, NEW d \in Cadence, ComesDue(d)
  PROVE  TickInv'
<1>1. /\ UNCHANGED <<guard, round, todo, noted, mishaps>>
      /\ fires' = [fires EXCEPT ![d] = 0] /\ schedule' = [schedule EXCEPT ![d] = "due"]
  BY DEF ComesDue
<1>2. OnlyTicking' /\ Unguarded' = Unguarded /\ \A s : Loaders(s)' = Loaders(s)
  BY <1>1 DEF TickInv, OnlyTicking, Unguarded, Loaders
<1>3. Doom' = Doom
  <2>1. \A r \in Beater : todo[r] \cup noted[r] \subseteq Cadence
    BY DEF BeatTypeOK
  <2>2. schedule[d] # "absent" /\ \A s \in Cadence : s # d => schedule'[s] = schedule[s]
    BY <1>1 DEF ComesDue, BeatTypeOK
  <2>3. schedule'[d] # "absent"
    BY <1>1 DEF BeatTypeOK
  <2>4. QED
    BY <1>1, <2>1, <2>2, <2>3 DEF Doom
<1>4. Doom \in {0, 1} /\ mishaps \in Nat
  BY Bits DEF BeatTypeOK
<1>5. UnguardedPaid'
  BY <1>1, <1>2, <1>3 DEF TickInv, UnguardedPaid
<1>6. FiresPaid'
  <2> SUFFICES ASSUME NEW s \in Cadence
               PROVE  fires'[s] + Cardinality(Loaders(s)) + Owed(s)' + Doom <= 1 + mishaps
    BY <1>1, <1>2, <1>3 DEF FiresPaid
  <2>1. /\ Cardinality(Loaders(s)) \in Nat /\ Cardinality(Unguarded) \in Nat
        /\ Cardinality(Loaders(s)) <= Cardinality(Unguarded) + 1
        /\ guard \notin Loaders(s) => Cardinality(Loaders(s)) <= Cardinality(Unguarded)
    BY LoadersCounted DEF TickInv, UnguardedPaid
  <2>2. Owed(s) \in {0, 1} /\ Owed(s)' \in {0, 1} /\ fires[s] \in Nat
    BY Bits DEF Owed, BeatTypeOK
  <2>3. CASE s = d
    <3>1. fires'[s] = 0
      BY <1>1, <2>3 DEF BeatTypeOK
    <3>2. guard \in Loaders(s) => Owed(s)' = 0
      BY <1>1 DEF Loaders, Owed, Dealt
    <3>3. Cardinality(Unguarded) + Doom <= mishaps
      BY DEF TickInv, UnguardedPaid
    <3>4. QED
      BY <1>4, <2>1, <2>2, <3>1, <3>2, <3>3
  <2>4. CASE s # d
    <3>1. fires'[s] = fires[s] /\ Owed(s)' = Owed(s)
      BY <1>1, <2>4 DEF BeatTypeOK, Owed, Dealt
    <3>2. QED
      BY <3>1 DEF TickInv, FiresPaid
  <2>5. QED
    BY <2>3, <2>4
<1>7. QED
  BY <1>2, <1>5, <1>6 DEF TickInv

LEMMA RoundBeginCounts ==
  ASSUME BeatTypeOK, BeatTypeOK', TickInv, NEW r \in Beater, RoundBegin(r)
  PROVE  TickInv'
<1> DEFINE due == {s \in Cadence : schedule[s] = "due"}
<1>1. /\ guard = Nobody /\ guard' = r /\ round[r] = "idle"
      /\ round' = [round EXCEPT ![r] = "tick"] /\ noted' = [noted EXCEPT ![r] = {}]
      /\ todo' = [todo EXCEPT ![r] = due]
      /\ UNCHANGED <<schedule, fires, mishaps>>
  BY DEF RoundBegin
<1>2. todo[r] = {} /\ todo'[r] = due /\ noted'[r] = {}
  BY <1>1 DEF TickInv, OnlyTicking, BeatTypeOK
<1>3. OnlyTicking'
  BY <1>1 DEF TickInv, OnlyTicking, BeatTypeOK
<1>4. Unguarded' \subseteq Unguarded
  BY <1>1 DEF Unguarded, BeatTypeOK
<1>5. Doom = 0 /\ Doom' = 0
  BY <1>1, <1>2 DEF Doom
<1>6. UnguardedPaid'
  BY <1>1, <1>4, <1>5, FewerUnguarded DEF TickInv, UnguardedPaid, BeatTypeOK
<1>7. FiresPaid'
  <2> SUFFICES ASSUME NEW s \in Cadence
               PROVE  fires[s] + Cardinality(Loaders(s)') + Owed(s)' + Doom <= 1 + mishaps
    BY <1>1, <1>5 DEF FiresPaid
  <2>1. IsFiniteSet(Loaders(s)) /\ Cardinality(Loaders(s)) \in Nat
    BY LoadersCounted DEF TickInv, UnguardedPaid
  <2>2. fires[s] + Cardinality(Loaders(s)) + Owed(s) + Doom <= 1 + mishaps
    BY DEF TickInv, FiresPaid
  <2>3. CASE schedule[s] = "due"
    <3>1. Owed(s) = 1 /\ Owed(s)' = 0
      BY <1>1, <1>2, <2>3 DEF Owed, Dealt
    <3>2. Loaders(s)' = Loaders(s) \cup {r} /\ r \notin Loaders(s)
      BY <1>1, <1>2, <2>3 DEF Loaders, BeatTypeOK
    <3>3. Cardinality(Loaders(s)') = Cardinality(Loaders(s)) + 1
      BY <2>1, <3>2, FS_AddElement
    <3>4. QED
      BY <1>5, <2>1, <2>2, <3>1, <3>3 DEF BeatTypeOK
  <2>4. CASE schedule[s] # "due"
    <3>1. Owed(s) = 0 /\ Owed(s)' = 0
      BY <1>1, <2>4 DEF Owed
    <3>2. Loaders(s)' = Loaders(s)
      BY <1>1, <1>2, <2>4 DEF Loaders, BeatTypeOK
    <3>3. QED
      BY <2>2, <3>1, <3>2
  <2>5. QED
    BY <2>3, <2>4
<1>8. QED
  BY <1>3, <1>6, <1>7 DEF TickInv

LEMMA LaunchCounts ==
  ASSUME BeatTypeOK, BeatTypeOK', TickInv, NEW r \in Beater, NEW d \in Cadence, TickLaunch(r, d)
  PROVE  TickInv'
<1>1. /\ UNCHANGED <<guard, round, mishaps>> /\ round[r] = "tick" /\ d \in todo[r]
      /\ schedule[d] # "absent"
      /\ fires' = [fires EXCEPT ![d] = @ + 1] /\ schedule' = Advanced(noted[r])
      /\ noted' = [noted EXCEPT ![r] = {d}] /\ todo' = [todo EXCEPT ![r] = @ \ {d}]
  BY DEF TickLaunch
<1>2. OnlyTicking' /\ Unguarded' = Unguarded
  BY <1>1 DEF TickInv, OnlyTicking, Unguarded, BeatTypeOK
<1>3. \A s \in Cadence : /\ schedule'[s] = "due" => schedule[s] = "due" /\ s \notin noted[r]
                         /\ schedule'[s] = "absent" <=> schedule[s] = "absent"
  BY <1>1 DEF Advanced, BeatTypeOK
<1>4. Doom' <= Doom
  <2>1. \A q \in Beater : todo[q] \cup noted[q] \subseteq Cadence
    BY DEF BeatTypeOK
  <2>2. \A q \in Beater : todo'[q] \cup noted'[q] \subseteq todo[q] \cup noted[q]
    BY <1>1 DEF BeatTypeOK
  <2>3. QED
    BY <1>1, <1>3, <2>1, <2>2 DEF Doom
<1>5. Doom \in {0, 1} /\ Doom' \in {0, 1} /\ mishaps \in Nat
  BY Bits DEF BeatTypeOK, Doom
<1>6. UnguardedPaid'
  BY <1>1, <1>2, <1>4, <1>5, FewerUnguarded DEF TickInv, UnguardedPaid
<1>7. FiresPaid'
  <2> SUFFICES ASSUME NEW s \in Cadence
               PROVE  fires'[s] + Cardinality(Loaders(s)') + Owed(s)' + Doom' <= 1 + mishaps
    BY <1>1 DEF FiresPaid
  <2>1. IsFiniteSet(Loaders(s)) /\ Cardinality(Loaders(s)) \in Nat
    BY LoadersCounted DEF TickInv, UnguardedPaid
  <2>2. fires[s] + Cardinality(Loaders(s)) + Owed(s) + Doom <= 1 + mishaps
    BY DEF TickInv, FiresPaid
  <2>3. Owed(s)' <= Owed(s)
    <3>1. schedule'[s] = "due" /\ Dealt(s) => Dealt(s)'
      BY <1>1, <1>3 DEF Dealt, BeatTypeOK
    <3>2. QED
      BY <1>3, <3>1 DEF Owed
  <2>4. Owed(s) \in {0, 1} /\ Owed(s)' \in {0, 1} /\ fires[s] \in Nat
    BY Bits DEF Owed, BeatTypeOK
  <2>5. CASE s = d
    <3>1. Loaders(s)' = Loaders(s) \ {r} /\ r \in Loaders(s)
      BY <1>1, <2>5 DEF Loaders, BeatTypeOK
    <3>2. Cardinality(Loaders(s)') = Cardinality(Loaders(s)) - 1
      BY <2>1, <3>1, FS_RemoveElement
    <3>3. fires'[s] = fires[s] + 1
      BY <1>1, <2>5 DEF BeatTypeOK
    <3>4. QED
      BY <1>4, <1>5, <2>1, <2>2, <2>3, <2>4, <3>2, <3>3
  <2>6. CASE s # d
    <3>1. Loaders(s)' = Loaders(s) /\ fires'[s] = fires[s]
      BY <1>1, <2>6 DEF Loaders, BeatTypeOK
    <3>2. QED
      BY <1>4, <1>5, <2>1, <2>2, <2>3, <2>4, <3>1
  <2>7. QED
    BY <2>5, <2>6
<1>8. QED
  BY <1>2, <1>6, <1>7 DEF TickInv

LEMMA SkipCounts ==
  ASSUME BeatTypeOK, BeatTypeOK', TickInv, NEW r \in Beater, NEW d \in Cadence, TickSkip(r, d)
  PROVE  TickInv'
<1>1. /\ UNCHANGED <<schedule, guard, round, fires, mishaps>> /\ round[r] = "tick"
      /\ d \in todo[r]
      /\ noted' = [noted EXCEPT ![r] = noted[r] \cup {d}] /\ todo' = [todo EXCEPT ![r] = @ \ {d}]
  BY DEF TickSkip, AfterConflict
<1>2. OnlyTicking' /\ Unguarded' = Unguarded
  BY <1>1 DEF TickInv, OnlyTicking, Unguarded, BeatTypeOK
<1>3. \A q \in Beater : /\ todo'[q] \cup noted'[q] = todo[q] \cup noted[q]
                        /\ todo'[q] \subseteq todo[q]
  BY <1>1 DEF BeatTypeOK
<1>4. Doom' = Doom
  BY <1>1, <1>3 DEF Doom
<1>5. \A s \in Cadence : Loaders(s)' \subseteq Loaders(s) /\ Owed(s)' = Owed(s)
  BY <1>1, <1>3 DEF Loaders, Owed, Dealt
<1>6. Doom \in {0, 1} /\ \A s \in Cadence : Owed(s) \in {0, 1}
  BY Bits
<1>7. Doom' <= Doom /\ \A s \in Cadence : Owed(s)' + Doom' <= Owed(s) + Doom
  BY <1>4, <1>5, <1>6
<1>8. QED
  BY <1>1, <1>2, <1>5, <1>7, Settles

LEMMA CommitCounts ==
  ASSUME BeatTypeOK, BeatTypeOK', TickInv, NEW r \in Beater, TickCommit(r)
  PROVE  TickInv'
<1>1. /\ UNCHANGED <<guard, todo, fires, mishaps>> /\ round[r] = "tick" /\ todo[r] = {}
      /\ schedule' = Advanced(noted[r]) /\ noted' = [noted EXCEPT ![r] = {}]
      /\ round' = [round EXCEPT ![r] = "fleet"]
  BY DEF TickCommit
<1>2. OnlyTicking' /\ Unguarded' \subseteq Unguarded
  BY <1>1 DEF TickInv, OnlyTicking, Unguarded, BeatTypeOK
<1>3. \A s \in Cadence : /\ schedule'[s] = "due" => schedule[s] = "due" /\ s \notin noted[r]
                         /\ schedule'[s] = "absent" <=> schedule[s] = "absent"
  BY <1>1 DEF Advanced, BeatTypeOK
<1>4. Doom' <= Doom
  <2>1. \A q \in Beater : todo[q] \cup noted[q] \subseteq Cadence
    BY DEF BeatTypeOK
  <2>2. \A q \in Beater : todo'[q] \cup noted'[q] \subseteq todo[q] \cup noted[q]
    BY <1>1 DEF BeatTypeOK
  <2>3. QED
    BY <1>1, <1>3, <2>1, <2>2 DEF Doom
<1>5. \A s \in Cadence : Loaders(s)' \subseteq Loaders(s) /\ Owed(s)' <= Owed(s)
  <2> SUFFICES ASSUME NEW s \in Cadence
               PROVE  Loaders(s)' \subseteq Loaders(s) /\ Owed(s)' <= Owed(s)
    OBVIOUS
  <2>1. schedule'[s] = "due" /\ Dealt(s) => Dealt(s)'
    BY <1>1, <1>3 DEF Dealt, BeatTypeOK
  <2>2. QED
    BY <1>1, <1>3, <2>1 DEF Owed, Loaders
<1>6. /\ Doom \in {0, 1} /\ Doom' \in {0, 1}
      /\ \A s \in Cadence : Owed(s) \in {0, 1} /\ Owed(s)' \in {0, 1}
  BY Bits DEF Doom, Owed
<1>7. \A s \in Cadence : Owed(s)' + Doom' <= Owed(s) + Doom
  BY <1>4, <1>5, <1>6
<1>8. QED
  BY <1>1, <1>2, <1>4, <1>5, <1>7, Settles

\* Giving a round up: only the round under the lock takes work with it that the next
\* round will do again.
LEMMA AbandonedCounts ==
  ASSUME BeatTypeOK, TickInv, NEW r \in Beater, Abandoned(r), schedule' = schedule
  PROVE  /\ OnlyTicking' /\ Unguarded' \subseteq Unguarded
         /\ \A s \in Cadence : Loaders(s)' \subseteq Loaders(s)
         /\ Doom' <= Doom /\ (guard = r => Doom' = 0)
         /\ guard # r => \A s \in Cadence : Owed(s)' = Owed(s)
<1>1. /\ round' = [round EXCEPT ![r] = "idle"] /\ todo' = [todo EXCEPT ![r] = {}]
      /\ noted' = [noted EXCEPT ![r] = {}] /\ guard' = IF guard = r THEN Nobody ELSE guard
  BY DEF Abandoned
<1>2. OnlyTicking'
  BY <1>1 DEF TickInv, OnlyTicking, BeatTypeOK
<1>3. Unguarded' \subseteq Unguarded
  BY <1>1 DEF Unguarded, BeatTypeOK
<1>4. \A s \in Cadence : Loaders(s)' \subseteq Loaders(s)
  BY <1>1 DEF Loaders, BeatTypeOK
<1>5. CASE guard = r
  BY <1>1, <1>2, <1>3, <1>4, <1>5 DEF Doom
<1>6. CASE guard # r
  <2>1. /\ guard' = guard
        /\ guard \in Beater => todo'[guard] = todo[guard] /\ noted'[guard] = noted[guard]
    BY <1>1, <1>6 DEF BeatTypeOK
  <2>2. Doom' = Doom /\ \A s \in Cadence : Owed(s)' = Owed(s)
    BY <2>1 DEF Doom, Owed, Dealt
  <2>3. QED
    BY <1>2, <1>3, <1>4, <1>6, <2>2, Bits
<1>7. QED
  BY <1>5, <1>6

LEMMA AbortCounts ==
  ASSUME BeatTypeOK, BeatTypeOK', TickInv, NEW r \in Beater, TickAborts(r)
  PROVE  TickInv'
<1>1. /\ Abandoned(r) /\ schedule' = schedule /\ fires' = fires /\ mishaps' = mishaps
      /\ \E s \in todo[r] \cup noted[r] : schedule[s] = "absent"
  BY DEF TickAborts
<1>2. /\ OnlyTicking' /\ Unguarded' \subseteq Unguarded
      /\ \A s \in Cadence : Loaders(s)' \subseteq Loaders(s)
      /\ Doom' <= Doom /\ (guard = r => Doom' = 0)
      /\ guard # r => \A s \in Cadence : Owed(s)' = Owed(s)
  BY <1>1, AbandonedCounts
<1>3. guard = r => Doom = 1
  BY <1>1 DEF Doom
<1>4. /\ Doom \in {0, 1} /\ Doom' \in {0, 1}
      /\ \A s \in Cadence : Owed(s) \in {0, 1} /\ Owed(s)' \in {0, 1}
  BY Bits DEF Doom, Owed
<1>5. \A s \in Cadence : Owed(s)' + Doom' <= Owed(s) + Doom
  BY <1>2, <1>3, <1>4
<1>6. QED
  BY <1>1, <1>2, <1>5, Settles

LEMMA MishapCounts ==
  ASSUME BeatTypeOK, BeatTypeOK', TickInv, NEW r \in Beater,
         BeaterDies(r) \/ GuardDrops(r) \/ \E d \in Cadence : TickRaises(r, d)
  PROVE  TickInv'
<1>1. fires' = fires /\ mishaps' = mishaps + 1
  BY DEF BeaterDies, GuardDrops, TickRaises
<1>2. CASE BeaterDies(r)
  <2>1. Abandoned(r) /\ schedule' = schedule
    BY <1>2 DEF BeaterDies
  <2>2. /\ OnlyTicking' /\ Unguarded' \subseteq Unguarded \cup {r}
        /\ \A s \in Cadence : Loaders(s)' \subseteq Loaders(s)
        /\ Doom' <= Doom
    BY <2>1, AbandonedCounts
  <2>3. QED
    BY <1>1, <2>2, MishapPays
<1>3. CASE GuardDrops(r)
  <2>1. /\ guard = r /\ guard' = Nobody
        /\ UNCHANGED <<schedule, round, todo, noted>>
    BY <1>3 DEF GuardDrops
  <2>2. /\ OnlyTicking' /\ Unguarded' \subseteq Unguarded \cup {r}
        /\ \A s \in Cadence : Loaders(s)' \subseteq Loaders(s)
    BY <2>1 DEF TickInv, OnlyTicking, Unguarded, Loaders
  <2>3. Doom' <= Doom
    BY <2>1 DEF Doom
  <2>4. QED
    BY <1>1, <2>2, <2>3, MishapPays
<1>4. ASSUME NEW d \in Cadence, TickRaises(r, d) PROVE TickInv'
  <2>1. /\ todo' = [todo EXCEPT ![r] = @ \ {d}]
        /\ UNCHANGED <<schedule, guard, round, noted>>
    BY <1>4 DEF TickRaises
  <2>2. \A q \in Beater : todo'[q] \subseteq todo[q]
    BY <2>1 DEF BeatTypeOK
  <2>3. /\ OnlyTicking' /\ Unguarded' \subseteq Unguarded \cup {r}
        /\ \A s \in Cadence : Loaders(s)' \subseteq Loaders(s)
    BY <2>1, <2>2 DEF TickInv, OnlyTicking, Unguarded, Loaders
  <2>4. Doom' <= Doom
    BY <2>1, <2>2 DEF Doom
  <2>5. QED
    BY <1>1, <2>3, <2>4, MishapPays
<1>5. QED
  BY <1>2, <1>3, <1>4

LEMMA DeletionCounts ==
  ASSUME BeatTypeOK, BeatTypeOK', TickInv, NEW d \in Cadence, DeleteSchedule(d)
  PROVE  TickInv'
<1>0. fires' = fires /\ mishaps' = mishaps + 1
  BY DEF DeleteSchedule
<1>1. /\ schedule' = [schedule EXCEPT ![d] = "absent"]
      /\ UNCHANGED <<guard, round, todo, noted>>
  BY DEF DeleteSchedule
<1>2. \A s \in Cadence : schedule'[s] = "due" => schedule[s] = "due"
  BY <1>1 DEF BeatTypeOK
<1>3. /\ OnlyTicking' /\ Unguarded' \subseteq Unguarded
      /\ \A s \in Cadence : Loaders(s)' \subseteq Loaders(s)
  BY <1>1 DEF TickInv, OnlyTicking, Unguarded, Loaders
<1>4. \A s \in Cadence : Owed(s)' <= Owed(s)
  BY <1>1, <1>2 DEF Owed, Dealt
<1>5. QED
  BY <1>0, <1>3, <1>4, MishapPays

LEMMA RoundEndCounts ==
  ASSUME BeatTypeOK, BeatTypeOK', TickInv, NEW r \in Beater, RoundEnd(r)
  PROVE  TickInv'
<1>1. /\ round[r] = "rest" /\ round' = [round EXCEPT ![r] = "idle"]
      /\ guard' = (IF guard = r THEN Nobody ELSE guard)
      /\ UNCHANGED <<schedule, todo, noted, fires, mishaps>>
  BY DEF RoundEnd
<1>2. todo[r] = {} /\ noted[r] = {}
  BY <1>1 DEF TickInv, OnlyTicking
<1>3. OnlyTicking' /\ Unguarded' \subseteq Unguarded
  BY <1>1, <1>2 DEF TickInv, OnlyTicking, Unguarded, BeatTypeOK
<1>4. Doom' = Doom /\ \A s \in Cadence : Owed(s)' = Owed(s) /\ Loaders(s)' \subseteq Loaders(s)
  BY <1>1, <1>2 DEF Doom, Owed, Dealt, Loaders
<1>5. Doom \in {0, 1} /\ \A s \in Cadence : Owed(s) \in {0, 1}
  BY Bits
<1>6. Doom' <= Doom /\ \A s \in Cadence : Owed(s)' + Doom' <= Owed(s) + Doom
  BY <1>4, <1>5
<1>7. QED
  BY <1>1, <1>3, <1>4, <1>6, Settles

LEMMA BesideSteps ==
  ASSUME BeatTypeOK, BeatTypeOK', TickInv,
         \/ \E s \in Cadence : ManualScan(s) \/ ScanOver(s) \/ \E b \in BOOLEAN : SetSchedule(s, b)
         \/ \E r \in Beater : FleetSelect(r) \/ FleetMark(r)
         \/ \E e \in Probe : GoesQuiet(e) \/ HeartbeatLoads(e) \/ HeartbeatCommits(e)
         \/ UNCHANGED bvars
  PROVE  TickInv'
<1>1. UNCHANGED <<guard, todo, noted, fires, mishaps>>
  BY DEF ManualScan, ScanOver, SetSchedule, FleetSelect, FleetMark, GoesQuiet, HeartbeatLoads,
     HeartbeatCommits, tickVars, bvars
<1>2. \A s \in Cadence : /\ schedule'[s] = "due" => schedule[s] = "due"
                         /\ schedule'[s] = "absent" => schedule[s] = "absent"
  <2>1. CASE \E s \in Cadence, b \in BOOLEAN : SetSchedule(s, b)
    BY <2>1 DEF SetSchedule, BeatTypeOK
  <2>2. CASE schedule' = schedule
    BY <2>2
  <2>3. QED
    BY <2>1, <2>2 DEF ManualScan, ScanOver, FleetSelect, FleetMark, GoesQuiet, HeartbeatLoads,
       HeartbeatCommits, tickVars, bvars
<1>3. \A r \in Beater : round[r] = "tick" <=> round'[r] = "tick"
  <2>1. CASE \E r \in Beater : FleetSelect(r) \/ FleetMark(r)
    BY <2>1 DEF FleetSelect, FleetMark, BeatTypeOK
  <2>2. CASE round' = round
    BY <2>2
  <2>3. QED
    BY <2>1, <2>2 DEF ManualScan, ScanOver, SetSchedule, GoesQuiet, HeartbeatLoads,
       HeartbeatCommits, tickVars, bvars
<1>4. QED
  BY <1>1, <1>2, <1>3, BesideTick

LEMMA TickCounts == BeatTypeOK /\ BeatTypeOK' /\ TickInv /\ [BeatNext]_bvars => TickInv'
<1> SUFFICES ASSUME BeatTypeOK, BeatTypeOK', TickInv, [BeatNext]_bvars PROVE TickInv'
  OBVIOUS
<1>1. CASE \E r \in Beater, s \in Cadence : TickLaunch(r, s) \/ TickSkip(r, s)
  BY <1>1, LaunchCounts, SkipCounts
<1>2. CASE \E s \in Cadence : ComesDue(s)
  BY <1>2, ComesDueCounts
<1>3. CASE \E r \in Beater : \/ RoundBegin(r) \/ TickCommit(r) \/ TickAborts(r) \/ RoundEnd(r)
  BY <1>3, RoundBeginCounts, CommitCounts, AbortCounts, RoundEndCounts
<1>4. CASE \E r \in Beater, s \in Cadence : TickRaises(r, s)
  BY <1>4, MishapCounts
<1>5. CASE \E r \in Beater : BeaterDies(r) \/ GuardDrops(r)
  BY <1>5, MishapCounts
<1>6. CASE \E s \in Cadence : DeleteSchedule(s)
  BY <1>6, DeletionCounts
<1>7. CASE \/ \E s \in Cadence : ManualScan(s) \/ ScanOver(s) \/ \E b \in BOOLEAN : SetSchedule(s, b)
           \/ \E r \in Beater : FleetSelect(r) \/ FleetMark(r)
           \/ \E e \in Probe : GoesQuiet(e) \/ HeartbeatLoads(e) \/ HeartbeatCommits(e)
           \/ UNCHANGED bvars
  BY <1>7, BesideSteps
<1>8. QED
  BY <1>1, <1>2, <1>3, <1>4, <1>5, <1>6, <1>7 DEF BeatNext, TickStep

LEMMA PaidIsOnce == BeatTypeOK /\ TickInv => FiresOnce
<1> SUFFICES ASSUME BeatTypeOK, TickInv, NEW s \in Cadence PROVE fires[s] <= 1 + mishaps
  BY DEF FiresOnce
<1>1. /\ Cardinality(Loaders(s)) \in Nat /\ fires[s] \in Nat /\ mishaps \in Nat
      /\ Owed(s) \in {0, 1} /\ Doom \in {0, 1}
  BY LoadersCounted, Bits DEF BeatTypeOK, TickInv, UnguardedPaid
<1>2. fires[s] + Cardinality(Loaders(s)) + Owed(s) + Doom <= 1 + mishaps
  BY DEF TickInv, FiresPaid
<1>3. QED
  BY <1>1, <1>2

\* run_once and scheduler_tick: a schedule that came due launches one scan, and one more
\* at most for every death, dropped guard connection, failing launch or deletion,
\* however many replicas beat and however their rounds interleave.
THEOREM SchedulesFireOnce == BeatSpec => []FiresOnce
<1>1. BeatInit => BeatTypeOK /\ TickInv
  BY BeatTypesInit, TickInit
<1>2. BeatTypeOK /\ TickInv /\ [BeatNext]_bvars => (BeatTypeOK /\ TickInv)'
  BY BeatTypesStep, TickCounts
<1>3. QED
  BY <1>1, <1>2, PaidIsOnce, PTL DEF BeatSpec

----------------------------------------------------------------------------
(* Accounts: logins, sessions, key sets and role changes. *)

HIDE BeatAssumption
USE AccountsAssumption

LEMMA SomebodyIsSubject == Somebody \in Subject
BY DEF Somebody

LEMMA BlankTypes ==
  /\ NoAccount \in Account
  /\ NoLogin \in LoginUnderway
  /\ NoPatch \in PatchUnderway
BY SomebodyIsSubject DEF NoAccount, Account, NoLogin, LoginUnderway, NoPatch, PatchUnderway,
   NoChange, Change, Role

LEMMA InitTypes == AccountsInit => AccountsTypeOK
BY BlankTypes DEF AccountsInit, AccountsTypeOK

LEMMA LookedType ==
  ASSUME NEW l \in LoginUnderway, NEW held
  PROVE  Looked(l, held) \in LoginUnderway
BY BlankTypes DEF Looked, LoginUnderway

LEMMA PublishedType == Published \subseteq 1..MaxSigningKey
BY DEF Published

LEMMA CreatedType ==
  ASSUME NEW s
  PROVE  [role |-> InitialRole(s), disabled |-> FALSE] \in Account
BY DEF InitialRole, Account, Role

LEMMA PatchedType ==
  ASSUME NEW stored \in Account, NEW p \in PatchUnderway
  PROVE  Patched(stored, p) \in Account
BY DEF Patched, Account, PatchUnderway, Change

----------------------------------------------------------------------------
(* Types, one lemma per group of actions. *)

LEMMA LoginTypes ==
  ASSUME AccountsTypeOK, NEW t \in Tab,
         \/ \E s \in Subject : LoginBegins(t, s)
         \/ LoginEnds(t)
         \/ CodeExchanged(t)
  PROVE  AccountsTypeOK'
<1>1. CASE \E s \in Subject : LoginBegins(t, s)
  <2>1. PICK s \in Subject : LoginBegins(t, s)
    BY <1>1
  <2>2. IssueLoginState(s) \in LoginUnderway
    BY BlankTypes DEF IssueLoginState, LoginUnderway
  <2>3. QED
    BY <2>1, <2>2 DEF LoginBegins, AccountsTypeOK
<1>2. CASE LoginEnds(t)
  BY <1>2, BlankTypes DEF LoginEnds, AccountsTypeOK
<1>3. CASE CodeExchanged(t)
  <2>1. login[t] \in LoginUnderway /\ signingKey \in 0..MaxSigningKey
    BY DEF AccountsTypeOK
  <2>2. [login[t] EXCEPT !.step = "check", !.key = signingKey] \in LoginUnderway
    BY <2>1 DEF LoginUnderway
  <2>3. QED
    BY <1>3, <2>2 DEF CodeExchanged, AccountsTypeOK
<1>4. QED
  BY <1>1, <1>2, <1>3

LEMMA KeyTypes ==
  ASSUME AccountsTypeOK, NEW t \in Tab, KeyLookup(t) \/ KeysAnswered(t) \/ KeysArrive(t)
  PROVE  AccountsTypeOK'
<1>1. login[t] \in LoginUnderway
  BY DEF AccountsTypeOK
<1>2. CASE KeyLookup(t)
  <2>1. Looked(login[t], jwks) \in LoginUnderway
    BY <1>1, LookedType
  <2>2. [login[t] EXCEPT !.step = "fetch"] \in LoginUnderway
    BY <1>1 DEF LoginUnderway
  <2>3. QED
    BY <1>2, <2>1, <2>2 DEF KeyLookup, AccountsTypeOK
<1>3. CASE KeysAnswered(t)
  <2>1. [login[t] EXCEPT !.doc = Published] \in LoginUnderway
    BY <1>1, PublishedType DEF LoginUnderway
  <2>2. QED
    BY <1>3, <2>1 DEF KeysAnswered, AccountsTypeOK
<1>4. CASE KeysArrive(t)
  <2>1. Looked(login[t], login[t].doc) \in LoginUnderway
    BY <1>1, LookedType
  <2>2. login[t].doc \subseteq 1..MaxSigningKey
    BY <1>1 DEF LoginUnderway
  <2>3. QED
    BY <1>4, <2>1, <2>2 DEF KeysArrive, AccountsTypeOK
<1>5. QED
  BY <1>2, <1>3, <1>4

LEMMA ProvisionTypes ==
  ASSUME AccountsTypeOK, NEW t \in Tab, ProvisionReads(t) \/ ProvisionCommits(t)
  PROVE  AccountsTypeOK'
<1>1. login[t] \in LoginUnderway /\ login[t].who \in Subject
  BY DEF AccountsTypeOK, LoginUnderway
<1>2. CASE ProvisionReads(t)
  <2>1. [login[t] EXCEPT !.step = "read", !.row = accounts[login[t].who]] \in LoginUnderway
    BY <1>1 DEF AccountsTypeOK, LoginUnderway
  <2>2. QED
    BY <1>2, <2>1, BlankTypes DEF ProvisionReads, AccountsTypeOK
<1>3. CASE ProvisionCommits(t)
  <2>1. [login[t] EXCEPT !.step = "verified", !.again = TRUE] \in LoginUnderway
    BY <1>1 DEF LoginUnderway
  <2>2. login' \in [Tab -> LoginUnderway] /\ lost' \subseteq {"key", "race"}
    BY <1>3, <2>1, BlankTypes DEF ProvisionCommits, AccountsTypeOK
  <2>3. accounts' \in [Subject -> Account] /\ decided' \in [Subject -> Account]
    BY <1>1, <1>3, CreatedType DEF ProvisionCommits, AccountsTypeOK, Renewed
  <2>4. sessions' \subseteq Subject
    BY <1>1, <1>3 DEF ProvisionCommits, AccountsTypeOK, IssueSession
  <2>5. QED
    BY <1>3, <2>2, <2>3, <2>4 DEF ProvisionCommits, AccountsTypeOK
<1>4. QED
  BY <1>2, <1>3

LEMMA PatchTypes ==
  ASSUME AccountsTypeOK, NEW t \in Tab,
         \/ \E by, on \in Subject, c \in Change : PatchBegins(t, by, on, c)
         \/ PatchGuard(t)
         \/ PatchCommits(t)
  PROVE  AccountsTypeOK'
<1>1. patch[t] \in PatchUnderway /\ patch[t].on \in Subject
  BY DEF AccountsTypeOK, PatchUnderway
<1>2. CASE \E by, on \in Subject, c \in Change : PatchBegins(t, by, on, c)
  <2>1. PICK by \in Subject, on \in Subject, c \in Change : PatchBegins(t, by, on, c)
    BY <1>2
  <2>2. accounts[on] \in Account
    BY DEF AccountsTypeOK
  <2> DEFINE p == [NoPatch EXCEPT !.step = "loaded", !.by = by, !.on = on, !.change = c,
                                  !.row = accounts[on]]
  <2>3. p \in PatchUnderway
    BY <2>2, SomebodyIsSubject DEF PatchUnderway, NoPatch
  <2>4. /\ patch' = [patch EXCEPT ![t] = p]
        /\ begun.patches < MaxPatch
        /\ begun' = [begun EXCEPT !.patches = @ + 1]
        /\ UNCHANGED <<accounts, decided, sessions, signingKey, jwks, login, lost>>
    BY <2>1 DEF PatchBegins
  <2> HIDE DEF p
  <2>5. QED
    BY <2>3, <2>4 DEF AccountsTypeOK
<1>3. CASE PatchGuard(t)
  <2>1. Admins \subseteq Subject
    BY DEF Admins
  <2>2. [patch[t] EXCEPT !.step = "checked"] \in PatchUnderway
    BY <1>1 DEF PatchUnderway
  <2>3. [patch[t] EXCEPT !.step = "checked", !.locks = Admins] \in PatchUnderway
    BY <1>1, <2>1 DEF PatchUnderway
  <2>4. QED
    BY <1>3, <2>2, <2>3, BlankTypes DEF PatchGuard, AccountsTypeOK
<1>4. CASE PatchCommits(t)
  <2>1. accounts[patch[t].on] \in Account /\ decided[patch[t].on] \in Account
    BY <1>1 DEF AccountsTypeOK
  <2>2. /\ Patched(accounts[patch[t].on], patch[t]) \in Account
        /\ Patched(decided[patch[t].on], patch[t]) \in Account
    BY <1>1, <2>1, PatchedType
  <2>3. QED
    BY <1>4, <2>2, BlankTypes DEF PatchCommits, AccountsTypeOK
<1>5. QED
  BY <1>2, <1>3, <1>4

LEMMA StepTypes == AccountsTypeOK /\ [AccountsNext]_accVars => AccountsTypeOK'
<1> SUFFICES ASSUME AccountsTypeOK, [AccountsNext]_accVars PROVE AccountsTypeOK'
  OBVIOUS
<1>1. CASE UNCHANGED accVars
  BY <1>1 DEF accVars, AccountsTypeOK
<1>2. CASE ProviderRotates
  BY <1>2 DEF ProviderRotates, AccountsTypeOK
<1>3. CASE (\E s \in Subject : Logout(s)) \/ \E gone \in SUBSET Subject : SessionExpires(gone)
  BY <1>3 DEF Logout, SessionExpires, AccountsTypeOK
<1>4. ASSUME NEW t \in Tab,
             \/ \E s \in Subject : LoginBegins(t, s)
             \/ RateLimitRefuses(t) \/ LoginStateRefused(t) \/ CallbackRefused(t)
             \/ CodeExchanged(t)
      PROVE  AccountsTypeOK'
  BY <1>4, LoginTypes DEF RateLimitRefuses, LoginStateRefused, CallbackRefused
<1>5. ASSUME NEW t \in Tab, KeyLookup(t) \/ KeysAnswered(t) \/ KeysArrive(t)
      PROVE  AccountsTypeOK'
  BY <1>5, KeyTypes
<1>6. ASSUME NEW t \in Tab, ProvisionReads(t) \/ ProvisionCommits(t)
      PROVE  AccountsTypeOK'
  BY <1>6, ProvisionTypes
<1>7. ASSUME NEW t \in Tab,
             \/ \E by, on \in Subject, c \in Change : PatchBegins(t, by, on, c)
             \/ PatchGuard(t) \/ PatchCommits(t)
      PROVE  AccountsTypeOK'
  BY <1>7, PatchTypes
<1>8. QED
  BY <1>1, <1>2, <1>3, <1>4, <1>5, <1>6, <1>7 DEF AccountsNext

\* The accounts, sessions, key sets, logins and changes have the shape declared.
THEOREM AccountsTypes == AccountsSpec => []AccountsTypeOK
BY InitTypes, StepTypes, PTL DEF AccountsSpec

----------------------------------------------------------------------------
LEMMA DecisionInit == AccountsInit => DemotionSticks
BY DEF AccountsInit, DemotionSticks

\* Only a first login and a change write an account, and both are decisions.
LEMMA DecisionStep ==
  ASSUME AccountsTypeOK, DemotionSticks, [AccountsNext]_accVars
  PROVE  DemotionSticks'
<1>1. ASSUME NEW t \in Tab, ProvisionCommits(t)
      PROVE  DemotionSticks'
  <2>1. login[t].who \in Subject
    BY DEF AccountsTypeOK, LoginUnderway
  <2>2. CASE accounts' = [accounts EXCEPT ![login[t].who] = Renewed(@, login[t].row)]
             /\ UNCHANGED decided
    BY <2>1, <2>2 DEF DemotionSticks, AccountsTypeOK, Renewed
  <2>3. CASE UNCHANGED <<accounts, decided>>
    BY <2>3 DEF DemotionSticks
  <2>4. CASE \E new : /\ accounts' = [accounts EXCEPT ![login[t].who] = new]
                      /\ decided' = [decided EXCEPT ![login[t].who] = new]
    BY <2>4 DEF DemotionSticks
  <2>5. QED
    BY <1>1, <2>2, <2>3, <2>4 DEF ProvisionCommits
<1>2. ASSUME NEW t \in Tab, PatchCommits(t)
      PROVE  DemotionSticks'
  BY <1>2 DEF PatchCommits, DemotionSticks
<1>3. CASE UNCHANGED accVars
  BY <1>3 DEF accVars, DemotionSticks
<1>4. CASE ProviderRotates \/ (\E s \in Subject : Logout(s))
           \/ \E gone \in SUBSET Subject : SessionExpires(gone)
  BY <1>4 DEF ProviderRotates, Logout, SessionExpires, DemotionSticks
<1>5. ASSUME NEW t \in Tab,
             \/ \E s \in Subject : LoginBegins(t, s)
             \/ RateLimitRefuses(t) \/ LoginStateRefused(t) \/ CallbackRefused(t)
             \/ CodeExchanged(t) \/ ProvisionReads(t)
      PROVE  DemotionSticks'
  BY <1>5 DEF LoginBegins, RateLimitRefuses, LoginStateRefused, CallbackRefused, LoginEnds,
     CodeExchanged, ProvisionReads, DemotionSticks
<1>6. ASSUME NEW t \in Tab, KeyLookup(t) \/ KeysAnswered(t) \/ KeysArrive(t)
      PROVE  DemotionSticks'
  BY <1>6 DEF KeyLookup, KeysAnswered, KeysArrive, DemotionSticks
<1>7. ASSUME NEW t \in Tab,
             (\E by, on \in Subject, c \in Change : PatchBegins(t, by, on, c)) \/ PatchGuard(t)
      PROVE  DemotionSticks'
  BY <1>7 DEF PatchBegins, PatchGuard, DemotionSticks
<1>8. QED
  BY <1>1, <1>2, <1>3, <1>4, <1>5, <1>6, <1>7 DEF AccountsNext

\* What an administrator decided about an account is what it is, whatever logins race
\* with the decision: provision_user gives a role to a new account and to no other.
THEOREM DecisionsStick == AccountsSpec => []DemotionSticks
BY InitTypes, StepTypes, DecisionInit, DecisionStep, PTL DEF AccountsSpec

----------------------------------------------------------------------------
(* Logins that are not lost. *)

\* Keys are numbered as the provider comes to sign with them; the token has one.
Signed(l) == l.key <= signingKey /\ (l.step \in {"check", "fetch"} => l.key >= 1)

\* The key set is dropped and fetched again for a login once, and only after it looked.
FirstLook(l) == l.step \in {"idle", "away", "check"} => ~l.refetched

\* A key set fetched after the token was signed lacks its key only if the provider has
\* retired it.
RetiredSince(l) ==
  /\ l.step = "fetch" /\ l.refetched /\ l.doc # {} /\ l.key \notin l.doc
  => l.key + 1 < signingKey

\* A login that starts over does so because the account is there, and accounts stay.
AgainExists(l) ==
  /\ l.again => accounts[l.who].role # "none"
  /\ l.again /\ l.step = "read" => l.row.role # "none"

Sound(l) == Signed(l) /\ FirstLook(l) /\ RetiredSince(l) /\ AgainExists(l)

LoginsSound == \A t \in Tab : Sound(login[t])

\* A row is there or it is blank, and only a row that is there is being changed.
RowsThere ==
  /\ \A s \in Subject : accounts[s].role = "none" => accounts[s] = NoAccount
  /\ \A t \in Tab : patch[t].step # "idle" => accounts[patch[t].on].role # "none"

LoginInv == LoginsSound /\ RowsThere /\ LoginNotLost

LEMMA LoginInit == AccountsInit => LoginInv
<1> SUFFICES ASSUME AccountsInit PROVE LoginInv
  OBVIOUS
<1>1. \A t \in Tab : login[t] = NoLogin /\ patch[t] = NoPatch
  BY DEF AccountsInit
<1>2. Sound(NoLogin)
  BY DEF AccountsInit, Sound, Signed, FirstLook, RetiredSince, AgainExists, NoLogin
<1>3. RowsThere
  BY <1>1 DEF AccountsInit, RowsThere, NoPatch
<1>4. QED
  BY <1>1, <1>2, <1>3 DEF AccountsInit, LoginInv, LoginsSound, LoginNotLost

\* The provider's keys only grow and no account is taken away.
Grows ==
  /\ signingKey' >= signingKey
  /\ \A s \in Subject : accounts[s].role # "none" => accounts'[s].role # "none"

LEMMA SoundKept ==
  ASSUME AccountsTypeOK, AccountsTypeOK', Grows, NEW t \in Tab, Sound(login[t]),
         login'[t] = login[t]
  PROVE  Sound(login[t])'
<1>1. /\ login[t] \in LoginUnderway /\ login[t].who \in Subject /\ login[t].key \in Nat
      /\ signingKey \in Nat /\ signingKey' \in Nat
  BY DEF AccountsTypeOK, LoginUnderway
<1>2. Signed(login[t])' /\ RetiredSince(login[t])'
  BY <1>1 DEF Grows, Sound, Signed, RetiredSince
<1>3. FirstLook(login[t])' /\ AgainExists(login[t])'
  BY <1>1 DEF Grows, Sound, FirstLook, AgainExists
<1>4. QED
  BY <1>2, <1>3 DEF Sound

\* A step of one login, with the accounts and the keys as they are.
LEMMA LoginMoves ==
  ASSUME AccountsTypeOK, AccountsTypeOK', LoginInv, NEW t \in Tab,
         \A u \in Tab : u # t => login'[u] = login[u],
         Sound(login[t])', UNCHANGED <<accounts, signingKey, patch>>, lost' = {}
  PROVE  LoginInv'
<1>1. Grows
  BY DEF Grows, AccountsTypeOK
<1>2. LoginsSound'
  BY <1>1, SoundKept DEF LoginInv, LoginsSound
<1>3. RowsThere' /\ LoginNotLost'
  BY DEF LoginInv, RowsThere, LoginNotLost
<1>4. QED
  BY <1>2, <1>3 DEF LoginInv

LEMMA EndsSound ==
  ASSUME AccountsTypeOK', NEW t \in Tab, login'[t] = NoLogin
  PROVE  Sound(login[t])'
<1>1. signingKey' \in Nat
  BY DEF AccountsTypeOK
<1>2. QED
  BY <1>1 DEF Sound, Signed, FirstLook, RetiredSince, AgainExists, NoLogin

LEMMA LoginKeeps ==
  ASSUME AccountsTypeOK, AccountsTypeOK', LoginInv, NEW t \in Tab,
         \/ \E s \in Subject : LoginBegins(t, s)
         \/ LoginEnds(t)
         \/ CodeExchanged(t)
  PROVE  LoginInv'
<1>1. /\ \A u \in Tab : u # t => login'[u] = login[u]
      /\ UNCHANGED <<accounts, signingKey, patch>> /\ lost' = {}
  BY DEF LoginBegins, LoginEnds, CodeExchanged, LoginInv, LoginNotLost, AccountsTypeOK
<1>2. signingKey \in Nat /\ signingKey >= 1 /\ login[t] \in LoginUnderway
  BY DEF AccountsTypeOK
<1>3. CASE \E s \in Subject : LoginBegins(t, s)
  <2>1. PICK s \in Subject : LoginBegins(t, s)
    BY <1>3
  <2>2. login'[t] = [NoLogin EXCEPT !.step = "away", !.who = s]
    BY <2>1 DEF LoginBegins, IssueLoginState, AccountsTypeOK
  <2>3. Sound(login[t])'
    BY <1>1, <1>2, <2>2 DEF Sound, Signed, FirstLook, RetiredSince, AgainExists, NoLogin
  <2>4. QED
    BY <1>1, <2>3, LoginMoves
<1>4. CASE LoginEnds(t)
  <2>1. login'[t] = NoLogin
    BY <1>4 DEF LoginEnds, AccountsTypeOK
  <2>2. QED
    BY <1>1, <2>1, EndsSound, LoginMoves
<1>5. CASE CodeExchanged(t)
  <2>1. /\ login[t].step = "away"
        /\ login'[t] = [login[t] EXCEPT !.step = "check", !.key = signingKey]
    BY <1>5 DEF CodeExchanged, AccountsTypeOK
  <2>2. Sound(login[t])
    BY DEF LoginInv, LoginsSound
  <2>3. Sound(login[t])'
    BY <1>1, <1>2, <2>1, <2>2
       DEF Sound, Signed, FirstLook, RetiredSince, AgainExists, LoginUnderway
  <2>4. QED
    BY <1>1, <2>3, LoginMoves
<1>6. QED
  BY <1>3, <1>4, <1>5

LEMMA LookedCases ==
  ASSUME NEW l \in LoginUnderway, NEW held
  PROVE  \/ /\ l.key \in held
            /\ Looked(l, held) = [l EXCEPT !.step = "verified", !.doc = {}]
            /\ Looked(l, held) # NoLogin
         \/ /\ l.key \notin held /\ ~l.refetched
            /\ Looked(l, held) = [l EXCEPT !.step = "fetch", !.doc = {}, !.refetched = TRUE]
            /\ Looked(l, held) # NoLogin
         \/ /\ l.key \notin held /\ l.refetched
            /\ Looked(l, held) = NoLogin
<1> DEFINE v == [l EXCEPT !.step = "verified", !.doc = {}]
           f == [l EXCEPT !.step = "fetch", !.doc = {}, !.refetched = TRUE]
<1>1. v.step = "verified" /\ f.step = "fetch" /\ NoLogin.step = "idle"
  BY DEF LoginUnderway, NoLogin
<1>2. Looked(l, held) = IF l.key \in held THEN v ELSE IF ~l.refetched THEN f ELSE NoLogin
  BY DEF Looked, Refetches
<1>3. l.refetched \in BOOLEAN
  BY DEF LoginUnderway
<1> HIDE DEF v, f
<1>4. v # NoLogin /\ f # NoLogin
  BY <1>1
<1>5. QED
  BY <1>2, <1>3, <1>4, Zenon DEF v, f

LEMMA KeyKeeps ==
  ASSUME AccountsTypeOK, AccountsTypeOK', LoginInv, NEW t \in Tab,
         KeyLookup(t) \/ KeysAnswered(t) \/ KeysArrive(t)
  PROVE  LoginInv'
<1>1. /\ \A u \in Tab : u # t => login'[u] = login[u]
      /\ UNCHANGED <<accounts, signingKey, patch>> /\ lost = {}
  BY DEF KeyLookup, KeysAnswered, KeysArrive, LoginInv, LoginNotLost, AccountsTypeOK
<1>2. /\ login[t] \in LoginUnderway /\ signingKey \in 1..MaxSigningKey
      /\ login[t].key \in Nat /\ MaxSigningKey \in Nat
  BY DEF AccountsTypeOK, LoginUnderway
<1>3. Sound(login[t])
  BY DEF LoginInv, LoginsSound
<1>4. ASSUME NEW held, login'[t] = Looked(login[t], held), login[t].step \in {"check", "fetch"}
      PROVE  Sound(login[t])'
  <2>1. CASE login'[t] = NoLogin
    BY <2>1, EndsSound
  <2>2. CASE login'[t] = [login[t] EXCEPT !.step = "verified", !.doc = {}]
    BY <1>1, <1>2, <1>3, <2>2
       DEF Sound, Signed, FirstLook, RetiredSince, AgainExists, LoginUnderway
  <2>3. CASE login'[t] = [login[t] EXCEPT !.step = "fetch", !.doc = {}, !.refetched = TRUE]
    BY <1>1, <1>2, <1>3, <1>4, <2>3
       DEF Sound, Signed, FirstLook, RetiredSince, AgainExists, LoginUnderway
  <2>4. QED
    BY <1>2, <1>4, <2>1, <2>2, <2>3, LookedCases
<1>5. CASE KeyLookup(t) /\ jwks = {}
  <2>1. /\ login[t].step = "check" /\ lost' = lost
        /\ login'[t] = [login[t] EXCEPT !.step = "fetch"]
    BY <1>5 DEF KeyLookup, AccountsTypeOK
  <2>2. Sound(login[t])'
    BY <1>1, <1>2, <1>3, <2>1
       DEF Sound, Signed, FirstLook, RetiredSince, AgainExists, LoginUnderway
  <2>3. QED
    BY <1>1, <2>1, <2>2, LoginMoves
<1>6. CASE KeyLookup(t) /\ jwks # {}
  <2>1. /\ login[t].step = "check" /\ login'[t] = Looked(login[t], jwks)
        /\ lost' = IF Looked(login[t], jwks) = NoLogin THEN lost \cup {"key"} ELSE lost
    BY <1>6 DEF KeyLookup, AccountsTypeOK
  <2>2. ~login[t].refetched
    BY <1>3, <2>1 DEF Sound, FirstLook
  <2>3. Looked(login[t], jwks) # NoLogin
    BY <1>2, <2>2, LookedCases
  <2>4. lost' = {} /\ Sound(login[t])'
    BY <1>1, <1>4, <2>1, <2>3
  <2>5. QED
    BY <1>1, <2>4, LoginMoves
<1>7. CASE KeysAnswered(t)
  <2>1. /\ login[t].step = "fetch" /\ lost' = lost
        /\ login'[t] = [login[t] EXCEPT !.doc = Published]
    BY <1>7 DEF KeysAnswered, AccountsTypeOK
  <2>2. login[t].key \notin Published => login[t].key + 1 < signingKey
    BY <1>2, <1>3, <2>1 DEF Sound, Signed, Published
  <2> HIDE DEF Published
  <2>3. Sound(login[t])'
    BY <1>1, <1>2, <1>3, <2>1, <2>2
       DEF Sound, Signed, FirstLook, RetiredSince, AgainExists, LoginUnderway
  <2>4. QED
    BY <1>1, <2>1, <2>3, LoginMoves
<1>8. CASE KeysArrive(t)
  <2>1. /\ login[t].step = "fetch" /\ login[t].doc # {}
        /\ login'[t] = Looked(login[t], login[t].doc)
        /\ lost' = IF Looked(login[t], login[t].doc) = NoLogin /\ login[t].key \in Published
                   THEN lost \cup {"key"} ELSE lost
    BY <1>8 DEF KeysArrive, AccountsTypeOK
  <2>2. Looked(login[t], login[t].doc) = NoLogin
          => login[t].refetched /\ login[t].key \notin login[t].doc
    BY <1>2, LookedCases
  <2>3. Looked(login[t], login[t].doc) = NoLogin => login[t].key + 1 < signingKey
    BY <1>3, <2>1, <2>2 DEF Sound, RetiredSince
  <2>4. login[t].key + 1 < signingKey => login[t].key \notin Published
    BY <1>2 DEF Published
  <2>5. lost' = {} /\ Sound(login[t])'
    BY <1>1, <1>4, <2>1, <2>3, <2>4
  <2>6. QED
    BY <1>1, <2>5, LoginMoves
<1>9. QED
  BY <1>5, <1>6, <1>7, <1>8

LEMMA ProvisionKeeps ==
  ASSUME AccountsTypeOK, AccountsTypeOK', LoginInv, NEW t \in Tab,
         ProvisionReads(t) \/ ProvisionCommits(t)
  PROVE  LoginInv'
<1>1. /\ login[t] \in LoginUnderway /\ login[t].who \in Subject /\ login[t].again \in BOOLEAN
      /\ login[t].row \in Account /\ accounts[login[t].who] \in Account /\ Sound(login[t])
      /\ lost = {}
  BY DEF AccountsTypeOK, LoginUnderway, LoginInv, LoginsSound, LoginNotLost
<1>2. /\ \A u \in Tab : u # t => login'[u] = login[u]
      /\ UNCHANGED <<signingKey, patch>>
  BY DEF ProvisionReads, ProvisionCommits, AccountsTypeOK
<1>3. CASE ProvisionReads(t)
  <2>1. /\ login[t].step = "verified" /\ accounts' = accounts /\ lost' = lost
        /\ \/ login'[t] = NoLogin
           \/ login'[t] = [login[t] EXCEPT !.step = "read", !.row = accounts[login[t].who]]
    BY <1>3 DEF ProvisionReads, AccountsTypeOK
  <2>2. CASE login'[t] = [login[t] EXCEPT !.step = "read", !.row = accounts[login[t].who]]
    <3>1. Sound(login[t])'
      BY <1>1, <1>2, <2>1, <2>2
         DEF Sound, Signed, FirstLook, RetiredSince, AgainExists, LoginUnderway
    <3>2. QED
      BY <1>1, <1>2, <2>1, <3>1, LoginMoves
  <2>3. QED
    BY <1>1, <1>2, <2>1, <2>2, EndsSound, LoginMoves
<1>4. CASE ProvisionCommits(t) /\ login[t].row = NoAccount /\ accounts[login[t].who] # NoAccount
  <2>1. /\ login[t].step = "read" /\ accounts' = accounts
        /\ login'[t] = IF ~login[t].again THEN [login[t] EXCEPT !.step = "verified", !.again = TRUE]
                       ELSE NoLogin
        /\ lost' = IF ~login[t].again THEN lost ELSE lost \cup {"race"}
    BY <1>4 DEF ProvisionCommits, ProvisionsAgain, AccountsTypeOK
  <2>2. ~login[t].again
    BY <1>1, <1>4, <2>1 DEF Sound, AgainExists, NoAccount
  <2>3. accounts[login[t].who].role # "none"
    BY <1>1, <1>4 DEF LoginInv, RowsThere
  <2>4. login'[t] = [login[t] EXCEPT !.step = "verified", !.again = TRUE] /\ lost' = {}
    BY <1>1, <2>1, <2>2
  <2>5. Sound(login[t])'
    BY <1>1, <1>2, <2>1, <2>3, <2>4
       DEF Sound, Signed, FirstLook, RetiredSince, AgainExists, LoginUnderway
  <2>6. QED
    BY <1>2, <2>1, <2>4, <2>5, LoginMoves
<1>5. CASE ProvisionCommits(t)
           /\ ~(login[t].row = NoAccount /\ accounts[login[t].who] # NoAccount)
  <2> DEFINE s == login[t].who
             created == [role |-> InitialRole(s), disabled |-> FALSE]
  <2>1. /\ login'[t] = NoLogin /\ lost' = {}
        /\ \/ accounts' = [accounts EXCEPT ![s] = created]
           \/ accounts' = accounts
    <3>1. /\ login' = [login EXCEPT ![t] = NoLogin] /\ lost' = lost
          /\ \/ accounts' = [accounts EXCEPT ![s] = created]
             \/ accounts' = [accounts EXCEPT ![s] = accounts[s]]
      BY <1>5 DEF ProvisionCommits, Renewed
    <3>2. QED
      BY <1>1, <3>1 DEF AccountsTypeOK
  <2>2. created.role # "none"
    BY DEF InitialRole
  <2> HIDE DEF created
  <2>3. /\ \A u \in Subject : accounts[u].role # "none" => accounts'[u].role # "none"
        /\ \A u \in Subject : accounts'[u].role = "none" => accounts'[u] = accounts[u]
    BY <1>1, <2>1, <2>2 DEF AccountsTypeOK
  <2>4. Grows
    BY <1>2, <2>3 DEF Grows, AccountsTypeOK
  <2>5. LoginsSound'
    BY <1>2, <2>1, <2>4, SoundKept, EndsSound DEF LoginInv, LoginsSound
  <2>6. RowsThere'
    <3>1. \A u \in Tab : patch[u].on \in Subject
      BY DEF AccountsTypeOK, PatchUnderway
    <3>2. QED
      BY <1>2, <2>3, <3>1 DEF LoginInv, RowsThere
  <2>7. QED
    BY <2>1, <2>5, <2>6 DEF LoginInv, LoginNotLost
<1>6. QED
  BY <1>3, <1>4, <1>5

LEMMA PatchKeeps ==
  ASSUME AccountsTypeOK, AccountsTypeOK', LoginInv, NEW t \in Tab,
         \/ \E by, on \in Subject, c \in Change : PatchBegins(t, by, on, c)
         \/ PatchGuard(t)
         \/ PatchCommits(t)
  PROVE  LoginInv'
<1>0. UNCHANGED <<login, signingKey, lost>>
  BY DEF PatchBegins, PatchGuard, PatchCommits
<1>1. UNCHANGED <<login, signingKey, lost>> /\ signingKey' >= signingKey
  BY <1>0 DEF AccountsTypeOK
<1>2. /\ patch[t] \in PatchUnderway /\ patch[t].on \in Subject
      /\ accounts[patch[t].on] \in Account
      /\ \A u \in Tab : patch[u].on \in Subject
  BY DEF AccountsTypeOK, PatchUnderway
<1>3. ASSUME Grows, RowsThere'
      PROVE  LoginInv'
  BY <1>1, <1>3, SoundKept DEF LoginInv, LoginsSound, LoginNotLost
<1>4. CASE \E by, on \in Subject, c \in Change : PatchBegins(t, by, on, c)
  <2>1. PICK by \in Subject, on \in Subject, c \in Change : PatchBegins(t, by, on, c)
    BY <1>4
  <2>2. /\ accounts' = accounts /\ accounts[on] # NoAccount /\ patch'[t].on = on
        /\ \A u \in Tab : u # t => patch'[u] = patch[u]
    BY <2>1 DEF PatchBegins, AccountsTypeOK, NoPatch
  <2>3. RowsThere'
    BY <2>2 DEF LoginInv, RowsThere
  <2>4. QED
    BY <1>1, <1>3, <2>2, <2>3 DEF Grows
<1>5. CASE PatchGuard(t)
  <2>1. /\ accounts' = accounts /\ patch[t].step # "idle"
        /\ \A u \in Tab : u # t => patch'[u] = patch[u]
        /\ patch'[t].step = "idle" \/ patch'[t].on = patch[t].on
    <3> DEFINE passed == [patch[t] EXCEPT !.step = "checked"]
               locked == [patch[t] EXCEPT !.step = "checked", !.locks = Admins]
    <3>1. \/ patch' = [patch EXCEPT ![t] = passed]
          \/ patch' = [patch EXCEPT ![t] = NoPatch]
          \/ patch' = [patch EXCEPT ![t] = locked]
      BY <1>5 DEF PatchGuard
    <3>2. passed.on = patch[t].on /\ locked.on = patch[t].on /\ NoPatch.step = "idle"
      BY <1>2 DEF NoPatch, PatchUnderway
    <3>3. accounts' = accounts /\ patch[t].step # "idle"
      BY <1>5 DEF PatchGuard
    <3> HIDE DEF passed, locked
    <3>4. QED
      BY <3>1, <3>2, <3>3 DEF AccountsTypeOK
  <2>2. RowsThere'
    BY <2>1 DEF LoginInv, RowsThere
  <2>3. QED
    BY <1>1, <1>3, <2>1, <2>2 DEF Grows
<1>6. CASE PatchCommits(t)
  <2> DEFINE on == patch[t].on
             new == Patched(accounts[on], patch[t])
  <2>1. /\ accounts' = [accounts EXCEPT ![on] = new] /\ patch[t].step # "idle"
        /\ patch' = [patch EXCEPT ![t] = NoPatch]
    BY <1>6 DEF PatchCommits
  <2>2. accounts[on].role # "none"
    BY <2>1 DEF LoginInv, RowsThere
  <2>3. new.role # "none"
    BY <1>2, <2>2 DEF Patched, PatchUnderway, Change, Role
  <2> HIDE DEF new
  <2>4. /\ \A u \in Subject : accounts[u].role # "none" => accounts'[u].role # "none"
        /\ \A u \in Subject : accounts'[u].role = "none" => accounts'[u] = accounts[u]
    BY <1>2, <2>1, <2>3 DEF AccountsTypeOK
  <2>5. \A u \in Tab : patch'[u].step # "idle" => patch'[u] = patch[u]
    BY <2>1 DEF AccountsTypeOK, NoPatch
  <2>6. RowsThere'
    BY <1>2, <2>4, <2>5 DEF LoginInv, RowsThere
  <2>7. QED
    BY <1>1, <1>3, <2>4, <2>6 DEF Grows
<1>7. QED
  BY <1>4, <1>5, <1>6

LEMMA LoginStep ==
  ASSUME AccountsTypeOK, AccountsTypeOK', LoginInv, [AccountsNext]_accVars
  PROVE  LoginInv'
<1>1. CASE \/ UNCHANGED accVars \/ ProviderRotates \/ (\E s \in Subject : Logout(s))
           \/ \E gone \in SUBSET Subject : SessionExpires(gone)
  <2>1. UNCHANGED <<accounts, login, patch, lost>> /\ signingKey' >= signingKey
    BY <1>1 DEF accVars, ProviderRotates, Logout, SessionExpires, AccountsTypeOK
  <2>2. Grows
    BY <2>1 DEF Grows
  <2>3. LoginsSound'
    BY <2>1, <2>2, SoundKept DEF LoginInv, LoginsSound
  <2>4. QED
    BY <2>1, <2>3 DEF LoginInv, RowsThere, LoginNotLost
<1>2. ASSUME NEW t \in Tab,
             \/ \E s \in Subject : LoginBegins(t, s)
             \/ RateLimitRefuses(t) \/ LoginStateRefused(t) \/ CallbackRefused(t)
             \/ CodeExchanged(t)
      PROVE  LoginInv'
  BY <1>2, LoginKeeps DEF RateLimitRefuses, LoginStateRefused, CallbackRefused
<1>3. ASSUME NEW t \in Tab, KeyLookup(t) \/ KeysAnswered(t) \/ KeysArrive(t)
      PROVE  LoginInv'
  BY <1>3, KeyKeeps
<1>4. ASSUME NEW t \in Tab, ProvisionReads(t) \/ ProvisionCommits(t)
      PROVE  LoginInv'
  BY <1>4, ProvisionKeeps
<1>5. ASSUME NEW t \in Tab,
             \/ \E by, on \in Subject, c \in Change : PatchBegins(t, by, on, c)
             \/ PatchGuard(t) \/ PatchCommits(t)
      PROVE  LoginInv'
  BY <1>5, PatchKeeps
<1>6. QED
  BY <1>1, <1>2, <1>3, <1>4, <1>5 DEF AccountsNext

\* No login the provider vouched for fails for a key set cached before a rotation, or
\* because another tab created the account first: one refetch and one retry are enough,
\* whatever other coroutines do to the cache and the rows meanwhile
\* (OidcClient._signing_key, callback).
THEOREM LoginsSucceed == AccountsSpec => []LoginNotLost
<1>1. LoginInv => LoginNotLost
  BY DEF LoginInv
<1>2. QED
  BY <1>1, InitTypes, StepTypes, LoginInit, LoginStep, PTL DEF AccountsSpec
=============================================================================
