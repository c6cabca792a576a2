------------------------------- MODULE Outbox -------------------------------
(***************************************************************************)
(* The notification outbox (notifications/dispatch.py): announcements are  *)
(* queued in the transaction that settles a scan, escalations by the beat  *)
(* when a deadline passes, and both are sent later, one attempt and one    *)
(* commit per row, with retries, a ceiling, and a process that may die     *)
(* between the send and the commit.                                        *)
(*                                                                         *)
(* Rounds are serialised by the leader lock (module Beat), so there is one *)
(* attempt at a time.  Findings are numbered in the order their deadlines  *)
(* were set when they tie.                                                 *)
(***************************************************************************)
EXTENDS Naturals, FiniteSets

CONSTANTS
  Channel,
  Team,             \* owner groups
  NoTeam,           \* NULL owner_group_id
  TeamOf,           \* [Alert -> Team or NoTeam]
  TeamChannels,     \* [Team -> SUBSET Channel], at most one: notification_channel_id
  NAlert,           \* findings are 1..NAlert
  Wants,            \* [Channel -> SUBSET Alert], what event_filter selects
  PageLimit,        \* escalations queued per beat
  MaxSends,         \* notification_max_attempts
  MaxOpening,       \* bound on how often a finding is opened
  MaxCrash          \* bound on deaths of the delivering process

Alert == 1..NAlert
Opening == 1..MaxOpening

ASSUME OutboxAssumption ==
  /\ NAlert \in Nat /\ MaxSends \in Nat \ {0} /\ MaxOpening \in Nat /\ MaxCrash \in Nat
  /\ PageLimit \in Nat \ {0}
  /\ NoTeam \notin Team
  /\ TeamOf \in [Alert -> Team \cup {NoTeam}]
  /\ TeamChannels \in [Team -> SUBSET Channel]
  /\ Wants \in [Channel -> SUBSET Alert]

\* The two unique keys of notification_delivery: an announcement is of one
\* opening by a scan, an escalation of one deadline; a reopen starts both anew.
DeliveryKey == [chan : Channel, alert : Alert, kind : {"finding_opened", "finding_overdue"},
                nth : Opening]

\* status, attempts, and whether next_attempt_at has come; "none" is no row.
Delivery == [status : {"none", "pending", "delivered", "failed"}, attempts : 0..MaxSends,
             ripe : BOOLEAN]
NoDelivery == [status |-> "none", attempts |-> 0, ripe |-> FALSE]
Queued == [status |-> "pending", attempts |-> 0, ripe |-> TRUE]

\* How a transport's send ends: accepted; refused for good; not accepted; or
\* accepted by a receiver whose answer never came.
SendResult == {"ok", "permanent", "transient", "unanswered"}

VARIABLES
  chan,       \* [Channel -> on, off (disabled) or gone (deleted)]
  teamOff,    \* disabled owner groups
  life,       \* [Alert -> unborn, open, shut (resolved, judged, suppressed) or deleted]
  openings,   \* [Alert -> how often it was opened: which deadline is current]
  late,       \* findings whose current deadline has passed
  box,        \* [DeliveryKey -> Delivery]
  send,       \* the attempt whose result is not committed yet
  heard,      \* [DeliveryKey -> receipts, less those whose acceptance was lost]
  crashes

ovars == <<chan, teamOff, life, openings, late, box, send, heard, crashes>>
facts == <<chan, teamOff, life, openings, late>>

NoSend == [key |-> [chan |-> NoTeam, alert |-> 0, kind |-> "none", nth |-> 0], result |-> "none"]

OutboxInit ==
  /\ chan = [c \in Channel |-> "on"]
  /\ teamOff = {}
  /\ life = [a \in Alert |-> "unborn"]
  /\ openings = [a \in Alert |-> 0]
  /\ late = {}
  /\ box = [k \in DeliveryKey |-> NoDelivery]
  /\ send = NoSend
  /\ heard = [k \in DeliveryKey |-> 0]
  /\ crashes = 0

Enabled == {c \in Channel : chan[c] = "on"}

----------------------------------------------------------------------------
(* Queueing *)

\* channel_wants, for the enabled channels.
Listeners(a) == {c \in Enabled : a \in Wants[c]}

DeliveryOf(c, a, kind, nth) == [chan |-> c, alert |-> a, kind |-> kind, nth |-> nth]
QueueRows(keys) == box' = [k \in DeliveryKey |-> IF k \in keys THEN Queued ELSE box[k]]

\* enqueue_for_scan, with the scan that opened or reopened a: the clock restarts.
OpenedByScan(a) ==
  /\ life[a] \in {"unborn", "shut"}
  /\ openings[a] < MaxOpening
  /\ life' = [life EXCEPT ![a] = "open"]
  /\ openings' = [openings EXCEPT ![a] = @ + 1]
  /\ late' = late \ {a}
  /\ QueueRows({DeliveryOf(c, a, "finding_opened", openings[a] + 1) : c \in Listeners(a)})
  /\ UNCHANGED <<chan, teamOff, send, heard, crashes>>

DeadlinePasses(a) ==
  /\ life[a] = "open"
  /\ late' = late \cup {a}
  /\ UNCHANGED <<chan, teamOff, life, openings, box, send, heard, crashes>>

\* _escalation_targets: the team's channel and no other; without a team, or with
\* a disbanded one, whoever would have been told when it opened.
Accountable(a) == TeamOf[a] # NoTeam /\ TeamOf[a] \notin teamOff
EscalationTargets(a) ==
  IF Accountable(a) THEN TeamChannels[TeamOf[a]] \cap Enabled ELSE Listeners(a)

\* Faulty variant: whether there is anywhere to go is asked after the limit.
AnyTarget(a) == life[a] = "open"

\* _has_escalation_target, the predicate of the query: targeted teams, or a
\* broadcast for what is unowned or disbanded.
HasEscalationTarget(a) ==
  \/ \E t \in Team \ teamOff : TeamOf[a] = t /\ TeamChannels[t] \cap Enabled # {}
  \/ TeamOf[a] \in teamOff \cup {NoTeam} /\ Listeners(a) # {}

Escalated(a) ==
  \E c \in Channel : box[DeliveryOf(c, a, "finding_overdue", openings[a])].status # "none"
Escalatable(a) == life[a] = "open" /\ a \in late /\ ~Escalated(a)

\* order_by(due_at): an earlier opening's deadline is older.
Older(a, b) == openings[a] < openings[b] \/ (openings[a] = openings[b] /\ a < b)

\* The page: the oldest deadlines of those the query selects.
Page ==
  LET selected == {a \in Alert : Escalatable(a) /\ HasEscalationTarget(a)} IN
  {a \in selected : Cardinality({b \in selected : Older(b, a)}) < PageLimit}

EscalateOverdue ==
  /\ Page # {}
  /\ QueueRows(UNION {{DeliveryOf(c, a, "finding_overdue", openings[a]) :
                         c \in EscalationTargets(a)} : a \in Page})
  /\ UNCHANGED <<facts, send, heard, crashes>>

----------------------------------------------------------------------------
(* What happens around a queued row *)

\* Resolved by a scan or by hand, judged, or suppressed.
Shut(a) ==
  /\ life[a] = "open"
  /\ life' = [life EXCEPT ![a] = "shut"]
  /\ UNCHANGED <<chan, teamOff, openings, late, box, send, heard, crashes>>

\* Retention deletes the finding; its deliveries cascade.
DeleteAlert(a) ==
  /\ life[a] = "shut"
  /\ life' = [life EXCEPT ![a] = "deleted"]
  /\ box' = [k \in DeliveryKey |-> IF k.alert = a THEN NoDelivery ELSE box[k]]
  /\ UNCHANGED <<chan, teamOff, openings, late, send, heard, crashes>>

\* update_channel's enabled flag, in either direction.
ToggleChannel(c) ==
  /\ chan[c] # "gone"
  /\ chan' = [chan EXCEPT ![c] = IF @ = "on" THEN "off" ELSE "on"]
  /\ UNCHANGED <<teamOff, life, openings, late, box, send, heard, crashes>>

DeleteChannel(c) ==
  /\ chan[c] # "gone"
  /\ chan' = [chan EXCEPT ![c] = "gone"]
  /\ box' = [k \in DeliveryKey |-> IF k.chan = c THEN NoDelivery ELSE box[k]]
  /\ UNCHANGED <<teamOff, life, openings, late, send, heard, crashes>>

ToggleTeam(t) ==
  /\ teamOff' = IF t \in teamOff THEN teamOff \ {t} ELSE teamOff \cup {t}
  /\ UNCHANGED <<chan, life, openings, late, box, send, heard, crashes>>

----------------------------------------------------------------------------
(* Delivery *)

\* The round's query: pending and due.
Due(k) == box[k].status = "pending" /\ box[k].ripe

\* next_attempt_at comes.
Ripen(k) ==
  /\ box[k].status = "pending" /\ ~box[k].ripe
  /\ box' = [box EXCEPT ![k].ripe = TRUE]
  /\ UNCHANGED <<facts, send, heard, crashes>>

\* A disabled channel ends the row without a send.
AttemptRefused(k) ==
  /\ send = NoSend
  /\ Due(k)
  /\ chan[k.chan] = "off"
  /\ box' = [box EXCEPT ![k].status = "failed", ![k].attempts = @ + 1]
  /\ UNCHANGED <<facts, send, heard, crashes>>

\* transport.send: a redirect and the 4xx that say "never" are permanent, every
\* other failure may be retried, an exception of the formatter too.
AttemptSend(k, result) ==
  /\ send = NoSend
  /\ Due(k)
  /\ chan[k.chan] = "on"
  /\ send' = [key |-> k, result |-> result]
  /\ heard' = [heard EXCEPT ![k] = IF result = "ok" THEN @ + 1 ELSE @]
  /\ UNCHANGED <<facts, box, crashes>>

\* Faulty variant: a delivered row stays due until the batch is done.
SettledPerBatch(row, result) ==
  IF result = "ok" THEN [row EXCEPT !.attempts = IF @ < MaxSends THEN @ + 1 ELSE @]
  ELSE [row EXCEPT !.status = "failed"]

\* Faulty variant: a failed attempt is not counted.
SettledUncounted(row, result) ==
  IF result = "ok" THEN [row EXCEPT !.status = "delivered"] ELSE [row EXCEPT !.ripe = FALSE]

\* _attempt's end, _retry_or_fail and _fail.
Settled(row, result) ==
  IF result = "ok" THEN [row EXCEPT !.attempts = @ + 1, !.status = "delivered"]
  ELSE IF result = "permanent" \/ row.attempts + 1 >= MaxSends
       THEN [row EXCEPT !.attempts = @ + 1, !.status = "failed"]
       ELSE [row EXCEPT !.attempts = @ + 1, !.ripe = FALSE]

\* A commit per row.  A row cascaded away meanwhile cannot be flushed: the pass
\* ends there.
AttemptCommit ==
  /\ send # NoSend
  /\ box' = IF box[send.key].status = "pending"
            THEN [box EXCEPT ![send.key] = Settled(@, send.result)] ELSE box
  /\ send' = NoSend
  /\ UNCHANGED <<facts, heard, crashes>>

\* The process dies before the commit: the attempt was never counted.
DelivererDies ==
  /\ send # NoSend
  /\ crashes < MaxCrash
  /\ crashes' = crashes + 1
  /\ send' = NoSend
  /\ heard' = [heard EXCEPT ![send.key] = IF send.result = "ok" THEN @ - 1 ELSE @]
  /\ UNCHANGED <<facts, box>>

Attempt(k) == AttemptRefused(k) \/ \E r \in SendResult : AttemptSend(k, r)

OutboxNext ==
  \/ \E a \in Alert : OpenedByScan(a) \/ DeadlinePasses(a) \/ Shut(a) \/ DeleteAlert(a)
  \/ \E c \in Channel : ToggleChannel(c) \/ DeleteChannel(c)
  \/ \E t \in Team : ToggleTeam(t)
  \/ EscalateOverdue
  \/ \E k \in DeliveryKey : Ripen(k) \/ Attempt(k)
  \/ AttemptCommit
  \/ DelivererDies

Deliver == AttemptCommit \/ \E k \in DeliveryKey : Attempt(k)

\* The beat: every round escalates and goes on with some due row, and time passes.
OutboxFairness ==
  /\ WF_ovars(EscalateOverdue)
  /\ WF_ovars(Deliver)
  /\ WF_ovars(\E k \in DeliveryKey : Ripen(k))

OutboxSpec == OutboxInit /\ [][OutboxNext]_ovars /\ OutboxFairness

----------------------------------------------------------------------------
OutboxTypeOK ==
  /\ chan \in [Channel -> {"on", "off", "gone"}]
  /\ teamOff \subseteq Team
  /\ life \in [Alert -> {"unborn", "open", "shut", "deleted"}]
  /\ openings \in [Alert -> 0..MaxOpening]
  /\ late \subseteq Alert
  /\ box \in [DeliveryKey -> Delivery]
  /\ send = NoSend \/ send \in [key : DeliveryKey, result : SendResult]
  /\ heard \in [DeliveryKey -> Nat]
  /\ crashes \in 0..MaxCrash

\* At least once, and more than once only where the sender could not know: for
\* every opening and every deadline the receiver hears at most one more time than
\* there were sends whose acceptance was lost, to a death before the commit or to
\* an answer that never came (which adds nothing to heard).
AnnouncedOnce == \A k \in DeliveryKey : heard[k] <= 1

\* Every queued row is delivered, failed for a stated reason, or deleted with what
\* it was about; deaths and retries do not leave it pending for ever.
DeliverySettles ==
  \A k \in DeliveryKey : box[k].status = "pending" ~> box[k].status # "pending"

\* A finding past its deadline with somewhere to go is escalated, however many
\* older ones have nowhere to go (escalate_overdue's page).
EscalationNotStarved ==
  \A a \in Alert : (Escalatable(a) /\ EscalationTargets(a) # {}) ~>
                   ~(Escalatable(a) /\ EscalationTargets(a) # {})

=============================================================================
