------------------------------- MODULE Handoff ------------------------------
(***************************************************************************)
(* Handing one finding to one external target (handoff/service.py,         *)
(* callback.py, routes.py, transport.py): requests that race each other,   *)
(* delivery with retries from the beat, replays of failed rows, callbacks  *)
(* in which the receiver reports its work item late, twice or out of       *)
(* order, and analysts dismissing a disagreement.                          *)
(*                                                                         *)
(* A handler loads the row, works, and flushes the columns it changed      *)
(* without a lock or a condition; handlers of different API replicas       *)
(* overlap.                                                                *)
(***************************************************************************)
EXTENDS Naturals, Sequences

CONSTANTS
  Handler,        \* API replicas serving requests
  ItemStates,     \* <<...>>, the states the receiver's work item goes through
  MaxTries,       \* notification_max_attempts
  MaxHandled,     \* bound on requests handled
  MaxDeaths       \* bound on deaths of the delivering process

ExternalState == {"open", "in_progress", "resolved", "rejected"}
ExternalTerminal == {"resolved", "rejected"}
Moment == 1..Len(ItemStates)

ASSUME HandoffAssumption ==
  /\ ItemStates \in Seq(ExternalState) /\ ItemStates # <<>>
  /\ MaxTries \in Nat \ {0} /\ MaxHandled \in Nat /\ MaxDeaths \in Nat

\* finding_handoff: external_state with its external_state_at (0: never called
\* back), whether external_id is known, and conflict_dismissed_state.
HandoffRow == [status : {"none", "pending", "delivered", "failed"}, attempts : 0..MaxTries,
               ripe : BOOLEAN, ext : ExternalState \cup {"none"}, extAt : 0..Len(ItemStates),
               id : BOOLEAN, dismissed : ExternalState \cup {"none"}]
NoHandoff == [status |-> "none", attempts |-> 0, ripe |-> FALSE, ext |-> "none", extAt |-> 0,
              id |-> FALSE, dismissed |-> "none"]

\* A callback: the state the item had at a moment, with or without state_at, with
\* or without the item's id, and whether verify accepts it.
Callback == [of : Moment, stamped : BOOLEAN, names : BOOLEAN, authentic : BOOLEAN]

VARIABLES
  target,      \* on, off or gone
  handoff,     \* the row
  findingOpen, \* the finding's state is open
  item,        \* moments of the work item so far; 0 before it exists
  busy,        \* [Handler -> what it is doing, what it loaded, what it will write]
  answers,     \* the answers requests were given
  created,     \* rows inserted
  sending,     \* the beat's attempt: none, or how the send ended
  loaded,      \* the row the attempt loaded
  items,       \* work items asked for, less those whose acceptance was lost
  newest,      \* the latest moment an applied or stale callback told of
  overlapped,  \* two handlers had the row loaded at once
  unstamped,   \* a callback carried no state_at
  handled, deaths

hvars == <<target, handoff, findingOpen, item, busy, answers, created, sending, loaded,
           items, newest, overlapped, unstamped, handled, deaths>>

Resting == [op |-> "idle", read |-> NoHandoff, write |-> NoHandoff, of |-> 0]

HandoffInit ==
  /\ target = "on"
  /\ handoff = NoHandoff
  /\ findingOpen = TRUE
  /\ item = 0
  /\ busy = [h \in Handler |-> Resting]
  /\ answers = {}
  /\ created = 0
  /\ sending = "none"
  /\ loaded = NoHandoff
  /\ items = 0
  /\ newest = 0
  /\ overlapped = FALSE
  /\ unstamped = FALSE
  /\ handled = 0
  /\ deaths = 0

\* The UPDATE: the columns that differ from what was loaded.
FlushColumns(cur, read, new) ==
  [c \in DOMAIN cur |-> IF new[c] # read[c] THEN new[c] ELSE cur[c]]

Handle(h, op, write, of) ==
  /\ busy[h] = Resting
  /\ handled < MaxHandled
  /\ handled' = handled + 1
  /\ busy' = [busy EXCEPT ![h] = [op |-> op, read |-> handoff, write |-> write, of |-> of]]
  /\ overlapped' = (overlapped \/ (op # "request" /\ \E g \in Handler : busy[g].op # "idle"))

Answered(h) == busy' = [busy EXCEPT ![h] = Resting]

----------------------------------------------------------------------------
(* Requests *)

\* request: an enabled target, and no row yet.
RequestLooks(h) ==
  /\ target = "on"
  /\ handoff.status = "none"
  /\ Handle(h, "request", [NoHandoff EXCEPT !.status = "pending", !.ripe = TRUE], 0)
  /\ UNCHANGED <<target, handoff, findingOpen, item, answers, created, sending, loaded, items,
                 newest, unstamped, deaths>>

\* Faulty variant: the loser of the race gets the IntegrityError.
RaceRaises(h) ==
  IF handoff.status = "none" THEN "created" ELSE "error"

\* The unique constraint refuses a second row, and the loser is given the first;
\* a foreign key refuses a row of a deleted target.
RaceAnswer(h) ==
  IF target = "gone" THEN "error"
  ELSE IF handoff.status = "none" THEN "created" ELSE "existing"

RequestCommits(h) ==
  /\ busy[h].op = "request"
  /\ answers' = answers \cup {RaceAnswer(h)}
  /\ IF RaceAnswer(h) = "created"
     THEN handoff' = busy[h].write /\ created' = created + 1
     ELSE UNCHANGED <<handoff, created>>
  /\ Answered(h)
  /\ UNCHANGED <<target, findingOpen, item, sending, loaded, items, newest, overlapped,
                 unstamped, handled, deaths>>

\* Faulty variant: a delivered row may be queued again.
ReplayableSettled(row) == row.status \in {"failed", "delivered"}

\* replay_handoff answers 409 unless the row it loaded has failed.
Replayable(row) == row.status = "failed"

ReplayLoads(h) ==
  /\ Replayable(handoff)
  /\ Handle(h, "replay", [handoff EXCEPT !.status = "pending", !.attempts = 0, !.ripe = TRUE], 0)
  /\ UNCHANGED <<target, handoff, findingOpen, item, answers, created, sending, loaded, items,
                 newest, unstamped, deaths>>

----------------------------------------------------------------------------
(* What comes back *)

\* Faulty variant: what arrives last wins.
NeverStale(row, c) == row.status = "none"

\* record: only the receiver's own clock orders its callbacks.
StaleCallback(row, c) == c.stamped /\ row.extAt # 0 /\ c.of < row.extAt

\* Without state_at the arrival time stands in; ids are never blanked.
Recorded(row, c) ==
  IF StaleCallback(row, c) THEN row
  ELSE [row EXCEPT !.ext = ItemStates[c.of], !.extAt = IF c.stamped THEN c.of ELSE item,
                   !.id = @ \/ c.names]

\* handoff_callback: found by its key, on a target that exists, and verified.
CallbackLoads(h, c) ==
  /\ c.authentic
  /\ handoff.status # "none"
  /\ c.of <= item
  /\ Handle(h, "callback", Recorded(handoff, c), c.of)
  /\ unstamped' = (unstamped \/ ~c.stamped)
  /\ UNCHANGED <<target, handoff, findingOpen, item, answers, created, sending, loaded, items,
                 newest, deaths>>

\* conflict_of: the two systems disagree and nobody accepted this state.
ConflictOf(row, open) ==
  /\ row.ext # "none"
  /\ row.ext # row.dismissed
  /\ (row.ext \in ExternalTerminal) = open

DismissLoads(h) ==
  /\ ConflictOf(handoff, findingOpen)
  /\ Handle(h, "dismiss", [handoff EXCEPT !.dismissed = handoff.ext], 0)
  /\ UNCHANGED <<target, handoff, findingOpen, item, answers, created, sending, loaded, items,
                 newest, unstamped, deaths>>

\* The commit of a replay, a callback or a dismissal.  A row cascaded away
\* meanwhile cannot be updated.
HandlerCommits(h) ==
  LET b == busy[h] IN
  /\ b.op \in {"replay", "callback", "dismiss"}
  /\ handoff' = IF handoff.status = "none" THEN handoff ELSE FlushColumns(handoff, b.read, b.write)
  /\ newest' = IF b.of > newest THEN b.of ELSE newest
  /\ Answered(h)
  /\ UNCHANGED <<target, findingOpen, item, answers, created, sending, loaded, items,
                 overlapped, unstamped, handled, deaths>>

----------------------------------------------------------------------------
(* Delivery on the beat *)

\* A 2xx creates the work item, whatever the body says of it; a lost answer may
\* have created it too.
DeliverSends(result) ==
  /\ sending = "none"
  /\ handoff.status = "pending" /\ handoff.ripe
  /\ target = "on"
  /\ sending' = result
  /\ loaded' = handoff
  /\ items' = IF result \in {"ok", "named"} THEN items + 1 ELSE items
  /\ item' = IF result \in {"ok", "named", "unanswered"} /\ item = 0 THEN 1 ELSE item
  /\ UNCHANGED <<target, handoff, findingOpen, busy, answers, created, newest, overlapped,
                 unstamped, handled, deaths>>

\* A disabled target ends the row without a send.
DeliverRefused ==
  /\ sending = "none"
  /\ handoff.status = "pending" /\ handoff.ripe
  /\ target = "off"
  /\ handoff' = [handoff EXCEPT !.status = "failed", !.attempts = @ + 1]
  /\ UNCHANGED <<target, findingOpen, item, busy, answers, created, sending, loaded, items,
                 newest, overlapped, unstamped, handled, deaths>>

\* _attempt's end: the reply's id, or NULL, is what the row is given.
AttemptEnds(row, result) ==
  IF result \in {"ok", "named"}
  THEN [row EXCEPT !.attempts = @ + 1, !.status = "delivered", !.id = result = "named"]
  ELSE IF result = "permanent" \/ row.attempts + 1 >= MaxTries
  THEN [row EXCEPT !.attempts = @ + 1, !.status = "failed"]
  ELSE [row EXCEPT !.attempts = @ + 1, !.ripe = FALSE]

DeliverCommits ==
  /\ sending # "none"
  /\ handoff' = IF handoff.status = "none" THEN handoff
                ELSE FlushColumns(handoff, loaded, AttemptEnds(loaded, sending))
  /\ sending' = "none"
  /\ loaded' = NoHandoff
  /\ UNCHANGED <<target, findingOpen, item, busy, answers, created, items, newest, overlapped,
                 unstamped, handled, deaths>>

DelivererDiesHere ==
  /\ sending # "none"
  /\ deaths < MaxDeaths
  /\ deaths' = deaths + 1
  /\ items' = IF sending \in {"ok", "named"} THEN items - 1 ELSE items
  /\ sending' = "none"
  /\ loaded' = NoHandoff
  /\ UNCHANGED <<target, handoff, findingOpen, item, busy, answers, created, newest, overlapped,
                 unstamped, handled>>

BackoffEnds ==
  /\ handoff.status = "pending" /\ ~handoff.ripe
  /\ handoff' = [handoff EXCEPT !.ripe = TRUE]
  /\ UNCHANGED <<target, findingOpen, item, busy, answers, created, sending, loaded, items,
                 newest, overlapped, unstamped, handled, deaths>>

----------------------------------------------------------------------------
(* The world: the receiver works on the item, analysts triage, admins edit. *)

ItemMoves ==
  /\ item \in Moment /\ item < Len(ItemStates)
  /\ item' = item + 1
  /\ UNCHANGED <<target, handoff, findingOpen, busy, answers, created, sending, loaded, items,
                 newest, overlapped, unstamped, handled, deaths>>

FindingTriaged ==
  /\ findingOpen' = ~findingOpen
  /\ UNCHANGED <<target, handoff, item, busy, answers, created, sending, loaded, items,
                 newest, overlapped, unstamped, handled, deaths>>

UpdateTarget ==
  /\ target # "gone"
  /\ target' = IF target = "on" THEN "off" ELSE "on"
  /\ UNCHANGED <<handoff, findingOpen, item, busy, answers, created, sending, loaded, items,
                 newest, overlapped, unstamped, handled, deaths>>

\* delete_target: its hand-overs cascade.
DeleteTarget ==
  /\ target # "gone"
  /\ target' = "gone"
  /\ handoff' = NoHandoff
  /\ UNCHANGED <<findingOpen, item, busy, answers, created, sending, loaded, items,
                 newest, overlapped, unstamped, handled, deaths>>

HandoffNext ==
  \/ \E h \in Handler :
       \/ RequestLooks(h) \/ RequestCommits(h)
       \/ ReplayLoads(h) \/ DismissLoads(h)
       \/ \E c \in Callback : CallbackLoads(h, c)
       \/ HandlerCommits(h)
  \/ \E r \in {"ok", "named", "permanent", "transient", "unanswered"} : DeliverSends(r)
  \/ DeliverRefused
  \/ DeliverCommits
  \/ DelivererDiesHere
  \/ BackoffEnds
  \/ ItemMoves
  \/ FindingTriaged
  \/ UpdateTarget
  \/ DeleteTarget

HandoffSpec == HandoffInit /\ [][HandoffNext]_hvars

----------------------------------------------------------------------------
HandoffTypeOK ==
  /\ target \in {"on", "off", "gone"}
  /\ handoff \in HandoffRow /\ loaded \in HandoffRow
  /\ findingOpen \in BOOLEAN /\ overlapped \in BOOLEAN /\ unstamped \in BOOLEAN
  /\ item \in 0..Len(ItemStates) /\ newest \in 0..Len(ItemStates)
  /\ \A h \in Handler : busy[h].read \in HandoffRow /\ busy[h].write \in HandoffRow
  /\ answers \subseteq {"created", "existing", "error"}
  /\ items \in Nat /\ created \in Nat

\* Whoever asks for a hand-over is given the one there is: two requests in flight
\* at once make one row, and the loser is not told of an error
\* (request_committed).
RequestRaceAnswered ==
  /\ created <= 1
  /\ "error" \in answers => target = "gone"

\* The receiver is asked for one work item, apart from sends whose acceptance was
\* lost: retries, replays and callbacks do not queue a delivered row again.  Only
\* a replay that overlapped another handler's work on the row can.
OneWorkItem == items <= 1 \/ overlapped

\* The row holds the receiver's latest word although callbacks overtake each other
\* and repeat, as long as the receiver stamps them and no two handlers had the row
\* loaded at once.
LatestWordKept ==
  handoff.ext # "none" /\ ~overlapped /\ ~unstamped =>
    handoff.extAt = newest /\ handoff.ext = ItemStates[newest]

=============================================================================
