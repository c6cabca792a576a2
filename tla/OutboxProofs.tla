---------------------------- MODULE OutboxProofs ----------------------------
(* Proofs about Outbox and Handoff, the two deliveries to the outside: for     *)
(* every set of channels, teams, findings and handlers, any number of retries, *)
(* reopens, requests and deaths.                                               *)
EXTENDS Outbox, Handoff, FiniteSetTheorems, WellFoundedInduction, TLAPS

----------------------------------------------------------------------------
(* The outbox *)

\* What the delivery was about is gone: its row cascaded away and never comes back.
Buried(k) == chan[k.chan] = "gone" \/ life[k.alert] = "deleted"
BuriedHasNoRow == \A k \in DeliveryKey : Buried(k) => box[k].status = "none"

\* Nothing was queued or heard of an opening that has not happened.
FutureUnheard ==
  \A k \in DeliveryKey : k.nth > openings[k.alert] => box[k].status = "none" /\ heard[k] = 0

\* The row of the attempt under way is still pending, unless it cascaded away.
SendPending ==
  /\ send # NoSend => Buried(send.key) \/ box[send.key].status = "pending"
  /\ send.result = "ok" => heard[send.key] = 1

\* A receipt is committed, about to be, or of a row that cascaded away.
ReceiptKept ==
  \A k \in DeliveryKey :
    heard[k] > 0 => \/ Buried(k) \/ box[k].status = "delivered"
                    \/ send.key = k /\ send.result = "ok"

\* The ceiling ends a row before its attempts run out.
AttemptsLeft == \A k \in DeliveryKey : box[k].status = "pending" => box[k].attempts < MaxSends

Receipts ==
  /\ BuriedHasNoRow /\ FutureUnheard /\ SendPending /\ ReceiptKept /\ AttemptsLeft
  /\ AnnouncedOnce

OutboxInv == OutboxTypeOK /\ Receipts

LEMMA OutboxConstants ==
  /\ NAlert \in Nat /\ MaxSends \in Nat \ {0} /\ MaxOpening \in Nat /\ MaxCrash \in Nat
  /\ TeamOf \in [Alert -> Team \cup {NoTeam}]
  /\ TeamChannels \in [Team -> SUBSET Channel]
BY OutboxAssumption

LEMMA KeyType ==
  ASSUME NEW k \in DeliveryKey
  PROVE  k.chan \in Channel /\ k.alert \in Alert /\ k.nth \in Opening /\ k.nth \in Nat \ {0}
BY OutboxConstants DEF DeliveryKey, Opening

LEMMA NoSendShape == NoSend.result = "none" /\ \A k, r : [key |-> k, result |-> r].result = r
BY DEF NoSend

\* An attempt under way is of a real row, and its result says that there is one.
LEMMA SendType ==
  ASSUME OutboxTypeOK, send # NoSend
  PROVE  send.key \in DeliveryKey /\ send.result \in SendResult
BY DEF OutboxTypeOK

LEMMA RowsType ==
  /\ NoDelivery \in Delivery /\ Queued \in Delivery
  /\ NoDelivery.status = "none" /\ Queued.status = "pending" /\ Queued.attempts < MaxSends
BY OutboxConstants DEF NoDelivery, Queued, Delivery

LEMMA OutboxStart == OutboxInit => OutboxInv
<1> SUFFICES ASSUME OutboxInit PROVE OutboxInv
  OBVIOUS
<1>1. OutboxTypeOK
  <2>1. box \in [DeliveryKey -> Delivery]
    BY RowsType DEF OutboxInit
  <2>2. QED
    BY <2>1, OutboxConstants DEF OutboxInit, OutboxTypeOK
<1>2. Receipts
  BY RowsType, NoSendShape DEF OutboxInit, Receipts, BuriedHasNoRow, FutureUnheard, SendPending,
     ReceiptKept, AttemptsLeft, AnnouncedOnce
<1>3. QED
  BY <1>1, <1>2 DEF OutboxInv

----------------------------------------------------------------------------
(* Queueing: a row is queued once, of something that is still there. *)

LEMMA Queueing ==
  ASSUME OutboxInv, NEW keys, QueueRows(keys),
         \A k \in DeliveryKey : k \in keys =>
            box[k].status = "none" /\ ~Buried(k) /\ k.nth <= openings'[k.alert],
         openings' \in [Alert -> 0..MaxOpening],
         \A a \in Alert : openings[a] <= openings'[a],
         \A a \in Alert : life'[a] = "deleted" <=> life[a] = "deleted",
         UNCHANGED <<chan, send, heard>>
  PROVE  Receipts' /\ box' \in [DeliveryKey -> Delivery]
<1>1. /\ box' = [k \in DeliveryKey |-> IF k \in keys THEN Queued ELSE box[k]]
      /\ box \in [DeliveryKey -> Delivery] /\ heard \in [DeliveryKey -> Nat]
      /\ openings \in [Alert -> 0..MaxOpening]
  BY DEF QueueRows, OutboxInv, OutboxTypeOK
<1>2. box' \in [DeliveryKey -> Delivery]
  BY <1>1, RowsType
<1>3. ASSUME NEW k \in DeliveryKey
      PROVE  /\ Buried(k)' <=> Buried(k)
             /\ box'[k] = IF k \in keys THEN Queued ELSE box[k]
             /\ Buried(k) => k \notin keys
  BY <1>1, KeyType DEF Buried
<1>4. BuriedHasNoRow'
  BY <1>3 DEF OutboxInv, Receipts, BuriedHasNoRow
<1>5. FutureUnheard'
  <2> SUFFICES ASSUME NEW k \in DeliveryKey, k.nth > openings'[k.alert]
               PROVE  box'[k].status = "none" /\ heard[k] = 0
    BY DEF FutureUnheard
  <2>1. k.alert \in Alert /\ k.nth \in Nat
    BY KeyType
  <2>2. k.nth > openings[k.alert] /\ k \notin keys
    BY <1>1, <2>1, OutboxConstants
  <2>3. QED
    BY <1>3, <2>2 DEF OutboxInv, Receipts, FutureUnheard
<1>6. SendPending'
  <2>1. CASE send = NoSend
    BY <2>1, NoSendShape DEF SendPending
  <2>2. CASE send # NoSend
    <3>1. send.key \in DeliveryKey
      BY <2>2, SendType DEF OutboxInv
    <3>2. Buried(send.key) \/ box'[send.key].status = "pending"
      BY <1>3, <2>2, <3>1, RowsType DEF OutboxInv, Receipts, SendPending
    <3>3. Buried(send.key)' <=> Buried(send.key)
      BY <3>1, KeyType DEF Buried
    <3>4. QED
      BY <3>2, <3>3 DEF OutboxInv, Receipts, SendPending, Buried
  <2>3. QED
    BY <2>1, <2>2
<1>7. ReceiptKept'
  <2> SUFFICES ASSUME NEW k \in DeliveryKey, heard[k] > 0
               PROVE  Buried(k)' \/ box'[k].status = "delivered"
                      \/ (send.key = k /\ send.result = "ok")
    BY DEF ReceiptKept
  <2>1. Buried(k) \/ box[k].status = "delivered" \/ (send.key = k /\ send.result = "ok")
    BY DEF OutboxInv, Receipts, ReceiptKept
  <2>2. box[k].status = "delivered" => k \notin keys
    OBVIOUS
  <2>3. QED
    BY <1>3, <2>1, <2>2
<1>8. AnnouncedOnce' /\ AttemptsLeft'
  BY <1>3, RowsType DEF OutboxInv, Receipts, AnnouncedOnce, AttemptsLeft
<1>9. QED
  BY <1>2, <1>4, <1>5, <1>6, <1>7, <1>8 DEF Receipts

LEMMA OpenedStep ==
  ASSUME OutboxInv, NEW a \in Alert, OpenedByScan(a)
  PROVE  OutboxInv'
<1> DEFINE keys == {DeliveryOf(c, a, "finding_opened", openings[a] + 1) : c \in Listeners(a)}
<1>1. /\ QueueRows(keys) /\ UNCHANGED <<chan, teamOff, send, heard, crashes>>
      /\ life[a] \in {"unborn", "shut"} /\ life' = [life EXCEPT ![a] = "open"]
      /\ openings[a] < MaxOpening /\ openings' = [openings EXCEPT ![a] = @ + 1]
      /\ late' = late \ {a}
  BY DEF OpenedByScan
<1>2. /\ life \in [Alert -> {"unborn", "open", "shut", "deleted"}]
      /\ openings \in [Alert -> 0..MaxOpening]
  BY DEF OutboxInv, OutboxTypeOK
<1>3. /\ openings' \in [Alert -> 0..MaxOpening]
      /\ \A b \in Alert : openings[b] <= openings'[b]
      /\ \A b \in Alert : life'[b] = "deleted" <=> life[b] = "deleted"
      /\ life' \in [Alert -> {"unborn", "open", "shut", "deleted"}]
      /\ openings'[a] = openings[a] + 1
  BY <1>1, <1>2, OutboxConstants
<1>4. ASSUME NEW k \in DeliveryKey, k \in keys
      PROVE  box[k].status = "none" /\ ~Buried(k) /\ k.nth <= openings'[k.alert]
  <2>1. PICK c \in Listeners(a) : k = DeliveryOf(c, a, "finding_opened", openings[a] + 1)
    BY <1>4
  <2>2. k.chan = c /\ k.alert = a /\ k.nth = openings[a] + 1 /\ chan[c] = "on"
    BY <2>1 DEF DeliveryOf, Listeners, Enabled
  <2>3. k.nth > openings[k.alert]
    BY <1>2, <2>2, OutboxConstants
  <2>4. QED
    BY <1>1, <1>2, <1>3, <2>2, <2>3, OutboxConstants
       DEF OutboxInv, Receipts, FutureUnheard, Buried
<1> HIDE DEF keys
<1>5. Receipts' /\ box' \in [DeliveryKey -> Delivery]
  BY <1>1, <1>3, <1>4, Queueing
<1>6. OutboxTypeOK'
  BY <1>1, <1>3, <1>5 DEF OutboxInv, OutboxTypeOK
<1>7. QED
  BY <1>5, <1>6 DEF OutboxInv

LEMMA EscalateStep ==
  ASSUME OutboxInv, EscalateOverdue
  PROVE  OutboxInv'
<1> DEFINE of(a) == {DeliveryOf(c, a, "finding_overdue", openings[a]) : c \in EscalationTargets(a)}
           keys == UNION {of(a) : a \in Page}
<1>1. QueueRows(keys) /\ UNCHANGED <<facts, send, heard, crashes>>
  BY DEF EscalateOverdue
<1>2. openings \in [Alert -> 0..MaxOpening]
  BY DEF OutboxInv, OutboxTypeOK
<1>3. ASSUME NEW k \in DeliveryKey, k \in keys
      PROVE  box[k].status = "none" /\ ~Buried(k) /\ k.nth <= openings'[k.alert]
  <2>1. PICK a \in Page : k \in of(a)
    BY <1>3
  <2>2. a \in Alert /\ Escalatable(a)
    BY <2>1 DEF Page
  <2>3. PICK c \in EscalationTargets(a) : k = DeliveryOf(c, a, "finding_overdue", openings[a])
    BY <2>1
  <2>4. c \in Channel /\ chan[c] = "on"
    BY <2>2, OutboxConstants DEF EscalationTargets, Listeners, Enabled
  <2>5. k.chan = c /\ k.alert = a /\ k.nth = openings[a]
    BY <2>3 DEF DeliveryOf
  <2>6. box[k].status = "none" /\ life[a] = "open"
    BY <2>2, <2>3, <2>4 DEF Escalatable, Escalated
  <2>7. QED
    BY <1>1, <1>2, <2>2, <2>4, <2>5, <2>6, OutboxConstants DEF Buried, facts
<1> HIDE DEF keys
<1>4. Receipts' /\ box' \in [DeliveryKey -> Delivery]
  BY <1>1, <1>2, <1>3, Queueing, OutboxConstants DEF facts
<1>5. OutboxTypeOK'
  BY <1>1, <1>4 DEF OutboxInv, OutboxTypeOK, facts
<1>6. QED
  BY <1>4, <1>5 DEF OutboxInv

----------------------------------------------------------------------------
(* What happens around a queued row: rows leave only with what they were about. *)

LEMMA Around ==
  ASSUME OutboxInv,
         chan' \in [Channel -> {"on", "off", "gone"}],
         life' \in [Alert -> {"unborn", "open", "shut", "deleted"}],
         \A k \in DeliveryKey : Buried(k) => Buried(k)',
         \A k \in DeliveryKey : ~Buried(k)' => box'[k] = box[k],
         \A k \in DeliveryKey : Buried(k)' => box'[k].status = "none",
         box' \in [DeliveryKey -> Delivery], UNCHANGED <<openings, send, heard>>
  PROVE  Receipts'
<1>1. BuriedHasNoRow' /\ AnnouncedOnce' /\ AttemptsLeft'
  BY DEF BuriedHasNoRow, AnnouncedOnce, AttemptsLeft, OutboxInv, Receipts
<1>2. FutureUnheard'
  <2> SUFFICES ASSUME NEW k \in DeliveryKey, k.nth > openings[k.alert]
               PROVE  box'[k].status = "none" /\ heard[k] = 0
    BY DEF FutureUnheard
  <2>1. box[k].status = "none" /\ heard[k] = 0
    BY DEF OutboxInv, Receipts, FutureUnheard
  <2>2. QED
    BY <2>1
<1>3. SendPending'
  <2>1. CASE send = NoSend
    BY <2>1, NoSendShape DEF SendPending
  <2>2. CASE send # NoSend
    <3>1. send.key \in DeliveryKey
      BY <2>2, SendType DEF OutboxInv
    <3>2. Buried(send.key) \/ box[send.key].status = "pending"
      BY <2>2 DEF OutboxInv, Receipts, SendPending
    <3>3. Buried(send.key)' \/ box'[send.key].status = "pending"
      BY <3>1, <3>2 DEF Buried
    <3>4. QED
      BY <3>3 DEF OutboxInv, Receipts, SendPending, Buried
  <2>3. QED
    BY <2>1, <2>2
<1>4. ReceiptKept'
  <2> SUFFICES ASSUME NEW k \in DeliveryKey, heard[k] > 0
               PROVE  Buried(k)' \/ box'[k].status = "delivered"
                      \/ (send.key = k /\ send.result = "ok")
    BY DEF ReceiptKept
  <2>1. Buried(k) \/ box[k].status = "delivered" \/ (send.key = k /\ send.result = "ok")
    BY DEF OutboxInv, Receipts, ReceiptKept
  <2>2. QED
    BY <2>1
<1>5. QED
  BY <1>1, <1>2, <1>3, <1>4 DEF Receipts

LEMMA QuietSteps ==
  ASSUME OutboxInv,
         \/ \E a \in Alert : DeadlinePasses(a) \/ Shut(a)
         \/ \E c \in Channel : ToggleChannel(c)
         \/ \E t \in Team : ToggleTeam(t)
         \/ UNCHANGED ovars
  PROVE  OutboxInv'
<1>1. OutboxTypeOK'
  BY DEF OutboxInv, OutboxTypeOK, DeadlinePasses, Shut, ToggleChannel, ToggleTeam, ovars
<1>2. /\ box' = box /\ UNCHANGED <<openings, send, heard>>
      /\ \A c \in Channel : chan'[c] = "gone" <=> chan[c] = "gone"
      /\ \A a \in Alert : life'[a] = "deleted" <=> life[a] = "deleted"
  BY DEF OutboxInv, OutboxTypeOK, DeadlinePasses, Shut, ToggleChannel, ToggleTeam, ovars
<1>3. \A k \in DeliveryKey : Buried(k)' <=> Buried(k)
  BY <1>2, KeyType DEF Buried
<1>4. QED
  BY <1>1, <1>2, <1>3, Around DEF OutboxInv, OutboxTypeOK, Receipts, BuriedHasNoRow

LEMMA DeleteAlertStep ==
  ASSUME OutboxInv, NEW a \in Alert, DeleteAlert(a)
  PROVE  OutboxInv'
<1>1. /\ life' = [life EXCEPT ![a] = "deleted"]
      /\ box' = [k \in DeliveryKey |-> IF k.alert = a THEN NoDelivery ELSE box[k]]
      /\ UNCHANGED <<chan, teamOff, openings, late, send, heard, crashes>>
  BY DEF DeleteAlert
<1>2. /\ life \in [Alert -> {"unborn", "open", "shut", "deleted"}]
      /\ box \in [DeliveryKey -> Delivery]
  BY DEF OutboxInv, OutboxTypeOK
<1>3. /\ life' \in [Alert -> {"unborn", "open", "shut", "deleted"}]
      /\ box' \in [DeliveryKey -> Delivery]
  BY <1>1, <1>2, RowsType
<1>4. \A k \in DeliveryKey : /\ Buried(k)' <=> Buried(k) \/ k.alert = a
                             /\ box'[k] = IF k.alert = a THEN NoDelivery ELSE box[k]
  BY <1>1, <1>2, KeyType DEF Buried
<1>5. OutboxTypeOK'
  BY <1>1, <1>3 DEF OutboxInv, OutboxTypeOK
<1>6. Receipts'
  BY <1>1, <1>3, <1>4, <1>5, RowsType, Around
     DEF OutboxInv, Receipts, BuriedHasNoRow, OutboxTypeOK
<1>7. QED
  BY <1>5, <1>6 DEF OutboxInv

LEMMA DeleteChannelStep ==
  ASSUME OutboxInv, NEW c \in Channel, DeleteChannel(c)
  PROVE  OutboxInv'
<1>1. /\ chan' = [chan EXCEPT ![c] = "gone"]
      /\ box' = [k \in DeliveryKey |-> IF k.chan = c THEN NoDelivery ELSE box[k]]
      /\ UNCHANGED <<teamOff, life, openings, late, send, heard, crashes>>
  BY DEF DeleteChannel
<1>2. /\ chan \in [Channel -> {"on", "off", "gone"}]
      /\ box \in [DeliveryKey -> Delivery]
  BY DEF OutboxInv, OutboxTypeOK
<1>3. /\ chan' \in [Channel -> {"on", "off", "gone"}]
      /\ box' \in [DeliveryKey -> Delivery]
  BY <1>1, <1>2, RowsType
<1>4. \A k \in DeliveryKey : /\ Buried(k)' <=> Buried(k) \/ k.chan = c
                             /\ box'[k] = IF k.chan = c THEN NoDelivery ELSE box[k]
  BY <1>1, <1>2, KeyType DEF Buried
<1>5. OutboxTypeOK'
  BY <1>1, <1>3 DEF OutboxInv, OutboxTypeOK
<1>6. Receipts'
  BY <1>1, <1>3, <1>4, <1>5, RowsType, Around
     DEF OutboxInv, Receipts, BuriedHasNoRow, OutboxTypeOK
<1>7. QED
  BY <1>5, <1>6 DEF OutboxInv

----------------------------------------------------------------------------
(* Delivery *)

\* One row moves, and stays or leaves pending without a receipt.
LEMMA RowMoves ==
  ASSUME OutboxInv, NEW k \in DeliveryKey, NEW row \in Delivery,
         box' = [box EXCEPT ![k] = row], box[k].status = "pending",
         row.status \in {"pending", "failed"},
         row.status = "pending" => row.attempts < MaxSends,
         row.status = "failed" => send = NoSend,
         UNCHANGED <<chan, life, openings, send, heard>>
  PROVE  Receipts' /\ box' \in [DeliveryKey -> Delivery]
<1>1. /\ box \in [DeliveryKey -> Delivery] /\ box' \in [DeliveryKey -> Delivery]
      /\ \A j \in DeliveryKey : box'[j] = IF j = k THEN row ELSE box[j]
  BY DEF OutboxInv, OutboxTypeOK
<1>2. \A j \in DeliveryKey : Buried(j)' <=> Buried(j)
  BY DEF Buried
<1>3. ~Buried(k)
  BY DEF OutboxInv, Receipts, BuriedHasNoRow
<1>4. BuriedHasNoRow' /\ FutureUnheard' /\ AnnouncedOnce' /\ ReceiptKept' /\ AttemptsLeft'
  BY <1>1, <1>2, <1>3 DEF BuriedHasNoRow, FutureUnheard, AnnouncedOnce, ReceiptKept, AttemptsLeft,
     OutboxInv, Receipts
<1>5. SendPending'
  <2>1. CASE send = NoSend
    BY <2>1, NoSendShape DEF SendPending
  <2>2. CASE send # NoSend
    <3>1. send.key \in DeliveryKey
      BY <2>2, SendType DEF OutboxInv
    <3>2. QED
      BY <1>1, <1>2, <2>2, <3>1 DEF OutboxInv, Receipts, SendPending, Buried
  <2>3. QED
    BY <2>1, <2>2
<1>6. QED
  BY <1>1, <1>4, <1>5 DEF Receipts

LEMMA RipenStep ==
  ASSUME OutboxInv, NEW k \in DeliveryKey, Ripen(k)
  PROVE  OutboxInv'
<1> DEFINE row == [box[k] EXCEPT !.ripe = TRUE]
<1>1. box[k] \in Delivery /\ box \in [DeliveryKey -> Delivery]
  BY DEF OutboxInv, OutboxTypeOK
<1>2. row \in Delivery /\ row.status = box[k].status /\ row.attempts = box[k].attempts
  BY <1>1 DEF Delivery
<1>3. box' = [box EXCEPT ![k] = row] /\ box[k].status = "pending"
      /\ UNCHANGED <<facts, send, heard, crashes>>
  BY <1>1 DEF Ripen
<1> HIDE DEF row
<1>4. Receipts' /\ box' \in [DeliveryKey -> Delivery]
  BY <1>2, <1>3, RowMoves DEF facts, OutboxInv, Receipts, AttemptsLeft
<1>5. QED
  BY <1>3, <1>4 DEF OutboxInv, OutboxTypeOK, facts

LEMMA OneMoreAttempt ==
  ASSUME NEW row \in Delivery, row.attempts < MaxSends
  PROVE  row.attempts + 1 \in 0..MaxSends
<1>1. row.attempts \in 0..MaxSends
  BY DEF Delivery
<1>2. QED
  BY <1>1, OutboxConstants

LEMMA RefusedStep ==
  ASSUME OutboxInv, NEW k \in DeliveryKey, AttemptRefused(k)
  PROVE  OutboxInv'
<1> DEFINE row == [box[k] EXCEPT !.status = "failed", !.attempts = @ + 1]
<1>1. /\ box[k] \in Delivery /\ box \in [DeliveryKey -> Delivery]
      /\ box[k].status = "pending" /\ box[k].attempts < MaxSends
  BY DEF OutboxInv, OutboxTypeOK, Receipts, AttemptsLeft, AttemptRefused, Due
<1>2. row \in Delivery /\ row.status = "failed"
  <2> DEFINE d == box[k]
             n == d.attempts + 1
  <2>1. d \in Delivery /\ n \in 0..MaxSends
    BY <1>1, OneMoreAttempt
  <2>2. row = [d EXCEPT !.status = "failed", !.attempts = n]
    OBVIOUS
  <2> HIDE DEF row, d, n
  <2>3. QED
    BY <2>1, <2>2 DEF Delivery
<1>3. box' = [box EXCEPT ![k] = row] /\ send = NoSend /\ UNCHANGED <<facts, send, heard, crashes>>
  BY <1>1 DEF AttemptRefused
<1> HIDE DEF row
<1>4. Receipts' /\ box' \in [DeliveryKey -> Delivery]
  BY <1>1, <1>2, <1>3, RowMoves DEF facts
<1>5. QED
  BY <1>3, <1>4 DEF OutboxInv, OutboxTypeOK, facts

\* The receiver hears of a row that is due: it has not heard of it before.
LEMMA AttemptStep ==
  ASSUME OutboxInv, NEW k \in DeliveryKey, NEW r \in SendResult, AttemptSend(k, r)
  PROVE  OutboxInv'
<1>1. /\ send = NoSend /\ box[k].status = "pending" /\ chan[k.chan] = "on"
      /\ send' = [key |-> k, result |-> r]
      /\ heard' = [heard EXCEPT ![k] = IF r = "ok" THEN @ + 1 ELSE @]
      /\ UNCHANGED <<chan, teamOff, life, openings, late, box, crashes>>
  BY DEF AttemptSend, Due, facts
<1>2. heard \in [DeliveryKey -> Nat]
  BY DEF OutboxInv, OutboxTypeOK
<1>3. send'.key = k /\ send'.result = r /\ send.result # "ok"
  BY <1>1, NoSendShape
<1>4. ~Buried(k)
  BY <1>1 DEF OutboxInv, Receipts, BuriedHasNoRow
<1>5. heard[k] = 0
  BY <1>1, <1>2, <1>3, <1>4 DEF OutboxInv, Receipts, ReceiptKept
<1>6. /\ heard' \in [DeliveryKey -> Nat]
      /\ \A j \in DeliveryKey : j # k => heard'[j] = heard[j]
      /\ heard'[k] = IF r = "ok" THEN 1 ELSE 0
  BY <1>1, <1>2, <1>5
<1>7. OutboxTypeOK'
  BY <1>1, <1>6 DEF OutboxInv, OutboxTypeOK
<1>8. \A j \in DeliveryKey : Buried(j)' <=> Buried(j)
  BY <1>1 DEF Buried
<1>9. BuriedHasNoRow' /\ AttemptsLeft' /\ AnnouncedOnce'
  BY <1>1, <1>6, <1>8 DEF OutboxInv, Receipts, BuriedHasNoRow, AttemptsLeft, AnnouncedOnce
<1>10. FutureUnheard'
  BY <1>1, <1>6 DEF OutboxInv, Receipts, FutureUnheard
<1>11. SendPending'
  BY <1>1, <1>3, <1>6 DEF SendPending
<1>12. ReceiptKept'
  BY <1>1, <1>3, <1>6, <1>8 DEF OutboxInv, Receipts, ReceiptKept
<1>13. QED
  BY <1>7, <1>9, <1>10, <1>11, <1>12 DEF OutboxInv, Receipts

\* _attempt's end keeps the row a row, and only an accepted send is delivered.
LEMMA SettledType ==
  ASSUME NEW row \in Delivery, row.status = "pending", row.attempts < MaxSends,
         NEW r \in SendResult
  PROVE  /\ Settled(row, r) \in Delivery
         /\ Settled(row, r).status = IF r = "ok" THEN "delivered" ELSE Settled(row, r).status
         /\ Settled(row, r).status # "none"
         /\ Settled(row, r).status = "pending" => Settled(row, r).attempts < MaxSends
<1> DEFINE n == row.attempts + 1
<1>1. n \in 0..MaxSends /\ (n >= MaxSends \/ n < MaxSends)
  BY OneMoreAttempt, OutboxConstants
<1>2. Settled(row, r) = IF r = "ok" THEN [row EXCEPT !.attempts = n, !.status = "delivered"]
                        ELSE IF r = "permanent" \/ n >= MaxSends
                        THEN [row EXCEPT !.attempts = n, !.status = "failed"]
                        ELSE [row EXCEPT !.attempts = n, !.ripe = FALSE]
  BY DEF Settled
<1> HIDE DEF n
<1>3. /\ [row EXCEPT !.attempts = n, !.status = "delivered"] \in Delivery
      /\ [row EXCEPT !.attempts = n, !.status = "delivered"].status = "delivered"
      /\ [row EXCEPT !.attempts = n, !.status = "failed"] \in Delivery
      /\ [row EXCEPT !.attempts = n, !.status = "failed"].status = "failed"
      /\ [row EXCEPT !.attempts = n, !.ripe = FALSE] \in Delivery
      /\ [row EXCEPT !.attempts = n, !.ripe = FALSE].status = row.status
      /\ [row EXCEPT !.attempts = n, !.ripe = FALSE].attempts = n
  BY <1>1 DEF Delivery
<1>4. QED
  BY <1>1, <1>2, <1>3, Zenon

LEMMA CommitsStep ==
  ASSUME OutboxInv, AttemptCommit
  PROVE  OutboxInv'
<1> DEFINE k == send.key
           row == Settled(box[k], send.result)
<1>1. /\ send # NoSend /\ send' = NoSend /\ UNCHANGED <<facts, heard, crashes>>
      /\ box' = IF box[k].status = "pending" THEN [box EXCEPT ![k] = row] ELSE box
  BY DEF AttemptCommit
<1>2. k \in DeliveryKey /\ send.result \in SendResult /\ box \in [DeliveryKey -> Delivery]
  BY <1>1, SendType DEF OutboxInv, OutboxTypeOK
<1>3. box[k].status = "pending" =>
        /\ row \in Delivery /\ row.status # "none"
        /\ send.result = "ok" => row.status = "delivered"
        /\ row.status = "pending" => row.attempts < MaxSends
  BY <1>2, SettledType DEF OutboxInv, Receipts, AttemptsLeft
<1> HIDE DEF row
<1>4. /\ box' \in [DeliveryKey -> Delivery]
      /\ \A j \in DeliveryKey :
           box'[j] = IF j = k /\ box[k].status = "pending" THEN row ELSE box[j]
  BY <1>1, <1>2, <1>3
<1>5. \A j \in DeliveryKey : Buried(j)' <=> Buried(j)
  BY <1>1 DEF Buried, facts
<1>6. OutboxTypeOK'
  BY <1>1, <1>4 DEF OutboxInv, OutboxTypeOK, facts
<1>7. BuriedHasNoRow' /\ AttemptsLeft' /\ AnnouncedOnce' /\ FutureUnheard'
  BY <1>1, <1>2, <1>3, <1>4, <1>5
     DEF OutboxInv, Receipts, BuriedHasNoRow, AttemptsLeft, AnnouncedOnce, FutureUnheard, facts
<1>8. SendPending'
  BY <1>1, NoSendShape DEF SendPending
<1>9. ReceiptKept'
  <2> SUFFICES ASSUME NEW j \in DeliveryKey, heard[j] > 0
               PROVE  Buried(j) \/ box'[j].status = "delivered"
    BY <1>1, <1>5 DEF ReceiptKept
  <2>1. Buried(j) \/ box[j].status = "delivered" \/ (k = j /\ send.result = "ok")
    BY DEF OutboxInv, Receipts, ReceiptKept
  <2>2. Buried(k) \/ box[k].status = "pending"
    BY <1>1 DEF OutboxInv, Receipts, SendPending
  <2>3. QED
    BY <1>2, <1>3, <1>4, <2>1, <2>2
<1>10. QED
  BY <1>6, <1>7, <1>8, <1>9 DEF OutboxInv, Receipts

LEMMA DiesStep ==
  ASSUME OutboxInv, DelivererDies
  PROVE  OutboxInv'
<1> DEFINE k == send.key
<1>1. /\ send # NoSend /\ send' = NoSend /\ UNCHANGED <<facts, box>>
      /\ crashes < MaxCrash /\ crashes' = crashes + 1
      /\ heard' = [heard EXCEPT ![k] = IF send.result = "ok" THEN @ - 1 ELSE @]
  BY DEF DelivererDies
<1>2. k \in DeliveryKey /\ heard \in [DeliveryKey -> Nat]
  BY <1>1, SendType DEF OutboxInv, OutboxTypeOK
<1>3. send.result = "ok" => heard[k] = 1
  BY DEF OutboxInv, Receipts, SendPending
<1>4. /\ heard' \in [DeliveryKey -> Nat]
      /\ \A j \in DeliveryKey : heard'[j] = IF j = k /\ send.result = "ok" THEN 0 ELSE heard[j]
  BY <1>1, <1>2, <1>3
<1>5. \A j \in DeliveryKey : Buried(j)' <=> Buried(j)
  BY <1>1 DEF Buried, facts
<1>6. OutboxTypeOK'
  BY <1>1, <1>4, OutboxConstants DEF OutboxInv, OutboxTypeOK, facts
<1>7. BuriedHasNoRow' /\ AttemptsLeft' /\ AnnouncedOnce' /\ FutureUnheard'
  BY <1>1, <1>4, <1>5
     DEF OutboxInv, Receipts, BuriedHasNoRow, AttemptsLeft, AnnouncedOnce, FutureUnheard, facts
<1>8. SendPending'
  BY <1>1, NoSendShape DEF SendPending
<1>9. ReceiptKept'
  BY <1>1, <1>4, <1>5 DEF OutboxInv, Receipts, ReceiptKept
<1>10. QED
  BY <1>6, <1>7, <1>8, <1>9 DEF OutboxInv, Receipts

LEMMA OutboxStep == OutboxInv /\ [OutboxNext]_ovars => OutboxInv'
<1> SUFFICES ASSUME OutboxInv, [OutboxNext]_ovars PROVE OutboxInv'
  OBVIOUS
<1>1. CASE UNCHANGED ovars
  BY <1>1, QuietSteps
<1>2. CASE \E a \in Alert : OpenedByScan(a) \/ DeadlinePasses(a) \/ Shut(a) \/ DeleteAlert(a)
  BY <1>2, OpenedStep, QuietSteps, DeleteAlertStep
<1>3. CASE \E c \in Channel : ToggleChannel(c) \/ DeleteChannel(c)
  BY <1>3, QuietSteps, DeleteChannelStep
<1>4. CASE \E t \in Team : ToggleTeam(t)
  BY <1>4, QuietSteps
<1>5. CASE \E k \in DeliveryKey : Ripen(k) \/ Attempt(k)
  BY <1>5, RipenStep, RefusedStep, AttemptStep DEF Attempt
<1>6. CASE EscalateOverdue \/ AttemptCommit \/ DelivererDies
  BY <1>6, EscalateStep, CommitsStep, DiesStep
<1>7. QED
  BY <1>1, <1>2, <1>3, <1>4, <1>5, <1>6 DEF OutboxNext

LEMMA OutboxHolds == OutboxSpec => []OutboxInv
BY OutboxStart, OutboxStep, PTL DEF OutboxSpec

\* Channels, findings, queued rows and the attempt under way keep their types; a row's
\* attempts never pass notification_max_attempts.
THEOREM OutboxTyped == OutboxSpec => []OutboxTypeOK
<1>1. OutboxInv => OutboxTypeOK
  BY DEF OutboxInv
<1>2. QED
  BY <1>1, OutboxHolds, PTL

\* The outbox announces an opening and a deadline once to each channel, apart from sends
\* whose acceptance the sender could not know of (dispatch.py).
THEOREM AnnouncedOnceOnly == OutboxSpec => []AnnouncedOnce
<1>1. OutboxInv => AnnouncedOnce
  BY DEF OutboxInv, Receipts
<1>2. QED
  BY <1>1, OutboxHolds, PTL

----------------------------------------------------------------------------
(* Rows and escalations go forward. *)

LEMMA SmallestNat ==
  ASSUME NEW T, T \subseteq Nat, T # {}
  PROVE  \E x \in T : \A y \in T : x <= y
<1>1. PICK x \in T : \A y \in T : ~(<<y, x>> \in OpToRel(<, Nat))
  BY WFMin, NatLessThanWellFounded, Zenon
<1>2. \A y \in T : <<y, x>> \in Nat \X Nat
  OBVIOUS
<1>3. \A y \in T : ~(y < x)
  BY <1>1, <1>2 DEF OpToRel
<1>4. QED
  BY <1>3

\* Findings have an oldest deadline.
LEMMA OldestOf ==
  ASSUME OutboxTypeOK, NEW S, S \subseteq Alert, S # {}
  PROVE  \E a \in S : \A b \in S : ~Older(b, a)
<1> DEFINE counts == {openings[a] : a \in S}
<1>1. \A a \in S : openings[a] \in Nat /\ a \in Nat
  BY OutboxConstants DEF OutboxTypeOK, Alert
<1>2. counts \subseteq Nat /\ counts # {}
  BY <1>1
<1>3. PICK n \in counts : \A m \in counts : n <= m
  BY <1>2, SmallestNat
<1>4. \A a \in S : n <= openings[a]
  BY <1>3
<1> DEFINE first == {a \in S : openings[a] = n}
<1>5. first \subseteq Nat /\ first # {}
  BY <1>1, <1>3
<1>6. PICK a \in first : \A b \in first : a <= b
  BY <1>5, SmallestNat
<1>7. n \in Nat
  BY <1>2, <1>3
<1>8. ASSUME NEW b \in S PROVE ~Older(b, a)
  <2>1. openings[b] \in Nat /\ b \in Nat /\ n <= openings[b] /\ openings[a] = n /\ a \in Nat
    BY <1>1, <1>4, <1>6
  <2>2. openings[b] = n => a <= b
    BY <1>6
  <2>3. QED
    BY <1>7, <2>1, <2>2 DEF Older
<1>9. QED
  BY <1>6, <1>8

\* The query's predicate is what the targets come to.
LEMMA TargetExists ==
  ASSUME OutboxTypeOK, NEW a \in Alert
  PROVE  HasEscalationTarget(a) <=> EscalationTargets(a) # {}
<1>1. TeamOf[a] \in Team \cup {NoTeam} /\ NoTeam \notin Team /\ teamOff \subseteq Team
  BY OutboxAssumption DEF OutboxTypeOK
<1>2. CASE Accountable(a)
  BY <1>1, <1>2, Zenon DEF HasEscalationTarget, EscalationTargets, Accountable
<1>3. CASE ~Accountable(a)
  BY <1>1, <1>3, Zenon DEF HasEscalationTarget, EscalationTargets, Accountable
<1>4. QED
  BY <1>2, <1>3

\* An open finding has been opened.
OpenCounted == \A a \in Alert : life[a] = "open" => openings[a] > 0

LEMMA OpenIsCounted == OutboxSpec => []OpenCounted
<1>1. OutboxInit => OpenCounted
  BY DEF OutboxInit, OpenCounted
<1>2. OutboxTypeOK /\ OpenCounted /\ [OutboxNext]_ovars => OpenCounted'
  <2> SUFFICES ASSUME OutboxTypeOK, OpenCounted, [OutboxNext]_ovars PROVE OpenCounted'
    OBVIOUS
  <2>1. life \in [Alert -> {"unborn", "open", "shut", "deleted"}] /\ openings \in [Alert -> 0..MaxOpening]
    BY DEF OutboxTypeOK
  <2>2. CASE \E a \in Alert : OpenedByScan(a)
    <3>1. PICK a \in Alert : OpenedByScan(a)
      BY <2>2
    <3>2. life' = [life EXCEPT ![a] = "open"] /\ openings' = [openings EXCEPT ![a] = @ + 1]
      BY <3>1 DEF OpenedByScan
    <3>3. QED
      BY <2>1, <3>2, OutboxConstants DEF OpenCounted
  <2>3. CASE \E a \in Alert : Shut(a) \/ DeleteAlert(a)
    <3>1. PICK a \in Alert : Shut(a) \/ DeleteAlert(a)
      BY <2>3
    <3>2. openings' = openings /\ \A b \in Alert : life'[b] = "open" => life[b] = "open"
      BY <2>1, <3>1 DEF Shut, DeleteAlert
    <3>3. QED
      BY <3>2 DEF OpenCounted
  <2>4. CASE UNCHANGED <<life, openings>>
    BY <2>4 DEF OpenCounted
  <2>5. QED
    BY <2>2, <2>3, <2>4, Zenon
       DEF OutboxNext, ovars, facts, DeadlinePasses, ToggleChannel, DeleteChannel, ToggleTeam,
           EscalateOverdue, Ripen, Attempt, AttemptRefused, AttemptSend, AttemptCommit, DelivererDies
<1>3. OutboxSpec => []OutboxTypeOK
  BY OutboxTyped
<1>4. QED
  BY <1>1, <1>2, <1>3, PTL DEF OutboxSpec

\* While some overdue finding has somewhere to go, a round finds one to escalate.
PageServes == (\E a \in Alert : Escalatable(a) /\ EscalationTargets(a) # {}) => Page # {}
\* Whatever a round finds, it does not find again.
PageDrains == EscalateOverdue => \A a \in Page : ~Escalatable(a)'

LEMMA PageIsServed == OutboxTypeOK => PageServes
<1> SUFFICES ASSUME OutboxTypeOK, NEW c \in Alert, Escalatable(c), EscalationTargets(c) # {}
             PROVE  Page # {}
  BY DEF PageServes
<1> DEFINE selected == {a \in Alert : Escalatable(a) /\ HasEscalationTarget(a)}
           ahead(a) == {b \in selected : Older(b, a)}
<1>1. selected \subseteq Alert /\ c \in selected
  BY TargetExists
<1>2. PICK a \in selected : \A b \in selected : ~Older(b, a)
  BY <1>1, OldestOf
<1>3. ahead(a) = {}
  BY <1>2
<1>4. Cardinality(ahead(a)) = 0
  BY <1>3, FS_EmptySet
<1>5. Page = {b \in selected : Cardinality(ahead(b)) < PageLimit}
  BY DEF Page
<1>6. Cardinality(ahead(a)) < PageLimit
  BY <1>4, OutboxAssumption
<1>7. QED
  BY <1>2, <1>5, <1>6

LEMMA PageIsDrained == OutboxTypeOK /\ OpenCounted => PageDrains
<1> SUFFICES ASSUME OutboxTypeOK, OpenCounted, EscalateOverdue, NEW a \in Page PROVE Escalated(a)'
  BY DEF PageDrains, Escalatable
<1> DEFINE of(b) == {DeliveryOf(c, b, "finding_overdue", openings[b]) : c \in EscalationTargets(b)}
           keys == UNION {of(b) : b \in Page}
<1>1. QueueRows(keys) /\ openings' = openings
  BY DEF EscalateOverdue, facts
<1>2. a \in Alert /\ Escalatable(a) /\ HasEscalationTarget(a)
  BY DEF Page
<1>3. PICK c \in EscalationTargets(a) : TRUE
  BY <1>2, TargetExists
<1>4. c \in Channel
  BY <1>2, OutboxConstants DEF EscalationTargets, Listeners, Enabled, Accountable
<1> DEFINE k == DeliveryOf(c, a, "finding_overdue", openings[a])
<1>5. k \in keys
  BY <1>3
<1>6. k \in DeliveryKey
  <2>1. openings[a] \in Opening
    BY <1>2, OutboxConstants DEF OpenCounted, Escalatable, OutboxTypeOK, Opening
  <2>2. QED
    BY <1>2, <1>4, <2>1 DEF DeliveryOf, DeliveryKey
<1> HIDE DEF k, keys
<1>7. box'[k] = Queued
  BY <1>1, <1>5, <1>6 DEF QueueRows
<1>8. box'[DeliveryOf(c, a, "finding_overdue", openings'[a])].status = "pending"
  BY <1>1, <1>7, RowsType DEF k
<1>9. QED
  BY <1>4, <1>8 DEF Escalated

\* Escalation makes way for itself: while a finding past its deadline has somewhere to go, the
\* next round has a page, and no finding of that page is selected again, so the older ones
\* that have nowhere to go never stand before it (escalate_overdue).
THEOREM EscalationsLeadOn == OutboxSpec => []PageServes /\ [][PageDrains]_ovars
<1>1. OutboxTypeOK /\ OpenCounted => PageServes /\ PageDrains
  BY PageIsServed, PageIsDrained
<1>2. OutboxSpec => []PageServes
  BY <1>1, OutboxTyped, OpenIsCounted, PTL
<1>3. OutboxTypeOK /\ OpenCounted /\ [OutboxNext]_ovars => [PageDrains]_ovars
  BY <1>1
<1>4. QED
  BY <1>2, <1>3, OutboxTyped, OpenIsCounted, PTL DEF OutboxSpec

\* What may become of a row of the outbox: one that waits becomes due, has an attempt counted,
\* or goes with what it was about; one that has ended stays, or goes too.
RowLeadsOn(k) ==
  \/ box'[k] = box[k]
  \/ box'[k] = NoDelivery /\ Buried(k)'
  \/ box[k].status = "none" /\ box'[k] = Queued
  \/ box[k].status = "pending" /\ ~box[k].ripe /\ box'[k] = [box[k] EXCEPT !.ripe = TRUE]
  \/ /\ box[k].status = "pending"
     /\ box'[k].status \in {"pending", "delivered", "failed"}
     /\ box'[k].attempts = box[k].attempts + 1
     /\ box'[k].attempts <= MaxSends
     /\ box'[k].status = "pending" => box'[k].attempts < MaxSends

LEMMA QueuedRows ==
  ASSUME NEW keys, QueueRows(keys), \A k \in DeliveryKey : k \in keys => box[k].status = "none"
  PROVE  \A k \in DeliveryKey : RowLeadsOn(k)
BY DEF QueueRows, RowLeadsOn

LEMMA OpenedLeadsOn ==
  ASSUME OutboxInv, NEW a \in Alert, OpenedByScan(a)
  PROVE  \A k \in DeliveryKey : RowLeadsOn(k)
<1> DEFINE keys == {DeliveryOf(c, a, "finding_opened", openings[a] + 1) : c \in Listeners(a)}
<1>1. QueueRows(keys)
  BY DEF OpenedByScan
<1>2. ASSUME NEW k \in DeliveryKey, k \in keys PROVE box[k].status = "none"
  <2>1. k.alert = a /\ k.nth = openings[a] + 1
    BY <1>2 DEF DeliveryOf
  <2>2. openings[a] \in Nat
    BY OutboxConstants DEF OutboxInv, OutboxTypeOK
  <2>3. k.nth > openings[k.alert]
    BY <2>1, <2>2
  <2>4. QED
    BY <2>3 DEF OutboxInv, Receipts, FutureUnheard
<1> HIDE DEF keys
<1>3. QED
  BY <1>1, <1>2, QueuedRows

LEMMA EscalateLeadsOn ==
  ASSUME OutboxInv, EscalateOverdue
  PROVE  \A k \in DeliveryKey : RowLeadsOn(k)
<1> DEFINE of(a) == {DeliveryOf(c, a, "finding_overdue", openings[a]) : c \in EscalationTargets(a)}
           keys == UNION {of(a) : a \in Page}
<1>1. QueueRows(keys)
  BY DEF EscalateOverdue
<1>2. ASSUME NEW k \in DeliveryKey, k \in keys PROVE box[k].status = "none"
  <2>1. PICK a \in Page : k \in of(a)
    BY <1>2
  <2>2. a \in Alert /\ Escalatable(a)
    BY <2>1 DEF Page
  <2>3. PICK c \in EscalationTargets(a) : k = DeliveryOf(c, a, "finding_overdue", openings[a])
    BY <2>1
  <2>4. c \in Channel
    BY <2>2, OutboxConstants DEF EscalationTargets, Listeners, Enabled
  <2>5. QED
    BY <2>2, <2>3, <2>4 DEF Escalatable, Escalated
<1> HIDE DEF keys
<1>3. QED
  BY <1>1, <1>2, QueuedRows

LEMMA CascadesLeadOn ==
  ASSUME OutboxInv,
         \/ \E a \in Alert : DeleteAlert(a)
         \/ \E c \in Channel : DeleteChannel(c)
  PROVE  \A k \in DeliveryKey : RowLeadsOn(k)
<1>1. ASSUME NEW a \in Alert, DeleteAlert(a) PROVE \A k \in DeliveryKey : RowLeadsOn(k)
  <2>1. life'[a] = "deleted"
    BY <1>1 DEF DeleteAlert, OutboxInv, OutboxTypeOK
  <2>2. \A k \in DeliveryKey : box'[k] = IF k.alert = a THEN NoDelivery ELSE box[k]
    BY <1>1 DEF DeleteAlert
  <2>3. QED
    BY <2>1, <2>2 DEF RowLeadsOn, Buried
<1>2. ASSUME NEW c \in Channel, DeleteChannel(c) PROVE \A k \in DeliveryKey : RowLeadsOn(k)
  <2>1. chan'[c] = "gone"
    BY <1>2 DEF DeleteChannel, OutboxInv, OutboxTypeOK
  <2>2. \A k \in DeliveryKey : box'[k] = IF k.chan = c THEN NoDelivery ELSE box[k]
    BY <1>2 DEF DeleteChannel
  <2>3. QED
    BY <2>1, <2>2 DEF RowLeadsOn, Buried
<1>3. QED
  BY <1>1, <1>2

LEMMA RipensLeadOn ==
  ASSUME OutboxInv, NEW k \in DeliveryKey, Ripen(k)
  PROVE  \A j \in DeliveryKey : RowLeadsOn(j)
<1>1. /\ box[k].status = "pending" /\ ~box[k].ripe /\ box \in [DeliveryKey -> Delivery]
      /\ box' = [box EXCEPT ![k] = [box[k] EXCEPT !.ripe = TRUE]]
  BY DEF Ripen, OutboxInv, OutboxTypeOK
<1>2. box'[k] = [box[k] EXCEPT !.ripe = TRUE] /\ \A j \in DeliveryKey : j # k => box'[j] = box[j]
  BY <1>1
<1>3. RowLeadsOn(k)
  BY <1>1, <1>2 DEF RowLeadsOn
<1>4. QED
  BY <1>2, <1>3 DEF RowLeadsOn

\* An attempt that is counted, however it ended.
LEMMA CountedLeadsOn ==
  ASSUME OutboxInv, NEW k \in DeliveryKey, box[k].status = "pending",
         box'[k].status \in {"pending", "delivered", "failed"},
         box'[k].attempts = box[k].attempts + 1,
         box'[k].status = "pending" => box'[k].attempts < MaxSends,
         \A j \in DeliveryKey : j # k => box'[j] = box[j]
  PROVE  \A j \in DeliveryKey : RowLeadsOn(j)
<1>1. box \in [DeliveryKey -> Delivery] /\ box[k].attempts < MaxSends
  BY DEF OutboxInv, OutboxTypeOK, Receipts, AttemptsLeft
<1>2. box[k].attempts \in Nat
  BY <1>1, OutboxConstants DEF Delivery
<1>3. box'[k].attempts <= MaxSends
  BY <1>1, <1>2, OutboxConstants
<1>4. RowLeadsOn(k)
  BY <1>3 DEF RowLeadsOn
<1>5. QED
  BY <1>4 DEF RowLeadsOn

LEMMA RefusalLeadsOn ==
  ASSUME OutboxInv, NEW k \in DeliveryKey, AttemptRefused(k)
  PROVE  \A j \in DeliveryKey : RowLeadsOn(j)
<1> DEFINE n == box[k].attempts + 1
           new == [box[k] EXCEPT !.status = "failed", !.attempts = n]
<1>1. /\ box[k].status = "pending" /\ box \in [DeliveryKey -> Delivery]
      /\ box' = [box EXCEPT ![k].status = "failed", ![k].attempts = @ + 1]
  BY DEF AttemptRefused, Due, OutboxInv, OutboxTypeOK
<1>2. box'[k] = new /\ \A j \in DeliveryKey : j # k => box'[j] = box[j]
  BY <1>1
<1>3. n = box[k].attempts + 1
  OBVIOUS
<1> HIDE DEF n
<1>4. new.status = "failed" /\ new.attempts = n
  BY <1>1 DEF Delivery
<1> HIDE DEF new
<1>5. box'[k].status = "failed" /\ box'[k].attempts = box[k].attempts + 1
  BY <1>2, <1>3, <1>4
<1>6. QED
  BY <1>1, <1>2, <1>5, CountedLeadsOn

LEMMA SettledCounts ==
  ASSUME NEW old \in Delivery, old.status = "pending", old.attempts < MaxSends,
         NEW r \in SendResult
  PROVE  /\ Settled(old, r).status \in {"pending", "delivered", "failed"}
         /\ Settled(old, r).attempts = old.attempts + 1
         /\ Settled(old, r).status = "pending" => Settled(old, r).attempts < MaxSends
<1> DEFINE n == old.attempts + 1
<1>1. Settled(old, r) = IF r = "ok" THEN [old EXCEPT !.attempts = n, !.status = "delivered"]
                        ELSE IF r = "permanent" \/ n >= MaxSends
                        THEN [old EXCEPT !.attempts = n, !.status = "failed"]
                        ELSE [old EXCEPT !.attempts = n, !.ripe = FALSE]
  BY DEF Settled
<1>2. n = old.attempts + 1
  OBVIOUS
<1> HIDE DEF n
<1>3. /\ [old EXCEPT !.attempts = n, !.status = "delivered"].attempts = n
      /\ [old EXCEPT !.attempts = n, !.status = "failed"].attempts = n
      /\ [old EXCEPT !.attempts = n, !.ripe = FALSE].attempts = n
  BY DEF Delivery
<1>4. Settled(old, r).attempts = n
  BY <1>1, <1>3, Zenon
<1>5. Settled(old, r).status \in {"none", "pending", "delivered", "failed"}
  BY SettledType DEF Delivery
<1>6. QED
  BY <1>2, <1>4, <1>5, SettledType

LEMMA CommitLeadsOn ==
  ASSUME OutboxInv, AttemptCommit
  PROVE  \A j \in DeliveryKey : RowLeadsOn(j)
<1>1. send # NoSend /\ send.key \in DeliveryKey /\ send.result \in SendResult
  BY SendType DEF AttemptCommit, OutboxInv
<1>2. PICK k \in DeliveryKey : k = send.key
  BY <1>1
<1>3. CASE box[k].status # "pending"
  BY <1>2, <1>3 DEF AttemptCommit, RowLeadsOn
<1>4. CASE box[k].status = "pending"
  <2>1. PICK new : new = Settled(box[k], send.result)
    OBVIOUS
  <2>2. box'[k] = new /\ \A j \in DeliveryKey : j # k => box'[j] = box[j]
    BY <1>2, <1>4, <2>1 DEF AttemptCommit, OutboxInv, OutboxTypeOK
  <2>3. box[k] \in Delivery /\ box[k].attempts < MaxSends
    BY <1>4 DEF OutboxInv, OutboxTypeOK, Receipts, AttemptsLeft
  <2>4. /\ new.status \in {"pending", "delivered", "failed"}
        /\ new.attempts = box[k].attempts + 1
        /\ new.status = "pending" => new.attempts < MaxSends
    BY <1>1, <1>4, <2>1, <2>3, SettledCounts
  <2>5. QED
    BY <1>4, <2>2, <2>4, CountedLeadsOn
<1>5. QED
  BY <1>3, <1>4

\* A row of the outbox only goes forward: each attempt is counted and the count ends it within
\* notification_max_attempts, no row that ended is sent again or queued anew, and none
\* disappears but with its channel or its finding, whatever receivers answer and however
\* often the deliverer dies (_attempt, _retry_or_fail).
THEOREM DeliveriesLeadOn == OutboxSpec => [][\A k \in DeliveryKey : RowLeadsOn(k)]_ovars
<1>1. OutboxInv /\ [OutboxNext]_ovars => [\A k \in DeliveryKey : RowLeadsOn(k)]_ovars
  <2> SUFFICES ASSUME OutboxInv, OutboxNext PROVE \A k \in DeliveryKey : RowLeadsOn(k)
    OBVIOUS
  <2>1. CASE box' = box
    BY <2>1 DEF RowLeadsOn
  <2>2. CASE \E a \in Alert : OpenedByScan(a)
    BY <2>2, OpenedLeadsOn
  <2>3. CASE EscalateOverdue
    BY <2>3, EscalateLeadsOn
  <2>4. CASE (\E a \in Alert : DeleteAlert(a)) \/ (\E c \in Channel : DeleteChannel(c))
    BY <2>4, CascadesLeadOn
  <2>5. CASE \E k \in DeliveryKey : Ripen(k)
    BY <2>5, RipensLeadOn
  <2>6. CASE \E k \in DeliveryKey : AttemptRefused(k)
    BY <2>6, RefusalLeadsOn
  <2>7. CASE AttemptCommit
    BY <2>7, CommitLeadsOn
  <2>8. QED
    BY <2>1, <2>2, <2>3, <2>4, <2>5, <2>6, <2>7, Zenon
       DEF OutboxNext, DeadlinePasses, Shut, ToggleChannel, ToggleTeam, Attempt, AttemptSend,
           DelivererDies
<1>2. QED
  BY <1>1, OutboxHolds, PTL DEF OutboxSpec

----------------------------------------------------------------------------
(* The hand-over *)

LEMMA HandoffConstants ==
  /\ Len(ItemStates) \in Nat /\ \A n \in Moment : ItemStates[n] \in ExternalState
  /\ MaxTries \in Nat \ {0} /\ MaxHandled \in Nat /\ MaxDeaths \in Nat
BY HandoffAssumption DEF Moment

Loading == {"replay", "callback", "dismiss"}
Desk == [op : {"idle", "request"} \cup Loading, read : HandoffRow, write : HandoffRow,
         of : 0..Len(ItemStates)]
Accepted == {"ok", "named"}
Asked == [NoHandoff EXCEPT !.status = "pending", !.ripe = TRUE]

HandoffShape ==
  /\ HandoffTypeOK
  /\ busy \in [Handler -> Desk]
  /\ sending \in Accepted \cup {"none", "permanent", "transient", "unanswered"}

\* A hand-over has one row in its life, and a deleted target has none.
OneRow ==
  /\ handoff.status # "none" => created = 1
  /\ created = 1 => handoff.status # "none" \/ target = "gone"
  /\ target = "gone" => handoff.status = "none"
  /\ handoff.status = "none" => handoff.ext = "none"
  /\ created = 0 => /\ items = 0 /\ sending = "none" /\ newest = 0
                    /\ \A h \in Handler : busy[h].op \notin Loading

\* What a handler writes of the row it loaded.
Writes(b) ==
  /\ b.op = "request" => b.write = Asked
  /\ b.op \in Loading => b.write.status # "none"
  /\ b.op = "replay" => /\ b.read.status = "failed" /\ b.read.attempts > 0
                        /\ b.write.status = "pending" /\ b.write.attempts = 0
  /\ b.op \in {"callback", "dismiss"} => /\ b.write.status = b.read.status
                                         /\ b.write.attempts = b.read.attempts
  /\ b.op \in {"replay", "dismiss"} => /\ b.of = 0 /\ b.write.ext = b.read.ext
                                       /\ b.write.extAt = b.read.extAt
HandlersWrite == \A h \in Handler : Writes(busy[h])

\* A stamped callback writes its word, or nothing if it is older than the row's.
Tells(b) ==
  IF b.read.extAt # 0 /\ b.of < b.read.extAt
  THEN b.write.ext = b.read.ext /\ b.write.extAt = b.read.extAt
  ELSE b.of \in Moment /\ b.write.ext = ItemStates[b.of] /\ b.write.extAt = b.of
StampedTell == ~unstamped => \A h \in Handler : busy[h].op = "callback" => Tells(busy[h])

\* The ceiling ends the row before its attempts run out.
TriesLeft ==
  /\ handoff.status = "pending" => handoff.attempts < MaxTries
  /\ handoff.status = "failed" => handoff.attempts > 0
  /\ sending # "none" => loaded.status = "pending" /\ loaded.attempts < MaxTries
  /\ sending \in Accepted => items >= 1

\* With one handler at the row at a time, what it loaded is what it finds, a replay
\* finds the row failed, an attempt finds it pending, and a delivered row stays so.
Alone ==
  ~overlapped =>
    /\ \A g, h \in Handler : busy[g].op \in Loading /\ busy[h].op # "idle" => g = h
    /\ \A h \in Handler : busy[h].op = "replay" => handoff.status \in {"failed", "none"}
    /\ sending # "none" => handoff.status \in {"pending", "none"}
    /\ items <= 1
    /\ items = 1 => sending \in Accepted \/ handoff.status \in {"delivered", "none"}
    /\ handoff.status # "none" =>
         \A h \in Handler : busy[h].op \in Loading => /\ busy[h].read.ext = handoff.ext
                                                      /\ busy[h].read.extAt = handoff.extAt

\* The receiver's word of a moment; before the first there is none.
WordAt(n) == IF n = 0 THEN "none" ELSE ItemStates[n]
WordKept ==
  handoff.status # "none" /\ ~overlapped /\ ~unstamped =>
    handoff.extAt = newest /\ handoff.ext = WordAt(newest)

HandoffInv ==
  /\ HandoffShape /\ OneRow /\ HandlersWrite /\ StampedTell /\ TriesLeft /\ Alone /\ WordKept
  /\ RequestRaceAnswered

----------------------------------------------------------------------------
(* Rows *)

LEMMA FreshRows ==
  /\ NoHandoff \in HandoffRow /\ NoHandoff.status = "none" /\ NoHandoff.ext = "none"
  /\ NoHandoff.extAt = 0
  /\ Asked \in HandoffRow /\ Asked.status = "pending" /\ Asked.attempts = 0
  /\ Asked.ext = "none" /\ Asked.extAt = 0
  /\ Resting \in Desk /\ Resting.op = "idle"
<1>1. /\ NoHandoff \in HandoffRow /\ NoHandoff.status = "none" /\ NoHandoff.ext = "none"
      /\ NoHandoff.extAt = 0 /\ NoHandoff.attempts = 0
  BY HandoffConstants DEF NoHandoff, HandoffRow
<1>2. /\ Asked \in HandoffRow /\ Asked.status = "pending" /\ Asked.attempts = 0
      /\ Asked.ext = "none" /\ Asked.extAt = 0
  BY <1>1 DEF Asked, HandoffRow
<1>3. Resting \in Desk /\ Resting.op = "idle"
  BY <1>1, HandoffConstants DEF Resting, Desk
<1>4. QED
  BY <1>1, <1>2, <1>3

LEMMA FlushShape ==
  ASSUME NEW cur \in HandoffRow, NEW read \in HandoffRow, NEW new \in HandoffRow
  PROVE  LET row == FlushColumns(cur, read, new) IN
         /\ row \in HandoffRow
         /\ row.status = IF new.status # read.status THEN new.status ELSE cur.status
         /\ row.attempts = IF new.attempts # read.attempts THEN new.attempts ELSE cur.attempts
         /\ row.ext = IF new.ext # read.ext THEN new.ext ELSE cur.ext
         /\ row.extAt = IF new.extAt # read.extAt THEN new.extAt ELSE cur.extAt
BY DEF FlushColumns, HandoffRow

LEMMA AttemptEndsShape ==
  ASSUME NEW row \in HandoffRow, row.status = "pending", row.attempts < MaxTries, NEW result
  PROVE  LET end == AttemptEnds(row, result) IN
         /\ end \in HandoffRow
         /\ end.status = "failed" \/ (end.status = "pending" /\ end.attempts < MaxTries)
            \/ end.status = "delivered"
         /\ result \in Accepted => end.status = "delivered"
         /\ end.attempts > 0 /\ end.attempts # row.attempts
         /\ end.ext = row.ext /\ end.extAt = row.extAt
<1> DEFINE n == row.attempts + 1
<1>1. row.attempts \in 0..MaxTries
  BY DEF HandoffRow
<1>2. n \in 0..MaxTries /\ n > 0 /\ n # row.attempts /\ (n >= MaxTries \/ n < MaxTries)
  BY <1>1, HandoffConstants
<1>3. AttemptEnds(row, result) =
        IF result \in Accepted
        THEN [row EXCEPT !.attempts = n, !.status = "delivered", !.id = result = "named"]
        ELSE IF result = "permanent" \/ n >= MaxTries
        THEN [row EXCEPT !.attempts = n, !.status = "failed"]
        ELSE [row EXCEPT !.attempts = n, !.ripe = FALSE]
  BY DEF AttemptEnds, Accepted
<1> HIDE DEF n
<1>4. LET r == [row EXCEPT !.attempts = n, !.status = "delivered", !.id = result = "named"] IN
      r \in HandoffRow /\ r.status = "delivered" /\ r.attempts = n /\ r.ext = row.ext
      /\ r.extAt = row.extAt
  BY <1>2 DEF HandoffRow
<1>5. LET r == [row EXCEPT !.attempts = n, !.status = "failed"] IN
      r \in HandoffRow /\ r.status = "failed" /\ r.attempts = n /\ r.ext = row.ext
      /\ r.extAt = row.extAt
  BY <1>2 DEF HandoffRow
<1>6. LET r == [row EXCEPT !.attempts = n, !.ripe = FALSE] IN
      r \in HandoffRow /\ r.status = row.status /\ r.attempts = n /\ r.ext = row.ext
      /\ r.extAt = row.extAt
  BY <1>2 DEF HandoffRow
<1>7. QED
  BY <1>2, <1>3, <1>4, <1>5, <1>6

LEMMA RecordedShape ==
  ASSUME NEW row \in HandoffRow, NEW c \in Callback, item \in 0..Len(ItemStates)
  PROVE  LET new == Recorded(row, c) IN
         /\ new \in HandoffRow
         /\ new.status = row.status /\ new.attempts = row.attempts
         /\ c.stamped => IF row.extAt # 0 /\ c.of < row.extAt
                         THEN new.ext = row.ext /\ new.extAt = row.extAt
                         ELSE new.ext = ItemStates[c.of] /\ new.extAt = c.of
<1> DEFINE at == IF c.stamped THEN c.of ELSE item
           word == ItemStates[c.of]
           fresh == [row EXCEPT !.ext = word, !.extAt = at, !.id = @ \/ c.names]
<1>1. /\ c.of \in Moment /\ at \in 0..Len(ItemStates) /\ word \in ExternalState
      /\ c.stamped => at = c.of
  BY HandoffConstants DEF Callback, Moment
<1>2. Recorded(row, c) = IF StaleCallback(row, c) THEN row ELSE fresh
  BY DEF Recorded
<1> HIDE DEF at, word
<1>3. /\ fresh \in HandoffRow
      /\ fresh.status = row.status /\ fresh.attempts = row.attempts
      /\ fresh.ext = word /\ fresh.extAt = at
  BY <1>1 DEF HandoffRow
<1> HIDE DEF fresh
<1>4. c.stamped => (StaleCallback(row, c) <=> row.extAt # 0 /\ c.of < row.extAt)
  BY DEF StaleCallback
<1>5. word = ItemStates[c.of]
  BY DEF word
<1>6. QED
  BY <1>1, <1>2, <1>3, <1>4, <1>5

----------------------------------------------------------------------------
LEMMA HandoffStart == HandoffInit => HandoffInv
<1> SUFFICES ASSUME HandoffInit PROVE HandoffInv
  OBVIOUS
<1>1. HandoffShape
  <2>1. findingOpen \in BOOLEAN /\ overlapped \in BOOLEAN /\ unstamped \in BOOLEAN
    BY Zenon DEF HandoffInit
  <2>2. /\ busy \in [Handler -> Desk] /\ handoff \in HandoffRow /\ loaded \in HandoffRow
        /\ \A h \in Handler : busy[h].read \in HandoffRow /\ busy[h].write \in HandoffRow
    BY FreshRows DEF HandoffInit, Desk
  <2>3. /\ target \in {"on", "off", "gone"} /\ items \in Nat /\ created \in Nat
        /\ item \in 0..Len(ItemStates) /\ newest \in 0..Len(ItemStates)
        /\ answers \subseteq {"created", "existing", "error"}
        /\ sending \in Accepted \cup {"none", "permanent", "transient", "unanswered"}
    BY HandoffConstants DEF HandoffInit
  <2>4. QED
    BY <2>1, <2>2, <2>3, Zenon DEF HandoffShape, HandoffTypeOK
<1>2. \A h \in Handler : busy[h].op = "idle"
  BY FreshRows DEF HandoffInit
<1>3. OneRow /\ HandlersWrite /\ StampedTell /\ TriesLeft /\ WordKept /\ RequestRaceAnswered
  BY <1>2, FreshRows DEF HandoffInit, OneRow, HandlersWrite, Writes, Loading, StampedTell,
     TriesLeft, WordKept, WordAt, RequestRaceAnswered, Accepted
<1>4. Alone
  BY <1>2, FreshRows DEF HandoffInit, Alone, Loading, Accepted
<1>5. QED
  BY <1>1, <1>3, <1>4 DEF HandoffInv

\* The type of a handler's desk gives the shape of what it read and writes.
LEMMA DeskShape ==
  ASSUME busy \in [Handler -> Desk]
  PROVE  \A h \in Handler : busy[h].read \in HandoffRow /\ busy[h].write \in HandoffRow
BY DEF Desk

----------------------------------------------------------------------------
(* Handlers load the row. *)

LEMMA LoadStep ==
  ASSUME HandoffInv, NEW h \in Handler, NEW op \in Loading, NEW write \in HandoffRow,
         NEW of \in 0..Len(ItemStates), Handle(h, op, write, of),
         Writes([op |-> op, read |-> handoff, write |-> write, of |-> of]),
         handoff.status # "none", op = "replay" => handoff.status = "failed",
         unstamped' \in BOOLEAN, unstamped => unstamped',
         op = "callback" /\ ~unstamped' =>
            Tells([op |-> op, read |-> handoff, write |-> write, of |-> of]),
         UNCHANGED <<target, handoff, findingOpen, item, answers, created, sending, loaded,
                     items, newest, deaths>>
  PROVE  HandoffInv'
<1> DEFINE b == [op |-> op, read |-> handoff, write |-> write, of |-> of]
<1>1. /\ b \in Desk /\ b.op = op /\ b.read = handoff
  BY DEF HandoffInv, HandoffShape, HandoffTypeOK, Desk
<1>2. /\ busy' = [busy EXCEPT ![h] = b] /\ busy \in [Handler -> Desk]
      /\ Writes(b) /\ (op = "callback" /\ ~unstamped' => Tells(b))
  BY DEF Handle, HandoffInv, HandoffShape
<1>3. /\ overlapped' \in BOOLEAN
      /\ ~overlapped' => ~overlapped /\ \A g \in Handler : busy[g].op = "idle"
  BY DEF Handle, Loading, HandoffInv, HandoffShape, HandoffTypeOK
<1> HIDE DEF b
<1>4. /\ busy' \in [Handler -> Desk]
      /\ \A g \in Handler : busy'[g] = IF g = h THEN b ELSE busy[g]
  BY <1>1, <1>2
<1>5. HandoffShape'
  BY <1>3, <1>4, DeskShape DEF HandoffInv, HandoffShape, HandoffTypeOK, Desk
<1>6. OneRow' /\ RequestRaceAnswered'
  BY <1>4 DEF HandoffInv, OneRow, RequestRaceAnswered, HandoffShape, HandoffTypeOK
<1>7. HandlersWrite'
  BY <1>2, <1>4 DEF HandoffInv, HandlersWrite
<1>8. StampedTell'
  BY <1>1, <1>2, <1>4 DEF HandoffInv, StampedTell
<1>9. TriesLeft'
  BY DEF HandoffInv, TriesLeft
<1>10. Alone'
  BY <1>1, <1>3, <1>4 DEF HandoffInv, Alone, Loading
<1>11. WordKept'
  BY <1>3 DEF HandoffInv, WordKept
<1>12. QED
  BY <1>5, <1>6, <1>7, <1>8, <1>9, <1>10, <1>11 DEF HandoffInv

LEMMA RequestLooksStep ==
  ASSUME HandoffInv, NEW h \in Handler, RequestLooks(h)
  PROVE  HandoffInv'
<1> DEFINE b == [op |-> "request", read |-> handoff, write |-> Asked, of |-> 0]
<1>1. b \in Desk /\ b.op = "request" /\ Writes(b)
  BY FreshRows, HandoffConstants DEF HandoffInv, HandoffShape, HandoffTypeOK, Desk, Writes, Loading
<1>2. /\ busy' = [busy EXCEPT ![h] = b] /\ busy \in [Handler -> Desk]
      /\ handoff.status = "none" /\ target = "on"
      /\ UNCHANGED <<target, handoff, findingOpen, item, answers, created, sending, loaded, items,
                     newest, unstamped, deaths>>
  BY DEF RequestLooks, Handle, Asked, HandoffInv, HandoffShape
<1>3. overlapped' = overlapped
  BY DEF RequestLooks, Handle, HandoffInv, HandoffShape, HandoffTypeOK
<1> HIDE DEF b
<1>4. /\ busy' \in [Handler -> Desk]
      /\ \A g \in Handler : busy'[g] = IF g = h THEN b ELSE busy[g]
  BY <1>1, <1>2
<1>5. /\ created = 0
      /\ \A g \in Handler : busy[g].op \notin Loading /\ busy'[g].op \notin Loading
  BY <1>1, <1>2, <1>4 DEF HandoffInv, OneRow, RequestRaceAnswered, HandoffShape, HandoffTypeOK,
     Loading
<1>6. HandoffShape'
  BY <1>2, <1>3, <1>4, DeskShape DEF HandoffInv, HandoffShape, HandoffTypeOK, Desk
<1>7. OneRow' /\ RequestRaceAnswered' /\ TriesLeft' /\ WordKept'
  BY <1>2, <1>3, <1>5 DEF HandoffInv, OneRow, RequestRaceAnswered, TriesLeft, WordKept
<1>8. HandlersWrite' /\ StampedTell'
  BY <1>1, <1>2, <1>4, <1>5 DEF HandoffInv, HandlersWrite, StampedTell, Loading
<1>9. Alone'
  BY <1>2, <1>3, <1>5 DEF HandoffInv, Alone, Loading
<1>10. QED
  BY <1>6, <1>7, <1>8, <1>9 DEF HandoffInv

LEMMA LoadSteps ==
  ASSUME HandoffInv, NEW h \in Handler,
         ReplayLoads(h) \/ DismissLoads(h) \/ \E c \in Callback : CallbackLoads(h, c)
  PROVE  HandoffInv'
<1>1. /\ handoff \in HandoffRow /\ item \in 0..Len(ItemStates) /\ 0 \in 0..Len(ItemStates)
      /\ unstamped \in BOOLEAN /\ Len(ItemStates) \in Nat
      /\ handoff.status = "none" => handoff.ext = "none"
  BY HandoffConstants DEF HandoffInv, HandoffShape, HandoffTypeOK, OneRow
<1>2. CASE ReplayLoads(h)
  <2> DEFINE write == [handoff EXCEPT !.status = "pending", !.attempts = 0, !.ripe = TRUE]
  <2>1. /\ write \in HandoffRow /\ write.status = "pending" /\ write.attempts = 0
        /\ write.ext = handoff.ext /\ write.extAt = handoff.extAt
    <3> DEFINE row == handoff
    <3>1. row \in HandoffRow /\ 0 \in 0..MaxTries
      BY <1>1, HandoffConstants
    <3> HIDE DEF row
    <3>2. LET w == [row EXCEPT !.status = "pending", !.attempts = 0, !.ripe = TRUE] IN
          /\ w \in HandoffRow /\ w.status = "pending" /\ w.attempts = 0
          /\ w.ext = row.ext /\ w.extAt = row.extAt
      BY <3>1 DEF HandoffRow
    <3>3. QED
      BY <3>2 DEF row
  <2>2. /\ Handle(h, "replay", write, 0) /\ handoff.status = "failed"
        /\ UNCHANGED <<target, handoff, findingOpen, item, answers, created, sending, loaded,
                       items, newest, unstamped, deaths>>
    BY <1>2 DEF ReplayLoads, Replayable
  <2> HIDE DEF write
  <2>3. Writes([op |-> "replay", read |-> handoff, write |-> write, of |-> 0])
    BY <2>1, <2>2 DEF Writes, Loading, HandoffInv, TriesLeft
  <2>4. QED
    BY <1>1, <2>1, <2>2, <2>3, LoadStep DEF Loading
<1>3. CASE DismissLoads(h)
  <2> DEFINE write == [handoff EXCEPT !.dismissed = handoff.ext]
  <2>1. /\ write \in HandoffRow /\ write.status = handoff.status
        /\ write.attempts = handoff.attempts
        /\ write.ext = handoff.ext /\ write.extAt = handoff.extAt
    BY <1>1 DEF HandoffRow
  <2>2. /\ Handle(h, "dismiss", write, 0) /\ handoff.status # "none"
        /\ UNCHANGED <<target, handoff, findingOpen, item, answers, created, sending, loaded,
                       items, newest, unstamped, deaths>>
    BY <1>1, <1>3 DEF DismissLoads, ConflictOf
  <2> HIDE DEF write
  <2>3. Writes([op |-> "dismiss", read |-> handoff, write |-> write, of |-> 0])
    BY <2>1, <2>2 DEF Writes, Loading
  <2>4. QED
    BY <1>1, <2>1, <2>2, <2>3, LoadStep DEF Loading
<1>4. CASE \E c \in Callback : CallbackLoads(h, c)
  <2>1. PICK c \in Callback : CallbackLoads(h, c)
    BY <1>4
  <2> DEFINE write == Recorded(handoff, c)
             b == [op |-> "callback", read |-> handoff, write |-> write, of |-> c.of]
  <2>2. /\ write \in HandoffRow
        /\ write.status = handoff.status /\ write.attempts = handoff.attempts
        /\ c.stamped => IF handoff.extAt # 0 /\ c.of < handoff.extAt
                        THEN write.ext = handoff.ext /\ write.extAt = handoff.extAt
                        ELSE write.ext = ItemStates[c.of] /\ write.extAt = c.of
    BY <1>1, RecordedShape
  <2>3. /\ Handle(h, "callback", write, c.of) /\ handoff.status # "none"
        /\ unstamped' = (unstamped \/ ~c.stamped)
        /\ UNCHANGED <<target, handoff, findingOpen, item, answers, created, sending, loaded,
                       items, newest, deaths>>
    BY <2>1 DEF CallbackLoads
  <2>4. c.of \in Moment /\ c.of \in 0..Len(ItemStates) /\ c.stamped \in BOOLEAN
    BY <1>1 DEF Callback, Moment
  <2> HIDE DEF write
  <2>5. Writes(b)
    BY <2>2, <2>3 DEF Writes, Loading
  <2>6. unstamped' \in BOOLEAN /\ (unstamped => unstamped') /\ (~unstamped' => c.stamped)
    BY <1>1, <2>3, <2>4
  <2>7. ~unstamped' => Tells(b)
    BY <2>2, <2>4, <2>6 DEF Tells
  <2>8. QED
    BY <2>2, <2>3, <2>4, <2>5, <2>6, <2>7, LoadStep DEF Loading
<1>5. QED
  BY <1>2, <1>3, <1>4

----------------------------------------------------------------------------
(* Handlers commit. *)

LEMMA RequestCommitsStep ==
  ASSUME HandoffInv, NEW h \in Handler, RequestCommits(h)
  PROVE  HandoffInv'
<1>1. /\ busy[h].op = "request" /\ busy' = [busy EXCEPT ![h] = Resting]
      /\ busy \in [Handler -> Desk]
      /\ answers' = answers \cup {RaceAnswer(h)}
      /\ UNCHANGED <<target, findingOpen, item, sending, loaded, items, newest, overlapped,
                     unstamped, handled, deaths>>
  BY DEF RequestCommits, Answered, HandoffInv, HandoffShape
<1>2. /\ busy' \in [Handler -> Desk]
      /\ \A g \in Handler : busy'[g] = IF g = h THEN Resting ELSE busy[g]
      /\ \A g \in Handler : busy'[g].op # "idle" => busy'[g] = busy[g]
  BY <1>1, FreshRows
<1>3. HandlersWrite' /\ StampedTell'
  BY <1>1, <1>2, FreshRows DEF HandoffInv, HandlersWrite, StampedTell, Writes, Loading
<1>4. CASE RaceAnswer(h) = "created"
  <2>1. /\ target # "gone" /\ handoff.status = "none" /\ created = 0
    BY <1>4 DEF RaceAnswer, HandoffInv, OneRow, RequestRaceAnswered, HandoffShape, HandoffTypeOK
  <2>2. handoff' = Asked /\ created' = created + 1
    BY <1>1, <1>4 DEF RequestCommits, HandoffInv, HandlersWrite, Writes
  <2>3. /\ items = 0 /\ sending = "none" /\ newest = 0
        /\ \A g \in Handler : busy[g].op \notin Loading /\ busy'[g].op \notin Loading
    BY <1>2, <2>1, FreshRows DEF HandoffInv, OneRow, Loading
  <2>4. HandoffShape'
    BY <1>1, <1>2, <1>4, <2>1, <2>2, FreshRows, DeskShape
       DEF HandoffInv, HandoffShape, HandoffTypeOK, Desk
  <2>5. OneRow' /\ RequestRaceAnswered'
    BY <1>1, <1>4, <2>1, <2>2, <2>3, FreshRows DEF HandoffInv, OneRow, RequestRaceAnswered
  <2>6. TriesLeft' /\ WordKept'
    BY <1>1, <2>2, <2>3, FreshRows, HandoffConstants
       DEF HandoffInv, TriesLeft, WordKept, WordAt, Accepted
  <2>7. Alone'
    BY <1>1, <2>2, <2>3, FreshRows DEF Alone, Loading
  <2>8. QED
    BY <1>3, <2>4, <2>5, <2>6, <2>7 DEF HandoffInv
<1>5. CASE RaceAnswer(h) # "created"
  <2>1. /\ UNCHANGED <<handoff, created>> /\ RaceAnswer(h) \in {"existing", "error"}
        /\ RaceAnswer(h) = "error" => target = "gone"
    BY <1>5 DEF RequestCommits, RaceAnswer
  <2>2. HandoffShape'
    BY <1>1, <1>2, <2>1, DeskShape DEF HandoffInv, HandoffShape, HandoffTypeOK, Desk
  <2>3. OneRow' /\ RequestRaceAnswered'
    BY <1>1, <1>2, <2>1 DEF HandoffInv, OneRow, RequestRaceAnswered, Loading
  <2>4. TriesLeft' /\ WordKept'
    BY <1>1, <2>1 DEF HandoffInv, TriesLeft, WordKept
  <2>5. Alone'
    BY <1>1, <1>2, <2>1 DEF HandoffInv, Alone, Loading
  <2>6. QED
    BY <1>3, <2>2, <2>3, <2>4, <2>5 DEF HandoffInv
<1>6. QED
  BY <1>4, <1>5

LEMMA HandlerCommitsStep ==
  ASSUME HandoffInv, NEW h \in Handler, HandlerCommits(h)
  PROVE  HandoffInv'
<1> DEFINE b == busy[h]
           row == FlushColumns(handoff, b.read, b.write)
<1>1. /\ b.op \in Loading /\ busy' = [busy EXCEPT ![h] = Resting]
      /\ busy \in [Handler -> Desk]
      /\ handoff' = IF handoff.status = "none" THEN handoff ELSE row
      /\ newest' = IF b.of > newest THEN b.of ELSE newest
      /\ UNCHANGED <<target, findingOpen, item, answers, created, sending, loaded, items,
                     overlapped, unstamped, handled, deaths>>
  BY DEF HandlerCommits, Answered, HandoffInv, HandoffShape, Loading
<1>2. /\ busy' \in [Handler -> Desk]
      /\ \A g \in Handler : busy'[g] = IF g = h THEN Resting ELSE busy[g]
      /\ \A g \in Handler : busy'[g].op # "idle" => busy'[g] = busy[g] /\ g # h
  BY <1>1, FreshRows
<1>3. /\ handoff \in HandoffRow /\ b.read \in HandoffRow /\ b.write \in HandoffRow
      /\ b.of \in 0..Len(ItemStates) /\ newest \in 0..Len(ItemStates) /\ Writes(b)
  BY <1>1 DEF Desk, HandoffInv, HandoffShape, HandoffTypeOK, HandlersWrite
<1>4. created = 1
  BY <1>1 DEF HandoffInv, OneRow, RequestRaceAnswered, HandoffShape, HandoffTypeOK
<1>5. /\ row \in HandoffRow
      /\ row.status = IF b.write.status # b.read.status THEN b.write.status ELSE handoff.status
      /\ row.attempts = IF b.write.attempts # b.read.attempts THEN b.write.attempts
                        ELSE handoff.attempts
      /\ row.ext = IF b.write.ext # b.read.ext THEN b.write.ext ELSE handoff.ext
      /\ row.extAt = IF b.write.extAt # b.read.extAt THEN b.write.extAt ELSE handoff.extAt
  BY <1>3, FlushShape
<1> HIDE DEF b, row
<1>6. /\ b.op = "replay" => row.status = "pending" /\ row.attempts = 0
      /\ b.op # "replay" => row.status = handoff.status /\ row.attempts = handoff.attempts
  BY <1>1, <1>3, <1>5 DEF Writes, Loading
<1>7. handoff' \in HandoffRow /\ (handoff'.status = "none" <=> handoff.status = "none")
  BY <1>1, <1>3, <1>5, <1>6
<1>8. HandoffShape'
  BY <1>1, <1>2, <1>3, <1>7, DeskShape DEF HandoffInv, HandoffShape, HandoffTypeOK, Desk
<1>9. OneRow' /\ RequestRaceAnswered'
  BY <1>1, <1>4, <1>7 DEF HandoffInv, OneRow, RequestRaceAnswered
<1>10. HandlersWrite' /\ StampedTell'
  BY <1>1, <1>2, FreshRows DEF HandoffInv, HandlersWrite, StampedTell, Writes, Loading
<1>11. TriesLeft'
  BY <1>1, <1>6, HandoffConstants DEF HandoffInv, TriesLeft
<1>12. ~overlapped => /\ \A g \in Handler : busy[g].op # "idle" => g = h
                      /\ \A g \in Handler : busy'[g].op = "idle"
                      /\ b.op = "replay" => handoff.status \in {"failed", "none"}
                      /\ handoff.status # "none" => b.read.ext = handoff.ext
                                                    /\ b.read.extAt = handoff.extAt
  BY <1>1, <1>2, FreshRows DEF HandoffInv, Alone, b
<1>13. Alone'
  BY <1>1, <1>6, <1>7, <1>12 DEF HandoffInv, Alone, Loading
<1>14. WordKept'
  <2> SUFFICES ASSUME handoff.status # "none", ~overlapped, ~unstamped
               PROVE  row.extAt = newest' /\ row.ext = WordAt(newest')
    BY <1>1, <1>7 DEF WordKept
  <2>1. /\ handoff.extAt = newest /\ handoff.ext = WordAt(newest)
        /\ b.read.ext = handoff.ext /\ b.read.extAt = handoff.extAt
    BY <1>12 DEF HandoffInv, WordKept
  <2>2. row.ext = b.write.ext /\ row.extAt = b.write.extAt
    BY <1>5, <2>1
  <2>3. CASE b.op # "callback"
    BY <1>1, <1>3, <2>1, <2>2, <2>3, HandoffConstants DEF Writes, Loading
  <2>4. CASE b.op = "callback"
    <3>1. Tells(b)
      BY <2>4 DEF HandoffInv, StampedTell, b
    <3>2. CASE b.read.extAt # 0 /\ b.of < b.read.extAt
      BY <1>1, <1>3, <2>1, <2>2, <3>1, <3>2, HandoffConstants DEF Tells
    <3>3. CASE ~(b.read.extAt # 0 /\ b.of < b.read.extAt)
      <4>1. b.of \in Moment /\ b.write.ext = ItemStates[b.of] /\ b.write.extAt = b.of
        BY <3>1, <3>3 DEF Tells
      <4>2. newest' = b.of /\ b.of # 0
        BY <1>1, <1>3, <2>1, <3>3, <4>1, HandoffConstants DEF Moment
      <4>3. QED
        BY <2>2, <4>1, <4>2 DEF WordAt
    <3>4. QED
      BY <3>2, <3>3
  <2>5. QED
    BY <2>3, <2>4
<1>15. QED
  BY <1>8, <1>9, <1>10, <1>11, <1>13, <1>14 DEF HandoffInv

----------------------------------------------------------------------------
(* Delivery *)

LEMMA SendsStep ==
  ASSUME HandoffInv, NEW r \in {"ok", "named", "permanent", "transient", "unanswered"},
         DeliverSends(r)
  PROVE  HandoffInv'
<1>1. /\ sending = "none" /\ handoff.status = "pending" /\ sending' = r /\ loaded' = handoff
      /\ items' = IF r \in Accepted THEN items + 1 ELSE items
      /\ item' = IF r \in {"ok", "named", "unanswered"} /\ item = 0 THEN 1 ELSE item
      /\ UNCHANGED <<target, handoff, findingOpen, busy, answers, created, newest, overlapped,
                     unstamped, handled, deaths>>
  BY DEF DeliverSends, Accepted
<1>2. 1 \in 0..Len(ItemStates)
  BY HandoffAssumption
<1>3. HandoffShape'
  BY <1>1, <1>2 DEF HandoffInv, HandoffShape, HandoffTypeOK, Accepted
<1>4. OneRow' /\ RequestRaceAnswered' /\ HandlersWrite' /\ StampedTell' /\ WordKept'
  BY <1>1 DEF HandoffInv, OneRow, RequestRaceAnswered, HandlersWrite, StampedTell, WordKept
<1>5. TriesLeft'
  BY <1>1 DEF HandoffInv, TriesLeft, Accepted, HandoffShape, HandoffTypeOK
<1>6. Alone'
  BY <1>1 DEF HandoffInv, Alone, Accepted, HandoffShape, HandoffTypeOK
<1>7. QED
  BY <1>3, <1>4, <1>5, <1>6 DEF HandoffInv

LEMMA RefusesStep == HandoffInv /\ DeliverRefused => HandoffInv'
<1> SUFFICES ASSUME HandoffInv, DeliverRefused PROVE HandoffInv'
  OBVIOUS
<1> DEFINE n == handoff.attempts + 1
<1>1. /\ sending = "none" /\ handoff.status = "pending"
      /\ handoff' = [handoff EXCEPT !.status = "failed", !.attempts = n]
      /\ UNCHANGED <<target, findingOpen, item, busy, answers, created, sending, loaded, items,
                     newest, overlapped, unstamped, handled, deaths>>
  BY DEF DeliverRefused
<1>2. handoff \in HandoffRow /\ handoff.attempts < MaxTries /\ handoff.attempts \in 0..MaxTries
  BY <1>1 DEF HandoffInv, HandoffShape, HandoffTypeOK, TriesLeft, HandoffRow
<1>3. n \in 0..MaxTries /\ n > 0
  BY <1>2, HandoffConstants
<1> HIDE DEF n
<1>4. /\ handoff' \in HandoffRow /\ handoff'.status = "failed" /\ handoff'.attempts = n
      /\ handoff'.ext = handoff.ext /\ handoff'.extAt = handoff.extAt
  BY <1>1, <1>2, <1>3 DEF HandoffRow
<1>5. HandoffShape'
  BY <1>1, <1>4 DEF HandoffInv, HandoffShape, HandoffTypeOK
<1>6. OneRow' /\ RequestRaceAnswered' /\ HandlersWrite' /\ StampedTell' /\ WordKept'
  BY <1>1, <1>4 DEF HandoffInv, OneRow, RequestRaceAnswered, HandlersWrite, StampedTell, WordKept
<1>7. TriesLeft'
  BY <1>1, <1>3, <1>4 DEF HandoffInv, TriesLeft
<1>8. Alone'
  BY <1>1, <1>4 DEF HandoffInv, Alone, Accepted
<1>9. QED
  BY <1>5, <1>6, <1>7, <1>8 DEF HandoffInv

LEMMA DeliverCommitsStep == HandoffInv /\ DeliverCommits => HandoffInv'
<1> SUFFICES ASSUME HandoffInv, DeliverCommits PROVE HandoffInv'
  OBVIOUS
<1> DEFINE end == AttemptEnds(loaded, sending)
           row == FlushColumns(handoff, loaded, end)
<1>1. /\ sending # "none" /\ sending' = "none" /\ loaded' = NoHandoff
      /\ handoff' = IF handoff.status = "none" THEN handoff ELSE row
      /\ UNCHANGED <<target, findingOpen, item, busy, answers, created, items, newest, overlapped,
                     unstamped, handled, deaths>>
  BY DEF DeliverCommits
<1>2. /\ handoff \in HandoffRow /\ loaded \in HandoffRow
      /\ loaded.status = "pending" /\ loaded.attempts < MaxTries
  BY <1>1 DEF HandoffInv, HandoffShape, HandoffTypeOK, TriesLeft
<1>3. /\ end \in HandoffRow
      /\ end.status = "failed" \/ (end.status = "pending" /\ end.attempts < MaxTries)
         \/ end.status = "delivered"
      /\ sending \in Accepted => end.status = "delivered"
      /\ end.attempts > 0 /\ end.attempts # loaded.attempts
      /\ end.ext = loaded.ext /\ end.extAt = loaded.extAt
  BY <1>2, AttemptEndsShape
<1> HIDE DEF end
<1>4. /\ row \in HandoffRow
      /\ row.status = IF end.status # loaded.status THEN end.status ELSE handoff.status
      /\ row.attempts = end.attempts
      /\ row.ext = handoff.ext /\ row.extAt = handoff.extAt
  BY <1>2, <1>3, FlushShape
<1> HIDE DEF row
<1>5. /\ handoff' \in HandoffRow /\ handoff'.ext = handoff.ext /\ handoff'.extAt = handoff.extAt
      /\ handoff'.status = "none" <=> handoff.status = "none"
  BY <1>1, <1>2, <1>3, <1>4
<1>6. HandoffShape'
  BY <1>1, <1>5, FreshRows DEF HandoffInv, HandoffShape, HandoffTypeOK
<1>7. OneRow' /\ RequestRaceAnswered' /\ HandlersWrite' /\ StampedTell' /\ WordKept'
  BY <1>1, <1>5 DEF HandoffInv, OneRow, RequestRaceAnswered, HandlersWrite, StampedTell, WordKept
<1>8. TriesLeft'
  BY <1>1, <1>2, <1>3, <1>4 DEF HandoffInv, TriesLeft, Accepted
<1>9. Alone'
  <2> SUFFICES ASSUME ~overlapped PROVE Alone'
    BY <1>1 DEF Alone
  <2>1. /\ handoff.status \in {"pending", "none"} /\ items <= 1
        /\ \A h \in Handler : busy[h].op = "replay" => handoff.status = "none"
        /\ items = 1 => sending \in Accepted \/ handoff.status = "none"
    BY <1>1 DEF HandoffInv, Alone
  <2>2. items = 1 => handoff'.status \in {"delivered", "none"}
    BY <1>1, <1>2, <1>3, <1>4, <2>1
  <2>3. QED
    BY <1>1, <1>5, <2>1, <2>2 DEF HandoffInv, Alone
<1>10. QED
  BY <1>6, <1>7, <1>8, <1>9 DEF HandoffInv

LEMMA DiesHereStep == HandoffInv /\ DelivererDiesHere => HandoffInv'
<1> SUFFICES ASSUME HandoffInv, DelivererDiesHere PROVE HandoffInv'
  OBVIOUS
<1>1. /\ sending # "none" /\ sending' = "none" /\ loaded' = NoHandoff
      /\ items' = IF sending \in Accepted THEN items - 1 ELSE items
      /\ UNCHANGED <<target, handoff, findingOpen, item, busy, answers, created, newest,
                     overlapped, unstamped, handled>>
  BY DEF DelivererDiesHere, Accepted
<1>2. items' \in Nat /\ items \in Nat /\ (sending \in Accepted => items >= 1)
  BY <1>1 DEF HandoffInv, TriesLeft, HandoffShape, HandoffTypeOK
<1>3. HandoffShape'
  BY <1>1, <1>2, FreshRows DEF HandoffInv, HandoffShape, HandoffTypeOK
<1>4. OneRow' /\ RequestRaceAnswered' /\ HandlersWrite' /\ StampedTell' /\ WordKept'
  BY <1>1, <1>2 DEF HandoffInv, OneRow, RequestRaceAnswered, HandlersWrite, StampedTell, WordKept
<1>5. TriesLeft'
  BY <1>1 DEF HandoffInv, TriesLeft, Accepted
<1>6. Alone'
  BY <1>1, <1>2 DEF HandoffInv, Alone, Accepted
<1>7. QED
  BY <1>3, <1>4, <1>5, <1>6 DEF HandoffInv

LEMMA BackoffStep == HandoffInv /\ BackoffEnds => HandoffInv'
<1> SUFFICES ASSUME HandoffInv, BackoffEnds PROVE HandoffInv'
  OBVIOUS
<1>1. /\ handoff' = [handoff EXCEPT !.ripe = TRUE] /\ handoff \in HandoffRow
      /\ UNCHANGED <<target, findingOpen, item, busy, answers, created, sending, loaded, items,
                     newest, overlapped, unstamped, handled, deaths>>
  BY DEF BackoffEnds, HandoffInv, HandoffShape, HandoffTypeOK
<1>2. /\ handoff' \in HandoffRow /\ handoff'.status = handoff.status
      /\ handoff'.attempts = handoff.attempts
      /\ handoff'.ext = handoff.ext /\ handoff'.extAt = handoff.extAt
  BY <1>1 DEF HandoffRow
<1>3. HandoffShape'
  BY <1>1, <1>2 DEF HandoffInv, HandoffShape, HandoffTypeOK
<1>4. OneRow' /\ RequestRaceAnswered' /\ HandlersWrite' /\ StampedTell' /\ WordKept'
  BY <1>1, <1>2 DEF HandoffInv, OneRow, RequestRaceAnswered, HandlersWrite, StampedTell, WordKept
<1>5. TriesLeft' /\ Alone'
  BY <1>1, <1>2 DEF HandoffInv, TriesLeft, Alone
<1>6. QED
  BY <1>3, <1>4, <1>5 DEF HandoffInv

----------------------------------------------------------------------------
(* The world *)

LEMMA WorldSteps ==
  ASSUME HandoffInv, ItemMoves \/ FindingTriaged \/ UpdateTarget \/ UNCHANGED hvars
  PROVE  HandoffInv'
<1>1. /\ UNCHANGED <<handoff, busy, answers, created, sending, loaded, items, newest, overlapped,
                     unstamped>>
      /\ target' = "gone" <=> target = "gone"
  BY DEF ItemMoves, FindingTriaged, UpdateTarget, hvars
<1>2. HandoffShape'
  <2>1. findingOpen' \in BOOLEAN
    BY DEF ItemMoves, FindingTriaged, UpdateTarget, hvars, HandoffInv, HandoffShape, HandoffTypeOK
  <2>2. target' \in {"on", "off", "gone"} /\ item' \in 0..Len(ItemStates)
    BY HandoffConstants DEF ItemMoves, FindingTriaged, UpdateTarget, hvars, HandoffInv,
       HandoffShape, HandoffTypeOK, Moment
  <2>3. QED
    BY <1>1, <2>1, <2>2 DEF HandoffInv, HandoffShape, HandoffTypeOK
<1>3. OneRow' /\ RequestRaceAnswered' /\ HandlersWrite' /\ StampedTell' /\ WordKept'
  BY <1>1 DEF HandoffInv, OneRow, RequestRaceAnswered, HandlersWrite, StampedTell, WordKept
<1>4. TriesLeft' /\ Alone'
  BY <1>1 DEF HandoffInv, TriesLeft, Alone
<1>5. QED
  BY <1>2, <1>3, <1>4 DEF HandoffInv

LEMMA DeleteTargetStep == HandoffInv /\ DeleteTarget => HandoffInv'
<1> SUFFICES ASSUME HandoffInv, DeleteTarget PROVE HandoffInv'
  OBVIOUS
<1>1. /\ target' = "gone" /\ handoff' = NoHandoff /\ handoff'.status = "none"
      /\ UNCHANGED <<findingOpen, item, busy, answers, created, sending, loaded, items, newest,
                     overlapped, unstamped>>
  BY FreshRows DEF DeleteTarget
<1>2. HandoffShape'
  BY <1>1, FreshRows DEF HandoffInv, HandoffShape, HandoffTypeOK
<1>3. OneRow' /\ RequestRaceAnswered' /\ HandlersWrite' /\ StampedTell' /\ WordKept'
  BY <1>1, FreshRows DEF HandoffInv, OneRow, RequestRaceAnswered, HandlersWrite, StampedTell,
     WordKept
<1>4. TriesLeft' /\ Alone'
  BY <1>1 DEF HandoffInv, TriesLeft, Alone
<1>5. QED
  BY <1>2, <1>3, <1>4 DEF HandoffInv

LEMMA HandoffStep == HandoffInv /\ [HandoffNext]_hvars => HandoffInv'
<1> SUFFICES ASSUME HandoffInv, [HandoffNext]_hvars PROVE HandoffInv'
  OBVIOUS
<1>1. CASE UNCHANGED hvars \/ ItemMoves \/ FindingTriaged \/ UpdateTarget
  BY <1>1, WorldSteps
<1>2. CASE DeleteTarget \/ DeliverRefused \/ DeliverCommits \/ DelivererDiesHere \/ BackoffEnds
  BY <1>2, DeleteTargetStep, RefusesStep, DeliverCommitsStep, DiesHereStep, BackoffStep
<1>3. CASE \E r \in {"ok", "named", "permanent", "transient", "unanswered"} : DeliverSends(r)
  BY <1>3, SendsStep
<1>4. CASE \E h \in Handler : RequestLooks(h) \/ RequestCommits(h) \/ HandlerCommits(h)
  BY <1>4, RequestLooksStep, RequestCommitsStep, HandlerCommitsStep
<1>5. CASE \E h \in Handler :
             ReplayLoads(h) \/ DismissLoads(h) \/ \E c \in Callback : CallbackLoads(h, c)
  BY <1>5, LoadSteps
<1>6. QED
  BY <1>1, <1>2, <1>3, <1>4, <1>5 DEF HandoffNext

LEMMA HandoffHolds == HandoffSpec => []HandoffInv
BY HandoffStart, HandoffStep, PTL DEF HandoffSpec

\* The row, the work item, the handlers and the attempt under way keep their types; the
\* row's attempts never pass the ceiling.
THEOREM HandoffTyped == HandoffSpec => []HandoffTypeOK
<1>1. HandoffInv => HandoffTypeOK
  BY DEF HandoffInv, HandoffShape
<1>2. QED
  BY <1>1, HandoffHolds, PTL

\* Requests that race make one row, and the loser is given it (request_committed).
THEOREM RaceAnswered == HandoffSpec => []RequestRaceAnswered
<1>1. HandoffInv => RequestRaceAnswered
  BY DEF HandoffInv
<1>2. QED
  BY <1>1, HandoffHolds, PTL

\* Retries, replays and callbacks ask the receiver for one work item, unless a replay
\* overlapped another handler's work on the row.
THEOREM OneItemAsked == HandoffSpec => []OneWorkItem
<1>1. HandoffInv => OneWorkItem
  BY DEF HandoffInv, Alone, OneWorkItem
<1>2. QED
  BY <1>1, HandoffHolds, PTL

\* Late, repeated and reordered callbacks leave the receiver's latest word in the row
\* (callback.record), while they are stamped and no two handlers overlap.
THEOREM LatestWord == HandoffSpec => []LatestWordKept
<1>1. HandoffInv => LatestWordKept
  BY DEF HandoffInv, OneRow, WordKept, WordAt, LatestWordKept
<1>2. QED
  BY <1>1, HandoffHolds, PTL
=============================================================================
