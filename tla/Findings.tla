------------------------------ MODULE Findings ------------------------------
(***************************************************************************)
(* The findings of one source: what a results submission, reconciliation,  *)
(* an analyst's PATCH, the suppression routes and the suppression sweep do *)
(* to the same rows (engines/ingest.py, scans/reconcile.py,                *)
(* findings/triage.py, suppressions.py, findings/ownership.py), and the    *)
(* engine's pre-filter, which drops what a leased suppression covers       *)
(* before it is reported (engine/suppression.py).                          *)
(*                                                                         *)
(* Every API replica works on one transaction at a time: it loads rows     *)
(* without locking them and flushes later, so between its Begin and its    *)
(* Commit other replicas commit.  A flush writes only the columns whose    *)
(* value differs from what was loaded, and re-checks nothing; only         *)
(* reconciliation re-states its condition in the UPDATE.                   *)
(***************************************************************************)
EXTENDS Naturals, FiniteSets

CONSTANTS
  Finding,      \* fingerprints this source's content can produce
  Rule,         \* suppression ids
  NoRule,       \* NULL suppressed_by_id
  Glob,         \* the rules with scope path_glob
  Covers,       \* [Rule -> SUBSET Finding], what core/suppression.matches decides
  Group,        \* owner groups
  NoGroup,      \* NULL owner_group_id
  RouteOf,      \* [Finding -> Group or NoGroup], the first routing rule that matches
  Replica,      \* API processes
  MaxScan,      \* bound on scans of the source
  MaxTx         \* bound on transactions (the code has none)

ASSUME FindingsAssumption ==
  /\ NoRule \notin Rule /\ NoGroup \notin Group
  /\ "keep" \notin Group \cup {NoGroup}
  /\ Glob \subseteq Rule /\ Covers \in [Rule -> SUBSET Finding]
  /\ RouteOf \in [Finding -> Group \cup {NoGroup}]
  /\ MaxScan \in Nat /\ MaxTx \in Nat

FindingState == {"open", "false_positive", "accepted_risk", "resolved"}
Judgement == {"false_positive", "accepted_risk"}
FindingResolution == {"manual", "auto"}

\* The columns of finding the operations below read and write; last = 0 is "no
\* row yet".  hidden is suppressed_at, by is suppressed_by_id.
Row == [state      : FindingState,
        resolution : FindingResolution \cup {"none"},
        last       : 0..MaxScan,
        hidden     : BOOLEAN,
        by         : Rule \cup {NoRule},
        owner      : Group \cup {NoGroup},
        pinned     : BOOLEAN]

NoFinding == [state |-> "open", resolution |-> "none", last |-> 0, hidden |-> FALSE,
              by |-> NoRule, owner |-> NoGroup, pinned |-> FALSE]

\* A system event of a kind a scan may cause once for a finding: the key of the
\* unique index uq_finding_event_system_per_scan.
SystemEvent == [kind : {"state_change", "reopened"}, finding : Finding, scan : 1..MaxScan]

\* What a PATCH asks for; "keep" is a field that was not supplied.
Patch == [state : FindingState \cup {"keep"}, owner : Group \cup {NoGroup, "keep"}]

\* A replica's transaction: what it is for, the findings and the rule it is
\* about, and what it loaded (the rows, and the rules live at that moment).
Op == {"idle", "ingest", "reconcile", "triage", "create", "delete", "lapse"}
Tx == [op    : Op,
       on    : SUBSET Finding,
       rule  : Rule \cup {NoRule},
       patch : Patch,
       read  : [Finding -> Row],
       live  : SUBSET Rule]

VARIABLES
  rows,      \* [Finding -> Row]
  rules,     \* [Rule -> life of the suppression]
  events,    \* system events, a SUBSET SystemEvent
  scanNo,    \* the current scan of the source, 0 before the first
  running,   \* the scan is active
  fetched,   \* the scan has a fetch task
  content,   \* the findings the source really holds during this scan
  handed,    \* the suppressions the scan's lease carried
  covered,   \* the content the scan has read and reported so far
  tx,        \* [Replica -> Tx]
  spent,     \* transactions begun so far
  refused    \* the constraints results submissions failed on

scanVars == <<scanNo, running, fetched, content, handed>>
fvars == <<rows, rules, events, scanVars, covered, tx, spent, refused>>

KeepAll == [state |-> "keep", owner |-> "keep"]
NoTx(read) == [op |-> "idle", on |-> {}, rule |-> NoRule, patch |-> KeepAll,
               read |-> read, live |-> {}]
Blank == [f \in Finding |-> NoFinding]

FindingsInit ==
  /\ rows = Blank
  /\ rules = [r \in Rule |-> "unborn"]
  /\ events = {}
  /\ scanNo = 0
  /\ running = FALSE
  /\ fetched = FALSE
  /\ content = {}
  /\ handed = {}
  /\ covered = {}
  /\ tx = [p \in Replica |-> NoTx(Blank)]
  /\ spent = 0
  /\ refused = {}

Stored(read, f) == read[f].last # 0

\* applicable_suppressions: neither expired nor deleted.
LiveRules == {r \in Rule : rules[r] = "live"}
Suppressing(live, f) == {r \in live : f \in Covers[r]}

\* first_match over rows in no stated order: any match, NoRule when there is none.
FirstMatches(live, f) ==
  IF Suppressing(live, f) = {} THEN {NoRule} ELSE Suppressing(live, f)

\* Faulty variant: neither waits for the other.
ScanUnlocked == FALSE

\* Ingest and reconciliation hold the scan row's lock; the others lock nothing
\* they read.
ScanLocked == \E p \in Replica : tx[p].op \in {"ingest", "reconcile"}

\* The UPDATE of a loaded row: the columns the handler changed, no others.
Flush(cur, read, new) ==
  [state      |-> IF new.state # read.state THEN new.state ELSE cur.state,
   resolution |-> IF new.resolution # read.resolution THEN new.resolution ELSE cur.resolution,
   last       |-> IF new.last # read.last THEN new.last ELSE cur.last,
   hidden     |-> IF new.hidden # read.hidden THEN new.hidden ELSE cur.hidden,
   by         |-> IF new.by # read.by THEN new.by ELSE cur.by,
   owner      |-> IF new.owner # read.owner THEN new.owner ELSE cur.owner,
   pinned     |-> IF new.pinned # read.pinned THEN new.pinned ELSE cur.pinned]

Begin(p, t) ==
  /\ tx[p].op = "idle"
  /\ spent < MaxTx
  /\ spent' = spent + 1
  /\ tx' = [tx EXCEPT ![p] = t]

End(p) == tx' = [tx EXCEPT ![p] = NoTx(Blank)]

----------------------------------------------------------------------------
(* Scans *)

StartScan ==
  /\ ~running
  /\ scanNo < MaxScan
  /\ scanNo' = scanNo + 1
  /\ running' = TRUE
  /\ fetched' \in BOOLEAN
  /\ content' \in SUBSET Finding
  /\ handed' = LiveRules
  /\ covered' = {}
  /\ UNCHANGED <<rows, rules, events, tx, spent, refused>>

\* A scan that ends partial, failed, cancelled or incremental, or whose coverage
\* is not complete, reconciles nothing.
EndUnreconciled ==
  /\ running
  /\ ~ScanLocked
  /\ running' = FALSE
  /\ UNCHANGED <<rows, rules, events, scanNo, fetched, content, handed, covered, tx, spent,
                 refused>>

----------------------------------------------------------------------------
(* Ingest *)

\* prefilter: what a leased suppression covers is not reported at all.
Reported(part) == {f \in part : Suppressing(handed, f) = {}}

\* ingest_findings under the scan lock: the batch's rows and the live rules are
\* read once.  A batch may repeat findings an earlier batch of the scan had.
IngestBegin(p, part) ==
  /\ running /\ fetched
  /\ part \subseteq content
  /\ ~ScanLocked
  /\ Begin(p, [op |-> "ingest", on |-> Reported(part), rule |-> NoRule, patch |-> KeepAll,
               read |-> rows, live |-> LiveRules])
  /\ covered' = covered \cup (part \ Reported(part))
  /\ UNCHANGED <<rows, rules, events, scanVars, refused>>

\* suppress keeps the first suppressed_at and moves suppressed_by_id; release
\* clears both.
Covered(r, m) == [r EXCEPT !.hidden = m # NoRule, !.by = m]

\* ownership.route: only a finding nobody owns and nobody pinned.
Routed(r, f) ==
  IF r.pinned \/ r.owner # NoGroup THEN r ELSE [r EXCEPT !.owner = RouteOf[f]]

\* A sighting refutes "resolved" and no other state.
Sighted(r) ==
  IF r.state = "resolved"
  THEN [r EXCEPT !.last = scanNo, !.state = "open", !.resolution = "none"]
  ELSE [r EXCEPT !.last = scanNo]

\* _refresh and _create differ only in where the row comes from: NoFinding is what
\* _create starts from.
Ingested(r, f, m) == Covered(Routed(Sighted(r), f), m)

Reopens(t) == {f \in t.on : Stored(t.read, f) /\ t.read[f].state = "resolved"}
ReopenEvents(t) ==
  {[kind |-> "reopened", finding |-> f, scan |-> scanNo] : f \in Reopens(t)}

Matchings(t) ==
  {match \in [t.on -> Rule \cup {NoRule}] : \A f \in t.on : match[f] \in FirstMatches(t.live, f)}

\* The foreign key: a row may not come to name a suppression that is gone.
Dangling(t, match) ==
  \E f \in t.on : match[f] # NoRule /\ match[f] # t.read[f].by /\ rules[match[f]] = "deleted"

\* What the database refuses of a submission: a second reopen of a finding by
\* this scan ("event"), or a dangling reference ("rule").
Refusals(t, match) ==
  {c \in {"event", "rule"} : IF c = "event" THEN ReopenEvents(t) \cap events # {}
                                            ELSE Dangling(t, match)}

IngestCommit(p) ==
  LET t == tx[p] IN
  /\ t.op = "ingest"
  /\ \E match \in Matchings(t) :
       /\ Refusals(t, match) = {}
       /\ rows' = [f \in Finding |->
                     IF f \in t.on
                     THEN Flush(rows[f], t.read[f], Ingested(t.read[f], f, match[f]))
                     ELSE rows[f]]
  /\ events' = events \cup ReopenEvents(t)
  /\ covered' = covered \cup t.on
  /\ End(p)
  /\ UNCHANGED <<rules, scanVars, spent, refused>>

\* An IntegrityError nobody catches: the submission answers 500, nothing of it
\* is stored, and the engine may send it again.
IngestRefused(p) ==
  LET t == tx[p] IN
  /\ t.op = "ingest"
  /\ \E match \in Matchings(t) :
       /\ Refusals(t, match) # {}
       /\ refused' = refused \cup Refusals(t, match)
  /\ End(p)
  /\ UNCHANGED <<rows, rules, events, scanVars, covered, spent>>

----------------------------------------------------------------------------
(* Reconciliation of a completed full scan with complete coverage: its fetch *)
(* work, if there was any, read all the content.                             *)

Missing ==
  {f \in Finding : /\ Stored(rows, f)
                   /\ rows[f].state = "open"
                   /\ rows[f].last # scanNo
                   /\ ~rows[f].hidden}

\* No fetch task, no evidence: then nothing is resolved.
ReconcileBegin(p) ==
  /\ running
  /\ fetched => covered = content
  /\ ~ScanLocked
  /\ Begin(p, [op |-> "reconcile", on |-> IF fetched THEN Missing ELSE {},
               rule |-> NoRule, patch |-> KeepAll, read |-> rows, live |-> {}])
  /\ UNCHANGED <<rows, rules, events, scanVars, covered, refused>>

\* Faulty variant: the UPDATE does not repeat the condition.
StillSelected(t) == t.on

\* One conditional UPDATE per finding: a row that moved is skipped, event
\* included.
StillOpen(t) == {f \in t.on : rows[f].state = "open"}

ReconcileCommit(p) ==
  LET done == StillOpen(tx[p]) IN
  /\ tx[p].op = "reconcile"
  /\ rows' = [f \in Finding |->
                IF f \in done
                THEN [rows[f] EXCEPT !.state = "resolved", !.resolution = "auto"]
                ELSE rows[f]]
  /\ events' = events \cup
       {[kind |-> "state_change", finding |-> f, scan |-> scanNo] : f \in done}
  /\ running' = FALSE
  /\ End(p)
  /\ UNCHANGED <<rules, scanNo, fetched, content, handed, covered, spent, refused>>

----------------------------------------------------------------------------
(* Triage *)

LegalTransitions ==
  [s \in FindingState |->
     IF s = "open" THEN FindingState \ {"open"} ELSE {"open"}]

\* A state equal to the current one is nothing to do.
MovesTo(r, c) == IF c.state = r.state THEN "keep" ELSE c.state

Transitioned(r, to) ==
  IF to = "keep" THEN r
  ELSE [r EXCEPT !.state = to, !.resolution = IF to = "resolved" THEN "manual" ELSE "none"]

\* Any supplied owner pins, the current one included.
Owned(r, g) == IF g = "keep" THEN r ELSE [r EXCEPT !.owner = g, !.pinned = TRUE]

\* update_finding: an illegal move is refused before anything is written.
TriageBegin(p, f, c) ==
  /\ Stored(rows, f)
  /\ c # KeepAll
  /\ MovesTo(rows[f], c) \in LegalTransitions[rows[f].state] \cup {"keep"}
  /\ Begin(p, [op |-> "triage", on |-> {f}, rule |-> NoRule, patch |-> c,
               read |-> rows, live |-> {}])
  /\ UNCHANGED <<rows, rules, events, scanVars, covered, refused>>

Triaged(r, c) == Owned(Transitioned(r, MovesTo(r, c)), c.owner)

TriageCommit(p) ==
  LET t == tx[p] IN
  /\ t.op = "triage"
  /\ rows' = [f \in Finding |->
                IF f \in t.on THEN Flush(rows[f], t.read[f], Triaged(t.read[f], t.patch))
                ELSE rows[f]]
  /\ End(p)
  /\ UNCHANGED <<rules, events, scanVars, covered, spent, refused>>

----------------------------------------------------------------------------
(* Suppressions *)

\* create_suppression: the new rule is applied to the findings it covers that
\* are not hidden, and a glob only to open ones.
CreateBegin(p, r) ==
  /\ rules[r] = "unborn"
  /\ \A q \in Replica : tx[q].rule # r
  /\ Begin(p, [op |-> "create",
               on |-> {f \in Covers[r] : /\ Stored(rows, f) /\ ~rows[f].hidden
                                         /\ r \in Glob => rows[f].state = "open"},
               rule |-> r, patch |-> KeepAll, read |-> rows, live |-> {}])
  /\ UNCHANGED <<rows, rules, events, scanVars, covered, refused>>

CreateCommit(p) ==
  LET t == tx[p] IN
  /\ t.op = "create"
  /\ rules' = [rules EXCEPT ![t.rule] = "live"]
  /\ rows' = [f \in Finding |->
                IF f \in t.on THEN Flush(rows[f], t.read[f], Covered(t.read[f], t.rule))
                ELSE rows[f]]
  /\ End(p)
  /\ UNCHANGED <<events, scanVars, covered, spent, refused>>

\* expires_at passes.
Expire(r) ==
  /\ rules[r] = "live"
  /\ rules' = [rules EXCEPT ![r] = "expired"]
  /\ UNCHANGED <<rows, events, scanVars, covered, tx, spent, refused>>

\* delete_suppression: what the rule hides is handed to another live match, or
\* released.
DeleteBegin(p, r) ==
  /\ rules[r] \in {"live", "expired"}
  /\ Begin(p, [op |-> "delete", on |-> {f \in Finding : rows[f].by = r},
               rule |-> r, patch |-> KeepAll, read |-> rows, live |-> LiveRules \ {r}])
  /\ UNCHANGED <<rows, rules, events, scanVars, covered, refused>>

\* ON DELETE SET NULL: a row that came to name the rule after it was read keeps
\* its suppressed_at and loses the reference.
Orphaned(r, rule) == IF r.by = rule THEN [r EXCEPT !.by = NoRule] ELSE r

DeleteCommit(p) ==
  LET t == tx[p] IN
  /\ t.op = "delete"
  /\ rules[t.rule] # "deleted"
  /\ rules' = [rules EXCEPT ![t.rule] = "deleted"]
  /\ \E match \in Matchings(t) :
       /\ ~Dangling(t, match)
       /\ rows' = [f \in Finding |->
                  Orphaned(IF f \in t.on
                           THEN Flush(rows[f], t.read[f], Covered(t.read[f], match[f]))
                           ELSE rows[f],
                           t.rule)]
  /\ End(p)
  /\ UNCHANGED <<events, scanVars, covered, spent, refused>>

\* release_lapsed on the maintenance beat: hidden findings whose rule expired or
\* is gone are handed over or released.
Lapsed(r) == r.hidden /\ r.by \notin LiveRules

\* Faulty variant: the sweep joins findings to their suppressions.
LapseBeginJoined(p) ==
  LET found == {f \in Finding : Lapsed(rows[f]) /\ rows[f].by # NoRule} IN
  /\ tx[p].op = "idle"
  /\ found # {}
  /\ tx' = [tx EXCEPT ![p] = [op |-> "lapse", on |-> found, rule |-> NoRule,
                              patch |-> KeepAll, read |-> rows, live |-> LiveRules]]
  /\ UNCHANGED <<rows, rules, events, scanVars, covered, spent, refused>>

LapseBegin(p) ==
  /\ tx[p].op = "idle"
  /\ \E f \in Finding : Lapsed(rows[f])
  /\ tx' = [tx EXCEPT ![p] = [op |-> "lapse", on |-> {f \in Finding : Lapsed(rows[f])},
                              rule |-> NoRule, patch |-> KeepAll, read |-> rows,
                              live |-> LiveRules]]
  /\ UNCHANGED <<rows, rules, events, scanVars, covered, spent, refused>>

LapseCommit(p) ==
  LET t == tx[p] IN
  /\ t.op = "lapse"
  /\ \E match \in Matchings(t) :
       /\ ~Dangling(t, match)
       /\ rows' = [f \in Finding |->
                     IF f \in t.on
                     THEN Flush(rows[f], t.read[f], Covered(t.read[f], match[f]))
                     ELSE rows[f]]
  /\ End(p)
  /\ UNCHANGED <<rules, events, scanVars, covered, spent, refused>>

\* A delete that another replica overtook, or a hand-over to a rule deleted
\* meanwhile: the transaction is lost, and the next beat sweeps again.
SuppressionTxLost(p) ==
  LET t == tx[p] IN
  /\ t.op \in {"delete", "lapse"}
  /\ \/ t.op = "delete" /\ rules[t.rule] = "deleted"
     \/ \E match \in Matchings(t) : Dangling(t, match)
  /\ End(p)
  /\ UNCHANGED <<rows, rules, events, scanVars, covered, spent, refused>>

----------------------------------------------------------------------------
Commit(p) ==
  \/ IngestCommit(p)
  \/ IngestRefused(p)
  \/ ReconcileCommit(p)
  \/ TriageCommit(p)
  \/ CreateCommit(p)
  \/ DeleteCommit(p)
  \/ LapseCommit(p)
  \/ SuppressionTxLost(p)

FindingsNext ==
  \/ StartScan
  \/ EndUnreconciled
  \/ \E r \in Rule : Expire(r)
  \/ \E p \in Replica :
       \/ \E part \in SUBSET Finding \ {{}} : IngestBegin(p, part)
       \/ ReconcileBegin(p)
       \/ \E f \in Finding, c \in Patch : TriageBegin(p, f, c)
       \/ \E r \in Rule : CreateBegin(p, r) \/ DeleteBegin(p, r)
       \/ LapseBegin(p)
       \/ Commit(p)

\* A replica that began a transaction ends it, and the beat keeps sweeping.
FindingsFairness ==
  \A p \in Replica : WF_fvars(Commit(p)) /\ WF_fvars(LapseBegin(p))

FindingsSpec == FindingsInit /\ [][FindingsNext]_fvars /\ FindingsFairness

----------------------------------------------------------------------------
FindingsTypeOK ==
  /\ rows \in [Finding -> Row]
  /\ rules \in [Rule -> {"unborn", "live", "expired", "deleted"}]
  /\ events \subseteq SystemEvent
  /\ scanNo \in 0..MaxScan
  /\ content \subseteq Finding /\ covered \subseteq Finding /\ handed \subseteq Rule
  /\ running \in BOOLEAN /\ fetched \in BOOLEAN /\ refused \subseteq {"event", "rule"}
  /\ tx \in [Replica -> Tx]
  /\ spent \in 0..MaxTx

\* "Not seen by scan s" is true of every finding it was written on: no sighting
\* of scan s comes before or after the event, though batches, triage and the
\* suppression routes commit around reconcile_scan's select and its updates.
AutoResolvedUnseen ==
  \A e \in events : e.kind = "state_change" => rows[e.finding].last # e.scan

\* A scan does not overrule a person.  Reconciliation leaves a judged finding as
\* it stands when its UPDATE runs; ingest leaves the judgement and the pinned
\* owner it loaded, so only a decision made inside its own transaction can be lost.
ScansRespectDecisions ==
  [][\A p \in Replica, f \in Finding :
       LET t == tx[p] IN
       tx'[p].op = "idle" =>
         /\ t.op = "reconcile" /\ rows[f].state \in Judgement => rows'[f] = rows[f]
         /\ t.op = "ingest" /\ t.read[f].state \in Judgement => rows'[f].state = rows[f].state
         /\ t.op = "ingest" /\ t.read[f].pinned => rows'[f].owner = rows[f].owner]_fvars

\* Expiry is a property of the clock: a finding hidden by no live rule is not
\* hidden for ever, whatever deletes, expiries and submissions raced
\* (release_lapsed).
HiddenIsExplained == \A f \in Finding : Lapsed(rows[f]) ~> ~Lapsed(rows[f])

\* What reconcile.py argues its exclusion of suppressed findings buys: a finding
\* the engine pre-filtered is not resolved on the scan's silence about it.
ResolvedIsGone ==
  \A e \in events : e.kind = "state_change" /\ e.scan = scanNo => e.finding \notin content

=============================================================================
