--------------------------- MODULE FindingsProofs ---------------------------
(* Proofs about Findings and, below, Remediation: for every set of findings,    *)
(* rules, groups and replicas, and any number of scans and transactions.         *)
EXTENDS Findings, Remediation, TLAPS

USE FindingsAssumption

Scanning(p) == tx[p].op \in {"ingest", "reconcile"}

\* The scan row's lock: one transaction of the scan at a time, and only while it runs.
OneScanner == \A p, q \in Replica : Scanning(p) /\ Scanning(q) => p = q
ScannerRuns == \A p \in Replica : Scanning(p) => running
RunningNumbered == running => scanNo > 0

\* A scan writes its "not seen" events as it ends, so none of a running scan exists.
EventsPast ==
  \A e \in events : e.kind = "state_change" => e.scan <= scanNo /\ (running => e.scan # scanNo)

\* What reconciliation selected stays unseen until its updates: no batch of the scan
\* gets in between, and nobody else writes last_seen.
SelectedUnseen ==
  \A p \in Replica : tx[p].op = "reconcile" => \A f \in tx[p].on : rows[f].last # scanNo

Scans == OneScanner /\ ScannerRuns /\ RunningNumbered /\ EventsPast /\ SelectedUnseen

FindingsInv == FindingsTypeOK /\ Scans /\ AutoResolvedUnseen

----------------------------------------------------------------------------
(* The operators on a row. *)

LEMMA BlankType == NoFinding \in Row /\ Blank \in [Finding -> Row] /\ NoTx(Blank) \in Tx
<1>1. NoFinding \in Row
  BY DEF NoFinding, Row, FindingState
<1>2. Blank \in [Finding -> Row]
  BY <1>1 DEF Blank
<1>3. KeepAll \in Patch
  BY DEF KeepAll, Patch
<1>4. NoTx(Blank) \in Tx
  BY <1>2, <1>3 DEF NoTx, Tx, Op
<1>5. QED
  BY <1>1, <1>2, <1>4

LEMMA FlushType ==
  ASSUME NEW cur \in Row, NEW read \in Row, NEW new \in Row
  PROVE  /\ Flush(cur, read, new) \in Row
         /\ new.last = read.last => Flush(cur, read, new).last = cur.last
         /\ Flush(cur, read, new).last \in {new.last, cur.last}
         /\ new.state = read.state => Flush(cur, read, new).state = cur.state
         /\ new.owner = read.owner => Flush(cur, read, new).owner = cur.owner
BY DEF Flush, Row

LEMMA CoveredType ==
  ASSUME NEW r \in Row, NEW m \in Rule \cup {NoRule}
  PROVE  /\ Covered(r, m) \in Row
         /\ Covered(r, m).last = r.last /\ Covered(r, m).state = r.state
         /\ Covered(r, m).owner = r.owner
BY DEF Covered, Row

LEMMA OrphanedType ==
  ASSUME NEW r \in Row, NEW rule
  PROVE  Orphaned(r, rule) \in Row /\ Orphaned(r, rule).last = r.last
BY DEF Orphaned, Row

LEMMA TriagedType ==
  ASSUME NEW r \in Row, NEW c \in Patch
  PROVE  Triaged(r, c) \in Row /\ Triaged(r, c).last = r.last
<1>1. MovesTo(r, c) \in FindingState \cup {"keep"}
  BY DEF MovesTo, Patch
<1>2. \A to \in FindingState \cup {"keep"} :
        Transitioned(r, to) \in Row /\ Transitioned(r, to).last = r.last
  BY DEF Transitioned, Row, FindingResolution
<1>3. ASSUME NEW s \in Row, NEW g \in Group \cup {NoGroup, "keep"}
      PROVE  Owned(s, g) \in Row /\ Owned(s, g).last = s.last
  BY DEF Owned, Row
<1>4. c.owner \in Group \cup {NoGroup, "keep"}
  BY DEF Patch
<1>5. QED
  BY <1>1, <1>2, <1>3, <1>4 DEF Triaged

LEMMA IngestedType ==
  ASSUME FindingsTypeOK, NEW r \in Row, NEW f \in Finding, NEW m \in Rule \cup {NoRule}
  PROVE  /\ Ingested(r, f, m) \in Row
         /\ Ingested(r, f, m).last = scanNo
         /\ r.state \in Judgement => Ingested(r, f, m).state = r.state
         /\ r.pinned => Ingested(r, f, m).owner = r.owner
<1>1. /\ Sighted(r) \in Row /\ Sighted(r).last = scanNo
      /\ r.state \in Judgement => Sighted(r).state = r.state
      /\ Sighted(r).owner = r.owner /\ Sighted(r).pinned = r.pinned
  BY DEF Sighted, Row, FindingState, Judgement, FindingsTypeOK
<1> DEFINE s == Sighted(r)
<1> HIDE DEF s
<1>2. s \in Row => /\ Routed(s, f) \in Row
                   /\ Routed(s, f).last = s.last /\ Routed(s, f).state = s.state
                   /\ s.pinned => Routed(s, f).owner = s.owner
  BY DEF Routed, Row
<1> DEFINE t == Routed(s, f)
<1>3. s \in Row => t \in Row /\ t.last = s.last /\ t.state = s.state
                   /\ (s.pinned => t.owner = s.owner)
  BY <1>2
<1> HIDE DEF t
<1>4. t \in Row => /\ Covered(t, m) \in Row
                   /\ Covered(t, m).last = t.last /\ Covered(t, m).state = t.state
                   /\ Covered(t, m).owner = t.owner
  BY CoveredType
<1>5. Ingested(r, f, m) = Covered(t, m)
  BY DEF Ingested, s, t
<1>6. s = Sighted(r)
  BY DEF s
<1>7. QED
  BY <1>1, <1>3, <1>4, <1>5, <1>6

----------------------------------------------------------------------------
(* What a transaction of no scan does to the scan's bookkeeping: nothing. *)

LEMMA BesideScan ==
  ASSUME FindingsInv, NEW p \in Replica, NEW t \in Tx,
         tx' = [tx EXCEPT ![p] = t], t.op \notin {"ingest", "reconcile"},
         UNCHANGED <<events, scanNo, running>>,
         \A f \in Finding : rows'[f].last = rows[f].last
  PROVE  Scans' /\ AutoResolvedUnseen'
<1>1. /\ tx \in [Replica -> Tx] /\ events \subseteq SystemEvent
      /\ \A q \in Replica : tx[q].on \subseteq Finding
  BY DEF FindingsInv, FindingsTypeOK, Tx
<1>2. \A q \in Replica : /\ tx'[q] = IF q = p THEN t ELSE tx[q]
                         /\ tx'[q].op \in {"ingest", "reconcile"} => tx'[q] = tx[q]
  BY <1>1
<1>3. OneScanner' /\ ScannerRuns' /\ RunningNumbered'
  BY <1>2 DEF FindingsInv, Scans, OneScanner, ScannerRuns, RunningNumbered, Scanning
<1>4. EventsPast'
  BY DEF FindingsInv, Scans, EventsPast
<1>5. SelectedUnseen'
  BY <1>1, <1>2 DEF FindingsInv, Scans, SelectedUnseen
<1>6. AutoResolvedUnseen'
  BY <1>1 DEF FindingsInv, AutoResolvedUnseen, SystemEvent
<1>7. QED
  BY <1>3, <1>4, <1>5, <1>6 DEF Scans

\* A scan's transaction takes the lock that nobody holds.
LEMMA ScanTxBegins ==
  ASSUME FindingsInv, NEW p \in Replica, NEW t \in Tx,
         tx' = [tx EXCEPT ![p] = t], ~ScanLocked, running,
         t.op = "reconcile" => \A f \in t.on : rows[f].last # scanNo,
         UNCHANGED <<rows, events, scanNo, running>>
  PROVE  Scans' /\ AutoResolvedUnseen'
<1>1. tx \in [Replica -> Tx]
  BY DEF FindingsInv, FindingsTypeOK
<1>2. \A q \in Replica : /\ tx'[q] = IF q = p THEN t ELSE tx[q]
                         /\ tx[q].op \notin {"ingest", "reconcile"}
  BY <1>1 DEF ScanLocked
<1>3. OneScanner' /\ ScannerRuns' /\ RunningNumbered'
  BY <1>2 DEF FindingsInv, Scans, OneScanner, ScannerRuns, RunningNumbered, Scanning
<1>4. EventsPast' /\ AutoResolvedUnseen'
  BY DEF FindingsInv, Scans, EventsPast, AutoResolvedUnseen
<1>5. SelectedUnseen'
  BY <1>2 DEF SelectedUnseen
<1>6. QED
  BY <1>3, <1>4, <1>5 DEF Scans

LEMMA BeginType ==
  ASSUME FindingsTypeOK, NEW p \in Replica, NEW t \in Tx, Begin(p, t)
  PROVE  tx' \in [Replica -> Tx] /\ spent' \in 0..MaxTx
BY DEF FindingsTypeOK, Begin

LEMMA EndType ==
  ASSUME FindingsTypeOK, NEW p \in Replica, End(p)
  PROVE  /\ tx' \in [Replica -> Tx]
         /\ tx' = [tx EXCEPT ![p] = NoTx(Blank)]
         /\ NoTx(Blank) \in Tx /\ NoTx(Blank).op = "idle"
<1>1. NoTx(Blank) \in Tx
  BY BlankType
<1>2. tx' = [tx EXCEPT ![p] = NoTx(Blank)]
  BY DEF End
<1>3. NoTx(Blank).op = "idle"
  BY DEF NoTx
<1>4. QED
  BY <1>1, <1>2, <1>3 DEF FindingsTypeOK

----------------------------------------------------------------------------
(* Scans *)

LEMMA StartScanStep == FindingsInv /\ StartScan => FindingsInv'
<1> SUFFICES ASSUME FindingsInv, StartScan PROVE FindingsInv'
  OBVIOUS
<1>1. FindingsTypeOK'
  BY DEF FindingsInv, FindingsTypeOK, StartScan, LiveRules
<1>2. \A p \in Replica : ~Scanning(p)
  BY DEF FindingsInv, Scans, ScannerRuns, StartScan
<1>3. Scans'
  <2>1. OneScanner' /\ ScannerRuns' /\ RunningNumbered' /\ SelectedUnseen'
    BY <1>2 DEF OneScanner, ScannerRuns, RunningNumbered, SelectedUnseen, Scanning, StartScan,
       FindingsInv, FindingsTypeOK
  <2>2. EventsPast'
    BY DEF EventsPast, FindingsInv, FindingsTypeOK, SystemEvent, Scans, StartScan
  <2>3. QED
    BY <2>1, <2>2 DEF Scans
<1>4. AutoResolvedUnseen'
  BY DEF FindingsInv, AutoResolvedUnseen, StartScan
<1>5. QED
  BY <1>1, <1>3, <1>4 DEF FindingsInv

LEMMA EndUnreconciledStep == FindingsInv /\ EndUnreconciled => FindingsInv'
<1> SUFFICES ASSUME FindingsInv, EndUnreconciled PROVE FindingsInv'
  OBVIOUS
<1>1. FindingsTypeOK'
  BY DEF FindingsInv, FindingsTypeOK, EndUnreconciled
<1>2. \A p \in Replica : ~Scanning(p)
  BY DEF EndUnreconciled, ScanLocked, Scanning
<1>3. Scans'
  BY <1>2 DEF Scans, OneScanner, ScannerRuns, RunningNumbered, SelectedUnseen, Scanning,
     EventsPast, EndUnreconciled, FindingsInv
<1>4. AutoResolvedUnseen'
  BY DEF FindingsInv, AutoResolvedUnseen, EndUnreconciled
<1>5. QED
  BY <1>1, <1>3, <1>4 DEF FindingsInv

----------------------------------------------------------------------------
(* Transactions begin: each loads the rows as they are. *)

LEMMA LoadType ==
  ASSUME FindingsTypeOK, NEW op \in Op, NEW on \in SUBSET Finding,
         NEW rule \in Rule \cup {NoRule}, NEW c \in Patch, NEW live \in SUBSET Rule
  PROVE  [op |-> op, on |-> on, rule |-> rule, patch |-> c, read |-> rows, live |-> live] \in Tx
BY DEF FindingsTypeOK, Tx

LEMMA IngestBeginStep ==
  ASSUME FindingsInv, NEW p \in Replica, NEW part \in SUBSET Finding, IngestBegin(p, part)
  PROVE  FindingsInv'
<1> DEFINE t == [op |-> "ingest", on |-> Reported(part), rule |-> NoRule, patch |-> KeepAll,
                 read |-> rows, live |-> LiveRules]
<1>1. t \in Tx /\ t.op = "ingest"
  BY LoadType DEF FindingsInv, Op, Reported, LiveRules, KeepAll, Patch
<1>2. Begin(p, t) /\ running /\ ~ScanLocked /\ UNCHANGED <<rows, rules, events, scanVars, refused>>
  BY DEF IngestBegin
<1>3. covered' \subseteq Finding
  BY DEF IngestBegin, FindingsInv, FindingsTypeOK
<1> HIDE DEF t
<1>4. FindingsTypeOK'
  BY <1>1, <1>2, <1>3, BeginType DEF FindingsInv, FindingsTypeOK, scanVars
<1>5. Scans' /\ AutoResolvedUnseen'
  BY <1>1, <1>2, ScanTxBegins DEF Begin, scanVars
<1>6. QED
  BY <1>4, <1>5 DEF FindingsInv

LEMMA ReconcileBeginStep ==
  ASSUME FindingsInv, NEW p \in Replica, ReconcileBegin(p)
  PROVE  FindingsInv'
<1> DEFINE found == IF fetched THEN Missing ELSE {}
           t == [op |-> "reconcile", on |-> found, rule |-> NoRule, patch |-> KeepAll,
                 read |-> rows, live |-> {}]
<1>1. found \in SUBSET Finding /\ \A f \in found : rows[f].last # scanNo
  BY DEF Missing
<1>2. Begin(p, t) /\ running /\ ~ScanLocked
      /\ UNCHANGED <<rows, rules, events, scanVars, covered, refused>>
  BY DEF ReconcileBegin
<1> HIDE DEF found
<1>3. t \in Tx /\ t.op = "reconcile" /\ t.on = found
  BY <1>1, LoadType DEF FindingsInv, Op, KeepAll, Patch
<1> HIDE DEF t
<1>4. FindingsTypeOK'
  BY <1>2, <1>3, BeginType DEF FindingsInv, FindingsTypeOK, scanVars
<1>5. Scans' /\ AutoResolvedUnseen'
  BY <1>1, <1>2, <1>3, ScanTxBegins DEF Begin, scanVars
<1>6. QED
  BY <1>4, <1>5 DEF FindingsInv

\* Triage, the suppression routes and the sweep lock nothing the scan uses.
LEMMA OtherBegins ==
  ASSUME FindingsInv, NEW p \in Replica, NEW op \in {"triage", "create", "delete", "lapse"},
         NEW on \in SUBSET Finding, NEW rule \in Rule \cup {NoRule}, NEW c \in Patch,
         NEW live \in SUBSET Rule,
         tx' = [tx EXCEPT ![p] = [op |-> op, on |-> on, rule |-> rule, patch |-> c,
                                  read |-> rows, live |-> live]],
         spent' \in 0..MaxTx,
         UNCHANGED <<rows, rules, events, scanVars, covered, refused>>
  PROVE  FindingsInv'
<1> DEFINE t == [op |-> op, on |-> on, rule |-> rule, patch |-> c, read |-> rows, live |-> live]
<1>1. t \in Tx /\ t.op = op
  BY LoadType DEF FindingsInv, Op
<1>2. tx' = [tx EXCEPT ![p] = t]
  OBVIOUS
<1> HIDE DEF t
<1>3. FindingsTypeOK'
  BY <1>1, <1>2 DEF FindingsInv, FindingsTypeOK, scanVars
<1>4. Scans' /\ AutoResolvedUnseen'
  BY <1>1, <1>2, BesideScan DEF scanVars
<1>5. QED
  BY <1>3, <1>4 DEF FindingsInv

LEMMA OtherBeginSteps ==
  ASSUME FindingsInv, NEW p \in Replica,
         \/ \E f \in Finding, c \in Patch : TriageBegin(p, f, c)
         \/ \E r \in Rule : CreateBegin(p, r) \/ DeleteBegin(p, r)
         \/ LapseBegin(p)
  PROVE  FindingsInv'
<1> USE DEF Begin
<1>0. /\ KeepAll \in Patch /\ spent + 1 \in Nat /\ (spent < MaxTx => spent + 1 \in 0..MaxTx)
      /\ spent \in 0..MaxTx /\ LiveRules \in SUBSET Rule /\ {} \in SUBSET Rule
      /\ \A r \in Rule : Covers[r] \subseteq Finding
  BY DEF KeepAll, Patch, FindingsInv, FindingsTypeOK, LiveRules
<1>1. CASE \E f \in Finding, c \in Patch : TriageBegin(p, f, c)
  <2>1. PICK f \in Finding, c \in Patch : TriageBegin(p, f, c)
    BY <1>1
  <2>2. {f} \in SUBSET Finding
    OBVIOUS
  <2>3. /\ tx' = [tx EXCEPT ![p] = [op |-> "triage", on |-> {f}, rule |-> NoRule, patch |-> c,
                                    read |-> rows, live |-> {}]]
        /\ spent < MaxTx /\ spent' = spent + 1
        /\ UNCHANGED <<rows, rules, events, scanVars, covered, refused>>
    BY <2>1 DEF TriageBegin
  <2>4. QED
    BY <1>0, <2>2, <2>3, OtherBegins
<1>2. CASE \E r \in Rule : CreateBegin(p, r)
  <2>1. PICK r \in Rule : CreateBegin(p, r)
    BY <1>2
  <2> DEFINE on == {f \in Covers[r] : /\ Stored(rows, f) /\ ~rows[f].hidden
                                      /\ r \in Glob => rows[f].state = "open"}
  <2>2. on \in SUBSET Finding
    BY <1>0
  <2>3. /\ tx' = [tx EXCEPT ![p] = [op |-> "create", on |-> on, rule |-> r, patch |-> KeepAll,
                                    read |-> rows, live |-> {}]]
        /\ spent < MaxTx /\ spent' = spent + 1
        /\ UNCHANGED <<rows, rules, events, scanVars, covered, refused>>
    BY <2>1 DEF CreateBegin
  <2> HIDE DEF on
  <2>4. QED
    BY <1>0, <2>2, <2>3, OtherBegins
<1>3. CASE \E r \in Rule : DeleteBegin(p, r)
  <2>1. PICK r \in Rule : DeleteBegin(p, r)
    BY <1>3
  <2> DEFINE on == {f \in Finding : rows[f].by = r}
             live == LiveRules \ {r}
  <2>2. on \in SUBSET Finding /\ live \in SUBSET Rule
    BY <1>0
  <2>3. /\ tx' = [tx EXCEPT ![p] = [op |-> "delete", on |-> on, rule |-> r, patch |-> KeepAll,
                                    read |-> rows, live |-> live]]
        /\ spent < MaxTx /\ spent' = spent + 1
        /\ UNCHANGED <<rows, rules, events, scanVars, covered, refused>>
    BY <2>1 DEF DeleteBegin
  <2> HIDE DEF on, live
  <2>4. QED
    BY <1>0, <2>2, <2>3, OtherBegins
<1>4. CASE LapseBegin(p)
  <2> DEFINE on == {f \in Finding : Lapsed(rows[f])}
  <2>1. on \in SUBSET Finding
    OBVIOUS
  <2>2. /\ tx' = [tx EXCEPT ![p] = [op |-> "lapse", on |-> on, rule |-> NoRule,
                                    patch |-> KeepAll, read |-> rows, live |-> LiveRules]]
        /\ UNCHANGED <<rows, rules, events, scanVars, covered, spent, refused>>
    BY <1>4 DEF LapseBegin
  <2> HIDE DEF on
  <2>3. QED
    BY <1>0, <2>1, <2>2, OtherBegins
<1>5. QED
  BY <1>1, <1>2, <1>3, <1>4

----------------------------------------------------------------------------
(* Transactions commit. *)

LEMMA MatchType ==
  ASSUME FindingsTypeOK, NEW p \in Replica, NEW match \in Matchings(tx[p]), NEW f \in tx[p].on
  PROVE  match[f] \in Rule \cup {NoRule} /\ f \in Finding /\ tx[p].read[f] \in Row
<1>1. tx[p] \in Tx
  BY DEF FindingsTypeOK
<1>2. tx[p].on \subseteq Finding /\ tx[p].read \in [Finding -> Row]
  BY <1>1 DEF Tx
<1>3. match \in [tx[p].on -> Rule \cup {NoRule}]
  BY DEF Matchings
<1>4. QED
  BY <1>2, <1>3

\* Commits that write no last_seen and no event.
LEMMA OtherCommits ==
  ASSUME FindingsInv, NEW p \in Replica, End(p),
         DOMAIN rows' = Finding, rows' = [f \in Finding |-> rows'[f]],
         \A f \in Finding : rows'[f] \in Row /\ rows'[f].last = rows[f].last,
         rules' \in [Rule -> {"unborn", "live", "expired", "deleted"}],
         UNCHANGED <<events, scanVars, covered, spent, refused>>
  PROVE  FindingsInv'
<1>1. /\ tx' \in [Replica -> Tx]
      /\ tx' = [tx EXCEPT ![p] = NoTx(Blank)]
      /\ NoTx(Blank) \in Tx /\ NoTx(Blank).op = "idle"
  BY EndType DEF FindingsInv
<1>2. rows' \in [Finding -> Row]
  OBVIOUS
<1>3. FindingsTypeOK'
  BY <1>1, <1>2 DEF FindingsInv, FindingsTypeOK, scanVars
<1>4. Scans' /\ AutoResolvedUnseen'
  BY <1>1, BesideScan DEF scanVars
<1>5. QED
  BY <1>3, <1>4 DEF FindingsInv

LEMMA TriageCommitStep ==
  ASSUME FindingsInv, NEW p \in Replica, TriageCommit(p)
  PROVE  FindingsInv'
<1> DEFINE t == tx[p]
<1>1. /\ t.on \subseteq Finding /\ t.read \in [Finding -> Row] /\ t.patch \in Patch
      /\ rows \in [Finding -> Row]
  BY DEF FindingsInv, FindingsTypeOK, Tx
<1>2. /\ rows' = [f \in Finding |->
                   IF f \in t.on THEN Flush(rows[f], t.read[f], Triaged(t.read[f], t.patch))
                   ELSE rows[f]]
      /\ End(p) /\ UNCHANGED <<rules, events, scanVars, covered, spent, refused>>
  BY DEF TriageCommit
<1> HIDE DEF t
<1>3. ASSUME NEW f \in Finding
      PROVE  rows'[f] \in Row /\ rows'[f].last = rows[f].last
  <2>1. /\ t.read[f] \in Row /\ rows[f] \in Row
        /\ Triaged(t.read[f], t.patch) \in Row /\ Triaged(t.read[f], t.patch).last = t.read[f].last
    BY <1>1, TriagedType
  <2>2. /\ Flush(rows[f], t.read[f], Triaged(t.read[f], t.patch)) \in Row
        /\ Flush(rows[f], t.read[f], Triaged(t.read[f], t.patch)).last = rows[f].last
    BY <2>1, FlushType
  <2>3. rows'[f] = IF f \in t.on THEN Flush(rows[f], t.read[f], Triaged(t.read[f], t.patch))
                   ELSE rows[f]
    BY <1>2
  <2>4. QED
    BY <2>1, <2>2, <2>3
<1>4. rules' \in [Rule -> {"unborn", "live", "expired", "deleted"}]
  BY <1>2 DEF FindingsInv, FindingsTypeOK
<1>5. DOMAIN rows' = Finding /\ rows' = [f \in Finding |-> rows'[f]]
  BY <1>2
<1>6. QED
  BY <1>2, <1>3, <1>4, <1>5, OtherCommits

LEMMA FlushCovered ==
  ASSUME NEW cur \in Row, NEW read \in Row, NEW m \in Rule \cup {NoRule}
  PROVE  /\ Flush(cur, read, Covered(read, m)) \in Row
         /\ Flush(cur, read, Covered(read, m)).last = cur.last
BY FlushType, CoveredType

LEMMA CreateCommitStep ==
  ASSUME FindingsInv, NEW p \in Replica, CreateCommit(p)
  PROVE  FindingsInv'
<1> DEFINE t == tx[p]
<1>1. /\ t.on \subseteq Finding /\ t.read \in [Finding -> Row] /\ t.rule \in Rule \cup {NoRule}
      /\ rows \in [Finding -> Row]
  BY DEF FindingsInv, FindingsTypeOK, Tx
<1>2. /\ rows' = [f \in Finding |->
                   IF f \in t.on THEN Flush(rows[f], t.read[f], Covered(t.read[f], t.rule))
                   ELSE rows[f]]
      /\ rules' = [rules EXCEPT ![t.rule] = "live"]
      /\ End(p) /\ UNCHANGED <<events, scanVars, covered, spent, refused>>
  BY DEF CreateCommit
<1> HIDE DEF t
<1>3. ASSUME NEW f \in Finding
      PROVE  rows'[f] \in Row /\ rows'[f].last = rows[f].last
  <2>1. t.read[f] \in Row /\ rows[f] \in Row
    BY <1>1
  <2>2. /\ Flush(rows[f], t.read[f], Covered(t.read[f], t.rule)) \in Row
        /\ Flush(rows[f], t.read[f], Covered(t.read[f], t.rule)).last = rows[f].last
    BY <1>1, <2>1, FlushCovered
  <2>3. rows'[f] = IF f \in t.on THEN Flush(rows[f], t.read[f], Covered(t.read[f], t.rule))
                   ELSE rows[f]
    BY <1>2
  <2>4. QED
    BY <2>1, <2>2, <2>3
<1>4. rules' \in [Rule -> {"unborn", "live", "expired", "deleted"}]
  BY <1>2 DEF FindingsInv, FindingsTypeOK
<1>5. DOMAIN rows' = Finding /\ rows' = [f \in Finding |-> rows'[f]]
  BY <1>2
<1>6. QED
  BY <1>2, <1>3, <1>4, <1>5, OtherCommits

LEMMA DeleteCommitStep ==
  ASSUME FindingsInv, NEW p \in Replica, DeleteCommit(p)
  PROVE  FindingsInv'
<1> DEFINE t == tx[p]
           flushed(match, f) == IF f \in t.on
                                THEN Flush(rows[f], t.read[f], Covered(t.read[f], match[f]))
                                ELSE rows[f]
<1>1. rows \in [Finding -> Row]
  BY DEF FindingsInv, FindingsTypeOK
<1>2. /\ rules' = [rules EXCEPT ![t.rule] = "deleted"]
      /\ End(p) /\ UNCHANGED <<events, scanVars, covered, spent, refused>>
  BY DEF DeleteCommit
<1>3. PICK match \in Matchings(t) :
        rows' = [f \in Finding |-> Orphaned(flushed(match, f), t.rule)]
  BY DEF DeleteCommit
<1>4. ASSUME NEW f \in Finding
      PROVE  rows'[f] \in Row /\ rows'[f].last = rows[f].last
  <2>1. flushed(match, f) \in Row /\ flushed(match, f).last = rows[f].last
    <3>1. CASE f \in t.on
      <4>1. t.read[f] \in Row /\ match[f] \in Rule \cup {NoRule}
        BY <3>1, MatchType DEF FindingsInv
      <4>2. QED
        BY <1>1, <3>1, <4>1, FlushCovered
    <3>2. CASE f \notin t.on
      BY <1>1, <3>2
    <3>3. QED
      BY <3>1, <3>2
  <2>2. rows'[f] = Orphaned(flushed(match, f), t.rule)
    BY <1>3
  <2> HIDE DEF flushed, t
  <2>3. QED
    BY <2>1, <2>2, OrphanedType
<1>5. rules' \in [Rule -> {"unborn", "live", "expired", "deleted"}]
  BY <1>2 DEF FindingsInv, FindingsTypeOK
<1>6. DOMAIN rows' = Finding /\ rows' = [f \in Finding |-> rows'[f]]
  BY <1>3
<1>7. QED
  BY <1>2, <1>4, <1>5, <1>6, OtherCommits

LEMMA LapseCommitStep ==
  ASSUME FindingsInv, NEW p \in Replica, LapseCommit(p)
  PROVE  FindingsInv'
<1> DEFINE t == tx[p]
           flushed(match, f) == IF f \in t.on
                                THEN Flush(rows[f], t.read[f], Covered(t.read[f], match[f]))
                                ELSE rows[f]
<1>1. rows \in [Finding -> Row]
  BY DEF FindingsInv, FindingsTypeOK
<1>2. End(p) /\ UNCHANGED <<rules, events, scanVars, covered, spent, refused>>
  BY DEF LapseCommit
<1>3. PICK match \in Matchings(t) : rows' = [f \in Finding |-> flushed(match, f)]
  BY DEF LapseCommit
<1>4. ASSUME NEW f \in Finding
      PROVE  rows'[f] \in Row /\ rows'[f].last = rows[f].last
  <2>1. flushed(match, f) \in Row /\ flushed(match, f).last = rows[f].last
    <3>1. CASE f \in t.on
      <4>1. t.read[f] \in Row /\ match[f] \in Rule \cup {NoRule}
        BY <3>1, MatchType DEF FindingsInv
      <4>2. QED
        BY <1>1, <3>1, <4>1, FlushCovered
    <3>2. CASE f \notin t.on
      BY <1>1, <3>2
    <3>3. QED
      BY <3>1, <3>2
  <2>2. rows'[f] = flushed(match, f)
    BY <1>3
  <2> HIDE DEF flushed, t
  <2>3. QED
    BY <2>1, <2>2
<1>5. rules' \in [Rule -> {"unborn", "live", "expired", "deleted"}]
  BY <1>2 DEF FindingsInv, FindingsTypeOK
<1>6. DOMAIN rows' = Finding /\ rows' = [f \in Finding |-> rows'[f]]
  BY <1>3
<1>7. QED
  BY <1>2, <1>4, <1>5, <1>6, OtherCommits

\* A transaction that is lost, and expiry, move no row.
LEMMA NothingStored ==
  ASSUME FindingsInv, NEW p \in Replica, SuppressionTxLost(p)
  PROVE  FindingsInv'
<1>1. /\ End(p) /\ UNCHANGED <<rows, rules, events, scanVars, covered, spent, refused>>
  BY DEF SuppressionTxLost
<1>2. /\ rows \in [Finding -> Row]
      /\ rules \in [Rule -> {"unborn", "live", "expired", "deleted"}]
  BY DEF FindingsInv, FindingsTypeOK
<1>3. QED
  BY <1>1, <1>2, OtherCommits

\* The scan's transaction was the only one of its kind, and nobody holds the lock after it.
LEMMA LockReleased ==
  ASSUME FindingsInv, NEW p \in Replica, Scanning(p), End(p)
  PROVE  running /\ \A q \in Replica : tx'[q].op \notin {"ingest", "reconcile"}
<1>1. /\ tx' = [tx EXCEPT ![p] = NoTx(Blank)] /\ NoTx(Blank).op = "idle"
      /\ tx \in [Replica -> Tx]
  BY EndType DEF FindingsInv, FindingsTypeOK
<1>2. \A q \in Replica : tx'[q] = IF q = p THEN NoTx(Blank) ELSE tx[q]
  BY <1>1
<1>3. \A q \in Replica : Scanning(q) => q = p
  BY DEF FindingsInv, Scans, OneScanner
<1>4. QED
  BY <1>1, <1>2, <1>3 DEF Scanning, FindingsInv, Scans, ScannerRuns

LEMMA IngestRefusedStep ==
  ASSUME FindingsInv, NEW p \in Replica, IngestRefused(p)
  PROVE  FindingsInv'
<1>1. End(p) /\ Scanning(p) /\ UNCHANGED <<rows, rules, events, scanVars, covered, spent>>
  BY DEF IngestRefused, Scanning
<1>2. refused' \subseteq {"event", "rule"}
  BY DEF IngestRefused, Refusals, FindingsInv, FindingsTypeOK
<1>3. \A q \in Replica : tx'[q].op \notin {"ingest", "reconcile"}
  BY <1>1, LockReleased
<1>4. FindingsTypeOK'
  BY <1>1, <1>2, EndType DEF FindingsInv, FindingsTypeOK, scanVars
<1>5. Scans' /\ AutoResolvedUnseen'
  BY <1>1, <1>3 DEF FindingsInv, Scans, OneScanner, ScannerRuns, RunningNumbered, EventsPast,
     SelectedUnseen, Scanning, AutoResolvedUnseen, scanVars
<1>6. QED
  BY <1>4, <1>5 DEF FindingsInv

\* What one batch stores of a finding.
LEMMA IngestStores ==
  ASSUME FindingsInv, NEW p \in Replica, IngestCommit(p), NEW f \in Finding
  PROVE  /\ rows'[f] \in Row
         /\ rows'[f].last \in {scanNo, rows[f].last}
         /\ tx[p].read[f].state \in Judgement => rows'[f].state = rows[f].state
         /\ tx[p].read[f].pinned => rows'[f].owner = rows[f].owner
<1> DEFINE t == tx[p]
<1>1. /\ rows[f] \in Row /\ t.read[f] \in Row
  BY DEF FindingsInv, FindingsTypeOK, Tx
<1>2. PICK match \in Matchings(t) :
        rows' = [g \in Finding |->
                   IF g \in t.on
                   THEN Flush(rows[g], t.read[g], Ingested(t.read[g], g, match[g]))
                   ELSE rows[g]]
  BY DEF IngestCommit
<1>3. CASE f \in t.on
  <2> DEFINE new == Ingested(t.read[f], f, match[f])
  <2>1. match[f] \in Rule \cup {NoRule}
    BY <1>3, MatchType DEF FindingsInv
  <2>2. /\ new \in Row /\ new.last = scanNo
        /\ t.read[f].state \in Judgement => new.state = t.read[f].state
        /\ t.read[f].pinned => new.owner = t.read[f].owner
    BY <1>1, <2>1, IngestedType DEF FindingsInv
  <2>3. rows'[f] = Flush(rows[f], t.read[f], new)
    BY <1>2, <1>3
  <2> HIDE DEF new, t
  <2>4. /\ Flush(rows[f], t.read[f], new) \in Row
        /\ Flush(rows[f], t.read[f], new).last \in {new.last, rows[f].last}
        /\ new.state = t.read[f].state => Flush(rows[f], t.read[f], new).state = rows[f].state
        /\ new.owner = t.read[f].owner => Flush(rows[f], t.read[f], new).owner = rows[f].owner
    BY <1>1, <2>2, FlushType
  <2>5. QED
    BY <2>2, <2>3, <2>4 DEF t
<1>4. CASE f \notin t.on
  BY <1>1, <1>2, <1>4
<1>5. QED
  BY <1>3, <1>4

LEMMA IngestCommitStep ==
  ASSUME FindingsInv, NEW p \in Replica, IngestCommit(p)
  PROVE  FindingsInv'
<1>1. /\ End(p) /\ Scanning(p) /\ UNCHANGED <<rules, scanVars, spent, refused>>
      /\ events' = events \cup ReopenEvents(tx[p]) /\ covered' = covered \cup tx[p].on
      /\ rows' = [f \in Finding |-> rows'[f]]
  BY DEF IngestCommit, Scanning
<1>2. /\ running /\ scanNo > 0 /\ scanNo \in 0..MaxScan
      /\ \A q \in Replica : tx'[q].op \notin {"ingest", "reconcile"}
  BY <1>1, LockReleased DEF FindingsInv, Scans, RunningNumbered, FindingsTypeOK
<1>3. tx[p].on \subseteq Finding
  BY DEF FindingsInv, FindingsTypeOK, Tx
<1>4. \A e \in ReopenEvents(tx[p]) : e \in SystemEvent /\ e.kind = "reopened"
  BY <1>2, <1>3 DEF ReopenEvents, Reopens, SystemEvent
<1>5. FindingsTypeOK'
  <2>1. rows' \in [Finding -> Row]
    BY <1>1, IngestStores
  <2>2. events' \subseteq SystemEvent /\ covered' \subseteq Finding
    BY <1>1, <1>3, <1>4 DEF FindingsInv, FindingsTypeOK
  <2>3. QED
    BY <1>1, <2>1, <2>2, EndType DEF FindingsInv, FindingsTypeOK, scanVars
<1>6. \A e \in events' : e.kind = "state_change" =>
        e \in events /\ e.scan <= scanNo /\ e.scan # scanNo /\ e.finding \in Finding
  BY <1>1, <1>2, <1>4 DEF FindingsInv, Scans, EventsPast, FindingsTypeOK, SystemEvent
<1>7. Scans'
  BY <1>1, <1>2, <1>6 DEF Scans, OneScanner, ScannerRuns, RunningNumbered, EventsPast,
     SelectedUnseen, Scanning, scanVars
<1>8. AutoResolvedUnseen'
  BY <1>6, IngestStores DEF AutoResolvedUnseen, FindingsInv
<1>9. QED
  BY <1>5, <1>7, <1>8 DEF FindingsInv

LEMMA ReconcileCommitStep ==
  ASSUME FindingsInv, NEW p \in Replica, ReconcileCommit(p)
  PROVE  FindingsInv'
<1> DEFINE done == StillOpen(tx[p])
           told == {[kind |-> "state_change", finding |-> f, scan |-> scanNo] : f \in done}
<1>1. /\ tx[p].op = "reconcile" /\ running' = FALSE /\ End(p)
      /\ events' = events \cup told
      /\ rows' = [f \in Finding |->
                    IF f \in done
                    THEN [rows[f] EXCEPT !.state = "resolved", !.resolution = "auto"]
                    ELSE rows[f]]
      /\ UNCHANGED <<rules, scanNo, fetched, content, handed, covered, spent, refused>>
  BY DEF ReconcileCommit
<1>2. /\ running /\ scanNo > 0 /\ scanNo \in 0..MaxScan
      /\ \A q \in Replica : tx'[q].op \notin {"ingest", "reconcile"}
  BY <1>1, LockReleased DEF Scanning, FindingsInv, Scans, RunningNumbered, FindingsTypeOK
<1>3. /\ done \subseteq Finding
      /\ \A f \in done : rows[f].last # scanNo
  BY <1>1 DEF StillOpen, FindingsInv, FindingsTypeOK, Tx, Scans, SelectedUnseen
<1> HIDE DEF done
<1>4. \A e \in told : e \in SystemEvent /\ e.scan = scanNo /\ rows[e.finding].last # scanNo
  BY <1>2, <1>3 DEF SystemEvent
<1> HIDE DEF told
<1>5. ASSUME NEW f \in Finding
      PROVE  rows'[f] \in Row /\ rows'[f].last = rows[f].last
  <2>1. rows[f] \in Row
    BY DEF FindingsInv, FindingsTypeOK
  <2>2. rows'[f] = IF f \in done
                   THEN [rows[f] EXCEPT !.state = "resolved", !.resolution = "auto"]
                   ELSE rows[f]
    BY <1>1
  <2>3. QED
    BY <2>1, <2>2, ZenonT(40) DEF Row, FindingState, FindingResolution
<1>6. FindingsTypeOK'
  <2>1. rows' \in [Finding -> Row]
    BY <1>1, <1>5
  <2>2. events' \subseteq SystemEvent
    BY <1>1, <1>4 DEF FindingsInv, FindingsTypeOK
  <2>3. QED
    BY <1>1, <2>1, <2>2, EndType DEF FindingsInv, FindingsTypeOK
<1>7. Scans'
  <2>1. \A e \in events : e.kind = "state_change" => e.scan <= scanNo
    BY DEF FindingsInv, Scans, EventsPast
  <2>2. \A e \in told : e.scan <= scanNo
    BY <1>2, <1>4
  <2>3. EventsPast'
    BY <1>1, <2>1, <2>2 DEF EventsPast
  <2>4. QED
    BY <1>1, <1>2, <2>3 DEF Scans, OneScanner, ScannerRuns, RunningNumbered, SelectedUnseen,
       Scanning
<1>8. AutoResolvedUnseen'
  <2>1. \A e \in events : e.finding \in Finding
    BY DEF FindingsInv, FindingsTypeOK, SystemEvent
  <2>2. \A e \in told : e.finding \in Finding
    BY <1>4 DEF SystemEvent
  <2>3. QED
    BY <1>1, <1>4, <1>5, <2>1, <2>2 DEF AutoResolvedUnseen, FindingsInv
<1>9. QED
  BY <1>6, <1>7, <1>8 DEF FindingsInv

----------------------------------------------------------------------------
LEMMA ExpireStep ==
  ASSUME FindingsInv, NEW r \in Rule, Expire(r)
  PROVE  FindingsInv'
BY DEF FindingsInv, FindingsTypeOK, Expire, Scans, OneScanner, ScannerRuns, RunningNumbered,
   EventsPast, SelectedUnseen, Scanning, AutoResolvedUnseen, scanVars

LEMMA FindingsStart == FindingsInit => FindingsInv
<1> SUFFICES ASSUME FindingsInit PROVE FindingsInv
  OBVIOUS
<1>1. FindingsTypeOK
  <2>1. /\ running \in BOOLEAN /\ fetched \in BOOLEAN /\ events \subseteq SystemEvent
        /\ content \subseteq Finding /\ covered \subseteq Finding /\ handed \subseteq Rule
        /\ refused \subseteq {"event", "rule"}
    BY Zenon DEF FindingsInit
  <2>2. rows \in [Finding -> Row] /\ tx \in [Replica -> Tx]
    BY BlankType DEF FindingsInit
  <2>3. /\ rules \in [Rule -> {"unborn", "live", "expired", "deleted"}]
        /\ scanNo \in 0..MaxScan /\ spent \in 0..MaxTx
    BY DEF FindingsInit
  <2>4. QED
    BY <2>1, <2>2, <2>3, Zenon DEF FindingsTypeOK
<1>2. \A p \in Replica : tx[p].op = "idle"
  BY DEF FindingsInit, NoTx
<1>3. Scans /\ AutoResolvedUnseen
  BY <1>2 DEF FindingsInit, Scans, OneScanner, ScannerRuns, RunningNumbered, EventsPast,
     SelectedUnseen, Scanning, AutoResolvedUnseen
<1>4. QED
  BY <1>1, <1>3 DEF FindingsInv

LEMMA CommitStep ==
  ASSUME FindingsInv, NEW p \in Replica, Commit(p)
  PROVE  FindingsInv'
BY IngestCommitStep, IngestRefusedStep, ReconcileCommitStep, TriageCommitStep, CreateCommitStep,
   DeleteCommitStep, LapseCommitStep, NothingStored DEF Commit

LEMMA FindingsStep == FindingsInv /\ [FindingsNext]_fvars => FindingsInv'
<1> SUFFICES ASSUME FindingsInv, [FindingsNext]_fvars PROVE FindingsInv'
  OBVIOUS
<1>1. CASE UNCHANGED fvars
  BY <1>1 DEF fvars, scanVars, FindingsInv, FindingsTypeOK, Scans, OneScanner, ScannerRuns,
     RunningNumbered, EventsPast, SelectedUnseen, Scanning, AutoResolvedUnseen
<1>2. CASE StartScan \/ EndUnreconciled \/ \E r \in Rule : Expire(r)
  BY <1>2, StartScanStep, EndUnreconciledStep, ExpireStep
<1>3. CASE \E p \in Replica :
             \/ \E part \in SUBSET Finding \ {{}} : IngestBegin(p, part)
             \/ ReconcileBegin(p)
             \/ \E f \in Finding, c \in Patch : TriageBegin(p, f, c)
             \/ \E r \in Rule : CreateBegin(p, r) \/ DeleteBegin(p, r)
             \/ LapseBegin(p)
             \/ Commit(p)
  BY <1>3, IngestBeginStep, ReconcileBeginStep, OtherBeginSteps, CommitStep
<1>4. QED
  BY <1>1, <1>2, <1>3 DEF FindingsNext

LEMMA FindingsHold == FindingsSpec => []FindingsInv
BY FindingsStart, FindingsStep, PTL DEF FindingsSpec

\* Rows, rules, events and open transactions keep their types, whatever interleaves.
THEOREM FindingsTyped == FindingsSpec => []FindingsTypeOK
<1>1. FindingsInv => FindingsTypeOK
  BY DEF FindingsInv
<1>2. QED
  BY <1>1, FindingsHold, PTL

\* reconcile_scan's "not seen by this scan" is true of every finding it is written on,
\* before and after, though other transactions commit between its select and its updates.
THEOREM ResolvedUnseen == FindingsSpec => []AutoResolvedUnseen
<1>1. FindingsInv => AutoResolvedUnseen
  BY DEF FindingsInv
<1>2. QED
  BY <1>1, FindingsHold, PTL

----------------------------------------------------------------------------
(* What a scan may do to a decision. *)

Respects(p, f) ==
  LET t == tx[p] IN
  tx'[p].op = "idle" =>
    /\ t.op = "reconcile" /\ rows[f].state \in Judgement => rows'[f] = rows[f]
    /\ t.op = "ingest" /\ t.read[f].state \in Judgement => rows'[f].state = rows[f].state
    /\ t.op = "ingest" /\ t.read[f].pinned => rows'[f].owner = rows[f].owner

LEMMA OthersRespect ==
  ASSUME FindingsInv, NEW p \in Replica, NEW f \in Finding, rows'[f] = rows[f]
  PROVE  Respects(p, f)
BY DEF Respects

\* Another replica's transaction leaves a scan's transaction open.
LEMMA StillBusy ==
  ASSUME FindingsInv, NEW p \in Replica, NEW q \in Replica, NEW f \in Finding,
         \E t : tx' = [tx EXCEPT ![q] = t], p # q \/ ~Scanning(p)
  PROVE  Respects(p, f)
<1>1. tx \in [Replica -> Tx]
  BY DEF FindingsInv, FindingsTypeOK
<1>2. tx'[p] = tx[p] \/ ~Scanning(p)
  BY <1>1
<1>3. QED
  BY <1>2 DEF Respects, Scanning

LEMMA CommitRespects ==
  ASSUME FindingsInv, NEW p \in Replica, NEW q \in Replica, NEW f \in Finding, Commit(q)
  PROVE  Respects(p, f)
<1>1. \E t : tx' = [tx EXCEPT ![q] = t]
  BY DEF Commit, IngestCommit, IngestRefused, ReconcileCommit, TriageCommit, CreateCommit,
     DeleteCommit, LapseCommit, SuppressionTxLost, End
<1>2. CASE p # q \/ ~Scanning(p)
  BY <1>1, <1>2, StillBusy
<1>3. CASE p = q /\ Scanning(p)
  <2>1. CASE IngestCommit(p)
    BY <2>1, IngestStores DEF Respects, IngestCommit
  <2>2. CASE IngestRefused(p)
    BY <2>2, OthersRespect DEF IngestRefused
  <2>3. CASE ReconcileCommit(p)
    <3>1. rows[f].state \in Judgement => f \notin StillOpen(tx[p])
      BY DEF StillOpen, Judgement
    <3>2. f \notin StillOpen(tx[p]) => rows'[f] = rows[f]
      BY <2>3 DEF ReconcileCommit
    <3>3. QED
      BY <2>3, <3>1, <3>2 DEF Respects, ReconcileCommit
  <2>4. QED
    BY <1>3, <2>1, <2>2, <2>3 DEF Commit, Scanning, TriageCommit, CreateCommit, DeleteCommit,
       LapseCommit, SuppressionTxLost
<1>4. QED
  BY <1>2, <1>3

LEMMA StepRespects ==
  ASSUME FindingsInv, FindingsNext, NEW p \in Replica, NEW f \in Finding
  PROVE  Respects(p, f)
<1>1. CASE \E q \in Replica : Commit(q)
  BY <1>1, CommitRespects
<1>2. CASE StartScan \/ EndUnreconciled \/ \E r \in Rule : Expire(r)
  BY <1>2, OthersRespect DEF StartScan, EndUnreconciled, Expire
<1>3. CASE \E q \in Replica :
             \/ \E part \in SUBSET Finding \ {{}} : IngestBegin(q, part)
             \/ ReconcileBegin(q)
             \/ \E g \in Finding, c \in Patch : TriageBegin(q, g, c)
             \/ \E r \in Rule : CreateBegin(q, r) \/ DeleteBegin(q, r)
             \/ LapseBegin(q)
  <2>1. rows' = rows
    BY <1>3 DEF IngestBegin, ReconcileBegin, TriageBegin, CreateBegin, DeleteBegin, LapseBegin
  <2>2. QED
    BY <2>1, OthersRespect
<1>4. QED
  BY <1>1, <1>2, <1>3 DEF FindingsNext

\* A scan does not overrule a person: no commit of reconcile_scan changes a judged finding,
\* and ingest_findings keeps the judgement and the pinned owner it loaded.
THEOREM DecisionsRespected == FindingsSpec => ScansRespectDecisions
<1>1. FindingsInv /\ [FindingsNext]_fvars => [\A p \in Replica, f \in Finding : Respects(p, f)]_fvars
  BY StepRespects
<1>2. QED
  BY <1>1, FindingsHold, PTL DEF FindingsSpec, ScansRespectDecisions, Respects

----------------------------------------------------------------------------
(* Remediation, the evidence a resolution rests on: for every number of actions,  *)
(* replicas, requests and reopens.                                                *)

USE RemediationAssumption

\* A transaction under way is a request that was counted.
Counted == \A w \in Worker : job[w] # "idle" => requests > 0

\* The scrub holds the finding's row from the moment it saw it resolved.
ScrubHolds == \A w \in Worker : job[w] = "scrub" => standing \in Resolved

\* Only a resolved finding ages, and none while a resolution is under way.
Young == /\ standing = "open" => ~aged
         /\ \A w \in Worker : job[w] = "resolve" => ~aged

Evidence(w) == \E a \in Action : /\ acts[a].recorded /\ acts[a].retracted = 0
                                 /\ acts[a].url /\ acts[a].at >= since[w]

\* The gate holds the actions from the moment it saw one that qualifies.
GateHolds == \A w \in Worker : job[w] = "resolve" => Evidence(w)

RemediationInv ==
  /\ RemediationTypeOK /\ Counted /\ ScrubHolds /\ Young /\ GateHolds /\ OneVerdictPerAction

LEMMA UnrecordedType == Unrecorded \in Record
BY DEF Unrecorded, Record

LEMMA InitHolds == RemediationInit => RemediationInv
<1> SUFFICES ASSUME RemediationInit PROVE RemediationInv
  OBVIOUS
<1>1. RemediationTypeOK
  <2>1. acts \in [Action -> Record]
    BY UnrecordedType DEF RemediationInit
  <2>2. job \in [Worker -> Job] /\ standing \in Standing
    BY DEF RemediationInit, Standing, Job
  <2>3. aged \in BOOLEAN /\ silenced \in BOOLEAN
    BY Zenon DEF RemediationInit
  <2>4. /\ reopens \in 0..MaxReopen /\ requests \in 0..MaxRequest
        /\ subject \in [Worker -> SUBSET Action] /\ since \in [Worker -> 0..MaxReopen]
    BY DEF RemediationInit
  <2>5. QED
    BY <2>1, <2>2, <2>3, <2>4, Zenon DEF RemediationTypeOK
<1>2. OneVerdictPerAction
  BY DEF RemediationInit, OneVerdictPerAction, Unrecorded
<1>3. Counted /\ ScrubHolds /\ Young /\ GateHolds
  BY DEF RemediationInit, Counted, ScrubHolds, Young, GateHolds
<1>4. QED
  BY <1>1, <1>2, <1>3 DEF RemediationInv

----------------------------------------------------------------------------
(* The operators on an action's row. *)

LEMMA RecordedType ==
  ASSUME NEW r \in Record, NEW n \in 0..MaxReopen, NEW u \in BOOLEAN
  PROVE  [r EXCEPT !.recorded = TRUE, !.at = n, !.url = u] \in Record
BY DEF Record

LEMMA VerifiedType ==
  ASSUME NEW r \in Record, r.verified = 0, MaxRequest > 0
  PROVE  /\ [r EXCEPT !.verified = @ + 1] \in Record
         /\ [r EXCEPT !.verified = @ + 1].verified = 1
         /\ [r EXCEPT !.verified = @ + 1].retracted = r.retracted
BY DEF Record

LEMMA RetractedType ==
  ASSUME NEW r \in Record, r.retracted = 0, MaxRequest > 0
  PROVE  /\ [r EXCEPT !.retracted = @ + 1] \in Record
         /\ [r EXCEPT !.retracted = @ + 1].retracted = 1
         /\ [r EXCEPT !.retracted = @ + 1].verified = r.verified
BY DEF Record

LEMMA ScrubbedType ==
  ASSUME NEW r \in Record
  PROVE  /\ [r EXCEPT !.url = FALSE, !.scrubbed = TRUE] \in Record
         /\ [r EXCEPT !.url = FALSE, !.scrubbed = TRUE].verified = r.verified
         /\ [r EXCEPT !.url = FALSE, !.scrubbed = TRUE].retracted = r.retracted
BY DEF Record

\* Nothing of the finding, its actions or the locks changes.
LEMMA NothingMoves ==
  ASSUME RemediationInv, UNCHANGED rvars
  PROVE  RemediationInv'
BY DEF rvars, RemediationInv, RemediationTypeOK, Counted, ScrubHolds, Young, GateHolds, Evidence,
   OneVerdictPerAction

----------------------------------------------------------------------------
(* Begin steps: a worker takes a job that is neither the gate's nor the scrub's. *)

LEMMA TakeOther ==
  ASSUME RemediationInv, NEW w \in Worker, NEW j \in {"verify", "retract", "purge"},
         NEW sub \in SUBSET Action, Take(w, j, sub),
         UNCHANGED <<standing, aged, silenced, reopens, acts, since>>
  PROVE  RemediationInv'
<1>1. RemediationTypeOK'
  BY DEF Take, RemediationInv, RemediationTypeOK, Job
<1>2. /\ \A v \in Worker : job'[v] = "resolve" => job[v] = "resolve"
      /\ \A v \in Worker : job'[v] = "scrub" => job[v] = "scrub"
      /\ requests' > 0
  BY DEF Take, RemediationInv, RemediationTypeOK
<1>3. Counted' /\ ScrubHolds' /\ Young' /\ OneVerdictPerAction'
  BY <1>2 DEF RemediationInv, Counted, ScrubHolds, Young, OneVerdictPerAction
<1>4. GateHolds'
  BY <1>2 DEF RemediationInv, GateHolds, Evidence
<1>5. QED
  BY <1>1, <1>3, <1>4 DEF RemediationInv

LEMMA ResolveCheckStep ==
  ASSUME RemediationInv, NEW w \in Worker, ResolveCheck(w)
  PROVE  RemediationInv'
<1>1. RemediationTypeOK'
  BY DEF ResolveCheck, Take, RemediationInv, RemediationTypeOK, Job
<1>2. /\ \A v \in Worker : job'[v] = "resolve" => v = w \/ job[v] = "resolve"
      /\ \A v \in Worker : job'[v] = "scrub" => job[v] = "scrub"
      /\ requests' > 0 /\ standing = "open"
      /\ UNCHANGED <<standing, aged, acts>>
  BY DEF ResolveCheck, Take, RemediationInv, RemediationTypeOK
<1>3. Counted' /\ ScrubHolds' /\ Young' /\ OneVerdictPerAction'
  BY <1>2 DEF RemediationInv, Counted, ScrubHolds, Young, OneVerdictPerAction
<1>4. /\ since'[w] = reopens
      /\ \A v \in Worker \ {w} : since'[v] = since[v]
  BY DEF ResolveCheck, RemediationInv, RemediationTypeOK
<1>5. PICK a \in Action : Qualifies(a)
  BY DEF ResolveCheck
<1>6. Evidence(w)'
  BY <1>2, <1>4, <1>5 DEF Qualifies, Evidence
<1>7. GateHolds'
  BY <1>2, <1>4, <1>6 DEF RemediationInv, GateHolds, Evidence
<1>8. QED
  BY <1>1, <1>3, <1>7 DEF RemediationInv

LEMMA ScrubLockStep ==
  ASSUME RemediationInv, NEW w \in Worker, ScrubLock(w)
  PROVE  RemediationInv'
<1>1. RemediationTypeOK'
  BY DEF ScrubLock, Take, RemediationInv, RemediationTypeOK, Job
<1>2. /\ \A v \in Worker : job'[v] = "resolve" => job[v] = "resolve"
      /\ \A v \in Worker : job'[v] = "scrub" => v = w \/ job[v] = "scrub"
      /\ requests' > 0 /\ standing \in Resolved
      /\ UNCHANGED <<standing, aged, acts, since>>
  BY DEF ScrubLock, Scrubbable, Take, RemediationInv, RemediationTypeOK
<1>3. Counted' /\ ScrubHolds' /\ Young' /\ OneVerdictPerAction'
  BY <1>2 DEF RemediationInv, Counted, ScrubHolds, Young, OneVerdictPerAction
<1>4. GateHolds'
  BY <1>2 DEF RemediationInv, GateHolds, Evidence
<1>5. QED
  BY <1>1, <1>3, <1>4 DEF RemediationInv

----------------------------------------------------------------------------
(* Commits. *)

LEMMA WorkCounted ==
  ASSUME RemediationInv, NEW w \in Worker, job[w] # "idle"
  PROVE  MaxRequest > 0
BY DEF RemediationInv, RemediationTypeOK, Counted

\* A transaction that ends frees its locks and takes none.
LEMMA DoneFrees ==
  ASSUME RemediationInv, NEW w \in Worker, Done(w)
  PROVE  /\ job' \in [Worker -> Job] /\ subject' \in [Worker -> SUBSET Action]
         /\ \A v \in Worker : job'[v] # "idle" => job'[v] = job[v]
BY DEF Done, RemediationInv, RemediationTypeOK, Job

\* A write of the actions that keeps their type and verdicts, made while the gate holds none.
LEMMA ActsCommit ==
  ASSUME RemediationInv, NEW w \in Worker, Done(w), ~ActionsLocked,
         UNCHANGED <<standing, aged, silenced, reopens, since, requests>>,
         acts' \in [Action -> Record],
         \A a \in Action : acts'[a].verified <= 1 /\ acts'[a].retracted <= 1
  PROVE  RemediationInv'
<1>1. RemediationTypeOK'
  BY DoneFrees DEF RemediationInv, RemediationTypeOK
<1>2. Counted' /\ ScrubHolds' /\ Young' /\ OneVerdictPerAction'
  BY DoneFrees DEF RemediationInv, Counted, ScrubHolds, Young, OneVerdictPerAction
<1>3. GateHolds'
  BY DoneFrees DEF GateHolds, ActionsLocked
<1>4. QED
  BY <1>1, <1>2, <1>3 DEF RemediationInv

LEMMA VerifyCommitStep ==
  ASSUME RemediationInv, NEW w \in Worker, VerifyCommit(w)
  PROVE  RemediationInv'
<1>1. MaxRequest > 0
  BY WorkCounted DEF VerifyCommit
<1>2. ASSUME NEW a \in Action
      PROVE  acts'[a] \in Record /\ acts'[a].verified <= 1 /\ acts'[a].retracted <= 1
  <2>1. acts[a] \in Record /\ acts[a].verified <= 1 /\ acts[a].retracted <= 1
    BY DEF RemediationInv, RemediationTypeOK, OneVerdictPerAction
  <2>2. CASE a \in subject[w] /\ Verifiable(a)
    <3>1. acts'[a] = [acts[a] EXCEPT !.verified = @ + 1] /\ acts[a].verified = 0
      BY <2>2 DEF VerifyCommit, Verifiable
    <3>2. QED
      BY <1>1, <2>1, <3>1, VerifiedType
  <2>3. CASE ~(a \in subject[w] /\ Verifiable(a))
    BY <2>1, <2>3 DEF VerifyCommit
  <2>4. QED
    BY <2>2, <2>3
<1>3. acts' \in [Action -> Record]
  BY <1>2 DEF VerifyCommit
<1>4. QED
  BY <1>2, <1>3, ActsCommit DEF VerifyCommit

LEMMA RetractCommitStep ==
  ASSUME RemediationInv, NEW w \in Worker, RetractCommit(w)
  PROVE  RemediationInv'
<1>1. MaxRequest > 0
  BY WorkCounted DEF RetractCommit
<1>2. ASSUME NEW a \in Action
      PROVE  acts'[a] \in Record /\ acts'[a].verified <= 1 /\ acts'[a].retracted <= 1
  <2>1. acts[a] \in Record /\ acts[a].verified <= 1 /\ acts[a].retracted <= 1
    BY DEF RemediationInv, RemediationTypeOK, OneVerdictPerAction
  <2>2. CASE a \in subject[w] /\ Retractable(a)
    <3>1. acts'[a] = [acts[a] EXCEPT !.retracted = @ + 1] /\ acts[a].retracted = 0
      BY <2>2 DEF RetractCommit, Retractable
    <3>2. QED
      BY <1>1, <2>1, <3>1, RetractedType
  <2>3. CASE ~(a \in subject[w] /\ Retractable(a))
    BY <2>1, <2>3 DEF RetractCommit
  <2>4. QED
    BY <2>2, <2>3
<1>3. acts' \in [Action -> Record]
  BY <1>2 DEF RetractCommit
<1>4. QED
  BY <1>2, <1>3, ActsCommit DEF RetractCommit

LEMMA ScrubCommitStep ==
  ASSUME RemediationInv, NEW w \in Worker, ScrubCommit(w)
  PROVE  RemediationInv'
<1>1. ASSUME NEW a \in Action
      PROVE  acts'[a] \in Record /\ acts'[a].verified <= 1 /\ acts'[a].retracted <= 1
  <2>1. acts[a] \in Record /\ acts[a].verified <= 1 /\ acts[a].retracted <= 1
    BY DEF RemediationInv, RemediationTypeOK, OneVerdictPerAction
  <2>2. CASE a \in subject[w] /\ ~acts[a].scrubbed
    <3>1. acts'[a] = [acts[a] EXCEPT !.url = FALSE, !.scrubbed = TRUE]
      BY <2>2 DEF ScrubCommit
    <3>2. QED
      BY <2>1, <3>1, ScrubbedType
  <2>3. CASE ~(a \in subject[w] /\ ~acts[a].scrubbed)
    BY <2>1, <2>3 DEF ScrubCommit
  <2>4. QED
    BY <2>2, <2>3
<1>2. acts' \in [Action -> Record]
  BY <1>1 DEF ScrubCommit
<1>3. QED
  BY <1>1, <1>2, ActsCommit DEF ScrubCommit

LEMMA ResolveCommitStep ==
  ASSUME RemediationInv, NEW w \in Worker, ResolveCommit(w)
  PROVE  RemediationInv'
<1>1. \A v \in Worker : job[v] # "scrub"
  BY DEF ResolveCommit, FindingLocked
<1>2. Done(w) /\ standing' \in Standing \ {"open"}
  BY DEF ResolveCommit, Standing
<1>3. RemediationTypeOK'
  BY <1>2, DoneFrees DEF ResolveCommit, RemediationInv, RemediationTypeOK
<1>4. Counted' /\ ScrubHolds' /\ Young' /\ OneVerdictPerAction'
  BY <1>1, <1>2, DoneFrees DEF ResolveCommit, RemediationInv, Counted, ScrubHolds, Young,
     OneVerdictPerAction
<1>5. GateHolds'
  BY <1>2, DoneFrees DEF ResolveCommit, RemediationInv, GateHolds, Evidence
<1>6. QED
  BY <1>3, <1>4, <1>5 DEF RemediationInv

\* What is purged was resolved by a scan and has aged: no resolution is under way.
LEMMA PurgeCommitStep ==
  ASSUME RemediationInv, NEW w \in Worker, PurgeCommit(w)
  PROVE  RemediationInv'
<1>1. \A v \in Worker : job[v] # "scrub"
  BY DEF PurgeCommit, FindingLocked
<1>2. Done(w)
  BY DEF PurgeCommit
<1>3. CASE Purgeable
  <2>1. /\ standing' = "gone" /\ acts' = [a \in Action |-> Unrecorded]
        /\ UNCHANGED <<aged, silenced, reopens, since, requests>>
    BY <1>3 DEF PurgeCommit
  <2>2. RemediationTypeOK'
    BY <1>2, <2>1, DoneFrees, UnrecordedType DEF RemediationInv, RemediationTypeOK, Standing
  <2>3. \A v \in Worker : job[v] # "resolve"
    BY <1>3 DEF Purgeable, RemediationInv, Young
  <2>4. OneVerdictPerAction'
    BY <2>1 DEF OneVerdictPerAction, Unrecorded
  <2>5. Counted' /\ ScrubHolds' /\ Young' /\ GateHolds'
    BY <1>1, <1>2, <2>1, <2>3, DoneFrees DEF RemediationInv, Counted, ScrubHolds, Young, GateHolds
  <2>6. QED
    BY <2>2, <2>4, <2>5 DEF RemediationInv
<1>4. CASE ~Purgeable
  <2>1. UNCHANGED <<standing, acts, aged, silenced, reopens, since, requests>>
    BY <1>4 DEF PurgeCommit
  <2>2. RemediationTypeOK'
    BY <1>2, <2>1, DoneFrees DEF RemediationInv, RemediationTypeOK
  <2>3. Counted' /\ ScrubHolds' /\ Young' /\ OneVerdictPerAction'
    BY <1>2, <2>1, DoneFrees DEF RemediationInv, Counted, ScrubHolds, Young, OneVerdictPerAction
  <2>4. GateHolds'
    BY <1>2, <2>1, DoneFrees DEF RemediationInv, GateHolds, Evidence
  <2>5. QED
    BY <2>2, <2>3, <2>4 DEF RemediationInv
<1>5. QED
  BY <1>3, <1>4

----------------------------------------------------------------------------
(* The steps of no transaction of their own. *)

LEMMA RecordActionStep ==
  ASSUME RemediationInv, NEW a \in Action, NEW u \in BOOLEAN, RecordAction(a, u)
  PROVE  RemediationInv'
<1>1. acts[a] \in Record /\ reopens \in 0..MaxReopen
  BY DEF RemediationInv, RemediationTypeOK
<1> DEFINE r == [acts[a] EXCEPT !.recorded = TRUE, !.at = reopens, !.url = u]
<1>2. r \in Record /\ r.verified = acts[a].verified /\ r.retracted = acts[a].retracted
  BY <1>1, RecordedType DEF Record
<1>3. /\ acts' = [acts EXCEPT ![a] = r] /\ ~acts[a].recorded
      /\ UNCHANGED <<standing, aged, silenced, reopens, job, subject, since, requests>>
  BY DEF RecordAction
<1> HIDE DEF r
<1>4. RemediationTypeOK'
  BY <1>2, <1>3 DEF RemediationInv, RemediationTypeOK
<1>5. Counted' /\ ScrubHolds' /\ Young' /\ OneVerdictPerAction'
  BY <1>2, <1>3 DEF RemediationInv, RemediationTypeOK, Counted, ScrubHolds, Young,
     OneVerdictPerAction
<1>6. GateHolds'
  BY <1>3 DEF RemediationInv, RemediationTypeOK, GateHolds, Evidence
<1>7. QED
  BY <1>4, <1>5, <1>6 DEF RemediationInv

LEMMA FindingSteps ==
  ASSUME RemediationInv, AutoResolve \/ Reopen \/ Silence \/ Age
  PROVE  RemediationInv'
<1>1. UNCHANGED <<acts, job, subject, since, requests>>
  BY DEF AutoResolve, Reopen, Silence, Age
<1>2. RemediationTypeOK'
  <2>1. aged' \in BOOLEAN /\ silenced' \in BOOLEAN
    BY Zenon DEF AutoResolve, Reopen, Silence, Age, RemediationInv, RemediationTypeOK
  <2>2. standing' \in Standing /\ reopens' \in 0..MaxReopen
    BY DEF AutoResolve, Reopen, Silence, Age, RemediationInv, RemediationTypeOK, Standing
  <2>3. QED
    BY <1>1, <2>1, <2>2, Zenon DEF RemediationInv, RemediationTypeOK
<1>3. Counted' /\ OneVerdictPerAction' /\ GateHolds'
  BY <1>1 DEF RemediationInv, Counted, OneVerdictPerAction, GateHolds, Evidence
<1>4. ScrubHolds'
  BY <1>1 DEF AutoResolve, Reopen, Silence, Age, FindingLocked, RemediationInv, ScrubHolds, Resolved
<1>5. Young'
  BY <1>1 DEF AutoResolve, Reopen, Silence, Age, RemediationInv, Young, Resolved
<1>6. QED
  BY <1>2, <1>3, <1>4, <1>5 DEF RemediationInv

LEMMA StepHolds == RemediationInv /\ [RemediationNext]_rvars => RemediationInv'
<1> SUFFICES ASSUME RemediationInv, [RemediationNext]_rvars PROVE RemediationInv'
  OBVIOUS
<1>1. ASSUME NEW w \in Worker, NEW a \in Action, VerifyBegin(w, a)
      PROVE  RemediationInv'
  BY <1>1, TakeOther, {a} \in SUBSET Action DEF VerifyBegin
<1>2. ASSUME NEW w \in Worker, NEW a \in Action, RetractBegin(w, a)
      PROVE  RemediationInv'
  BY <1>2, TakeOther, {a} \in SUBSET Action DEF RetractBegin
<1>3. ASSUME NEW w \in Worker, PurgeSelect(w)
      PROVE  RemediationInv'
  <2>1. Take(w, "purge", {}) /\ UNCHANGED <<standing, aged, silenced, reopens, acts, since>>
    BY <1>3 DEF PurgeSelect
  <2>2. {} \in SUBSET Action /\ "purge" \in {"verify", "retract", "purge"}
    OBVIOUS
  <2>3. QED
    BY <2>1, <2>2, TakeOther
<1>4. CASE \E w \in Worker :
             \/ \E a \in Action : VerifyBegin(w, a) \/ RetractBegin(w, a)
             \/ VerifyCommit(w) \/ RetractCommit(w)
             \/ ResolveCheck(w) \/ ResolveCommit(w)
             \/ PurgeSelect(w) \/ PurgeCommit(w)
             \/ ScrubLock(w) \/ ScrubCommit(w)
  BY <1>1, <1>2, <1>3, <1>4, ResolveCheckStep, ScrubLockStep, VerifyCommitStep,
     RetractCommitStep, ScrubCommitStep, ResolveCommitStep, PurgeCommitStep
<1>5. CASE \E a \in Action, u \in BOOLEAN : RecordAction(a, u)
  BY <1>5, RecordActionStep
<1>6. CASE AutoResolve \/ Reopen \/ Silence \/ Age
  BY <1>6, FindingSteps
<1>7. CASE UNCHANGED rvars
  BY <1>7, NothingMoves
<1>8. QED
  BY <1>4, <1>5, <1>6, <1>7 DEF RemediationNext

----------------------------------------------------------------------------
\* The finding, its actions and the requests have the shape declared.
THEOREM RemediationTypes == RemediationSpec => []RemediationTypeOK
<1>1. RemediationInv => RemediationTypeOK
  BY DEF RemediationInv
<1>2. QED
  BY InitHolds, StepHolds, <1>1, PTL DEF RemediationSpec

\* However many analysts press the button at once, an action is verified once and
\* retracted once: the UPDATE of verify and of retract repeats what the handler checked.
THEOREM OneVerdict == RemediationSpec => []OneVerdictPerAction
<1>1. RemediationInv => OneVerdictPerAction
  BY DEF RemediationInv
<1>2. QED
  BY InitHolds, StepHolds, <1>1, PTL DEF RemediationSpec

LEMMA EvidenceAtCommit ==
  ASSUME RemediationInv, [RemediationNext]_rvars, NEW w \in Worker,
         job[w] = "resolve", job'[w] = "idle", standing' = "manual"
  PROVE  Evidence(w)
BY DEF RemediationInv, GateHolds

\* A resolution by hand lands on evidence that stands: the gate's lock on the actions
\* keeps retractions and scrubs out until it commits, and nothing it could purge is old
\* enough (triage.apply, qualifying_action_exists).
THEOREM ResolutionOnEvidence == RemediationSpec => ResolvedOnEvidence
<1>1. RemediationInv /\ [RemediationNext]_rvars =>
        [\A w \in Worker :
           job[w] = "resolve" /\ job'[w] = "idle" /\ standing' = "manual" =>
             \E a \in Action : /\ acts[a].recorded /\ acts[a].retracted = 0
                               /\ acts[a].url /\ acts[a].at >= since[w]]_rvars
  BY EvidenceAtCommit DEF Evidence
<1>2. QED
  BY InitHolds, StepHolds, <1>1, PTL DEF RemediationSpec, ResolvedOnEvidence

LEMMA SparedAtStep ==
  ASSUME RemediationInv, RemediationNext
  PROVE  /\ standing' = "gone" /\ standing # "gone" => standing = "auto" /\ ~silenced
         /\ \A a \in Action : acts'[a].scrubbed /\ ~acts[a].scrubbed => standing \in Resolved
<1>1. CASE \E w \in Worker : ScrubCommit(w)
  BY <1>1 DEF ScrubCommit, RemediationInv, ScrubHolds
<1>2. CASE \E w \in Worker : PurgeCommit(w)
  BY <1>2 DEF PurgeCommit, Purgeable, Unrecorded, Resolved
<1>3. CASE \E w \in Worker : ResolveCommit(w)
  BY <1>3 DEF ResolveCommit
<1>4. ASSUME NEW w \in Worker, VerifyCommit(w) \/ RetractCommit(w)
      PROVE  standing' = standing /\ \A a \in Action : acts'[a].scrubbed = acts[a].scrubbed
  <2>1. \A a \in Action : acts[a] \in Record
    BY DEF RemediationInv, RemediationTypeOK
  <2>2. QED
    BY <1>4, <2>1 DEF VerifyCommit, RetractCommit, Record
<1>5. ASSUME NEW a \in Action, NEW u \in BOOLEAN, RecordAction(a, u)
      PROVE  standing' = standing /\ \A b \in Action : acts'[b].scrubbed = acts[b].scrubbed
  <2>1. \A b \in Action : acts[b] \in Record
    BY DEF RemediationInv, RemediationTypeOK
  <2>2. QED
    BY <1>5, <2>1 DEF RecordAction, Record, RemediationInv, RemediationTypeOK
<1>6. CASE AutoResolve \/ Reopen \/ Silence \/ Age
  BY <1>6 DEF AutoResolve, Reopen, Silence, Age
<1>7. ASSUME NEW w \in Worker,
             \/ \E a \in Action : VerifyBegin(w, a) \/ RetractBegin(w, a)
             \/ ResolveCheck(w) \/ PurgeSelect(w) \/ ScrubLock(w)
      PROVE  UNCHANGED <<standing, acts>>
  BY <1>7 DEF VerifyBegin, RetractBegin, ResolveCheck, PurgeSelect, ScrubLock
<1>8. QED
  BY <1>1, <1>2, <1>3, <1>4, <1>5, <1>6, <1>7 DEF RemediationNext

\* Retention deletes what is auto-resolved and not silenced at the delete, and scrubs
\* the links of resolved findings only: the scrub's lock on the finding keeps a reopen
\* out until it commits (retention.purge).
THEOREM RetentionSpares == RemediationSpec => RetentionSparesLive
<1>1. RemediationInv /\ [RemediationNext]_rvars =>
        [/\ standing' = "gone" /\ standing # "gone" => standing = "auto" /\ ~silenced
         /\ \A a \in Action : acts'[a].scrubbed /\ ~acts[a].scrubbed => standing \in Resolved]_rvars
  BY SparedAtStep
<1>2. QED
  BY InitHolds, StepHolds, <1>1, PTL DEF RemediationSpec, RetentionSparesLive
=============================================================================
