-------------------------- MODULE IncrementalProofs --------------------------
(* Proofs about Incremental: for every number of issues or pages, of edits,     *)
(* scans, deaths and reconfigurations, every ladder of bucket widths and every  *)
(* limit on windows and on the issues a position names.                         *)
EXTENDS Incremental, WellFoundedInduction, TLAPS

----------------------------------------------------------------------------
(* Least and greatest elements. *)

LEMMA LeastNat ==
  ASSUME NEW T, T \subseteq Nat, T # {}
  PROVE  \E x \in T : \A y \in T : x <= y
<1>1. PICK x \in T : \A y \in T : ~(<<y, x>> \in OpToRel(<, Nat))
  BY WFMin, NatLessThanWellFounded, Zenon
<1>2. \A y \in T : <<y, x>> \in Nat \X Nat
  OBVIOUS
<1>3. \A y \in T : ~(y < x)
  BY <1>1, <1>2 DEF OpToRel
<1>4. QED
  BY <1>3

LEMMA GreatestUpTo ==
  ASSUME NEW n \in Nat, NEW T, T \subseteq 0..n, T # {}
  PROVE  \E x \in T : \A y \in T : y <= x
<1> DEFINE U == {n - y : y \in T}
<1>1. U \subseteq Nat /\ U # {}
  <2>1. \A y \in T : n - y \in Nat
    OBVIOUS
  <2>2. PICK y \in T : TRUE
    OBVIOUS
  <2>3. n - y \in U
    OBVIOUS
  <2>4. QED
    BY <2>1, <2>3
<1>2. PICK u \in U : \A v \in U : u <= v
  BY <1>1, LeastNat
<1>3. PICK x \in T : u = n - x
  BY <1>2
<1>4. \A y \in T : n - x <= n - y
  BY <1>2, <1>3
<1>5. QED
  BY <1>3, <1>4

LEMMA MaxOf ==
  ASSUME NEW n \in Nat, NEW T, T \subseteq 0..n, T # {}
  PROVE  Max(T) \in T /\ \A y \in T : y <= Max(T)
<1>1. \E x \in T : \A y \in T : x >= y
  <2>1. PICK x \in T : \A y \in T : y <= x
    BY GreatestUpTo
  <2>2. \A y \in T : x >= y
    BY <2>1
  <2>3. QED
    BY <2>2
<1>2. Max(T) \in T /\ \A y \in T : Max(T) >= y
  BY <1>1 DEF Max
<1>3. QED
  BY <1>2

LEMMA MinOf ==
  ASSUME NEW T, T \subseteq Nat, T # {}
  PROVE  Min(T) \in T /\ \A y \in T : Min(T) <= y
<1>1. \E x \in T : \A y \in T : x =< y
  BY LeastNat
<1>2. QED
  BY <1>1 DEF Min

LEMMA MaxPair ==
  ASSUME NEW a \in Nat, NEW b \in Nat
  PROVE  Max({a, b}) \in {a, b} /\ a <= Max({a, b}) /\ b <= Max({a, b})
<1>1. \E x \in {a, b} : \A y \in {a, b} : x >= y
  <2>1. CASE a >= b
    BY <2>1
  <2>2. CASE b >= a
    BY <2>2
  <2>3. QED
    BY <2>1, <2>2
<1>2. Max({a, b}) \in {a, b} /\ \A y \in {a, b} : Max({a, b}) >= y
  BY <1>1 DEF Max
<1>3. QED
  BY <1>2

----------------------------------------------------------------------------
(* The inductive invariant. *)

SourceT == [type : {"none", "jira", "confluence"}, config : Nat]
ThingT == [created : Nat, updated : Nat, version : Nat]
CursorT == [live : BOOLEAN, at : Nat, config : Nat, minted : Nat]
ScanT == [phase : {"none", "probe", "windows", "fetch", "done"}, mode : {"full", "incremental"},
          config : Nat, at : Nat, bound : Nat, next : Nat, hole : BOOLEAN, offer : Nat, no : Nat]
SpecT == [field : {"created", "updated"}, from : Nat, to : Nat, bound : Nat]
PlaceT == [at : Nat, done : SUBSET Thing]
WalkT == [spec : SpecT, resume : PlaceT, mark : PlaceT, saved : PlaceT,
          given : SUBSET (Thing \X Nat), fresh : SUBSET (Thing \X Nat),
          newest : Nat, hole : BOOLEAN, on : BOOLEAN]

\* The shapes of the state, without the bounds of a run.
IncTypes ==
  /\ minute \in Nat \ {0} /\ source \in SourceT /\ thing \in [Thing -> ThingT]
  /\ cursor \in CursorT /\ launching \in Nat /\ sourceScan \in ScanT
  /\ specs \subseteq SpecT /\ walk \in WalkT /\ read \in [Thing -> Nat] /\ raced \subseteq Thing

Jira == source.type = "jira"
Confluence == source.type = "confluence"
Reported(i) == read[i] = thing[i].version
\* The scan is of the configuration the source has.
Matched == sourceScan.config = source.config

\* No later than some revision.
Reached(x) == x = 0 \/ \E j \in Thing : x <= thing[j].updated
Dated(s, i) == IF s.field = "updated" THEN thing[i].updated ELSE thing[i].created
Within(s, i) == s.from <= Dated(s, i) /\ Dated(s, i) < s.to
\* A position of the walk that has not passed i.
NotPast(m, i) == /\ m.at <= Dated(walk.spec, i)
                 /\ Dated(walk.spec, i) = m.at => i \notin m.done
GivenIds == {p[1] : p \in walk.given}

Clock ==
  /\ \A i \in Thing : /\ thing[i].created <= minute /\ thing[i].updated <= minute
                      /\ thing[i].created <= thing[i].updated
                      /\ read[i] <= thing[i].version
  /\ \A p \in walk.fresh : p[2] <= thing[p[1]].version

Configs ==
  /\ launching <= source.config /\ sourceScan.config <= source.config
  /\ cursor.config <= source.config
  /\ source.type = "none" => /\ ~cursor.live /\ cursor.at = 0 /\ sourceScan = NoScan
                             /\ launching = 0 /\ source.config = 0

Phases ==
  /\ walk.on \/ specs # {} => sourceScan.phase = "fetch"
  /\ ~Confluence => raced = {}
  /\ sourceScan.phase = "probe" =>
       /\ ~sourceScan.hole /\ sourceScan.next = 0 /\ sourceScan.bound = 0
       /\ sourceScan.offer = 0 /\ sourceScan.at = 0
  /\ sourceScan.phase = "windows" => ~sourceScan.hole /\ sourceScan.offer = 0 /\ Jira
  /\ sourceScan.phase = "probe" /\ sourceScan.mode = "incremental" /\ cursor.live =>
       cursor.config = sourceScan.config

\* What a Jira scan was told stays behind the clock, and every task proposes one bound.
JiraBounds ==
  Jira => /\ cursor.at <= minute /\ sourceScan.next <= minute /\ sourceScan.at <= minute
          /\ sourceScan.bound = (IF sourceScan.next = 0 THEN 0 ELSE sourceScan.next + 1)
          /\ sourceScan.offer \in {0, sourceScan.next}
          /\ \A s \in specs : s.bound = sourceScan.next
          /\ walk.on => walk.spec.bound = sourceScan.next

\* What a Confluence scan was told is a revision's instant, so that a later edit is after it.
ConfluenceBounds ==
  Confluence => /\ Reached(cursor.at) /\ Reached(sourceScan.offer)
                /\ \A s \in specs : Reached(s.from)
                /\ walk.on => Reached(walk.spec.from) /\ Reached(walk.newest)

\* The watermark a Jira scan starts from is honest ...
JiraWindows ==
  Jira /\ sourceScan.phase = "windows" /\ Matched =>
    \A i \in Present : thing[i].updated < sourceScan.at => Reported(i)

\* ... and what lies before the bound it will propose is reported or in some window.
JiraFetch ==
  Jira /\ sourceScan.phase = "fetch" /\ Matched /\ ~sourceScan.hole =>
    \A i \in Present :
      thing[i].updated < sourceScan.next =>
        \/ Reported(i)
        \/ \E s \in specs : Within(s, i)
        \/ walk.on /\ Within(walk.spec, i)

\* An issue of the window under way that is not reported is in the walk's hands or ahead of
\* it, and ahead of every position it could be resumed from.
JiraPending(i) ==
  /\ i \in Present /\ thing[i].updated < sourceScan.next /\ Within(walk.spec, i) /\ ~Reported(i)
JiraAhead(i) ==
  /\ NotPast(walk.saved, i) /\ NotPast(walk.resume, i)
  /\ \/ walk.hole
     \/ <<i, thing[i].version>> \in walk.fresh
     \/ <<i, Dated(walk.spec, i)>> \notin walk.given /\ NotPast(walk.mark, i)
JiraWalk ==
  Jira /\ walk.on /\ Matched /\ ~sourceScan.hole =>
    \A i \in Thing : JiraPending(i) => JiraAhead(i)

\* The same for pages, which the walk takes in the order of the listing.
PageSpecs ==
  Confluence /\ sourceScan.phase = "fetch" /\ Matched =>
    \A i \in Present \ raced :
      /\ \A s \in specs : thing[i].updated > s.from \/ Reported(i)
      /\ walk.on => thing[i].updated > walk.spec.from \/ Reported(i)
PageOrder ==
  Confluence /\ walk.on => \A i \in Present \ raced, g \in GivenIds : i \in GivenIds \/ g < i
PagePending(i) ==
  i \in Present \ raced /\ thing[i].updated > walk.spec.from /\ ~Reported(i)
PageAhead(i) ==
  /\ \A k \in walk.saved.done : k < i
  /\ \A k \in walk.resume.done : k < i
  /\ \/ walk.hole
     \/ <<i, thing[i].version>> \in walk.fresh
     \/ (\A k \in walk.mark.done : k < i) /\ (i \in GivenIds => Skipping)
PageWalk ==
  Confluence /\ walk.on /\ Matched /\ ~sourceScan.hole =>
    \A i \in Thing : PagePending(i) => PageAhead(i)
PageEnd ==
  /\ Confluence /\ sourceScan.phase = "fetch" /\ specs = {} /\ ~walk.on
  /\ Matched /\ ~sourceScan.hole
  => \A i \in Present \ raced : thing[i].updated > sourceScan.offer \/ Reported(i)

Ground == IncTypes /\ Clock /\ Configs /\ Phases /\ JiraBounds /\ ConfluenceBounds
JiraInv == JiraWindows /\ JiraFetch /\ JiraWalk
PageInv == PageSpecs /\ PageOrder /\ PageWalk /\ PageEnd
CursorInv == Ground /\ JiraInv /\ PageInv /\ CursorHonest

----------------------------------------------------------------------------
(* The start, and the steps that leave the scan alone. *)

LEMMA IncInitTypes == IncrementalInit => IncTypes
<1> SUFFICES ASSUME IncrementalInit PROVE IncTypes
  OBVIOUS
<1>1. NoSpec \in SpecT /\ Start \in PlaceT
  BY DEF NoSpec, SpecT, Start, PlaceT
<1>2. {} \subseteq Thing \X Nat
  OBVIOUS
<1>3. NoWalk \in WalkT
  BY <1>1, <1>2 DEF NoWalk, WalkT
<1>4. NoScan \in ScanT
  BY DEF NoScan, ScanT
<1>5. thing \in [Thing -> ThingT] /\ read \in [Thing -> Nat]
  BY DEF IncrementalInit, ThingT
<1>6. source \in SourceT /\ cursor \in CursorT
  BY DEF IncrementalInit, SourceT, CursorT
<1>7. QED
  BY <1>3, <1>4, <1>5, <1>6 DEF IncrementalInit, IncTypes

LEMMA IncInit == IncrementalInit => CursorInv
<1> SUFFICES ASSUME IncrementalInit PROVE CursorInv
  OBVIOUS
<1>1. IncTypes
  BY IncInitTypes
<1>2. /\ source.type = "none" /\ sourceScan.phase = "none" /\ ~cursor.live /\ launching = 0
      /\ specs = {} /\ ~walk.on /\ walk.fresh = {} /\ raced = {} /\ cursor.config = 0
      /\ source.config = 0 /\ sourceScan.config = 0 /\ cursor.at = 0 /\ sourceScan = NoScan
      /\ \A i \in Thing : thing[i].created = 0 /\ thing[i].updated = 0 /\ thing[i].version = 0
                          /\ read[i] = 0
  BY DEF IncrementalInit, NoWalk, NoScan
<1>3. Ground
  BY <1>1, <1>2 DEF Ground, Clock, Configs, Phases, JiraBounds, ConfluenceBounds, Jira, Confluence,
                    IncrementalInit
<1>4. JiraInv /\ PageInv
  BY <1>2 DEF JiraInv, JiraWindows, JiraFetch, JiraWalk, PageInv, PageSpecs, PageOrder, PageWalk,
              PageEnd, Jira, Confluence
<1>5. QED
  BY <1>2, <1>3, <1>4 DEF CursorInv, CursorHonest

\* A step that changes no part of the state the invariant reads but the clock.
LEMMA StillInv ==
  ASSUME CursorInv, minute' \in Nat \ {0}, minute <= minute',
         UNCHANGED <<source, thing, cursor, sourceScan, specs, walk, read, raced>>,
         launching' \in Nat, launching' <= source.config, source.type = "none" => launching' = 0
  PROVE  CursorInv'
<1>1. Ground'
  <2>1. IncTypes'
    BY DEF CursorInv, Ground, IncTypes
  <2>2. minute \in Nat /\ minute' \in Nat /\ thing \in [Thing -> ThingT] /\ cursor \in CursorT
        /\ sourceScan \in ScanT
    BY DEF CursorInv, Ground, IncTypes
  <2>3. /\ \A i \in Thing : thing[i].created \in Nat /\ thing[i].updated \in Nat
        /\ cursor.at \in Nat /\ sourceScan.next \in Nat /\ sourceScan.at \in Nat
    BY <2>2 DEF ThingT, CursorT, ScanT
  <2>4. Clock'
    BY <2>2, <2>3 DEF CursorInv, Ground, Clock
  <2>5. Configs' /\ Phases'
    BY DEF CursorInv, Ground, Configs, Phases, Confluence, Jira
  <2>6. JiraBounds'
    BY <2>2, <2>3 DEF CursorInv, Ground, JiraBounds, Jira
  <2>7. ConfluenceBounds'
    BY DEF CursorInv, Ground, ConfluenceBounds, Confluence, Reached
  <2>8. QED
    BY <2>1, <2>4, <2>5, <2>6, <2>7 DEF Ground
<1>2. JiraInv'
  BY DEF CursorInv, JiraInv, JiraWindows, JiraFetch, JiraWalk, JiraPending, JiraAhead, NotPast,
         Within, Dated, Reported, Present, Matched, Jira
<1>3. PageInv'
  BY DEF CursorInv, PageInv, PageSpecs, PageOrder, PageWalk, PageEnd, PagePending, PageAhead,
         GivenIds, Skipping, Reported, Present, Matched, Confluence
<1>4. CursorHonest'
  BY DEF CursorInv, CursorHonest, Present
<1>5. QED
  BY <1>1, <1>2, <1>3, <1>4 DEF CursorInv

LEMMA TimeAndLoads ==
  ASSUME CursorInv, TimePasses \/ LaunchLoads \/ UNCHANGED incVars
  PROVE  CursorInv'
<1>1. minute \in Nat \ {0} /\ launching \in Nat /\ source.config \in Nat
      /\ launching <= source.config /\ (source.type = "none" => launching = 0)
  BY DEF CursorInv, Ground, IncTypes, Configs, SourceT
<1>2. CASE TimePasses
  BY <1>1, <1>2, StillInv DEF TimePasses
<1>3. CASE LaunchLoads
  BY <1>1, <1>3, StillInv DEF LaunchLoads
<1>4. CASE UNCHANGED incVars
  BY <1>1, <1>4, StillInv DEF incVars
<1>5. QED
  BY <1>2, <1>3, <1>4

----------------------------------------------------------------------------
(* The content changes: one item is edited now, or is gone. *)

LEMMA GroundTypes ==
  ASSUME IncTypes
  PROVE  /\ minute \in Nat /\ source.config \in Nat /\ launching \in Nat
         /\ source.type \in {"none", "jira", "confluence"}
         /\ \A i \in Thing : /\ thing[i].created \in Nat /\ thing[i].updated \in Nat
                             /\ thing[i].version \in Nat /\ read[i] \in Nat
         /\ cursor.live \in BOOLEAN /\ cursor.at \in Nat /\ cursor.config \in Nat
         /\ sourceScan.config \in Nat /\ sourceScan.at \in Nat /\ sourceScan.bound \in Nat
         /\ sourceScan.next \in Nat /\ sourceScan.offer \in Nat /\ sourceScan.hole \in BOOLEAN
         /\ sourceScan.no \in Nat
         /\ \A s \in specs : s \in SpecT /\ s.from \in Nat /\ s.to \in Nat /\ s.bound \in Nat
         /\ walk.spec \in SpecT /\ walk.resume \in PlaceT /\ walk.mark \in PlaceT
         /\ walk.saved \in PlaceT /\ walk.given \subseteq Thing \X Nat
         /\ walk.fresh \subseteq Thing \X Nat /\ walk.newest \in Nat
         /\ walk.hole \in BOOLEAN /\ walk.on \in BOOLEAN
         /\ walk.spec.from \in Nat /\ walk.spec.to \in Nat /\ walk.spec.bound \in Nat
<1>1. /\ \A i \in Thing : thing[i] \in ThingT /\ read[i] \in Nat
      /\ source \in SourceT /\ cursor \in CursorT /\ sourceScan \in ScanT
      /\ walk \in WalkT /\ \A s \in specs : s \in SpecT
  BY DEF IncTypes
<1>2. walk.spec \in SpecT
  BY <1>1 DEF WalkT
<1>3. \A s \in SpecT : s.from \in Nat /\ s.to \in Nat /\ s.bound \in Nat
  BY DEF SpecT
<1>4. /\ walk.resume \in PlaceT /\ walk.mark \in PlaceT
      /\ walk.saved \in PlaceT /\ walk.given \subseteq Thing \X Nat
      /\ walk.fresh \subseteq Thing \X Nat /\ walk.newest \in Nat
      /\ walk.hole \in BOOLEAN /\ walk.on \in BOOLEAN
  BY <1>1 DEF WalkT
<1>5. /\ sourceScan.config \in Nat /\ sourceScan.at \in Nat /\ sourceScan.bound \in Nat
      /\ sourceScan.next \in Nat /\ sourceScan.offer \in Nat /\ sourceScan.hole \in BOOLEAN
      /\ sourceScan.no \in Nat
  BY <1>1 DEF ScanT
<1>6. QED
  BY <1>1, <1>2, <1>3, <1>4, <1>5 DEF IncTypes, ThingT, SourceT, CursorT

LEMMA ContentInv ==
  ASSUME CursorInv, NEW i \in Thing, thing' \in [Thing -> ThingT],
         \A j \in Thing : j # i => thing'[j] = thing[j],
         thing[i].updated <= thing'[i].updated, thing[i].version <= thing'[i].version,
         thing'[i].created <= minute, thing'[i].updated <= minute,
         thing'[i].created <= thing'[i].updated,
         \/ thing'[i].created = 0
         \/ thing'[i].updated = minute /\ source.type # "none"
            /\ (Confluence => \A j \in Thing : thing[j].updated < minute)
            /\ (Confluence /\ walk.on => i \in raced'),
         raced' \subseteq raced \cup {i}, raced \subseteq raced' \cup {i},
         ~Confluence => raced' = {},
         UNCHANGED <<minute, source, cursor, launching, sourceScan, specs, walk, read>>
  PROVE  CursorInv'
<1>1. /\ IncTypes /\ Clock /\ Configs /\ Phases /\ JiraBounds /\ ConfluenceBounds
      /\ JiraInv /\ PageInv /\ CursorHonest
  BY DEF CursorInv, Ground
<1>2. IncTypes'
  BY <1>1 DEF IncTypes
<1>3. /\ minute \in Nat
      /\ \A j \in Thing : /\ thing[j].updated \in Nat /\ thing'[j].updated \in Nat
                          /\ thing[j].version \in Nat /\ thing'[j].version \in Nat
                          /\ read[j] \in Nat
      /\ walk.fresh \subseteq Thing \X Nat
      /\ cursor.at \in Nat /\ sourceScan.next \in Nat /\ sourceScan.at \in Nat
      /\ sourceScan.offer \in Nat
      /\ \A s \in specs : s.from \in Nat
      /\ walk.spec.from \in Nat
  BY <1>1, GroundTypes DEF ThingT
<1>4. \A j \in Thing : thing[j].updated <= thing'[j].updated /\ thing[j].version <= thing'[j].version
  BY <1>3
<1>5. Clock'
  <2>1. \A j \in Thing : /\ thing'[j].created <= minute /\ thing'[j].updated <= minute
                         /\ thing'[j].created <= thing'[j].updated
                         /\ read[j] <= thing'[j].version
    <3> SUFFICES ASSUME NEW j \in Thing
                 PROVE  /\ thing'[j].created <= minute /\ thing'[j].updated <= minute
                        /\ thing'[j].created <= thing'[j].updated
                        /\ read[j] <= thing'[j].version
      OBVIOUS
    <3>1. read[j] <= thing[j].version /\ thing[j].version <= thing'[j].version
      BY <1>1, <1>4 DEF Clock
    <3>2. CASE j = i
      BY <1>3, <3>1, <3>2
    <3>3. CASE j # i
      BY <1>1, <3>3 DEF Clock
    <3>4. QED
      BY <3>2, <3>3
  <2>2. \A p \in walk.fresh : p[2] <= thing'[p[1]].version
    <3> SUFFICES ASSUME NEW p \in walk.fresh PROVE p[2] <= thing'[p[1]].version
      OBVIOUS
    <3>1. p[1] \in Thing /\ p[2] \in Nat
      BY <1>3
    <3>2. p[2] <= thing[p[1]].version
      BY <1>1 DEF Clock
    <3>3. QED
      BY <1>3, <1>4, <3>1, <3>2
  <2>3. QED
    BY <2>1, <2>2 DEF Clock
<1>6. Configs' /\ Phases'
  BY <1>1 DEF Configs, Phases, Confluence, Jira
<1>7. JiraBounds'
  BY <1>1 DEF JiraBounds, Jira
<1>8. ASSUME NEW x \in Nat, Reached(x)
      PROVE  (x = 0 \/ \E j \in Thing : x <= thing'[j].updated)
  <2>1. CASE x = 0
    BY <2>1
  <2>2. ASSUME NEW j \in Thing, x <= thing[j].updated
        PROVE  x <= thing'[j].updated
    BY <1>3, <1>4, <2>2
  <2>3. QED
    BY <1>8, <2>1, <2>2 DEF Reached
<1>9. ConfluenceBounds'
  <2> SUFFICES ASSUME Confluence PROVE ConfluenceBounds'
    BY DEF ConfluenceBounds, Confluence
  <2>1. /\ Reached(cursor.at) /\ Reached(sourceScan.offer) /\ \A s \in specs : Reached(s.from)
        /\ walk.on => Reached(walk.spec.from) /\ Reached(walk.newest)
    BY <1>1 DEF ConfluenceBounds
  <2>2. Reached(cursor.at)' /\ Reached(sourceScan.offer)'
    BY <1>3, <1>8, <2>1 DEF Reached
  <2>3. \A s \in specs : (s.from = 0 \/ \E j \in Thing : s.from <= thing'[j].updated)
    BY <1>3, <1>8, <2>1
  <2>4. walk.on => Reached(walk.spec.from)' /\ Reached(walk.newest)'
    BY <1>1, <1>3, <1>8, <2>1, GroundTypes DEF Reached
  <2>5. QED
    BY <2>2, <2>3, <2>4 DEF ConfluenceBounds, Reached
\* What is edited now is after all the scan and the cursor know of.
<1>10. ASSUME NEW x \in Nat, Confluence, Reached(x), i \in Present'
       PROVE  thing'[i].updated > x
  <2>1. thing'[i].updated = minute /\ \A j \in Thing : thing[j].updated < minute
    BY <1>10 DEF Present
  <2>2. minute > 0
    BY <1>1 DEF IncTypes
  <2>3. CASE x = 0
    BY <1>3, <2>1, <2>2, <2>3
  <2>4. ASSUME NEW j \in Thing, x <= thing[j].updated
        PROVE  thing'[i].updated > x
    BY <1>3, <2>1, <2>4
  <2>5. QED
    BY <1>10, <2>3, <2>4 DEF Reached
<1>11. i \in Present' => thing'[i].updated = minute
  BY DEF Present
<1>12. \A j \in Thing : j # i => /\ (j \in Present' <=> j \in Present)
                                 /\ (j \in raced' <=> j \in raced)
                                 /\ thing'[j] = thing[j]
  BY DEF Present
<1>13. Present' \subseteq Thing
  BY DEF Present
<1>14. JiraInv'
  <2> SUFFICES ASSUME Jira PROVE JiraInv'
    BY DEF JiraInv, JiraWindows, JiraFetch, JiraWalk, Jira
  <2>1. sourceScan.next <= minute /\ sourceScan.at <= minute
    BY <1>1 DEF JiraBounds
  <2>2. i \in Present' => ~(thing'[i].updated < sourceScan.next) /\ ~(thing'[i].updated < sourceScan.at)
    BY <1>3, <1>11, <2>1
  <2>3. JiraWindows'
    BY <1>1, <1>12, <1>13, <2>2 DEF JiraInv, JiraWindows, Reported, Matched, Jira
  <2>4. JiraFetch'
    BY <1>1, <1>12, <1>13, <2>2 DEF JiraInv, JiraFetch, Reported, Matched, Jira, Within, Dated
  <2>5. JiraWalk'
    <3> SUFFICES ASSUME walk.on, Matched, ~sourceScan.hole, NEW j \in Thing, JiraPending(j)'
                 PROVE  JiraAhead(j)'
      BY DEF JiraWalk, Jira, Matched
    <3>1. j # i
      BY <2>2 DEF JiraPending
    <3>2. JiraPending(j)
      BY <1>12, <3>1 DEF JiraPending, Within, Dated, Reported
    <3>3. JiraAhead(j)
      BY <1>1, <3>2 DEF JiraInv, JiraWalk
    <3>4. QED
      BY <1>12, <3>1, <3>3 DEF JiraAhead, NotPast, Dated
  <2>6. QED
    BY <2>3, <2>4, <2>5 DEF JiraInv
<1>15. PageInv'
  <2> SUFFICES ASSUME Confluence PROVE PageInv'
    BY DEF PageInv, PageSpecs, PageOrder, PageWalk, PageEnd, Confluence
  <2>1. /\ Reached(cursor.at) /\ Reached(sourceScan.offer) /\ \A s \in specs : Reached(s.from)
    BY <1>1 DEF ConfluenceBounds
  <2>2. walk.on /\ i \in Present' => i \in raced'
    BY DEF Present
  <2>3. PageSpecs'
    <3> SUFFICES ASSUME sourceScan.phase = "fetch", Matched, NEW j \in Present' \ raced'
                 PROVE  /\ \A s \in specs : thing'[j].updated > s.from \/ Reported(j)'
                        /\ walk.on => thing'[j].updated > walk.spec.from \/ Reported(j)'
      BY DEF PageSpecs, Confluence, Matched, Reported
    <3>1. CASE j = i
      BY <1>3, <1>10, <2>1, <2>2, <3>1
    <3>2. CASE j # i
      BY <1>1, <1>12, <1>13, <3>2 DEF PageInv, PageSpecs, Reported
    <3>3. QED
      BY <3>1, <3>2
  <2>4. PageOrder'
    BY <1>1, <1>12, <1>13, <2>2 DEF PageInv, PageOrder, GivenIds, Confluence
  <2>5. PageWalk'
    <3> SUFFICES ASSUME walk.on, Matched, ~sourceScan.hole, NEW j \in Thing, PagePending(j)'
                 PROVE  PageAhead(j)'
      BY DEF PageWalk, Confluence, Matched
    <3>1. j # i
      BY <2>2 DEF PagePending
    <3>2. PagePending(j)
      BY <1>12, <3>1 DEF PagePending, Reported
    <3>3. PageAhead(j)
      BY <1>1, <3>2 DEF PageInv, PageWalk
    <3>4. QED
      BY <1>12, <3>1, <3>3 DEF PageAhead, GivenIds, Skipping
  <2>6. PageEnd'
    <3> SUFFICES ASSUME sourceScan.phase = "fetch", specs = {}, ~walk.on, Matched, ~sourceScan.hole,
                        NEW j \in Present' \ raced'
                 PROVE  thing'[j].updated > sourceScan.offer \/ Reported(j)'
      BY DEF PageEnd, Confluence, Matched, Reported
    <3>1. CASE j = i
      BY <1>3, <1>10, <2>1, <3>1
    <3>2. CASE j # i
      BY <1>1, <1>12, <1>13, <3>2 DEF PageInv, PageEnd, Reported
    <3>3. QED
      BY <3>1, <3>2
  <2>7. QED
    BY <2>3, <2>4, <2>5, <2>6 DEF PageInv
<1>16. CursorHonest'
  <2> SUFFICES ASSUME cursor.live, cursor.config = source.config, NEW j \in Present'
               PROVE  \/ thing'[j].updated > cursor.at
                      \/ source.type = "jira" /\ thing'[j].updated = cursor.at
                      \/ read[j] = thing'[j].version
                      \/ j \in raced'
    BY DEF CursorHonest
  <2>1. CASE j # i
    BY <1>1, <1>12, <1>13, <2>1 DEF CursorHonest
  <2>2. CASE j = i /\ Confluence
    BY <1>1, <1>3, <1>10, <2>2 DEF ConfluenceBounds
  <2>3. CASE j = i /\ Jira
    <3>1. cursor.at <= minute /\ thing'[i].updated = minute
      BY <1>1, <1>11, <2>3 DEF JiraBounds
    <3>2. QED
      BY <1>3, <2>3, <3>1 DEF Jira
  <2>4. source.type # "none"
    BY <1>1 DEF Configs
  <2>5. QED
    BY <1>1, <2>1, <2>2, <2>3, <2>4, GroundTypes DEF Confluence, Jira
<1>17. QED
  BY <1>2, <1>5, <1>6, <1>7, <1>9, <1>14, <1>15, <1>16 DEF CursorInv, Ground

LEMMA EditInv ==
  ASSUME CursorInv, NEW i \in Thing, Edit(i)
  PROVE  CursorInv'
<1>1. IncTypes /\ Clock /\ Phases
  BY DEF CursorInv, Ground
<1> DEFINE c == IF thing[i].created = 0 THEN minute ELSE thing[i].created
           v == thing[i].version + 1
           new == [created |-> c, updated |-> minute, version |-> v]
<1>2. /\ minute \in Nat /\ thing[i].updated \in Nat /\ thing[i].version \in Nat
      /\ thing[i].created \in Nat /\ thing[i].created <= minute /\ thing[i].updated <= minute
      /\ thing \in [Thing -> ThingT]
  BY <1>1, GroundTypes DEF Clock, IncTypes
<1>3. thing' = [thing EXCEPT ![i] = new]
  BY Zenon DEF Edit
<1>4. c \in Nat /\ c <= minute /\ v \in Nat /\ thing[i].version <= v
  BY <1>2
<1> HIDE DEF c, v
<1>5. new \in ThingT /\ new.created = c /\ new.updated = minute /\ new.version = v
  BY <1>2, <1>4 DEF ThingT
<1> HIDE DEF new
<1>6. thing' \in [Thing -> ThingT] /\ thing'[i] = new /\ \A j \in Thing : j # i => thing'[j] = thing[j]
  BY <1>2, <1>3, <1>5
<1>7. /\ source.type # "none"
      /\ (Confluence => \A j \in Thing : thing[j].updated < minute)
      /\ raced' = IF walk.on /\ source.type = "confluence" THEN raced \cup {i} ELSE raced \ {i}
      /\ UNCHANGED <<minute, source, cursor, launching, sourceScan, specs, walk, read>>
  BY DEF Edit, Instant, Confluence
<1>8. ~Confluence => raced' = {}
  BY <1>1, <1>7 DEF Phases, Confluence
<1>9. /\ (Confluence /\ walk.on => i \in raced')
      /\ raced' \subseteq raced \cup {i} /\ raced \subseteq raced' \cup {i}
  BY <1>7 DEF Confluence
<1>10. QED
  BY <1>2, <1>4, <1>5, <1>6, <1>7, <1>8, <1>9, ContentInv

LEMMA RemoveInv ==
  ASSUME CursorInv, NEW i \in Thing, RemoveThing(i)
  PROVE  CursorInv'
<1>1. IncTypes /\ Clock /\ Phases
  BY DEF CursorInv, Ground
<1>2. /\ thing \in [Thing -> ThingT] /\ thing' = [thing EXCEPT ![i] = [thing[i] EXCEPT !.created = 0]]
      /\ UNCHANGED <<minute, source, cursor, launching, sourceScan, specs, walk, read, raced>>
  BY <1>1 DEF IncTypes, RemoveThing
<1> DEFINE new == [thing[i] EXCEPT !.created = 0]
<1>3. new \in ThingT /\ new.created = 0 /\ new.updated = thing[i].updated
      /\ new.version = thing[i].version
  BY <1>2 DEF ThingT
<1>4. thing' = [thing EXCEPT ![i] = new]
  BY <1>2
<1> HIDE DEF new
<1>5. thing' \in [Thing -> ThingT] /\ thing'[i] = new /\ \A j \in Thing : j # i => thing'[j] = thing[j]
  BY <1>2, <1>3, <1>4
<1>6. /\ minute \in Nat /\ thing[i].updated \in Nat /\ thing[i].version \in Nat
      /\ thing[i].updated <= minute
  BY <1>1, GroundTypes DEF Clock
<1>7. /\ thing'[i].created <= minute /\ thing[i].updated <= thing'[i].updated
      /\ thing[i].version <= thing'[i].version /\ thing'[i].updated <= minute
      /\ thing'[i].created <= thing'[i].updated
  BY <1>3, <1>5, <1>6
<1>8. ~Confluence => raced' = {}
  BY <1>1, <1>2 DEF Phases
<1>9. QED
  BY <1>2, <1>3, <1>5, <1>7, <1>8, ContentInv

----------------------------------------------------------------------------
(* The source's administration and the launch of a scan: nothing is being walked. *)

LEMMA InvParts ==
  ASSUME CursorInv
  PROVE  /\ IncTypes /\ Clock /\ Configs /\ Phases /\ JiraBounds /\ ConfluenceBounds
         /\ JiraWindows /\ JiraFetch /\ JiraWalk
         /\ PageSpecs /\ PageOrder /\ PageWalk /\ PageEnd /\ CursorHonest
BY DEF CursorInv, Ground, JiraInv, PageInv

\* Between scans and before discovery only the cursor has anything to keep.
LEMMA IdleInv ==
  ASSUME ~walk'.on, sourceScan'.phase \notin {"windows", "fetch"}
  PROVE  JiraInv' /\ PageInv'
<1>1. JiraInv'
  BY DEF JiraInv, JiraWindows, JiraFetch, JiraWalk
<1>2. PageInv'
  BY DEF PageInv, PageSpecs, PageOrder, PageWalk, PageEnd
<1>3. QED
  BY <1>1, <1>2

LEMMA NoScanFields ==
  /\ NoScan.phase = "none" /\ NoScan.config = 0 /\ NoScan.at = 0 /\ NoScan.bound = 0
  /\ NoScan.next = 0 /\ NoScan.offer = 0 /\ NoScan.hole = FALSE
BY DEF NoScan

LEMMA CreateSourceInv ==
  ASSUME CursorInv, NEW t \in {"jira", "confluence"}, CreateSource(t)
  PROVE  CursorInv'
<1>1. /\ IncTypes /\ Clock /\ Configs /\ Phases
  BY InvParts
<1>2. /\ source.type = "none" /\ source' = [type |-> t, config |-> 1]
      /\ UNCHANGED <<minute, thing, cursor, launching, sourceScan, specs, walk, read, raced>>
  BY DEF CreateSource
<1>3. source' \in SourceT /\ source'.type = t /\ source'.config = 1
  BY <1>2 DEF SourceT
<1>4. /\ ~cursor.live /\ cursor.at = 0 /\ sourceScan = NoScan /\ launching = 0
      /\ source.config = 0 /\ source.type # "confluence"
  BY <1>1, <1>2 DEF Configs
<1>5. /\ sourceScan.phase = "none" /\ sourceScan.config = 0 /\ sourceScan.at = 0
      /\ sourceScan.bound = 0 /\ sourceScan.next = 0 /\ sourceScan.offer = 0
  BY <1>4, NoScanFields
<1>6. ~walk.on /\ specs = {} /\ raced = {}
  BY <1>1, <1>4, <1>5 DEF Phases, Confluence
<1>7. minute \in Nat /\ cursor.config \in Nat
  BY <1>1, GroundTypes
<1>8. IncTypes'
  BY <1>1, <1>2, <1>3 DEF IncTypes
<1>9. Clock'
  BY <1>1, <1>2 DEF Clock
<1>10. Configs'
  <2>1. cursor.config <= 0
    BY <1>1, <1>4 DEF Configs
  <2>2. QED
    BY <1>2, <1>3, <1>4, <1>5, <1>7, <2>1 DEF Configs
<1>11. Phases'
  BY <1>2, <1>5, <1>6 DEF Phases
<1>12. JiraBounds'
  BY <1>2, <1>4, <1>5, <1>6, <1>7 DEF JiraBounds
<1>13. ConfluenceBounds'
  BY <1>2, <1>4, <1>5, <1>6 DEF ConfluenceBounds, Reached
<1>14. JiraInv' /\ PageInv'
  BY <1>2, <1>5, <1>6, IdleInv
<1>15. CursorHonest'
  BY <1>2, <1>4 DEF CursorHonest
<1>16. QED
  BY <1>8, <1>9, <1>10, <1>11, <1>12, <1>13, <1>14, <1>15 DEF CursorInv, Ground

LEMMA UpdateSourceInv ==
  ASSUME CursorInv, UpdateSource
  PROVE  CursorInv'
<1>1. /\ IncTypes /\ Clock /\ Configs /\ Phases /\ JiraBounds /\ ConfluenceBounds
  BY InvParts
<1>2. /\ source.type # "none" /\ ~Scanning /\ source' = [source EXCEPT !.config = @ + 1]
      /\ read' = [i \in Thing |-> 0] /\ raced' = {}
      /\ UNCHANGED <<minute, thing, cursor, launching, sourceScan, specs, walk>>
  BY DEF UpdateSource
<1> DEFINE n == source.config + 1
<1>3. /\ n \in Nat /\ source.config \in Nat /\ launching \in Nat /\ sourceScan.config \in Nat
      /\ cursor.config \in Nat /\ source \in SourceT
      /\ \A i \in Thing : thing[i].version \in Nat
  BY <1>1, GroundTypes DEF IncTypes
<1>4. /\ launching <= n /\ sourceScan.config <= n /\ cursor.config <= n /\ cursor.config # n
  BY <1>1, <1>3 DEF Configs
<1>5. source' = [source EXCEPT !.config = n]
  BY <1>2
<1> HIDE DEF n
<1>6. source' \in SourceT /\ source'.type = source.type /\ source'.config = n
  BY <1>3, <1>5 DEF SourceT
<1>7. sourceScan.phase \notin {"probe", "windows", "fetch"} /\ ~walk.on /\ specs = {}
  BY <1>1, <1>2 DEF Scanning, Phases
<1>8. IncTypes'
  BY <1>1, <1>2, <1>6 DEF IncTypes
<1>9. Clock'
  BY <1>1, <1>2, <1>3 DEF Clock
<1>10. Configs'
  BY <1>2, <1>4, <1>6 DEF Configs
<1>11. Phases'
  BY <1>2, <1>7 DEF Phases
<1>12. JiraBounds'
  BY <1>1, <1>2, <1>6 DEF JiraBounds, Jira
<1>13. ConfluenceBounds'
  BY <1>1, <1>2, <1>6 DEF ConfluenceBounds, Reached, Confluence
<1>14. JiraInv' /\ PageInv'
  BY <1>2, <1>7, IdleInv
<1>15. CursorHonest'
  BY <1>2, <1>4, <1>6 DEF CursorHonest
<1>16. QED
  BY <1>8, <1>9, <1>10, <1>11, <1>12, <1>13, <1>14, <1>15 DEF CursorInv, Ground

\* The cursor is retired, or kept.
LEMMA RetiredInv ==
  ASSUME CursorInv, cursor' \in CursorT, cursor'.live => cursor.live,
         cursor'.at = cursor.at, cursor'.config = cursor.config,
         UNCHANGED <<minute, source, thing, launching, sourceScan, specs, walk, read, raced>>
  PROVE  CursorInv'
<1>1. /\ IncTypes /\ Clock /\ Configs /\ Phases /\ JiraBounds /\ ConfluenceBounds
      /\ JiraInv /\ PageInv /\ CursorHonest
  BY InvParts DEF CursorInv
<1>2. IncTypes' /\ Clock'
  BY <1>1 DEF IncTypes, Clock
<1>3. Configs'
  BY <1>1 DEF Configs
<1>4. Phases'
  BY <1>1 DEF Phases, Confluence, Jira
<1>5. JiraBounds' /\ ConfluenceBounds'
  BY <1>1 DEF JiraBounds, Jira, ConfluenceBounds, Confluence, Reached
<1>6. JiraInv'
  BY <1>1 DEF JiraInv, JiraWindows, JiraFetch, JiraWalk, JiraPending, JiraAhead, NotPast,
         Within, Dated, Reported, Present, Matched, Jira
<1>7. PageInv'
  BY <1>1 DEF PageInv, PageSpecs, PageOrder, PageWalk, PageEnd, PagePending, PageAhead,
         GivenIds, Skipping, Reported, Present, Matched, Confluence
<1>8. CursorHonest'
  BY <1>1 DEF CursorHonest, Present
<1>9. QED
  BY <1>2, <1>3, <1>4, <1>5, <1>6, <1>7, <1>8 DEF CursorInv, Ground

LEMMA InvalidateInv ==
  ASSUME CursorInv, InvalidateCursors
  PROVE  CursorInv'
<1>1. cursor \in CursorT /\ cursor' = [cursor EXCEPT !.live = FALSE]
      /\ UNCHANGED <<minute, source, thing, launching, sourceScan, specs, walk, read, raced>>
  BY InvParts DEF IncTypes, InvalidateCursors
<1>2. cursor' \in CursorT /\ cursor'.live = FALSE /\ cursor'.at = cursor.at
      /\ cursor'.config = cursor.config
  BY <1>1 DEF CursorT
<1>3. QED
  BY <1>1, <1>2, RetiredInv

LEMMA LaunchCommitsInv ==
  ASSUME CursorInv, NEW q \in {"full", "incremental"}, NEW d \in BOOLEAN, LaunchCommits(q, d)
  PROVE  CursorInv'
<1>1. /\ IncTypes /\ Clock /\ Configs /\ Phases /\ JiraBounds /\ ConfluenceBounds /\ CursorHonest
  BY InvParts
<1>2. /\ launching # 0 /\ launching' = 0
      /\ UNCHANGED <<minute, source, thing, specs, walk, read, raced>>
  BY DEF LaunchCommits
<1>3. /\ minute \in Nat \ {0} /\ source.config \in Nat /\ launching \in Nat /\ cursor \in CursorT
      /\ sourceScan \in ScanT /\ sourceScan.no \in Nat
  BY <1>1, GroundTypes DEF IncTypes
<1>4. CASE Scanning
  <2>1. UNCHANGED <<sourceScan, cursor>>
    BY <1>4 DEF LaunchCommits
  <2>2. QED
    BY <1>2, <1>3, <2>1, StillInv
<1>5. CASE ~Scanning
  <2> DEFINE n == sourceScan.no + 1
             inc == q = "incremental" /\ Trusted(d)
             m == IF inc THEN "incremental" ELSE "full"
             live == cursor.live /\ (q = "full" \/ inc)
  <2>1. /\ sourceScan' = [NoScan EXCEPT !.phase = "probe", !.config = launching,
                                        !.no = n, !.mode = m]
        /\ cursor' = [cursor EXCEPT !.live = live]
    BY <1>5 DEF LaunchCommits
  <2>2. n \in Nat /\ m \in {"full", "incremental"} /\ live \in BOOLEAN
        /\ (live => cursor.live) /\ (m = "incremental" => cursor.config = launching)
    BY <1>3 DEF Trusted
  <2> HIDE DEF n, inc, m, live
  <2>3. NoScan \in ScanT
    BY DEF NoScan, ScanT
  <2>4. /\ sourceScan' \in ScanT /\ sourceScan'.phase = "probe" /\ sourceScan'.config = launching
        /\ sourceScan'.mode = m /\ sourceScan'.at = 0 /\ sourceScan'.bound = 0
        /\ sourceScan'.next = 0 /\ sourceScan'.offer = 0 /\ sourceScan'.hole = FALSE
    BY <1>3, <2>1, <2>2 DEF NoScan, ScanT
  <2>5. /\ cursor' \in CursorT /\ cursor'.live = live /\ cursor'.at = cursor.at
        /\ cursor'.config = cursor.config
    BY <1>3, <2>1, <2>2 DEF CursorT
  <2>6. ~walk.on /\ specs = {} /\ source.type # "none"
    BY <1>1, <1>2, <1>5 DEF Scanning, Phases, Configs
  <2>7. IncTypes' /\ Clock'
    BY <1>1, <1>2, <2>4, <2>5 DEF IncTypes, Clock
  <2>8. Configs'
    BY <1>1, <1>2, <1>3, <2>4, <2>5, <2>6 DEF Configs
  <2>9. Phases'
    BY <1>1, <1>2, <2>2, <2>4, <2>5, <2>6 DEF Phases, Confluence
  <2>10. JiraBounds' /\ ConfluenceBounds'
    BY <1>1, <1>2, <1>3, <2>4, <2>5, <2>6 DEF JiraBounds, Jira, ConfluenceBounds, Confluence, Reached
  <2>11. JiraInv' /\ PageInv'
    BY <1>2, <2>4, <2>6, IdleInv
  <2>12. CursorHonest'
    BY <1>1, <1>2, <2>2, <2>5 DEF CursorHonest, Present
  <2>13. QED
    BY <2>7, <2>8, <2>9, <2>10, <2>11, <2>12 DEF CursorInv, Ground
<1>6. QED
  BY <1>4, <1>5

----------------------------------------------------------------------------
(* Discovery. *)

LEMMA DiscoverSpacesInv ==
  ASSUME CursorInv, DiscoverSpaces
  PROVE  CursorInv'
<1>1. /\ IncTypes /\ Clock /\ Configs /\ Phases /\ ConfluenceBounds /\ CursorHonest
  BY InvParts
<1>2. /\ sourceScan.phase = "probe" /\ source.type = "confluence" /\ ~walk.on
      /\ specs' = {[NoSpec EXCEPT !.field = "updated", !.from = Watermark]}
      /\ sourceScan' = [sourceScan EXCEPT !.phase = "fetch"]
      /\ UNCHANGED <<minute, source, thing, cursor, launching, walk, read, raced>>
  BY <1>1 DEF DiscoverSpaces, Phases
<1>3. /\ Watermark \in Nat /\ sourceScan \in ScanT /\ source.type # "none"
      /\ \A i \in Thing : thing[i].created \in Nat /\ thing[i].updated \in Nat
  BY <1>1, <1>2, GroundTypes DEF IncTypes, Watermark
<1> DEFINE s == [NoSpec EXCEPT !.field = "updated", !.from = Watermark]
<1>4. specs' = {s} /\ s \in SpecT /\ s.from = Watermark
  BY <1>2, <1>3 DEF NoSpec, SpecT
<1> HIDE DEF s
<1>5. /\ sourceScan' \in ScanT /\ sourceScan'.phase = "fetch"
      /\ sourceScan'.config = sourceScan.config /\ sourceScan'.offer = sourceScan.offer
  BY <1>2, <1>3 DEF ScanT
<1>6. IncTypes' /\ Clock'
  BY <1>1, <1>2, <1>4, <1>5 DEF IncTypes, Clock
<1>7. Configs' /\ Phases'
  BY <1>1, <1>2, <1>5 DEF Configs, Phases, Confluence
<1>8. JiraBounds'
  BY <1>2 DEF JiraBounds, Jira
<1>9. Reached(Watermark)
  BY <1>1, <1>2 DEF ConfluenceBounds, Confluence, Watermark, Reached
<1>10. ConfluenceBounds'
  BY <1>1, <1>2, <1>4, <1>5, <1>9 DEF ConfluenceBounds, Confluence, Reached
<1>11. JiraInv'
  BY <1>2 DEF JiraInv, JiraWindows, JiraFetch, JiraWalk, Jira
<1>12. ASSUME Matched, NEW i \in Present \ raced
       PROVE  thing[i].updated > Watermark \/ Reported(i)
  <2>1. CASE Watermark = 0
    <3>1. i \in Thing /\ thing[i].created # 0 /\ thing[i].created <= thing[i].updated
      BY <1>1 DEF Present, Clock
    <3>2. QED
      BY <1>3, <2>1, <3>1
  <2>2. CASE Watermark # 0
    <3>1. sourceScan.mode = "incremental" /\ cursor.live /\ Watermark = cursor.at
      BY <2>2 DEF Watermark
    <3>2. cursor.config = source.config
      BY <1>1, <1>2, <1>12, <3>1 DEF Phases, Matched
    <3>3. QED
      BY <1>1, <1>2, <3>1, <3>2 DEF CursorHonest, Reported
  <2>3. QED
    BY <2>1, <2>2
<1>13. PageSpecs'
  BY <1>2, <1>4, <1>5, <1>12 DEF PageSpecs, Matched, Present, Reported
<1>14. PageOrder' /\ PageWalk' /\ PageEnd'
  BY <1>2, <1>4 DEF PageOrder, PageWalk, PageEnd
<1>15. CursorHonest'
  BY <1>1, <1>2 DEF CursorHonest, Present
<1>16. QED
  BY <1>6, <1>7, <1>8, <1>10, <1>11, <1>13, <1>14, <1>15 DEF CursorInv, Ground, PageInv

LEMMA DiscoverBoundInv ==
  ASSUME CursorInv, DiscoverBound
  PROVE  CursorInv'
<1>1. /\ IncTypes /\ Clock /\ Configs /\ Phases /\ JiraBounds /\ CursorHonest
  BY InvParts
<1>2. /\ sourceScan.phase = "probe" /\ source.type = "jira" /\ ~walk.on /\ specs = {} /\ raced = {}
      /\ sourceScan.next = 0 /\ sourceScan.bound = 0 /\ sourceScan.offer = 0 /\ ~sourceScan.hole
      /\ UNCHANGED <<minute, source, thing, cursor, launching, specs, walk, read, raced>>
  BY <1>1 DEF DiscoverBound, Phases, Confluence
<1>3. /\ Watermark \in Nat /\ sourceScan \in ScanT /\ source.type # "none" /\ minute \in Nat
      /\ Watermark <= minute
      /\ \A i \in Thing : thing[i].created \in Nat /\ thing[i].updated \in Nat
  BY <1>1, <1>2, GroundTypes DEF IncTypes, Watermark, JiraBounds, Jira
<1>4. /\ sourceScan' \in ScanT /\ sourceScan'.phase = "windows" /\ sourceScan'.at = Watermark
      /\ sourceScan'.config = sourceScan.config /\ sourceScan'.offer = 0
      /\ sourceScan'.hole = sourceScan.hole
      /\ sourceScan'.next \in Nat /\ sourceScan'.next <= minute
      /\ sourceScan'.bound = (IF sourceScan'.next = 0 THEN 0 ELSE sourceScan'.next + 1)
  <2>1. CASE Present = {}
    <3>1. sourceScan' = [sourceScan EXCEPT !.phase = "windows", !.at = Watermark]
      BY <2>1 DEF DiscoverBound
    <3>2. /\ sourceScan' \in ScanT /\ sourceScan'.phase = "windows" /\ sourceScan'.at = Watermark
          /\ sourceScan'.config = sourceScan.config /\ sourceScan'.offer = sourceScan.offer
          /\ sourceScan'.hole = sourceScan.hole /\ sourceScan'.next = sourceScan.next
          /\ sourceScan'.bound = sourceScan.bound
      BY <1>3, <3>1 DEF ScanT
    <3>3. QED
      BY <1>2, <1>3, <3>2
  <2>2. CASE Present # {}
    <3>1. PICK i \in Present :
             sourceScan' = [sourceScan EXCEPT !.phase = "windows", !.at = Watermark,
                                    !.bound = thing[i].created + 1,
                                    !.next = thing[i].created]
      BY <2>2 DEF DiscoverBound, WindowEnd, NextStart, ProbedDate
    <3> DEFINE c == thing[i].created
               b == thing[i].created + 1
    <3>2. c \in Nat /\ c # 0 /\ b \in Nat /\ c <= minute /\ b = c + 1
      BY <1>1, <1>3 DEF Present, Clock
    <3>3. sourceScan' = [sourceScan EXCEPT !.phase = "windows", !.at = Watermark,
                                           !.bound = b, !.next = c]
      BY <3>1
    <3> HIDE DEF b, c
    <3>4. /\ sourceScan' \in ScanT /\ sourceScan'.phase = "windows" /\ sourceScan'.at = Watermark
          /\ sourceScan'.config = sourceScan.config /\ sourceScan'.offer = sourceScan.offer
          /\ sourceScan'.hole = sourceScan.hole /\ sourceScan'.next = c /\ sourceScan'.bound = b
      BY <1>3, <3>2, <3>3 DEF ScanT
    <3>5. QED
      BY <1>2, <3>2, <3>4
  <2>3. QED
    BY <2>1, <2>2
<1>5. IncTypes' /\ Clock'
  BY <1>1, <1>2, <1>4 DEF IncTypes, Clock
<1>6. Configs' /\ Phases'
  BY <1>1, <1>2, <1>4 DEF Configs, Phases, Jira, Confluence
<1>7. JiraBounds'
  BY <1>1, <1>2, <1>3, <1>4 DEF JiraBounds, Jira
<1>8. ConfluenceBounds'
  BY <1>2 DEF ConfluenceBounds, Confluence
<1>9. JiraWindows'
  <2> SUFFICES ASSUME Matched, NEW i \in Present, thing[i].updated < Watermark
               PROVE  Reported(i)
    BY <1>2, <1>4 DEF JiraWindows, Matched, Present, Reported
  <2>1. i \in Thing
    BY DEF Present
  <2>2. Watermark # 0
    BY <1>3, <2>1
  <2>3. sourceScan.mode = "incremental" /\ cursor.live /\ Watermark = cursor.at
    BY <2>2 DEF Watermark
  <2>4. cursor.config = source.config
    BY <1>1, <1>2, <2>3 DEF Phases, Matched
  <2>5. QED
    BY <1>1, <1>2, <1>3, <2>1, <2>3, <2>4 DEF CursorHonest, Reported
<1>10. JiraFetch' /\ JiraWalk'
  BY <1>2, <1>4 DEF JiraFetch, JiraWalk
<1>11. PageInv'
  BY <1>2 DEF PageInv, PageSpecs, PageOrder, PageWalk, PageEnd, Confluence
<1>12. CursorHonest'
  BY <1>1, <1>2 DEF CursorHonest, Present
<1>13. QED
  BY <1>5, <1>6, <1>7, <1>8, <1>9, <1>10, <1>11, <1>12 DEF CursorInv, Ground, JiraInv

\* The created windows are tasks that propose the bound, and leave no gap between them.
LEMMA WindowsCover ==
  ASSUME IncTypes, Clock
  PROVE  /\ \A s \in CreatedWindows : /\ s \in SpecT /\ s.bound = sourceScan.next
                                      /\ s.from <= minute + 2
                                      /\ s.to <= minute + 2 \/ s.to = Never
         /\ \A i \in Present : \E s \in CreatedWindows : Within(s, i)
<1>1. /\ sourceScan.next \in Nat /\ minute \in Nat /\ Never \in Nat
      /\ \A i \in Thing : thing[i].created \in Nat /\ thing[i].created <= minute
  BY GroundTypes, IncrementalAssumption DEF Clock, Never
<1>2. CASE Present = {}
  <2>1. CreatedWindows = {[NoSpec EXCEPT !.to = Never, !.bound = sourceScan.next]}
    BY <1>2 DEF CreatedWindows
  <2>2. LET s == [NoSpec EXCEPT !.to = Never, !.bound = sourceScan.next]
        IN  s \in SpecT /\ s.bound = sourceScan.next /\ s.from = 0 /\ s.to = Never
    BY <1>1 DEF NoSpec, SpecT
  <2>3. QED
    BY <1>1, <1>2, <2>1, <2>2
<1>3. CASE Present # {}
  <2> DEFINE dates == {thing[i].created : i \in Present}
             first == Min(dates)
             pinned == Max(dates) + 1
             width == BucketWidth(pinned + 1 - first)
             edges == {e \in first..(pinned + 1) : e > first /\ (e - first) % width = 0}
                      \cup {pinned + 1}
             EndOf(e) == IF e = pinned + 1 THEN pinned ELSE e
             StartOf(e) == Max({0} \cup {x \in edges : x < e})
  <2>1. CreatedWindows =
          {[field |-> "created", from |-> StartOf(e), to |-> EndOf(e), bound |-> sourceScan.next] :
             e \in edges}
    BY <1>3 DEF CreatedWindows
  <2>2. dates \subseteq 0..minute /\ dates # {}
    BY <1>1, <1>3 DEF Present
  <2>3. first \in Nat
    BY <2>2, MinOf
  <2>4. Max(dates) \in dates /\ \A y \in dates : y <= Max(dates)
    BY <1>1, <2>2, MaxOf
  <2>5. pinned \in Nat /\ pinned <= minute + 1 /\ \A y \in dates : y \in Nat /\ y < pinned
    <3> HIDE DEF dates
    <3>1. \A y \in dates : y \in Nat /\ y <= minute
      BY <1>1, <2>2
    <3>2. QED
      BY <1>1, <2>4, <3>1
  <2> DEFINE top == pinned + 1
  <2> HIDE DEF pinned, first, width, dates
  <2>6. edges \subseteq 0..top /\ top \in edges
    BY <2>3, <2>5
  <2>7. top \in Nat /\ pinned < top /\ top <= minute + 2
    BY <1>1, <2>5
  <2>13. \A e : EndOf(e) = IF e = top THEN pinned ELSE e
    OBVIOUS
  <2> HIDE DEF edges, top
  <2>14. ASSUME NEW e \in edges PROVE e \in Nat /\ e <= minute + 2
    <3>1. e \in 0..top
      BY <2>6, Zenon
    <3>2. QED
      BY <1>1, <2>7, <3>1
  <2>8. ASSUME NEW e \in edges
        PROVE  /\ StartOf(e) \in {0} \cup {x \in edges : x < e} /\ StartOf(e) \in Nat
               /\ EndOf(e) \in Nat /\ StartOf(e) <= minute + 2 /\ EndOf(e) <= minute + 2
    <3>1. {0} \cup {x \in edges : x < e} \subseteq 0..top
      <4>1. 0 \in 0..top
        BY <2>7
      <4>2. {x \in edges : x < e} \subseteq edges
        OBVIOUS
      <4>3. QED
        BY <2>6, <4>1, <4>2, Zenon
    <3>2. StartOf(e) \in {0} \cup {x \in edges : x < e}
      BY <2>7, <3>1, MaxOf
    <3>3. QED
      BY <1>1, <2>5, <2>13, <2>14, <3>2
  <2>9. ASSUME NEW i \in Present
        PROVE  \E e \in edges : StartOf(e) <= thing[i].created /\ thing[i].created < EndOf(e)
    <3>1. /\ thing[i].created \in dates /\ thing[i].created \in Nat
          /\ thing[i].created < pinned
      BY <1>1, <2>5 DEF dates, Present
    <3> DEFINE above == {x \in edges : x > thing[i].created}
               e == Min(above)
    <3>2. above \subseteq Nat /\ top \in above
      <4>1. top > thing[i].created
        BY <2>5, <2>7, <3>1
      <4>2. QED
        BY <2>6, <2>14, <4>1, Zenon
    <3>3. e \in above /\ \A y \in above : e <= y
      BY <3>2, MinOf
    <3>4. e \in edges /\ e > thing[i].created /\ e \in Nat
      BY <2>14, <3>3
    <3>5. \A x \in edges : x < e => x <= thing[i].created
      <4> SUFFICES ASSUME NEW x \in edges, x > thing[i].created PROVE e <= x
        <5>1. \A x \in edges : x \in Nat
          BY <2>14
        <5>2. QED
          BY <3>1, <3>4, <5>1
      <4>1. x \in above
        OBVIOUS
      <4>2. QED
        BY <3>3, <4>1
    <3> HIDE DEF e, above
    <3>6. StartOf(e) <= thing[i].created
      BY <2>8, <3>1, <3>4, <3>5
    <3>7. thing[i].created < EndOf(e)
      BY <2>13, <3>1, <3>4
    <3>8. QED
      BY <3>4, <3>6, <3>7
  <2> HIDE DEF StartOf, EndOf
  <2>10. \A s \in CreatedWindows : /\ s \in SpecT /\ s.bound = sourceScan.next
                                   /\ s.from <= minute + 2 /\ s.to <= minute + 2
    BY <1>1, <2>1, <2>8 DEF SpecT
  <2>11. ASSUME NEW i \in Present
         PROVE  \E s \in CreatedWindows : Within(s, i)
    <3>1. PICK e \in edges : StartOf(e) <= thing[i].created /\ thing[i].created < EndOf(e)
      BY <2>9
    <3>2. [field |-> "created", from |-> StartOf(e), to |-> EndOf(e), bound |-> sourceScan.next]
            \in CreatedWindows
      BY <2>1
    <3>3. QED
      BY <3>1, <3>2 DEF Within, Dated
  <2>12. QED
    BY <2>10, <2>11
<1>4. QED
  BY <1>2, <1>3

LEMMA DiscoverWindowsInv ==
  ASSUME CursorInv, DiscoverWindows
  PROVE  CursorInv'
<1>1. /\ IncTypes /\ Clock /\ Configs /\ Phases /\ JiraBounds /\ JiraWindows /\ CursorHonest
  BY InvParts
<1>2. /\ sourceScan.phase = "windows" /\ Jira /\ source.type = "jira" /\ ~walk.on
      /\ sourceScan' = [sourceScan EXCEPT !.phase = "fetch"]
      /\ specs' = IF sourceScan.at # 0 /\ sourceScan.bound # 0 THEN UpdatedWindow
                                                               ELSE CreatedWindows
      /\ UNCHANGED <<minute, source, thing, cursor, launching, walk, read, raced>>
  BY <1>1 DEF DiscoverWindows, Phases, Jira
<1>3. /\ sourceScan.at \in Nat /\ sourceScan.bound \in Nat /\ sourceScan.next \in Nat
      /\ sourceScan \in ScanT
      /\ sourceScan.bound = (IF sourceScan.next = 0 THEN 0 ELSE sourceScan.next + 1)
      /\ \A i \in Thing : thing[i].updated \in Nat
  BY <1>1, <1>2, GroundTypes DEF IncTypes, JiraBounds
<1>4. /\ sourceScan' \in ScanT /\ sourceScan'.phase = "fetch" /\ sourceScan'.at = sourceScan.at
      /\ sourceScan'.config = sourceScan.config /\ sourceScan'.offer = sourceScan.offer
      /\ sourceScan'.hole = sourceScan.hole /\ sourceScan'.next = sourceScan.next
      /\ sourceScan'.bound = sourceScan.bound
  BY <1>2, <1>3 DEF ScanT
<1> DEFINE s == [field |-> "updated", from |-> sourceScan.at, to |-> sourceScan.bound,
                 bound |-> sourceScan.next]
<1>5. UpdatedWindow = (IF sourceScan.at >= sourceScan.bound THEN {} ELSE {s})
  BY DEF UpdatedWindow
<1>6. s \in SpecT /\ s.field = "updated" /\ s.from = sourceScan.at /\ s.to = sourceScan.bound
      /\ s.bound = sourceScan.next
  BY <1>3 DEF SpecT
<1> HIDE DEF s
<1>7. \A r \in specs' : r \in SpecT /\ r.bound = sourceScan.next
  BY <1>1, <1>2, <1>5, <1>6, WindowsCover
<1>8. ASSUME Matched, NEW i \in Present, thing[i].updated < sourceScan.next
      PROVE  Reported(i) \/ \E r \in specs' : Within(r, i)
  <2>1. i \in Thing /\ thing[i].updated \in Nat
    BY <1>3 DEF Present
  <2>2. sourceScan.bound = sourceScan.next + 1 /\ thing[i].updated < sourceScan.bound
    BY <1>3, <1>8, <2>1
  <2>3. thing[i].updated < sourceScan.at => Reported(i)
    BY <1>1, <1>2, <1>8 DEF JiraWindows
  <2>4. CASE sourceScan.at = 0
    BY <1>1, <1>2, <2>4, WindowsCover
  <2>5. CASE sourceScan.at # 0 /\ sourceScan.at >= sourceScan.bound
    BY <1>3, <2>1, <2>2, <2>3, <2>5
  <2>6. CASE sourceScan.at # 0 /\ ~(sourceScan.at >= sourceScan.bound)
    <3>1. specs' = {s}
      BY <1>2, <1>3, <1>5, <2>2, <2>6
    <3>2. Within(s, i) \/ thing[i].updated < sourceScan.at
      BY <1>3, <1>6, <2>1, <2>2 DEF Within, Dated
    <3>3. QED
      BY <2>3, <3>1, <3>2
  <2>7. QED
    BY <2>4, <2>5, <2>6
<1>9. IncTypes' /\ Clock'
  BY <1>1, <1>2, <1>4, <1>7 DEF IncTypes, Clock
<1>10. Configs' /\ Phases'
  BY <1>1, <1>2, <1>4 DEF Configs, Phases, Jira, Confluence
<1>11. JiraBounds'
  BY <1>1, <1>2, <1>4, <1>7 DEF JiraBounds, Jira
<1>12. ConfluenceBounds'
  BY <1>2 DEF ConfluenceBounds, Confluence
<1>13. JiraFetch'
  BY <1>2, <1>4, <1>8 DEF JiraFetch, Matched, Present, Reported, Within, Dated
<1>14. JiraWindows' /\ JiraWalk'
  BY <1>2, <1>4 DEF JiraWindows, JiraWalk
<1>15. PageInv'
  BY <1>2 DEF PageInv, PageSpecs, PageOrder, PageWalk, PageEnd, Confluence
<1>16. CursorHonest'
  BY <1>1, <1>2 DEF CursorHonest, Present
<1>17. QED
  BY <1>9, <1>10, <1>11, <1>12, <1>13, <1>14, <1>15, <1>16 DEF CursorInv, Ground, JiraInv

----------------------------------------------------------------------------
(* A walk begins, goes on or starts again. *)

LEMMA StartFields ==
  Start \in PlaceT /\ Start.at = 0 /\ Start.done = {}
BY DEF Start, PlaceT

LEMMA DatedNat ==
  ASSUME IncTypes, NEW s, NEW i \in Thing
  PROVE  Dated(s, i) \in Nat
BY GroundTypes DEF Dated

\* The walk takes a step within its window: only what it holds can go wrong.
LEMMA WalkStepInv ==
  ASSUME CursorInv, walk.on, walk' \in WalkT, walk'.on, walk'.spec = walk.spec,
         \A p \in walk'.fresh : p[2] <= thing[p[1]].version,
         Confluence => Reached(walk'.newest),
         Jira => JiraWalk', Confluence => PageOrder' /\ PageWalk',
         UNCHANGED <<minute, source, thing, cursor, launching, sourceScan, specs, read, raced>>
  PROVE  CursorInv'
<1>1. /\ IncTypes /\ Clock /\ Configs /\ Phases /\ JiraBounds /\ ConfluenceBounds
      /\ JiraWindows /\ JiraFetch /\ PageSpecs /\ CursorHonest
  BY InvParts
<1>2. IncTypes' /\ Clock'
  BY <1>1 DEF IncTypes, Clock
<1>3. Configs' /\ Phases'
  BY <1>1 DEF Configs, Phases, Jira, Confluence
<1>4. JiraBounds' /\ ConfluenceBounds'
  BY <1>1 DEF JiraBounds, Jira, ConfluenceBounds, Confluence, Reached
<1>5. JiraWindows' /\ JiraFetch'
  BY <1>1 DEF JiraWindows, JiraFetch, Within, Dated, Reported, Present, Matched, Jira
<1>6. PageSpecs' /\ PageEnd'
  BY <1>1 DEF PageSpecs, PageEnd, Reported, Present, Matched, Confluence
<1>7. JiraWalk' /\ PageOrder' /\ PageWalk'
  BY DEF JiraWalk, PageOrder, PageWalk, Jira, Confluence
<1>8. CursorHonest'
  BY <1>1 DEF CursorHonest, Present
<1>9. QED
  BY <1>2, <1>3, <1>4, <1>5, <1>6, <1>7, <1>8 DEF CursorInv, Ground, JiraInv, PageInv

\* A walk that has listed nothing yet: everything pending is ahead of it.
LEMMA FreshWalk ==
  ASSUME CursorInv, walk' \in WalkT, walk'.given = {}, walk'.mark = Start,
         UNCHANGED <<source, thing, sourceScan, read, raced>>
  PROVE  /\ \A i \in Thing : NotPast(walk.saved, i)' /\ NotPast(walk.resume, i)' => JiraAhead(i)'
         /\ \A i \in Thing : /\ \A k \in walk'.saved.done : k < i
                             /\ \A k \in walk'.resume.done : k < i
                             => PageAhead(i)'
         /\ PageOrder'
<1>1. IncTypes
  BY InvParts
<1>2. \A i \in Thing : NotPast(walk.mark, i)'
  <2> SUFFICES ASSUME NEW i \in Thing PROVE NotPast(walk.mark, i)'
    OBVIOUS
  <2>1. Dated(walk.spec, i)' \in Nat
    BY <1>1, GroundTypes DEF Dated
  <2>2. QED
    BY <2>1, StartFields DEF NotPast
<1>3. \A i \in Thing : NotPast(walk.saved, i)' /\ NotPast(walk.resume, i)' => JiraAhead(i)'
  BY <1>2 DEF JiraAhead
<1>4. GivenIds' = {}
  BY DEF GivenIds
<1>5. \A i \in Thing : /\ \A k \in walk'.saved.done : k < i
                       /\ \A k \in walk'.resume.done : k < i
                       => PageAhead(i)'
  BY <1>4, StartFields DEF PageAhead
<1>6. PageOrder'
  BY <1>4 DEF PageOrder
<1>7. QED
  BY <1>3, <1>5, <1>6

LEMMA FetchBeginInv ==
  ASSUME CursorInv, NEW s \in specs, FetchBegin(s)
  PROVE  CursorInv'
<1>1. /\ IncTypes /\ Clock /\ Configs /\ Phases /\ JiraBounds /\ ConfluenceBounds
      /\ JiraWindows /\ JiraFetch /\ PageSpecs /\ CursorHonest
  BY InvParts
<1>2. /\ sourceScan.phase = "fetch" /\ ~walk.on /\ specs' = specs \ {s}
      /\ walk' = [NoWalk EXCEPT !.spec = s, !.on = TRUE]
      /\ UNCHANGED <<minute, source, thing, cursor, launching, sourceScan, read, raced>>
  BY DEF FetchBegin
<1>3. s \in SpecT /\ Start \in PlaceT /\ {} \subseteq Thing \X Nat
  BY <1>1, GroundTypes, StartFields
<1>4. /\ walk' \in WalkT /\ walk'.spec = s /\ walk'.on = TRUE /\ walk'.given = {}
      /\ walk'.fresh = {} /\ walk'.mark = Start /\ walk'.saved = Start /\ walk'.resume = Start
      /\ walk'.newest = 0
  BY <1>2, <1>3 DEF NoWalk, WalkT
<1>5. IncTypes' /\ Clock'
  BY <1>1, <1>2, <1>4 DEF IncTypes, Clock
<1>6. Configs' /\ Phases'
  BY <1>1, <1>2 DEF Configs, Phases, Jira, Confluence
<1>7. JiraBounds' /\ ConfluenceBounds'
  BY <1>1, <1>2, <1>4 DEF JiraBounds, Jira, ConfluenceBounds, Confluence, Reached
<1>8. JiraWindows'
  BY <1>2 DEF JiraWindows
<1>9. JiraFetch'
  BY <1>1, <1>2, <1>4 DEF JiraFetch, Within, Dated, Reported, Present, Matched, Jira
<1>10. PageSpecs'
  BY <1>1, <1>2, <1>4 DEF PageSpecs, Reported, Present, Matched, Confluence
<1>11. PageEnd'
  BY <1>4 DEF PageEnd
<1>12. \A i \in Thing : NotPast(walk.saved, i)' /\ NotPast(walk.resume, i)'
  <2> SUFFICES ASSUME NEW i \in Thing PROVE NotPast(walk.saved, i)' /\ NotPast(walk.resume, i)'
    OBVIOUS
  <2>1. Dated(walk.spec, i)' \in Nat
    BY <1>1, <1>2, GroundTypes DEF Dated
  <2>2. QED
    BY <1>4, <2>1, StartFields DEF NotPast
<1>13. JiraWalk' /\ PageOrder' /\ PageWalk'
  BY <1>2, <1>4, <1>12, FreshWalk, StartFields DEF JiraWalk, PageWalk
<1>14. CursorHonest'
  BY <1>1, <1>2 DEF CursorHonest, Present
<1>15. QED
  BY <1>5, <1>6, <1>7, <1>8, <1>9, <1>10, <1>11, <1>13, <1>14
     DEF CursorInv, Ground, JiraInv, PageInv

LEMMA WalkDiesInv ==
  ASSUME CursorInv, WalkDies
  PROVE  CursorInv'
<1>1. IncTypes /\ JiraWalk /\ PageWalk
  BY InvParts
<1>2. /\ walk.on
      /\ walk' = [NoWalk EXCEPT !.spec = walk.spec, !.on = TRUE,
                                !.resume = walk.saved, !.saved = walk.saved]
      /\ UNCHANGED <<minute, source, thing, cursor, launching, sourceScan, specs, read, raced>>
  BY DEF WalkDies
<1>3. walk.spec \in SpecT /\ walk.saved \in PlaceT /\ Start \in PlaceT /\ {} \subseteq Thing \X Nat
  BY <1>1, GroundTypes, StartFields
<1>4. /\ walk' \in WalkT /\ walk'.spec = walk.spec /\ walk'.on = TRUE /\ walk'.given = {}
      /\ walk'.fresh = {} /\ walk'.mark = Start /\ walk'.saved = walk.saved
      /\ walk'.resume = walk.saved /\ walk'.newest = 0
  BY <1>2, <1>3 DEF NoWalk, WalkT
<1>5. JiraWalk'
  <2> SUFFICES ASSUME Jira, Matched, ~sourceScan.hole, NEW i \in Thing, JiraPending(i)'
               PROVE  JiraAhead(i)'
    BY <1>2 DEF JiraWalk, Jira, Matched
  <2>1. JiraPending(i)
    BY <1>2, <1>4 DEF JiraPending, Within, Dated, Reported, Present
  <2>2. NotPast(walk.saved, i)
    BY <1>1, <1>2, <2>1 DEF JiraWalk, JiraAhead
  <2>3. NotPast(walk.saved, i)' /\ NotPast(walk.resume, i)'
    BY <1>2, <1>4, <2>2 DEF NotPast, Dated
  <2>4. QED
    BY <1>2, <1>4, <2>3, FreshWalk
<1>6. PageWalk'
  <2> SUFFICES ASSUME Confluence, Matched, ~sourceScan.hole, NEW i \in Thing, PagePending(i)'
               PROVE  PageAhead(i)'
    BY <1>2 DEF PageWalk, Confluence, Matched
  <2>1. PagePending(i)
    BY <1>2, <1>4 DEF PagePending, Reported, Present
  <2>2. \A k \in walk.saved.done : k < i
    BY <1>1, <1>2, <2>1 DEF PageWalk, PageAhead
  <2>3. QED
    BY <1>2, <1>4, <2>2, FreshWalk
<1>7. PageOrder'
  BY <1>2, <1>4, FreshWalk
<1>8. QED
  BY <1>2, <1>4, <1>5, <1>6, <1>7, WalkStepInv DEF Reached

----------------------------------------------------------------------------
(* What a batch or the end of a walk makes durable. *)

\* What is reported stays reported, what is fresh becomes so, and nothing else is claimed.
LEMMA ReadSoFarProps ==
  ASSUME IncTypes, Clock
  PROVE  /\ ReadSoFar \in [Thing -> Nat]
         /\ \A i \in Thing : /\ read[i] <= ReadSoFar[i] /\ ReadSoFar[i] <= thing[i].version
                             /\ Reported(i) \/ <<i, thing[i].version>> \in walk.fresh
                                => ReadSoFar[i] = thing[i].version
<1>1. /\ walk.fresh \subseteq Thing \X Nat
      /\ \A i \in Thing : thing[i].version \in Nat /\ read[i] \in Nat
                          /\ read[i] <= thing[i].version
      /\ \A p \in walk.fresh : p[2] <= thing[p[1]].version
  BY GroundTypes DEF Clock
<1>2. ASSUME NEW i \in Thing
      PROVE  /\ ReadSoFar[i] \in Nat /\ read[i] <= ReadSoFar[i] /\ ReadSoFar[i] <= thing[i].version
             /\ Reported(i) \/ <<i, thing[i].version>> \in walk.fresh
                => ReadSoFar[i] = thing[i].version
  <2> DEFINE mine == {p[2] : p \in {q \in walk.fresh : q[1] = i}}
             all == {read[i]} \cup mine
             v == thing[i].version
             m == Max(all)
  <2>1. ReadSoFar[i] = m
    BY DEF ReadSoFar
  <2>2. \A y \in mine : y \in Nat /\ y <= v
    <3> SUFFICES ASSUME NEW p \in walk.fresh, p[1] = i PROVE p[2] \in Nat /\ p[2] <= v
      OBVIOUS
    <3>1. p[2] \in Nat
      BY <1>1
    <3>2. QED
      BY <1>1, <3>1
  <2>3. <<i, v>> \in walk.fresh => v \in mine
    <3> SUFFICES ASSUME <<i, v>> \in walk.fresh PROVE v \in mine
      OBVIOUS
    <3>1. <<i, v>>[1] = i /\ <<i, v>>[2] = v
      OBVIOUS
    <3>2. QED
      BY <3>1
  <2>4. v \in Nat /\ read[i] \in Nat /\ read[i] <= v
    BY <1>1
  <2> HIDE DEF mine, v
  <2>5. all \subseteq 0..v /\ all # {}
    BY <2>2, <2>4
  <2>6. m \in all /\ \A y \in all : y <= m
    BY <2>4, <2>5, MaxOf
  <2> HIDE DEF m
  <2>7. m \in Nat /\ m <= v /\ read[i] <= m
    BY <2>4, <2>5, <2>6
  <2>8. <<i, v>> \in walk.fresh => m = v
    BY <2>3, <2>4, <2>6, <2>7
  <2>9. read[i] = v => m = v
    BY <2>4, <2>7
  <2>10. QED
    BY <2>1, <2>7, <2>8, <2>9 DEF Reported, v
<1>3. ReadSoFar = [i \in Thing |-> ReadSoFar[i]]
  BY DEF ReadSoFar
<1>4. QED
  BY <1>2, <1>3

\* An unreported issue of the window, past neither resume point nor listing, is still found.
LEMMA PendingFound ==
  ASSUME IncTypes, NEW i \in Thing, JiraPending(i), NotPast(walk.resume, i),
         <<i, Dated(walk.spec, i)>> \notin walk.given
  PROVE  i \in Found
<1>1. DateOf(i) = Dated(walk.spec, i)
  BY DEF DateOf, Dated
<1>2. QED
  BY <1>1 DEF Found, QueryStart, JiraPending, Within, NotPast

LEMMA BatchAcceptedInv ==
  ASSUME CursorInv, BatchAccepted
  PROVE  CursorInv'
<1>1. /\ IncTypes /\ Clock /\ Configs /\ Phases /\ JiraBounds /\ ConfluenceBounds
      /\ JiraFetch /\ JiraWalk /\ PageSpecs /\ PageOrder /\ PageWalk /\ CursorHonest
  BY InvParts
<1> DEFINE hole == sourceScan.hole \/ walk.hole
<1>2. /\ walk.on /\ read' = ReadSoFar
      /\ walk' = [walk EXCEPT !.fresh = {}, !.saved = walk.mark, !.hole = FALSE]
      /\ sourceScan' = [sourceScan EXCEPT !.hole = hole]
      /\ UNCHANGED <<minute, source, thing, cursor, launching, specs, raced>>
  BY DEF BatchAccepted
<1>3. /\ walk \in WalkT /\ walk.mark \in PlaceT /\ sourceScan \in ScanT /\ hole \in BOOLEAN
      /\ {} \subseteq Thing \X Nat /\ sourceScan.phase = "fetch" /\ source.type # "none"
  BY <1>1, <1>2, GroundTypes, NoScanFields DEF IncTypes, Phases, Configs
<1>4. ~hole => ~sourceScan.hole /\ ~walk.hole
  OBVIOUS
<1> HIDE DEF hole
<1>5. /\ walk' \in WalkT /\ walk'.spec = walk.spec /\ walk'.on = walk.on
      /\ walk'.given = walk.given /\ walk'.fresh = {} /\ walk'.mark = walk.mark
      /\ walk'.saved = walk.mark /\ walk'.resume = walk.resume /\ walk'.newest = walk.newest
  BY <1>2, <1>3 DEF WalkT
<1>6. /\ sourceScan' \in ScanT /\ sourceScan'.phase = sourceScan.phase
      /\ sourceScan'.at = sourceScan.at /\ sourceScan'.bound = sourceScan.bound
      /\ sourceScan'.config = sourceScan.config /\ sourceScan'.offer = sourceScan.offer
      /\ sourceScan'.next = sourceScan.next /\ sourceScan'.hole = hole
  BY <1>2, <1>3 DEF ScanT
<1>7. /\ read' \in [Thing -> Nat]
      /\ \A i \in Thing : /\ read'[i] <= thing[i].version
                          /\ Reported(i) => read'[i] = thing[i].version
                          /\ <<i, thing[i].version>> \in walk.fresh => read'[i] = thing[i].version
  BY <1>1, <1>2, ReadSoFarProps
<1>8. IncTypes' /\ Clock'
  BY <1>1, <1>2, <1>5, <1>6, <1>7 DEF IncTypes, Clock
<1>9. Configs' /\ Phases'
  BY <1>1, <1>2, <1>3, <1>5, <1>6 DEF Configs, Phases, Jira, Confluence
<1>10. JiraBounds' /\ ConfluenceBounds'
  BY <1>1, <1>2, <1>5, <1>6 DEF JiraBounds, Jira, ConfluenceBounds, Confluence, Reached
<1>11. JiraWindows' /\ PageEnd'
  BY <1>2, <1>3, <1>5, <1>6 DEF JiraWindows, PageEnd
<1>12. \A i \in Thing : Reported(i) => Reported(i)'
  BY <1>2, <1>7 DEF Reported
<1>13. JiraFetch'
  <2> SUFFICES ASSUME Jira, Matched, ~sourceScan.hole, NEW i \in Present,
                      thing[i].updated < sourceScan.next
               PROVE  \/ Reported(i)'
                      \/ \E s \in specs : Within(s, i)'
                      \/ walk'.on /\ Within(walk.spec, i)'
    BY <1>2, <1>4, <1>6 DEF JiraFetch, Jira, Matched, Present
  <2>1. i \in Thing
    BY DEF Present
  <2>2. \/ Reported(i)
        \/ \E s \in specs : Within(s, i)
        \/ walk.on /\ Within(walk.spec, i)
    BY <1>1, <1>3 DEF JiraFetch
  <2>3. QED
    BY <1>2, <1>5, <1>12, <2>1, <2>2 DEF Within, Dated
<1>14. JiraWalk'
  <2> SUFFICES ASSUME Jira, Matched, ~hole, NEW i \in Thing, JiraPending(i)'
               PROVE  JiraAhead(i)'
    BY <1>2, <1>6 DEF JiraWalk, Jira, Matched
  <2>1. JiraPending(i)
    BY <1>2, <1>5, <1>6, <1>12 DEF JiraPending, Within, Dated, Present
  <2>2. JiraAhead(i)
    BY <1>1, <1>2, <1>4, <2>1 DEF JiraWalk
  <2>3. <<i, thing[i].version>> \notin walk.fresh
    BY <1>2, <1>7 DEF JiraPending, Reported
  <2>4. NotPast(walk.mark, i) /\ <<i, Dated(walk.spec, i)>> \notin walk.given
    BY <1>4, <2>2, <2>3 DEF JiraAhead
  <2>5. QED
    BY <1>2, <1>5, <2>2, <2>4 DEF JiraAhead, NotPast, Dated
<1>15. PageSpecs'
  BY <1>1, <1>2, <1>5, <1>6, <1>12 DEF PageSpecs, Present, Matched, Confluence
<1>16. PageOrder'
  BY <1>1, <1>2, <1>5 DEF PageOrder, GivenIds, Present, Confluence
<1>17. PageWalk'
  <2> SUFFICES ASSUME Confluence, Matched, ~hole, NEW i \in Thing, PagePending(i)'
               PROVE  PageAhead(i)'
    BY <1>2, <1>6 DEF PageWalk, Confluence, Matched
  <2>1. PagePending(i)
    BY <1>2, <1>5, <1>12 DEF PagePending, Present
  <2>2. PageAhead(i)
    BY <1>1, <1>2, <1>4, <2>1 DEF PageWalk
  <2>3. <<i, thing[i].version>> \notin walk.fresh
    BY <1>2, <1>7 DEF PagePending, Reported
  <2>4. (\A k \in walk.mark.done : k < i) /\ (i \in GivenIds => Skipping)
    BY <1>4, <2>2, <2>3 DEF PageAhead
  <2>5. QED
    BY <1>5, <2>2, <2>4 DEF PageAhead, GivenIds, Skipping
<1>18. CursorHonest'
  BY <1>1, <1>2, <1>7 DEF CursorHonest, Present, Reported
<1>19. QED
  BY <1>8, <1>9, <1>10, <1>11, <1>13, <1>14, <1>15, <1>16, <1>17, <1>18
     DEF CursorInv, Ground, JiraInv, PageInv

LEMMA FetchEndsInv ==
  ASSUME CursorInv, FetchEnds
  PROVE  CursorInv'
<1>1. /\ IncTypes /\ Clock /\ Configs /\ Phases /\ JiraBounds /\ ConfluenceBounds
      /\ JiraFetch /\ JiraWalk /\ PageSpecs /\ PageOrder /\ PageWalk /\ CursorHonest
  BY InvParts
<1> DEFINE lost == source.type = "confluence" /\ Skipping
           hole == sourceScan.hole \/ walk.hole \/ lost
           offer == IF source.type = "jira" THEN walk.spec.bound
                    ELSE IF lost THEN 0 ELSE walk.newest
<1>2. /\ walk.on /\ read' = ReadSoFar /\ walk' = NoWalk
      /\ sourceScan' = [sourceScan EXCEPT !.hole = hole, !.offer = offer]
      /\ UNCHANGED <<minute, source, thing, cursor, launching, specs, raced>>
      /\ (IF source.type = "jira" THEN Found = {} ELSE Listed = {})
  BY DEF FetchEnds
<1>3. /\ sourceScan \in ScanT /\ hole \in BOOLEAN /\ offer \in Nat
      /\ sourceScan.phase = "fetch" /\ source.type # "none"
      /\ source.type \in {"none", "jira", "confluence"}
  BY <1>1, <1>2, GroundTypes, NoScanFields DEF IncTypes, Phases, Configs
<1>4. ~hole => ~sourceScan.hole /\ ~walk.hole /\ (Confluence => ~Skipping)
  BY DEF Confluence
<1>5. /\ Jira => offer = sourceScan.next
      /\ Confluence => Reached(offer)
      /\ Confluence /\ ~hole => offer = walk.newest
  BY <1>1, <1>2 DEF JiraBounds, ConfluenceBounds, Jira, Confluence, Reached
<1> HIDE DEF lost, hole, offer
<1>6. /\ sourceScan' \in ScanT /\ sourceScan'.phase = sourceScan.phase
      /\ sourceScan'.at = sourceScan.at /\ sourceScan'.bound = sourceScan.bound
      /\ sourceScan'.config = sourceScan.config /\ sourceScan'.offer = offer
      /\ sourceScan'.next = sourceScan.next /\ sourceScan'.hole = hole
  BY <1>2, <1>3 DEF ScanT
<1>7. walk' \in WalkT /\ ~walk'.on /\ walk'.fresh = {}
  <2>1. NoSpec \in SpecT /\ Start \in PlaceT /\ {} \subseteq Thing \X Nat
    BY DEF NoSpec, SpecT, Start, PlaceT
  <2>2. QED
    BY <1>2, <2>1 DEF NoWalk, WalkT
<1>8. /\ read' \in [Thing -> Nat]
      /\ \A i \in Thing : /\ read'[i] <= thing[i].version
                          /\ Reported(i) => read'[i] = thing[i].version
                          /\ <<i, thing[i].version>> \in walk.fresh => read'[i] = thing[i].version
  BY <1>1, <1>2, ReadSoFarProps
<1>9. IncTypes' /\ Clock'
  BY <1>1, <1>2, <1>6, <1>7, <1>8 DEF IncTypes, Clock
<1>10. Configs' /\ Phases'
  BY <1>1, <1>2, <1>3, <1>6, <1>7 DEF Configs, Phases, Jira, Confluence
<1>11. JiraBounds' /\ ConfluenceBounds'
  BY <1>1, <1>2, <1>5, <1>6, <1>7 DEF JiraBounds, Jira, ConfluenceBounds, Confluence, Reached
<1>12. \A i \in Thing : Reported(i) => Reported(i)'
  BY <1>2, <1>8 DEF Reported
<1>13. JiraFetch'
  <2> SUFFICES ASSUME Jira, Matched, ~hole, NEW i \in Present, thing[i].updated < sourceScan.next
               PROVE  Reported(i)' \/ \E s \in specs : Within(s, i)'
    BY <1>2, <1>6 DEF JiraFetch, Jira, Matched, Present
  <2>1. i \in Thing
    BY DEF Present
  <2>2. \/ Reported(i) \/ (\E s \in specs : Within(s, i)) \/ Within(walk.spec, i)
    BY <1>1, <1>3, <1>4 DEF JiraFetch
  <2>3. ASSUME Within(walk.spec, i), ~Reported(i)
        PROVE  Reported(i)'
    <3>1. JiraPending(i)
      BY <2>3 DEF JiraPending
    <3>2. JiraAhead(i)
      BY <1>1, <1>2, <1>4, <2>1, <3>1 DEF JiraWalk
    <3>3. i \notin Found
      BY <1>2 DEF Jira
    <3>4. <<i, thing[i].version>> \in walk.fresh
      BY <1>1, <1>4, <2>1, <3>1, <3>2, <3>3, PendingFound DEF JiraAhead
    <3>5. QED
      BY <1>2, <1>8, <2>1, <3>4 DEF Reported
  <2>4. QED
    BY <1>2, <1>12, <2>1, <2>2, <2>3 DEF Within, Dated
<1>14. JiraWindows' /\ JiraWalk' /\ PageOrder' /\ PageWalk'
  BY <1>3, <1>6, <1>7 DEF JiraWindows, JiraWalk, PageOrder, PageWalk
<1>15. PageSpecs'
  BY <1>1, <1>2, <1>6, <1>7, <1>12 DEF PageSpecs, Present, Matched, Confluence
<1>16. PageEnd'
  <2> SUFFICES ASSUME Confluence, Matched, ~hole, NEW i \in Present \ raced
               PROVE  Reported(i)'
    BY <1>2, <1>6 DEF PageEnd, Confluence, Matched, Present
  <2>1. i \in Thing
    BY DEF Present
  <2>2. CASE Reported(i)
    BY <1>12, <2>1, <2>2
  <2>3. CASE ~Reported(i)
    <3>1. thing[i].updated > walk.spec.from
      BY <1>1, <1>2, <1>3, <2>3 DEF PageSpecs
    <3>2. PageAhead(i)
      BY <1>1, <1>2, <1>4, <2>1, <2>3, <3>1 DEF PageWalk, PagePending
    <3>3. i \notin Listed
      BY <1>2 DEF Confluence
    <3>4. PICK p \in walk.given : ~(p[1] < i)
      BY <3>3 DEF Listed
    <3>5. i \in GivenIds
      BY <1>1, <1>2, <3>4 DEF PageOrder, GivenIds
    <3>6. <<i, thing[i].version>> \in walk.fresh
      BY <1>4, <3>2, <3>5 DEF PageAhead
    <3>7. QED
      BY <1>2, <1>8, <2>1, <3>6 DEF Reported
  <2>4. QED
    BY <2>2, <2>3
<1>17. CursorHonest'
  BY <1>1, <1>2, <1>8 DEF CursorHonest, Present, Reported
<1>18. QED
  BY <1>9, <1>10, <1>11, <1>13, <1>14, <1>15, <1>16, <1>17
     DEF CursorInv, Ground, JiraInv, PageInv

LEMMA ScanEndsInv ==
  ASSUME CursorInv, ScanEnds
  PROVE  CursorInv'
<1>1. /\ IncTypes /\ Clock /\ Configs /\ Phases /\ JiraBounds /\ ConfluenceBounds
      /\ JiraFetch /\ PageEnd /\ CursorHonest
  BY InvParts
<1>2. /\ sourceScan.phase = "fetch" /\ specs = {} /\ ~walk.on
      /\ sourceScan' = [sourceScan EXCEPT !.phase = "done"]
      /\ cursor' = IF sourceScan.hole \/ sourceScan.offer = 0 THEN cursor
                   ELSE Watermarked(sourceScan.offer)
      /\ UNCHANGED <<minute, source, thing, launching, specs, walk, read, raced>>
  BY DEF ScanEnds
<1>3. /\ sourceScan \in ScanT /\ cursor \in CursorT /\ source.type # "none" /\ minute \in Nat
      /\ sourceScan.offer \in Nat /\ sourceScan.config \in Nat /\ sourceScan.next \in Nat
      /\ \A i \in Thing : thing[i].updated \in Nat
      /\ source.type \in {"none", "jira", "confluence"}
  BY <1>1, <1>2, GroundTypes, NoScanFields DEF IncTypes, Configs
<1>4. /\ sourceScan' \in ScanT /\ sourceScan'.phase = "done" /\ sourceScan'.at = sourceScan.at
      /\ sourceScan'.config = sourceScan.config /\ sourceScan'.offer = sourceScan.offer
      /\ sourceScan'.next = sourceScan.next /\ sourceScan'.bound = sourceScan.bound
  BY <1>2, <1>3 DEF ScanT
<1>5. /\ cursor' \in CursorT
      /\ \/ cursor' = cursor
         \/ /\ cursor'.at = sourceScan.offer /\ cursor'.config = sourceScan.config
            /\ ~sourceScan.hole /\ sourceScan.offer # 0
  BY <1>2, <1>3 DEF Watermarked, CursorT
<1>6. IncTypes' /\ Clock'
  BY <1>1, <1>2, <1>4, <1>5 DEF IncTypes, Clock
<1>7. Configs' /\ Phases'
  BY <1>1, <1>2, <1>3, <1>4, <1>5 DEF Configs, Phases, Jira, Confluence
<1>8. JiraBounds'
  <2>1. Jira => cursor'.at <= minute
    BY <1>1, <1>3, <1>5 DEF JiraBounds
  <2>2. QED
    BY <1>1, <1>2, <1>4, <2>1 DEF JiraBounds, Jira
<1>9. ConfluenceBounds'
  BY <1>1, <1>2, <1>4, <1>5 DEF ConfluenceBounds, Confluence, Reached
<1>10. JiraInv' /\ PageInv'
  BY <1>2, <1>4, IdleInv
<1>11. CursorHonest'
  <2>1. CASE cursor' = cursor
    BY <1>1, <1>2, <2>1 DEF CursorHonest, Present
  <2>2. ASSUME cursor'.at = sourceScan.offer, ~sourceScan.hole, sourceScan.offer # 0, Matched,
               NEW i \in Present
        PROVE  \/ thing[i].updated > sourceScan.offer
               \/ source.type = "jira" /\ thing[i].updated = sourceScan.offer
               \/ read[i] = thing[i].version
               \/ i \in raced
    <3>1. i \in Thing /\ thing[i].updated \in Nat
      BY <1>3 DEF Present
    <3>2. CASE Jira
      <4>1. sourceScan.offer = sourceScan.next
        BY <1>1, <2>2, <3>2 DEF JiraBounds
      <4>2. thing[i].updated < sourceScan.next => Reported(i)
        BY <1>1, <1>2, <2>2, <3>2 DEF JiraFetch
      <4>3. QED
        BY <1>3, <3>1, <3>2, <4>1, <4>2 DEF Jira, Reported
    <3>3. CASE Confluence
      BY <1>1, <1>2, <2>2, <3>3 DEF PageEnd, Reported
    <3>4. QED
      BY <1>3, <3>2, <3>3 DEF Jira, Confluence
  <2>3. QED
    BY <1>2, <1>5, <2>1, <2>2 DEF CursorHonest, Matched, Present
<1>12. QED
  BY <1>6, <1>7, <1>8, <1>9, <1>10, <1>11 DEF CursorInv, Ground

----------------------------------------------------------------------------
(* The walk reads an item. *)

\* What passing an item changes of the walk, and what yielding it changes besides.
LEMMA PassedFields ==
  ASSUME IncTypes, NEW i \in Thing
  PROVE  LET w == Passed(i) IN
         /\ w \in WalkT /\ w.spec = walk.spec /\ w.resume = walk.resume /\ w.saved = walk.saved
         /\ w.on = walk.on /\ w.given = walk.given \cup {<<i, Dated(walk.spec, i)>>}
         /\ w.newest \in {walk.newest, thing[i].updated}
         /\ w.fresh = walk.fresh /\ w.hole = walk.hole /\ w.mark = walk.mark
<1> DEFINE given == walk.given \cup {<<i, DateOf(i)>>}
           newest == Max({walk.newest, thing[i].updated})
<1>1. /\ walk \in WalkT /\ walk.newest \in Nat /\ thing[i].updated \in Nat
      /\ thing[i].created \in Nat /\ walk.given \subseteq Thing \X Nat
  BY GroundTypes DEF IncTypes
<1>2. Passed(i) = [walk EXCEPT !.given = given, !.newest = newest]
  BY DEF Passed
<1>3. newest \in {walk.newest, thing[i].updated}
  BY <1>1, MaxPair
<1>4. DateOf(i) = Dated(walk.spec, i) /\ DateOf(i) \in Nat
  BY <1>1 DEF DateOf, Dated
<1>5. given \subseteq Thing \X Nat /\ given = walk.given \cup {<<i, Dated(walk.spec, i)>>}
  BY <1>1, <1>4
<1>6. newest \in Nat
  BY <1>1, <1>3
<1> HIDE DEF given, newest
<1>7. QED
  BY <1>1, <1>2, <1>3, <1>5, <1>6 DEF WalkT

\* What is fresh once i has been read to this ending.
NextFresh(i, e) == IF e # "read" THEN walk.fresh
                   ELSE {p \in walk.fresh : p[1] # i} \cup {<<i, thing[i].version>>}

LEMMA YieldedFields ==
  ASSUME IncTypes, NEW i \in Thing, NEW e, NEW m \in PlaceT
  PROVE  LET w == Yielded(i, e, m) IN
         /\ w \in WalkT /\ w.spec = walk.spec /\ w.resume = walk.resume /\ w.saved = walk.saved
         /\ w.on = walk.on /\ w.given = walk.given \cup {<<i, Dated(walk.spec, i)>>}
         /\ w.newest \in {walk.newest, thing[i].updated}
         /\ w.fresh = NextFresh(i, e)
         /\ (e # "read" => w.hole) /\ (walk.hole => w.hole)
         /\ (e = "read" => w.mark = m)
<1> DEFINE x == Passed(i)
           fresh == NextFresh(i, e)
           hole == walk.hole \/ e # "read"
           mark == IF e # "refused" THEN m ELSE walk.mark
<1>1. /\ x \in WalkT /\ x.spec = walk.spec /\ x.resume = walk.resume /\ x.saved = walk.saved
      /\ x.on = walk.on /\ x.given = walk.given \cup {<<i, Dated(walk.spec, i)>>}
      /\ x.newest \in {walk.newest, thing[i].updated}
      /\ x.fresh = walk.fresh /\ x.hole = walk.hole /\ x.mark = walk.mark
  BY PassedFields
<1>2. Yielded(i, e, m) = [x EXCEPT !.fresh = IF e # "read" THEN x.fresh
                             ELSE {p \in x.fresh : p[1] # i} \cup {<<i, thing[i].version>>},
                                   !.hole = x.hole \/ e # "read",
                                   !.mark = IF e # "refused" THEN m ELSE x.mark]
  BY DEF Yielded
<1> HIDE DEF x
<1>3. Yielded(i, e, m) = [x EXCEPT !.fresh = fresh, !.hole = hole, !.mark = mark]
  BY <1>1, <1>2 DEF NextFresh
<1>4. /\ walk.fresh \subseteq Thing \X Nat /\ thing[i].version \in Nat /\ walk.mark \in PlaceT
  BY GroundTypes
<1>5. fresh \subseteq Thing \X Nat
  <2>1. <<i, thing[i].version>> \in Thing \X Nat
    BY <1>4
  <2>2. QED
    BY <1>4, <2>1 DEF NextFresh
<1>6. /\ hole \in BOOLEAN /\ mark \in PlaceT /\ (e # "read" => hole) /\ (walk.hole => hole)
      /\ (e = "read" => mark = m)
  BY <1>4
<1>7. fresh = NextFresh(i, e)
  OBVIOUS
<1> HIDE DEF fresh, hole, mark
<1>8. LET w == Yielded(i, e, m) IN
      /\ w \in WalkT /\ w.spec = x.spec /\ w.resume = x.resume /\ w.saved = x.saved
      /\ w.on = x.on /\ w.given = x.given /\ w.newest = x.newest
      /\ w.fresh = fresh /\ w.hole = hole /\ w.mark = mark
  BY <1>1, <1>3, <1>5, <1>6 DEF WalkT
<1>9. QED
  BY <1>1, <1>6, <1>7, <1>8

\* Whatever is fresh of the other items stays fresh.
LEMMA FreshKept ==
  ASSUME IncTypes, Clock, NEW i \in Thing, NEW e, NEW w,
         w.fresh = NextFresh(i, e)
  PROVE  /\ \A p \in w.fresh : p[2] <= thing[p[1]].version
         /\ \A j \in Thing : <<j, thing[j].version>> \in walk.fresh
                             => <<j, thing[j].version>> \in w.fresh
         /\ e = "read" => <<i, thing[i].version>> \in w.fresh
<1>1. thing[i].version \in Nat /\ \A p \in walk.fresh : p[2] <= thing[p[1]].version
  BY GroundTypes DEF Clock
<1>2. \A p \in w.fresh : p[2] <= thing[p[1]].version
  <2> SUFFICES ASSUME NEW p \in w.fresh PROVE p[2] <= thing[p[1]].version
    OBVIOUS
  <2>1. CASE p \in walk.fresh
    BY <1>1, <2>1
  <2>2. CASE p = <<i, thing[i].version>>
    BY <1>1, <2>2
  <2>3. QED
    BY <2>1, <2>2 DEF NextFresh
<1>3. ASSUME NEW j \in Thing, <<j, thing[j].version>> \in walk.fresh
      PROVE  <<j, thing[j].version>> \in w.fresh
  <2>1. CASE j = i
    BY <1>3, <2>1 DEF NextFresh
  <2>2. CASE j # i
    <3>1. <<j, thing[j].version>>[1] # i
      BY <2>2
    <3>2. QED
      BY <1>3, <3>1 DEF NextFresh
  <2>3. QED
    BY <2>1, <2>2
<1>4. QED
  BY <1>2, <1>3 DEF NextFresh

\* The position after an issue is past no pending one: those are found and no earlier.
LEMMA FinishedBehind ==
  ASSUME IncTypes, NEW i \in Thing, NEW j \in Thing, i # j, DateOf(i) <= DateOf(j),
         NotPast(walk.mark, j)
  PROVE  NotPast(FinishedAt(i), j)
<1> DEFINE done == IF walk.mark.at = DateOf(i) THEN walk.mark.done \cup {i} ELSE {i}
<1>1. DateOf(j) = Dated(walk.spec, j) /\ DateOf(i) \in Nat /\ DateOf(j) \in Nat
  BY GroundTypes DEF DateOf, Dated
<1>2. FinishedAt(i) = IF Cardinality(done) <= MaxMinuteIds THEN [at |-> DateOf(i), done |-> done]
                      ELSE walk.mark
  BY DEF FinishedAt
<1>3. DateOf(j) = DateOf(i) => j \notin done
  BY <1>1 DEF NotPast
<1> HIDE DEF done
<1>4. CASE FinishedAt(i) = walk.mark
  BY <1>4
<1>5. CASE FinishedAt(i) = [at |-> DateOf(i), done |-> done]
  BY <1>1, <1>3, <1>5 DEF NotPast
<1>6. QED
  BY <1>2, <1>4, <1>5

LEMMA FinishedPlace ==
  ASSUME IncTypes, NEW i \in Thing
  PROVE  FinishedAt(i) \in PlaceT
<1> DEFINE done == IF walk.mark.at = DateOf(i) THEN walk.mark.done \cup {i} ELSE {i}
<1>1. walk.mark \in PlaceT /\ DateOf(i) \in Nat
  BY GroundTypes DEF DateOf
<1>2. done \subseteq Thing
  BY <1>1 DEF PlaceT
<1>3. FinishedAt(i) = IF Cardinality(done) <= MaxMinuteIds THEN [at |-> DateOf(i), done |-> done]
                      ELSE walk.mark
  BY DEF FinishedAt
<1> HIDE DEF done
<1>4. QED
  BY <1>1, <1>2, <1>3 DEF PlaceT

LEMMA ReadIssueInv ==
  ASSUME CursorInv, NEW i \in Thing, NEW e, ReadIssue(i, e)
  PROVE  CursorInv'
<1>1. IncTypes /\ Clock /\ JiraWalk
  BY InvParts
<1>2. /\ walk.on /\ Jira /\ i \in Found /\ \A j \in Found : DateOf(i) <= DateOf(j)
      /\ walk' = (IF NamedInMinute(i) THEN Passed(i) ELSE Yielded(i, e, FinishedAt(i)))
      /\ UNCHANGED <<minute, source, thing, cursor, launching, sourceScan, specs, read, raced>>
  BY DEF ReadIssue, Jira
<1>3. /\ walk' \in WalkT /\ walk'.spec = walk.spec /\ walk'.resume = walk.resume
      /\ walk'.saved = walk.saved /\ walk'.on = walk.on
      /\ walk'.given = walk.given \cup {<<i, Dated(walk.spec, i)>>}
      /\ walk.hole => walk'.hole
      /\ NamedInMinute(i) => walk'.fresh = walk.fresh /\ walk'.mark = walk.mark
      /\ ~NamedInMinute(i) =>
           /\ e # "read" => walk'.hole
           /\ e = "read" => walk'.mark = FinishedAt(i)
           /\ walk'.fresh = NextFresh(i, e)
  <2>1. CASE NamedInMinute(i)
    BY <1>1, <1>2, <2>1, PassedFields
  <2>2. CASE ~NamedInMinute(i)
    <3> DEFINE w == Yielded(i, e, FinishedAt(i))
    <3>1. /\ w \in WalkT /\ w.spec = walk.spec /\ w.resume = walk.resume /\ w.saved = walk.saved
          /\ w.on = walk.on /\ w.given = walk.given \cup {<<i, Dated(walk.spec, i)>>}
          /\ w.newest \in {walk.newest, thing[i].updated}
          /\ w.fresh = NextFresh(i, e)
          /\ (e # "read" => w.hole) /\ (walk.hole => w.hole)
          /\ (e = "read" => w.mark = FinishedAt(i))
      BY <1>1, YieldedFields, FinishedPlace
    <3>2. walk' = w
      BY <1>2, <2>2
    <3> HIDE DEF w
    <3>3. QED
      BY <2>2, <3>1, <3>2
  <2>3. QED
    BY <2>1, <2>2
<1>4. /\ \A p \in walk'.fresh : p[2] <= thing[p[1]].version
      /\ \A j \in Thing : <<j, thing[j].version>> \in walk.fresh
                          => <<j, thing[j].version>> \in walk'.fresh
      /\ ~NamedInMinute(i) /\ e = "read" => <<i, thing[i].version>> \in walk'.fresh
  <2>1. CASE NamedInMinute(i)
    BY <1>1, <1>3, <2>1 DEF Clock
  <2>2. CASE ~NamedInMinute(i)
    BY <1>1, <1>3, <2>2, FreshKept
  <2>3. QED
    BY <2>1, <2>2
<1>5. ASSUME Matched, ~sourceScan.hole, NEW j \in Thing, JiraPending(j)
      PROVE  /\ NotPast(walk.saved, j) /\ NotPast(walk.resume, j)
             /\ \/ walk'.hole
                \/ <<j, thing[j].version>> \in walk'.fresh
                \/ <<j, Dated(walk.spec, j)>> \notin walk'.given /\ NotPast(walk'.mark, j)
  <2>1. JiraAhead(j)
    BY <1>1, <1>2, <1>5 DEF JiraWalk
  <2>2. NotPast(walk.saved, j) /\ NotPast(walk.resume, j)
    BY <2>1 DEF JiraAhead
  <2>3. CASE walk.hole \/ <<j, thing[j].version>> \in walk.fresh
    BY <1>3, <1>4, <2>2, <2>3
  <2>4. CASE <<j, Dated(walk.spec, j)>> \notin walk.given /\ NotPast(walk.mark, j)
    <3>1. j \in Found
      BY <1>1, <1>5, <2>2, <2>4, PendingFound
    <3>2. DateOf(i) <= DateOf(j) /\ DateOf(j) = Dated(walk.spec, j)
      BY <1>2, <3>1 DEF DateOf, Dated
    <3>3. CASE NamedInMinute(i)
      <4>1. j # i
        BY <2>2, <3>2, <3>3 DEF NamedInMinute, NotPast
      <4>2. QED
        BY <1>3, <2>2, <2>4, <3>3, <4>1
    <3>4. CASE ~NamedInMinute(i) /\ e # "read"
      BY <1>3, <2>2, <3>4
    <3>5. CASE ~NamedInMinute(i) /\ e = "read" /\ j = i
      BY <1>4, <2>2, <3>5
    <3>6. CASE ~NamedInMinute(i) /\ e = "read" /\ j # i
      BY <1>1, <1>3, <2>2, <2>4, <3>2, <3>6, FinishedBehind
    <3>7. QED
      BY <3>3, <3>4, <3>5, <3>6
  <2>5. QED
    BY <2>1, <2>3, <2>4 DEF JiraAhead
<1>6. JiraWalk'
  <2> SUFFICES ASSUME Matched, ~sourceScan.hole, NEW j \in Thing, JiraPending(j)'
               PROVE  JiraAhead(j)'
    BY <1>2 DEF JiraWalk, Matched
  <2>1. JiraPending(j)
    BY <1>2, <1>3 DEF JiraPending, Within, Dated, Reported, Present
  <2>2. QED
    BY <1>2, <1>3, <1>5, <2>1 DEF JiraAhead, NotPast, Dated
<1>7. ~Confluence
  BY <1>2 DEF Jira, Confluence
<1>8. QED
  BY <1>2, <1>3, <1>4, <1>6, <1>7, WalkStepInv

LEMMA ReadPageInv ==
  ASSUME CursorInv, NEW i \in Thing, NEW e, ReadPage(i, e)
  PROVE  CursorInv'
<1>1. IncTypes /\ Clock /\ PageOrder /\ PageWalk /\ ConfluenceBounds
  BY InvParts
<1> DEFINE place == [at |-> 0, done |-> {i}]
           passing == thing[i].updated <= walk.spec.from \/ Skipping
<1>2. /\ walk.on /\ Confluence /\ Listed # {} /\ i = Min(Listed)
      /\ walk' = (IF passing THEN Passed(i) ELSE Yielded(i, e, place))
      /\ UNCHANGED <<minute, source, thing, cursor, launching, sourceScan, specs, read, raced>>
  BY DEF ReadPage, Confluence
<1>3. /\ i \in Present /\ (\A p \in walk.given : p[1] < i) /\ \A j \in Listed : i <= j
  <2>1. Listed \subseteq Nat
    BY IncrementalAssumption DEF Listed, Present, Thing
  <2>2. QED
    BY <1>2, <2>1, MinOf DEF Listed
<1>4. place \in PlaceT /\ place.done = {i}
  BY DEF PlaceT
<1> HIDE DEF place, passing
<1>5. /\ walk' \in WalkT /\ walk'.spec = walk.spec /\ walk'.resume = walk.resume
      /\ walk'.saved = walk.saved /\ walk'.on = walk.on
      /\ walk'.given = walk.given \cup {<<i, Dated(walk.spec, i)>>}
      /\ walk'.newest \in {walk.newest, thing[i].updated}
      /\ walk.hole => walk'.hole
      /\ passing => walk'.fresh = walk.fresh /\ walk'.mark = walk.mark
      /\ ~passing =>
           /\ e # "read" => walk'.hole
           /\ e = "read" => walk'.mark = place
           /\ walk'.fresh = NextFresh(i, e)
  <2>1. CASE passing
    BY <1>1, <1>2, <2>1, PassedFields
  <2>2. CASE ~passing
    <3> DEFINE w == Yielded(i, e, place)
    <3>1. /\ w \in WalkT /\ w.spec = walk.spec /\ w.resume = walk.resume /\ w.saved = walk.saved
          /\ w.on = walk.on /\ w.given = walk.given \cup {<<i, Dated(walk.spec, i)>>}
          /\ w.newest \in {walk.newest, thing[i].updated}
          /\ w.fresh = NextFresh(i, e)
          /\ (e # "read" => w.hole) /\ (walk.hole => w.hole)
          /\ (e = "read" => w.mark = place)
      BY <1>1, <1>4, YieldedFields
    <3>2. walk' = w
      BY <1>2, <2>2
    <3> HIDE DEF w
    <3>3. QED
      BY <2>2, <3>1, <3>2
  <2>3. QED
    BY <2>1, <2>2
<1>6. /\ \A p \in walk'.fresh : p[2] <= thing[p[1]].version
      /\ \A j \in Thing : <<j, thing[j].version>> \in walk.fresh
                          => <<j, thing[j].version>> \in walk'.fresh
      /\ ~passing /\ e = "read" => <<i, thing[i].version>> \in walk'.fresh
  <2>1. CASE passing
    BY <1>1, <1>5, <2>1 DEF Clock
  <2>2. CASE ~passing
    BY <1>1, <1>5, <2>2, FreshKept
  <2>3. QED
    BY <2>1, <2>2
<1>7. GivenIds' = GivenIds \cup {i}
  <2>1. <<i, Dated(walk.spec, i)>>[1] = i
    OBVIOUS
  <2>2. QED
    BY <1>5, <2>1 DEF GivenIds
<1>8. /\ \A g \in GivenIds : g < i /\ g \in Thing
      /\ \A j \in Thing : j \in Nat
  <2>1. walk.given \subseteq Thing \X Nat
    BY <1>1, GroundTypes
  <2>2. QED
    BY <1>3, <2>1, IncrementalAssumption DEF GivenIds, Thing
\* The pages still to be listed come after the one just listed.
<1>9. ASSUME NEW j \in Present \ raced, j \notin GivenIds
      PROVE  i <= j
  <2>1. j \in Listed
    BY <1>1, <1>2, <1>9 DEF PageOrder, Listed, GivenIds
  <2>2. QED
    BY <1>3, <2>1
<1>10. PageOrder'
  <2> SUFFICES ASSUME NEW j \in Present \ raced, NEW g \in GivenIds \cup {i}
               PROVE  j \in GivenIds \cup {i} \/ g < j
    BY <1>2, <1>7 DEF PageOrder, Present
  <2>1. j \in Thing /\ j \in Nat /\ i \in Nat
    BY <1>8 DEF Present
  <2>2. CASE g \in GivenIds
    BY <1>1, <1>2, <2>2 DEF PageOrder
  <2>3. CASE g = i /\ j \notin GivenIds
    BY <1>9, <2>1, <2>3
  <2>4. QED
    BY <2>2, <2>3
<1>11. Reached(walk'.newest)
  BY <1>1, <1>2, <1>5, GroundTypes DEF ConfluenceBounds, Reached
<1>12. ASSUME Matched, ~sourceScan.hole, NEW j \in Thing, PagePending(j)
       PROVE  /\ \A k \in walk.saved.done : k < j
              /\ \A k \in walk.resume.done : k < j
              /\ \/ walk'.hole
                 \/ <<j, thing[j].version>> \in walk'.fresh
                 \/ (\A k \in walk'.mark.done : k < j) /\ (j \in GivenIds' => Skipping')
  <2>1. PageAhead(j)
    BY <1>1, <1>2, <1>12 DEF PageWalk
  <2>2. /\ \A k \in walk.saved.done : k < j
        /\ \A k \in walk.resume.done : k < j
    BY <2>1 DEF PageAhead
  <2>3. CASE walk.hole \/ <<j, thing[j].version>> \in walk.fresh
    BY <1>5, <1>6, <2>2, <2>3
  <2>4. CASE (\A k \in walk.mark.done : k < j) /\ (j \in GivenIds => Skipping)
    <3>1. CASE passing
      <4>1. walk'.mark = walk.mark
        BY <1>5, <3>1
      <4>2. ASSUME j \in GivenIds'
            PROVE  Skipping'
        <5>1. i \in Nat /\ j \in Nat
          BY <1>8
        <5>2. Skipping /\ j <= i
          <6>1. CASE j \in GivenIds
            BY <1>8, <2>4, <5>1, <6>1
          <6>2. CASE j = i
            <7>1. ~(thing[i].updated <= walk.spec.from)
              BY <1>1, <1>12, <6>2, GroundTypes DEF PagePending
            <7>2. QED
              BY <3>1, <5>1, <6>2, <7>1 DEF passing
          <6>3. QED
            BY <1>7, <4>2, <6>1, <6>2
        <5>3. i \notin walk.resume.done
          BY <2>2, <5>1, <5>2
        <5>4. <<i, Dated(walk.spec, i)>>[1] = i
          OBVIOUS
        <5>5. QED
          BY <1>5, <5>2, <5>3, <5>4 DEF Skipping
      <4>3. QED
        BY <2>2, <2>4, <4>1, <4>2
    <3>2. CASE ~passing /\ e # "read"
      BY <1>5, <2>2, <3>2
    <3>3. CASE ~passing /\ e = "read" /\ j = i
      BY <1>6, <2>2, <3>3
    <3>4. CASE ~passing /\ e = "read" /\ j # i
      <4>1. j \notin GivenIds /\ j \notin GivenIds'
        BY <1>7, <2>4, <3>4 DEF passing
      <4>2. i < j
        BY <1>8, <1>9, <1>12, <3>4, <4>1 DEF PagePending
      <4>3. \A k \in walk'.mark.done : k < j
        BY <1>4, <1>5, <3>4, <4>2
      <4>4. QED
        BY <2>2, <4>1, <4>3
    <3>5. QED
      BY <3>1, <3>2, <3>3, <3>4
  <2>5. QED
    BY <2>1, <2>3, <2>4 DEF PageAhead
<1>13. PageWalk'
  <2> SUFFICES ASSUME Matched, ~sourceScan.hole, NEW j \in Thing, PagePending(j)'
               PROVE  PageAhead(j)'
    BY <1>2 DEF PageWalk, Matched
  <2>1. PagePending(j)
    BY <1>2, <1>5 DEF PagePending, Reported, Present
  <2>2. QED
    BY <1>2, <1>5, <1>12, <2>1 DEF PageAhead
<1>14. ~Jira
  BY <1>2 DEF Jira, Confluence
<1>15. QED
  BY <1>2, <1>5, <1>6, <1>10, <1>11, <1>13, <1>14, WalkStepInv

----------------------------------------------------------------------------
LEMMA CursorStep == CursorInv /\ [IncrementalNext]_incVars => CursorInv'
<1> SUFFICES ASSUME CursorInv, [IncrementalNext]_incVars PROVE CursorInv'
  OBVIOUS
<1>1. CASE TimePasses \/ LaunchLoads \/ UNCHANGED incVars
  BY <1>1, TimeAndLoads
<1>2. ASSUME NEW i \in Thing, Edit(i) \/ RemoveThing(i)
      PROVE  CursorInv'
  BY <1>2, EditInv, RemoveInv
<1>3. ASSUME NEW t \in {"jira", "confluence"}, CreateSource(t)
      PROVE  CursorInv'
  BY <1>3, CreateSourceInv
<1>4. CASE UpdateSource \/ InvalidateCursors
  BY <1>4, UpdateSourceInv, InvalidateInv
<1>5. ASSUME NEW q \in {"full", "incremental"}, NEW d \in BOOLEAN, LaunchCommits(q, d)
      PROVE  CursorInv'
  BY <1>5, LaunchCommitsInv
<1>6. CASE DiscoverSpaces \/ DiscoverBound \/ DiscoverWindows
  BY <1>6, DiscoverSpacesInv, DiscoverBoundInv, DiscoverWindowsInv
<1>7. ASSUME NEW s \in specs, FetchBegin(s)
      PROVE  CursorInv'
  BY <1>7, FetchBeginInv
<1>8. ASSUME NEW i \in Thing, NEW e, ReadIssue(i, e) \/ ReadPage(i, e)
      PROVE  CursorInv'
  BY <1>8, ReadIssueInv, ReadPageInv
<1>9. CASE BatchAccepted \/ WalkDies \/ FetchEnds \/ ScanEnds
  BY <1>9, BatchAcceptedInv, WalkDiesInv, FetchEndsInv, ScanEndsInv
<1>10. QED
  BY <1>1, <1>2, <1>3, <1>4, <1>5, <1>6, <1>7, <1>8, <1>9 DEF IncrementalNext

\* A watermark never claims coverage of content nobody read, however many things, scans, walks,
\* deaths, resumes and edits there are and whatever the bucket ladder and the limits on windows and
\* named issues: the pages edited during a walk of their space are the only ones it may miss.
THEOREM CursorsHonest == IncrementalSpec => []CursorHonest
<1>1. IncrementalInit => CursorInv
  BY IncInit
<1>2. CursorInv /\ [IncrementalNext]_incVars => CursorInv'
  BY CursorStep
<1>3. CursorInv => CursorHonest
  BY DEF CursorInv
<1>4. QED
  BY <1>1, <1>2, <1>3, PTL DEF IncrementalSpec

----------------------------------------------------------------------------
(* The bounds of a run: the type invariant. *)

Counters ==
  /\ minute <= MaxMinute /\ setbacks \in 0..MaxSetback /\ edits \in 0..MaxEdit
  /\ source.config <= setbacks + 1
  /\ \A i \in Thing : thing[i].version <= edits

ScanBounds ==
  /\ cursor.minted <= MaxMinute /\ sourceScan.no <= MaxLaunch
  /\ sourceScan.at <= Never /\ sourceScan.bound <= Never /\ sourceScan.next <= Never

WalkBounds ==
  /\ specs \subseteq WalkSpec /\ walk.spec \in WalkSpec
  /\ walk.resume \in Position /\ walk.mark \in Position /\ walk.saved \in Position

IncBounds == Counters /\ ScanBounds /\ WalkBounds /\ owed \in [Thing -> 0..MaxEdit]

LEMMA BoundsInit == IncrementalInit => IncBounds
<1> SUFFICES ASSUME IncrementalInit PROVE IncBounds
  OBVIOUS
<1>1. /\ MaxMinute \in Nat \ {0} /\ MaxSetback \in Nat /\ MaxEdit \in Nat /\ MaxLaunch \in Nat
      /\ Never \in Nat
  BY IncrementalAssumption DEF Never
<1>2. Counters
  <2>1. /\ minute = 1 /\ setbacks = 0 /\ edits = 0 /\ source.config = 0
        /\ \A i \in Thing : thing[i].version = 0
    BY DEF IncrementalInit
  <2>2. QED
    BY <1>1, <2>1 DEF Counters
<1>3. ScanBounds
  <2>1. /\ cursor.minted = 0 /\ sourceScan.no = 0 /\ sourceScan.at = 0 /\ sourceScan.bound = 0
        /\ sourceScan.next = 0
    BY DEF IncrementalInit, NoScan
  <2>2. QED
    BY <1>1, <2>1 DEF ScanBounds
<1>4. NoSpec \in WalkSpec /\ Start \in Position
  BY <1>1 DEF NoSpec, WalkSpec, Start, Position
<1>5. WalkBounds
  BY <1>4 DEF WalkBounds, IncrementalInit, NoWalk
<1>6. owed \in [Thing -> 0..MaxEdit]
  BY <1>1 DEF IncrementalInit
<1>7. QED
  BY <1>2, <1>3, <1>5, <1>6 DEF IncBounds

LEMMA BoundConstants ==
  /\ MaxMinute \in Nat /\ MaxSetback \in Nat /\ MaxEdit \in Nat /\ MaxLaunch \in Nat
  /\ Never \in Nat /\ Never = MaxMinute + 2
BY IncrementalAssumption DEF Never

LEMMA SetbackBound ==
  ASSUME setbacks \in 0..MaxSetback, NEW happens \in BOOLEAN, Setback(happens)
  PROVE  /\ setbacks' \in 0..MaxSetback /\ setbacks <= setbacks'
         /\ happens => setbacks' = setbacks + 1
BY BoundConstants DEF Setback

\* A step that changes neither clock, content nor configuration.
LEMMA QuietCounters ==
  ASSUME CursorInv, Counters, UNCHANGED <<minute, source, thing, edits>>,
         setbacks' \in 0..MaxSetback, setbacks <= setbacks'
  PROVE  Counters'
<1>1. source.config \in Nat
  BY InvParts, GroundTypes
<1>2. source.config <= setbacks' + 1
  BY <1>1, BoundConstants DEF Counters
<1>3. QED
  BY <1>2 DEF Counters

LEMMA CountersStep ==
  ASSUME CursorInv, Counters, [IncrementalNext]_incVars
  PROVE  Counters'
<1>1. /\ minute \in Nat /\ source.config \in Nat /\ source \in SourceT
      /\ thing \in [Thing -> ThingT]
      /\ \A i \in Thing : thing[i].version \in Nat /\ thing[i] \in ThingT
      /\ setbacks \in 0..MaxSetback /\ setbacks \in Nat
  BY InvParts, GroundTypes, BoundConstants DEF IncTypes, Counters
<1>2. CASE TimePasses
  BY <1>1, <1>2, BoundConstants DEF TimePasses, Counters
<1>3. ASSUME NEW i \in Thing, Edit(i)
      PROVE  Counters'
  <2> DEFINE c == IF thing[i].created = 0 THEN minute ELSE thing[i].created
             v == thing[i].version + 1
             new == [created |-> c, updated |-> minute, version |-> v]
  <2>1. thing' = [thing EXCEPT ![i] = new]
    BY <1>3, Zenon DEF Edit
  <2>2. /\ edits < MaxEdit /\ edits' = edits + 1
        /\ UNCHANGED <<minute, source, setbacks>>
    BY <1>3 DEF Edit
  <2>3. edits \in Nat /\ v \in Nat /\ v <= edits + 1 /\ edits + 1 \in 0..MaxEdit
    BY <1>1, <2>2, BoundConstants DEF Counters
  <2> HIDE DEF c, v
  <2>4. new.version = v
    OBVIOUS
  <2> HIDE DEF new
  <2>5. thing'[i] = new /\ \A j \in Thing : j # i => thing'[j] = thing[j]
    BY <1>1, <2>1
  <2>6. ASSUME NEW j \in Thing
        PROVE  thing'[j].version <= edits'
    <3>1. CASE j = i
      BY <2>2, <2>3, <2>4, <2>5, <3>1
    <3>2. CASE j # i
      BY <1>1, <2>2, <2>3, <2>5, <3>2 DEF Counters
    <3>3. QED
      BY <3>1, <3>2
  <2>7. QED
    BY <2>2, <2>3, <2>6 DEF Counters
<1>4. ASSUME NEW i \in Thing, RemoveThing(i)
      PROVE  Counters'
  <2>1. /\ thing' = [thing EXCEPT ![i] = [thing[i] EXCEPT !.created = 0]]
        /\ UNCHANGED <<minute, source, edits>>
    BY <1>1, <1>4 DEF RemoveThing
  <2> DEFINE new == [thing[i] EXCEPT !.created = 0]
  <2>2. new.version = thing[i].version
    BY <1>1 DEF ThingT
  <2>3. thing' = [thing EXCEPT ![i] = new]
    BY <2>1
  <2> HIDE DEF new
  <2>4. \A j \in Thing : thing'[j].version = thing[j].version
    BY <1>1, <2>2, <2>3
  <2>5. setbacks' \in 0..MaxSetback /\ setbacks <= setbacks'
    BY <1>1, <1>4, SetbackBound DEF RemoveThing
  <2>6. source.config <= setbacks' + 1
    BY <1>1, <2>5, BoundConstants DEF Counters
  <2>7. QED
    BY <2>1, <2>4, <2>5, <2>6 DEF Counters
<1>5. ASSUME NEW t, CreateSource(t)
      PROVE  Counters'
  <2>1. source'.config = 1 /\ UNCHANGED <<minute, thing, edits, setbacks>>
    BY <1>5 DEF CreateSource
  <2>2. 1 <= setbacks + 1
    BY <1>1
  <2>3. QED
    BY <2>1, <2>2 DEF Counters
<1>6. CASE UpdateSource
  <2>1. setbacks' \in 0..MaxSetback /\ setbacks' = setbacks + 1
    BY <1>1, <1>6, SetbackBound DEF UpdateSource
  <2>2. source'.config = source.config + 1 /\ UNCHANGED <<minute, thing, edits>>
    BY <1>1, <1>6 DEF UpdateSource, SourceT
  <2>3. source.config + 1 <= setbacks + 1 + 1
    BY <1>1 DEF Counters
  <2>4. QED
    BY <2>1, <2>2, <2>3 DEF Counters
<1>7. CASE InvalidateCursors \/ LaunchLoads \/ DiscoverSpaces \/ DiscoverBound \/ DiscoverWindows
  <2>1. UNCHANGED <<minute, source, thing, edits, setbacks>>
    BY <1>7, Zenon
       DEF InvalidateCursors, LaunchLoads, DiscoverSpaces, DiscoverBound, DiscoverWindows
  <2>2. setbacks <= setbacks
    BY <1>1
  <2>3. QED
    BY <1>1, <2>1, <2>2, QuietCounters
<1>8. ASSUME NEW q, NEW d, LaunchCommits(q, d)
      PROVE  Counters'
  BY <1>1, <1>8, QuietCounters DEF LaunchCommits
<1>9. ASSUME NEW s, FetchBegin(s)
      PROVE  Counters'
  BY <1>1, <1>9, QuietCounters DEF FetchBegin
<1>10. ASSUME NEW i \in Thing, NEW e, ReadIssue(i, e) \/ ReadPage(i, e)
       PROVE  Counters'
  <2>1. Setback(e # "read") /\ UNCHANGED <<minute, source, thing, edits>>
    BY <1>10 DEF ReadIssue, ReadPage
  <2>2. setbacks' \in 0..MaxSetback /\ setbacks <= setbacks'
    <3>1. (e # "read") \in BOOLEAN
      OBVIOUS
    <3>2. QED
      BY <1>1, <2>1, <3>1, SetbackBound
  <2>3. QED
    BY <2>1, <2>2, QuietCounters
<1>11. CASE WalkDies
  <2>1. setbacks' \in 0..MaxSetback /\ setbacks <= setbacks'
    BY <1>1, <1>11, SetbackBound DEF WalkDies
  <2>2. QED
    BY <1>11, <2>1, QuietCounters DEF WalkDies
<1>12. CASE BatchAccepted \/ FetchEnds \/ ScanEnds \/ UNCHANGED incVars
  BY <1>1, <1>12, QuietCounters DEF BatchAccepted, FetchEnds, ScanEnds, incVars
<1>13. QED
  BY <1>2, <1>3, <1>4, <1>5, <1>6, <1>7, <1>8, <1>9, <1>10, <1>11, <1>12 DEF IncrementalNext

\* The scan keeps its window and its number.
WindowKept ==
  /\ sourceScan'.no = sourceScan.no /\ sourceScan'.at = sourceScan.at
  /\ sourceScan'.bound = sourceScan.bound /\ sourceScan'.next = sourceScan.next

LEMMA ScanBoundsStep ==
  ASSUME CursorInv, CursorInv', Counters, ScanBounds, [IncrementalNext]_incVars
  PROVE  ScanBounds'
<1>1. /\ minute \in Nat /\ minute <= MaxMinute /\ sourceScan \in ScanT /\ cursor \in CursorT
      /\ sourceScan.no \in Nat
  BY InvParts, GroundTypes DEF IncTypes, Counters
<1>2. CASE UNCHANGED <<cursor, sourceScan>>
  BY <1>2 DEF ScanBounds
<1>3. CASE InvalidateCursors
  <2>1. cursor'.minted = cursor.minted /\ sourceScan' = sourceScan
    BY <1>1, <1>3 DEF InvalidateCursors, CursorT
  <2>2. QED
    BY <2>1 DEF ScanBounds
<1>4. ASSUME NEW q, NEW d, LaunchCommits(q, d), ~UNCHANGED <<cursor, sourceScan>>
      PROVE  ScanBounds'
  <2> DEFINE n == sourceScan.no + 1
             inc == q = "incremental" /\ Trusted(d)
             m == IF inc THEN "incremental" ELSE "full"
             live == cursor.live /\ (q = "full" \/ inc)
  <2>1. /\ sourceScan.no < MaxLaunch
        /\ sourceScan' = [NoScan EXCEPT !.phase = "probe", !.config = launching,
                                        !.no = n, !.mode = m]
        /\ cursor' = [cursor EXCEPT !.live = live]
    BY <1>4 DEF LaunchCommits
  <2>2. n \in Nat /\ n <= MaxLaunch
    BY <1>1, <2>1, BoundConstants
  <2> HIDE DEF n, inc, m, live
  <2>3. /\ sourceScan'.no = n /\ sourceScan'.at = 0 /\ sourceScan'.bound = 0
        /\ sourceScan'.next = 0
    BY <2>1 DEF NoScan
  <2>4. cursor'.minted = cursor.minted
    BY <1>1, <2>1 DEF CursorT
  <2>5. QED
    BY <2>2, <2>3, <2>4, BoundConstants DEF ScanBounds
<1>5. CASE DiscoverBound
  <2>1. source'.type = "jira" /\ minute' = minute /\ cursor' = cursor
    BY <1>5 DEF DiscoverBound
  <2>2. /\ sourceScan'.next <= minute /\ sourceScan'.at <= minute
        /\ sourceScan'.bound = (IF sourceScan'.next = 0 THEN 0 ELSE sourceScan'.next + 1)
        /\ sourceScan' \in ScanT
    BY <2>1 DEF CursorInv, Ground, IncTypes, JiraBounds, Jira
  <2>3. sourceScan'.next \in Nat /\ sourceScan'.at \in Nat
    BY <2>2 DEF ScanT
  <2>4. sourceScan'.no = sourceScan.no
    <3>1. CASE Present = {}
      BY <1>1, <1>5, <3>1 DEF DiscoverBound, ScanT
    <3>2. CASE Present # {}
      <4>1. PICK b, n : sourceScan' = [sourceScan EXCEPT !.phase = "windows", !.at = Watermark,
                                                         !.bound = b, !.next = n]
        BY <1>5, <3>2 DEF DiscoverBound
      <4>2. QED
        BY <1>1, <4>1 DEF ScanT
    <3>3. QED
      BY <3>1, <3>2
  <2>5. /\ sourceScan'.next <= Never /\ sourceScan'.at <= Never /\ sourceScan'.bound <= Never
    BY <1>1, <2>2, <2>3, BoundConstants
  <2>6. QED
    BY <2>1, <2>4, <2>5 DEF ScanBounds
<1>6. CASE DiscoverSpaces \/ DiscoverWindows
  <2>1. sourceScan' = [sourceScan EXCEPT !.phase = "fetch"] /\ cursor' = cursor
    BY <1>6 DEF DiscoverSpaces, DiscoverWindows
  <2>2. WindowKept
    BY <1>1, <2>1 DEF ScanT, WindowKept
  <2>3. QED
    BY <2>1, <2>2 DEF ScanBounds, WindowKept
<1>7. CASE BatchAccepted
  <2> DEFINE h == sourceScan.hole \/ walk.hole
  <2>1. sourceScan' = [sourceScan EXCEPT !.hole = h] /\ cursor' = cursor
    BY <1>7 DEF BatchAccepted
  <2> HIDE DEF h
  <2>2. WindowKept
    BY <1>1, <2>1 DEF ScanT, WindowKept
  <2>3. QED
    BY <2>1, <2>2 DEF ScanBounds, WindowKept
<1>8. CASE FetchEnds
  <2> DEFINE lost == source.type = "confluence" /\ Skipping
             h == sourceScan.hole \/ walk.hole \/ lost
             o == IF source.type = "jira" THEN walk.spec.bound
                  ELSE IF lost THEN 0 ELSE walk.newest
  <2>1. sourceScan' = [sourceScan EXCEPT !.hole = h, !.offer = o] /\ cursor' = cursor
    BY <1>8 DEF FetchEnds
  <2> HIDE DEF lost, h, o
  <2>2. WindowKept
    BY <1>1, <2>1 DEF ScanT, WindowKept
  <2>3. QED
    BY <2>1, <2>2 DEF ScanBounds, WindowKept
<1>9. CASE ScanEnds
  <2>1. sourceScan' = [sourceScan EXCEPT !.phase = "done"]
    BY <1>9 DEF ScanEnds
  <2>2. cursor' = cursor \/ cursor'.minted = minute
    BY <1>9 DEF ScanEnds, Watermarked
  <2>3. cursor'.minted <= MaxMinute
    BY <1>1, <2>2 DEF ScanBounds
  <2>4. WindowKept
    BY <1>1, <2>1 DEF ScanT, WindowKept
  <2>5. QED
    BY <2>3, <2>4 DEF ScanBounds, WindowKept
<1>10. CASE TimePasses \/ UpdateSource \/ LaunchLoads \/ WalkDies \/ UNCHANGED incVars
  BY <1>2, <1>10 DEF TimePasses, UpdateSource, LaunchLoads, WalkDies, incVars
<1>11. ASSUME NEW i, Edit(i) \/ RemoveThing(i) \/ CreateSource(i) \/ FetchBegin(i)
       PROVE  ScanBounds'
  BY <1>2, <1>11 DEF Edit, RemoveThing, CreateSource, FetchBegin
<1>12. ASSUME NEW i, NEW e, ReadIssue(i, e) \/ ReadPage(i, e)
       PROVE  ScanBounds'
  BY <1>2, <1>12 DEF ReadIssue, ReadPage
<1>13. QED
  BY <1>2, <1>3, <1>4, <1>5, <1>6, <1>7, <1>8, <1>9, <1>10, <1>11, <1>12 DEF IncrementalNext

LEMMA PositionOf ==
  ASSUME NEW d \in Nat, d <= MaxMinute, NEW done, done \subseteq Thing
  PROVE  [at |-> d, done |-> done] \in Position
<1>1. d \in 0..MaxMinute
  BY BoundConstants
<1>2. QED
  BY <1>1 DEF Position

LEMMA WatermarkBound ==
  ASSUME CursorInv
  PROVE  Watermark \in Nat /\ Watermark <= minute /\ sourceScan.offer <= minute /\ cursor.at <= minute
<1>1. IncTypes /\ Clock /\ Configs /\ JiraBounds /\ ConfluenceBounds
  BY InvParts
<1>2. /\ minute \in Nat /\ cursor.at \in Nat /\ sourceScan.offer \in Nat /\ sourceScan.next \in Nat
      /\ \A i \in Thing : thing[i].updated \in Nat /\ thing[i].updated <= minute
      /\ source.type \in {"none", "jira", "confluence"}
  BY <1>1, GroundTypes DEF Clock
<1>3. ASSUME NEW x \in Nat, Reached(x)
      PROVE  x <= minute
  BY <1>2, <1>3 DEF Reached
<1>4. cursor.at <= minute /\ sourceScan.offer <= minute
  <2>1. CASE Jira
    BY <1>1, <1>2, <2>1 DEF JiraBounds
  <2>2. CASE Confluence
    BY <1>1, <1>2, <1>3, <2>2 DEF ConfluenceBounds
  <2>3. CASE source.type = "none"
    BY <1>1, <1>2, <2>3, NoScanFields DEF Configs
  <2>4. QED
    BY <1>2, <2>1, <2>2, <2>3 DEF Jira, Confluence
<1>5. QED
  BY <1>2, <1>4 DEF Watermark

LEMMA WalkBoundsStep ==
  ASSUME CursorInv, Counters, ScanBounds, WalkBounds, [IncrementalNext]_incVars
  PROVE  WalkBounds'
<1>1. /\ IncTypes /\ Clock
      /\ minute \in Nat /\ minute <= MaxMinute /\ walk \in WalkT
      /\ sourceScan.at \in 0..Never /\ sourceScan.bound \in 0..Never
      /\ sourceScan.next \in 0..Never
  BY InvParts, GroundTypes, BoundConstants DEF IncTypes, Counters, ScanBounds
<1>2. CASE UNCHANGED <<specs, walk>>
  BY <1>2 DEF WalkBounds
<1>3. 0 \in 0..Never /\ NoSpec \in WalkSpec /\ Start \in Position
  BY BoundConstants DEF NoSpec, WalkSpec, Start, Position
<1>4. CASE DiscoverSpaces
  <2>1. specs' = {[NoSpec EXCEPT !.field = "updated", !.from = Watermark]} /\ walk' = walk
    BY <1>4 DEF DiscoverSpaces
  <2>2. Watermark \in 0..Never
    BY <1>1, WatermarkBound, BoundConstants
  <2>3. [NoSpec EXCEPT !.field = "updated", !.from = Watermark] \in WalkSpec
    BY <1>3, <2>2 DEF NoSpec, WalkSpec
  <2>4. QED
    BY <2>1, <2>3 DEF WalkBounds
<1>5. CASE DiscoverWindows
  <2>1. specs' \subseteq UpdatedWindow \cup CreatedWindows /\ walk' = walk
    BY <1>5 DEF DiscoverWindows
  <2>2. UpdatedWindow \subseteq WalkSpec
    BY <1>1 DEF UpdatedWindow, WalkSpec
  <2>3. ASSUME NEW s \in CreatedWindows
        PROVE  s \in WalkSpec
    <3>1. /\ s \in SpecT /\ s.bound = sourceScan.next /\ s.from <= minute + 2
          /\ s.to <= minute + 2 \/ s.to = Never
      BY <1>1, WindowsCover
    <3>2. s.from \in Nat /\ s.to \in Nat
      BY <3>1 DEF SpecT
    <3>3. s.from \in 0..Never /\ s.to \in 0..Never /\ s.bound \in 0..Never
      BY <1>1, <3>1, <3>2, BoundConstants
    <3>4. QED
      BY <3>1, <3>3 DEF SpecT, WalkSpec
  <2>4. QED
    BY <2>1, <2>2, <2>3 DEF WalkBounds
<1>6. ASSUME NEW s \in specs, FetchBegin(s)
      PROVE  WalkBounds'
  <2>1. specs' = specs \ {s} /\ walk' = [NoWalk EXCEPT !.spec = s, !.on = TRUE] /\ s \in WalkSpec
    BY <1>6 DEF FetchBegin, WalkBounds
  <2>2. /\ walk'.spec = s /\ walk'.resume = Start /\ walk'.mark = Start /\ walk'.saved = Start
    BY <2>1 DEF NoWalk
  <2>3. QED
    BY <1>3, <2>1, <2>2 DEF WalkBounds
<1>7. CASE WalkDies
  <2>1. /\ specs' = specs
        /\ walk' = [NoWalk EXCEPT !.spec = walk.spec, !.on = TRUE,
                                  !.resume = walk.saved, !.saved = walk.saved]
    BY <1>7 DEF WalkDies
  <2>2. /\ walk'.spec = walk.spec /\ walk'.resume = walk.saved /\ walk'.mark = Start
        /\ walk'.saved = walk.saved
    BY <2>1 DEF NoWalk
  <2>3. QED
    BY <1>3, <2>1, <2>2 DEF WalkBounds
<1>8. CASE FetchEnds
  <2>1. /\ specs' = specs /\ walk'.spec = NoSpec /\ walk'.resume = Start /\ walk'.mark = Start
        /\ walk'.saved = Start
    BY <1>8 DEF FetchEnds, NoWalk
  <2>2. QED
    BY <1>3, <2>1 DEF WalkBounds
<1>9. CASE BatchAccepted
  <2>1. /\ specs' = specs
        /\ walk' = [walk EXCEPT !.fresh = {}, !.saved = walk.mark, !.hole = FALSE]
    BY <1>9 DEF BatchAccepted
  <2>2. /\ walk'.spec = walk.spec /\ walk'.resume = walk.resume /\ walk'.mark = walk.mark
        /\ walk'.saved = walk.mark
    BY <1>1, <2>1 DEF WalkT
  <2>3. QED
    BY <2>1, <2>2 DEF WalkBounds
<1>10. ASSUME NEW i \in Thing, NEW e, NEW m \in Position,
              walk' \in {Passed(i), Yielded(i, e, m)}, specs' = specs
       PROVE  WalkBounds'
  <2>1. m \in PlaceT
    <3>1. 0..MaxMinute \subseteq Nat
      OBVIOUS
    <3>2. QED
      BY <1>10, <3>1 DEF Position, PlaceT
  <2>2. CASE walk' = Passed(i)
    BY <1>1, <1>10, <2>2, PassedFields DEF WalkBounds
  <2>3. CASE walk' = Yielded(i, e, m)
    <3>1. Yielded(i, e, m).mark \in {m, walk.mark}
      <4> DEFINE x == Passed(i)
                 f == IF e # "read" THEN x.fresh
                      ELSE {p \in x.fresh : p[1] # i} \cup {<<i, thing[i].version>>}
                 h == x.hole \/ e # "read"
                 k == IF e # "refused" THEN m ELSE x.mark
      <4>1. Yielded(i, e, m) = [x EXCEPT !.fresh = f, !.hole = h, !.mark = k]
        BY DEF Yielded
      <4>2. x \in WalkT /\ x.mark = walk.mark
        BY <1>1, PassedFields
      <4>3. k \in {m, walk.mark}
        BY <4>2
      <4> HIDE DEF x, f, h, k
      <4>4. Yielded(i, e, m).mark = k
        BY <4>1, <4>2 DEF WalkT
      <4>5. QED
        BY <4>3, <4>4
    <3>2. /\ Yielded(i, e, m).spec = walk.spec /\ Yielded(i, e, m).resume = walk.resume
          /\ Yielded(i, e, m).saved = walk.saved
      BY <1>1, <2>1, YieldedFields
    <3>3. QED
      BY <1>10, <2>3, <3>1, <3>2 DEF WalkBounds
  <2>4. QED
    BY <1>10, <2>2, <2>3
<1>11. ASSUME NEW i \in Thing, NEW e, ReadIssue(i, e) \/ ReadPage(i, e)
       PROVE  WalkBounds'
  <2>1. CASE ReadIssue(i, e)
    <3> DEFINE done == IF walk.mark.at = DateOf(i) THEN walk.mark.done \cup {i} ELSE {i}
    <3>1. DateOf(i) \in Nat /\ DateOf(i) <= MaxMinute
      <4>1. /\ thing[i].created \in Nat /\ thing[i].updated \in Nat
            /\ thing[i].created <= minute /\ thing[i].updated <= minute
        BY <1>1, GroundTypes DEF Clock
      <4>2. QED
        BY <1>1, <4>1, BoundConstants DEF DateOf
    <3>2. done \subseteq Thing
      BY DEF WalkBounds, Position
    <3>3. FinishedAt(i) = IF Cardinality(done) <= MaxMinuteIds
                          THEN [at |-> DateOf(i), done |-> done] ELSE walk.mark
      BY DEF FinishedAt
    <3> HIDE DEF done
    <3>4. FinishedAt(i) \in Position
      BY <3>1, <3>2, <3>3, PositionOf DEF WalkBounds
    <3>5. walk' \in {Passed(i), Yielded(i, e, FinishedAt(i))} /\ specs' = specs
      BY <2>1 DEF ReadIssue
    <3>6. QED
      BY <1>10, <3>4, <3>5
  <2>2. CASE ReadPage(i, e)
    <3> DEFINE m == [at |-> 0, done |-> {i}]
    <3>1. m \in Position
      BY BoundConstants DEF Position
    <3>2. walk' \in {Passed(i), Yielded(i, e, m)} /\ specs' = specs
      BY <2>2 DEF ReadPage
    <3> HIDE DEF m
    <3>3. QED
      BY <1>10, <3>1, <3>2
  <2>3. QED
    BY <1>11, <2>1, <2>2
<1>12. CASE \/ TimePasses \/ UpdateSource \/ InvalidateCursors \/ LaunchLoads \/ DiscoverBound
            \/ ScanEnds \/ UNCHANGED incVars
  BY <1>2, <1>12, Zenon DEF TimePasses, UpdateSource, InvalidateCursors, LaunchLoads, DiscoverBound,
                     ScanEnds, incVars
<1>13. ASSUME NEW i, Edit(i) \/ RemoveThing(i) \/ CreateSource(i)
       PROVE  WalkBounds'
  BY <1>2, <1>13 DEF Edit, RemoveThing, CreateSource
<1>14. ASSUME NEW q, NEW d, LaunchCommits(q, d)
       PROVE  WalkBounds'
  BY <1>2, <1>14 DEF LaunchCommits
<1>15. QED
  BY <1>4, <1>5, <1>6, <1>7, <1>8, <1>9, <1>11, <1>12, <1>13, <1>14 DEF IncrementalNext

LEMMA OwedStep ==
  ASSUME CursorInv, Counters, owed \in [Thing -> 0..MaxEdit], [IncrementalNext]_incVars
  PROVE  owed' \in [Thing -> 0..MaxEdit]
<1>1. /\ \A i \in Thing : thing[i].version \in Nat /\ thing[i].version <= edits
      /\ edits \in 0..MaxEdit
  BY InvParts, GroundTypes DEF Counters
<1>2. \A i \in Thing : thing[i].version \in 0..MaxEdit /\ 0 \in 0..MaxEdit
  BY <1>1, BoundConstants
<1>3. ASSUME NEW q, NEW d, LaunchCommits(q, d)
      PROVE  owed' \in [Thing -> 0..MaxEdit]
  <2>1. CASE Scanning
    BY <1>3, <2>1 DEF LaunchCommits
  <2>2. CASE ~Scanning
    <3> DEFINE owes(i) == (q = "incremental" /\ Trusted(d)) /\ thing[i].updated > cursor.minted
    <3>1. owed' = [i \in Thing |-> IF owes(i) THEN thing[i].version ELSE 0]
      BY <1>3, <2>2 DEF LaunchCommits
    <3> HIDE DEF owes
    <3>2. QED
      BY <1>2, <3>1
  <2>3. QED
    BY <2>1, <2>2
<1>4. ASSUME NEW i, \/ Edit(i) \/ RemoveThing(i) \/ CreateSource(i) \/ FetchBegin(i)
                    \/ \E e : ReadIssue(i, e) \/ ReadPage(i, e)
      PROVE  owed' = owed
  BY <1>4, Zenon DEF Edit, RemoveThing, CreateSource, FetchBegin, ReadIssue, ReadPage
<1>5. CASE \/ TimePasses \/ UpdateSource \/ InvalidateCursors \/ LaunchLoads \/ DiscoverSpaces
           \/ DiscoverBound \/ DiscoverWindows \/ BatchAccepted \/ WalkDies \/ FetchEnds \/ ScanEnds
           \/ UNCHANGED incVars
  BY <1>5, Zenon DEF TimePasses, UpdateSource, InvalidateCursors, LaunchLoads, DiscoverSpaces,
                DiscoverBound, DiscoverWindows, BatchAccepted, WalkDies, FetchEnds, ScanEnds, incVars
<1>6. QED
  BY <1>3, <1>4, <1>5 DEF IncrementalNext

LEMMA BoundsGiveTypes == CursorInv /\ IncBounds => IncrementalTypeOK
<1> SUFFICES ASSUME CursorInv, IncBounds PROVE IncrementalTypeOK
  OBVIOUS
<1>1. IncTypes /\ Clock /\ Configs /\ Counters /\ ScanBounds /\ WalkBounds
  BY InvParts DEF IncBounds
<1>2. /\ minute \in Nat \ {0} /\ minute <= MaxMinute /\ minute \in Minute
      /\ setbacks \in 0..MaxSetback /\ edits \in 0..MaxEdit
  BY <1>1, BoundConstants DEF IncTypes, Counters, Minute
<1>3. /\ source.config \in Config /\ launching \in Config /\ cursor.config \in Config
      /\ sourceScan.config \in Config
  <2>1. /\ source.config \in Nat /\ launching \in Nat /\ cursor.config \in Nat
        /\ sourceScan.config \in Nat /\ launching <= source.config
        /\ cursor.config <= source.config /\ sourceScan.config <= source.config
        /\ source.config <= setbacks + 1
    BY <1>1, GroundTypes DEF Configs, Counters
  <2>2. QED
    BY <1>2, <2>1, BoundConstants DEF Config
<1>4. source \in [type : {"none", "jira", "confluence"}, config : Config]
  BY <1>1, <1>3 DEF IncTypes, SourceT
<1>5. \A i \in Thing : /\ thing[i].created \in 0..MaxMinute /\ thing[i].updated \in 0..MaxMinute
                       /\ thing[i].version \in 0..MaxEdit /\ read[i] \in 0..MaxEdit
                       /\ thing[i] \in ThingT
  <2> SUFFICES ASSUME NEW i \in Thing
               PROVE  /\ thing[i].created \in 0..MaxMinute /\ thing[i].updated \in 0..MaxMinute
                      /\ thing[i].version \in 0..MaxEdit /\ read[i] \in 0..MaxEdit
                      /\ thing[i] \in ThingT
    OBVIOUS
  <2>1. /\ thing[i].created \in Nat /\ thing[i].updated \in Nat /\ thing[i].version \in Nat
        /\ read[i] \in Nat /\ thing[i] \in ThingT
    BY <1>1, GroundTypes DEF IncTypes
  <2>2. /\ thing[i].created <= minute /\ thing[i].updated <= minute
        /\ read[i] <= thing[i].version /\ thing[i].version <= edits
    BY <1>1 DEF Clock, Counters
  <2>3. QED
    BY <1>2, <2>1, <2>2, BoundConstants
<1>6. thing \in [Thing -> [created : 0..MaxMinute, updated : 0..MaxMinute, version : 0..MaxEdit]]
  <2>1. \A i \in Thing :
          thing[i] \in [created : 0..MaxMinute, updated : 0..MaxMinute, version : 0..MaxEdit]
    BY <1>5 DEF ThingT
  <2>2. QED
    BY <1>1, <2>1 DEF IncTypes
<1>7. read \in [Thing -> 0..MaxEdit]
  BY <1>1, <1>5 DEF IncTypes
<1>8. cursor \in [live : BOOLEAN, at : 0..Never, config : Config, minted : 0..MaxMinute]
  <2>1. cursor \in CursorT /\ cursor.minted <= MaxMinute /\ cursor.at <= minute
    BY <1>1, WatermarkBound DEF IncTypes, ScanBounds
  <2>2. cursor.at \in Nat /\ cursor.minted \in Nat
    BY <2>1 DEF CursorT
  <2>3. cursor.at \in 0..Never /\ cursor.minted \in 0..MaxMinute
    BY <1>2, <2>1, <2>2, BoundConstants
  <2>4. QED
    BY <1>3, <2>1, <2>3 DEF CursorT
<1>9. sourceScan \in [phase : {"none", "probe", "windows", "fetch", "done"},
               mode : {"full", "incremental"}, config : Config, at : 0..Never,
               bound : 0..Never, next : 0..Never, hole : BOOLEAN,
               offer : 0..Never, no : 0..MaxLaunch]
  <2>1. /\ sourceScan \in ScanT /\ sourceScan.offer <= minute
        /\ sourceScan.no <= MaxLaunch /\ sourceScan.at <= Never
        /\ sourceScan.bound <= Never /\ sourceScan.next <= Never
    BY <1>1, WatermarkBound DEF IncTypes, ScanBounds
  <2>2. /\ sourceScan.offer \in Nat /\ sourceScan.no \in Nat /\ sourceScan.at \in Nat
        /\ sourceScan.bound \in Nat /\ sourceScan.next \in Nat
    BY <1>1, GroundTypes
  <2>3. /\ sourceScan.offer \in 0..Never /\ sourceScan.no \in 0..MaxLaunch
        /\ sourceScan.at \in 0..Never /\ sourceScan.bound \in 0..Never
        /\ sourceScan.next \in 0..Never
    BY <1>2, <2>1, <2>2, BoundConstants
  <2>4. QED
    BY <1>3, <2>1, <2>3 DEF ScanT
<1>10. QED
  BY <1>1, <1>2, <1>3, <1>4, <1>6, <1>7, <1>8, <1>9
     DEF IncrementalTypeOK, IncTypes, IncBounds, WalkBounds

\* What a scan is told and what it stores stays in range: windows end two minutes after the
\* clock at most, positions and watermarks never pass it, and no version is ahead of the edits.
THEOREM IncrementalTyped == IncrementalSpec => []IncrementalTypeOK
<1>1. IncrementalInit => CursorInv /\ IncBounds
  BY IncInit, BoundsInit
<1>2. CursorInv /\ IncBounds /\ [IncrementalNext]_incVars => (CursorInv /\ IncBounds)'
  <2> SUFFICES ASSUME CursorInv, IncBounds, [IncrementalNext]_incVars
               PROVE  CursorInv' /\ IncBounds'
    OBVIOUS
  <2>1. CursorInv'
    BY CursorStep
  <2>2. Counters' /\ ScanBounds' /\ WalkBounds' /\ owed' \in [Thing -> 0..MaxEdit]
    BY <2>1, CountersStep, ScanBoundsStep, WalkBoundsStep, OwedStep DEF IncBounds
  <2>3. QED
    BY <2>1, <2>2 DEF IncBounds
<1>3. QED
  BY <1>1, <1>2, BoundsGiveTypes, PTL DEF IncrementalSpec
=============================================================================
