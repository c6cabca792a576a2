---------------------------- MODULE Incremental ----------------------------
(***************************************************************************)
(* Incremental scans of one source: its cursors (scans/cursors.py), its    *)
(* configuration (sources/routes.py), and the two connectors that narrow a *)
(* scan by them, Jira (jira/connector.py, issues, by date windows) and     *)
(* Confluence (confluence/connector.py, pages, by revision).               *)
(*                                                                         *)
(* The content is edited all the while.  Time is in minutes, which is all  *)
(* JQL resolves; a page's revision is an instant, so no two are alike.     *)
(* Discovery, walking a window, the batches that make a walk durable and   *)
(* the end of the scan are separate steps, and a walk may die and resume.  *)
(***************************************************************************)
EXTENDS Naturals, FiniteSets, FiniteSetsExt

CONSTANTS
  NThing,          \* issues or pages are 1..NThing, all of one project or space
  MaxMinute,       \* bound on time
  MaxEdit,         \* bound on edits, creations included
  MaxSetback,      \* bound on deaths, items given up on, removals and reconfigurations
  MaxLaunch,       \* bound on the source's scans
  BucketLadder,    \* widths tried for the created windows, narrow to wide
  MaxWindows,      \* MAX_WINDOWS_PER_PROJECT
  MaxMinuteIds     \* MAX_MINUTE_IDS

Thing == 1..NThing
Minute == 1..MaxMinute
Config == 0..(MaxSetback + 1)
Never == MaxMinute + 2              \* an open upper end

ASSUME IncrementalAssumption ==
  /\ NThing \in Nat /\ MaxMinute \in Nat \ {0} /\ MaxEdit \in Nat
  /\ MaxSetback \in Nat /\ MaxLaunch \in Nat /\ MaxWindows \in Nat \ {0} /\ MaxMinuteIds \in Nat
  /\ BucketLadder \subseteq Nat \ {0} /\ BucketLadder # {}

\* A fetch task: a half-open range over one date field (Jira), or the pages later
\* than a revision (Confluence).  bound is the cursor_at it proposes; 0 is none.
WalkSpec == [field : {"created", "updated"}, from : 0..Never, to : 0..Never, bound : 0..Never]
NoSpec == [field |-> "created", from |-> 0, to |-> 0, bound |-> 0]

\* A published position: the boundary minute and the issues finished in it, or
\* (Confluence) the last page finished.
Position == [at : 0..MaxMinute, done : SUBSET Thing]
Start == [at |-> 0, done |-> {}]

VARIABLES
  minute,      \* the clock
  source,      \* type and configuration version (updated_at)
  thing,       \* [Thing -> created and updated minute, version; created 0 is absent]
  cursor,      \* the scope's source_cursor row
  launching,   \* configuration version a launching session loaded, 0 if none
  sourceScan,  \* the source's scan
  specs,       \* its fetch specs nobody has started
  walk,        \* the fetch task under way
  read,        \* [Thing -> the last version a scan reported]
  owed,        \* [Thing -> the version an incremental scan owes its reader]
  raced,       \* pages edited while a walk of their space was under way
  edits,       \* edits so far
  setbacks

incVars == <<minute, source, thing, cursor, launching, sourceScan, specs, walk, read, owed, raced,
             edits, setbacks>>

NoWalk == [spec |-> NoSpec, resume |-> Start, mark |-> Start, saved |-> Start,
           given |-> {}, fresh |-> {}, newest |-> 0, hole |-> FALSE, on |-> FALSE]
NoScan == [phase |-> "none", mode |-> "full", config |-> 0, at |-> 0, bound |-> 0,
           next |-> 0, hole |-> FALSE, offer |-> 0, no |-> 0]

IncrementalInit ==
  /\ minute = 1
  /\ source = [type |-> "none", config |-> 0]
  /\ thing = [i \in Thing |-> [created |-> 0, updated |-> 0, version |-> 0]]
  /\ cursor = [live |-> FALSE, at |-> 0, config |-> 0, minted |-> 0]
  /\ launching = 0
  /\ sourceScan = NoScan
  /\ specs = {}
  /\ walk = NoWalk
  /\ read = [i \in Thing |-> 0]
  /\ owed = [i \in Thing |-> 0]
  /\ raced = {}
  /\ edits = 0
  /\ setbacks = 0

Present == {i \in Thing : thing[i].created # 0}
\* The bound on what goes wrong.
Setback(happens) ==
  /\ happens => setbacks < MaxSetback
  /\ setbacks' = IF happens THEN setbacks + 1 ELSE setbacks

Scanning == sourceScan.phase \in {"probe", "windows", "fetch"}

----------------------------------------------------------------------------
\* The source's content, and its administration.

TimePasses ==
  /\ minute < MaxMinute
  /\ minute' = minute + 1
  /\ UNCHANGED <<source, thing, cursor, launching, sourceScan, specs, walk, read, owed, raced,
                 edits, setbacks>>

\* Two revisions of pages never carry the same instant.
Instant == source.type = "confluence" => \A j \in Thing : thing[j].updated < minute

\* Created or edited; where it is written matters only to the scan.
Edit(i) ==
  /\ source.type # "none"
  /\ thing[i].version = 0 \/ i \in Present
  /\ edits < MaxEdit
  /\ edits' = edits + 1
  /\ Instant
  /\ thing' = [thing EXCEPT ![i] = [created |-> IF @.created = 0 THEN minute ELSE @.created,
                                    updated |-> minute, version |-> @.version + 1]]
  /\ raced' = IF walk.on /\ source.type = "confluence" THEN raced \cup {i} ELSE raced \ {i}
  /\ UNCHANGED <<minute, source, cursor, launching, sourceScan, specs, walk, read, owed, setbacks>>

RemoveThing(i) ==
  /\ i \in Present
  /\ Setback(TRUE)
  /\ thing' = [thing EXCEPT ![i].created = 0]
  /\ UNCHANGED <<minute, source, cursor, launching, sourceScan, specs, walk, read, owed, raced,
                 edits>>

CreateSource(type) ==
  /\ source.type = "none"
  /\ source' = [type |-> type, config |-> 1]
  /\ UNCHANGED <<minute, thing, cursor, launching, sourceScan, specs, walk, read, owed, raced,
                 edits, setbacks>>

\* update_source locks the row and refuses while a scan is active.  Another
\* configuration is other content: nothing of it has been read.
UpdateSource ==
  /\ source.type # "none" /\ ~Scanning
  /\ Setback(TRUE)
  /\ source' = [source EXCEPT !.config = @ + 1]
  /\ read' = [i \in Thing |-> 0]
  /\ raced' = {}
  /\ UNCHANGED <<minute, thing, cursor, launching, sourceScan, specs, walk, owed, edits>>

\* DELETE /sources/{id}/cursors: retired, not deleted.
InvalidateCursors ==
  /\ cursor.live
  /\ cursor' = [cursor EXCEPT !.live = FALSE]
  /\ UNCHANGED <<minute, source, thing, launching, sourceScan, specs, walk, read, owed, raced,
                 edits, setbacks>>

----------------------------------------------------------------------------
\* Launching.

\* The route or the launcher loads the source; launch_scan then locks the row,
\* which does not refresh what the session has loaded.
LaunchLoads ==
  /\ source.type # "none" /\ launching = 0
  /\ launching' = source.config
  /\ UNCHANGED <<minute, source, thing, cursor, sourceScan, specs, walk, read, owed, raced,
                 edits, setbacks>>

\* invalidation_for: doubt is the rule pack, a rotation, or the interval.
Trusted(doubt) == cursor.live /\ cursor.config = launching /\ ~doubt

LaunchCommits(requested, doubt) ==
  LET incremental == requested = "incremental" /\ Trusted(doubt) IN
  /\ launching # 0
  /\ launching' = 0
  /\ IF Scanning                                      \* ScanConflict
     THEN UNCHANGED <<sourceScan, cursor, owed>>
     ELSE /\ sourceScan.no < MaxLaunch
          /\ sourceScan' = [NoScan EXCEPT !.phase = "probe", !.config = launching,
                                        !.no = sourceScan.no + 1,
                                        !.mode = IF incremental THEN "incremental" ELSE "full"]
          /\ cursor' = [cursor EXCEPT !.live = @ /\ (requested = "full" \/ incremental)]
          /\ owed' = [i \in Thing |-> IF incremental /\ thing[i].updated > cursor.minted
                                      THEN thing[i].version ELSE 0]
  /\ UNCHANGED <<minute, source, thing, specs, walk, read, raced, edits, setbacks>>

----------------------------------------------------------------------------
\* Discovery.

\* search_one asks for the one field "created", so the issue updated last comes
\* back without its updated date, and the created date stands in for it.
ProbedDate(i) == thing[i].created

\* _cursor_bound: the window ends a minute after the newest issue ...
WindowEnd(edited) == edited + 1
\* Faulty variant: the next scan starts where this window ended.
NextStartAtEnd(edited) == edited + 1
\* ... and the next scan starts at it, reading that minute again.
NextStart(edited) == edited

\* The lease hands out positions only for an incremental scan, and only live ones.
Watermark == IF sourceScan.mode = "incremental" /\ cursor.live THEN cursor.at ELSE 0

\* Confluence: a spec per space, carrying the watermark; there is no bound to pin.
DiscoverSpaces ==
  /\ sourceScan.phase = "probe" /\ source.type = "confluence"
  /\ specs' = {[NoSpec EXCEPT !.field = "updated", !.from = Watermark]}
  /\ sourceScan' = [sourceScan EXCEPT !.phase = "fetch"]
  /\ UNCHANGED <<minute, source, thing, cursor, launching, walk, read, owed, raced, edits,
                 setbacks>>

\* Jira: the bound is pinned before the windows are asked for, and none is pinned
\* for a project without issues.
DiscoverBound ==
  /\ sourceScan.phase = "probe" /\ source.type = "jira"
  /\ IF Present = {}
     THEN sourceScan' = [sourceScan EXCEPT !.phase = "windows", !.at = Watermark]
     ELSE \E i \in Present :
            /\ \A j \in Present : thing[j].updated <= thing[i].updated
            /\ sourceScan' = [sourceScan EXCEPT !.phase = "windows", !.at = Watermark,
                                    !.bound = WindowEnd(ProbedDate(i)),
                                    !.next = NextStart(ProbedDate(i))]
  /\ UNCHANGED <<minute, source, thing, cursor, launching, specs, walk, read, owed, raced,
                 edits, setbacks>>

\* The narrowest rung of the ladder that needs few enough windows.
BucketWidth(span) ==
  LET fits == {w \in BucketLadder : (span + w - 1) \div w <= MaxWindows}
  IN IF fits = {} THEN Max(BucketLadder) ELSE Min(fits)

\* _created_windows: buckets from the oldest issue, open at the bottom, the last
\* one ending a minute past the newest; a project without issues gets one spec.
CreatedWindows ==
  IF Present = {} THEN {[NoSpec EXCEPT !.to = Never, !.bound = sourceScan.next]}
  ELSE LET dates == {thing[i].created : i \in Present}
           first == Min(dates)
           pinned == Max(dates) + 1
           width == BucketWidth(pinned + 1 - first)
           edges == {e \in first..(pinned + 1) : e > first /\ (e - first) % width = 0}
                    \cup {pinned + 1}
           EndOf(e) == IF e = pinned + 1 THEN pinned ELSE e
           StartOf(e) == Max({0} \cup {d \in edges : d < e})
       IN {[field |-> "created", from |-> StartOf(e), to |-> EndOf(e), bound |-> sourceScan.next] :
             e \in edges}

UpdatedWindow ==
  IF sourceScan.at >= sourceScan.bound THEN {}
  ELSE {[field |-> "updated", from |-> sourceScan.at, to |-> sourceScan.bound,
         bound |-> sourceScan.next]}

DiscoverWindows ==
  /\ sourceScan.phase = "windows"
  /\ specs' = IF sourceScan.at # 0 /\ sourceScan.bound # 0 THEN UpdatedWindow ELSE CreatedWindows
  /\ sourceScan' = [sourceScan EXCEPT !.phase = "fetch"]
  /\ UNCHANGED <<minute, source, thing, cursor, launching, walk, read, owed, raced, edits,
                 setbacks>>

----------------------------------------------------------------------------
\* Fetching one spec.  fresh holds what was read since the last accepted batch.

FetchBegin(spec) ==
  /\ sourceScan.phase = "fetch" /\ ~walk.on
  /\ spec \in specs
  /\ specs' = specs \ {spec}
  /\ walk' = [NoWalk EXCEPT !.spec = spec, !.on = TRUE]
  /\ UNCHANGED <<minute, source, thing, cursor, launching, sourceScan, read, owed, raced, edits,
                 setbacks>>

DateOf(i) == IF walk.spec.field = "updated" THEN thing[i].updated ELSE thing[i].created

\* _jql: a resumed attempt starts at the boundary minute instead.
QueryStart == IF walk.resume.at # 0 THEN walk.resume.at ELSE walk.spec.from
Found == {i \in Present : /\ DateOf(i) >= QueryStart /\ DateOf(i) < walk.spec.to
                             /\ <<i, DateOf(i)>> \notin walk.given}

\* _Resume.covers: only an issue the earlier attempt named, still in that minute.
NamedInMinute(i) == i \in walk.resume.done /\ DateOf(i) = walk.resume.at

\* The position after finishing issue i: its minute and the issues finished in it,
\* unless the minute holds too many to name.
FinishedAt(i) ==
  LET done == IF walk.mark.at = DateOf(i) THEN walk.mark.done \cup {i} ELSE {i}
  IN IF Cardinality(done) <= MaxMinuteIds THEN [at |-> DateOf(i), done |-> done] ELSE walk.mark

\* How a part of an item ends: read (or empty); partial, where a field, a comment, an
\* attachment or the rest of a collection failed but the position moves past the
\* item; or refused, where it does not.  All but the first leave a hole.
IssueBody == {"read", "partial", "refused"}
IssueComments == {"read", "partial"}
IssueHistory == {"read", "partial"}
IssueAttachments == {"read", "partial"}
PageBody == {"read", "refused"}
PageComments == {"read", "partial"}
PageAttachments == {"read", "partial"}

\* A failed collection is a gap of its own, and the item's other parts are read.
Collected(body, parts) ==
  IF body = "refused" THEN body
  ELSE IF "partial" \in {body} \cup parts THEN "partial" ELSE "read"
IssueEndings == {Collected(b, {c, h, a}) : b \in IssueBody, c \in IssueComments,
                                           h \in IssueHistory, a \in IssueAttachments}
PageEndings == {Collected(b, {c, a}) : b \in PageBody, c \in PageComments, a \in PageAttachments}

\* An item leaves the enumeration behind it.
Passed(i) == [walk EXCEPT !.given = @ \cup {<<i, DateOf(i)>>},
                          !.newest = Max({@, thing[i].updated})]

Yielded(i, ending, mark) ==
  [Passed(i) EXCEPT !.fresh = IF ending # "read" THEN @
                              ELSE {p \in @ : p[1] # i} \cup {<<i, thing[i].version>>},
                    !.hole = @ \/ ending # "read",
                    !.mark = IF ending # "refused" THEN mark ELSE @]

\* Issues come in the order of the window's date, and in no order within a minute.
ReadIssue(i, ending) ==
  /\ walk.on /\ source.type = "jira"
  /\ i \in Found
  /\ \A j \in Found : DateOf(i) <= DateOf(j)
  /\ walk' = IF NamedInMinute(i) THEN Passed(i) ELSE Yielded(i, ending, FinishedAt(i))
  /\ Setback(ending # "read")
  /\ UNCHANGED <<minute, source, thing, cursor, launching, sourceScan, specs, read, owed, raced,
                 edits>>

\* Pages come in the listing's order; newest is the latest revision listed.  Pages
\* up to the watermark, and up to the page the last attempt stopped on, are passed.
Listed == {i \in Present : \A p \in walk.given : p[1] < i}
Skipping == walk.resume.done # {} /\ \A p \in walk.given : p[1] \notin walk.resume.done
ReadPage(i, ending) ==
  /\ walk.on /\ source.type = "confluence"
  /\ Listed # {} /\ i = Min(Listed)
  /\ walk' = IF thing[i].updated <= walk.spec.from \/ Skipping THEN Passed(i)
             ELSE Yielded(i, ending, [at |-> 0, done |-> {i}])
  /\ Setback(ending # "read")
  /\ UNCHANGED <<minute, source, thing, cursor, launching, sourceScan, specs, read, owed, raced,
                 edits>>

ReadSoFar == [i \in Thing |-> Max({read[i]} \cup {p[2] : p \in {q \in walk.fresh : q[1] = i}})]

\* A batch is accepted: what it carries is stored, its position is the resume point.
\* It takes a position this attempt has published and not yet sent.
BatchAccepted ==
  /\ walk.on /\ walk.mark \notin {Start, walk.saved}
  /\ read' = ReadSoFar
  /\ walk' = [walk EXCEPT !.fresh = {}, !.saved = walk.mark, !.hole = FALSE]
  /\ sourceScan' = [sourceScan EXCEPT !.hole = @ \/ walk.hole]
  /\ UNCHANGED <<minute, source, thing, cursor, launching, specs, owed, raced, edits, setbacks>>

WalkDies ==
  /\ walk.on
  /\ Setback(TRUE)
  /\ walk' = [NoWalk EXCEPT !.spec = walk.spec, !.on = TRUE,
                            !.resume = walk.saved, !.saved = walk.saved]
  /\ UNCHANGED <<minute, source, thing, cursor, launching, sourceScan, specs, read, owed, raced,
                 edits>>

\* A resume page that is gone was never found: nothing was read, a scope gap.
FetchEnds ==
  /\ walk.on
  /\ IF source.type = "jira" THEN Found = {} ELSE Listed = {}
  /\ read' = ReadSoFar
  /\ LET lost == source.type = "confluence" /\ Skipping
     IN sourceScan' = [sourceScan EXCEPT !.hole = @ \/ walk.hole \/ lost,
                             !.offer = IF source.type = "jira" THEN walk.spec.bound
                                       ELSE IF lost THEN 0 ELSE walk.newest]
  /\ walk' = NoWalk
  /\ UNCHANGED <<minute, source, thing, cursor, launching, specs, owed, raced, edits, setbacks>>

\* The scan ends.  Inside the gate that authorises reconciliation the proposals
\* become watermarks, reviving a retired row.  A scan without a task offers none.
Watermarked(offer) == [live |-> TRUE, at |-> offer, config |-> sourceScan.config, minted |-> minute]
ScanEnds ==
  /\ sourceScan.phase = "fetch" /\ specs = {} /\ ~walk.on
  /\ sourceScan' = [sourceScan EXCEPT !.phase = "done"]
  /\ cursor' = IF sourceScan.hole \/ sourceScan.offer = 0 THEN cursor
               ELSE Watermarked(sourceScan.offer)
  /\ UNCHANGED <<minute, source, thing, launching, specs, walk, read, owed, raced, edits,
                 setbacks>>

----------------------------------------------------------------------------
IncrementalNext ==
  \/ TimePasses
  \/ \E i \in Thing : Edit(i) \/ RemoveThing(i)
  \/ \E t \in {"jira", "confluence"} : CreateSource(t)
  \/ UpdateSource \/ InvalidateCursors
  \/ LaunchLoads
  \/ \E q \in {"full", "incremental"}, d \in BOOLEAN : LaunchCommits(q, d)
  \/ DiscoverSpaces \/ DiscoverBound \/ DiscoverWindows
  \/ \E s \in specs : FetchBegin(s)
  \/ \E i \in Thing : \/ \E e \in IssueEndings : ReadIssue(i, e)
                      \/ \E e \in PageEndings : ReadPage(i, e)
  \/ BatchAccepted \/ WalkDies \/ FetchEnds \/ ScanEnds

IncrementalSpec == IncrementalInit /\ [][IncrementalNext]_incVars

----------------------------------------------------------------------------
IncrementalTypeOK ==
  /\ minute \in Minute
  /\ source \in [type : {"none", "jira", "confluence"}, config : Config]
  /\ thing \in [Thing -> [created : 0..MaxMinute, updated : 0..MaxMinute,
                          version : 0..MaxEdit]]
  /\ cursor \in [live : BOOLEAN, at : 0..Never, config : Config, minted : 0..MaxMinute]
  /\ launching \in Config
  /\ sourceScan \in [phase : {"none", "probe", "windows", "fetch", "done"},
               mode : {"full", "incremental"}, config : Config, at : 0..Never,
               bound : 0..Never, next : 0..Never, hole : BOOLEAN,
               offer : 0..Never, no : 0..MaxLaunch]
  /\ specs \subseteq WalkSpec
  /\ walk.spec \in WalkSpec /\ walk.resume \in Position /\ walk.mark \in Position
  /\ read \in [Thing -> 0..MaxEdit] /\ owed \in [Thing -> 0..MaxEdit]
  /\ raced \subseteq Thing
  /\ edits \in 0..MaxEdit
  /\ setbacks \in 0..MaxSetback

\* A cursor never claims coverage of content nobody read: whatever is dated before
\* a live watermark of the current configuration has been reported as it is, through
\* deaths, resumes, holes and edits in the middle of a scan.  Not so for a page that
\* was edited while its space was walked: another page's later revision may carry
\* the watermark past it.
CursorHonest ==
  cursor.live /\ cursor.config = source.config =>
    \A i \in Present :
      \/ thing[i].updated > cursor.at
      \/ source.type = "jira" /\ thing[i].updated = cursor.at
      \/ read[i] = thing[i].version
      \/ i \in raced

\* Claimed: a complete incremental manifest means "everything that changed since
\* incremental_baseline".
CompleteIncrementalReadsEdits ==
  sourceScan.phase = "done" /\ sourceScan.mode = "incremental" /\ ~sourceScan.hole =>
    \A i \in Present : read[i] >= owed[i]

=============================================================================
