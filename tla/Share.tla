------------------------------- MODULE Share -------------------------------
(***************************************************************************)
(* One fetch task of the file share connector (fileshare/connector.py) and *)
(* the text extraction it reads through (extraction.py): a sorted walk of  *)
(* a root that publishes its position, on a share that changes meanwhile,  *)
(* taken up again by another attempt when an engine dies.                  *)
(*                                                                         *)
(* A path is the sequence of its names, as _position compares it.  A gap   *)
(* some attempt recorded stays recorded here; whether it survives a        *)
(* reclaim is the question of module Checkpoint.                           *)
(***************************************************************************)
EXTENDS Naturals, Sequences, FiniteSets, SequencesExt

CONSTANTS
  Spot,          \* paths below the root, sequences of numbers
  LinkTarget,    \* what a link can finally resolve to: a Spot, the root, or Outside
  Depths,        \* MAX_DEPTH
  DirectoryCap,  \* MAX_ENTRIES_PER_DIRECTORY
  FileCap,       \* MAX_FILES_PER_SPEC
  MaxShareFault  \* bound on changes of the share, gaps and deaths, together

Root == <<>>
Outside == <<0>>
Entry == [kind : {"none", "file", "dir", "other"}, to : {Root}]
         \cup [kind : {"link"}, to : LinkTarget]

ASSUME ShareAssumption ==
  /\ Spot \subseteq Seq(Nat) /\ IsFiniteSet(Spot) /\ Root \notin Spot /\ Outside \notin Spot
  /\ \A p \in Spot : \A n \in 1..Len(p) : SubSeq(p, 1, n) \in Spot
  /\ LinkTarget \subseteq Spot \cup {Root, Outside}
  /\ Depths \in Nat /\ DirectoryCap \in Nat /\ FileCap \in Nat /\ MaxShareFault \in Nat

VARIABLES
  tree,       \* [Spot -> Entry]
  follows,    \* ShareConfig.follow_symlinks
  visit,      \* the attempt under way
  resumeAt,   \* the position of the last accepted batch, Root if none
  stored,     \* keys whose text the API has
  steady,     \* files in scope when the task began and still there
  unscanned,  \* files passed over by policy
  gapped,     \* an attempt recorded a failure or a scope gap
  task,       \* idle, walking or over
  faults

shareVars == <<tree, follows, visit, resumeAt, stored, steady, unscanned, gapped, task, faults>>

\* stack's head is its top.  at is the position published, next the one that will be
\* once the reader asks for more.
NoVisit == [stack |-> <<>>, seen |-> {}, files |-> 0, given |-> {}, at |-> Root, next |-> Root]

ShareInit ==
  /\ tree = [p \in Spot |-> [kind |-> "none", to |-> Root]]
  /\ follows = FALSE
  /\ visit = NoVisit
  /\ resumeAt = Root
  /\ stored = {} /\ steady = {} /\ unscanned = {}
  /\ gapped = FALSE
  /\ task = "idle"
  /\ faults = 0

Fault(happens) ==
  /\ happens => faults < MaxShareFault
  /\ faults' = IF happens THEN faults + 1 ELSE faults

InDirectory(d) == {p \in Spot : Len(p) = Len(d) + 1 /\ Front(p) = d}
KindAt(p) == IF p = Root THEN "dir" ELSE tree[p].kind
\* Reached through directories only.
Plain(t, p) == \A n \in 1..(Len(p) - 1) : t[SubSeq(p, 1, n)].kind = "dir"
\* What a walk of t that goes well comes to.
PlainFiles(t) == {p \in Spot : t[p].kind = "file" /\ Plain(t, p) /\ Len(p) <= Depths + 1}
WellFormed(t) ==
  \A p \in Spot : /\ t[p].kind # "none" => Plain(t, p)
                  /\ t[p].to \in Spot => t[t[p].to].kind # "link"

----------------------------------------------------------------------------
\* The share, and the task.

MountShare(t, links) ==
  /\ task = "idle"
  /\ tree' = t /\ follows' = links
  /\ steady' = PlainFiles(t)
  /\ task' = "walking"
  /\ visit' = [NoVisit EXCEPT !.stack = <<[path |-> Root, dir |-> TRUE, depth |-> 0]>>,
                              !.seen = {Root}]
  /\ UNCHANGED <<resumeAt, stored, unscanned, gapped, faults>>

\* A file comes or goes while the share is walked.
FileChanges(p) ==
  /\ task = "walking" /\ Plain(tree, p) /\ tree[p].kind \in {"none", "file"}
  /\ Fault(TRUE)
  /\ tree' = [tree EXCEPT ![p].kind = IF @ = "file" THEN "none" ELSE "file"]
  /\ steady' = steady \ {p}
  /\ UNCHANGED <<follows, visit, resumeAt, stored, unscanned, gapped, task>>

\* A root that is not a directory: a scope gap, and nothing is walked.
RootMissing ==
  /\ task = "walking" /\ visit.files = 0 /\ Len(visit.stack) = 1 /\ visit.stack[1].path = Root
  /\ Fault(TRUE)
  /\ visit' = [visit EXCEPT !.stack = <<>>]
  /\ gapped' = TRUE
  /\ UNCHANGED <<tree, follows, resumeAt, stored, steady, unscanned, task>>

----------------------------------------------------------------------------
\* The walk.

Walking(dir) == task = "walking" /\ visit.stack # <<>> /\ Head(visit.stack).dir = dir
Top == Head(visit.stack)

\* _contained and _key resolve, so what a link stands for is walked and named as itself.
ResolvedTo(c) == IF tree[c].kind = "link" THEN tree[c].to ELSE c

\* Neither a link that is not followed nor one that leads out, dangles, or is neither
\* a file nor a directory; what include and exclude drop is "other".
Followed(c) == /\ tree[c].kind = "link" => follows /\ ResolvedTo(c) # Outside
               /\ KindAt(ResolvedTo(c)) \in {"file", "dir"}

\* A followed link with nothing behind it is a failure.
Dangles(c) == /\ tree[c].kind = "link" /\ follows
              /\ ResolvedTo(c) # Outside /\ KindAt(ResolvedTo(c)) = "none"

\* A directory is walked once, by whichever name comes first.
Repeated(c, items) ==
  /\ KindAt(ResolvedTo(c)) = "dir"
  /\ \/ ResolvedTo(c) \in visit.seen
     \/ \E e \in items : Last(e) < Last(c) /\ Followed(e) /\ ResolvedTo(e) = ResolvedTo(c)

Children(items) == {c \in items : Followed(c) /\ ~Repeated(c, items)}

\* Faulty variant: a directory's files are handed over before its subdirectories.
FilesFirst(c, d) ==
  LET file(x) == KindAt(ResolvedTo(x)) = "file"
  IN IF file(c) = file(d) THEN Last(c) < Last(d) ELSE file(c)
\* Files and subdirectories in one order, by name.
ByName(c, d) == Last(c) < Last(d)

Sorted(cs) ==
  {s \in [1..Cardinality(cs) -> cs] : /\ \A c \in cs : \E i \in DOMAIN s : s[i] = c
                                     /\ \A i, j \in DOMAIN s : i < j => ByName(s[i], s[j])}
Pushed(order) ==
  [i \in DOMAIN order |-> [path |-> ResolvedTo(order[i]),
                           dir |-> KindAt(ResolvedTo(order[i])) = "dir",
                           depth |-> Top.depth + 1]]

\* scandir is cut at the cap wherever it stands then, and sorted after.
WalkDirectory(items) ==
  LET listed == {p \in InDirectory(Top.path) : tree[p].kind # "none"} IN
  /\ Walking(TRUE) /\ Top.depth <= Depths
  /\ items \subseteq listed
  /\ IF Cardinality(listed) <= DirectoryCap THEN items = listed
     ELSE Cardinality(items) = DirectoryCap
  /\ \E order \in Sorted(Children(items)) :
       visit' = [visit EXCEPT !.stack = Pushed(order) \o Tail(@), !.at = visit.next,
                   !.seen = @ \cup {ResolvedTo(c) : c \in {e \in Children(items) :
                                                            KindAt(ResolvedTo(e)) = "dir"}}]
  /\ gapped' = (gapped \/ items # listed \/ \E c \in items : Dangles(c))
  /\ UNCHANGED <<tree, follows, resumeAt, stored, steady, unscanned, task, faults>>

\* Too deep is passed over; a directory that cannot be listed is a failure of its own.
WalkPastDirectory(deep) ==
  /\ Walking(TRUE) /\ deep = (Top.depth > Depths)
  /\ Fault(~deep)
  /\ gapped' = (gapped \/ ~deep)
  /\ visit' = [visit EXCEPT !.stack = Tail(@), !.at = visit.next]
  /\ UNCHANGED <<tree, follows, resumeAt, stored, steady, unscanned, task>>

----------------------------------------------------------------------------
\* Reading one file.

PlainText == {"extracted", "skipped_binary"}
OfficeText == {"extracted", "rejected_bomb", "failed_parse"}
PdfText == {"extracted", "failed_parse"}

SandboxLimits == {"failed_timeout", "failed_parse"}

\* extract_text: a value, never a raise.
ExtractText == {"rejected_too_large", "skipped_empty", "skipped_unsupported"}
               \cup PlainText \cup OfficeText \cup PdfText \cup SandboxLimits

IsIncomplete(outcome) ==
  outcome \in {"rejected_too_large", "rejected_bomb", "failed_timeout", "failed_parse"}

\* _read: the file's size, opening it, and what was extracted.
Reading == ExtractText \cup {"size_limit", "permission_denied", "io_error"}
Failing(reading) == \/ IsIncomplete(reading)
                    \/ reading \in {"size_limit", "permission_denied", "io_error"}

Segments(p, q) == Len(IF Len(p) < Len(q) THEN p ELSE q)
\* Tuples as Python compares them.
UpTo(p, q) ==
  \/ IsPrefix(p, q)
  \/ \E n \in 1..Segments(p, q) : p[n] < q[n] /\ SubSeq(p, 1, n - 1) = SubSeq(q, 1, n - 1)

HandedOver(key) == resumeAt # Root /\ UpTo(key, resumeAt)

WalkFile(reading) ==
  LET key == Top.path
      past == [visit EXCEPT !.stack = Tail(@), !.files = @ + 1, !.at = visit.next]
      text == reading = "extracted" IN
  /\ Walking(FALSE)
  /\ IF visit.files = FileCap
     THEN /\ visit' = [visit EXCEPT !.stack = <<>>]
          /\ gapped' = TRUE
          /\ UNCHANGED <<unscanned, faults>>
     ELSE IF HandedOver(key) THEN visit' = past /\ UNCHANGED <<unscanned, gapped, faults>>
     ELSE /\ KindAt(key) # "file" => reading = "io_error"
          /\ Fault(Failing(reading) /\ KindAt(key) = "file")
          /\ gapped' = (gapped \/ Failing(reading))
          /\ unscanned' = IF text \/ Failing(reading) THEN unscanned ELSE unscanned \cup {key}
          /\ visit' = [past EXCEPT !.given = IF text THEN @ \cup {key} ELSE @,
                                   !.at = IF text THEN @ ELSE key, !.next = key]
  /\ UNCHANGED <<tree, follows, resumeAt, stored, steady, task>>

----------------------------------------------------------------------------
\* The runner around it.

ShareBatch ==
  /\ task = "walking" /\ visit.at \notin {Root, resumeAt}
  /\ stored' = stored \cup visit.given
  /\ resumeAt' = visit.at
  /\ UNCHANGED <<tree, follows, visit, steady, unscanned, gapped, task, faults>>

AttemptDies ==
  /\ task = "walking"
  /\ Fault(TRUE)
  /\ visit' = [NoVisit EXCEPT !.stack = <<[path |-> Root, dir |-> TRUE, depth |-> 0]>>,
                              !.seen = {Root}]
  /\ UNCHANGED <<tree, follows, resumeAt, stored, steady, unscanned, gapped, task>>

ShareRead ==
  /\ task = "walking" /\ visit.stack = <<>>
  /\ stored' = stored \cup visit.given
  /\ task' = "over"
  /\ visit' = NoVisit
  /\ UNCHANGED <<tree, follows, resumeAt, steady, unscanned, gapped, faults>>

ShareNext ==
  \/ /\ task = "idle"
     /\ \E t \in [Spot -> Entry], links \in BOOLEAN : WellFormed(t) /\ MountShare(t, links)
  \/ \E p \in Spot : FileChanges(p)
  \/ RootMissing
  \/ \E items \in SUBSET Spot : WalkDirectory(items)
  \/ \E deep \in BOOLEAN : WalkPastDirectory(deep)
  \/ \E r \in Reading : WalkFile(r)
  \/ ShareBatch \/ AttemptDies \/ ShareRead

ShareSpec == ShareInit /\ [][ShareNext]_shareVars

----------------------------------------------------------------------------
ShareTypeOK ==
  /\ tree \in [Spot -> Entry] /\ follows \in BOOLEAN
  /\ visit.seen \subseteq Spot \cup {Root} /\ visit.files \in 0..FileCap
  /\ visit.given \subseteq Spot
  /\ {visit.at, visit.next, resumeAt} \subseteq Spot \cup {Root}
  /\ stored \subseteq Spot /\ steady \subseteq Spot /\ unscanned \subseteq Spot
  /\ gapped \in BOOLEAN /\ task \in {"idle", "walking", "over"}
  /\ faults \in 0..MaxShareFault

\* A resumed walk skips only what was handed over: when a task ends without a gap, every
\* file that was there all along has been read or passed over by policy, whatever came
\* and went meanwhile and wherever an engine died.  Not so where links are followed:
\* what a link stands for is named as itself, out of the order the walk goes in.
ResumeSkipsNothing ==
  task = "over" /\ ~gapped /\ ~follows => steady \subseteq stored \cup unscanned

=============================================================================
