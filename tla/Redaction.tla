----------------------------- MODULE Redaction -----------------------------
(***************************************************************************)
(* From a content unit to the snippets that leave the engine: detect       *)
(* (iceberg_detect/engine.py) gates, caps and collapses the rules' matches *)
(* and redact_snippet (iceberg_core/redaction.py) masks each survivor's    *)
(* surroundings.                                                           *)
(*                                                                         *)
(* A span is the set of positions it covers.  The loops over Python sets   *)
(* and the rounds of a fixpoint are steps, so their order is free.  What   *)
(* the letters of a mask say, the collapsing of white space and the final  *)
(* cut at MAX_SNIPPET_CHARS are left out; a match's score is its strength, *)
(* with 0 for one that lost its rule's gates or the threshold.             *)
(***************************************************************************)
EXTENDS Naturals, FiniteSets, FiniteSetsExt, Sequences

CONSTANTS
  Letter,         \* what a text is made of
  TextLength,
  MaxMatch,       \* bound on the matches of a unit
  MaxStrength,
  ReportCap,      \* MAX_MATCHES_PER_UNIT
  ContextChars,   \* RedactionPolicy.context_chars
  Keep,           \* RedactionPolicy.keep
  MinReveal       \* RedactionPolicy.min_length_to_reveal

ASSUME RedactionAssumption ==
  /\ Letter # {} /\ TextLength \in Nat \ {0} /\ MaxMatch \in Nat /\ MaxStrength \in Nat
  /\ ReportCap \in Nat /\ ContextChars \in Nat /\ Keep \in Nat /\ MinReveal \in Nat

Place == 1..TextLength
Spans == {a..b : a \in Place, b \in Place} \ {{}}
Strategy == {"full", "keep_prefix", "keep_suffix"}

VARIABLES
  text,       \* [Place -> Letter]
  strength,   \* [the rules' matches -> 0..MaxStrength]
  strategy,   \* the rules' redaction strategy
  pending,    \* candidates not yet collapsed
  kept,       \* survivors still to be redacted
  aim,        \* the survivor being redacted
  window, near, plan, words,      \* redact_snippet's locals
  shown,      \* positions the snippet prints as context
  stage

redVars == <<text, strength, strategy, pending, kept, aim, window, near, plan, words,
             shown, stage>>
snippetVars == <<aim, window, near, plan, words, shown>>

RedactionInit ==
  /\ text = [p \in Place |-> CHOOSE l \in Letter : TRUE]
  /\ strength = [s \in {} |-> 0] /\ strategy = "full"
  /\ pending = {} /\ kept = {}
  /\ aim = {} /\ window = {} /\ near = {} /\ plan = {} /\ words = {} /\ shown = {}
  /\ stage = "idle"

Matches == DOMAIN strength
Meet(a, b) == a \cap b # {}
Word(s) == [k \in 1..Cardinality(s) |-> text[Min(s) + k - 1]]

----------------------------------------------------------------------------
\* Detection.

\* The rules are run over a unit.
Detect(t, f, how) ==
  /\ stage = "idle"
  /\ text' = t /\ strength' = f /\ strategy' = how
  /\ pending' = {s \in DOMAIN f : f[s] > 0}
  /\ stage' = "cap"
  /\ UNCHANGED <<kept, snippetVars>>

\* Stronger first, and the earlier of two equals.
Outranks(a, b) == \/ strength[a] > strength[b]
                  \/ strength[a] = strength[b] /\ Min(a) < Min(b)

\* _strongest: any ReportCap of them that nothing left out outranks.
CapReport(best) ==
  /\ stage = "cap"
  /\ best \subseteq pending
  /\ Cardinality(best) = Min({ReportCap, Cardinality(pending)})
  /\ \A a \in best, b \in pending \ best : ~Outranks(b, a)
  /\ pending' = best
  /\ stage' = "collapse"
  /\ UNCHANGED <<text, strength, strategy, kept, snippetVars>>

\* _strongest_of_each_overlap: strength, then length, then place.
Before(a, b) == \/ strength[a] > strength[b]
                \/ /\ strength[a] = strength[b]
                   /\ \/ Cardinality(a) > Cardinality(b)
                      \/ Cardinality(a) = Cardinality(b) /\ Min(a) < Min(b)

Collapse(s) ==
  /\ stage = "collapse"
  /\ s \in pending
  /\ \A o \in pending \ {s} : ~Before(o, s)
  /\ pending' = pending \ {s}
  /\ kept' = IF \E o \in kept : Meet(s, o) THEN kept ELSE kept \cup {s}
  /\ UNCHANGED <<text, strength, strategy, snippetVars, stage>>

----------------------------------------------------------------------------
\* Redaction of one survivor.

ContextWindow(s) == {p \in Place : p + ContextChars >= Min(s) /\ p <= Max(s) + ContextChars}

\* Faulty variant: only what is reported is masked.
MaskReported == {s \in Matches : strength[s] > 0}
\* _match_spans: masking is not capped, so every match is a neighbour, gated or not.
MaskSet == Matches

\* _spans_reaching: bisected on the start, from the widest match before the window.
SpansReaching(w) ==
  LET widest == Max({0} \cup {Cardinality(s) : s \in MaskSet})
  IN {s \in MaskSet : /\ Min(s) + widest >= Min(w) /\ Min(s) <= Max(w) + 1
                      /\ Meet(s, w)}

RedactBegins(s) ==
  /\ stage = "collapse" /\ pending = {}
  /\ s \in kept /\ \A o \in kept : Min(s) <= Min(o)
  /\ aim' = s
  /\ kept' = kept \ {s}
  /\ window' = ContextWindow(s)
  /\ near' = SpansReaching(ContextWindow(s)) \ {s}
  /\ plan' = {} /\ words' = {} /\ shown' = {}
  /\ stage' = "clip"
  /\ UNCHANGED <<text, strength, strategy, pending>>

\* _matched_texts, single letters excluded, and where they recur in the unit.
Secrets == {Word(s) : s \in {m \in near \cup {aim} : Cardinality(m) > 1}}
Copies == {c \in Spans : Word(c) \in Secrets}

\* _straddler: the leftmost copy of a secret with a boundary strictly inside it.
Straddlers(p) == {c \in Copies : p \in c /\ p + 1 \in c}
Leftmost(cs) == {c \in cs : \A d \in cs : Word(d) = Word(c) => Min(c) <= Min(d)}

\* _clip_to_secret_boundaries: pull an edge past a copy it cuts, but not into the target.
ClipEnd(c) ==
  /\ stage = "clip"
  /\ Max(window) > Max(aim)
  /\ c \in Leftmost(Straddlers(Max(window)))
  /\ window' = Min(window)..Max({Min(c) - 1, Max(aim)})
  /\ UNCHANGED <<text, strength, strategy, pending, kept, aim, near, plan, words, shown, stage>>

EndClipped == Max(window) = Max(aim) \/ Straddlers(Max(window)) = {}
ClipStart(c) ==
  /\ stage = "clip" /\ EndClipped
  /\ Min(window) < Min(aim)
  /\ c \in Leftmost(Straddlers(Min(window) - 1))
  /\ window' = Min({Max(c) + 1, Min(aim)})..Max(window)
  /\ UNCHANGED <<text, strength, strategy, pending, kept, aim, near, plan, words, shown, stage>>
StartClipped == Min(window) = Min(aim) \/ Straddlers(Min(window) - 1) = {}

\* The maximal runs of a set of places.
Runs(ps) == {s \in Spans : s \subseteq ps /\ Min(s) - 1 \notin ps /\ Max(s) + 1 \notin ps}

\* _mask_plan: the target, and what neighbours in the window own beyond it.
MaskPlan ==
  /\ stage = "clip" /\ EndClipped /\ StartClipped
  /\ plan' = {aim} \cup UNION {Runs(s \ aim) : s \in {m \in near : Meet(m, window)}}
  /\ stage' = "cover"
  /\ UNCHANGED <<text, strength, strategy, pending, kept, aim, window, near, words, shown>>

\* Faulty variant: only whole copies are looked for.
ExposedNothing == {}
\* _cover_partial_copies: what a mask's edge would expose of a copy it cuts.
Exposed ==
  LET covered == UNION plan
  IN UNION {Runs((c \cap window) \ covered) :
              c \in {d \in Copies : Meet(d, window) /\ Meet(d, covered)}}

CoverPartialCopies ==
  /\ stage = "cover"
  /\ IF Exposed # {} THEN plan' = plan \cup Exposed /\ UNCHANGED <<shown, words, stage>>
     ELSE /\ shown' = window \ UNION plan
          /\ words' = {Word(s) : s \in {m \in plan \cup near : Cardinality(m) > 1}}
          /\ stage' = "scrub"
          /\ UNCHANGED plan
  /\ UNCHANGED <<text, strength, strategy, pending, kept, aim, window, near>>

\* str.replace: the occurrences of a word in the context, from the left, none
\* overlapping the one before.
OccursAt(w, p) ==
  LET c == p..(p + Len(w) - 1) IN c \subseteq shown /\ Word(c) = w
Taken(w) ==
  CHOOSE at \in SUBSET Place :
    \A p \in Place : p \in at <=> OccursAt(w, p) /\ \A q \in at : q < p => q + Len(w) <= p
Replaced(w) == UNION {p..(p + Len(w) - 1) : p \in Taken(w)}

\* _context: longest first.
Scrub(w) ==
  /\ stage = "scrub"
  /\ w \in words /\ \A v \in words : Len(v) <= Len(w)
  /\ shown' = shown \ Replaced(w)
  /\ words' = words \ {w}
  /\ UNCHANGED <<text, strength, strategy, pending, kept, aim, window, near, plan, stage>>

\* revealable_length and mask_secret: the places of the target its own mask prints.
Revealed ==
  LET n == Cardinality(aim)
      r == IF n < MinReveal THEN 0 ELSE Min({Keep, n \div 3})
  IN CASE strategy = "keep_prefix" -> {p \in aim : p < Min(aim) + r}
       [] strategy = "keep_suffix" -> {p \in aim : p + r > Max(aim)}
       [] OTHER -> {}

\* _assert_no_plaintext and _assert_no_bisected_secret.
Plaintext == \E c \in Copies : c \subseteq shown \cup Revealed
Bisected == \E r \in Runs(window \ UNION plan) :
              Straddlers(Min(r) - 1) \cup Straddlers(Max(r)) # {}

SnippetReturned ==
  /\ stage = "scrub" /\ words = {}
  /\ stage' = IF Plaintext \/ Bisected THEN "refused" ELSE "reported"
  /\ UNCHANGED <<text, strength, strategy, pending, kept, snippetVars>>

\* A refused snippet drops its finding; the next survivor is redacted.
NextSurvivor ==
  /\ stage \in {"refused", "reported"}
  /\ stage' = "collapse"
  /\ aim' = {} /\ window' = {} /\ near' = {} /\ plan' = {} /\ shown' = {}
  /\ UNCHANGED <<text, strength, strategy, pending, kept, words>>

----------------------------------------------------------------------------
RedactionNext ==
  \/ /\ stage = "idle"
     /\ \E t \in [Place -> Letter], ms \in UNION {kSubset(k, Spans) : k \in 0..MaxMatch} :
          \E f \in [ms -> 0..MaxStrength], how \in Strategy : Detect(t, f, how)
  \/ \E best \in SUBSET pending : CapReport(best)
  \/ \E s \in pending : Collapse(s)
  \/ \E s \in kept : RedactBegins(s)
  \/ stage = "clip" /\ \E c \in Copies : ClipEnd(c) \/ ClipStart(c)
  \/ MaskPlan \/ CoverPartialCopies
  \/ \E w \in words : Scrub(w)
  \/ SnippetReturned \/ NextSurvivor

RedactionSpec == RedactionInit /\ [][RedactionNext]_redVars

----------------------------------------------------------------------------
RedactionTypeOK ==
  /\ text \in [Place -> Letter]
  /\ Matches \subseteq Spans /\ \A s \in Matches : strength[s] \in 0..MaxStrength
  /\ strategy \in Strategy
  /\ pending \subseteq Matches /\ kept \subseteq Matches /\ near \subseteq Matches
  /\ aim \in Spans \cup {{}} /\ window \subseteq Place /\ plan \subseteq Spans
  /\ shown \subseteq Place
  /\ stage \in {"idle", "cap", "collapse", "clip", "cover", "scrub", "refused", "reported"}

\* A reported snippet prints no place of any match of the unit, whether the match was
\* reported, lost its gates or fell past the cap, no copy of a matched text as a whole,
\* and no part of a copy that a mask or the window's edge cuts (redact_snippet; the
\* places of the target its policy reveals apart).
KeyMaterialHidden ==
  stage = "reported" =>
    /\ \A s \in Matches : ~Meet(s, shown)
    /\ \A c \in Copies : /\ ~(c \subseteq shown \cup Revealed)
                         /\ c \subseteq window \ UNION plan \/ ~Meet(c, shown)

\* The checks that refuse a snippet are defence in depth: clipping, covering and
\* scrubbing leave them nothing to find, so they drop no finding unless what the
\* target's own policy reveals of it is another match's text (_assert_no_plaintext,
\* _assert_no_bisected_secret).
RefusedOnlyForReveal == stage = "refused" => \E c \in Copies : c \subseteq Revealed

=============================================================================
