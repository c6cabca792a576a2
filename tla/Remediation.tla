---------------------------- MODULE Remediation ----------------------------
(***************************************************************************)
(* The evidence behind a manual resolution (remediation/service.py, the    *)
(* gate in findings/triage.apply) against what ages it out                 *)
(* (retention.py): one finding under the evidence policy, its remediation  *)
(* actions, and requests of several API replicas.  The gate locks the      *)
(* actions, the scrub locks the finding, verify and retract re-state       *)
(* their conditions in the UPDATE, and a purge repeats its predicates on   *)
(* the delete.                                                             *)
(***************************************************************************)
EXTENDS Naturals, FiniteSets

CONSTANTS
  Action,       \* remediation_action ids
  Worker,       \* API replicas
  MaxReopen,    \* bound on reopens
  MaxRequest    \* bound on requests

ASSUME RemediationAssumption == MaxReopen \in Nat /\ MaxRequest \in Nat

\* How the finding stands: open, resolved by hand or by a scan, or deleted.
Standing == {"open", "manual", "auto", "gone"}
Resolved == {"manual", "auto"}

\* A remediation action; "at" counts the reopens there were when it was recorded,
\* which is how created_at compares with the last REOPENED event.  verified and
\* retracted count the trail's rows.
Record == [recorded  : BOOLEAN,
           at        : 0..MaxReopen,
           url       : BOOLEAN,        \* a link that still points somewhere
           verified  : 0..MaxRequest,
           retracted : 0..MaxRequest,
           scrubbed  : BOOLEAN]

Job == {"idle", "resolve", "verify", "retract", "purge", "scrub"}

VARIABLES
  standing,   \* of the finding
  aged,       \* resolved longer than the retention windows
  silenced,   \* suppressed_at is set
  reopens,    \* REOPENED events so far
  acts,       \* [Action -> Record]
  job,        \* [Worker -> what its transaction is doing]
  subject,    \* [Worker -> the actions it loaded or locked]
  since,      \* [Worker -> the last reopen its evidence check saw]
  requests    \* requests begun

rvars == <<standing, aged, silenced, reopens, acts, job, subject, since, requests>>

Unrecorded == [recorded |-> FALSE, at |-> 0, url |-> FALSE, verified |-> 0,
               retracted |-> 0, scrubbed |-> FALSE]

RemediationInit ==
  /\ standing = "open"
  /\ aged = FALSE
  /\ silenced = FALSE
  /\ reopens = 0
  /\ acts = [a \in Action |-> Unrecorded]
  /\ job = [w \in Worker |-> "idle"]
  /\ subject = [w \in Worker |-> {}]
  /\ since = [w \in Worker |-> 0]
  /\ requests = 0

\* Faulty variant: the gate and the scrub read without FOR UPDATE.
NothingLocked == FALSE

\* The gate holds the finding's actions FOR UPDATE, the scrub the finding.
ActionsLocked == \E w \in Worker : job[w] = "resolve"
FindingLocked == \E w \in Worker : job[w] = "scrub"

Take(w, j, sub) ==
  /\ job[w] = "idle"
  /\ requests < MaxRequest
  /\ requests' = requests + 1
  /\ job' = [job EXCEPT ![w] = j]
  /\ subject' = [subject EXCEPT ![w] = sub]

Done(w) ==
  /\ job' = [job EXCEPT ![w] = "idle"]
  /\ subject' = [subject EXCEPT ![w] = {}]

----------------------------------------------------------------------------
\* record: the content is final from this moment.
RecordAction(a, url) ==
  /\ standing # "gone"
  /\ ~acts[a].recorded
  /\ acts' = [acts EXCEPT ![a].recorded = TRUE, ![a].at = reopens, ![a].url = url]
  /\ UNCHANGED <<standing, aged, silenced, reopens, job, subject, since, requests>>

\* verify and retract answer 409 on what they loaded ...
VerifyBegin(w, a) ==
  /\ acts[a].recorded /\ acts[a].retracted = 0 /\ acts[a].verified = 0
  /\ Take(w, "verify", {a})
  /\ UNCHANGED <<standing, aged, silenced, reopens, acts, since>>

RetractBegin(w, a) ==
  /\ acts[a].recorded /\ acts[a].retracted = 0
  /\ Take(w, "retract", {a})
  /\ UNCHANGED <<standing, aged, silenced, reopens, acts, since>>

\* ... and again on what the UPDATE finds, which waits for the gate's lock.
Verifiable(a) == acts[a].retracted = 0 /\ acts[a].verified = 0
Retractable(a) == acts[a].retracted = 0

VerifyCommit(w) ==
  /\ job[w] = "verify"
  /\ ~ActionsLocked
  /\ acts' = [a \in Action |-> IF a \in subject[w] /\ Verifiable(a)
                               THEN [acts[a] EXCEPT !.verified = @ + 1] ELSE acts[a]]
  /\ Done(w)
  /\ UNCHANGED <<standing, aged, silenced, reopens, since, requests>>

RetractCommit(w) ==
  /\ job[w] = "retract"
  /\ ~ActionsLocked
  /\ acts' = [a \in Action |-> IF a \in subject[w] /\ Retractable(a)
                               THEN [acts[a] EXCEPT !.retracted = @ + 1] ELSE acts[a]]
  /\ Done(w)
  /\ UNCHANGED <<standing, aged, silenced, reopens, since, requests>>

\* qualifying_action_exists: not retracted, a link with a URL, recorded since the
\* last reopen.
Qualifies(a) ==
  /\ acts[a].recorded
  /\ acts[a].retracted = 0
  /\ acts[a].url
  /\ acts[a].at >= reopens

\* triage.apply towards resolved: the gate reads the actions FOR UPDATE.
ResolveCheck(w) ==
  /\ standing = "open"
  /\ ~ActionsLocked
  /\ \E a \in Action : Qualifies(a)
  /\ Take(w, "resolve", {a \in Action : acts[a].recorded})
  /\ since' = [since EXCEPT ![w] = reopens]
  /\ UNCHANGED <<standing, aged, silenced, reopens, acts>>

\* The row was loaded open, so the UPDATE writes resolved whatever it is by now.
ResolveCommit(w) ==
  /\ job[w] = "resolve"
  /\ ~FindingLocked
  /\ standing' = IF standing = "gone" THEN "gone" ELSE "manual"
  /\ Done(w)
  /\ UNCHANGED <<aged, silenced, reopens, acts, since, requests>>

\* A scan that no longer sees the finding resolves it, with no evidence asked.
AutoResolve ==
  /\ standing = "open"
  /\ ~silenced
  /\ ~FindingLocked
  /\ standing' = "auto"
  /\ UNCHANGED <<aged, silenced, reopens, acts, job, subject, since, requests>>

\* A sighting or an analyst reopens it: a REOPENED event.
Reopen ==
  /\ standing \in Resolved
  /\ reopens < MaxReopen
  /\ ~FindingLocked
  /\ standing' = "open"
  /\ reopens' = reopens + 1
  /\ aged' = FALSE
  /\ UNCHANGED <<silenced, acts, job, subject, since, requests>>

Silence ==
  /\ standing # "gone"
  /\ ~FindingLocked
  /\ silenced' = ~silenced
  /\ aged' = FALSE
  /\ UNCHANGED <<standing, reopens, acts, job, subject, since, requests>>

\* The windows are days: no request is in flight for so long.
Age ==
  /\ standing \in Resolved
  /\ \A w \in Worker : job[w] = "idle"
  /\ aged' = TRUE
  /\ UNCHANGED <<standing, silenced, reopens, acts, job, subject, since, requests>>

----------------------------------------------------------------------------
(* retention.purge *)

\* Only what a scan resolved, that long ago, and nobody silenced.
Purgeable == standing = "auto" /\ aged /\ ~silenced

PurgeSelect(w) ==
  /\ Purgeable
  /\ Take(w, "purge", {})
  /\ UNCHANGED <<standing, aged, silenced, reopens, acts, since>>

\* The delete repeats the predicates; actions and events cascade.
PurgeCommit(w) ==
  /\ job[w] = "purge"
  /\ ~FindingLocked
  /\ IF Purgeable
     THEN standing' = "gone" /\ acts' = [a \in Action |-> Unrecorded]
     ELSE UNCHANGED <<standing, acts>>
  /\ Done(w)
  /\ UNCHANGED <<aged, silenced, reopens, since, requests>>

\* _scrub_remediation_evidence: the finding FOR UPDATE, then its actions.
Scrubbable == standing \in Resolved /\ aged

ScrubLock(w) ==
  /\ Scrubbable
  /\ ~FindingLocked
  /\ Take(w, "scrub", {a \in Action : acts[a].recorded /\ ~acts[a].scrubbed})
  /\ UNCHANGED <<standing, aged, silenced, reopens, acts, since>>

ScrubCommit(w) ==
  /\ job[w] = "scrub"
  /\ ~ActionsLocked
  /\ acts' = [a \in Action |->
                IF a \in subject[w] /\ ~acts[a].scrubbed
                THEN [acts[a] EXCEPT !.url = FALSE, !.scrubbed = TRUE] ELSE acts[a]]
  /\ Done(w)
  /\ UNCHANGED <<standing, aged, silenced, reopens, since, requests>>

RemediationNext ==
  \/ \E a \in Action, u \in BOOLEAN : RecordAction(a, u)
  \/ AutoResolve
  \/ Reopen
  \/ Silence
  \/ Age
  \/ \E w \in Worker :
       \/ \E a \in Action : VerifyBegin(w, a) \/ RetractBegin(w, a)
       \/ VerifyCommit(w) \/ RetractCommit(w)
       \/ ResolveCheck(w) \/ ResolveCommit(w)
       \/ PurgeSelect(w) \/ PurgeCommit(w)
       \/ ScrubLock(w) \/ ScrubCommit(w)

RemediationSpec == RemediationInit /\ [][RemediationNext]_rvars

----------------------------------------------------------------------------
RemediationTypeOK ==
  /\ standing \in Standing
  /\ aged \in BOOLEAN /\ silenced \in BOOLEAN
  /\ reopens \in 0..MaxReopen
  /\ acts \in [Action -> Record]
  /\ job \in [Worker -> Job]
  /\ subject \in [Worker -> SUBSET Action]
  /\ since \in [Worker -> 0..MaxReopen]
  /\ requests \in 0..MaxRequest

\* A resolution by hand lands while the evidence that allowed it still stands: an
\* unretracted action with a reachable link, recorded since the reopen the check
\* saw.  Retractions and scrubs committed between the check and the write would
\* take it away.
ResolvedOnEvidence ==
  [][\A w \in Worker :
       job[w] = "resolve" /\ job'[w] = "idle" /\ standing' = "manual" =>
         \E a \in Action : /\ acts[a].recorded /\ acts[a].retracted = 0
                           /\ acts[a].url /\ acts[a].at >= since[w]]_rvars

\* Two analysts pressing the button at once leave one "verified" and one
\* "retracted" row in the trail, not two.
OneVerdictPerAction == \A a \in Action : acts[a].verified <= 1 /\ acts[a].retracted <= 1

\* Retention takes nothing live: what it deletes is auto-resolved and not silenced
\* at the delete, and it never takes the links of a finding that is open again.
RetentionSparesLive ==
  [][/\ standing' = "gone" /\ standing # "gone" => standing = "auto" /\ ~silenced
     /\ \A a \in Action : acts'[a].scrubbed /\ ~acts[a].scrubbed => standing \in Resolved]_rvars

=============================================================================
