------------------------------ MODULE Identity ------------------------------
(***************************************************************************)
(* Who a finding is: its fingerprint and secret_hash, both keyed by the    *)
(* pepper, and its correlation_id, keyed by the correlation key and        *)
(* derived from the hash.  A pepper rotation opens a window in which       *)
(* leases carry both peppers and ingest re-keys the rows it recognises     *)
(* (engines/ingest.py, runner.py _candidates); the correlation ids are     *)
(* repaired meanwhile by the beat's fill_missing and by the operator's     *)
(* reindex_all (correlation/reindex.py), in sessions of their own.         *)
(*                                                                         *)
(* One source, one locator and one detection rule: a fingerprint is then   *)
(* the pair of a secret and a pepper, and so is a secret_hash.  A source   *)
(* has one active scan and a locator one task, so submissions follow one   *)
(* another and the leases they come from never go back to an older pepper. *)
(***************************************************************************)
EXTENDS Naturals, FiniteSets

CONSTANTS
  Secret,       \* plaintexts the locator can hold
  MaxRow,       \* bound on finding rows
  MaxPepper,    \* bound on rotations of the pepper
  MaxKey,       \* bound on correlation keys; key 0 is "none configured"
  MaxSubmit     \* bound on results submissions

ASSUME IdentityAssumption ==
  /\ MaxRow \in Nat /\ MaxPepper \in Nat /\ MaxKey \in Nat /\ MaxSubmit \in Nat
  /\ 0 \notin Secret

RowId == 1..MaxRow
Pepper == 0..MaxPepper
Key == 0..MaxKey

\* correlation_id: a function of the stored hash (here its pepper, the row fixes
\* the secret) and the key.  key = 0 is NULL.
Correlation == [pep : Pepper, key : Key]
NoCorrelation == [pep |-> 0, key |-> 0]
CorrelationId(pep, key) == IF key = 0 THEN NoCorrelation ELSE [pep |-> pep, key |-> key]

\* secret = 0 is a row that does not exist.
Identified == [secret : Secret \cup {0}, pep : Pepper, corr : Correlation]
NoIdentity == [secret |-> 0, pep |-> 0, corr |-> NoCorrelation]

\* A lease's peppers; both = FALSE when it carries no previous one.
PepperLease == [cur : Pepper, both : BOOLEAN]

\* A submission's transaction: the secret it reports, the peppers it was computed
\* under, the correlation key the store gave, and the row it loaded (0: none).
Submission == [secret : Secret \cup {0}, lease : PepperLease, key : Key,
               hit : 0..MaxRow, read : Identified]

\* A repair session: the row it read and the key it derives with.  at = 0 is idle.
Repair == [at : 0..MaxRow, read : Identified, key : Key]

VARIABLES
  table,      \* [RowId -> Identified]
  pepper,     \* the configured pepper
  rotating,     \* the previous pepper is configured too
  lease,      \* the peppers the running task was leased with
  corrKey,    \* the configured correlation key
  sub,        \* the submission in progress
  fill,       \* fill_missing on the beat
  reindex,    \* reindex_all in the operator's shell
  walked,     \* the last row id reindex_all has dealt with
  missed,     \* a lease inside a window went out without the previous pepper
  keyless,    \* rows re-keyed by a submission that had no correlation key
  fixed,      \* secrets reported in this window under both peppers
  submits

ivars == <<table, pepper, rotating, lease, corrKey, sub, fill, reindex, walked, missed,
           keyless, fixed, submits>>
config == <<pepper, rotating, corrKey>>

NoSubmission == [secret |-> 0, lease |-> [cur |-> 0, both |-> FALSE], key |-> 0,
                 hit |-> 0, read |-> NoIdentity]
NoRepair == [at |-> 0, read |-> NoIdentity, key |-> 0]

IdentityInit ==
  /\ table = [i \in RowId |-> NoIdentity]
  /\ pepper = 0
  /\ rotating = FALSE
  /\ lease = [cur |-> 0, both |-> FALSE]
  /\ corrKey = 0
  /\ sub = NoSubmission
  /\ fill = NoRepair
  /\ reindex = NoRepair
  /\ walked = 0
  /\ missed = FALSE
  /\ keyless = {}
  /\ fixed = {}
  /\ submits = 0

OfWindow(l) == rotating /\ l = [cur |-> pepper, both |-> TRUE]

Known == {i \in RowId : table[i].secret # 0}
Under(s, p) == {i \in RowId : table[i].secret = s /\ table[i].pep = p}

----------------------------------------------------------------------------
(* Configuration and leases *)

\* The runbook: the window opens with the new pepper.
RotatePepper ==
  /\ ~rotating
  /\ pepper < MaxPepper
  /\ pepper' = pepper + 1
  /\ rotating' = TRUE
  /\ fixed' = {}
  /\ UNCHANGED <<table, lease, corrKey, sub, fill, reindex, walked, missed, keyless, submits>>

\* And closes once a scan under both peppers re-keys nothing.
CloseWindow ==
  /\ OfWindow(lease)
  /\ sub = NoSubmission
  /\ \A i \in Known : table[i].pep = pepper
  /\ rotating' = FALSE
  /\ UNCHANGED <<table, pepper, lease, corrKey, sub, fill, reindex, walked, missed, keyless,
                 fixed, submits>>

RotateKey ==
  /\ corrKey < MaxKey
  /\ corrKey' = corrKey + 1
  /\ UNCHANGED <<table, pepper, rotating, lease, sub, fill, reindex, walked, missed, keyless,
                 fixed, submits>>

\* lease_task fails closed on the pepper and open on the previous one: the store
\* may not be able to read it.
LeasePeppers(readable) ==
  /\ sub = NoSubmission
  /\ lease' = [cur |-> pepper, both |-> rotating /\ readable]
  /\ missed' = (missed \/ (rotating /\ ~readable))
  /\ UNCHANGED <<table, config, sub, fill, reindex, walked, keyless, fixed, submits>>

----------------------------------------------------------------------------
(* Ingest *)

\* Faulty variant: the identity under the outgoing pepper is not looked up.
RecognisedAsNow(s, l) == Under(s, l.cur)

\* _load_findings and the two lookups: the current identity first.  _same_secret
\* holds of whatever the previous fingerprint finds: _candidates hashes one
\* secret under both peppers.
Recognised(s, l) ==
  IF Under(s, l.cur) # {} THEN Under(s, l.cur)
  ELSE IF l.both THEN Under(s, l.cur - 1) ELSE {}

\* The correlation key is read per submission and fails open.
SubmitBegin(s, key) ==
  /\ sub = NoSubmission
  /\ submits < MaxSubmit
  /\ key \in {corrKey, 0}
  /\ submits' = submits + 1
  /\ \E hit \in IF Recognised(s, lease) = {} THEN {0} ELSE Recognised(s, lease) :
       sub' = [secret |-> s, lease |-> lease, key |-> key, hit |-> hit,
               read |-> IF hit = 0 THEN NoIdentity ELSE table[hit]]
  /\ UNCHANGED <<table, config, lease, fill, reindex, walked, missed, keyless, fixed>>

\* The re-key moves the hash and the id derived from it together; _refresh gives
\* an id only to a row that has none.
Refreshed(t) ==
  IF t.read.pep # t.lease.cur
  THEN [t.read EXCEPT !.pep = t.lease.cur, !.corr = CorrelationId(t.lease.cur, t.key)]
  ELSE IF t.read.corr = NoCorrelation
  THEN [t.read EXCEPT !.corr = CorrelationId(t.read.pep, t.key)]
  ELSE t.read

\* The flush writes the columns that changed; hash and id are separate columns.
Write(cur, read, new) ==
  [cur EXCEPT !.pep  = IF new.pep # read.pep THEN new.pep ELSE @,
              !.corr = IF new.corr # read.corr THEN new.corr ELSE @]

SubmitRefresh ==
  /\ sub.hit # 0
  /\ table' = [table EXCEPT ![sub.hit] = Write(@, sub.read, Refreshed(sub))]
  /\ keyless' = IF sub.read.pep # sub.lease.cur /\ sub.key = 0
                THEN keyless \cup {sub.hit} ELSE keyless
  /\ fixed' = IF OfWindow(sub.lease) THEN fixed \cup {sub.secret} ELSE fixed
  /\ sub' = NoSubmission
  /\ UNCHANGED <<config, lease, fill, reindex, walked, missed, submits>>

SubmitCreate ==
  /\ sub.secret # 0 /\ sub.hit = 0
  /\ \E i \in RowId \ Known :
       table' = [table EXCEPT ![i] = [secret |-> sub.secret, pep |-> sub.lease.cur,
                                      corr |-> CorrelationId(sub.lease.cur, sub.key)]]
  /\ fixed' = IF OfWindow(sub.lease) THEN fixed \cup {sub.secret} ELSE fixed
  /\ sub' = NoSubmission
  /\ UNCHANGED <<config, lease, fill, reindex, walked, missed, keyless, submits>>

----------------------------------------------------------------------------
(* Repairs of the correlation ids *)

\* Faulty variant: a plain ORM write, whatever the row holds by now.
ClaimableAnyHash(i, read) == table[i].secret # 0

\* _claim: the UPDATE holds only while the row has the hash the id came from.
Claimable(i, read) == table[i].pep = read.pep

\* fill_missing: a batch of one row that has no id.
FillBegin ==
  /\ fill = NoRepair
  /\ corrKey # 0
  /\ \E i \in Known :
       /\ table[i].corr = NoCorrelation
       /\ fill' = [at |-> i, read |-> table[i], key |-> corrKey]
  /\ UNCHANGED <<table, config, lease, sub, reindex, walked, missed, keyless, fixed, submits>>

FillCommit ==
  /\ fill.at # 0
  /\ table' = IF Claimable(fill.at, fill.read) /\ table[fill.at].corr = NoCorrelation
              THEN [table EXCEPT ![fill.at].corr = CorrelationId(fill.read.pep, fill.key)]
              ELSE table
  /\ fill' = NoRepair
  /\ UNCHANGED <<config, lease, sub, reindex, walked, missed, keyless, fixed, submits>>

\* reindex_all: the table in id order, one row read and then claimed; a row whose
\* id is already right is passed over.
ReindexRead(i) ==
  /\ reindex = NoRepair
  /\ corrKey # 0
  /\ i \in Known /\ i > walked
  /\ \A j \in Known : j > walked => i <= j
  /\ walked' = i
  /\ reindex' = IF table[i].corr = CorrelationId(table[i].pep, corrKey) THEN NoRepair
                ELSE [at |-> i, read |-> table[i], key |-> corrKey]
  /\ UNCHANGED <<table, config, lease, sub, fill, missed, keyless, fixed, submits>>

ReindexWrite ==
  /\ reindex.at # 0
  /\ table' = IF Claimable(reindex.at, reindex.read)
              THEN [table EXCEPT ![reindex.at].corr = CorrelationId(reindex.read.pep, reindex.key)]
              ELSE table
  /\ reindex' = NoRepair
  /\ UNCHANGED <<config, lease, sub, fill, walked, missed, keyless, fixed, submits>>

IdentityNext ==
  \/ RotatePepper
  \/ CloseWindow
  \/ RotateKey
  \/ \E r \in BOOLEAN : LeasePeppers(r)
  \/ \E s \in Secret, k \in Key : SubmitBegin(s, k)
  \/ SubmitRefresh
  \/ SubmitCreate
  \/ FillBegin
  \/ FillCommit
  \/ \E i \in RowId : ReindexRead(i)
  \/ ReindexWrite

IdentitySpec == IdentityInit /\ [][IdentityNext]_ivars

----------------------------------------------------------------------------
IdentityTypeOK ==
  /\ table \in [RowId -> Identified]
  /\ pepper \in Pepper /\ corrKey \in Key
  /\ rotating \in BOOLEAN /\ missed \in BOOLEAN
  /\ lease \in PepperLease
  /\ sub \in Submission
  /\ fill \in Repair /\ reindex \in Repair
  /\ walked \in 0..MaxRow
  /\ keyless \subseteq RowId /\ fixed \subseteq Secret
  /\ submits \in 0..MaxSubmit

\* A populated correlation id is derived from the hash its row holds, whichever
\* of a re-key, the backfill and a reindex wrote last: a wrong one is never
\* repaired by anything but a full reindex.  The exception the code has is a row
\* re-keyed by a submission that could not read the correlation key, whose NULL
\* the flush may leave unwritten.
CorrelationFollowsHash ==
  \A i \in Known : table[i].corr # NoCorrelation =>
                     table[i].corr.pep = table[i].pep \/ i \in keyless

\* Across rotations a secret has one row, so the decision made on it is the one
\* in force: provided every lease of a window carried both peppers and windows
\* were closed by the runbook.
RotationKeepsIdentity ==
  \A i, j \in Known : table[i].secret = table[j].secret => i = j \/ missed

\* What runner.py says of a lease that lost the previous pepper: its findings
\* ingest as new, "which the next scan of the window can still fix".
WindowScanRepairs ==
  \A s \in fixed : Cardinality({i \in Known : table[i].secret = s}) <= 1

=============================================================================
