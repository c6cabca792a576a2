---------------------------- MODULE IdentityProofs ----------------------------
(* Proofs about Identity, for every number of rows, rotations of the pepper and *)
(* of the correlation key, and submissions, and below about Redaction, for every *)
(* text, set of matches, cap and policy of what may be revealed.                *)
EXTENDS Identity, Redaction, FiniteSetTheorems, WellFoundedInduction, TLAPS

USE IdentityAssumption

\* The parts of the state the proofs need the shape of.
RowsTypeOK ==
  /\ table \in [RowId -> Identified]
  /\ pepper \in Pepper /\ corrKey \in Key
  /\ lease \in PepperLease
  /\ sub \in Submission
  /\ fill \in Repair /\ reindex \in Repair
  /\ keyless \subseteq RowId

DerivedFrom(row, i, excused) ==
  row.corr # NoCorrelation => row.corr.pep = row.pep \/ i \in excused

\* What a submission loaded is still the row's hash: hashes move by submissions only.
SubReads ==
  sub.hit # 0 => /\ sub.secret # 0
                 /\ table[sub.hit].secret # 0
                 /\ table[sub.hit].pep = sub.read.pep
                 /\ DerivedFrom(sub.read, sub.hit, keyless)

CorrelationInv == RowsTypeOK /\ SubReads /\ CorrelationFollowsHash

----------------------------------------------------------------------------
(* The operators. *)

LEMMA Blanks ==
  /\ NoCorrelation \in Correlation
  /\ NoIdentity \in Identified
  /\ NoSubmission \in Submission
  /\ NoRepair \in Repair
  /\ NoIdentity.secret = 0
  /\ NoSubmission.hit = 0 /\ NoSubmission.secret = 0
BY DEF NoCorrelation, Correlation, NoIdentity, Identified, NoSubmission, Submission, NoRepair,
   Repair, PepperLease, Pepper, Key, RowId

LEMMA CorrelationIdShape ==
  ASSUME NEW p \in Pepper, NEW k \in Key
  PROVE  /\ CorrelationId(p, k) \in Correlation
         /\ CorrelationId(p, k) # NoCorrelation => CorrelationId(p, k).pep = p
         /\ k # 0 => CorrelationId(p, k).pep = p /\ CorrelationId(p, k) # NoCorrelation
BY DEF CorrelationId, Correlation, NoCorrelation, Pepper, Key

LEMMA WriteShape ==
  ASSUME NEW cur \in Identified, NEW read \in Identified, NEW new \in Identified
  PROVE  /\ Write(cur, read, new) \in Identified
         /\ Write(cur, read, new).secret = cur.secret
         /\ Write(cur, read, new).pep = IF new.pep # read.pep THEN new.pep ELSE cur.pep
         /\ Write(cur, read, new).corr = IF new.corr # read.corr THEN new.corr ELSE cur.corr
BY DEF Write, Identified

LEMMA CorrWritten ==
  ASSUME NEW row \in Identified, NEW c \in Correlation
  PROVE  /\ [row EXCEPT !.corr = c] \in Identified
         /\ [row EXCEPT !.corr = c].secret = row.secret
         /\ [row EXCEPT !.corr = c].pep = row.pep
         /\ [row EXCEPT !.corr = c].corr = c
BY DEF Identified

LEMMA SubParts ==
  ASSUME NEW t \in Submission
  PROVE  /\ t.read \in Identified /\ t.lease \in PepperLease /\ t.lease.cur \in Pepper
         /\ t.key \in Key /\ t.hit \in 0..MaxRow /\ t.secret \in Secret \cup {0}
         /\ t.read.pep \in Pepper
BY DEF Submission, PepperLease, Identified

\* A re-key moves the hash and the id; otherwise only a missing id is given.
LEMMA RefreshedShape ==
  ASSUME NEW t \in Submission
  PROVE  /\ Refreshed(t) \in Identified
         /\ Refreshed(t).pep = t.lease.cur
         /\ t.read.pep # t.lease.cur => Refreshed(t).corr = CorrelationId(t.lease.cur, t.key)
         /\ t.read.pep = t.lease.cur =>
              \/ Refreshed(t).corr = t.read.corr
              \/ Refreshed(t).corr = CorrelationId(t.read.pep, t.key)
<1> DEFINE r == t.read
           c1 == CorrelationId(t.lease.cur, t.key)
           c2 == CorrelationId(t.read.pep, t.key)
<1>1. r \in Identified /\ t.lease.cur \in Pepper /\ c1 \in Correlation /\ c2 \in Correlation
  BY SubParts, CorrelationIdShape
<1>2. Refreshed(t) = IF r.pep # t.lease.cur THEN [r EXCEPT !.pep = t.lease.cur, !.corr = c1]
                     ELSE IF r.corr = NoCorrelation THEN [r EXCEPT !.corr = c2] ELSE r
  BY DEF Refreshed
<1> HIDE DEF r, c1, c2
<1>3. /\ Refreshed(t) \in Identified
      /\ Refreshed(t).pep = t.lease.cur
      /\ r.pep # t.lease.cur => Refreshed(t).corr = c1
      /\ r.pep = t.lease.cur => Refreshed(t).corr \in {r.corr, c2}
  BY <1>1, <1>2 DEF Identified
<1>4. QED
  BY <1>3 DEF r, c1, c2

----------------------------------------------------------------------------
(* The correlation invariant. *)

LEMMA CorrelationInit == IdentityInit => CorrelationInv
<1> SUFFICES ASSUME IdentityInit PROVE CorrelationInv
  OBVIOUS
<1>1. RowsTypeOK
  BY Blanks DEF IdentityInit, RowsTypeOK, PepperLease, Pepper, Key
<1>2. SubReads
  BY Blanks DEF IdentityInit, SubReads
<1>3. CorrelationFollowsHash
  BY Blanks DEF IdentityInit, CorrelationFollowsHash, Known
<1>4. QED
  BY <1>1, <1>2, <1>3 DEF CorrelationInv

\* Rows, submission and keyless rows as they were.
LEMMA RowsUntouched ==
  ASSUME CorrelationInv, RowsTypeOK', UNCHANGED <<table, sub, keyless>>
  PROVE  CorrelationInv'
BY DEF CorrelationInv, SubReads, CorrelationFollowsHash, DerivedFrom, Known

LEMMA ConfigSteps ==
  ASSUME CorrelationInv,
         \/ RotatePepper \/ CloseWindow \/ RotateKey
         \/ \E r \in BOOLEAN : LeasePeppers(r)
         \/ FillBegin
         \/ \E i \in RowId : ReindexRead(i)
  PROVE  CorrelationInv'
<1>1. RowsTypeOK
  BY DEF CorrelationInv
<1>2. CASE RotatePepper \/ CloseWindow \/ RotateKey
  <2>1. RowsTypeOK'
    BY <1>1, <1>2 DEF RowsTypeOK, RotatePepper, CloseWindow, RotateKey, Pepper, Key
  <2>2. QED
    BY <1>2, <2>1, RowsUntouched DEF RotatePepper, CloseWindow, RotateKey
<1>3. ASSUME NEW r \in BOOLEAN, LeasePeppers(r)
      PROVE  CorrelationInv'
  <2>1. lease' \in PepperLease
    <3>1. pepper \in Pepper /\ (rotating /\ r) \in BOOLEAN
      BY <1>1 DEF RowsTypeOK
    <3>2. lease' = [cur |-> pepper, both |-> rotating /\ r]
      BY <1>3 DEF LeasePeppers
    <3>3. QED
      BY <3>1, <3>2, Zenon DEF PepperLease
  <2>2. UNCHANGED <<table, pepper, corrKey, sub, fill, reindex, keyless>>
    BY <1>3 DEF LeasePeppers, config
  <2>3. RowsTypeOK'
    BY <1>1, <2>1, <2>2, Zenon DEF RowsTypeOK
  <2>4. QED
    BY <2>2, <2>3, RowsUntouched
<1>4. CASE FillBegin
  <2>1. PICK i \in Known : fill' = [at |-> i, read |-> table[i], key |-> corrKey]
    BY <1>4 DEF FillBegin
  <2>2. i \in 0..MaxRow /\ table[i] \in Identified /\ corrKey \in Key
    BY <1>1 DEF RowsTypeOK, Known, RowId
  <2>3. fill' \in Repair
    BY <2>1, <2>2 DEF Repair
  <2>4. QED
    BY <1>1, <1>4, <2>3, RowsUntouched DEF FillBegin, config, RowsTypeOK
<1>5. ASSUME NEW i \in RowId, ReindexRead(i)
      PROVE  CorrelationInv'
  <2>1. i \in 0..MaxRow /\ table[i] \in Identified /\ corrKey \in Key
    BY <1>1 DEF RowsTypeOK, RowId
  <2>2. [at |-> i, read |-> table[i], key |-> corrKey] \in Repair
    BY <2>1 DEF Repair
  <2>3. reindex' \in Repair
    BY <1>5, <2>2, Blanks DEF ReindexRead
  <2>4. QED
    BY <1>1, <1>5, <2>3, RowsUntouched DEF ReindexRead, config, RowsTypeOK
<1>6. QED
  BY <1>2, <1>3, <1>4, <1>5

LEMMA BeginStep ==
  ASSUME CorrelationInv, NEW s \in Secret, NEW k \in Key, SubmitBegin(s, k)
  PROVE  CorrelationInv'
<1>1. RowsTypeOK
  BY DEF CorrelationInv
<1>2. PICK hit \in IF Recognised(s, lease) = {} THEN {0} ELSE Recognised(s, lease) :
         sub' = [secret |-> s, lease |-> lease, key |-> k, hit |-> hit,
                 read |-> IF hit = 0 THEN NoIdentity ELSE table[hit]]
  BY DEF SubmitBegin
<1>3. hit # 0 => hit \in RowId /\ table[hit].secret = s
  BY <1>2 DEF Recognised, Under
<1>4. UNCHANGED <<table, pepper, corrKey, lease, fill, reindex, keyless>>
  BY DEF SubmitBegin, config
<1>5. sub' \in Submission
  <2>1. hit \in 0..MaxRow /\ lease \in PepperLease
    BY <1>1, <1>3 DEF RowId, RowsTypeOK
  <2>2. (IF hit = 0 THEN NoIdentity ELSE table[hit]) \in Identified
    BY <1>1, <1>3, Blanks DEF RowsTypeOK
  <2>3. QED
    BY <1>2, <2>1, <2>2 DEF Submission
<1>6. RowsTypeOK'
  BY <1>1, <1>4, <1>5 DEF RowsTypeOK
<1>7. CorrelationFollowsHash'
  BY <1>4 DEF CorrelationInv, CorrelationFollowsHash, Known
<1>8. SubReads'
  <2>1. CASE hit = 0
    BY <1>2, <2>1 DEF SubReads
  <2>2. CASE hit # 0
    <3>1. sub'.hit = hit /\ sub'.secret = s /\ sub'.read = table[hit] /\ s # 0
      BY <1>2, <2>2
    <3>2. hit \in Known
      BY <1>3, <2>2, <3>1 DEF Known
    <3>3. QED
      BY <1>3, <1>4, <2>2, <3>1, <3>2 DEF CorrelationInv, CorrelationFollowsHash, SubReads,
         DerivedFrom
  <2>3. QED
    BY <2>1, <2>2
<1>9. QED
  BY <1>6, <1>7, <1>8 DEF CorrelationInv

\* One row written, the others and their keyless marks kept, the submission over.
LEMMA OneRowWritten ==
  ASSUME CorrelationInv, NEW i \in RowId, NEW row \in Identified,
         table' = [table EXCEPT ![i] = row], RowsTypeOK', keyless \subseteq keyless',
         row.secret # 0 => DerivedFrom(row, i, keyless')
  PROVE  CorrelationFollowsHash'
<1>1. \A j \in RowId : table'[j] = IF j = i THEN row ELSE table[j]
  BY DEF CorrelationInv, RowsTypeOK
<1>2. ASSUME NEW j \in Known', table'[j].corr # NoCorrelation
      PROVE  table'[j].corr.pep = table'[j].pep \/ j \in keyless'
  <2>1. CASE j = i
    BY <1>1, <1>2, <2>1 DEF DerivedFrom, Known
  <2>2. CASE j # i
    <3>1. j \in Known /\ table'[j] = table[j]
      BY <1>1, <2>2 DEF Known
    <3>2. QED
      BY <1>2, <3>1 DEF CorrelationInv, CorrelationFollowsHash
  <2>3. QED
    BY <2>1, <2>2
<1>3. QED
  BY <1>2 DEF CorrelationFollowsHash

LEMMA RefreshStep ==
  ASSUME CorrelationInv, SubmitRefresh
  PROVE  CorrelationInv'
<1> DEFINE i == sub.hit
           read == sub.read
           new == Refreshed(sub)
           row == Write(table[sub.hit], sub.read, new)
<1>1. RowsTypeOK /\ sub \in Submission
  BY DEF CorrelationInv, RowsTypeOK
<1>2. /\ i \in RowId /\ read \in Identified /\ new \in Identified /\ table[i] \in Identified
      /\ sub.lease.cur \in Pepper /\ read.pep \in Pepper /\ sub.key \in Key
  BY <1>1, SubParts, RefreshedShape DEF SubmitRefresh, RowsTypeOK, RowId
<1>3. /\ row \in Identified
      /\ row.secret = table[i].secret
      /\ row.pep = IF new.pep # read.pep THEN new.pep ELSE table[i].pep
      /\ row.corr = IF new.corr # read.corr THEN new.corr ELSE table[i].corr
  BY <1>2, WriteShape
<1>4. /\ table' = [table EXCEPT ![i] = row]
      /\ keyless' = IF read.pep # sub.lease.cur /\ sub.key = 0 THEN keyless \cup {i} ELSE keyless
      /\ sub' = NoSubmission
      /\ UNCHANGED <<pepper, corrKey, lease, fill, reindex>>
  BY DEF SubmitRefresh, config
<1>5. /\ table[i].secret # 0 /\ table[i].pep = read.pep
      /\ DerivedFrom(read, i, keyless) /\ DerivedFrom(table[i], i, keyless)
  BY <1>2 DEF SubmitRefresh, CorrelationInv, SubReads, CorrelationFollowsHash, DerivedFrom, Known
<1>6. /\ new.pep = sub.lease.cur
      /\ read.pep # sub.lease.cur => new.corr = CorrelationId(sub.lease.cur, sub.key)
      /\ read.pep = sub.lease.cur =>
           new.corr = read.corr \/ new.corr = CorrelationId(read.pep, sub.key)
  BY <1>1, RefreshedShape
<1> HIDE DEF i, read, new, row
<1>7. DerivedFrom(row, i, keyless')
  <2>1. CASE read.pep = sub.lease.cur
    <3>1. keyless' = keyless
      BY <1>4, <2>1
    <3>2. QED
      BY <1>2, <1>3, <1>5, <1>6, <2>1, <3>1, CorrelationIdShape DEF DerivedFrom
  <2>2. CASE read.pep # sub.lease.cur /\ sub.key = 0
    BY <1>4, <2>2 DEF DerivedFrom
  <2>3. CASE read.pep # sub.lease.cur /\ sub.key # 0
    <3>1. keyless' = keyless
      BY <1>4, <2>3
    <3>2. new.corr.pep = sub.lease.cur /\ new.corr # NoCorrelation
      BY <1>2, <1>6, <2>3, CorrelationIdShape
    <3>3. QED
      BY <1>3, <1>5, <1>6, <2>3, <3>1, <3>2 DEF DerivedFrom
  <2>4. QED
    BY <2>1, <2>2, <2>3
<1>8. RowsTypeOK'
  BY <1>1, <1>2, <1>3, <1>4, Blanks DEF RowsTypeOK
<1>9. CorrelationFollowsHash'
  <2>1. keyless \subseteq keyless'
    BY <1>4
  <2>2. QED
    BY <1>2, <1>3, <1>4, <1>7, <1>8, <2>1, OneRowWritten
<1>10. SubReads'
  BY <1>4, Blanks DEF SubReads
<1>11. QED
  BY <1>8, <1>9, <1>10 DEF CorrelationInv

LEMMA CreateStep ==
  ASSUME CorrelationInv, SubmitCreate
  PROVE  CorrelationInv'
<1> DEFINE row == [secret |-> sub.secret, pep |-> sub.lease.cur,
                   corr |-> CorrelationId(sub.lease.cur, sub.key)]
<1>1. RowsTypeOK /\ sub \in Submission
  BY DEF CorrelationInv, RowsTypeOK
<1>2. PICK i \in RowId \ Known : table' = [table EXCEPT ![i] = row]
  BY DEF SubmitCreate
<1>3. sub' = NoSubmission /\ UNCHANGED <<pepper, corrKey, lease, fill, reindex, keyless>>
  BY DEF SubmitCreate, config
<1>4. sub.lease.cur \in Pepper /\ sub.key \in Key /\ sub.secret \in Secret \cup {0}
  BY <1>1, SubParts
<1>5. row \in Identified /\ DerivedFrom(row, i, keyless')
  BY <1>4, CorrelationIdShape DEF Identified, DerivedFrom
<1> HIDE DEF row
<1>6. RowsTypeOK'
  BY <1>1, <1>2, <1>3, <1>5, Blanks DEF RowsTypeOK
<1>7. CorrelationFollowsHash'
  BY <1>2, <1>3, <1>5, <1>6, OneRowWritten
<1>8. SubReads'
  BY <1>3, Blanks DEF SubReads
<1>9. QED
  BY <1>6, <1>7, <1>8 DEF CorrelationInv

\* A repair that claims its row gives it the id of the hash the row has.
LEMMA RepairStep ==
  ASSUME CorrelationInv, NEW r \in Repair, r.at # 0,
         \/ table' = table
         \/ /\ Claimable(r.at, r.read)
            /\ table' = [table EXCEPT ![r.at].corr = CorrelationId(r.read.pep, r.key)],
         fill' \in Repair, reindex' \in Repair,
         UNCHANGED <<pepper, corrKey, lease, sub, keyless>>
  PROVE  CorrelationInv'
<1> DEFINE c == CorrelationId(r.read.pep, r.key)
           row == [table[r.at] EXCEPT !.corr = c]
<1>1. RowsTypeOK
  BY DEF CorrelationInv
<1>2. CASE table' = table
  BY <1>1, <1>2, RowsUntouched DEF RowsTypeOK
<1>3. CASE /\ Claimable(r.at, r.read)
           /\ table' = [table EXCEPT ![r.at].corr = CorrelationId(r.read.pep, r.key)]
  <2>1. r.at \in RowId /\ r.read.pep \in Pepper /\ r.key \in Key
    BY DEF Repair, Identified, RowId
  <2>2. table[r.at] \in Identified /\ c \in Correlation /\ (c # NoCorrelation => c.pep = r.read.pep)
    BY <1>1, <2>1, CorrelationIdShape DEF RowsTypeOK
  <2>3. row \in Identified /\ row.secret = table[r.at].secret /\ row.pep = table[r.at].pep
        /\ row.corr = c
    BY <2>2, CorrWritten
  <2>4. table' = [table EXCEPT ![r.at] = row] /\ table[r.at].pep = r.read.pep
    BY <1>3 DEF Claimable
  <2> HIDE DEF row, c
  <2>5. DerivedFrom(row, r.at, keyless')
    BY <2>2, <2>3, <2>4 DEF DerivedFrom
  <2>6. RowsTypeOK'
    BY <1>1, <2>1, <2>3, <2>4 DEF RowsTypeOK
  <2>7. CorrelationFollowsHash'
    BY <2>1, <2>3, <2>4, <2>5, <2>6, OneRowWritten
  <2>8. \A j \in RowId : table'[j].secret = table[j].secret /\ table'[j].pep = table[j].pep
    BY <1>1, <2>1, <2>3, <2>4 DEF RowsTypeOK
  <2>9. sub.hit # 0 => sub.hit \in RowId
    BY <1>1, SubParts DEF RowsTypeOK, RowId
  <2>10. SubReads'
    BY <2>8, <2>9 DEF CorrelationInv, SubReads, DerivedFrom
  <2>11. QED
    BY <2>6, <2>7, <2>10 DEF CorrelationInv
<1>4. QED
  BY <1>2, <1>3

LEMMA CorrelationStep == CorrelationInv /\ [IdentityNext]_ivars => CorrelationInv'
<1> SUFFICES ASSUME CorrelationInv, [IdentityNext]_ivars PROVE CorrelationInv'
  OBVIOUS
<1>1. fill \in Repair /\ reindex \in Repair
  BY DEF CorrelationInv, RowsTypeOK
<1>2. CASE FillCommit
  BY <1>1, <1>2, RepairStep, Blanks DEF FillCommit, config
<1>3. CASE ReindexWrite
  BY <1>1, <1>3, RepairStep, Blanks DEF ReindexWrite, config
<1>4. CASE UNCHANGED ivars
  BY <1>4, RowsUntouched DEF ivars, CorrelationInv, RowsTypeOK
<1>5. CASE \E s \in Secret, k \in Key : SubmitBegin(s, k)
  BY <1>5, BeginStep
<1>6. QED
  BY <1>2, <1>3, <1>4, <1>5, ConfigSteps, RefreshStep, CreateStep DEF IdentityNext

\* Whoever writes last, a re-key, the backfill or a reindex, a correlation id that is
\* there is derived from the hash its row holds; the rows re-keyed without a key in
\* reach are the exception (ingest's re-key, _claim).
THEOREM CorrelationIsDerived == IdentitySpec => []CorrelationFollowsHash
<1>1. CorrelationInv => CorrelationFollowsHash
  BY DEF CorrelationInv
<1>2. QED
  BY CorrelationInit, CorrelationStep, <1>1, PTL DEF IdentitySpec

----------------------------------------------------------------------------
(* One row per secret across rotations. *)

\* The rows are under the configured pepper, or in a window under the one before ...
RowsRecent == \A i \in Known : table[i].pep = pepper \/ (rotating /\ table[i].pep = pepper - 1)

\* ... and so is the lease the running task has, ...
LeaseRecent == lease.cur = pepper \/ (rotating /\ lease.cur = pepper - 1)

\* ... which can recognise every row, unless a lease of the window went out without
\* the previous pepper.
LeaseReaches ==
  missed \/ \A i \in Known : \/ table[i].pep = lease.cur
                             \/ lease.both /\ table[i].pep = lease.cur - 1

\* The submission under way is the task's, and what it did not find is still not there.
SubCurrent ==
  sub.secret # 0 => /\ sub.lease = lease
                    /\ sub.hit = 0 => Recognised(sub.secret, lease) = {}

RotationParts == RowsRecent /\ LeaseRecent /\ LeaseReaches /\ SubCurrent /\ RotationKeepsIdentity
RotationInv == CorrelationInv /\ RotationParts

LEMMA RotationInit == IdentityInit => RotationInv
<1> SUFFICES ASSUME IdentityInit PROVE RotationInv
  OBVIOUS
<1>1. Known = {}
  BY Blanks DEF IdentityInit, Known
<1>2. QED
  BY <1>1, CorrelationInit, Blanks DEF IdentityInit, RotationInv, RotationParts, RowsRecent,
     LeaseRecent, LeaseReaches, SubCurrent, RotationKeepsIdentity

\* A step that moves no hash and no secret, no lease and no pepper.
LEMMA HashesKept ==
  ASSUME RotationParts, sub \in Submission,
         \A i \in RowId : table'[i].secret = table[i].secret /\ table'[i].pep = table[i].pep,
         UNCHANGED <<pepper, rotating, lease, missed, sub>>
  PROVE  RotationParts'
<1>1. Known' = Known
  BY DEF Known
<1>2. \A x, p : Under(x, p)' = Under(x, p)
  BY DEF Under
<1>3. RowsRecent' /\ LeaseRecent' /\ LeaseReaches' /\ RotationKeepsIdentity'
  BY <1>1 DEF RotationParts, RowsRecent, LeaseRecent, LeaseReaches, RotationKeepsIdentity, Known
<1>4. SubCurrent'
  <2>1. Recognised(sub.secret, lease)' = Recognised(sub.secret, lease)
    BY <1>2 DEF Recognised
  <2>2. QED
    BY <2>1 DEF RotationParts, SubCurrent
<1>5. QED
  BY <1>3, <1>4 DEF RotationParts

LEMMA WindowSteps ==
  ASSUME CorrelationInv, RotationParts, RotatePepper \/ CloseWindow
  PROVE  RotationParts'
<1>1. pepper \in Pepper /\ pepper \in Nat /\ lease \in PepperLease /\ lease.cur \in Nat
  BY DEF CorrelationInv, RowsTypeOK, Pepper, PepperLease
<1>2. UNCHANGED <<table, lease, missed, sub>>
  BY DEF RotatePepper, CloseWindow
<1>3. LeaseReaches' /\ RotationKeepsIdentity' /\ SubCurrent'
  BY <1>2 DEF RotationParts, LeaseReaches, RotationKeepsIdentity, SubCurrent, Known, Recognised,
     Under
<1>4. RowsRecent' /\ LeaseRecent'
  <2>1. CASE RotatePepper
    <3>1. ~rotating /\ pepper' - 1 = pepper /\ rotating'
      BY <1>1, <2>1 DEF RotatePepper
    <3>2. QED
      BY <1>2, <3>1 DEF RotationParts, RowsRecent, LeaseRecent, Known
  <2>2. CASE CloseWindow
    <3>1. pepper' = pepper /\ lease.cur = pepper /\ \A i \in Known : table[i].pep = pepper
      BY <2>2 DEF CloseWindow, OfWindow
    <3>2. QED
      BY <1>2, <3>1 DEF RowsRecent, LeaseRecent, Known
  <2>3. QED
    BY <2>1, <2>2
<1>5. QED
  BY <1>3, <1>4 DEF RotationParts

LEMMA LeaseStep ==
  ASSUME RotationParts, NEW r \in BOOLEAN, LeasePeppers(r)
  PROVE  RotationParts'
<1>1. /\ sub = NoSubmission /\ UNCHANGED <<table, pepper, rotating, sub>>
      /\ lease'.cur = pepper
      /\ lease'.both = (rotating /\ r)
      /\ missed' = (missed \/ (rotating /\ ~r))
  BY DEF LeasePeppers, config
<1>2. RowsRecent' /\ LeaseRecent' /\ SubCurrent'
  BY <1>1, Blanks DEF RotationParts, RowsRecent, LeaseRecent, SubCurrent, Known
<1>3. LeaseReaches'
  <2>1. CASE missed'
    BY <2>1 DEF LeaseReaches
  <2>2. CASE ~missed'
    <3>1. rotating => lease'.both
      BY <1>1, <2>2
    <3>2. QED
      BY <1>1, <3>1 DEF RotationParts, RowsRecent, LeaseReaches, Known
  <2>3. QED
    BY <2>1, <2>2
<1>4. RotationKeepsIdentity'
  BY <1>1 DEF RotationParts, RotationKeepsIdentity, Known
<1>5. QED
  BY <1>2, <1>3, <1>4 DEF RotationParts

LEMMA BeginRotation ==
  ASSUME RotationParts, NEW s \in Secret, NEW k \in Key, SubmitBegin(s, k)
  PROVE  RotationParts'
<1>1. UNCHANGED <<table, pepper, rotating, lease, missed>>
  BY DEF SubmitBegin, config
<1>2. RowsRecent' /\ LeaseRecent' /\ LeaseReaches' /\ RotationKeepsIdentity'
  BY <1>1 DEF RotationParts, RowsRecent, LeaseRecent, LeaseReaches, RotationKeepsIdentity, Known
<1>3. PICK hit \in IF Recognised(s, lease) = {} THEN {0} ELSE Recognised(s, lease) :
         sub' = [secret |-> s, lease |-> lease, key |-> k, hit |-> hit,
                 read |-> IF hit = 0 THEN NoIdentity ELSE table[hit]]
  BY DEF SubmitBegin
<1>4. sub'.secret = s /\ sub'.lease = lease /\ sub'.hit = hit
  BY <1>3
<1>5. 0 \notin Recognised(s, lease)
  BY DEF Recognised, Under, RowId
<1>6. hit = 0 => Recognised(s, lease) = {}
  BY <1>3, <1>5
<1>7. Recognised(s, lease)' = Recognised(s, lease)
  BY <1>1 DEF Recognised, Under
<1>8. SubCurrent'
  BY <1>1, <1>4, <1>6, <1>7 DEF SubCurrent, Recognised, Under
<1>9. QED
  BY <1>2, <1>8 DEF RotationParts

\* The recognised row ends up under the lease's pepper.
LEMMA RefreshRotation ==
  ASSUME CorrelationInv, RotationParts, SubmitRefresh
  PROVE  RotationParts'
<1> DEFINE i == sub.hit
           row == Write(table[sub.hit], sub.read, Refreshed(sub))
<1>1. RowsTypeOK /\ sub \in Submission
  BY DEF CorrelationInv, RowsTypeOK
<1>2. i \in RowId /\ sub.read \in Identified /\ table[i] \in Identified
  BY <1>1, SubParts DEF SubmitRefresh, RowsTypeOK, RowId
<1>3. Refreshed(sub) \in Identified /\ Refreshed(sub).pep = sub.lease.cur
  BY <1>1, RefreshedShape
<1>4. /\ sub.secret # 0 /\ table[i].secret # 0 /\ table[i].pep = sub.read.pep
  BY DEF SubmitRefresh, CorrelationInv, SubReads
<1>5. row.secret = table[i].secret /\ row.pep = lease.cur
  BY <1>2, <1>3, <1>4, WriteShape DEF RotationParts, SubCurrent
<1>6. /\ table' = [table EXCEPT ![i] = row]
      /\ sub' = NoSubmission
      /\ UNCHANGED <<pepper, rotating, lease, missed>>
  BY DEF SubmitRefresh, config
<1> HIDE DEF i, row
<1>7. \A j \in RowId : /\ table'[j].secret = table[j].secret
                       /\ table'[j].pep = IF j = i THEN lease.cur ELSE table[j].pep
  BY <1>1, <1>2, <1>5, <1>6 DEF RowsTypeOK
<1>8. Known' = Known
  BY <1>7 DEF Known
<1>9. RowsRecent' /\ LeaseRecent' /\ LeaseReaches' /\ RotationKeepsIdentity'
  BY <1>6, <1>7, <1>8 DEF RotationParts, RowsRecent, LeaseRecent, LeaseReaches,
     RotationKeepsIdentity, Known
<1>10. SubCurrent'
  BY <1>6, Blanks DEF SubCurrent
<1>11. QED
  BY <1>9, <1>10 DEF RotationParts

\* A new row is the secret's first: the lease would have recognised another one.
LEMMA CreateRotation ==
  ASSUME CorrelationInv, RotationParts, SubmitCreate
  PROVE  RotationParts'
<1> DEFINE row == [secret |-> sub.secret, pep |-> sub.lease.cur,
                   corr |-> CorrelationId(sub.lease.cur, sub.key)]
           s == sub.secret
<1>1. RowsTypeOK
  BY DEF CorrelationInv
<1>2. PICK i \in RowId \ Known : table' = [table EXCEPT ![i] = row]
  BY DEF SubmitCreate
<1>3. sub' = NoSubmission /\ UNCHANGED <<pepper, rotating, lease, missed>>
  BY DEF SubmitCreate, config
<1>4. s # 0 /\ sub.lease = lease /\ Recognised(s, lease) = {}
  BY DEF SubmitCreate, RotationParts, SubCurrent
<1>5. row.secret = s /\ row.pep = lease.cur
  BY <1>4
<1> HIDE DEF row, s
<1>6. \A j \in RowId : table'[j] = IF j = i THEN row ELSE table[j]
  BY <1>1, <1>2 DEF RowsTypeOK
<1>7. Known' = Known \cup {i}
  BY <1>2, <1>4, <1>5, <1>6 DEF Known
<1>8. \A j \in Known : j # i /\ table'[j] = table[j]
  BY <1>2, <1>6 DEF Known
<1>9. RowsRecent' /\ LeaseRecent' /\ LeaseReaches'
  BY <1>2, <1>3, <1>5, <1>6, <1>7, <1>8 DEF RotationParts, RowsRecent, LeaseRecent, LeaseReaches
<1>10. missed \/ \A j \in Known : table[j].secret # s
  <2> SUFFICES ASSUME ~missed, NEW j \in Known, table[j].secret = s PROVE FALSE
    OBVIOUS
  <2>1. table[j].pep = lease.cur \/ (lease.both /\ table[j].pep = lease.cur - 1)
    BY DEF RotationParts, LeaseReaches
  <2>2. j \in Under(s, table[j].pep)
    BY DEF Under, Known
  <2>3. QED
    BY <1>4, <2>1, <2>2 DEF Recognised
<1>11. RotationKeepsIdentity'
  <2> SUFFICES ASSUME NEW j \in Known', NEW k \in Known', table'[j].secret = table'[k].secret,
                      ~missed'
               PROVE  j = k
    BY DEF RotationKeepsIdentity
  <2>1. table'[i].secret = s /\ ~missed /\ \A l \in Known : table'[l].secret # s
    BY <1>2, <1>3, <1>5, <1>6, <1>8, <1>10
  <2>2. CASE j = i \/ k = i
    BY <1>7, <2>1, <2>2
  <2>3. CASE j # i /\ k # i
    BY <1>7, <1>8, <2>1, <2>3 DEF RotationParts, RotationKeepsIdentity
  <2>4. QED
    BY <2>2, <2>3
<1>12. SubCurrent'
  BY <1>3, Blanks DEF SubCurrent
<1>13. QED
  BY <1>9, <1>11, <1>12 DEF RotationParts

\* Repairs, the key and what they read leave hashes alone.
LEMMA OtherRotation ==
  ASSUME CorrelationInv, RotationParts,
         \/ RotateKey \/ FillBegin \/ FillCommit \/ ReindexWrite
         \/ \E i \in RowId : ReindexRead(i)
  PROVE  RotationParts'
<1>1. sub \in Submission /\ \A j \in RowId : table[j] \in Identified
  BY DEF CorrelationInv, RowsTypeOK
<1>2. UNCHANGED <<pepper, rotating, lease, missed, sub>>
  BY DEF RotateKey, FillBegin, FillCommit, ReindexWrite, ReindexRead, config
<1>3. \A i \in RowId : table'[i].secret = table[i].secret /\ table'[i].pep = table[i].pep
  <2>1. CASE table' = table
    BY <2>1
  <2>2. ASSUME NEW at, NEW c, table' = [table EXCEPT ![at].corr = c]
        PROVE  \A i \in RowId : table'[i].secret = table[i].secret /\ table'[i].pep = table[i].pep
    BY <1>1, <2>2 DEF Identified, CorrelationInv, RowsTypeOK
  <2>3. CASE RotateKey \/ FillBegin \/ \E i \in RowId : ReindexRead(i)
    BY <2>3 DEF RotateKey, FillBegin, ReindexRead
  <2>4. CASE FillCommit
    BY <2>2, <2>4 DEF FillCommit
  <2>5. CASE ReindexWrite
    BY <2>2, <2>5 DEF ReindexWrite
  <2>6. QED
    BY <2>3, <2>4, <2>5
<1>4. QED
  BY <1>1, <1>2, <1>3, HashesKept

LEMMA RotationStep == RotationInv /\ [IdentityNext]_ivars => RotationInv'
<1> SUFFICES ASSUME CorrelationInv, RotationParts, [IdentityNext]_ivars PROVE RotationParts'
  BY CorrelationStep DEF RotationInv
<1>1. CASE UNCHANGED ivars
  <2>1. sub \in Submission
    BY DEF CorrelationInv, RowsTypeOK
  <2>2. QED
    BY <1>1, <2>1, HashesKept DEF ivars
<1>2. CASE \E r \in BOOLEAN : LeasePeppers(r)
  BY <1>2, LeaseStep
<1>3. CASE \E s \in Secret, k \in Key : SubmitBegin(s, k)
  BY <1>3, BeginRotation
<1>4. QED
  BY <1>1, <1>2, <1>3, WindowSteps, RefreshRotation, CreateRotation, OtherRotation
     DEF IdentityNext

\* Through any number of pepper rotations a secret keeps one row, provided each lease of
\* a window carried both peppers (_load_findings and its two lookups).
THEOREM IdentityIsKept == IdentitySpec => []RotationKeepsIdentity
<1>1. RotationInv => RotationKeepsIdentity
  BY DEF RotationInv, RotationParts
<1>2. QED
  BY RotationInit, RotationStep, <1>1, PTL DEF IdentitySpec

----------------------------------------------------------------------------
(* What RowsTypeOK leaves out: flags, counters, the secrets a window has seen. *)

IdentityRest ==
  /\ rotating \in BOOLEAN /\ missed \in BOOLEAN
  /\ walked \in 0..MaxRow
  /\ fixed \subseteq Secret
  /\ submits \in 0..MaxSubmit

LEMMA RestInit == IdentityInit => IdentityRest
<1> SUFFICES ASSUME IdentityInit PROVE IdentityRest
  OBVIOUS
<1>1. walked \in 0..MaxRow /\ submits \in 0..MaxSubmit
  BY DEF IdentityInit, IdentityAssumption
<1>2. QED
  BY <1>1 DEF IdentityInit, IdentityRest

LEMMA RestStep == CorrelationInv /\ IdentityRest /\ [IdentityNext]_ivars => IdentityRest'
<1> SUFFICES ASSUME CorrelationInv, IdentityRest, [IdentityNext]_ivars PROVE IdentityRest'
  OBVIOUS
<1>1. CASE RotatePepper \/ CloseWindow \/ RotateKey
  BY <1>1 DEF RotatePepper, CloseWindow, RotateKey, IdentityRest
<1>2. CASE \E r \in BOOLEAN : LeasePeppers(r)
  BY <1>2, Zenon DEF LeasePeppers, config, IdentityRest
<1>3. ASSUME NEW s \in Secret, NEW k \in Key, SubmitBegin(s, k) PROVE IdentityRest'
  BY <1>3 DEF SubmitBegin, config, IdentityRest, IdentityAssumption
<1>4. CASE SubmitRefresh \/ SubmitCreate
  <2>1. sub.secret \in Secret \cup {0}
    BY SubParts DEF CorrelationInv, RowsTypeOK
  <2>2. sub.secret # 0
    BY <1>4 DEF SubmitRefresh, SubmitCreate, CorrelationInv, SubReads
  <2>3. fixed' \subseteq Secret
    BY <1>4, <2>1, <2>2 DEF SubmitRefresh, SubmitCreate, IdentityRest
  <2>4. QED
    BY <1>4, <2>3 DEF SubmitRefresh, SubmitCreate, config, IdentityRest
<1>5. CASE FillBegin \/ FillCommit \/ ReindexWrite
  BY <1>5 DEF FillBegin, FillCommit, ReindexWrite, config, IdentityRest
<1>6. ASSUME NEW i \in RowId, ReindexRead(i) PROVE IdentityRest'
  BY <1>6 DEF ReindexRead, RowId, config, IdentityRest
<1>7. CASE UNCHANGED ivars
  BY <1>7 DEF ivars, IdentityRest
<1>8. QED
  BY <1>1, <1>2, <1>3, <1>4, <1>5, <1>6, <1>7 DEF IdentityNext

\* Rows, leases, the submission in progress and the repairs keep their types, for any
\* number of rows, peppers, keys and submissions (ingest's re-keying, fill_missing,
\* reindex_all).
THEOREM IdentityTyped == IdentitySpec => []IdentityTypeOK
<1>1. CorrelationInv /\ IdentityRest => IdentityTypeOK
  BY DEF CorrelationInv, RowsTypeOK, IdentityRest, IdentityTypeOK
<1>2. QED
  BY CorrelationInit, CorrelationStep, RestInit, RestStep, <1>1, PTL DEF IdentitySpec

----------------------------------------------------------------------------
(* Redaction. *)

HIDE IdentityAssumption

LEMMA LeastNat ==
  ASSUME NEW T, T \subseteq Nat, T # {}
  PROVE  \E x \in T : \A y \in T : x <= y
<1>1. PICK x \in T : \A y \in T : ~(<<y, x>> \in OpToRel(<, Nat))
  BY WFMin, NatLessThanWellFounded, Zenon
<1>2. \A y \in T : <<y, x>> \in Nat \X Nat
  OBVIOUS
<1>3. \A y \in T : ~(y < x)
  BY <1>1, <1>2 DEF OpToRel
<1>4. QED
  BY <1>3

LEMMA IntervalEnds ==
  ASSUME NEW a \in Nat, NEW b \in Nat, a <= b
  PROVE  Min(a..b) = a /\ Max(a..b) = b
<1>1. \E x \in a..b : \A y \in a..b : x =< y
  OBVIOUS
<1>2. \E x \in a..b : \A y \in a..b : x >= y
  OBVIOUS
<1>3. Min(a..b) \in a..b /\ \A y \in a..b : Min(a..b) =< y
  BY <1>1 DEF Min
<1>4. Max(a..b) \in a..b /\ \A y \in a..b : Max(a..b) >= y
  BY <1>2 DEF Max
<1>5. QED
  BY <1>3, <1>4

LEMMA GreatestUpTo ==
  ASSUME NEW n \in Nat, NEW T, T \subseteq 0..n, T # {}
  PROVE  \E x \in T : \A y \in T : y <= x
<1> DEFINE U == {n - y : y \in T}
<1>1. U \subseteq Nat /\ U # {}
  <2>1. \A y \in T : n - y \in Nat
    OBVIOUS
  <2>2. PICK y \in T : TRUE
    OBVIOUS
  <2>3. n - y \in U
    OBVIOUS
  <2>4. QED
    BY <2>1, <2>3
<1>2. PICK u \in U : \A v \in U : u <= v
  BY <1>1, LeastNat
<1>3. PICK x \in T : u = n - x
  BY <1>2
<1>4. \A y \in T : n - x <= n - y
  BY <1>2, <1>3
<1>5. QED
  BY <1>3, <1>4

----------------------------------------------------------------------------
(* Spans. *)

USE RedactionAssumption DEF Place

LEMMA SpanEnds ==
  ASSUME NEW s \in Spans
  PROVE  /\ Min(s) \in Place /\ Max(s) \in Place /\ Min(s) <= Max(s)
         /\ s = Min(s)..Max(s) /\ s \subseteq Place
         /\ IsFiniteSet(s) /\ Cardinality(s) = Max(s) - Min(s) + 1
<1>1. PICK a \in Place, b \in Place : s = a..b /\ s # {}
  BY DEF Spans
<1>2. a <= b
  BY <1>1
<1>3. Min(s) = a /\ Max(s) = b
  BY <1>1, <1>2, IntervalEnds
<1>4. IsFiniteSet(a..b) /\ Cardinality(a..b) = b - a + 1
  <2>1. a \in Int /\ b \in Int /\ ~(a > b)
    BY <1>2
  <2>2. QED
    BY <2>1, FS_Interval
<1>5. QED
  BY <1>1, <1>2, <1>3, <1>4

LEMMA IntervalIsSpan ==
  ASSUME NEW a \in Place, NEW b \in Place, a <= b
  PROVE  a..b \in Spans
BY DEF Spans

\* Every place of a set lies in one of its maximal runs.
LEMMA RunAround ==
  ASSUME NEW ps, ps \subseteq Place, NEW p \in ps
  PROVE  \E r \in Runs(ps) : p \in r
<1> DEFINE A == {a \in Place : a <= p /\ a..p \subseteq ps}
           B == {b \in Place : p <= b /\ p..b \subseteq ps}
<1>1. p \in A /\ p \in B
  OBVIOUS
<1>2. PICK a \in A : \A x \in A : a <= x
  <2>1. A \subseteq Nat /\ A # {}
    BY <1>1
  <2> HIDE DEF A
  <2>2. QED
    BY <2>1, LeastNat
<1>3. PICK b \in B : \A x \in B : x <= b
  <2>1. B \subseteq 0..TextLength /\ B # {}
    BY <1>1
  <2> HIDE DEF B
  <2>2. QED
    BY <2>1, GreatestUpTo
<1>4. a..b \in Spans /\ Min(a..b) = a /\ Max(a..b) = b
  BY IntervalIsSpan, IntervalEnds
<1>5. a..b \subseteq ps
  OBVIOUS
<1>6. a - 1 \notin ps
  <2> SUFFICES ASSUME a - 1 \in ps PROVE FALSE
    OBVIOUS
  <2>1. a - 1 \in A
    OBVIOUS
  <2>2. QED
    BY <2>1, <1>2
<1>7. b + 1 \notin ps
  <2> SUFFICES ASSUME b + 1 \in ps PROVE FALSE
    OBVIOUS
  <2>1. b + 1 \in B
    OBVIOUS
  <2>2. QED
    BY <2>1, <1>3
<1>8. p \in a..b
  OBVIOUS
<1>9. QED
  BY <1>4, <1>5, <1>6, <1>7, <1>8 DEF Runs

LEMMA RunsAreParts ==
  ASSUME NEW ps, NEW r \in Runs(ps)
  PROVE  r \in Spans /\ r \subseteq ps
BY DEF Runs

LEMMA RunsAreSpans == \A ps : Runs(ps) \subseteq Spans
BY DEF Runs

\* The bisection leaves out no match that reaches the window.
LEMMA ReachingIsFound ==
  ASSUME Matches \subseteq Spans, NEW w \in Spans, NEW m \in Matches, Meet(m, w)
  PROVE  m \in SpansReaching(w)
<1> DEFINE sizes == {0} \cup {Cardinality(s) : s \in MaskSet}
<1>1. sizes \subseteq 0..TextLength
  BY SpanEnds DEF MaskSet
<1>2. \E x \in sizes : \A y \in sizes : x >= y
  <2> HIDE DEF sizes
  <2>0. sizes # {}
    BY DEF sizes
  <2>1. PICK x \in sizes : \A y \in sizes : y <= x
    BY <2>0, <1>1, GreatestUpTo
  <2>2. QED
    BY <2>1, <1>1
<1>3. Max(sizes) \in sizes /\ \A y \in sizes : Max(sizes) >= y
  <2> HIDE DEF sizes
  <2> QED BY <1>2 DEF Max
<1>4. Max(sizes) \in Nat /\ Max(sizes) >= Cardinality(m)
  <2>1. Cardinality(m) \in sizes
    BY DEF MaskSet
  <2> HIDE DEF sizes
  <2>2. Max(sizes) >= Cardinality(m) /\ Max(sizes) \in 0..TextLength
    BY <2>1, <1>3, <1>1
  <2> QED BY <2>2
<1>5. PICK p : p \in m /\ p \in w
  BY DEF Meet
<1>6. m \in Spans
  OBVIOUS
<1>7. /\ Min(m) \in Place /\ p \in Min(m)..Max(m) /\ Max(m) \in Place
      /\ Cardinality(m) = Max(m) - Min(m) + 1
      /\ Min(w) \in Place /\ Max(w) \in Place /\ p \in Min(w)..Max(w)
  BY <1>5, <1>6, SpanEnds
<1> HIDE DEF sizes
<1>8. Min(m) + Max(sizes) >= Min(w) /\ Min(m) <= Max(w) + 1
  BY <1>7, <1>4
<1>9. QED
  BY <1>8 DEF SpansReaching, sizes, MaskSet

LEMMA WindowIsSpan ==
  ASSUME NEW s \in Spans
  PROVE  ContextWindow(s) \in Spans /\ s \subseteq ContextWindow(s)
<1> DEFINE a == IF ContextChars < Min(s) THEN Min(s) - ContextChars ELSE 1
           b == IF Max(s) + ContextChars <= TextLength THEN Max(s) + ContextChars ELSE TextLength
<1>1. Min(s) \in Place /\ Max(s) \in Place /\ Min(s) <= Max(s) /\ s = Min(s)..Max(s)
  BY SpanEnds
<1>2. a \in Place /\ b \in Place /\ a <= Min(s) /\ Max(s) <= b
  BY <1>1
<1>3. ContextWindow(s) = a..b
  BY <1>1 DEF ContextWindow
<1>4. QED
  BY <1>1, <1>2, <1>3, IntervalIsSpan

LEMMA PairEnds ==
  ASSUME NEW x \in Nat, NEW y \in Nat
  PROVE  /\ Max({x, y}) = IF x >= y THEN x ELSE y
         /\ Min({x, y}) = IF x <= y THEN x ELSE y
<1>1. /\ \E m \in {x, y} : \A n \in {x, y} : m >= n
      /\ \E m \in {x, y} : \A n \in {x, y} : m =< n
  OBVIOUS
<1>2. Max({x, y}) \in {x, y} /\ \A n \in {x, y} : Max({x, y}) >= n
  BY <1>1 DEF Max
<1>3. Min({x, y}) \in {x, y} /\ \A n \in {x, y} : Min({x, y}) =< n
  BY <1>1 DEF Min
<1>4. QED
  BY <1>2, <1>3

LEMMA WithinSpan ==
  ASSUME NEW s \in Spans, NEW w \in Spans, s \subseteq w
  PROVE  Min(w) <= Min(s) /\ Max(s) <= Max(w) /\ Min(s) \in s /\ Max(s) \in s
<1>1. /\ Min(s) \in Place /\ Max(s) \in Place /\ Min(s) <= Max(s) /\ s = Min(s)..Max(s)
      /\ Min(w) \in Place /\ Max(w) \in Place /\ w = Min(w)..Max(w)
  BY SpanEnds
<1>2. Min(s) \in s /\ Max(s) \in s
  BY <1>1
<1>3. Min(s) \in Min(w)..Max(w) /\ Max(s) \in Min(w)..Max(w)
  BY <1>1, <1>2
<1>4. QED
  BY <1>1, <1>2, <1>3

----------------------------------------------------------------------------
(* The inductive invariant. *)

Redacting == stage \in {"clip", "cover", "scrub", "refused", "reported"}
Planned == stage \in {"cover", "scrub", "refused", "reported"}
Printing == stage \in {"scrub", "refused", "reported"}

\* The window is a span around the target, and near has every other match that
\* reaches it.
WindowHolds ==
  Redacting => /\ aim \in Matches /\ window \in Spans /\ aim \subseteq window
               /\ \A m \in Matches : m # aim /\ Meet(m, window) => m \in near

\* No edge of the window cuts a copy outside the target.
Clipped == Planned => EndClipped /\ StartClipped

\* The masks cover the target and whatever reaches the window.
PlanCovers == Planned => /\ aim \in plan
                         /\ \A m \in near : Meet(m, window) => m \subseteq UNION plan

\* The masks cut no copy.
NothingExposed ==
  Printing => \A c \in Copies : Meet(c, UNION plan) => c \cap window \subseteq UNION plan

\* What is printed is unmasked context, and a whole copy in it is still to be scrubbed.
Printed == Printing => /\ shown \subseteq window \ UNION plan
                       /\ \A c \in Copies : c \subseteq shown => Word(c) \in words
                       /\ \A w \in words : \E s \in Spans : w = Word(s)

Judged == /\ stage \in {"refused", "reported"} => words = {}
          /\ stage = "reported" => ~Plaintext
          /\ stage = "refused" => Plaintext \/ Bisected

Fresh == stage = "idle" => kept = {} /\ near = {}

RedactionInv == /\ RedactionTypeOK /\ Fresh /\ WindowHolds /\ Clipped /\ PlanCovers
                /\ NothingExposed /\ Printed /\ Judged

----------------------------------------------------------------------------
(* What the invariant says of a snippet. *)

LEMMA CopyShape ==
  ASSUME NEW c \in Copies
  PROVE  c \in Spans /\ Word(c) \in Secrets
BY DEF Copies

\* A copy whose part is printed is unmasked and whole in the window.
LEMMA CopyWhole ==
  ASSUME RedactionTypeOK, WindowHolds, Clipped, PlanCovers, NothingExposed, Printing,
         NEW c \in Copies, NEW p, p \in c, p \in window \ UNION plan
  PROVE  c \subseteq window \ UNION plan
<1>1. ~Meet(c, UNION plan)
  BY DEF NothingExposed
<1>2. /\ window \in Spans /\ aim \in Spans /\ aim \subseteq window /\ aim \subseteq UNION plan
      /\ EndClipped /\ StartClipped
  BY DEF WindowHolds, Clipped, PlanCovers, Redacting, Planned, Printing, RedactionTypeOK
<1>3. Min(aim) \notin c /\ Max(aim) \notin c
  <2>1. Min(aim) \in aim /\ Max(aim) \in aim
    BY <1>2, WithinSpan
  <2>2. QED
    BY <2>1, <1>1, <1>2 DEF Meet
<1>4. /\ Min(window) \in Place /\ Max(window) \in Place /\ window = Min(window)..Max(window)
      /\ Min(c) \in Place /\ Max(c) \in Place /\ c = Min(c)..Max(c)
  BY <1>2, CopyShape, SpanEnds
<1>5. Max(c) <= Max(window)
  <2> SUFFICES ASSUME Max(c) > Max(window) PROVE FALSE
    BY <1>4
  <2>1. Max(window) \in c /\ Max(window) + 1 \in c
    BY <1>4
  <2>2. c \in Straddlers(Max(window))
    BY <2>1 DEF Straddlers
  <2>3. QED
    BY <1>2, <1>3, <2>1, <2>2 DEF EndClipped
<1>6. Min(window) <= Min(c)
  <2> SUFFICES ASSUME Min(window) > Min(c) PROVE FALSE
    BY <1>4
  <2>1. Min(window) \in c /\ Min(window) - 1 \in c /\ (Min(window) - 1) + 1 = Min(window)
    BY <1>4
  <2>2. c \in Straddlers(Min(window) - 1)
    BY <2>1 DEF Straddlers
  <2>3. QED
    BY <1>2, <1>3, <2>1, <2>2 DEF StartClipped
<1>7. c \subseteq window
  BY <1>4, <1>5, <1>6
<1>8. QED
  BY <1>1, <1>7 DEF Meet

LEMMA HiddenFollows == RedactionInv => KeyMaterialHidden
<1> SUFFICES ASSUME RedactionInv, stage = "reported" PROVE KeyMaterialHidden
  BY DEF KeyMaterialHidden
<1>0. Redacting /\ Planned /\ Printing
  BY DEF Redacting, Planned, Printing
<1>1. \A s \in Matches : ~Meet(s, shown)
  BY <1>0 DEF RedactionInv, WindowHolds, PlanCovers, Printed, Meet
<1>2. ASSUME NEW c \in Copies
      PROVE  ~(c \subseteq shown \cup Revealed)
  BY DEF RedactionInv, Judged, Plaintext
<1>3. ASSUME NEW c \in Copies, Meet(c, shown)
      PROVE  c \subseteq window \ UNION plan
  <2>1. PICK p : p \in c /\ p \in shown
    BY <1>3 DEF Meet
  <2>2. p \in window \ UNION plan
    BY <2>1, <1>0 DEF RedactionInv, Printed
  <2>3. QED
    BY <2>1, <2>2, <1>0, CopyWhole DEF RedactionInv
<1>4. QED
  BY <1>1, <1>2, <1>3 DEF KeyMaterialHidden

LEMMA RevealedInAim == Revealed \subseteq aim
BY DEF Revealed

\* No edge of what is printed cuts a copy, so the second check never refuses.
LEMMA NothingBisected == RedactionInv /\ Printing => ~Bisected
<1> SUFFICES ASSUME RedactionInv, Printing,
                    NEW r \in Runs(window \ UNION plan),
                    NEW c \in Straddlers(Min(r) - 1) \cup Straddlers(Max(r))
             PROVE  FALSE
  BY DEF Bisected
<1>1. /\ r \in Spans /\ r \subseteq window \ UNION plan
      /\ Min(r) - 1 \notin window \ UNION plan /\ Max(r) + 1 \notin window \ UNION plan
  BY DEF Runs
<1>2. Min(r) \in r /\ Max(r) \in r /\ Min(r) \in Nat
  BY <1>1, WithinSpan, SpanEnds
<1>3. c \in Copies
  BY DEF Straddlers
<1>4. CASE c \in Straddlers(Min(r) - 1)
  <2>1. (Min(r) - 1) + 1 = Min(r)
    BY <1>2
  <2>2. Min(r) - 1 \in c /\ Min(r) \in c
    BY <1>4, <2>1 DEF Straddlers
  <2>3. c \subseteq window \ UNION plan
    BY <1>1, <1>2, <1>3, <2>2, CopyWhole DEF RedactionInv
  <2>4. QED
    BY <1>1, <2>2, <2>3
<1>5. CASE c \in Straddlers(Max(r))
  <2>2. Max(r) \in c /\ Max(r) + 1 \in c
    BY <1>5 DEF Straddlers
  <2>3. c \subseteq window \ UNION plan
    BY <1>1, <1>2, <1>3, <2>2, CopyWhole DEF RedactionInv
  <2>4. QED
    BY <1>1, <2>2, <2>3
<1>6. QED
  BY <1>4, <1>5

LEMMA RefusalFollows == RedactionInv => RefusedOnlyForReveal
<1> SUFFICES ASSUME RedactionInv, stage = "refused"
             PROVE  \E c \in Copies : c \subseteq Revealed
  BY DEF RefusedOnlyForReveal
<1>0. Redacting /\ Planned /\ Printing
  BY DEF Redacting, Planned, Printing
<1>1. Plaintext
  BY <1>0, NothingBisected DEF RedactionInv, Judged
<1>2. PICK c \in Copies : c \subseteq shown \cup Revealed
  BY <1>1 DEF Plaintext
<1>3. ~(c \subseteq shown)
  BY <1>0 DEF RedactionInv, Printed, Judged
<1>4. Revealed \subseteq UNION plan
  BY <1>0, RevealedInAim DEF RedactionInv, PlanCovers
<1>5. PICK q \in c : q \in Revealed
  BY <1>2, <1>3
<1>6. c \cap window \subseteq UNION plan
  BY <1>0, <1>4, <1>5 DEF RedactionInv, NothingExposed, Meet
<1>7. shown \subseteq window \ UNION plan
  BY <1>0 DEF RedactionInv, Printed
<1>8. QED
  BY <1>2, <1>6, <1>7

----------------------------------------------------------------------------
(* Initially, and through detection. *)

LEMMA RedactionInitHolds == RedactionInit => RedactionInv
<1> SUFFICES ASSUME RedactionInit PROVE RedactionInv
  OBVIOUS
<1>1. text \in [Place -> Letter]
  <2>1. (CHOOSE l \in Letter : TRUE) \in Letter
    BY Zenon
  <2>2. QED
    BY <2>1 DEF RedactionInit
<1>2. Matches = {}
  BY DEF RedactionInit, Matches
<1>3. /\ strategy \in Strategy /\ aim \in Spans \cup {{}}
      /\ pending = {} /\ kept = {} /\ near = {} /\ window = {} /\ plan = {} /\ shown = {}
      /\ stage = "idle"
  BY DEF RedactionInit, Strategy
<1>4. RedactionTypeOK
  BY <1>1, <1>2, <1>3 DEF RedactionTypeOK
<1>5. QED
  BY <1>3, <1>4 DEF RedactionInv, Fresh, WindowHolds, Clipped, PlanCovers, NothingExposed, Printed, Judged,
                    Redacting, Planned, Printing

\* Outside the redaction of a snippet only the types matter.
LEMMA BetweenSnippets ==
  ASSUME RedactionTypeOK', stage' \in {"cap", "collapse"}
  PROVE  RedactionInv'
BY DEF RedactionInv, Fresh, WindowHolds, Clipped, PlanCovers, NothingExposed, Printed, Judged,
       Redacting, Planned, Printing

LEMMA DetectHolds ==
  ASSUME RedactionInv, NEW t \in [Place -> Letter],
         NEW ms \in UNION {kSubset(k, Spans) : k \in 0..MaxMatch},
         NEW f \in [ms -> 0..MaxStrength], NEW how \in Strategy, Detect(t, f, how)
  PROVE  RedactionInv'
<1>1. ms \subseteq Spans
  BY DEF kSubset
<1>2. /\ DOMAIN f = ms /\ \A s \in ms : f[s] \in 0..MaxStrength
      /\ {s \in DOMAIN f : f[s] > 0} \subseteq ms
  OBVIOUS
<1>3. /\ kept = {} /\ near = {} /\ aim \in Spans \cup {{}} /\ window \subseteq Place
      /\ plan \subseteq Spans /\ shown \subseteq Place
  BY DEF RedactionInv, RedactionTypeOK, Fresh, Detect
<1>4. RedactionTypeOK'
  BY <1>1, <1>2, <1>3 DEF Detect, RedactionTypeOK, Matches, snippetVars
<1>5. QED
  BY <1>4, BetweenSnippets DEF Detect

LEMMA CapReportHolds ==
  ASSUME RedactionInv, NEW best, CapReport(best)
  PROVE  RedactionInv'
<1>1. RedactionTypeOK'
  BY DEF RedactionInv, RedactionTypeOK, CapReport, Matches, snippetVars
<1>2. QED
  BY <1>1, BetweenSnippets DEF CapReport

LEMMA CollapseHolds ==
  ASSUME RedactionInv, NEW s, Collapse(s)
  PROVE  RedactionInv'
<1>1. RedactionTypeOK'
  BY DEF RedactionInv, RedactionTypeOK, Collapse, Matches, snippetVars
<1>2. QED
  BY <1>1, BetweenSnippets DEF Collapse

LEMMA NextSurvivorHolds ==
  ASSUME RedactionInv, NextSurvivor
  PROVE  RedactionInv'
<1>1. RedactionTypeOK'
  BY DEF RedactionInv, RedactionTypeOK, NextSurvivor, Matches
<1>2. QED
  BY <1>1, BetweenSnippets DEF NextSurvivor

----------------------------------------------------------------------------
(* One snippet. *)

LEMMA RedactBeginsHolds ==
  ASSUME RedactionInv, NEW s \in kept, RedactBegins(s)
  PROVE  RedactionInv'
<1> DEFINE w == ContextWindow(s)
<1>1. s \in Matches /\ Matches \subseteq Spans /\ s \in Spans
  BY DEF RedactionInv, RedactionTypeOK
<1>2. w \in Spans /\ s \subseteq w /\ w \subseteq Place
  BY <1>1, WindowIsSpan, SpanEnds
<1>3. SpansReaching(w) \subseteq Matches
  BY DEF SpansReaching, MaskSet
<1> HIDE DEF w
<1>4. /\ aim' = s /\ window' = w /\ near' = SpansReaching(w) \ {s} /\ stage' = "clip"
      /\ Matches' = Matches
  BY DEF RedactBegins, Matches, w
<1>5. RedactionTypeOK'
  <2>1. {} \subseteq Spans /\ {} \subseteq Place
    OBVIOUS
  <2>2. QED
    BY <1>1, <1>2, <1>3, <1>4, <2>1 DEF RedactionInv, RedactionTypeOK, RedactBegins
<1>6. WindowHolds'
  <2>1. ASSUME NEW m \in Matches, m # s, Meet(m, w)
        PROVE  m \in SpansReaching(w)
    BY <1>1, <1>2, <2>1, ReachingIsFound
  <2>2. QED
    BY <1>1, <1>2, <1>4, <2>1 DEF WindowHolds, Meet
<1>7. QED
  BY <1>4, <1>5, <1>6 DEF RedactionInv, Fresh, Clipped, PlanCovers, NothingExposed, Printed, Judged,
                           Planned, Printing

\* The copies are those of texts that a step of the redaction leaves alone.
LEMMA CopiesStay ==
  ASSUME UNCHANGED <<text, near, aim>>
  PROVE  Copies' = Copies /\ Secrets' = Secrets
<1>1. \A s : Word(s)' = Word(s)
  BY DEF Word
<1>2. Secrets' = Secrets
  BY DEF Secrets, Word
<1>3. QED
  BY <1>2 DEF Copies, Word

\* A smaller window that still has the target.
LEMMA Narrower ==
  ASSUME RedactionInv, stage = "clip",
         UNCHANGED <<text, strength, strategy, pending, kept, aim, near, plan, words, shown, stage>>,
         window' \in Spans, window' \subseteq window, aim \subseteq window'
  PROVE  RedactionInv'
<1>1. Matches' = Matches /\ window' \subseteq Place
  BY SpanEnds DEF Matches
<1>2. RedactionTypeOK'
  BY <1>1 DEF RedactionInv, RedactionTypeOK
<1>3. WindowHolds'
  BY <1>1 DEF RedactionInv, WindowHolds, Redacting, Meet
<1>4. QED
  BY <1>2, <1>3 DEF RedactionInv, Fresh, Clipped, PlanCovers, NothingExposed, Printed, Judged,
                    Planned, Printing

LEMMA ClipEndHolds ==
  ASSUME RedactionInv, NEW c \in Copies, ClipEnd(c)
  PROVE  RedactionInv'
<1> DEFINE e == Max({Min(c) - 1, Max(aim)})
<1>1. window \in Spans /\ aim \in Spans /\ aim \subseteq window /\ c \in Spans
  BY CopyShape DEF RedactionInv, RedactionTypeOK, WindowHolds, Redacting, ClipEnd
<1>2. /\ Min(window) \in Place /\ Max(window) \in Place /\ window = Min(window)..Max(window)
      /\ Min(aim) \in Place /\ Max(aim) \in Place /\ aim = Min(aim)..Max(aim)
      /\ Min(aim) <= Max(aim) /\ Min(window) <= Min(aim) /\ Max(aim) <= Max(window)
      /\ Min(c) \in Place /\ Max(c) \in Place /\ c = Min(c)..Max(c)
  BY <1>1, SpanEnds, WithinSpan
<1>3. Max(window) \in c
  BY DEF ClipEnd, Leftmost, Straddlers
<1>4. Min(c) <= Max(window)
  BY <1>2, <1>3
<1>5. e = IF Min(c) - 1 >= Max(aim) THEN Min(c) - 1 ELSE Max(aim)
  <2>1. Min(c) - 1 \in Nat /\ Max(aim) \in Nat
    BY <1>2
  <2>2. QED
    BY <2>1, PairEnds, Zenon
<1>6. e \in Place /\ Max(aim) <= e /\ e <= Max(window)
  BY <1>2, <1>4, <1>5
<1>7. window' = Min(window)..e
  BY DEF ClipEnd
<1> HIDE DEF e
<1>8. window' \in Spans /\ window' \subseteq window /\ aim \subseteq window'
  BY <1>2, <1>6, <1>7, IntervalIsSpan
<1>9. QED
  BY <1>8, Narrower DEF ClipEnd

LEMMA ClipStartHolds ==
  ASSUME RedactionInv, NEW c \in Copies, ClipStart(c)
  PROVE  RedactionInv'
<1> DEFINE b == Min({Max(c) + 1, Min(aim)})
<1>1. window \in Spans /\ aim \in Spans /\ aim \subseteq window /\ c \in Spans
  BY CopyShape DEF RedactionInv, RedactionTypeOK, WindowHolds, Redacting, ClipStart
<1>2. /\ Min(window) \in Place /\ Max(window) \in Place /\ window = Min(window)..Max(window)
      /\ Min(aim) \in Place /\ Max(aim) \in Place /\ aim = Min(aim)..Max(aim)
      /\ Min(aim) <= Max(aim) /\ Min(window) <= Min(aim) /\ Max(aim) <= Max(window)
      /\ Min(c) \in Place /\ Max(c) \in Place /\ c = Min(c)..Max(c)
  BY <1>1, SpanEnds, WithinSpan
<1>3. (Min(window) - 1) + 1 \in c
  BY DEF ClipStart, Leftmost, Straddlers
<1>4. Min(window) <= Max(c)
  BY <1>2, <1>3
<1>5. b = IF Max(c) + 1 <= Min(aim) THEN Max(c) + 1 ELSE Min(aim)
  <2>1. Max(c) + 1 \in Nat /\ Min(aim) \in Nat
    BY <1>2
  <2>2. QED
    BY <2>1, PairEnds, Zenon
<1>6. b \in Place /\ b <= Min(aim) /\ Min(window) <= b
  BY <1>2, <1>4, <1>5
<1>7. window' = b..Max(window)
  BY DEF ClipStart
<1> HIDE DEF b
<1>8. window' \in Spans /\ window' \subseteq window /\ aim \subseteq window'
  BY <1>2, <1>6, <1>7, IntervalIsSpan
<1>9. QED
  BY <1>8, Narrower DEF ClipStart

\* What the runs of a set leave out of it: nothing.
LEMMA RunsCover ==
  ASSUME NEW ps, ps \subseteq Place
  PROVE  UNION Runs(ps) = ps
<1>1. \A p \in ps : \E r \in Runs(ps) : p \in r
  BY RunAround
<1>2. \A r \in Runs(ps) : r \subseteq ps
  BY RunsAreParts
<1>3. QED
  BY <1>1, <1>2

LEMMA MaskPlanHolds ==
  ASSUME RedactionInv, MaskPlan
  PROVE  RedactionInv'
<1> DEFINE masked == UNION {Runs(s \ aim) : s \in {m \in near : Meet(m, window)}}
<1>1. plan' = {aim} \cup masked
  BY DEF MaskPlan
<1>2. aim \in Spans /\ near \subseteq Spans
  BY DEF RedactionInv, RedactionTypeOK, WindowHolds, Redacting, MaskPlan
<1>3. masked \subseteq Spans
  BY RunsAreSpans
<1>4. ASSUME NEW m \in near, Meet(m, window)
      PROVE  m \subseteq UNION plan'
  <2>1. m \ aim \subseteq Place
    BY <1>2, SpanEnds
  <2>2. m \ aim = UNION Runs(m \ aim)
    BY <2>1, RunsCover
  <2>3. Runs(m \ aim) \subseteq masked
    BY <1>4
  <2> HIDE DEF masked
  <2>4. QED
    BY <1>1, <2>2, <2>3
<1> HIDE DEF masked
<1>5. UNCHANGED <<text, strength, strategy, pending, kept, aim, window, near, words, shown>>
  BY DEF MaskPlan
<1>6. Matches' = Matches /\ Copies' = Copies
  BY <1>5, CopiesStay DEF Matches
<1>7. RedactionTypeOK'
  BY <1>1, <1>2, <1>3, <1>5, <1>6 DEF RedactionInv, RedactionTypeOK, MaskPlan
<1>8. WindowHolds'
  BY <1>5, <1>6 DEF RedactionInv, WindowHolds, Redacting, Meet, MaskPlan
<1>9. Clipped'
  BY <1>5, <1>6 DEF MaskPlan, Clipped, EndClipped, StartClipped, Straddlers
<1>10. PlanCovers'
  BY <1>1, <1>4, <1>5 DEF PlanCovers, Meet
<1>11. QED
  BY <1>7, <1>8, <1>9, <1>10 DEF RedactionInv, Fresh, NothingExposed, Printed, Judged,
                                 Printing, MaskPlan

LEMMA ExposedParts == RedactionTypeOK => Exposed \subseteq Spans
BY RunsAreSpans DEF Exposed

\* With nothing exposed, a copy a mask touches is masked as far as it is in the window.
LEMMA UnexposedMasked ==
  ASSUME RedactionTypeOK, Exposed = {}, NEW c \in Copies, Meet(c, UNION plan)
  PROVE  c \cap window \subseteq UNION plan
<1> DEFINE rest == (c \cap window) \ UNION plan
<1> SUFFICES ASSUME rest # {} PROVE FALSE
  OBVIOUS
<1>1. rest \subseteq Place
  BY DEF RedactionTypeOK
<1>2. PICK p : p \in rest
  OBVIOUS
<1>3. PICK r \in Runs(rest) : p \in r
  <2> HIDE DEF rest
  <2> QED BY <1>1, <1>2, RunAround
<1>4. Meet(c, window)
  BY <1>2 DEF Meet
<1>5. r \in Exposed
  BY <1>3, <1>4 DEF Exposed
<1>6. QED
  BY <1>5

LEMMA CoverHolds ==
  ASSUME RedactionInv, CoverPartialCopies
  PROVE  RedactionInv'
<1>1. UNCHANGED <<text, strength, strategy, pending, kept, aim, window, near>>
  BY DEF CoverPartialCopies
<1>2. Matches' = Matches /\ Copies' = Copies /\ Secrets' = Secrets
  BY <1>1, CopiesStay DEF Matches
<1>3. Planned /\ Redacting /\ stage = "cover"
  BY DEF CoverPartialCopies, Planned, Redacting
<1>4. plan \subseteq plan' /\ plan' \subseteq Spans
  BY ExposedParts DEF CoverPartialCopies, RedactionInv, RedactionTypeOK
<1>5. shown' \subseteq Place /\ stage' \in {"cover", "scrub"}
  BY <1>3 DEF CoverPartialCopies, RedactionInv, RedactionTypeOK
<1>6. RedactionTypeOK'
  BY <1>1, <1>2, <1>4, <1>5 DEF RedactionInv, RedactionTypeOK
<1>7. WindowHolds'
  BY <1>1, <1>2, <1>3 DEF RedactionInv, WindowHolds, Meet
<1>8. Clipped'
  BY <1>1, <1>2, <1>3 DEF RedactionInv, Clipped, EndClipped, StartClipped, Straddlers
<1>9. PlanCovers'
  BY <1>1, <1>3, <1>4 DEF RedactionInv, PlanCovers, Meet
<1>10. CASE Exposed # {}
  <2>1. stage' = "cover"
    BY <1>10, <1>3 DEF CoverPartialCopies
  <2>2. QED
    BY <2>1, <1>6, <1>7, <1>8, <1>9 DEF RedactionInv, Fresh, NothingExposed, Printed, Judged, Printing
<1>11. CASE Exposed = {}
  <2>1. /\ shown' = window \ UNION plan /\ stage' = "scrub" /\ plan' = plan
        /\ words' = {Word(s) : s \in {m \in plan \cup near : Cardinality(m) > 1}}
    BY <1>11 DEF CoverPartialCopies
  <2>2. NothingExposed'
    BY <1>1, <1>2, <1>11, <2>1, UnexposedMasked DEF RedactionInv, NothingExposed, Meet
  <2>3. Secrets \subseteq words'
    BY <2>1, <1>3 DEF Secrets, RedactionInv, PlanCovers
  <2>4. \A c \in Copies : Word(c)' \in words'
    BY <1>1, <2>3, CopyShape DEF Word
  <2>5. \A w \in words' : \E s \in Spans : w = Word(s)'
    BY <2>1, <1>1 DEF RedactionInv, RedactionTypeOK, Word
  <2>6. Printed'
    BY <1>1, <1>2, <2>1, <2>4, <2>5 DEF Printed
  <2>7. QED
    BY <2>1, <2>2, <2>6, <1>6, <1>7, <1>8, <1>9 DEF RedactionInv, Fresh, Judged
<1>12. QED
  BY <1>10, <1>11

\* The places str.replace takes exist: decided from the left, one place at a time.
FromTheLeft(at, occ, n) ==
  \A p \in Place : p \in at <=> p \in occ /\ \A q \in at : q < p => q + n <= p

LEMMA TakenExists ==
  ASSUME NEW n \in Nat, NEW occ, occ \subseteq Place
  PROVE  \E at \in SUBSET Place : FromTheLeft(at, occ, n)
<1> DEFINE Decided(k) == \E at \in SUBSET (1..k) :
             \A p \in 1..k : p \in at <=> p \in occ /\ \A q \in at : q < p => q + n <= p
           Rest == {k \in 0..TextLength : ~Decided(k)}
<1>1. Decided(0)
  <2>1. {} \in SUBSET (1..0) /\ \A p \in 1..0 : FALSE
    OBVIOUS
  <2>2. QED
    BY <2>1
<1>2. ASSUME NEW k \in 0..TextLength, k # TextLength, Decided(k)
      PROVE  Decided(k + 1)
  <2>1. PICK at \in SUBSET (1..k) :
          \A p \in 1..k : p \in at <=> p \in occ /\ \A q \in at : q < p => q + n <= p
    BY <1>2
  <2> DEFINE free == k + 1 \in occ /\ \A q \in at : q + n <= k + 1
             more == IF free THEN at \cup {k + 1} ELSE at
  <2>2. more \in SUBSET (1..(k + 1))
    OBVIOUS
  <2>3. \A q \in at : q \in 1..k /\ q < k + 1
    OBVIOUS
  <2>4. ASSUME NEW p \in 1..k
        PROVE  p \in more <=> p \in occ /\ \A q \in more : q < p => q + n <= p
    BY <2>1, <2>3
  <2>5. k + 1 \in more <=> k + 1 \in occ /\ \A q \in more : q < k + 1 => q + n <= k + 1
    BY <2>3
  <2> HIDE DEF more
  <2>6. \A p \in 1..(k + 1) : p \in 1..k \/ p = k + 1
    OBVIOUS
  <2>7. \A p \in 1..(k + 1) : p \in more <=> p \in occ /\ \A q \in more : q < p => q + n <= p
    BY <2>4, <2>5, <2>6
  <2>8. QED
    BY <2>2, <2>7
<1>3. Decided(TextLength)
  <2> HIDE DEF Decided
  <2> SUFFICES ASSUME Rest # {} PROVE FALSE
    OBVIOUS
  <2>1. PICK k \in Rest : \A j \in Rest : k <= j
    <3>1. Rest \subseteq Nat
      OBVIOUS
    <3> HIDE DEF Rest
    <3>2. QED
      BY <3>1, LeastNat
  <2>2. k # 0 /\ k \in 0..TextLength
    BY <1>1
  <2>3. k - 1 \in 0..TextLength /\ k - 1 # TextLength /\ ~(k <= k - 1) /\ (k - 1) + 1 = k
    BY <2>2
  <2>4. Decided(k - 1)
    BY <2>1, <2>3
  <2>5. Decided((k - 1) + 1)
    BY <2>3, <2>4, <1>2
  <2>6. QED
    BY <2>3, <2>5
<1>4. QED
  BY <1>3 DEF FromTheLeft

LEMMA WordShape ==
  ASSUME text \in [Place -> Letter], NEW s \in Spans
  PROVE  Word(s) \in Seq(Letter) /\ Len(Word(s)) = Cardinality(s) /\ Len(Word(s)) \in Nat \ {0}
<1>1. /\ Min(s) \in Place /\ Max(s) \in Place /\ Min(s) <= Max(s)
      /\ Cardinality(s) = Max(s) - Min(s) + 1
  BY SpanEnds
<1>2. Cardinality(s) \in Nat \ {0}
  BY <1>1
<1>3. \A k \in 1..Cardinality(s) : Min(s) + k - 1 \in Place
  BY <1>1
<1>4. \A k \in 1..Cardinality(s) : text[Min(s) + k - 1] \in Letter
  BY <1>3
<1> DEFINE n == Cardinality(s)
<1>5. Word(s) \in [1..n -> Letter]
  BY <1>4 DEF Word
<1> HIDE DEF n
<1>6. n \in Nat /\ n = Cardinality(s)
  BY <1>2 DEF n
<1>7. Word(s) \in Seq(Letter) /\ Len(Word(s)) = n
  BY <1>5, <1>6
<1>8. QED
  BY <1>2, <1>6, <1>7

\* What is left of the context holds the word no more.
LEMMA ScrubbedClean ==
  ASSUME text \in [Place -> Letter], NEW w, NEW c \in Spans, Word(c) = w, c \subseteq shown
  PROVE  ~(c \subseteq shown \ Replaced(w))
<1> DEFINE n == Len(w)
           occ == {p \in Place : OccursAt(w, p)}
<1>1. /\ Min(c) \in Place /\ Max(c) \in Place /\ c = Min(c)..Max(c) /\ Min(c) <= Max(c)
      /\ Cardinality(c) = Max(c) - Min(c) + 1
  BY SpanEnds
<1>2. n = Cardinality(c) /\ n \in Nat \ {0}
  BY WordShape
<1>3. c = Min(c)..(Min(c) + n - 1)
  BY <1>1, <1>2
<1>4. OccursAt(w, Min(c))
  BY <1>3 DEF OccursAt
<1>5. \E at \in SUBSET Place : FromTheLeft(at, occ, n)
  <2>1. occ \subseteq Place /\ n \in Nat
    BY <1>2
  <2> HIDE DEF n, occ
  <2>2. QED
    BY <2>1, TakenExists
<1>6. \E at \in SUBSET Place :
        \A p \in Place : p \in at <=> OccursAt(w, p) /\ \A q \in at : q < p => q + Len(w) <= p
  BY <1>5 DEF FromTheLeft
<1>7. /\ Taken(w) \in SUBSET Place
      /\ \A p \in Place :
           p \in Taken(w) <=> OccursAt(w, p) /\ \A q \in Taken(w) : q < p => q + Len(w) <= p
  BY <1>6, Zenon DEF Taken
<1> HIDE DEF n
<1>8. \E q \in Taken(w) : Min(c) \in q..(q + n - 1)
  <2>1. CASE Min(c) \in Taken(w)
    BY <2>1, <1>1, <1>2
  <2>2. CASE Min(c) \notin Taken(w)
    <3>1. PICK q \in Taken(w) : q < Min(c) /\ ~(q + n <= Min(c))
      BY <1>1, <1>4, <1>7, <2>2 DEF n
    <3>2. q \in Place
      BY <1>7
    <3>3. QED
      BY <1>1, <1>2, <3>1, <3>2
  <2>3. QED
    BY <2>1, <2>2
<1>9. Min(c) \in Replaced(w)
  BY <1>8 DEF Replaced, n
<1>10. QED
  BY <1>1, <1>9

LEMMA ScrubHolds ==
  ASSUME RedactionInv, NEW w \in words, Scrub(w)
  PROVE  RedactionInv'
<1>1. /\ UNCHANGED <<text, strength, strategy, pending, kept, aim, window, near, plan, stage>>
      /\ stage = "scrub" /\ shown' = shown \ Replaced(w) /\ words' = words \ {w}
  BY DEF Scrub
<1>2. Matches' = Matches /\ Copies' = Copies
  BY <1>1, CopiesStay DEF Matches
<1>3. Planned /\ Redacting /\ Printing
  BY <1>1 DEF Planned, Redacting, Printing
<1>4. RedactionTypeOK'
  BY <1>1, <1>2 DEF RedactionInv, RedactionTypeOK
<1>5. WindowHolds' /\ PlanCovers' /\ NothingExposed'
  BY <1>1, <1>2, <1>3 DEF RedactionInv, WindowHolds, PlanCovers, NothingExposed, Meet
<1>6. Clipped'
  BY <1>1, <1>2, <1>3 DEF RedactionInv, Clipped, EndClipped, StartClipped, Straddlers
<1>7. Printed'
  <2>1. shown' \subseteq window \ UNION plan
    BY <1>1, <1>3 DEF RedactionInv, Printed
  <2>2. ASSUME NEW c \in Copies, c \subseteq shown'
        PROVE  Word(c) \in words'
    <3>1. c \subseteq shown /\ Word(c) \in words /\ c \in Spans
      BY <1>1, <1>3, <2>2, CopyShape DEF RedactionInv, Printed
    <3>2. Word(c) # w
      BY <1>1, <2>2, <3>1, ScrubbedClean DEF RedactionInv, RedactionTypeOK
    <3>3. QED
      BY <1>1, <3>1, <3>2
  <2>3. \A v \in words' : \E s \in Spans : v = Word(s)
    BY <1>1, <1>3 DEF RedactionInv, Printed
  <2>4. \A s : Word(s)' = Word(s)
    BY <1>1 DEF Word
  <2>5. QED
    BY <1>1, <1>2, <2>1, <2>2, <2>3, <2>4 DEF Printed
<1>8. QED
  BY <1>1, <1>4, <1>5, <1>6, <1>7 DEF RedactionInv, Fresh, Judged

LEMMA SnippetReturnedHolds ==
  ASSUME RedactionInv, SnippetReturned
  PROVE  RedactionInv'
<1>1. /\ UNCHANGED <<text, strength, strategy, pending, kept, aim, window, near, plan, words, shown>>
      /\ stage = "scrub" /\ words = {} /\ stage' \in {"refused", "reported"}
  BY DEF SnippetReturned, snippetVars
<1>2. Matches' = Matches /\ Copies' = Copies
  BY <1>1, CopiesStay DEF Matches
<1>3. Planned /\ Redacting /\ Printing
  BY <1>1 DEF Planned, Redacting, Printing
<1>4. RedactionTypeOK'
  BY <1>1, <1>2 DEF RedactionInv, RedactionTypeOK
<1>5. WindowHolds' /\ PlanCovers' /\ NothingExposed'
  BY <1>1, <1>2, <1>3 DEF RedactionInv, WindowHolds, PlanCovers, NothingExposed, Meet
<1>6. Clipped'
  BY <1>1, <1>2, <1>3 DEF RedactionInv, Clipped, EndClipped, StartClipped, Straddlers
<1>7. Printed'
  <2>1. \A s : Word(s)' = Word(s)
    BY <1>1 DEF Word
  <2>2. QED
    BY <1>1, <1>2, <1>3, <2>1 DEF RedactionInv, Printed
<1>8. Judged'
  <2>1. Plaintext' = Plaintext
    BY <1>1, <1>2 DEF Plaintext, Revealed
  <2>2. Bisected' = Bisected
    BY <1>1, <1>2 DEF Bisected, Straddlers, Runs
  <2>3. QED
    BY <1>1, <2>1, <2>2 DEF Judged, SnippetReturned
<1>9. QED
  BY <1>1, <1>4, <1>5, <1>6, <1>7, <1>8 DEF RedactionInv, Fresh

LEMMA RedactionStep == RedactionInv /\ [RedactionNext]_redVars => RedactionInv'
<1> SUFFICES ASSUME RedactionInv, [RedactionNext]_redVars PROVE RedactionInv'
  OBVIOUS
<1>1. CASE UNCHANGED redVars
  <2>1. UNCHANGED <<text, strength, strategy, pending, kept, aim, window, near, plan, words, shown, stage>>
    BY <1>1 DEF redVars
  <2>2. Matches' = Matches /\ Copies' = Copies /\ \A s : Word(s)' = Word(s)
    BY <2>1, CopiesStay DEF Matches, Word
  <2>3. RedactionTypeOK' /\ Fresh' /\ WindowHolds' /\ PlanCovers' /\ NothingExposed'
    BY <2>1, <2>2 DEF RedactionInv, RedactionTypeOK, Fresh, WindowHolds, PlanCovers,
                      NothingExposed, Redacting, Planned, Printing, Meet
  <2>4. Clipped'
    BY <2>1, <2>2 DEF RedactionInv, Clipped, EndClipped, StartClipped, Straddlers, Planned
  <2>5. Printed'
    BY <2>1, <2>2 DEF RedactionInv, Printed, Printing
  <2>6. Plaintext' = Plaintext
    BY <2>1, <2>2 DEF Plaintext, Revealed
  <2>7. Bisected' = Bisected
    BY <2>1, <2>2 DEF Bisected, Straddlers, Runs
  <2>8. Judged'
    BY <2>1, <2>6, <2>7 DEF RedactionInv, Judged
  <2>9. QED
    BY <2>3, <2>4, <2>5, <2>8 DEF RedactionInv
<1>2. CASE stage = "idle"
           /\ \E t \in [Place -> Letter], ms \in UNION {kSubset(k, Spans) : k \in 0..MaxMatch} :
                \E f \in [ms -> 0..MaxStrength], how \in Strategy : Detect(t, f, how)
  BY <1>2, DetectHolds
<1>3. CASE \E best \in SUBSET pending : CapReport(best)
  BY <1>3, CapReportHolds
<1>4. CASE \E s \in pending : Collapse(s)
  BY <1>4, CollapseHolds
<1>5. CASE \E s \in kept : RedactBegins(s)
  BY <1>5, RedactBeginsHolds
<1>6. CASE stage = "clip" /\ \E c \in Copies : ClipEnd(c) \/ ClipStart(c)
  BY <1>6, ClipEndHolds, ClipStartHolds
<1>7. CASE \E w \in words : Scrub(w)
  BY <1>7, ScrubHolds
<1>8. CASE MaskPlan \/ CoverPartialCopies \/ SnippetReturned \/ NextSurvivor
  BY <1>8, MaskPlanHolds, CoverHolds, SnippetReturnedHolds, NextSurvivorHolds
<1>9. QED
  BY <1>1, <1>2, <1>3, <1>4, <1>5, <1>6, <1>7, <1>8 DEF RedactionNext

----------------------------------------------------------------------------
(* The theorems. *)

LEMMA RedactionInvariant == RedactionSpec => []RedactionInv
<1>1. RedactionInit => RedactionInv
  BY RedactionInitHolds
<1>2. RedactionInv /\ [RedactionNext]_redVars => RedactionInv'
  BY RedactionStep
<1>3. QED
  BY <1>1, <1>2, PTL DEF RedactionSpec

\* The locals of detect and redact_snippet keep their types.
THEOREM RedactionTyped == RedactionSpec => []RedactionTypeOK
<1>1. RedactionInv => RedactionTypeOK
  BY DEF RedactionInv
<1>2. QED
  BY <1>1, RedactionInvariant, PTL

\* redact_snippet: for any text, any matches and any policy, a reported snippet prints
\* no place of a match, no copy of a matched text, and no part of a copy that is cut.
THEOREM SecretsHidden == RedactionSpec => []KeyMaterialHidden
BY HiddenFollows, RedactionInvariant, PTL

\* _assert_no_plaintext and _assert_no_bisected_secret: for any text, matches and policy,
\* a finding is refused only where the reveal of its own mask prints another match's text.
THEOREM RefusalsJustified == RedactionSpec => []RefusedOnlyForReveal
BY RefusalFollows, RedactionInvariant, PTL

===============================================================================
