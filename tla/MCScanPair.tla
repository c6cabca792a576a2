----------------------------- MODULE MCScanPair -----------------------------
(***************************************************************************)
(* What shares a row: two scans of one source, in the transactions of the  *)
(* lifecycle, and three sessions at the rows of one scan, in the           *)
(* statements and row locks such transactions are made of.  The two share  *)
(* no variable, and a behaviour is of one of them.                         *)
(***************************************************************************)
EXTENDS MCScanLifecycle, RowLocks, TLC

CONSTANTS row1, disc1, fetch1, fetch2

VARIABLE view

PairInit == view \in {"transactions", "statements"} /\ Init /\ RowLocksInit

PairNext ==
  /\ view' = view
  /\ \/ view = "transactions" /\ Next /\ UNCHANGED rlvars
     \/ view = "statements" /\ RowLocksNext /\ UNCHANGED vars

PairSpec == PairInit /\ [][PairNext]_<<view, vars, rlvars>>

ScanOfTask == [t \in TaskKey |-> row1]
DiscoveryTask == [s \in ScanKey |-> disc1]
Alike == Permutations(Tx) \cup Permutations(Scan)
=============================================================================
