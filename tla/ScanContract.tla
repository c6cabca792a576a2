---------------------------- MODULE ScanContract ----------------------------
(***************************************************************************)
(* What the scan machinery promises its users: a source is scanned by one  *)
(* scan at a time, a scan settles exactly once, and the settlement of a    *)
(* completed scan is the only step that may resolve findings.              *)
(***************************************************************************)
EXTENDS Naturals

CONSTANTS Source, Scan, SourceOf

VARIABLES
  state,      \* "none", "active" or the outcome of each scan
  resolved    \* how often the absence of findings was taken as evidence

contractVars == <<state, resolved>>

Outcome == {"completed", "partial", "failed", "cancelled"}

ContractInit ==
  /\ state = [s \in Scan |-> "none"]
  /\ resolved = [s \in Scan |-> 0]

Begin(s) ==
  /\ state[s] = "none"
  /\ \A other \in Scan : SourceOf[other] = SourceOf[s] => state[other] # "active"
  /\ state' = [state EXCEPT ![s] = "active"]
  /\ UNCHANGED resolved

Settle(s, outcome) ==
  /\ state[s] = "active"
  /\ state' = [state EXCEPT ![s] = outcome]
  /\ \/ UNCHANGED resolved
     \/ outcome = "completed" /\ resolved' = [resolved EXCEPT ![s] = 1]

ContractNext ==
  \E s \in Scan : Begin(s) \/ \E outcome \in Outcome : Settle(s, outcome)

ContractSpec == ContractInit /\ [][ContractNext]_contractVars
=============================================================================
