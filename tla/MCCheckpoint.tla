---------------------------- MODULE MCCheckpoint ----------------------------
(* Small instances of Checkpoint for TLC. *)
EXTENDS Checkpoint

CONSTANTS e1, e2, v1, v2

\* Two attempts under two identities, or two under one.
TwoEngines == [a \in Attempt |-> IF a = 1 THEN e1 ELSE e2]
OneEngine == [a \in Attempt |-> e1]

\* Both attempts run one pack, or the engine is upgraded in between.
OnePack == [a \in Attempt |-> v1]
Upgraded == [a \in Attempt |-> IF a = 1 THEN v1 ELSE v2]
=============================================================================
