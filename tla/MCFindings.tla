----------------------------- MODULE MCFindings -----------------------------
(* One source, for TLC: every suppression covers every finding, no routing. *)
EXTENDS Findings

AllCovered == [r \in Rule |-> Finding]
Unrouted == [f \in Finding |-> NoGroup]
=============================================================================
