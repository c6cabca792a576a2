------------------------------- MODULE MCLive -------------------------------
(***************************************************************************)
(* What must eventually happen: the scan lifecycle and the components that *)
(* carry a liveness property of their own, in one model.  As in MCSystem,  *)
(* the components share no variable and one of them, chosen at the start,  *)
(* moves.                                                                  *)
(***************************************************************************)
EXTENDS MCScanLifecycle, Findings, Outbox, Beat, Http

VARIABLE part

LiveInit ==
  /\ part \in {"scan", "findings", "outbox", "beat", "http"}
  /\ Init
  /\ FindingsInit
  /\ OutboxInit
  /\ BeatInit
  /\ HttpInit

LiveNext ==
  /\ part' = part
  /\ \/ part = "scan" /\ Next /\ UNCHANGED <<fvars, ovars, bvars, call>>
     \/ part = "findings" /\ FindingsNext /\ UNCHANGED <<vars, ovars, bvars, call>>
     \/ part = "outbox" /\ OutboxNext /\ UNCHANGED <<vars, fvars, bvars, call>>
     \/ part = "beat" /\ BeatNext /\ UNCHANGED <<vars, fvars, ovars, call>>
     \/ part = "http" /\ HttpNext /\ UNCHANGED <<vars, fvars, ovars, bvars>>

liveVars == <<part, vars, fvars, ovars, bvars, call>>

\* The fairness of each component, for the behaviours in which it moves.
LiveFairness ==
  /\ Fairness
  /\ \A p \in Replica : /\ WF_fvars(part = "findings" /\ Commit(p))
                        /\ WF_fvars(part = "findings" /\ LapseBegin(p))
  /\ WF_ovars(part = "outbox" /\ EscalateOverdue)
  /\ WF_ovars(part = "outbox" /\ Deliver)
  /\ WF_ovars(part = "outbox" /\ \E k \in DeliveryKey : Ripen(k))
  /\ WF_bvars(part = "beat" /\ \E r \in Beater : RoundBegin(r))
  /\ \A r \in Beater : WF_bvars(part = "beat" /\ TickStep(r))
  /\ WF_call(part = "http" /\ Reply)

LiveSpec == LiveInit /\ [][LiveNext]_liveVars /\ LiveFairness

----------------------------------------------------------------------------
AllCovered == [r \in Rule |-> Finding]
FirstGroup == [f \in Finding |-> NoGroup]
OneOwned == [a \in 1..NAlert |-> IF a = 1 THEN CHOOSE t \in Team : TRUE ELSE NoTeam]
NoTeamChannel == [t \in Team |-> {}]
WantsLast == [c \in Channel |-> {NAlert}]
=============================================================================
