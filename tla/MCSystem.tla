------------------------------ MODULE MCSystem ------------------------------
(***************************************************************************)
(* The components around the scan lifecycle, in one model.  As modelled    *)
(* they share no variable, so what one of them can do does not depend on   *)
(* the steps of another: an interleaving of several satisfies a property   *)
(* of one exactly when its projection does.  A behaviour is therefore one  *)
(* in which a single component, chosen at the start, moves.                *)
(***************************************************************************)
EXTENDS Findings, Remediation, Identity, Outbox, Handoff, Beat, Incremental, Accounts,
        Redaction, Http, Share, EngineProcess, TLC

CONSTANTS Part      \* the components that may be chosen

VARIABLE part

SystemInit ==
  /\ part \in Part
  /\ FindingsInit
  /\ RemediationInit
  /\ IdentityInit
  /\ OutboxInit
  /\ HandoffInit
  /\ BeatInit
  /\ IncrementalInit
  /\ AccountsInit
  /\ RedactionInit
  /\ HttpInit
  /\ ShareInit
  /\ EngineInit

SystemNext ==
  /\ part' = part
  /\ \/ /\ part = "findings" /\ FindingsNext
        /\ UNCHANGED <<rvars, ivars, ovars, hvars, bvars, incVars, accVars, redVars, call,
                       shareVars, engineVars>>
     \/ /\ part = "remediation" /\ RemediationNext
        /\ UNCHANGED <<fvars, ivars, ovars, hvars, bvars, incVars, accVars, redVars, call,
                       shareVars, engineVars>>
     \/ /\ part = "identity" /\ IdentityNext
        /\ UNCHANGED <<fvars, rvars, ovars, hvars, bvars, incVars, accVars, redVars, call,
                       shareVars, engineVars>>
     \/ /\ part = "outbox" /\ OutboxNext
        /\ UNCHANGED <<fvars, rvars, ivars, hvars, bvars, incVars, accVars, redVars, call,
                       shareVars, engineVars>>
     \/ /\ part = "handoff" /\ HandoffNext
        /\ UNCHANGED <<fvars, rvars, ivars, ovars, bvars, incVars, accVars, redVars, call,
                       shareVars, engineVars>>
     \/ /\ part = "beat" /\ BeatNext
        /\ UNCHANGED <<fvars, rvars, ivars, ovars, hvars, incVars, accVars, redVars, call,
                       shareVars, engineVars>>
     \/ /\ part = "incremental" /\ IncrementalNext
        /\ UNCHANGED <<fvars, rvars, ivars, ovars, hvars, bvars, accVars, redVars, call,
                       shareVars, engineVars>>
     \/ /\ part = "accounts" /\ AccountsNext
        /\ UNCHANGED <<fvars, rvars, ivars, ovars, hvars, bvars, incVars, redVars, call,
                       shareVars, engineVars>>
     \/ /\ part = "redaction" /\ RedactionNext
        /\ UNCHANGED <<fvars, rvars, ivars, ovars, hvars, bvars, incVars, accVars, call,
                       shareVars, engineVars>>
     \/ /\ part = "http" /\ HttpNext
        /\ UNCHANGED <<fvars, rvars, ivars, ovars, hvars, bvars, incVars, accVars, redVars,
                       shareVars, engineVars>>
     \/ /\ part = "share" /\ ShareNext
        /\ UNCHANGED <<fvars, rvars, ivars, ovars, hvars, bvars, incVars, accVars, redVars, call,
                       engineVars>>
     \/ /\ part = "engine" /\ EngineNext
        /\ UNCHANGED <<fvars, rvars, ivars, ovars, hvars, bvars, incVars, accVars, redVars, call,
                       shareVars>>

systemVars == <<part, fvars, rvars, ivars, ovars, hvars, bvars, incVars, accVars, redVars, call,
                shareVars, engineVars>>
SystemSpec == SystemInit /\ [][SystemNext]_systemVars

\* What tells two states apart: the variables of the component that moves.
Moving ==
  <<part, CASE part = "findings" -> fvars [] part = "remediation" -> rvars
            [] part = "identity" -> ivars [] part = "outbox" -> ovars
            [] part = "handoff" -> hvars [] part = "beat" -> bvars
            [] part = "incremental" -> incVars [] part = "accounts" -> accVars
            [] part = "redaction" -> redVars [] part = "http" -> call
            [] part = "share" -> shareVars [] part = "engine" -> engineVars>>

\* The moving component's tables and requests have the shape its model declares.
SystemTypeOK ==
  /\ part = "findings" => FindingsTypeOK
  /\ part = "remediation" => RemediationTypeOK
  /\ part = "identity" => IdentityTypeOK
  /\ part = "outbox" => OutboxTypeOK
  /\ part = "handoff" => HandoffTypeOK
  /\ part = "beat" => BeatTypeOK
  /\ part = "incremental" => IncrementalTypeOK
  /\ part = "accounts" => AccountsTypeOK
  /\ part = "redaction" => RedactionTypeOK
  /\ part = "http" => HttpTypeOK
  /\ part = "share" => ShareTypeOK
  /\ part = "engine" => EngineTypeOK

----------------------------------------------------------------------------
\* Both suppressions cover every finding, and findings route to the first group.
AllCovered == [r \in Rule |-> Finding]
FirstGroup == [f \in Finding |-> CHOOSE g \in Group : TRUE]

\* The first finding belongs to a team without a channel, the second to nobody.
OneOwned == [a \in 1..NAlert |-> IF a = 1 THEN CHOOSE t \in Team : TRUE ELSE NoTeam]
NoTeamChannel == [t \in Team |-> {}]
WantsLast == [c \in Channel |-> {NAlert}]

ProgressThenDone == <<"in_progress", "resolved">>

OneRule == [c \in Credential |-> CHOOSE d \in Detector : TRUE]

\* One directory below the root; links lead to its first entry or out.
Tree == {<<1>>, <<1, 1>>, <<2>>, <<3>>}
FirstOrOut == {<<1>>, Outside}

\* The replicas that serve hand-overs are alike.
ReplicaSymmetry == Permutations(Handler)
=============================================================================
