--------------------------------- MODULE Kyc ---------------------------------
(***************************************************************************)
(* KYC-01: the publications of an application's outcome, and a case whose  *)
(* outcome comes about.  A publication reads what the cases of its roster  *)
(* say by then, so the two share no row, and a behaviour is about the one  *)
(* in focus.                                                               *)
(***************************************************************************)
EXTENDS KycPublication, TLC

CONSTANTS
    Documents,          \* required checklist items of the case's type
    Users,
    Overrides,          \* numbers of the override requests
    MaxDecided          \* bound: outcomes recorded of the case

ASSUME CaseAssumption ==
    /\ MaxDecided \in Nat /\ Overrides \subseteq Nat
    /\ None \notin {"pass", "fail", "remediation_required", "requested", "applied", "failed"}

VARIABLES focus, item, finding, provided, outcome, override, desk
caseVars == <<item, finding, provided, outcome, override, desk>>

Case == INSTANCE KycCase WITH Requests <- Overrides, MaxOutcomes <- MaxDecided, work <- desk

KycInit == focus \in {"publication", "case"} /\ Init /\ Case!Init
KycNext ==
    \/ focus = "publication" /\ Next /\ UNCHANGED <<focus, caseVars>>
    \/ focus = "case" /\ Case!Next /\ UNCHANGED <<focus, vars>>
KycSpec == KycInit /\ [][KycNext]_<<vars, focus, caseVars>>

Alike == Permutations(Workers) \cup Permutations(Users)

-----------------------------------------------------------------------------
\* An override replaces the very outcome it was approved against, and then stands.
OverrideStands == []Case!TypeOK /\ Case!ReplacesWhatWasApproved /\ Case!ManualStands
=============================================================================
