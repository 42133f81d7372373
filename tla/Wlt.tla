-------------------------------- MODULE Wlt --------------------------------
(***************************************************************************)
(* WLT-01 for one client: its destinations under the limits, and the parts *)
(* beside them: registrations and proof of control, the source of inbound  *)
(* transfers and the evidence export, payout accounts gathering their two  *)
(* kinds of evidence, and a wallet under screening.  They share no row     *)
(* that both write, so what each promises depends on its own steps alone,  *)
(* and a behaviour is about the part in focus: the others keep their       *)
(* initial state.                                                          *)
(***************************************************************************)
EXTENDS WltDestinationUse, TLC

CONSTANTS
    NewDests, Challenges, Accounts, Unhosted, Hosted, Keys, MaxAttempts,    \* WltControl
    Transfers, Sources, SourceRisks, Exports, MaxRecords, MaxWrites,        \* WltEvidence
    VerificationResults, RiskStatuses, Lifetimes,                           \* WltPayout
    EvidenceValidity, PayoutTtl, PayoutAmlValidity, PayoutCooling, MaxVersions, MaxIssued,
    Screens, Receipts, Target, Foreign, Bodies, MaxDeaths                   \* WltScreening

VARIABLES
    focus,
    registered, keys, poc, refused,
    key, exporting, sourceRow, written, token, exported, logged, sent, work, answered,
    clock, account, covered, verifications, screenings, assessKey, issued, point, request, asked,
    status, screen, inbox, normal, screenWork, deaths
controlVars == <<registered, keys, poc, refused>>
evidenceVars == <<key, exporting, sourceRow, written, token, exported, logged, sent, work, answered>>
payoutVars == <<clock, account, covered, verifications, screenings, assessKey, issued, point,
                request, asked>>
screeningVars == <<status, screen, inbox, normal, screenWork, deaths>>

Control == INSTANCE WltControl WITH Dests <- NewDests, dest <- registered
Records == INSTANCE WltEvidence WITH Approvals <- Exports, Risks <- SourceRisks, row <- sourceRow
Payout == INSTANCE WltPayout WITH
    Validity <- EvidenceValidity, Ttl <- PayoutTtl, AmlValidity <- PayoutAmlValidity,
    Cooling <- PayoutCooling, MaxDecisions <- MaxIssued,
    now <- clock, dest <- account, key <- assessKey, decision <- issued, pc <- point, tx <- request
Screening == INSTANCE WltScreening WITH work <- screenWork

\* The loader lets no process start on a setting that is not a positive integer.
Configured ==
    {MaxAttempts, MaxRecords, Ttl, PayoutTtl, Validity, EvidenceValidity, Cooling, PayoutCooling} \subseteq Nat \ {0}
ASSUME SettingsAssumption == Configured
ASSUME ControlAssumption ==
    /\ NewDests \subseteq Nat \ {0} /\ Challenges \subseteq Nat
    /\ None \notin Nat /\ None \notin Accounts
    /\ None \notin {"draft", "pending_review", "approved", "revoked",
                    "issued", "expired", "superseded", "failed", "verified"}
ASSUME RecordsAssumption ==
    /\ MaxWrites \in Nat
    /\ None \notin Sources /\ None \notin {"processing", "completed"}
ASSUME PayoutAssumption ==
    /\ VerificationResults \subseteq Payout!Verifications /\ RiskStatuses \subseteq Payout!Risks
    /\ None \notin Payout!Verifications \cup Payout!Risks
    /\ None \notin {"draft", "pending_review", "approved_pending_cooling", "active", "revoked"}
    /\ Lifetimes \cup {PayoutAmlValidity, MaxVersions, MaxIssued} \subseteq Nat
ASSUME ScreeningAssumption ==
    /\ Screens \subseteq Nat /\ Target \in [Receipts -> Screens]
    /\ None \notin Bodies \cup {"pending", "failed", "screened", "received", "processed", "rejected",
                              "unknown", "stale", "invalid"}

WltInit ==
    /\ focus \in {"use", "control", "evidence", "payout", "screening"}
    /\ Init /\ Control!Init /\ Records!Init /\ Payout!Init /\ Screening!Init
WltNext ==
    /\ UNCHANGED focus
    /\ \/ focus = "use" /\ Next /\ UNCHANGED <<controlVars, evidenceVars, payoutVars, screeningVars>>
       \/ focus = "control" /\ Control!Next /\ UNCHANGED <<vars, evidenceVars, payoutVars, screeningVars>>
       \/ focus = "evidence" /\ Records!Next /\ UNCHANGED <<vars, controlVars, payoutVars, screeningVars>>
       \/ focus = "payout" /\ Payout!Next /\ UNCHANGED <<vars, controlVars, evidenceVars, screeningVars>>
       \/ focus = "screening" /\ Screening!Next /\ UNCHANGED <<vars, controlVars, evidenceVars, payoutVars>>
WltSpec == WltInit /\ [][WltNext]_<<focus, vars, controlVars, evidenceVars, payoutVars, screeningVars>>

-----------------------------------------------------------------------------
(* The instance that is checked: the limits leave room for two or three    *)
(* passes, the rolling limit is the tighter over two days, the daily one   *)
(* within a day, and a first use is held to the smallest amount; one       *)
(* unhosted wallet and one payout account to register, and two versions    *)
(* of either evidence of the payout account; a wallet screened up to twice, *)
(* whose first screening a receipt of its provider names and one of        *)
(* another's.                                                              *)
SmallLimits == <<[perTxn |-> 2, firstUse |-> 1, daily |-> 2, rolling |-> 3]>>
NoLimits == <<>>
ReceiptTargets == <<1, 1>>
Alike == Permutations(Workers) \cup Permutations(Keys)

-----------------------------------------------------------------------------
\* However consumptions on two destinations are stamped, queued and committed, no day and no
\* rolling window exceeds the client's limits, and a whitelisting has one first use.
LimitsRespected == focus = "use" => TypeOK /\ VelocityRespected /\ FirstUseOnce

\* Registrations through both doors leave one live destination of an account, and one of a key.
OneLive == focus = "control" => Control!TypeOK /\ Control!OneLive /\ Control!MadeByOneKey

\* An unhosted wallet is approved only on a proof of its control: one challenge is open at a
\* time, and it is not guessed at beyond its attempts, whichever doors the guesses use.  A payout
\* account is used only on the evidence that was the latest when its use was evaluated and
\* issued, and that evidence, the account's row and its assessments agree.
ApprovedIsProven ==
    /\ focus = "control" => Control!GuessesBounded /\ Control!OneOpen /\ Control!ApprovedIsProven
    /\ focus = "payout" =>
          Payout!TypeOK /\ Payout!OnePhase /\ Payout!RowsAgree /\ Payout!NeverBack
          /\ Payout!IssuedOnLatest

\* Every answer about a transfer's source, first or replayed, is the same.
AnswersAgree == focus = "evidence" => Records!TypeOK /\ Records!AnswersAgree

\* An export holds the records of one moment, within its bound, and is logged before it is sent.
ExportWhole == focus = "evidence" => Records!ExportWhole /\ Records!ExportBounded /\ Records!DisclosureLogged

\* A wallet under screening has one pending screening, and a receipt is marked for what it did:
\* processed only if it stands in its screening, and turned away as stale only if it does not.
ReceiptsTell == focus = "screening" => Screening!ReceiptsTell

\* An answer, a receipt or a duplicate of either that comes after a screening has its result, or
\* was recovered as stuck, leaves that result and its provenance as they are.
ResultStands == Screening!ResultStands
=============================================================================
