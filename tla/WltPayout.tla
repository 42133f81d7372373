------------------------------ MODULE WltPayout ------------------------------
(***************************************************************************)
(* WLT-01: one fiat payout destination, from its registration to the       *)
(* decisions that let it be used.  Two kinds of evidence are kept of it,   *)
(* who the account belongs to and whether the beneficiary is sanctioned,   *)
(* each an append-only table of versions that a provider answers for; they *)
(* are gathered at registration and again by assess.  Approval and use ask *)
(* for the latest of both, and for a rail that is in operation.  Rows of   *)
(* both tables are inserted under the destination's advisory lock, and     *)
(* their foreign key waits for whoever holds the destination's row.  The   *)
(* limits and IAM-02's approvals are WltDestinationUse's subject: here the *)
(* limits admit or deny, and a token is at hand when it is asked for.      *)
(***************************************************************************)
EXTENDS Naturals, Sequences, FiniteSetsExt

CONSTANTS
    Workers,        \* the requests in progress at once
    Keys,           \* Idempotency-Keys of assess
    VerificationResults, RiskStatuses,      \* what providers may answer
    Lifetimes,      \* how long a provider may say its answer is good for
    Validity,       \* beneficiaryVerificationValidityHours, fiatScreeningMaxValidityHours
    Ttl, AmlValidity, Cooling,
    MaxVersions,    \* bound: rows in each table of evidence
    MaxDecisions, MaxTime,                  \* bounds
    None

VARIABLES
    now,
    dest,           \* the destination and its fiat_payout_destination
    covered,        \* its corridor is supported and active in wlt1.fiat_rail_coverage
    verifications,  \* wlt1.beneficiary_verification
    screenings,     \* wlt1.fiat_screening_result
    key,            \* foundation.idempotency_record of assess
    decision,       \* wlt1.destination_decision, in the order of issue
    pc, tx,         \* each request: where it is, what it has read
    asked           \* history: requests that went to the providers under each key

vars == <<now, dest, covered, verifications, screenings, key, decision, pc, tx, asked>>
evidence == <<verifications, screenings>>

Verifications == {"verified", "name_mismatch", "not_supported"}
Risks == {"clear", "review_required", "high_risk", "hit"}
Unregistered == [status |-> None, statusV |-> 1, whitelistV |-> 0, epoch |-> 0, coolUntil |-> None,
                 verification |-> "pending"]
Idle == [key |-> None, at |-> 0, status |-> None, verify |-> FALSE, screen |-> FALSE,
         fresh |-> FALSE, statusV |-> 0, whitelistV |-> 0, epoch |-> 0, verification |-> 0,
         screening |-> 0, amlUntil |-> 0]

At(w, point) == pc[w] = point
Begin(w, point, what) == At(w, "idle") /\ pc' = [pc EXCEPT ![w] = point] /\ tx' = [tx EXCEPT ![w] = what]
End(w) == pc' = [pc EXCEPT ![w] = "idle"] /\ tx' = [tx EXCEPT ![w] = Idle]

\* What a request that reads without a lock remembers.
Snapshot == [Idle EXCEPT !.statusV = dest.statusV, !.whitelistV = dest.whitelistV,
                         !.epoch = dest.epoch, !.status = dest.status, !.at = now,
                         !.verification = Len(verifications), !.screening = Len(screenings)]

-----------------------------------------------------------------------------
(* The two tables of evidence.  The last row is the latest version.        *)

Fresh(rows, t) == rows # <<>> /\ t < rows[Len(rows)].until

\* The lesser of what the provider says and the service's own ceiling.
EffectiveUntil(issued, life) == issued + Min({life, Validity})

\* after is history: how many decisions had been issued before the row was written.
NewRow(result, issued, life) ==
    [result |-> result, until |-> EffectiveUntil(issued, life), after |-> Len(decision)]
Versioned(rows, result, issued, life) ==
    IF result = None THEN rows ELSE Append(rows, NewRow(result, issued, life))

\* A provider that was asked answers, or does not within its timeout, which is no answer.
VerifyAnswers(asks) == {None} \cup {v \in VerificationResults : asks}
ScreenAnswers(asks) == {None} \cup {s \in RiskStatuses : asks}

\* Evidence of either kind takes a draft to review, and the last verification is shown.
ShowsVerification(v) == IF v = None THEN dest.verification ELSE v
Promoted == IF dest.status = "draft" THEN [dest EXCEPT !.status = "pending_review", !.statusV = @ + 1]
            ELSE dest
Assessed(w, v, s) ==
    LET promote == tx[w].status = "draft" /\ (v # None \/ s # None) IN
    [(IF promote THEN Promoted ELSE dest) EXCEPT !.verification = ShowsVerification(v)]

Persist(w, v, s, life) ==
    /\ Len(verifications) < MaxVersions /\ Len(screenings) < MaxVersions
    /\ verifications' = Versioned(verifications, v, tx[w].at, life)
    /\ screenings' = Versioned(screenings, s, tx[w].at, life)
    /\ dest' = Assessed(w, v, s)

-----------------------------------------------------------------------------
(* Registration: a draft in one transaction, then both providers, then the *)
(* evidence in another.                                                    *)

Register(w) ==
    /\ dest.status = None /\ covered
    /\ dest' = [dest EXCEPT !.status = "draft"]
    /\ Begin(w, "onboarding", [Idle EXCEPT !.at = now, !.status = "draft",
                                           !.verify = TRUE, !.screen = TRUE])
    /\ UNCHANGED <<now, covered, evidence, key, decision, asked>>

Onboarded(w, v, s, life) ==
    /\ At(w, "onboarding")
    /\ v \in VerifyAnswers(TRUE) /\ s \in ScreenAnswers(TRUE)
    /\ Persist(w, v, s, life)
    /\ End(w)
    /\ UNCHANGED <<now, covered, key, decision, asked>>
PublicOnboarded(w, v, s, life) == Onboarded(w, v, s, life)

-----------------------------------------------------------------------------
(* assess.                                                                 *)

\* A record that is processing belongs to a request that may still be going on, or to one
\* that died: a second request under its key is answered 503.  A completed one is replayed.
KeyFree(k) == key[k] = "new"

\* What is fresh is left alone, and without the account's number there is no verification.
AssessStart(w, k, given) ==
    LET verify == given /\ ~Fresh(verifications, now)
        screen == ~Fresh(screenings, now)
    IN
    /\ dest.status # None /\ KeyFree(k)
    /\ key' = [key EXCEPT ![k] = "processing"]
    /\ Begin(w, "assessing",
             [Snapshot EXCEPT !.key = k, !.verify = verify, !.screen = screen,
                              !.fresh = Fresh(verifications, now) \/ Fresh(screenings, now)])
    /\ asked' = [asked EXCEPT ![k] = IF verify \/ screen THEN @ + 1 ELSE @]
    /\ UNCHANGED <<now, dest, covered, evidence, decision>>

\* Nothing was fresh and nobody answered.
Nothing(w, v, s) == ~tx[w].fresh /\ v = None /\ s = None

AssessEnd(w, v, s, life) ==
    /\ At(w, "assessing")
    /\ v \in VerifyAnswers(tx[w].verify) /\ s \in ScreenAnswers(tx[w].screen)
    /\ ~Nothing(w, v, s)
    /\ Persist(w, v, s, life)
    /\ key' = [key EXCEPT ![tx[w].key] = "completed"]
    /\ End(w)
    /\ UNCHANGED <<now, covered, decision, asked>>

\* The key stays as it is, for nobody to use again.
AssessUnavailable(w) ==
    /\ At(w, "assessing") /\ Nothing(w, None, None)
    /\ End(w)
    /\ UNCHANGED <<now, dest, covered, evidence, key, decision, asked>>

-----------------------------------------------------------------------------
(* Approval.                                                               *)

Clear(t) == Fresh(screenings, t) /\ screenings[Len(screenings)].result = "clear"

\* The hashes a verification is bound to are those of its own destination, which never change.
Verified(t) == Fresh(verifications, t) /\ verifications[Len(verifications)].result = "verified"

ApprovalGates(t) == dest.status = "pending_review" /\ covered /\ Clear(t) /\ Verified(t)
Unmoved(w) == dest.statusV = tx[w].statusV /\ dest.whitelistV = tx[w].whitelistV

ApproveStart(w) ==
    /\ ApprovalGates(now)
    /\ Begin(w, "approving", Snapshot)
    /\ UNCHANGED <<now, dest, covered, evidence, key, decision, asked>>

ApproveApply(w) ==
    /\ At(w, "approving")
    /\ dest' = IF ApprovalGates(now) /\ Unmoved(w)
               THEN [dest EXCEPT !.status = "approved_pending_cooling", !.statusV = @ + 1,
                                 !.coolUntil = now + Cooling]
               ELSE dest
    /\ End(w)
    /\ UNCHANGED <<now, covered, evidence, key, decision, asked>>

-----------------------------------------------------------------------------
(* evaluate-use of a fiat destination.                                     *)

\* G1 to G7.
FiatGates(t) ==
    /\ covered /\ Clear(t) /\ Verified(t)
    /\ \/ dest.status = "active"
       \/ dest.status = "approved_pending_cooling" /\ dest.coolUntil # None /\ t >= dest.coolUntil

\* The gates without a lock, then the roster and AML-01, which allows for a while.
Evaluate(w) ==
    /\ FiatGates(now)
    /\ Begin(w, "allowed", [Snapshot EXCEPT !.amlUntil = now + AmlValidity])
    /\ UNCHANGED <<now, dest, covered, evidence, key, decision, asked>>

Queue(w) ==
    /\ At(w, "allowed")
    /\ pc' = [pc EXCEPT ![w] = "issuing"] /\ tx' = [tx EXCEPT ![w].at = now]
    /\ UNCHANGED <<now, dest, covered, evidence, key, decision, asked>>

Expiry(w) == Min({tx[w].at + Ttl, tx[w].amlUntil,
                  screenings[Len(screenings)].until, verifications[Len(verifications)].until})

\* The destination has not moved, and is usable on the same two rows.
SameEvidence(w) == Len(screenings) = tx[w].screening /\ Len(verifications) = tx[w].verification
GatesHold(w) == FiatGates(tx[w].at)
Stands(w) ==
    /\ dest.status # "revoked" /\ dest.epoch = tx[w].epoch /\ Unmoved(w)
    /\ GatesHold(w) /\ SameEvidence(w)
    /\ Expiry(w) > tx[w].at

Refuse(w) ==
    /\ At(w, "issuing") /\ ~Stands(w)
    /\ End(w)
    /\ UNCHANGED <<now, dest, covered, evidence, key, decision, asked>>

\* The first use after cooling-off makes it active, also when the currency is not the
\* destination's or the limits deny.
Activated == IF dest.status = "active" THEN dest
             ELSE [dest EXCEPT !.status = "active", !.statusV = @ + 1, !.whitelistV = @ + 1]

Issue(w, admitted) ==
    /\ At(w, "issuing") /\ Stands(w) /\ Len(decision) < MaxDecisions
    /\ dest' = Activated
    /\ decision' = IF admitted
                   THEN Append(decision,
                       [screening |-> Len(screenings), verification |-> Len(verifications),
                        evaluated |-> tx[w].verification, rail |-> covered, epoch |-> dest.epoch, at |-> tx[w].at,
                        expires |-> Expiry(w)])
                   ELSE decision
    /\ End(w)
    /\ UNCHANGED <<now, covered, evidence, key, asked>>

-----------------------------------------------------------------------------
(* Around it.                                                              *)

Revoke ==
    /\ dest.status \notin {None, "revoked"}
    /\ dest' = [dest EXCEPT !.status = "revoked", !.epoch = @ + 1, !.statusV = @ + 1]
    /\ UNCHANGED <<now, covered, evidence, key, decision, pc, tx, asked>>

\* The process dies, or its transaction fails: what it had not committed is not there.
Abort(w) ==
    /\ ~At(w, "idle")
    /\ End(w)
    /\ UNCHANGED <<now, dest, covered, evidence, key, decision, asked>>

\* A migration takes the corridor out of operation, or back in.
SetCoverage ==
    /\ covered' = ~covered
    /\ UNCHANGED <<now, dest, evidence, key, decision, pc, tx, asked>>

Tick ==
    /\ now < MaxTime /\ now' = now + 1
    /\ UNCHANGED <<dest, covered, evidence, key, decision, pc, tx, asked>>

Init ==
    /\ now = 0 /\ dest = Unregistered /\ covered = TRUE
    /\ verifications = <<>> /\ screenings = <<>>
    /\ key = [k \in Keys |-> "new"] /\ asked = [k \in Keys |-> 0]
    /\ decision = <<>>
    /\ pc = [w \in Workers |-> "idle"] /\ tx = [w \in Workers |-> Idle]

Answers(w) == \E v \in {None} \cup VerificationResults, s \in {None} \cup RiskStatuses, life \in Lifetimes :
                 Onboarded(w, v, s, life) \/ PublicOnboarded(w, v, s, life) \/ AssessEnd(w, v, s, life)
Next ==
    \/ \E w \in Workers :
          \/ Register(w) \/ Answers(w) \/ AssessUnavailable(w)
          \/ \E k \in Keys, given \in BOOLEAN : AssessStart(w, k, given)
          \/ ApproveStart(w) \/ ApproveApply(w)
          \/ Evaluate(w) \/ Queue(w) \/ Refuse(w)
          \/ \E admitted \in BOOLEAN : Issue(w, admitted)
          \/ Abort(w)
    \/ Revoke \/ SetCoverage \/ Tick

Spec == Init /\ [][Next]_vars

-----------------------------------------------------------------------------
Statuses == {None, "draft", "pending_review", "approved_pending_cooling", "active", "revoked"}
Points == {"idle", "onboarding", "assessing", "approving", "allowed", "issuing"}

\* Every variable has its type, and no row of evidence is without its provider's answer.
TypeOK ==
    /\ now \in 0..MaxTime /\ covered \in BOOLEAN
    /\ dest.status \in Statuses /\ dest.verification \in Verifications \cup {"pending"}
    /\ \A i \in DOMAIN verifications : verifications[i].result \in Verifications
    /\ \A i \in DOMAIN screenings : screenings[i].result \in Risks
    /\ key \in [Keys -> {"new", "processing", "completed"}]
    /\ \A k \in DOMAIN decision : decision[k].epoch \in 0..dest.epoch
    /\ pc \in [Workers -> Points] /\ \A w \in Workers : tx[w].at \in 0..now

\* The comment on assess's idempotency: at most one call reaches the provider phase under a
\* key, whatever overlaps, dies or is retried.
OnePhase == \A k \in Keys : asked[k] <= 1

\* A destination is a draft exactly as long as nothing is known of it, and the status it shows
\* is that of its latest verification: the row and the tables are written by requests that
\* read the destination's status before they asked a provider.
RowsAgree ==
    /\ dest.status \in {None, "draft"} => verifications = <<>> /\ screenings = <<>>
    /\ dest.status = "pending_review" => verifications # <<>> \/ screenings # <<>>
    /\ dest.verification = IF verifications = <<>> THEN "pending"
                           ELSE verifications[Len(verifications)].result

\* Nothing goes back: an assessment that read a draft does not return to review what was
\* approved or revoked while its providers answered.
NeverBack ==
    /\ dest.epoch > 0 <=> dest.status = "revoked"
    /\ decision # <<>> => dest.status \in {"active", "revoked"}

\* A decision names the rows it was issued on: clear and verified ones that it does not
\* outlive, and that nothing had replaced, neither before AML-01 was asked about them nor since.
IssuedOnLatest ==
    \A k \in DOMAIN decision :
        LET v == decision[k].verification
            s == decision[k].screening
        IN
        /\ verifications[v].result = "verified" /\ screenings[s].result = "clear"
        /\ decision[k].at < decision[k].expires
        /\ decision[k].expires <= verifications[v].until /\ decision[k].expires <= screenings[s].until
        /\ decision[k].evaluated = v /\ decision[k].rail
        /\ \A i \in DOMAIN verifications : i > v => verifications[i].after >= k
        /\ \A i \in DOMAIN screenings : i > s => screenings[i].after >= k
=============================================================================
