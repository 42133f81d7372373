---------------------------- MODULE WltScreening ----------------------------
(***************************************************************************)
(* WLT-01: the screening of one wallet destination.  A request records a   *)
(* pending screening, calls the provider outside any transaction and       *)
(* applies the answer in another; the provider may also send a receipt,    *)
(* any number of times, which is recorded in an inbox, reconciled with the *)
(* screening and applied by the same service, each in a transaction of its *)
(* own; and an operator recovers a screening no answer came for.           *)
(*                                                                         *)
(* Times are abstracted to what they decide: whether a pending screening   *)
(* is past the retry cooldown (age 1) and the stuck threshold (age 2), and *)
(* whether a receipt still normalises.                                     *)
(***************************************************************************)
EXTENDS Naturals

CONSTANTS
    Screens,        \* versions of the wallet's screenings
    Receipts,       \* provider result ids
    Target,         \* the screening each receipt names
    Foreign,        \* of them: those naming a screening that is unknown or another provider's
    Bodies,         \* bodies sent under one provider result id
    Workers,
    MaxDeaths,      \* bound: requests that die
    None

ASSUME ScreensAssumption == Screens \subseteq Nat
ASSUME TargetAssumption == Target \in [Receipts -> Screens]
ASSUME NoneAssumption ==
    None \notin Bodies \cup {"pending", "failed", "screened", "received", "processed", "rejected",
                           "unknown", "stale", "invalid"}

VARIABLES
    status,         \* wlt1.destination.status
    screen,         \* wlt1.wallet_screening_result
    inbox,          \* wlt1.vendor_result_inbox
    normal,         \* receipts whose adaptor is there and whose result has not lapsed
    work,           \* the point each worker has reached
    deaths

vars == <<status, screen, inbox, normal, work, deaths>>

\* by: the result id and body of the receipt that stands, 0 for the answer to a call.
NoScreen == [risk |-> None, by |-> <<>>, age |-> 0]
NoReceipt == [body |-> None, status |-> None, reason |-> None]
Idle == [at |-> "idle", id |-> 0, body |-> None]

Now(w) == work[w].at
Go(w, point) == work' = [work EXCEPT ![w].at = point]
Rest(w) == work' = [work EXCEPT ![w] = Idle]
Start(w, point, id, body) == work' = [work EXCEPT ![w] = [at |-> point, id |-> id, body |-> body]]

-----------------------------------------------------------------------------
(* Request, answer and recovery *)

Pending(n) == screen[n].risk = "pending"
Next1(n) == \A k \in Screens : screen[k] = NoScreen <=> k >= n
Young == [NoScreen EXCEPT !.risk = "pending"]

\* A draft wallet gets a screening.
First(n) == status = "draft" /\ Next1(n) /\ status' = "pending_screening"

\* One under screening has its pending one called for again, at most once in a cooldown, and only
\* while its chain is still covered by the provider that was called first.
Retry(n) == status = "pending_screening" /\ Pending(n) /\ screen[n].age > 0 /\ UNCHANGED status

Screen(w, n) ==
    /\ Now(w) = "idle"
    /\ First(n) \/ Retry(n)
    /\ screen' = [screen EXCEPT ![n] = Young]
    /\ Start(w, "calling", n, None)
    /\ UNCHANGED <<inbox, normal, deaths>>

\* The application service re-reads all of it under the destination's lock.
Applicable_StatusOnly(n) == status = "pending_screening"
Applicable(n) ==
    /\ status = "pending_screening" /\ Pending(n)
    /\ \A k \in Screens : k > n => screen[k] = NoScreen

Apply(n, evidence) ==
    /\ Applicable(n)
    /\ screen' = [screen EXCEPT ![n] = [risk |-> "screened", by |-> evidence, age |-> 0]]
    /\ status' = "pending_review"

\* The provider answered, and its answer was applied or refused, or it did not.
Answer(w) ==
    /\ Now(w) = "calling" /\ Rest(w)
    /\ Apply(work[w].id, <<0, None>>) \/ UNCHANGED <<status, screen>>
    /\ UNCHANGED <<inbox, normal, deaths>>

Recoverable(n) == Pending(n) /\ status = "pending_screening" /\ screen[n].age = 2
Recovered == [NoScreen EXCEPT !.risk = "failed"]
Recover(n) ==
    /\ Recoverable(n)
    /\ screen' = [screen EXCEPT ![n] = Recovered]
    /\ status' = "draft"
    /\ UNCHANGED <<inbox, normal, work, deaths>>

Age(n) ==
    /\ Pending(n) /\ screen[n].age < 2
    /\ screen' = [screen EXCEPT ![n].age = @ + 1]
    /\ UNCHANGED <<status, inbox, normal, work, deaths>>

Revoke ==
    /\ status # "revoked" /\ status' = "revoked"
    /\ UNCHANGED <<screen, inbox, normal, work, deaths>>

-----------------------------------------------------------------------------
(* Receipts *)

\* isTerminalEvidenceForInbox: what stands in the screening is this receipt, byte for byte.
Evidence(r, b) == screen[Target[r]].by = <<r, b>>
Stale(r) == ~Pending(Target[r]) \/ status # "pending_screening"

\* The adaptor of the version the screening was asked with normalises the receipt's result.
Normalises(r) == r \in normal

\* What a receipt is turned away for, None if it is not; of what does not normalise only the
\* adaptor's absence is seen yet.
Classified(r) ==
    IF r \in Foreign THEN {"unknown"} ELSE IF Stale(r) THEN {"stale"}
    ELSE {None} \cup (IF Normalises(r) THEN {} ELSE {"invalid"})

\* The first delivery of a provider result id is recorded for good.
Record(w, r, b) ==
    /\ inbox[r] = NoReceipt
    /\ \E reason \in Classified(r) :
          /\ inbox' = [inbox EXCEPT ![r] = [body |-> b, reason |-> reason,
                                            status |-> IF reason = None THEN "received" ELSE "rejected"]]
          /\ IF reason = None THEN Start(w, "received", r, b) ELSE UNCHANGED work

\* A later one goes on only with the same body; a different one is a conflict.
SameBody(r, b) == inbox[r].body = b

Again_Recorded(w, r, b) == inbox[r] # NoReceipt /\ SameBody(r, b) /\ UNCHANGED <<work, inbox>>
Again(w, r, b) ==
    /\ inbox[r] # NoReceipt /\ SameBody(r, b)
    /\ \/ inbox[r].status = "received" /\ Start(w, "received", r, b)
       \/ inbox[r].reason = "stale" /\ Evidence(r, b) /\ Start(w, "resolving", r, b)
    /\ UNCHANGED inbox

Deliver(w, r, b) ==
    /\ Now(w) = "idle" /\ (r \notin Foreign => screen[Target[r]] # NoScreen)
    /\ Record(w, r, b) \/ Again(w, r, b)
    /\ UNCHANGED <<status, screen, normal, deaths>>

\* reconcileOrApplyReceivedReceipt up to the service, from one unlocked read.
Reconcile(w) ==
    LET r == work[w].id
        b == work[w].body
    IN  /\ Now(w) = "received"
        /\ \/ Evidence(r, b) /\ Go(w, "resolving")
           \/ ~Evidence(r, b) /\ Stale(r) /\ Go(w, "rejecting stale")
           \/ ~Stale(r) /\ ~Normalises(r) /\ Go(w, "rejecting invalid")
           \/ ~Stale(r) /\ Normalises(r) /\ Go(w, "applying")
        /\ UNCHANGED <<status, screen, inbox, normal, deaths>>

ApplyReceipt(w) ==
    LET r == work[w].id IN
    /\ Now(w) = "applying"
    /\ \/ Apply(Target[r], <<r, work[w].body>>) /\ Go(w, "accepting")
       \/ ~Applicable(Target[r]) /\ Go(w, "lost") /\ UNCHANGED <<status, screen>>
    /\ UNCHANGED <<inbox, normal, deaths>>

\* The service refused: perhaps because another delivery of this receipt was applied.
AfterLoss_Resolve(r, b) == "resolving"
AfterLoss_Reject(r, b) == "rejecting stale"
AfterLoss(r, b) == IF Evidence(r, b) THEN "resolving" ELSE "rejecting stale"
Reread(w) ==
    /\ Now(w) = "lost" /\ Go(w, AfterLoss(work[w].id, work[w].body))
    /\ UNCHANGED <<status, screen, inbox, normal, deaths>>

\* The inbox row moves on from "received" only; from a stale rejection too when the evidence
\* turned out to be this receipt's (healRaceProducedStaleRejection).
Heals(row) == row.reason = "stale"

Moved_KeepsReason(w, row) ==
    CASE Now(w) \in {"accepting", "resolving"} -> [row EXCEPT !.status = "processed"]
      [] Now(w) = "rejecting stale" -> [row EXCEPT !.status = "rejected", !.reason = "stale"]
      [] Now(w) = "rejecting invalid" -> [row EXCEPT !.status = "rejected", !.reason = "invalid"]
      [] OTHER -> row
Moved(w, row) ==
    CASE Now(w) = "accepting" /\ row.status = "received" -> [row EXCEPT !.status = "processed"]
      [] Now(w) = "resolving" /\ (row.status = "received" \/ Heals(row)) ->
            [row EXCEPT !.status = "processed", !.reason = None]
      [] Now(w) = "rejecting stale" /\ row.status = "received" -> [row EXCEPT !.status = "rejected", !.reason = "stale"]
      [] Now(w) = "rejecting invalid" /\ row.status = "received" -> [row EXCEPT !.status = "rejected", !.reason = "invalid"]
      [] OTHER -> row
Transition(w) ==
    /\ Now(w) \in {"accepting", "resolving", "rejecting stale", "rejecting invalid"}
    /\ inbox' = [inbox EXCEPT ![work[w].id] = Moved(w, @)]
    /\ Rest(w)
    /\ UNCHANGED <<status, screen, normal, deaths>>

\* Its validity lapses, or a release drops the adaptor version.
Lapse(r) ==
    /\ r \in normal /\ normal' = normal \ {r}
    /\ UNCHANGED <<status, screen, inbox, work, deaths>>

Dies(w) ==
    /\ Now(w) # "idle" /\ deaths < MaxDeaths
    /\ Rest(w) /\ deaths' = deaths + 1
    /\ UNCHANGED <<status, screen, inbox, normal>>

-----------------------------------------------------------------------------
Init ==
    /\ status = "draft"
    /\ screen = [n \in Screens |-> NoScreen]
    /\ inbox = [r \in Receipts |-> NoReceipt]
    /\ normal = Receipts
    /\ work = [w \in Workers |-> Idle]
    /\ deaths = 0

Proceed(w) == Answer(w) \/ Reconcile(w) \/ ApplyReceipt(w) \/ Reread(w) \/ Transition(w)
Delivered(r, b) == \E w \in Workers : Deliver(w, r, b)

Next ==
    \/ \E n \in Screens : Recover(n) \/ Age(n) \/ \E w \in Workers : Screen(w, n)
    \/ \E r \in Receipts : Lapse(r) \/ \E b \in Bodies : Delivered(r, b)
    \/ \E w \in Workers : Proceed(w) \/ Dies(w)
    \/ Revoke

Spec == Init /\ [][Next]_vars

\* Handlers go on, and the provider delivers again what was not acknowledged.
Fairness ==
    /\ \A w \in Workers : WF_vars(Proceed(w))
    /\ \A r \in Receipts, b \in Bodies : SF_vars(Delivered(r, b))
FairSpec == Spec /\ Fairness

-----------------------------------------------------------------------------
TypeOK ==
    /\ status \in {"draft", "pending_screening", "pending_review", "revoked"}
    /\ \A n \in Screens :
          /\ screen[n].risk \in {None, "pending", "failed", "screened"}
          /\ screen[n].by \in {<<>>, <<0, None>>} \cup (Receipts \X Bodies)
    /\ inbox \in [Receipts -> [body : Bodies \cup {None}, status : {None, "received", "processed", "rejected"},
                               reason : {None, "unknown", "stale", "invalid"}]]
    /\ \A r \in Receipts : inbox[r].status = "rejected" <=> inbox[r].reason # None

\* Whatever was recovered, asked for again or answered twice: a wallet under screening has one
\* pending screening, its newest, and no other wallet has one except a wallet revoked meanwhile.
OnePending ==
    /\ status = "pending_screening" => \E n \in Screens : Pending(n) /\ Applicable(n)
    /\ \A n \in Screens : Pending(n) =>
          /\ status \in {"pending_screening", "revoked"}
          /\ \A k \in Screens : k > n => screen[k] = NoScreen

\* An answer, a receipt or a duplicate of either that comes after a screening has its result, or
\* was recovered as stuck, leaves that result and its provenance as they are.
ResultStands ==
    [][\A n \in Screens : screen[n].risk \in {"failed", "screened"} => screen'[n] = screen[n]]_vars

\* The receipt that stands in a screening is the one the inbox holds, and is not turned away as
\* stale; it can only have been found invalid by a delivery that overlapped with the one applied.
AppliedNotStale ==
    \A r \in Receipts, b \in Bodies : Evidence(r, b) =>
       /\ inbox[r].body = b
       /\ inbox[r].status \in {"received", "processed"} \/ inbox[r].reason = "invalid"

\* A receipt counts as processed only if it is what stands in its screening.
ProcessedStands == \A r \in Receipts : inbox[r].status = "processed" => Evidence(r, inbox[r].body)

\* A wallet under screening has one pending screening, and a receipt is marked for what it did:
\* processed only if it stands in its screening, and turned away as stale only if it does not.
ReceiptsTell == TypeOK /\ OnePending /\ AppliedNotStale /\ ProcessedStands

\* An applied receipt is marked processed in the end, though the process dies between the two.
AppliedIsProcessed ==
    \A r \in Receipts, b \in Bodies :
       Evidence(r, b) ~> inbox[r].status = "processed" \/ inbox[r].reason = "invalid"

\* The claim that an applied receipt is never rejected permanently.
AppliedNeverRejected == \A r \in Receipts, b \in Bodies : Evidence(r, b) => inbox[r].status # "rejected"
=============================================================================
