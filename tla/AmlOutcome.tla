----------------------------- MODULE AmlOutcome -----------------------------
(***************************************************************************)
(* AML-01: what becomes of the matches of one subject's screenings.  A     *)
(* match is confirmed or dismissed by a reviewer under an approval; the    *)
(* outcome is delivered to CLT-01 by a call outside any transaction, and   *)
(* delivered again by a retry that carries what was planned first; and the *)
(* pre-transaction gate answers from the newest screening.                 *)
(*                                                                         *)
(* How a screening comes by its status is module AmlScreening.             *)
(***************************************************************************)
EXTENDS Naturals, FiniteSets

CONSTANTS
    Screenings,     \* numbers of the subject's screenings, in the order they are requested
    Matches,        \* matches a screening may return
    Type,           \* the outcome type each match counts for
    Decisions,      \* ids of the disposition requests
    Deliveries,     \* numbers of the delivery rows, in the order they are inserted
    Workers,
    None

VARIABLES
    screening,      \* aml1.screening_request.status
    match,          \* aml1.screening_match.match_status of each screening
    decision,       \* aml1.match_disposition_decision_request
    delivery,       \* aml1.clt_outcome_delivery
    work,           \* the point each worker has reached
    clt             \* CLT-01: for each outcome type, the delivery received last

vars == <<screening, match, decision, delivery, work, clt>>

Types == {Type[m] : m \in Matches}
NoMatches == [m \in Matches |-> None]
NoDecision == [screening |-> 0, match |-> None, to |-> None, status |-> None]
NoDelivery == [screening |-> 0, type |-> None, effective |-> None, status |-> None]
At(point, id, plan, todo) == [at |-> point, id |-> id, plan |-> plan, todo |-> todo]
Idle == At("idle", None, NoMatches, {})

Now(w) == work[w].at
Go(w, step) == work' = [work EXCEPT ![w] = step]
Rest(w) == Go(w, Idle)

-----------------------------------------------------------------------------
(* Screenings *)

Request(n) ==
    /\ \A k \in Screenings : screening[k] = None <=> k >= n
    /\ \A k \in Screenings : screening[k] # "requested"
    /\ screening' = [screening EXCEPT ![n] = "requested"]
    /\ UNCHANGED <<match, decision, delivery, work, clt>>

Answer(n) ==
    /\ screening[n] = "requested"
    /\ \/ /\ screening' = [screening EXCEPT ![n] = "completed"]
          /\ \E found \in SUBSET Matches :
                match' = [match EXCEPT ![n] = [m \in Matches |-> IF m \in found THEN "potential_match" ELSE None]]
       \/ screening' = [screening EXCEPT ![n] = "failed"] /\ UNCHANGED match
    /\ UNCHANGED <<decision, delivery, work, clt>>

-----------------------------------------------------------------------------
(* Disposition *)

Undisposed(n, m) == match[n][m] = "potential_match"

RequestDisposition(d, n, m, to) ==
    /\ decision[d] = NoDecision /\ Undisposed(n, m)
    /\ decision' = [decision EXCEPT ![d] = [screening |-> n, match |-> m, to |-> to, status |-> "requested"]]
    /\ UNCHANGED <<screening, match, delivery, work, clt>>

\* The apply handler up to its transaction: IAM-02 consumes a token for this decision.
Verify(w, d) ==
    LET q == decision[d] IN
    /\ Now(w) = "idle" /\ q.status = "requested" /\ Undisposed(q.screening, q.match)
    /\ Go(w, At("verified", d, NoMatches, {}))
    /\ UNCHANGED <<screening, match, decision, delivery, clt>>

\* Under the match's row lock.
StillUndisposed_Unread(n, m) == TRUE
StillUndisposed(n, m) == Undisposed(n, m)

Dispose(w) ==
    LET d == work[w].id
        q == decision[d]
    IN  /\ Now(w) = "verified" /\ Rest(w)
        /\ \/ /\ q.status = "requested" /\ StillUndisposed(q.screening, q.match)
              /\ match' = [match EXCEPT ![q.screening][q.match] = q.to]
              /\ decision' = [decision EXCEPT ![d].status = "applied"]
           \/ /\ q.status # "requested" \/ ~StillUndisposed(q.screening, q.match)
              /\ UNCHANGED <<match, decision>>
        /\ UNCHANGED <<screening, delivery, clt>>

-----------------------------------------------------------------------------
(* Delivery to CLT-01 *)

\* deriveEffectiveStatus, over what each match was when it was read.
Effective_DismissedFirst(read, t) ==
    LET found == {read[m] : m \in {k \in Matches : Type[k] = t}} \ {None} IN
    CASE found = {} -> "clear"
      [] "dismissed" \in found -> "clear_after_review"
      [] OTHER -> IF "confirmed_hit" \in found THEN "confirmed_hit" ELSE "potential_match"
Effective(read, t) ==
    LET found == {read[m] : m \in {k \in Matches : Type[k] = t}} \ {None} IN
    CASE found = {} -> "clear"
      [] "confirmed_hit" \in found -> "confirmed_hit"
      [] "confirmed_hit" \notin found /\ "potential_match" \in found -> "potential_match"
      [] found = {"dismissed"} -> "clear_after_review"

\* POST .../clt-outcome plans from matches read before its transaction.
Plan(w, n) ==
    /\ Now(w) = "idle" /\ screening[n] = "completed"
    /\ Go(w, At("planned", n, match[n], {}))
    /\ UNCHANGED <<screening, match, decision, delivery, clt>>

Free == {k \in Deliveries : delivery[k] = NoDelivery}

\* One pending row for each outcome type.
Insert(w) ==
    /\ Now(w) = "planned"
    /\ \E rows \in SUBSET Free :
          /\ Cardinality(rows) = Cardinality(Types) /\ \A k \in rows, j \in Free \ rows : k < j
          /\ \E kind \in [rows -> Types] :
                /\ \A t \in Types : \E k \in rows : kind[k] = t
                /\ delivery' = [k \in Deliveries |-> IF k \notin rows THEN delivery[k] ELSE
                      [screening |-> work[w].id, type |-> kind[k], effective |-> Effective(work[w].plan, kind[k]), status |-> "pending"]]
          /\ Go(w, At("sending", None, NoMatches, rows))
    /\ UNCHANGED <<screening, match, decision, clt>>

\* POST .../retry: any row that has not succeeded, with what was planned for it.
Retry(w, k) ==
    /\ Now(w) = "idle" /\ delivery[k].status \in {"pending", "failed"}
    /\ Go(w, At("sending", None, NoMatches, {k}))
    /\ UNCHANGED <<screening, match, decision, delivery, clt>>

\* The call: CLT-01 may receive it whether or not its answer comes back.
Call(w) ==
    \E k \in work[w].todo, received \in BOOLEAN :
        /\ Now(w) = "sending"
        /\ clt' = IF received THEN [clt EXCEPT ![delivery[k].type] = k] ELSE clt
        /\ \E answered \in {FALSE, received} :
              Go(w, At(IF answered THEN "succeeded" ELSE "failed", k, NoMatches, work[w].todo))
        /\ UNCHANGED <<screening, match, decision, delivery>>

\* The second transaction, which reads nothing again.
Recorded_Pending(answer, status) == IF answer = "failed" THEN "delivery_failed" ELSE answer
Recorded(answer, status) == answer
Record(w) ==
    LET k == work[w].id IN
    /\ Now(w) \in {"succeeded", "failed"}
    /\ delivery' = [delivery EXCEPT ![k].status = Recorded(Now(w), @)]
    /\ IF work[w].todo = {k} THEN Rest(w)
       ELSE Go(w, At("sending", None, NoMatches, work[w].todo \ {k}))
    /\ UNCHANGED <<screening, match, decision, clt>>

\* The process dies between the call and the record, or before the call.
Dies(w) ==
    /\ Now(w) \in {"sending", "succeeded", "failed"}
    /\ Rest(w)
    /\ UNCHANGED <<screening, match, decision, delivery, clt>>

-----------------------------------------------------------------------------
(* The pre-transaction gate, which reads one snapshot *)

\* The status the screening itself recorded, which no disposition changes.
Overall(n) == IF match[n] = NoMatches THEN "clear" ELSE "potential_match"
Undismissed(n) == {m \in Matches : match[n][m] \notin {None, "dismissed"}}
Newest_OfCompleted == {n \in Screenings : screening[n] = "completed" /\
                          \A k \in Screenings : screening[k] = "completed" => k <= n}
Newest == {n \in Screenings : screening[n] # None /\ \A k \in Screenings : screening[k] # None => k <= n}

\* evaluateSubjectEvidence on fresh evidence; on stale evidence every "allow" is a "review".
Verdict(n) ==
    CASE screening[n] # "completed" -> "review"
      [] screening[n] = "completed" /\ Overall(n) = "confirmed_hit" -> "deny"
      [] screening[n] = "completed" /\ Overall(n) # "confirmed_hit" ->
            IF Undismissed(n) = {} THEN "allow" ELSE "review"
Gate == IF Newest = {} THEN "review" ELSE Verdict(CHOOSE n \in Newest : TRUE)

-----------------------------------------------------------------------------
Init ==
    /\ screening = [n \in Screenings |-> None]
    /\ match = [n \in Screenings |-> NoMatches]
    /\ decision = [d \in Decisions |-> NoDecision]
    /\ delivery = [k \in Deliveries |-> NoDelivery]
    /\ work = [w \in Workers |-> Idle]
    /\ clt = [t \in Types |-> 0]

Next ==
    \/ \E n \in Screenings : Request(n) \/ Answer(n)
    \/ \E d \in Decisions, n \in Screenings, m \in Matches, to \in {"confirmed_hit", "dismissed"} :
          RequestDisposition(d, n, m, to)
    \/ \E w \in Workers :
          \/ \E d \in Decisions : Verify(w, d)
          \/ \E n \in Screenings : Plan(w, n)
          \/ \E k \in Deliveries : Retry(w, k)
          \/ Dispose(w) \/ Insert(w) \/ Call(w) \/ Record(w) \/ Dies(w)

Spec == Init /\ [][Next]_vars

-----------------------------------------------------------------------------
TypeOK ==
    /\ screening \in [Screenings -> {None, "requested", "completed", "failed"}]
    /\ match \in [Screenings -> [Matches -> {None, "potential_match", "confirmed_hit", "dismissed"}]]
    /\ \A d \in Decisions : decision[d].status \in {None, "requested", "applied"}
    /\ \A k \in Deliveries : delivery[k].status \in {None, "pending", "succeeded", "failed"}
    /\ clt \in [Types -> Deliveries \cup {0}]

\* Of overlapping decisions on a match one is applied, and the match stands as it decided.
DecidedOnce ==
    \A c, d \in Decisions : decision[c].status = "applied" =>
       /\ match[decision[c].screening][decision[c].match] = decision[c].to
       /\ decision[d].status = "applied" /\ decision[d].screening = decision[c].screening
             /\ decision[d].match = decision[c].match => c = d

\* CLT-01 holds a pass only for a screening all of whose matches of that type were dismissed,
\* whatever was retried since, and a hit only for one with a confirmed match.
ClearedByReview ==
    \A t \in Types : clt[t] # 0 =>
       LET k == delivery[clt[t]]
           now == Effective(match[k.screening], t)
       IN  /\ k.effective \in {"clear", "clear_after_review"} => now = k.effective
           /\ k.effective = "confirmed_hit" => now = "confirmed_hit"

\* The gate lets a transaction pass only while no screening is under way and every match of the
\* newest is dismissed.
AllowedOnlyWhenCleared ==
    Gate = "allow" =>
       /\ \A n \in Screenings : screening[n] # "requested"
       /\ \A k \in Screenings : screening[k] \in {"completed", "failed"} =>
             (\E n \in Screenings : n > k /\ screening[n] # None) \/ Undismissed(k) = {}

\* A subject whose newest screening has a confirmed match is denied.
ConfirmedDenied ==
    \A n \in Newest : (\E m \in Matches : match[n][m] = "confirmed_hit") => Gate = "deny"
=============================================================================
