---------------------------- MODULE ServiceCalls ----------------------------
(***************************************************************************)
(* The calls between the services.  A request of one service asks others,  *)
(* one after the other: IAM-02 whether its actor may, or whether a         *)
(* decision token stands for what it is about to apply; IAM-01, CLT-01 and *)
(* FND-01 about a user at WLT-01's public door; CLT-01 and AML-01 before a *)
(* destination is used; CFG-01 before CLT-01 opens an application; CLT-01  *)
(* to take an outcome of AML-01's.  An answer may be lost, may come as an  *)
(* error or be something else than was asked for, and the caller may have  *)
(* given up: verifying a token spends it whether or not anybody hears.     *)
(* What the callees say depends on state that others change at any time,   *)
(* so they may say anything; only the tokens are kept.                     *)
(***************************************************************************)
EXTENDS Naturals, FiniteSets

CONSTANTS
    Workers,        \* the requests in progress at once
    Tokens,         \* IAM-02's decision tokens
    Clients,        \* clients a user may be a member of
    None

VARIABLES
    call,           \* each request: what it asks whom, and the reply
    bound,          \* the service each token's action belongs to
    spent,          \* tokens consumed
    abandoned,      \* verifications of tokens under way for a caller that gave up
    acted           \* history: how often each token's action was applied

vars == <<call, bound, spent, abandoned, acted>>

Services == {"WLT-01", "KYC-01", "AML-01", "CLT-01", "CFG-01", "SEC-01"}
Questions == {"permission", "token", "session", "members", "rate", "status",
              "roster", "screening", "gate", "outcome"}
\* told is history: what the callees said in this request, whether or not it was heard; list is
\* the memberships among it.
NoCall == [at |-> "idle", svc |-> None, what |-> None, token |-> None, narrow |-> None, client |-> None,
           reply |-> None, list |-> {}, told |-> [q \in Questions |-> None]]

-----------------------------------------------------------------------------
(* What a client makes of a reply.                                         *)

\* IAM-02's check is a baseline: a maker whose action needs approval or step-up may still ask.
BaselinePass == {"allow", "approval_required", "step_up_required"}
WltCheckPermission(r) == r \in BaselinePass
KycCheckPermission(r) == r \in BaselinePass
AmlCheckPermission(r) == r \in BaselinePass
CltCheckPermission(r) == r \in BaselinePass
CfgCheckPermission(r) == r \in BaselinePass
\* SEC-01 reads and triages on the spot: nothing would be approved later.
SecCheckPermission(r) == r = "allow"

WltVerifyDecisionToken(r) == r = "authorised"
KycVerifyDecisionToken(r) == r = "authorised"
AmlVerifyDecisionToken_Unavailable(r) == r \in {"authorised", "lost"}
AmlVerifyDecisionToken(r) == r = "authorised"
CltVerifyDecisionToken(r) == r = "authorised"
CfgVerifyDecisionToken(r) == r = "authorised"
SecVerifyDecisionToken(r) == r = "authorised"

CheckPermission(svc, r) ==
    \/ svc = "WLT-01" /\ WltCheckPermission(r)
    \/ svc = "KYC-01" /\ KycCheckPermission(r)
    \/ svc = "AML-01" /\ AmlCheckPermission(r)
    \/ svc = "CLT-01" /\ CltCheckPermission(r)
    \/ svc = "CFG-01" /\ CfgCheckPermission(r)
    \/ svc = "SEC-01" /\ SecCheckPermission(r)
VerifyDecisionToken(svc, r) ==
    \/ svc = "WLT-01" /\ WltVerifyDecisionToken(r)
    \/ svc = "KYC-01" /\ KycVerifyDecisionToken(r)
    \/ svc = "AML-01" /\ AmlVerifyDecisionToken(r)
    \/ svc = "CLT-01" /\ CltVerifyDecisionToken(r)
    \/ svc = "CFG-01" /\ CfgVerifyDecisionToken(r)
    \/ svc = "SEC-01" /\ SecVerifyDecisionToken(r)

\* The public door: a client's own user, of exactly one client or of the one it names.
IntrospectSession(r) == r = "client"
ResolveClientMemberships(r) == r = "memberships"
ResolveClientId(members, narrow) == {c \in members : narrow = c \/ (narrow = None /\ members = {c})}
CheckRateLimit(r) == r = "allow"
CheckClientStatus(r) == r \in {"active", "active_limited"}

FetchActiveAuthorisedPartyRefs(r) == r = "parties"
\* An allow that has lapsed on arrival is none.
ScreenPreTransaction(r) == r = "allow"
EvaluateOnboardingGate(r) == r = "allow"
PostToClt1(r) == r = "stored"

\* The question is answered so that the request goes on.
Accepts(c) ==
    CASE c.what = "permission" -> CheckPermission(c.svc, c.reply)
      [] c.what = "token" -> VerifyDecisionToken(c.svc, c.reply)
      [] c.what = "session" -> IntrospectSession(c.reply)
      [] c.what = "members" -> ResolveClientMemberships(c.reply) /\ ResolveClientId(c.list, c.narrow) # {}
      [] c.what = "rate" -> CheckRateLimit(c.reply)
      [] c.what = "status" -> CheckClientStatus(c.reply)
      [] c.what = "roster" -> FetchActiveAuthorisedPartyRefs(c.reply)
      [] c.what = "screening" -> ScreenPreTransaction(c.reply)
      [] c.what = "gate" -> EvaluateOnboardingGate(c.reply)
      [] c.what = "outcome" -> PostToClt1(c.reply)

-----------------------------------------------------------------------------
(* What the callees answer.                                                *)

ExecuteVerify_Unbound(t, svc) == t \notin spent
ExecuteVerify(t, svc) == t \notin spent /\ bound[t] = svc

PermissionCheck == BaselinePass \cup {"deny"}
SessionValidate == {"client", "operator", "invalid"}
ClientMemberships == SUBSET Clients
PreTransactionScreen == {"allow", "allow lapsed", "review", "deny"}

Answers(c) ==
    CASE c.what = "permission" -> PermissionCheck
      [] c.what = "token" -> {IF ExecuteVerify(c.token, c.svc) THEN "authorised" ELSE "refused"}
      [] c.what = "session" -> SessionValidate
      [] c.what = "members" -> {"memberships"}
      [] c.what = "rate" -> {"allow", "rate_limited"}
      [] c.what = "status" -> {"active", "active_limited", "suspended", "not_found"}
      [] c.what = "roster" -> {"parties"}
      [] c.what = "screening" -> PreTransactionScreen
      [] c.what = "gate" -> {"allow", "deny"}
      [] c.what = "outcome" -> {"stored", "refused"}

-----------------------------------------------------------------------------
(* A call.                                                                 *)

At(w, point) == call[w].at = point

\* A user at the public door is asked about step by step, and so is a use.
First(svc) == {"permission", "token"} \cup
              (IF svc = "WLT-01" THEN {"session", "roster"} ELSE IF svc = "CLT-01" THEN {"gate"}
               ELSE IF svc = "AML-01" THEN {"outcome"} ELSE {})
Then(what) ==
    CASE what = "session" -> "members" [] what = "members" -> "rate" [] what = "rate" -> "status"
      [] what = "roster" -> "screening" [] OTHER -> None

Ask(w, svc, what, t, narrow) ==
    /\ At(w, "idle") /\ what \in First(svc)
    /\ (t # None) <=> (what = "token")
    /\ narrow # None => what = "session"
    /\ call' = [call EXCEPT ![w] = [NoCall EXCEPT !.at = "asking", !.svc = svc, !.what = what,
                                                  !.token = t, !.narrow = narrow]]
    /\ UNCHANGED <<bound, spent, abandoned, acted>>

Hearing(c, told, reply, list) ==
    [c EXCEPT !.at = "answered", !.told = [@ EXCEPT ![c.what] = told], !.reply = reply, !.list = list]

Replied(w, told, reply) ==
    \E list \in IF told = "memberships" THEN ClientMemberships ELSE {call[w].list} :
       call' = [call EXCEPT ![w] = Hearing(call[w], told, reply, list)]

Serve(w) ==
    /\ At(w, "asking")
    /\ \E a \in Answers(call[w]) :
          /\ \E reply \in {a, "lost", "garbled"} : Replied(w, a, reply)
          /\ spent' = IF a = "authorised" THEN spent \cup {call[w].token} ELSE spent
    /\ UNCHANGED <<bound, abandoned, acted>>

\* The callee refuses the connection, or fails before it has done anything.
Fails(w) ==
    /\ At(w, "asking") /\ Replied(w, None, "error")
    /\ UNCHANGED <<bound, spent, abandoned, acted>>

\* CLT-01, CFG-01 and SEC-01 wait for IAM-02 as long as it takes, CLT-01 for CFG-01 also.
Timed == {"WLT-01", "KYC-01", "AML-01"}
TimeOut(w) ==
    /\ At(w, "asking") /\ call[w].svc \in Timed
    /\ Replied(w, None, "lost")
    /\ abandoned' = IF call[w].what = "token" THEN abandoned \cup {<<call[w].token, call[w].svc>>} ELSE abandoned
    /\ UNCHANGED <<bound, spent, acted>>

Straggler(t, svc) ==
    /\ <<t, svc>> \in abandoned /\ abandoned' = abandoned \ {<<t, svc>>}
    /\ spent' = IF ExecuteVerify(t, svc) THEN spent \cup {t} ELSE spent
    /\ UNCHANGED <<call, bound, acted>>

Refused(w) ==
    /\ At(w, "answered") /\ ~Accepts(call[w])
    /\ call' = [call EXCEPT ![w] = NoCall]
    /\ UNCHANGED <<bound, spent, abandoned, acted>>

Proceed(w) ==
    LET c == call[w]
        next == Then(c.what)
    IN
    /\ At(w, "answered") /\ Accepts(c)
    /\ \E client \in IF c.what = "members" THEN ResolveClientId(c.list, c.narrow) ELSE {c.client} :
          call' = [call EXCEPT ![w] =
                      [c EXCEPT !.at = IF next = None THEN "through" ELSE "asking", !.reply = None,
                                !.what = IF next = None THEN c.what ELSE next, !.client = client]]
    /\ UNCHANGED <<bound, spent, abandoned, acted>>

\* The request does what it asked for.
Act(w) ==
    /\ At(w, "through")
    /\ acted' = IF call[w].what = "token" THEN [acted EXCEPT ![call[w].token] = @ + 1] ELSE acted
    /\ call' = [call EXCEPT ![w] = NoCall]
    /\ UNCHANGED <<bound, spent, abandoned>>

Dies(w) ==
    /\ ~At(w, "idle")
    /\ call' = [call EXCEPT ![w] = NoCall]
    /\ UNCHANGED <<bound, spent, abandoned, acted>>

Init ==
    /\ call = [w \in Workers |-> NoCall]
    /\ bound \in [Tokens -> Services]
    /\ spent = {} /\ abandoned = {}
    /\ acted = [t \in Tokens |-> 0]

Next ==
    \/ \E w \in Workers :
          \/ \E svc \in Services, what \in Questions, t \in Tokens \cup {None}, narrow \in Clients \cup {None} :
                Ask(w, svc, what, t, narrow)
          \/ Serve(w) \/ Fails(w) \/ TimeOut(w) \/ Refused(w) \/ Proceed(w) \/ Act(w) \/ Dies(w)
    \/ \E t \in Tokens, svc \in Services : Straggler(t, svc)

Spec == Init /\ [][Next]_vars

-----------------------------------------------------------------------------
TypeOK ==
    /\ \A w \in Workers :
          /\ call[w].at \in {"idle", "asking", "answered", "through"}
          /\ call[w].what \in Questions \cup {None} /\ call[w].svc \in Services \cup {None}
    /\ spent \subseteq Tokens /\ abandoned \subseteq Tokens \X Services

\* A token has its action applied once at most, by the service it was made out for, whatever
\* is lost, repeated or verified for a caller that has gone: never again after a lost answer.
ActedOnce ==
    /\ \A t \in Tokens :
          acted[t] + Cardinality({w \in Workers : At(w, "through") /\ call[w].token = t})
             <= (IF t \in spent THEN 1 ELSE 0)
    /\ \A w \in Workers : At(w, "through") /\ call[w].token # None => bound[call[w].token] = call[w].svc

\* What a request goes on with, every service it asked has said in this request: no silence, no
\* error and no answer to another question stands for a yes, anywhere along the way.
GoesOnAsTold ==
    \A w \in Workers : At(w, "through") =>
        LET c == call[w]
            told == c.told
        IN
        CASE c.what = "permission" ->
                told.permission \in (IF c.svc = "SEC-01" THEN {"allow"} ELSE BaselinePass)
          [] c.what = "token" -> told.token = "authorised"
          [] c.what = "status" ->
                /\ told.session = "client" /\ told.rate = "allow" /\ c.client \in c.list
                /\ c.narrow \in {None, c.client}
                /\ c.narrow = None => c.list = {c.client}
                /\ told.status \in {"active", "active_limited"}
          [] c.what = "screening" -> told.roster = "parties" /\ told.screening = "allow"
          [] OTHER -> told[c.what] \in {"allow", "stored"}
=============================================================================
