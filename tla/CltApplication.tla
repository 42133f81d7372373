--------------------------- MODULE CltApplication ---------------------------
(***************************************************************************)
(* CLT-01: one client application from draft to its final decision, with   *)
(* the parties captured before approval (whose list is the KYC roster),    *)
(* the CDD outcomes KYC-01 and AML-01 send, the duplicate candidates that  *)
(* touch the application, and the decision requests that wait for an       *)
(* IAM-02 token.                                                           *)
(*                                                                         *)
(* A handler that reads, calls another service and then writes is several  *)
(* steps of a worker.  A decision request may be approved more than once   *)
(* in IAM-02, so two callers may each hold a valid token for it.  CFG-01   *)
(* may answer each gate evaluation either way: a refusal ends the handler. *)
(***************************************************************************)
EXTENDS Naturals, FiniteSets

CONSTANTS
    Classes,        \* client classes, each a CFG-01 feature of its own
    Outcomes,       \* CDD outcome types, "kyc_kyb" among them
    Parties,        \* ids of authorised parties
    Candidates,     \* ids of duplicate candidates that touch the application
    Requests,       \* numbers of the decision requests, in the order they are made
    Kinds,          \* bound: the kinds of request that are made
    Workers,
    MaxVersion,     \* bound: version of an authorised party
    Tokens,         \* bound: decision tokens minted for one request
    None

ASSUME RequestsAssumption == Requests \subseteq Nat
ASSUME BoundAssumption == MaxVersion \in Nat /\ Tokens \in Nat
ASSUME NoneAssumption == None \notin {"draft", "submitted", "under_review", "approved", "rejected", "held",
                                      "cancelled", "requested", "applied"}

VARIABLES
    app,            \* clt1.client_application: status, class, gate on file, consent
    profile,        \* clt1.client_profile: its class and the class its CFG-01 gate allowed
    party,          \* clt1.authorised_party: status and version
    cdd,            \* the rollup columns
    bound,          \* kyc_roster_hash: the roster the KYC outcome was accepted for
    handoff,        \* target modules with a clt1.handoff_status row
    published,      \* the roster KYC-01 fetched and will name in its outcome
    candidate,      \* clt1.duplicate_candidate: status
    request,        \* the *_decision_request rows: kind, target, status
    spent,          \* decision tokens of each request already consumed
    work,           \* the point each worker has reached, with what it read
    applied,        \* history: how often each request took effect
    decidedOn,      \* history: the roster the accepted KYC outcome was decided on
    late            \* history: candidates opened while an approval was committing, or after

intake == <<app, profile>>
review == <<cdd, bound, decidedOn, handoff>>
dupes == <<candidate, late>>
decisions == <<request, spent, applied>>
vars == <<intake, review, party, dupes, decisions, published, work>>

Idle == [at |-> "idle", arg |-> None, seen |-> None]
NoApplication == [status |-> None, class |-> None, gate |-> None, consent |-> FALSE]
NoRequest == [kind |-> None, target |-> None, status |-> None]
Decided == {"approved", "rejected", "held", "cancelled"}

Is(statuses) == app.status \in statuses
Now(w) == work[w].at
Go(w, point, arg, seen) == work' = [work EXCEPT ![w] = [at |-> point, arg |-> arg, seen |-> seen]]
Rest(w) == work' = [work EXCEPT ![w] = Idle]

\* The roster lock, and the application's row lock of an approval that is committing.
Approving == \E w \in Workers : Now(w) = "approving"
RosterFree == ~\E w \in Workers : Now(w) \in {"approving", "receiving"}

\* The canonical roster: the application's status and every party with its status and version.
Roster == [status |-> app.status, party |-> party]

-----------------------------------------------------------------------------
(* Intake *)

Create(c) ==
    /\ app.status = None
    /\ app' = [app EXCEPT !.status = "draft", !.class = c, !.gate = c]
    /\ UNCHANGED <<profile, review, party, dupes, decisions, work, published>>

\* PATCH: the gate is evaluated only when the class changes from the one read.
PatchRead(w, c) ==
    /\ Now(w) = "idle" /\ Is({"draft"})
    /\ Go(w, "patching", c, app.class)
    /\ UNCHANGED <<intake, review, party, dupes, decisions, published>>

PatchApplies_AnyStatus == TRUE
PatchApplies == Is({"draft"})

PatchWrite(w) ==
    LET c == work[w].arg IN
    /\ Now(w) = "patching"
    /\ app' = IF ~PatchApplies THEN app
              ELSE IF c = work[w].seen THEN [app EXCEPT !.class = c]
              ELSE [app EXCEPT !.class = c, !.gate = c]
    /\ Rest(w)
    /\ UNCHANGED <<profile, review, party, dupes, decisions, published>>

Consent ==
    /\ Is({"draft", "submitted"}) /\ ~app.consent
    /\ app' = [app EXCEPT !.consent = TRUE]
    /\ UNCHANGED <<profile, review, party, dupes, decisions, work, published>>

\* POST .../submit: the gate is evaluated for the class read before the transaction.
SubmitRead(w) ==
    /\ Now(w) = "idle" /\ Is({"draft"})
    /\ app.gate # None /\ app.consent
    /\ Go(w, "submitting", app.class, None)
    /\ UNCHANGED <<intake, review, party, dupes, decisions, published>>

SubmitWrite(w) ==
    /\ Now(w) = "submitting"
    /\ app' = IF Is({"draft"}) THEN [app EXCEPT !.status = "submitted", !.gate = work[w].arg] ELSE app
    /\ Rest(w)
    /\ UNCHANGED <<profile, review, party, dupes, decisions, published>>

\* A transition that is one conditional UPDATE; it waits for the row lock of an approval.
Move(from, to) ==
    /\ Is(from) /\ ~Approving
    /\ app' = [app EXCEPT !.status = to]
    /\ UNCHANGED <<profile, review, party, dupes, decisions, work, published>>

Cancel == Move({"draft", "submitted"}, "cancelled")
Reject == Move({"under_review"}, "rejected")
Hold == Move({"under_review"}, "held")

StartReview == Move({"submitted"}, "under_review")

-----------------------------------------------------------------------------
(* CDD outcomes and handoffs *)

\* KYC-01 reads the roster it will decide on.
GetRoster ==
    /\ Is({"draft", "submitted", "under_review"}) /\ published' = Roster
    /\ UNCHANGED <<intake, review, party, dupes, decisions, work>>

CreateHandoff(m) ==
    /\ Is({"under_review"})
    /\ handoff' = handoff \cup {m}
    /\ UNCHANGED <<intake, cdd, bound, decidedOn, party, dupes, decisions, work, published>>

RosterMatches(o, roster) == o = "kyc_kyb" => roster = Roster

\* POST .../outcomes, up to the INSERT: the roster lock is held, the application row is not.
ReceiveCheck(w, o, s) ==
    /\ Now(w) = "idle" /\ Is({"under_review"}) /\ RosterFree
    /\ o = "kyc_kyb" => published # None
    /\ RosterMatches(o, published)
    /\ Go(w, "receiving", o, [status |-> s, roster |-> published])
    /\ UNCHANGED <<intake, review, party, dupes, decisions, published>>

RollupApplies_AnyStatus == TRUE
RollupApplies == Is({"under_review"})

\* The conditional UPDATE of the rollup column; when it misses, the outcome is rolled back.
ReceiveWrite(w) ==
    LET o == work[w].arg
        in == work[w].seen
    IN
    /\ Now(w) = "receiving"
    /\ IF RollupApplies
       THEN /\ cdd' = [cdd EXCEPT ![o] = in.status]
            /\ bound' = IF o = "kyc_kyb" THEN Roster ELSE bound
            /\ decidedOn' = IF o = "kyc_kyb" THEN in.roster ELSE decidedOn
       ELSE UNCHANGED <<cdd, bound, decidedOn>>
    /\ Rest(w)
    /\ UNCHANGED <<intake, handoff, party, dupes, decisions, published>>

-----------------------------------------------------------------------------
(* Decision requests.  Ready says what both the request and the apply      *)
(* handler read before they call IAM-02; Still, what the apply transaction *)
(* reads again under its row locks.                                        *)

PartyOpen == Is({"draft", "submitted", "under_review"})
Blocking(d) == candidate[d] \in {"open", "duplicate"}
CddPassed == \A o \in Outcomes : cdd[o] = "pass"

ReadyToAdd(p) == PartyOpen /\ party[p].status = "absent"
ReadyToUpdate(p) == PartyOpen /\ party[p].status = "pending"
ReadyToRemove(p) == PartyOpen /\ party[p].status = "pending"
ReadyToOpen(d) == candidate[d] = "absent"
ReadyToResolve(d) == candidate[d] = "open"
ReadyToApprove ==
    /\ Is({"under_review"})
    /\ \A d \in Candidates : ~Blocking(d)

Ready(kind, x) ==
    \/ kind = "add" /\ x \in Parties /\ ReadyToAdd(x)
    \/ kind = "update" /\ x \in Parties /\ ReadyToUpdate(x)
    \/ kind = "remove" /\ x \in Parties /\ ReadyToRemove(x)
    \/ kind = "open" /\ x \in Candidates /\ ReadyToOpen(x)
    \/ kind \in {"confirm", "dismiss"} /\ x \in Candidates /\ ReadyToResolve(x)
    \/ kind = "approve" /\ x = None /\ ReadyToApprove

Fresh(r) == \A q \in Requests : request[q] = NoRequest <=> q >= r

File(r, kind, x) ==
    /\ Fresh(r) /\ kind \in Kinds /\ Ready(kind, x)
    /\ request' = [request EXCEPT ![r] = [kind |-> kind, target |-> x, status |-> "requested"]]
    /\ UNCHANGED <<intake, review, party, dupes, spent, applied, work, published>>

RequestPartyAdd(r, p) == File(r, "add", p)
RequestPartyUpdate(r, p) == File(r, "update", p)
RequestPartyRemoval(r, p) == File(r, "remove", p)
RequestCandidate(r, d) == File(r, "open", d)
RequestResolution(r, d) == File(r, "confirm", d) \/ File(r, "dismiss", d)

\* By somebody other than the reviewer assigned to the application.
RequestApproval(r) == File(r, "approve", None)

\* verifyDecisionToken: IAM-02 consumes the token whatever happens next.
Consume(r) == spent[r] < Tokens /\ spent' = [spent EXCEPT ![r] = @ + 1]

\* The apply handler up to verifyDecisionToken: the token is consumed before the transaction.
\* An approval also needs both handoffs and the CDD gate, and CFG-01's answer after the token.
Verify(w, r) ==
    LET q == request[r] IN
    /\ Now(w) = "idle" /\ q.status = "requested"
    /\ Ready(q.kind, q.target)
    /\ q.kind = "approve" => handoff = {"KYC", "AML"} /\ CddPassed
    /\ Consume(r)
    /\ \/ Go(w, "verified", r, IF q.kind = "approve" THEN app.class ELSE None)
       \/ q.kind = "approve" /\ UNCHANGED work
    /\ UNCHANGED <<intake, review, party, dupes, request, applied, published>>

StillRequested_Unread(r) == TRUE
StillRequested(r) == request[r].status = "requested"

Fulfil(r) ==
    /\ request' = [request EXCEPT ![r].status = "applied"]
    /\ applied' = [applied EXCEPT ![r] = @ + 1]

\* The transaction found the request, the application or the target changed: nothing is written.
Overtaken(w) ==
    Rest(w) /\ UNCHANGED <<intake, review, party, dupes, decisions, published>>

\* applyPartyAdd, applyPartyUpdate, applyPartyRemoval: under the roster lock.
PartyRow_Suspends(kind, row) ==
    CASE kind = "add" -> [status |-> "pending", version |-> 1]
      [] kind = "update" -> [row EXCEPT !.version = @ + 1]
      [] kind = "remove" -> [row EXCEPT !.version = @ + 1, !.status = "suspended"]
PartyRow(kind, row) ==
    CASE kind = "add" -> [status |-> "pending", version |-> 1]
      [] kind = "update" -> [row EXCEPT !.version = @ + 1]
      [] kind = "remove" -> [row EXCEPT !.version = @ + 1, !.status = "revoked"]

ApplyParty(w, kind) ==
    LET r == work[w].arg
        q == request[r]
    IN
    /\ Now(w) = "verified" /\ q.kind = kind /\ RosterFree
    /\ IF StillRequested(r) /\ Ready(q.kind, q.target)
       THEN /\ party[q.target].version < MaxVersion
            /\ party' = [party EXCEPT ![q.target] = PartyRow(q.kind, party[q.target])]
            /\ Fulfil(r) /\ Rest(w)
            /\ UNCHANGED <<intake, review, dupes, spent, published>>
       ELSE Overtaken(w)

ApplyPartyAdd(w) == ApplyParty(w, "add")
ApplyPartyUpdate(w) == ApplyParty(w, "update")
ApplyPartyRemoval(w) == ApplyParty(w, "remove")

\* recordPartyScreeningOutcome, under review only.
ScreenParty(p) ==
    /\ Is({"under_review"}) /\ RosterFree
    /\ party[p].status # "absent" /\ party[p].version < MaxVersion
    /\ party' = [party EXCEPT ![p].version = @ + 1]
    /\ UNCHANGED <<intake, review, dupes, decisions, work, published>>

\* create/apply of a candidate: no lock on the application it touches.
ApplyCandidate(w) ==
    LET r == work[w].arg
        d == request[r].target
    IN
    /\ Now(w) = "verified" /\ request[r].kind = "open"
    /\ IF StillRequested(r) /\ ReadyToOpen(d)
       THEN /\ candidate' = [candidate EXCEPT ![d] = "open"]
            /\ late' = IF Approving \/ Is({"approved"}) THEN late \cup {d} ELSE late
            /\ Fulfil(r) /\ Rest(w)
            /\ UNCHANGED <<intake, review, party, spent, published>>
       ELSE Overtaken(w)

\* confirm/apply and dismiss/apply.
ApplyResolution(w) ==
    LET r == work[w].arg
        d == request[r].target
    IN
    /\ Now(w) = "verified" /\ request[r].kind \in {"confirm", "dismiss"}
    /\ IF StillRequested(r) /\ ReadyToResolve(d)
       THEN /\ candidate' = [candidate EXCEPT ![d] =
                    IF request[r].kind = "confirm" THEN "duplicate" ELSE "not_duplicate"]
            /\ Fulfil(r) /\ Rest(w)
            /\ UNCHANGED <<intake, review, party, late, spent, published>>
       ELSE Overtaken(w)

NoneBlocking_PreReadOnly == TRUE
NoneBlocking == \A d \in Candidates : ~Blocking(d)
RosterCurrent_Unread == TRUE
RosterCurrent == bound # None /\ bound = Roster

\* approve/apply, the reads of the transaction: the roster lock, the request and the application.
ApproveCheck(w) ==
    LET r == work[w].arg IN
    /\ Now(w) = "verified" /\ request[r].kind = "approve" /\ RosterFree
    /\ IF /\ StillRequested(r) /\ Is({"under_review"})
          /\ handoff = {"KYC", "AML"} /\ CddPassed /\ NoneBlocking /\ RosterCurrent
       THEN Go(w, "approving", r, work[w].seen) /\ UNCHANGED <<intake, review, party, dupes, decisions, published>>
       ELSE Overtaken(w)

\* INSERT client_profile (once per application), the application and the request, one commit.
ApproveCommit(w) ==
    LET r == work[w].arg IN
    /\ Now(w) = "approving"
    /\ profile' = [class |-> app.class, gated |-> work[w].seen]
    /\ app' = [app EXCEPT !.status = "approved"]
    /\ Fulfil(r) /\ Rest(w)
    /\ UNCHANGED <<review, party, dupes, spent, published>>

-----------------------------------------------------------------------------
Init ==
    /\ app = NoApplication
    /\ profile = None
    /\ party = [p \in Parties |-> [status |-> "absent", version |-> 0]]
    /\ cdd = [o \in Outcomes |-> "pending"]
    /\ bound = None /\ decidedOn = None /\ handoff = {} /\ published = None
    /\ candidate = [d \in Candidates |-> "absent"] /\ late = {}
    /\ request = [r \in Requests |-> NoRequest]
    /\ spent = [r \in Requests |-> 0] /\ applied = [r \in Requests |-> 0]
    /\ work = [w \in Workers |-> Idle]

Intake ==
    \/ \E c \in Classes : Create(c)
    \/ \E w \in Workers, c \in Classes : PatchRead(w, c)
    \/ \E w \in Workers : PatchWrite(w) \/ SubmitRead(w) \/ SubmitWrite(w)
    \/ Consent \/ StartReview \/ Cancel \/ Reject \/ Hold

Review ==
    \/ GetRoster
    \/ \E m \in {"KYC", "AML"} : CreateHandoff(m)
    \/ \E w \in Workers, o \in Outcomes, s \in {"pass", "fail"} : ReceiveCheck(w, o, s)
    \/ \E w \in Workers : ReceiveWrite(w)
    \/ \E p \in Parties : ScreenParty(p)

Decide ==
    \/ \E r \in Requests, p \in Parties :
          RequestPartyAdd(r, p) \/ RequestPartyUpdate(r, p) \/ RequestPartyRemoval(r, p)
    \/ \E r \in Requests, d \in Candidates : RequestCandidate(r, d) \/ RequestResolution(r, d)
    \/ \E r \in Requests : RequestApproval(r)
    \/ \E w \in Workers, r \in Requests : Verify(w, r)
    \/ \E w \in Workers :
          \/ ApplyPartyAdd(w) \/ ApplyPartyUpdate(w) \/ ApplyPartyRemoval(w)
          \/ ApplyCandidate(w) \/ ApplyResolution(w) \/ ApproveCheck(w) \/ ApproveCommit(w)

Next == Intake \/ Review \/ Decide

Spec == Init /\ [][Next]_vars

-----------------------------------------------------------------------------
PartyRows == [status : {"absent", "pending", "revoked"}, version : 0..MaxVersion]
Profiles == [class : Classes, gated : Classes]
CddStatuses == {"pending", "pass", "fail"}
HandoffTargets == {"KYC", "AML"}
CandidateStatuses == {"absent", "open", "duplicate", "not_duplicate"}
CddColumns == [Outcomes -> CddStatuses]
DecisionStatuses == {"requested", "applied"}        \* nothing writes "cancelled" or "failed"
Rosters == [status : {"draft", "submitted", "under_review"},
            party : [Parties -> PartyRows]]

TypeOK ==
    /\ app.status \in {None, "draft", "submitted", "under_review"} \cup Decided
    /\ app.class \in Classes \cup {None} /\ app.gate \in Classes \cup {None}
    /\ app.consent \in BOOLEAN
    /\ profile = None \/ profile \in Profiles
    /\ [status |-> "draft", party |-> party] \in Rosters
    /\ cdd \in CddColumns
    /\ {bound, published, decidedOn} \subseteq Rosters \cup {None}
    /\ handoff \subseteq HandoffTargets
    /\ candidate \in [Candidates -> CandidateStatuses]
    /\ \A r \in Requests : request[r].status \in DecisionStatuses \cup {None}
    /\ spent \in [Requests -> 0..Tokens] /\ late \subseteq Candidates
    /\ \A w \in Workers : Now(w) \in {"idle", "patching", "submitting", "receiving", "verified", "approving"}

\* An approved application's KYC outcome was decided on the very parties, in the very
\* versions, that the application has: no party changed unseen by KYC-01.
ApprovedOnItsRoster == Is({"approved"}) => decidedOn # None /\ decidedOn.party = party

\* The profile's class is one that CFG-01 allowed in the approval that opened it.
ProfileClassGated == profile # None => profile.class = profile.gated

\* However many tokens were minted for a request and however its callers overlap, it takes
\* effect once, and only with a token of its own.
TakesEffectOnce == \A r \in Requests : applied[r] <= 1 /\ applied[r] <= spent[r]

\* An application is approved over a blocking duplicate candidate only when the candidate
\* was opened while the approval was committing, or afterwards.
ApprovedOverLateDuplicateOnly ==
    Is({"approved"}) => \A d \in Candidates : Blocking(d) => d \in late

\* An application is approved on the roster KYC-01 decided on, over no duplicate candidate but a
\* late one, with the class CFG-01 allowed, and every approved request takes effect once.
ApprovedSoundly ==
    TypeOK /\ ApprovedOnItsRoster /\ ProfileClassGated /\ TakesEffectOnce /\ ApprovedOverLateDuplicateOnly

\* A decided application is closed to outcomes: neither a CDD result nor the roster it was
\* accepted for changes any more, whatever was in flight when it was decided.
DecidedIsFrozen == [][Is(Decided) => UNCHANGED <<app, cdd, bound>>]_vars
=============================================================================
