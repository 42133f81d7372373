----------------------------- MODULE CltRegister -----------------------------
(***************************************************************************)
(* CLT-01 after approval: the client profile's lifecycle and the registers *)
(* kept for the client - authorised users, the mandate, related-party      *)
(* edges and authorised parties.  A change is requested, approved in       *)
(* IAM-02 and applied; some are one conditional UPDATE.                    *)
(*                                                                         *)
(* Registers of different sorts share only the client profile, so each     *)
(* behaviour is about the rows of one sort.                                *)
(***************************************************************************)
EXTENDS Naturals, FiniteSets

CONSTANTS
    Rows,           \* row ids; all of them claim the one active place of a register:
                    \* the same IAM user, client or edge tuple
    Requests,       \* numbers of the decision requests, in the order they are made
    Workers,
    MaxVersion,     \* bound: version of a row
    None

Sorts == {"user", "mandate", "edge", "party"}

VARIABLES
    sort,           \* the register this behaviour is about
    client,         \* clt1.client_profile.status
    row,            \* the register's rows: status, screening, version
    request,        \* *_decision_request rows: kind, target, status
    work,           \* the point each worker has reached
    paid            \* history: decision tokens consumed for each request

vars == <<sort, client, row, request, work, paid>>

Absent == [status |-> "absent", screen |-> "pending", version |-> 0]
NoRequest == [kind |-> None, target |-> None, status |-> None]
Idle == [at |-> "idle", req |-> None]
Now(w) == work[w].at
Active == client = "active_limited"

Has(x, statuses) == row[x].status \in statuses

\* The partial unique indexes: one active membership per IAM user and client, one active
\* mandate per client, one active edge per tuple.  Parties have none.
PlaceFree(x) == sort = "party" \/ \A y \in Rows \ {x} : row[y].status # "active"

\* An activation needs an identity that passed and a sanctions status that is not a hit.
Cleared(x) == row[x].screen = "clear"

-----------------------------------------------------------------------------
(* The status each kind of request is for, and the one it leaves.  None of *)
(* the statuses a row comes from: the target does not exist yet.           *)

UserKinds == {"user_add", "user_remove"}
MandateKinds == {"mandate_create", "mandate_update"}
AddKinds == {"user_add", "mandate_create", "edge_add", "party_add"}
ChangeKinds == {"user_remove", "mandate_update", "edge_update", "edge_remove",
                "party_update", "party_remove", "party_activate"}
Lifecycles == {"suspend", "reactivate", "close"}

SortOf(kind) ==
    CASE kind \in UserKinds -> "user"
      [] kind \in MandateKinds -> "mandate"
      [] kind \in {"edge_add", "edge_update", "edge_remove"} -> "edge"
      [] OTHER -> "party"

UserFrom == {"active", "suspended"}                                     \* remove
PartyRemoveFrom == {"pending", "active", "restricted", "suspended", "rejected"}
PartyUpdateFrom == {"pending", "active"}

From(kind) ==
    CASE kind \in AddKinds -> {"absent"}
      [] kind = "user_remove" -> UserFrom
      [] kind = "party_remove" -> PartyRemoveFrom
      [] kind = "party_update" -> PartyUpdateFrom
      [] kind = "party_activate" -> {"pending"}
      [] OTHER -> {"active"}

To_Deleted(kind, status) == IF kind = "edge_remove" THEN "removed" ELSE status
To(kind, status) ==
    CASE kind = "party_add" -> "pending"
      [] kind \in (AddKinds \ {"party_add"}) \cup {"party_activate"} -> "active"
      [] kind \in {"user_remove", "party_remove"} -> "revoked"
      [] kind = "edge_remove" -> "inactive"
      [] OTHER -> status

\* ALLOWED_TRANSITIONS and TARGET_STATUS of a client profile.
MayMove(action) ==
    \/ client = "active_limited" /\ action \in {"suspend", "close"}
    \/ client = "suspended" /\ action \in {"reactivate", "close"}

Target(action) ==
    CASE action = "suspend" -> "suspended"
      [] action = "reactivate" -> "active_limited"
      [] action = "close" -> "closed"

\* What the request handler, and the apply handler before the token, read unlocked.
\* The edge handlers never look at the client.
Ready(kind, x) ==
    /\ SortOf(kind) = sort /\ (sort = "edge" \/ Active)
    /\ Has(x, From(kind))
    /\ kind = "party_activate" => Cleared(x)

Set(w, point, r) == work' = [work EXCEPT ![w] = [at |-> point, req |-> r]]
Rest(w) == work' = [work EXCEPT ![w] = Idle]
Fulfil(r) == request' = [request EXCEPT ![r].status = "applied"]
Locked(r) == \E w \in Workers : Now(w) = "inserting" /\ work[w].req = r

-----------------------------------------------------------------------------
Fresh(r) == \A q \in Requests : request[q] = NoRequest <=> q >= r

FileRow(r, kind, x) ==
    /\ Fresh(r) /\ Ready(kind, x)
    /\ request' = [request EXCEPT ![r] = [kind |-> kind, target |-> x, status |-> "requested"]]
    /\ UNCHANGED <<sort, client, row, work, paid>>

UserAddRequest(r, x) == FileRow(r, "user_add", x)
UserRemoveRequest(r, x) == FileRow(r, "user_remove", x)
MandateCreateRequest(r, x) == FileRow(r, "mandate_create", x)
MandateUpdateRequest(r, x) == FileRow(r, "mandate_update", x)
EdgeAddRequest(r, x) == FileRow(r, "edge_add", x)
EdgeUpdateRequest(r, x) == FileRow(r, "edge_update", x)
EdgeRemoveRequest(r, x) == FileRow(r, "edge_remove", x)
PartyAddRequest(r, x) == FileRow(r, "party_add", x)
PartyUpdateRequest(r, x) == FileRow(r, "party_update", x)
PartyRemoveRequest(r, x) == FileRow(r, "party_remove", x)
PartyActivateRequest(r, x) == FileRow(r, "party_activate", x)

LifecycleRequest(r, action) ==
    /\ Fresh(r) /\ MayMove(action)
    /\ request' = [request EXCEPT ![r] = [kind |-> action, target |-> None, status |-> "requested"]]
    /\ UNCHANGED <<sort, client, row, work, paid>>

\* An apply handler up to verifyDecisionToken.  A second approval of the same request
\* gives a second caller a token of its own.
Verify(w, r) ==
    LET q == request[r] IN
    /\ Now(w) = "idle" /\ q.status = "requested"
    /\ paid[r] < Cardinality(Workers)
    /\ IF q.kind \in Lifecycles THEN MayMove(q.kind) ELSE Ready(q.kind, q.target)
    /\ paid' = [paid EXCEPT ![r] = @ + 1]
    /\ Set(w, "verified", r)
    /\ UNCHANGED <<sort, client, row, request>>

StillRequested(r) == request[r].status = "requested"

\* What a transaction re-reads of its target under the row lock.
StillFrom_Unread(kind, x) == TRUE
StillFrom(kind, x) == Has(x, From(kind))
StillCleared_Unread(kind, x) == TRUE
StillCleared(kind, x) == kind = "party_activate" => Cleared(x)

\* Nothing is written: the request stays, its token is spent.
Overtaken(w) == Rest(w) /\ UNCHANGED <<sort, client, row, request, paid>>

Write(x, status) ==
    /\ row[x].version < MaxVersion
    /\ row' = [row EXCEPT ![x] = [status |-> status, screen |-> row[x].screen, version |-> row[x].version + 1]]

\* user add/apply and mandate create/apply: the transaction reads the client's status
\* without locking it, then inserts.
InsertRead(w) ==
    LET r == work[w].req IN
    /\ Now(w) = "verified" /\ request[r].kind \in {"user_add", "mandate_create"}
    /\ ~Locked(r)
    /\ IF StillRequested(r) /\ Active
       THEN Set(w, "inserting", r) /\ UNCHANGED <<sort, client, row, request, paid>>
       ELSE Overtaken(w)

InsertWrite(w) ==
    LET r == work[w].req
        x == request[r].target
    IN
    /\ Now(w) = "inserting"
    /\ IF Has(x, {"absent"}) /\ PlaceFree(x)
       THEN Write(x, "active") /\ Fulfil(r) /\ Rest(w) /\ UNCHANGED <<sort, client, paid>>
       ELSE Overtaken(w)

\* The other apply transactions: request and target are read and written under their locks.
ApplyRow(w, kinds) ==
    LET r == work[w].req
        kind == request[r].kind
        x == request[r].target
    IN
    /\ Now(w) = "verified" /\ kind \in kinds
    /\ IF /\ StillRequested(r) /\ StillFrom(kind, x) /\ StillCleared(kind, x)
          /\ kind = "edge_add" => PlaceFree(x)
       THEN Write(x, To(kind, row[x].status)) /\ Fulfil(r) /\ Rest(w) /\ UNCHANGED <<sort, client, paid>>
       ELSE Overtaken(w)

UserRemoveApply(w) == ApplyRow(w, {"user_remove"})
MandateUpdateApply(w) == ApplyRow(w, {"mandate_update"})
EdgeAddApply(w) == ApplyRow(w, {"edge_add"})
EdgeUpdateApply(w) == ApplyRow(w, {"edge_update"})
EdgeRemoveApply(w) == ApplyRow(w, {"edge_remove"})
PartyAddApply(w) == ApplyRow(w, {"party_add"})
PartyUpdateApply(w) == ApplyRow(w, {"party_update"})
PartyRemoveApply(w) == ApplyRow(w, {"party_remove"})
PartyActivateApply(w) == ApplyRow(w, {"party_activate"})

StillMovable_Unread(action) == TRUE
StillMovable(action) == MayMove(action)

LifecycleApply(w) ==
    LET r == work[w].req IN
    /\ Now(w) = "verified" /\ request[r].kind \in Lifecycles
    /\ IF StillRequested(r) /\ StillMovable(request[r].kind)
       THEN /\ client' = Target(request[r].kind)
            /\ Fulfil(r) /\ Rest(w) /\ UNCHANGED <<sort, row, paid>>
       ELSE Overtaken(w)

-----------------------------------------------------------------------------
(* Changes without an approval: the client's status is read, not locked,   *)
(* and later one row is updated under a condition of its own.              *)

fetchActiveClient(w) ==
    /\ Now(w) = "idle" /\ sort \in {"user", "party"} /\ Active
    /\ Set(w, "stepping", None)
    /\ UNCHANGED <<sort, client, row, request, paid>>

Step(w, s, x, from, to) ==
    /\ Now(w) = "stepping" /\ sort = s /\ Has(x, from)
    /\ Write(x, to) /\ Rest(w)
    /\ UNCHANGED <<sort, client, request, paid>>

UserSuspend(w, x) == Step(w, "user", x, {"active"}, "suspended")
ReactivationFree_Unindexed(x) == TRUE
ReactivationFree(x) == PlaceFree(x)
UserReactivate(w, x) == ReactivationFree(x) /\ Step(w, "user", x, {"suspended"}, "active")
PartyStep(w, x) ==
    \/ Step(w, "party", x, {"pending"}, "restricted")
    \/ Step(w, "party", x, {"pending"}, "rejected")
    \/ Step(w, "party", x, {"active"}, "suspended")

\* recordPartyScreeningOutcome: any party that exists, whatever its status.
ScreenParty(w, x, s) ==
    /\ Now(w) = "stepping" /\ sort = "party" /\ ~Has(x, {"absent"}) /\ row[x].version < MaxVersion
    /\ row' = [row EXCEPT ![x] = [status |-> row[x].status, screen |-> s, version |-> row[x].version + 1]]
    /\ Rest(w) /\ UNCHANGED <<sort, client, request, paid>>

\* No row is left to update, or a statement fails.
StepFails(w) == Now(w) = "stepping" /\ Overtaken(w)

-----------------------------------------------------------------------------
Init ==
    /\ sort \in Sorts
    /\ client = "active_limited"
    /\ row = [x \in Rows |-> Absent]
    /\ request = [r \in Requests |-> NoRequest]
    /\ work = [w \in Workers |-> Idle]
    /\ paid = [r \in Requests |-> 0]

Ask(r) ==
    \/ \E x \in Rows :
          \/ UserAddRequest(r, x) \/ UserRemoveRequest(r, x)
          \/ MandateCreateRequest(r, x) \/ MandateUpdateRequest(r, x)
          \/ EdgeAddRequest(r, x) \/ EdgeUpdateRequest(r, x) \/ EdgeRemoveRequest(r, x)
          \/ PartyAddRequest(r, x) \/ PartyUpdateRequest(r, x) \/ PartyRemoveRequest(r, x)
          \/ PartyActivateRequest(r, x)
    \/ \E action \in Lifecycles : LifecycleRequest(r, action)

Apply(w) ==
    \/ \E r \in Requests : Verify(w, r)
    \/ InsertRead(w) \/ InsertWrite(w) \/ UserRemoveApply(w) \/ MandateUpdateApply(w)
    \/ EdgeAddApply(w) \/ EdgeUpdateApply(w) \/ EdgeRemoveApply(w)
    \/ PartyAddApply(w) \/ PartyUpdateApply(w) \/ PartyRemoveApply(w) \/ PartyActivateApply(w) \/ LifecycleApply(w)

Next ==
    \/ \E r \in Requests : Ask(r)
    \/ \E w \in Workers : Apply(w)
    \/ \E w \in Workers :
          \/ fetchActiveClient(w) \/ StepFails(w)
          \/ \E x \in Rows : UserSuspend(w, x) \/ UserReactivate(w, x) \/ PartyStep(w, x)
          \/ \E x \in Rows, s \in {"clear", "hit"} : ScreenParty(w, x, s)

Spec == Init /\ [][Next]_vars

-----------------------------------------------------------------------------
AuthorisedUserStatuses == {"active", "suspended", "revoked"}
MandateStatuses == {"active", "inactive"}
EdgeStatuses == {"active", "inactive"}
PartyStatuses == {"pending", "active", "restricted", "suspended", "rejected", "revoked"}
RowStatuses ==
    CASE sort = "user" -> AuthorisedUserStatuses
      [] sort = "mandate" -> MandateStatuses
      [] sort = "edge" -> EdgeStatuses
      [] sort = "party" -> PartyStatuses

ClientStatuses == {"active_limited", "suspended", "closed"}

TypeOK ==
    /\ sort \in Sorts /\ client \in ClientStatuses
    /\ row \in [Rows -> [status : RowStatuses \cup {"absent"}, screen : {"pending", "clear", "hit"}, version : 0..MaxVersion]]
    /\ request \in [Requests -> [kind : AddKinds \cup ChangeKinds \cup Lifecycles \cup {None},
                                 target : Rows \cup {None}, status : {None, "requested", "applied"}]]
    /\ work \in [Workers -> [at : {"idle", "verified", "inserting", "stepping"}, req : Requests \cup {None}]]
    /\ paid \in [Requests -> 0..Cardinality(Workers)]

\* GET /principals/:iam_user_id/client-memberships: active users of an active client.
Memberships == {x \in Rows : sort = "user" /\ Active /\ row[x].status = "active"}

\* However adds, suspensions, removals and reactivations of the same person interleave, the
\* memberships resolved for an IAM user name a client once; a client has one active mandate
\* and an edge tuple one active row.
OnePlaceEach ==
    /\ Cardinality(Memberships) <= 1
    /\ sort # "party" => Cardinality({x \in Rows : row[x].status = "active"}) <= 1

\* A revoked user or party and an inactive edge are never written to again by a change
\* that was requested, or approved, before they ended (screening results excepted).
EndedForGood ==
    [][\A x \in Rows : row[x].status \in {"revoked", "inactive"} =>
          row'[x].status = row[x].status /\ (row'[x] = row[x] \/ sort = "party")]_vars

\* A party is activated only while its screening is clear: a hit recorded after the
\* activation was approved stops it.
ActivatedWhileCleared ==
    [][\A x \in Rows : sort = "party" /\ row[x].status # "active" /\ row'[x].status = "active" => Cleared(x)]_vars

\* A closed client stays closed, whatever was approved before it closed.
ClosedForGood == [][client = "closed" => client' = "closed"]_vars

\* No authorised user or mandate is added to a client that is not active.
NoneAddedToInactive ==
    [][\A x \in Rows : sort \in {"user", "mandate"} /\ Has(x, {"absent"}) /\ row'[x].status = "active" => Active]_vars
=============================================================================
