---------------------------- MODULE CfgKillSwitch ----------------------------
(***************************************************************************)
(* CFG-01: the kill switch of one feature.  Anyone with the permission     *)
(* activates it at once; lifting it takes a request by someone else and an *)
(* IAM-02 approval of that request.  The switch keeps its row over its     *)
(* activations, and a request is bound to the row.                         *)
(***************************************************************************)
EXTENDS Naturals, FiniteSets, Sequences

CONSTANTS
    Actors, Requests, Workers,
    MaxEvents,      \* bound: activations and deactivations
    None

VARIABLES
    switch,     \* cfg1.kill_switch of the feature
    request,    \* cfg1.kill_switch_deactivation_request
    event,      \* cfg1.kill_switch_event: activations and deactivations, with their actors
    work

vars == <<switch, request, event, work>>

NoSwitch == [status |-> None, by |-> None, version |-> 0]
NoRequest == [status |-> None, by |-> None, version |-> 0]
Idle == [at |-> "idle", actor |-> None, version |-> 0, request |-> None]

Now(w) == work[w].at
Rest(w) == work' = [work EXCEPT ![w] = Idle]
Happened(kind, a) == event' = Append(event, [kind |-> kind, by |-> a])

-----------------------------------------------------------------------------
\* Under an advisory lock on the feature: the row is made or activated again.
Activate(a) ==
    /\ switch.status # "active" /\ Len(event) < MaxEvents
    /\ switch' = [status |-> "active", by |-> a, version |-> switch.version + 1]
    /\ Happened("activated", a)
    /\ UNCHANGED <<request, work>>

\* The switch is read without a lock, and the request inserted after.
MayRequest_Always(a) == switch.by # a
MayRequest_Anyone(a) == switch.status = "active"
MayRequest(a) == switch.status = "active" /\ switch.by # a

ReadSwitch(w, a) ==
    /\ Now(w) = "idle" /\ MayRequest(a)
    /\ work' = [work EXCEPT ![w] = [at |-> "requesting", actor |-> a, version |-> switch.version, request |-> None]]
    /\ UNCHANGED <<switch, request, event>>

Request(w, r) ==
    /\ Now(w) = "requesting" /\ request[r] = NoRequest /\ Rest(w)
    /\ request' = [request EXCEPT ![r] = [status |-> "requested", by |-> work[w].actor, version |-> work[w].version]]
    /\ UNCHANGED <<switch, event>>

\* The request is read, and IAM-02 verifies and spends the token of its approval.
Verify(w, r) ==
    /\ Now(w) = "idle" /\ request[r].status = "requested"
    /\ work' = [work EXCEPT ![w] = [at |-> "verified", actor |-> None, version |-> 0, request |-> r]]
    /\ UNCHANGED <<switch, request, event>>

\* Both rows are locked and looked at again.
StillActive_Trusted == TRUE
StillActive == switch.status = "active"
StillRequested_Trusted(r) == TRUE
StillRequested(r) == request[r].status = "requested"

Deactivate(w) ==
    LET r == work[w].request IN
    /\ Now(w) = "verified" /\ Rest(w)
    /\ IF StillRequested(r) /\ StillActive /\ Len(event) < MaxEvents
       THEN /\ switch' = [switch EXCEPT !.status = "inactive", !.version = @ + 1]
            /\ request' = [request EXCEPT ![r].status = "applied"]
            /\ Happened("deactivated", request[r].by)
       ELSE UNCHANGED <<switch, request, event>>

Fails(w) ==
    /\ Now(w) # "idle" /\ Rest(w)
    /\ UNCHANGED <<switch, request, event>>

-----------------------------------------------------------------------------
Init ==
    /\ switch = NoSwitch /\ event = <<>>
    /\ request = [r \in Requests |-> NoRequest]
    /\ work = [w \in Workers |-> Idle]

Next ==
    \/ \E a \in Actors : Activate(a) \/ \E w \in Workers : ReadSwitch(w, a)
    \/ \E w \in Workers :
          \/ \E r \in Requests : Request(w, r) \/ Verify(w, r)
          \/ Deactivate(w) \/ Fails(w)

Spec == Init /\ [][Next]_vars

-----------------------------------------------------------------------------
Lifts(n) == n > 1 /\ event[n].kind = "deactivated"

TypeOK ==
    /\ switch.version = Len(event)
    /\ switch.status = "active" <=> (event # <<>> /\ event[Len(event)].kind = "activated")
    /\ \A r \in Requests : request[r].status \in {None, "requested", "applied"} /\ request[r].version <= Len(event)
    /\ \A r \in Requests : request[r] # NoRequest => request[r].version > 0

\* Deactivations that overlap lift an activation once: the history alternates.
LiftedOnce == \A n \in 2..Len(event) : event[n].kind # event[n - 1].kind

\* However often it is approved, a request lifts one activation.
RequestLiftsOne ==
    Cardinality({n \in 1..Len(event) : Lifts(n)}) = Cardinality({r \in Requests : request[r].status = "applied"})

\* The switch was activated by the one who asked for its lifting only after they asked.
SelfOnlyOlder ==
    \A r \in Requests :
        switch.status = "active" /\ request[r].status = "requested" /\ request[r].by = switch.by => request[r].version < switch.version

\* (kill-switch.ts) Who proposes a deactivation is not who activated the switch.
NoSelfDeactivation == \A n \in 1..Len(event) : Lifts(n) => event[n].by # event[n - 1].by
=============================================================================
