----------------------------- MODULE IamSession -----------------------------
(***************************************************************************)
(* IAM-01 sessions of one user: login under the concurrent-session cap,    *)
(* refresh-token rotation with reuse detection, revocation one by one and  *)
(* in bulk, the freeze event and password reset.                           *)
(*                                                                         *)
(* Every handler is a READ COMMITTED transaction that locks nothing it     *)
(* reads: each SELECT a later write relies on is a step of its own, and    *)
(* the writes of a transaction appear together when it commits.  A smaller *)
(* session number was issued earlier.  A token family is a session's.      *)
(***************************************************************************)
EXTENDS Naturals, FiniteSets, FiniteSetsExt

CONSTANTS
    MaxSessions,    \* bound: sessions ever issued
    MaxTokens,      \* bound: refresh tokens ever issued
    MaxConcurrent,  \* session_policy.max_concurrent_sessions
    Resets,         \* password reset tokens
    Expiring,       \* bound: the refresh and reset tokens whose expiry is reached
    Workers,        \* the transactions that may be open at once
    None

ASSUME BoundAssumption == MaxSessions \in Nat /\ MaxTokens \in Nat
ASSUME CapAssumption == MaxConcurrent \in Nat \ {0}
ASSUME WorkersAssumption == IsFiniteSet(Workers)

VARIABLES
    status,         \* iam.user_identity.status
    session,        \* status of each iam.session
    token,          \* iam.refresh_token: status, session
    lapsed,         \* refresh and reset tokens past expires_at_utc
    reset,          \* status of each iam.password_reset_token
    pc, tx,         \* each worker's transaction: where it is, what it has read
    replaced,       \* history: how often each refresh token was rotated
    confirmed,      \* history: how often each reset token changed the password
    outlived,       \* history: sessions active when a committed reset revoked
    reported        \* history: sessions whose token was reported as reused

vars == <<status, session, token, lapsed, reset, pc, tx,
          replaced, confirmed, outlived, reported>>
history == <<replaced, confirmed, outlived, reported>>

Sessions == 1..MaxSessions
Tokens == 1..MaxTokens

NoToken == [status |-> "none", session |-> 0]
Nothing == [session |-> 0, token |-> 0, reset |-> None, evict |-> {}]

Active == {s \in Sessions : session[s] = "active"}
\* validateAccessToken: the session and its user are looked up on every request.
Validates(s) == s \in Active /\ status = "active"

At(w, point) == pc[w] = point
Begin(w, point, what) ==
    /\ pc[w] = "idle"
    /\ pc' = [pc EXCEPT ![w] = point]
    /\ tx' = [tx EXCEPT ![w] = what]
GoTo(w, point) == pc' = [pc EXCEPT ![w] = point] /\ UNCHANGED tx
End(w) ==
    /\ pc' = [pc EXCEPT ![w] = "idle"]
    /\ tx' = [tx EXCEPT ![w] = Nothing]

\* The sessions of S that are active are revoked, and with them their active tokens.
Revoked(S) == [s \in Sessions |->
    IF s \in S /\ session[s] = "active" THEN "revoked"
    ELSE session[s]]
WithoutTokensOf(S) == [t \in Tokens |->
    IF token[t].session \in S /\ token[t].status = "active"
    THEN [token[t] EXCEPT !.status = "revoked"] ELSE token[t]]
Revoke(S) == session' = Revoked(S) /\ token' = WithoutTokensOf(S)

-----------------------------------------------------------------------------
(* Login: the credential and account are read, then createSession.         *)

\* Sessions are ordered by issued_at_utc, which is when the login's transaction began.
NextSession == 1 + Max({0} \cup {s \in Sessions : session[s] # "none"}
                           \cup {tx[w].session : w \in {x \in Workers : pc[x] \in {"login", "counted"}}})
NextToken == 1 + Cardinality({t \in Tokens : token[t].status # "none"})

Authenticate(w) ==
    /\ status = "active"
    /\ NextSession <= MaxSessions
    /\ Begin(w, "login", [Nothing EXCEPT !.session = NextSession])
    /\ UNCHANGED <<status, session, token, lapsed, reset, history>>

\* The oldest sessions over the cap, leaving room for the new one.
Oldest_NoRoom(S) == {s \in S : Cardinality({x \in S : x > s}) >= MaxConcurrent}
Oldest(S) == {s \in S : Cardinality({x \in S : x > s}) >= MaxConcurrent - 1}

EnforceConcurrentLimit(w) ==
    /\ At(w, "login")
    /\ pc' = [pc EXCEPT ![w] = "counted"]
    /\ tx' = [tx EXCEPT ![w].evict = Oldest(Active)]
    /\ UNCHANGED <<status, session, token, lapsed, reset, history>>

CreateSession(w) ==
    /\ At(w, "counted") /\ NextToken <= MaxTokens
    /\ session' = [Revoked(tx[w].evict) EXCEPT ![tx[w].session] = "active"]
    /\ token' = [WithoutTokensOf(tx[w].evict) EXCEPT ![NextToken] =
          [status |-> "active", session |-> tx[w].session]]
    /\ End(w)
    /\ UNCHANGED <<status, lapsed, reset, history>>

-----------------------------------------------------------------------------
(* POST /auth/refresh: rotateRefreshToken.                                 *)

\* What the status and expiry of the presented token lead to.
Outcome(t) == IF token[t].status # "active" THEN "reuse"
              ELSE IF t \in lapsed THEN "lapsed" ELSE "resolved"

ResolveToken(w, t) ==
    /\ token[t].status # "none"
    /\ Begin(w, Outcome(t), [Nothing EXCEPT !.token = t, !.session = token[t].session])
    /\ UNCHANGED <<status, session, token, lapsed, reset, history>>

ReportLapsed(w) ==
    /\ At(w, "lapsed")
    /\ token' = [token EXCEPT ![tx[w].token].status = "expired"]
    /\ End(w)
    /\ UNCHANGED <<status, session, lapsed, reset, history>>

CheckSession(w) ==
    /\ At(w, "resolved")
    /\ IF tx[w].session \in Active THEN GoTo(w, "live") ELSE End(w)
    /\ UNCHANGED <<status, session, token, lapsed, reset, history>>

CheckUser(w) ==
    /\ At(w, "live")
    /\ GoTo(w, IF status = "active" THEN "rotate" ELSE "frozen")
    /\ UNCHANGED <<status, session, token, lapsed, reset, history>>

\* Neither update is conditional on what was read: the presented token becomes used
\* whatever it is now, and the session gets a new access token and expiry, not a status.
SessionRefreshed_Reactivated(s) == [session EXCEPT ![s] = "active"]
SessionRefreshed_Labelled(s) == [session EXCEPT ![s] = "refreshed"]
SessionRefreshed(s) == session

Rotate(w) ==
    LET old == tx[w].token
        new == NextToken
    IN
    /\ At(w, "rotate") /\ new <= MaxTokens
    /\ token' = [token EXCEPT ![old].status = "used",
                              ![new] = [status |-> "active", session |-> tx[w].session]]
    /\ session' = SessionRefreshed(tx[w].session)
    /\ replaced' = [replaced EXCEPT ![old] = @ + 1]
    /\ End(w)
    /\ UNCHANGED <<status, lapsed, reset, confirmed, outlived, reported>>

\* Reuse of a spent token, or a refresh by a frozen user.
RevokeFamily_TokensOnly(s) == token' = WithoutTokensOf({s}) /\ UNCHANGED session
RevokeFamily(s) == Revoke({s})

EndFamily(w) ==
    /\ At(w, "reuse") \/ At(w, "frozen")
    /\ RevokeFamily(tx[w].session)
    /\ reported' = IF At(w, "reuse") THEN reported \cup {tx[w].session} ELSE reported
    /\ End(w)
    /\ UNCHANGED <<status, lapsed, reset, replaced, confirmed, outlived>>

-----------------------------------------------------------------------------
(* Revocation, freeze and password reset.                                  *)

\* logout and sessions/:id/revoke, on behalf of a validated session of the user.
RevokeSession(s) ==
    /\ \E caller \in Sessions : Validates(caller)
    /\ session[s] = "active"
    /\ Revoke({s})
    /\ UNCHANGED <<status, lapsed, reset, pc, tx, history>>

\* logout-all and the internal revoke-user-sessions.
RevokeAllSessions ==
    /\ Active # {}
    /\ Revoke(Active)
    /\ UNCHANGED <<status, lapsed, reset, pc, tx, history>>

FreezeEvent ==
    /\ status = "active"
    /\ status' = "suspended"
    /\ Revoke(Active)
    /\ UNCHANGED <<lapsed, reset, pc, tx, history>>

RequestReset(r) ==
    /\ status = "active" /\ reset[r] = "none"
    /\ reset' = [reset EXCEPT ![r] = "active"]
    /\ UNCHANGED <<status, session, token, lapsed, pc, tx, history>>

CheckReset(w, r) ==
    /\ reset[r] = "active" /\ r \notin lapsed
    /\ Begin(w, "reset", [Nothing EXCEPT !.reset = r])
    /\ UNCHANGED <<status, session, token, lapsed, reset, history>>

\* revokeAllSessionsForUser: the sessions it revokes are those its UPDATE finds active,
\* not one that a login commits after it.
FindSessions(w) ==
    /\ At(w, "reset")
    /\ pc' = [pc EXCEPT ![w] = "revoking"]
    /\ tx' = [tx EXCEPT ![w].evict = Active]
    /\ UNCHANGED <<status, session, token, lapsed, reset, history>>

\* The tokens are a later UPDATE, of all the user's tokens.
EndSessions_Kept(S) == UNCHANGED <<session, token>>
EndSessions(S) == session' = Revoked(S) /\ token' = WithoutTokensOf(Sessions)

\* The new password, the revocation and the spent reset token commit together; the
\* update of the reset token is conditional, but nothing looks at its row count.
ConfirmReset(w) ==
    /\ At(w, "revoking")
    /\ EndSessions(tx[w].evict)
    /\ outlived' = outlived \cup tx[w].evict
    /\ reset' = [reset EXCEPT ![tx[w].reset] = "used"]
    /\ confirmed' = [confirmed EXCEPT ![tx[w].reset] = @ + 1]
    /\ End(w)
    /\ UNCHANGED <<status, lapsed, replaced, reported>>

-----------------------------------------------------------------------------
(* The environment.                                                        *)

\* A transaction is rolled back: an error, a lost connection, a deadlock victim.
Abort(w) ==
    /\ pc[w] # "idle"
    /\ End(w)
    /\ UNCHANGED <<status, session, token, lapsed, reset, history>>

\* The data owner lifts the suspension.
Reinstate ==
    /\ status = "suspended"
    /\ status' = "active"
    /\ UNCHANGED <<session, token, lapsed, reset, pc, tx, history>>

TokenLapses(t) ==
    /\ token[t].status = "active" /\ t \in Expiring \ lapsed
    /\ lapsed' = lapsed \cup {t}
    /\ UNCHANGED <<status, session, token, reset, pc, tx, history>>

ResetLapses(r) ==
    /\ reset[r] = "active" /\ r \in Expiring \ lapsed
    /\ lapsed' = lapsed \cup {r}
    /\ UNCHANGED <<status, session, token, reset, pc, tx, history>>

-----------------------------------------------------------------------------
Init ==
    /\ status = "active"
    /\ session = [s \in Sessions |-> "none"]
    /\ token = [t \in Tokens |-> NoToken]
    /\ lapsed = {}
    /\ reset = [r \in Resets |-> "none"]
    /\ pc = [w \in Workers |-> "idle"]
    /\ tx = [w \in Workers |-> Nothing]
    /\ replaced = [t \in Tokens |-> 0]
    /\ confirmed = [r \in Resets |-> 0] /\ outlived = {}
    /\ reported = {}

Transaction(w) ==
    \/ Authenticate(w) \/ EnforceConcurrentLimit(w) \/ CreateSession(w)
    \/ \E t \in Tokens : ResolveToken(w, t)
    \/ ReportLapsed(w) \/ CheckSession(w) \/ CheckUser(w) \/ Rotate(w) \/ EndFamily(w)
    \/ \E r \in Resets : CheckReset(w, r)
    \/ FindSessions(w) \/ ConfirmReset(w) \/ Abort(w)

Next ==
    \/ \E w \in Workers : Transaction(w)
    \/ \E s \in Sessions : RevokeSession(s)
    \/ RevokeAllSessions \/ FreezeEvent \/ Reinstate
    \/ \E r \in Resets : RequestReset(r) \/ ResetLapses(r)
    \/ \E t \in Tokens : TokenLapses(t)

Spec == Init /\ [][Next]_vars

-----------------------------------------------------------------------------
Points == {"idle", "login", "counted", "reuse", "lapsed", "resolved", "live", "rotate",
           "frozen", "reset", "revoking"}

\* A user who is locked or deactivated is as one who is suspended.
UserStatuses == {"active", "suspended"}
SessionStatuses == {"none", "active", "revoked"}    \* nothing writes "expired"
TokenRows == [status : {"none", "active", "used", "revoked", "expired"}, session : 0..MaxSessions]
ResetStatuses == {"none", "active", "used"}         \* nothing writes "expired" or "revoked"

TypeOK ==
    /\ status \in UserStatuses
    /\ session \in [Sessions -> SessionStatuses]
    /\ token \in [Tokens -> TokenRows]
    /\ lapsed \subseteq Tokens \cup Resets
    /\ reset \in [Resets -> ResetStatuses]
    /\ pc \in [Workers -> Points]
    /\ tx \in [Workers -> [session : 0..MaxSessions, token : 0..MaxTokens,
                           reset : Resets \cup {None},
                           evict : SUBSET Sessions]]
    /\ replaced \in [Tokens -> Nat] /\ confirmed \in [Resets -> Nat]
    /\ reported \subseteq Sessions /\ outlived \subseteq Sessions

\* Logins that overlap each make room for one, not for each other: the cap is exceeded
\* by no more than the transactions that can be open beside the last one to commit.
CapOverrun == Cardinality(Active) <= MaxConcurrent + Cardinality(Workers) - 1

\* Once a spent refresh token has been presented, the session it belonged to is over,
\* whatever successors a racing refresh may still add to the family.
ReuseEndsSession == \A s \in reported : session[s] = "revoked"

\* A password reset ends every session that was active when it revoked, for good.
ResetEndsSessions == outlived \cap Active = {}

\* Logins pass the session cap only by overlapping, a reused refresh token ends its session and
\* its successors, and a password reset ends the sessions begun before it.
SessionsEnd == TypeOK /\ CapOverrun /\ ReuseEndsSession /\ ResetEndsSessions

\* No later handler, least of all a refresh that read it before, revives a revoked
\* session or a token that was used, revoked or expired.
RevivesNothing ==
    [][/\ \A s \in Sessions : session[s] = "revoked" => session'[s] = "revoked"
       /\ \A t \in Tokens : token[t].status \in {"used", "revoked", "expired"}
                                => token'[t].status \in {"used", "revoked", "expired"}]_vars

-----------------------------------------------------------------------------
(* What the documents say, and overlapping or stale handlers break.        *)

\* A refresh token is rotated on its first use; any other use is reuse.
RotatedOnce == \A t \in Tokens : replaced[t] <= 1

\* A password reset token changes the password once.
ResetOnce == \A r \in Resets : confirmed[r] <= 1
=============================================================================
