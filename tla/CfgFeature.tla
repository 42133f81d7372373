----------------------------- MODULE CfgFeature -----------------------------
(***************************************************************************)
(* CFG-01: approved changes of a feature's state and of a licence, the     *)
(* first of which may create the feature, the integrity seal each renews,  *)
(* and the decision tokens that carry the versions they were decided on.   *)
(* A change is requested, then verified with IAM-02 before the transaction *)
(* that applies it; applying it takes the locks of PostgreSQL under READ   *)
(* COMMITTED, and each step below is a statement or a wait.                *)
(***************************************************************************)
EXTENDS Naturals, FiniteSets, Sequences

CONSTANTS
    Features, Licences, \* rows of cfg1.feature and cfg1.licence_profile
    Listed,             \* features of the prohibited registry, or of the exchange's name space
    Changes,
    Target,             \* [Changes -> Features \cup Licences]
    To,                 \* [Changes -> states], what the change sets its target to
    MaxApprovals,       \* bound: IAM-02 approvals obtained for a change
    Tokens,             \* decision tokens
    Workers, None

VARIABLES
    state,      \* current_state or licence_status, and version
    seal,       \* the active cfg1.config_integrity_seal of a scope
    change,     \* status of cfg1.feature_state_change and cfg1.licence_profile_change
    token,      \* cfg1.feature_decision_token
    killed,     \* features with an active kill switch
    work,
    spent,      \* approvals of a change that were verified
    applied,    \* history: versions the applied changes of a row gave it, in order
    verified    \* history: tokens that were verified for a feature then not enabled

vars == <<state, seal, change, token, killed, work, spent, applied, verified>>

Rows == Features \cup Licences
Scopes == {"feature", "licence_profile"}
Scope(r) == IF r \in Features THEN "feature" ELSE "licence_profile"
RowsOf(scope) == IF scope = "feature" THEN Features ELSE Licences
Idle == [at |-> "idle", change |-> None, version |-> 0, seal |-> 0]
NoRow == [is |-> None, version |-> 0]       \* a feature that is not there yet
NoToken == [status |-> None, feature |-> None, version |-> 0, licence |-> 0]

Now(w) == work[w].at
Row(w) == Target[work[w].change]
Rest(w) == work' = [work EXCEPT ![w] = Idle]

\* Who holds the row of a change, the row it changes, and the active seal of its scope.
HoldsChange(w, c) == Now(w) \in {"locked", "read", "written", "sealing", "sealed"} /\ work[w].change = c
HoldsRow(w, r) ==
    /\ Row(w) = r
    /\ Now(w) \in {"written", "sealing", "sealed"} \cup (IF r \in Licences THEN {"read"} ELSE {})
HoldsSeal(w, scope) == Now(w) = "sealed" /\ Scope(Row(w)) = scope /\ work[w].seal # 0

Others(w) == {v \in Workers \ {w} : Now(v) # "idle"}

-----------------------------------------------------------------------------
(* Requesting a change, and applying it *)

Blocked(r) == r \in Listed
Exists(r) == state[r] # NoRow

\* A feature that is not there can only be enabled, and a prohibited one not changed.
Request(c) ==
    /\ change[c] = None /\ ~Blocked(Target[c]) /\ (Exists(Target[c]) \/ To[c] = "enabled")
    /\ change' = [change EXCEPT ![c] = "requested"]
    /\ UNCHANGED <<state, seal, token, killed, work, spent, applied, verified>>

\* The change is still requested, and IAM-02 verifies, and spends, the token of its approval.
Verify(w, c) ==
    /\ Now(w) = "idle" /\ change[c] = "requested" /\ spent[c] < MaxApprovals
    /\ spent' = [spent EXCEPT ![c] = @ + 1]
    /\ work' = [work EXCEPT ![w] = [Idle EXCEPT !.at = "verified", !.change = c]]
    /\ UNCHANGED <<state, seal, change, token, killed, applied, verified>>

StillRequested_Any(c) == TRUE
StillRequested(c) == change[c] = "requested"

\* isFeatureMutationBlocked is asked again with the change locked.
LockChange(w) ==
    LET c == work[w].change IN
    /\ Now(w) = "verified"
    /\ \A v \in Others(w) : ~HoldsChange(v, c)
    /\ IF StillRequested(c) /\ ~Blocked(Row(w)) THEN work' = [work EXCEPT ![w].at = "locked"] ELSE Rest(w)
    /\ UNCHANGED <<state, seal, change, token, killed, spent, applied, verified>>

\* The version, 0 of a feature that is not there: a licence's row is locked by the read, a
\* feature's is not.
MayRead_Unlocked(w) == TRUE
MayRead(w) == Row(w) \in Licences => \A v \in Others(w) : ~HoldsRow(v, Row(w))

ReadVersion(w) ==
    /\ Now(w) = "locked" /\ MayRead(w)
    /\ work' = [work EXCEPT ![w].at = "read", ![w].version = state[Row(w)].version]
    /\ UNCHANGED <<state, seal, change, token, killed, spent, applied, verified>>

\* The update, which waits for the row and is seen by others at the commit.  The insert of a
\* feature waits for another one's insert, and fails when it was committed.
CodeFree_Unindexed(w) == TRUE
CodeFree(w) == work[w].version = 0 => ~Exists(Row(w))

Write(w) ==
    /\ Now(w) = "read"
    /\ \A v \in Others(w) : ~HoldsRow(v, Row(w))
    /\ IF CodeFree(w) THEN work' = [work EXCEPT ![w].at = "written"] ELSE Rest(w)
    /\ UNCHANGED <<state, seal, change, token, killed, spent, applied, verified>>

\* resealScope: the active seal as of the statement, then its lock.  Whoever waited for one that
\* was superseded finds no row.
FindSeal(w) ==
    /\ Now(w) = "written"
    /\ work' = [work EXCEPT ![w].at = "sealing", ![w].seal = seal[Scope(Row(w))].version]
    /\ UNCHANGED <<state, seal, change, token, killed, spent, applied, verified>>

LockSeal(w) ==
    LET scope == Scope(Row(w)) IN
    /\ Now(w) = "sealing"
    /\ \A v \in Others(w) : ~HoldsSeal(v, scope)
    /\ work' = [work EXCEPT ![w].at = "sealed", ![w].seal = IF seal[scope].version = @ THEN @ ELSE 0]
    /\ UNCHANGED <<state, seal, change, token, killed, spent, applied, verified>>

Changed(w, r) == IF r = Row(w) THEN [is |-> To[work[w].change], version |-> work[w].version + 1] ELSE state[r]
Renewed_Outside(w, scope) == [version |-> work[w].seal + 1, of |-> [r \in RowsOf(scope) |-> state[r]]]
Renewed(w, scope) == [version |-> work[w].seal + 1, of |-> [r \in RowsOf(scope) |-> Changed(w, r)]]

\* One active seal per scope: without the row of the previous one the insert conflicts with it.
SealFits_Any(w, scope) == TRUE
SealFits(w, scope) == seal[scope].version = work[w].seal

Apply(w) ==
    LET scope == Scope(Row(w)) IN
    /\ Now(w) = "sealed" /\ SealFits(w, scope) /\ Rest(w)
    /\ state' = [r \in Rows |-> Changed(w, r)]
    /\ seal' = [seal EXCEPT ![scope] = Renewed(w, scope)]
    /\ change' = [change EXCEPT ![work[w].change] = "applied"]
    /\ applied' = [applied EXCEPT ![Row(w)] = Append(@, work[w].version + 1)]
    /\ UNCHANGED <<token, killed, spent, verified>>

\* Whatever fails, or whoever dies, the transaction is rolled back: the change stays as it was.
Fails(w) ==
    /\ Now(w) # "idle" /\ Rest(w)
    /\ UNCHANGED <<state, seal, change, token, killed, spent, applied, verified>>

-----------------------------------------------------------------------------
(* Decisions *)

Evaluate(t, f) ==
    /\ token[t] = NoToken /\ ~Blocked(f) /\ f \notin killed /\ state[f].is = "enabled"
    /\ token' = [token EXCEPT ![t] = [status |-> "active", feature |-> f, version |-> state[f].version,
                                      licence |-> seal["licence_profile"].version]]
    /\ UNCHANGED <<state, seal, change, killed, work, spent, applied, verified>>

ConfigUnchanged_Licence(t) == token[t].licence = seal["licence_profile"].version
ConfigUnchanged(t) ==
    token[t].version = state[token[t].feature].version /\ token[t].licence = seal["licence_profile"].version

VerifyDecision(t) ==
    /\ token[t].status = "active"
    /\ IF token[t].feature \notin killed /\ ConfigUnchanged(t)
       THEN /\ verified' = IF state[token[t].feature].is = "enabled" THEN verified ELSE verified \cup {t}
            /\ UNCHANGED token
       ELSE token' = [token EXCEPT ![t].status = "revoked"] /\ UNCHANGED verified
    /\ UNCHANGED <<state, seal, change, killed, work, spent, applied>>

\* The kill switches, in CfgKillSwitch.
Kill(f) ==
    /\ killed' \in {killed \cup {f}, killed \ {f}} \ {killed}
    /\ UNCHANGED <<state, seal, change, token, work, spent, applied, verified>>

-----------------------------------------------------------------------------
NewRow == [is |-> "enabled", version |-> 1]
NoChanges == [c \in Changes |-> None]

Init ==
    /\ state \in [Rows -> {NewRow, NoRow}] /\ \A r \in Licences : Exists(r)
    /\ seal = [scope \in Scopes |-> [version |-> IF scope = "feature" THEN 0 ELSE 1, of |-> [r \in RowsOf(scope) |-> state[r]]]]
    /\ change = NoChanges
    /\ token = [t \in Tokens |-> NoToken]
    /\ killed = {} /\ verified = {}
    /\ work = [w \in Workers |-> Idle]
    /\ spent = [c \in Changes |-> 0]
    /\ applied = [r \in Rows |-> <<>>]

Next ==
    \/ \E c \in Changes : Request(c) \/ \E w \in Workers : Verify(w, c)
    \/ \E w \in Workers :
          LockChange(w) \/ ReadVersion(w) \/ Write(w) \/ FindSeal(w) \/ LockSeal(w) \/ Apply(w) \/ Fails(w)
    \/ \E t \in Tokens : VerifyDecision(t) \/ \E f \in Features : Evaluate(t, f)
    \/ \E f \in Features : Kill(f)

Spec == Init /\ [][Next]_vars

-----------------------------------------------------------------------------
\* An apply that fails leaves its change requested; nothing cancels one or rolls it back.
ChangeStatuses == {None, "requested", "applied"}
SealRows(scope) == [version : Nat, of : [RowsOf(scope) -> [is : {"enabled", "disabled", "locked", None}, version : Nat]]]

TypeOK ==
    /\ change \in [Changes -> ChangeStatuses]
    /\ \A scope \in Scopes : seal[scope] \in SealRows(scope)
    /\ \A w \in Workers : Now(w) \in {"idle", "verified", "locked", "read", "written", "sealing", "sealed"}
    /\ \A c \in Changes : change[c] = "applied" => applied[Target[c]] # <<>>
    /\ \A r \in Rows : Len(applied[r]) <= Cardinality({c \in Changes : Target[c] = r /\ change[c] = "applied"})

\* Whatever changes overlap, wait for one another and fail, the active seal of a scope is the
\* hash of the rows as they stand.
SealMatches == \A scope \in Scopes : seal[scope].of = [r \in RowsOf(scope) |-> state[r]]

\* A scope's seals are numbered without a repeat: a change that waited for a superseded seal
\* fails, and never starts the numbering again.
SealCounts == \A scope \in Scopes : seal[scope].version =
    Cardinality({c \in Changes : change[c] = "applied" /\ Scope(Target[c]) = scope}) + (IF scope = "feature" THEN 0 ELSE 1)

\* No two changes of a licence give it one version.
LicenceVersionsDiffer == \A l \in Licences : \A i, j \in 1..Len(applied[l]) : i # j => applied[l][i] # applied[l][j]

\* Of the changes that would create a feature, however they overlap, one is applied.
CreatedOnce == \A f \in Features : \A i \in 1..Len(applied[f]) : applied[f][i] = 1 => i = 1

Overlapped(f) == \E i, j \in 1..Len(applied[f]) : i # j /\ applied[f][i] = applied[f][j]

\* A token is verified for a feature that is not enabled only if two overlapping changes of the
\* feature took one version.
VerifiedOnlyIfOverlapped == \A t \in verified : Overlapped(token[t].feature)

\* (decision-token.ts) A feature's change invalidates every token decided on what it changed.
ChangeInvalidates == verified = {}
=============================================================================
