---------------------------- MODULE CfgDecision ----------------------------
(***************************************************************************)
(* CFG-01's decision engine: a feature is evaluated, logged and given a    *)
(* decision token, and a token presented later is verified against the     *)
(* configuration as it is then.  Each is one transaction of several reads  *)
(* under READ COMMITTED: what the changes of CfgFeature and CfgKillSwitch, *)
(* or a write past the application, commit in between is seen by the reads *)
(* that follow.                                                            *)
(***************************************************************************)
EXTENDS Naturals, FiniteSets

CONSTANTS
    Features, Listed,   \* feature codes, and those of the prohibited registry
    Production,         \* CFG-01's own environment is canonically PRODUCTION
    Tokens, Workers,
    MaxChanges,         \* bound: changes of the configuration
    None

VARIABLES
    licence,    \* cfg1.licence_profile: its version, and whether its facts are those of Doc 00
    sealed,     \* version the active licence seal is of
    registry,   \* cfg1.prohibited_feature: whole, altered, or altered with its seal
    feature,    \* cfg1.feature: state, version, and its availability in CFG-01's environment
    killed,     \* features with an active cfg1.kill_switch
    token,      \* cfg1.feature_decision_token
    changes,    \* how often the configuration was changed
    work        \* each transaction: its input, what it has read, its verdict; history: what held meanwhile

vars == <<licence, sealed, registry, feature, killed, token, changes, work>>
configuration == <<licence, sealed, registry, feature, killed, changes>>

NoToken == [status |-> None, feature |-> None, version |-> 0, licence |-> 0]
NoRead == [licence |-> 0, facts |-> TRUE, registry |-> "whole", sealed |-> 0, version |-> 0, available |-> TRUE, killed |-> FALSE]
Idle == [at |-> "idle", feature |-> None, token |-> None, asserted |-> TRUE, fits |-> TRUE, read |-> NoRead,
         verdict |-> None, held |-> {}, overlapped |-> FALSE]

At(w, point) == work[w].at = point
Evaluates(w) == work[w].token = None

-----------------------------------------------------------------------------
(* What a decision rests on, as it is now *)

Known(f) == feature[f].state # None
Available(f) == Known(f) /\ feature[f].available
Enabled(f) == Known(f) /\ feature[f].state = "enabled"
Intact == registry = "whole" /\ licence.facts

\* Each condition with whether it holds, for a transaction about f and t.
Holding(f, t) == IF f = None THEN {<<"integrity", Intact>>} ELSE {
    <<"integrity", Intact>>, <<"listed", f \notin Listed>>, <<"live", f \notin killed>>,
    <<"known", Known(f)>>, <<"available", Available(f)>>, <<"enabled", Enabled(f)>>} \cup
    (IF t = None THEN {} ELSE {
        <<"unrevoked", token[t].status = "active">>,
        <<"version", token[t].version = feature[f].version>>, <<"licence", token[t].licence = sealed>>})

\* history: every transaction sees what holds after a change.
Observed(now) == [w \in Workers |->
    IF now[w].at = "idle" THEN now[w]
    ELSE [now[w] EXCEPT !.held = @ \cup UNION {Holding(f, t)' : f \in {now[w].feature}, t \in {now[w].token}}]]

-----------------------------------------------------------------------------
(* The configuration changes *)

Changes ==
    /\ changes < MaxChanges /\ changes' = changes + 1
    /\ UNCHANGED token

\* An applied licence change commits its rows and their seal at once.
LicenceApplied(facts) ==
    /\ Changes
    /\ licence' = [version |-> licence.version + 1, facts |-> facts] /\ sealed' = licence.version + 1
    /\ UNCHANGED <<registry, feature, killed>>
    /\ work' = Observed([w \in Workers |-> [work[w] EXCEPT !.overlapped = @ \/ At(w, "registry") \/ At(w, "seals")]])

FeatureApplied(f, to) ==
    /\ Changes /\ f \notin Listed
    /\ feature' = [feature EXCEPT ![f].state = to, ![f].version = @ + 1]
    /\ UNCHANGED <<licence, sealed, registry, killed>> /\ work' = Observed(work)

\* The columns of an availability have no route: they are written by a migration.
AvailabilitySet(f) ==
    /\ Changes /\ Known(f)
    /\ feature' = [feature EXCEPT ![f].available = ~@]
    /\ UNCHANGED <<licence, sealed, registry, killed>> /\ work' = Observed(work)

Switched(f) ==
    /\ Changes
    /\ killed' \in {killed \cup {f}, killed \ {f}} \ {killed}
    /\ UNCHANGED <<licence, sealed, registry, feature>> /\ work' = Observed(work)

\* Somebody with access to the database removes a prohibition, and may rewrite its seal.
Altered(how) ==
    /\ Changes /\ registry = "whole"
    /\ registry' = how
    /\ UNCHANGED <<licence, sealed, feature, killed>> /\ work' = Observed(work)

-----------------------------------------------------------------------------
(* The integrity of the configuration at decision time *)

Begin(w, f, t, asserted, fits) ==
    /\ At(w, "idle")
    /\ work' = [work EXCEPT ![w] = [Idle EXCEPT
          !.at = "registry", !.feature = f, !.token = t, !.asserted = asserted, !.fits = fits,
          !.read = [NoRead EXCEPT !.licence = licence.version, !.facts = licence.facts], !.held = Holding(f, t)]]
    /\ UNCHANGED <<configuration, token>>

Probe(w) == Begin(w, None, None, TRUE, TRUE)

ReadRegistry(w) ==
    /\ At(w, "registry")
    /\ work' = [work EXCEPT ![w].at = "seals", ![w].read.registry = registry]
    /\ UNCHANGED <<configuration, token>>

\* checkSealLayer: the active seal is the hash of the rows.
SealFits(w) == work[w].read.licence = sealed /\ work[w].read.registry # "altered"

\* The facts compiled into the process, whatever the seals say.
FactsAgree_Sealed(w) == work[w].read.facts /\ work[w].read.registry \in {"whole", "resealed"}
FactsAgree(w) == work[w].read.facts /\ work[w].read.registry = "whole"

\* A decision is logged and audited before its transaction commits, a failed check as critical.
Told(w, verdict) == work' = [work EXCEPT ![w].at = "told", ![w].verdict = verdict]

verifyDecisionTimeIntegrity(w) ==
    /\ At(w, "seals")
    /\ work[w].feature # None
    /\ IF SealFits(w) /\ FactsAgree(w)
       THEN work' = [work EXCEPT ![w].at = IF Evaluates(w) THEN "prohibited" ELSE "feature", ![w].read.sealed = sealed]
       ELSE Told(w, "integrity_failed")
    /\ UNCHANGED <<configuration, token>>

\* The readiness probe makes the same three reads and compares the rows with their seals alone.
checkConfigIntegritySeals(w) ==
    /\ At(w, "seals") /\ work[w].feature = None
    /\ Told(w, IF SealFits(w) THEN "ready" ELSE "not_ready")
    /\ UNCHANGED <<configuration, token>>

-----------------------------------------------------------------------------
(* evaluateFeature: the first reason to deny, in this order *)

ReadProhibited(w) ==
    /\ At(w, "prohibited")
    /\ IF work[w].feature \in Listed /\ registry = "whole" THEN Told(w, "prohibited")
       ELSE IF ~work[w].asserted THEN Told(w, "environment_mismatch")
       ELSE work' = [work EXCEPT ![w].at = "switch"]
    /\ UNCHANGED <<configuration, token>>

isKillSwitchActiveForFeature(w) ==
    /\ At(w, "switch")
    /\ IF ~Evaluates(w) THEN work' = [work EXCEPT ![w].at = "token", ![w].read.killed = work[w].feature \in killed]
       ELSE IF work[w].feature \in killed THEN Told(w, "kill_switch_active")
       ELSE work' = [work EXCEPT ![w].at = "feature"]
    /\ UNCHANGED <<configuration, token>>

\* The registry's version, which a caller may name, never changes.
Denial(w) ==
    LET asked == work[w].feature IN
    IF ~Known(asked) THEN "unknown_fail_closed"
    ELSE IF ~feature[asked].available THEN "environment_not_available"
    ELSE IF ~work[w].fits THEN "stale_revalidate"
    ELSE IF feature[asked].state # "enabled" THEN "feature_disabled"
    ELSE IF Production THEN "production_activation_absent"
    ELSE None

\* The decision is logged and audited, and an allow is given a token, in the one transaction.
issueDecisionToken(w, t) ==
    LET asked == work[w].feature IN
    /\ token[t] = NoToken
    /\ token' = [token EXCEPT ![t] = [status |-> "active", feature |-> asked, version |-> feature[asked].version,
                                      licence |-> work[w].read.sealed]]

Evaluate(w) ==
    /\ At(w, "feature") /\ Evaluates(w)
    /\ IF Denial(w) # None THEN Told(w, Denial(w)) /\ UNCHANGED token
       ELSE Told(w, "feature_allowed") /\ \E t \in Tokens : issueDecisionToken(w, t)
    /\ UNCHANGED configuration

-----------------------------------------------------------------------------
(* verify-decision *)

ReadCurrent(w) ==
    LET asked == work[w].feature IN
    /\ At(w, "feature") /\ ~Evaluates(w)
    /\ work' = [work EXCEPT ![w].at = "switch", ![w].read.version = feature[asked].version, ![w].read.available = Available(asked)]
    /\ UNCHANGED <<configuration, token>>

\* The token is read without a lock.  One that was revoked, or has expired, is only refused.
ReadToken(w, expired) ==
    /\ At(w, "token")
    /\ IF token[work[w].token].status = "revoked" THEN Told(w, "revoked")
       ELSE IF expired THEN Told(w, "expired")
       ELSE work' = [work EXCEPT ![w].at = "judging"]
    /\ UNCHANGED <<configuration, token>>

BindingMismatch(w) == ~work[w].fits \/ token[work[w].token].feature # work[w].feature
ConfigChanged(w) ==
    LET t == token[work[w].token] IN t.licence # work[w].read.sealed \/ t.version # work[w].read.version

RevokedReason_SwitchUnread(w) ==
    IF ~work[w].asserted THEN "environment_mismatch" ELSE IF BindingMismatch(w) THEN "binding_mismatch"
    ELSE IF ~work[w].read.available THEN "environment_unavailable" ELSE IF ConfigChanged(w) THEN "config_changed" ELSE None
RevokedReason(w) ==
    IF ~work[w].asserted THEN "environment_mismatch"
    ELSE IF BindingMismatch(w) THEN "binding_mismatch"
    ELSE IF work[w].read.killed THEN "kill_switch_active"
    ELSE IF ~work[w].read.available THEN "environment_unavailable"
    ELSE IF ConfigChanged(w) THEN "config_changed"
    ELSE None

verifyDecisionToken(w) ==
    LET reason == RevokedReason(w) IN
    /\ At(w, "judging")
    /\ token' = IF reason = None THEN token ELSE [token EXCEPT ![work[w].token].status = "revoked"]
    /\ UNCHANGED configuration
    /\ work' = Observed([work EXCEPT ![w].at = "told", ![w].verdict = IF reason = None THEN "verified" ELSE reason])

-----------------------------------------------------------------------------
\* The answer is sent; or the transaction is lost with all it wrote, and nothing is answered.
Ends(w) ==
    /\ work[w].at # "idle" /\ work' = [work EXCEPT ![w] = Idle]
    /\ UNCHANGED <<configuration, token>>

Init ==
    /\ licence = [version |-> 1, facts |-> TRUE] /\ sealed = 1 /\ registry = "whole"
    /\ feature = [f \in Features |-> [state |-> IF f \in Listed THEN None ELSE "enabled", version |-> 1, available |-> TRUE]]
    /\ killed = {} /\ changes = 0
    /\ token = [t \in Tokens |-> NoToken]
    /\ work = [w \in Workers |-> Idle]

Next ==
    \/ \E facts \in BOOLEAN : LicenceApplied(facts)
    \/ \E f \in Features : AvailabilitySet(f) \/ Switched(f) \/ \E to \in {"enabled", "disabled"} : FeatureApplied(f, to)
    \/ \E how \in {"altered", "resealed"} : Altered(how)
    \/ \E w \in Workers :
          \/ \E f \in Features, asserted, fits \in BOOLEAN :
                \/ Begin(w, f, None, asserted, fits)
                \/ \E t \in Tokens : token[t] # NoToken /\ Begin(w, f, t, asserted, fits)
          \/ Probe(w) \/ checkConfigIntegritySeals(w)
          \/ ReadRegistry(w) \/ verifyDecisionTimeIntegrity(w) \/ ReadProhibited(w) \/ isKillSwitchActiveForFeature(w)
          \/ Evaluate(w) \/ ReadCurrent(w) \/ \E expired \in BOOLEAN : ReadToken(w, expired)
          \/ verifyDecisionToken(w) \/ Ends(w)

Spec == Init /\ [][Next]_vars

-----------------------------------------------------------------------------
\* The condition that a reason says did not hold.
Reasons == {"integrity_failed", "prohibited", "kill_switch_active", "unknown_fail_closed", "environment_not_available",
            "feature_disabled", "revoked", "environment_unavailable"}
Says(reason) ==
    CASE reason = "integrity_failed" -> "integrity"
      [] reason = "prohibited" -> "listed"
      [] reason = "kill_switch_active" -> "live"
      [] reason = "unknown_fail_closed" -> "known"
      [] reason \in {"environment_not_available", "environment_unavailable"} -> "available"
      [] reason = "feature_disabled" -> "enabled"
      [] reason = "revoked" -> "unrevoked"

\* What an answer that lets a caller go on says held; "enabled" is verified by the version.
Vouched(w) == {"integrity", "listed", "live", "known", "available"} \cup
    (IF Evaluates(w) THEN {"enabled"} ELSE {"unrevoked", "version", "licence"})

TypeOK ==
    /\ sealed = licence.version /\ changes \in 0..MaxChanges
    /\ \A t \in Tokens : token[t].status \in {None, "active", "revoked"} /\ token[t].feature \in Features \cup {None}
    /\ \A w \in Workers : work[w].held \subseteq
          {"integrity", "listed", "live", "known", "available", "enabled", "unrevoked", "version", "licence"} \X BOOLEAN

\* Whatever is changed while it is decided, an allow and a verification vouch only for what held
\* at some time since the request came, and a refusal names what did not: a switch pulled, a
\* feature disabled or a registry altered before a request is never missed by it.
DecidedOnWhatHeld == \A w \in Workers : At(w, "told") =>
    /\ work[w].verdict \in {"feature_allowed", "verified"} => \A c \in Vouched(w) : <<c, TRUE>> \in work[w].held
    /\ work[w].verdict \in Reasons \ {"integrity_failed"} => <<Says(work[w].verdict), FALSE>> \in work[w].held
    /\ work[w].verdict = "config_changed" => {<<"version", FALSE>>, <<"licence", FALSE>>} \cap work[w].held # {}

\* An integrity alarm means that rows were altered, that a licence is not what Doc 00 says, or
\* that a licence change committed between the read of the rows and the read of their seal; so
\* does a probe that is told the service is not ready.
AlarmsTell == \A w \in Workers : At(w, "told") /\ work[w].verdict \in {"integrity_failed", "not_ready"} =>
    <<"integrity", FALSE>> \in work[w].held \/ work[w].overlapped
=============================================================================
