------------------------------ MODULE Platform ------------------------------
(***************************************************************************)
(* AML-01, SEC-01, CFG-01, FND-01 and the calls between the services.  The *)
(* parts share no row, so what any of them promises depends on its own     *)
(* steps alone, and a behaviour is about the part in focus.                *)
(***************************************************************************)
EXTENDS AmlScreening

CONSTANTS
    Screenings, Matches, MatchType, Decisions, Deliveries,  \* of one subject's screenings and their review
    Events, Contents, Streams, Forgery, MaxSeals, MaxRuns,  \* of the audit streams
    Watched, RuleScopes, RuleScope, Threshold, MaxRetries,  \* of a monitoring rule: its events, scopes, limits
    Verifications, Seal, Closures, MaxAlerts,               \* of verifications, by key, and of their alerts
    ReadRows, Sensitive, PageLimit, MaxReadTime, MaxRequests, MaxMoves, Readers, \* of searches
    Features, Licences, FeatureChanges, Target, To, MaxApprovals,  \* of features, and of their changes
    Listed, Production, MaxChanges,                         \* of decisions on them
    Actors, Deactivations, MaxEvents,                       \* of the kill switch
    BurstLimit, BurstWindow, SustainedLimit, SustainedWindow, Ceiling, MaxTime, MaxChecks,  \* of a rate limit
    Keys, JobCodes, Payloads, Critical, Unowned, MaxAudits, \* of the jobs
    Tokens, Clients                                         \* decision tokens, and the clients of a user

VARIABLES
    focus,          \* the part a behaviour is about
    screening, match, decision, delivery, outcomeWork, clt,
    stream, rows, locked, streamWork, seals, runs, answered,
    active, ingested, alert, dead, monitorWork, evaluated, attempts,
    genuine, verification, raised, letter, warned, closure, approved, exhausted, alertWork, toldFailed, closedBy, confirmed,
    ofAlerts, clock, inserting, stamp, visible, matching, permitted, log, reader, moves, shown, steady,
    state, seal, change, token, killed, featureWork, spent, applied, verified,
    licence, sealed, registry, feature, stopped, issued, changes, decisionWork,
    switch, deactivation, event, switchWork,
    now, counter, checking, told, throttled,
    record, message, scheduled, outbox, smoke, jobWork, answers,
    call, bound, consumed, abandoned, acted
outcomeVars == <<screening, match, decision, delivery, outcomeWork, clt>>
streamVars == <<stream, rows, locked, streamWork, seals, runs, answered>>
monitorVars == <<active, ingested, alert, dead, monitorWork, evaluated, attempts>>
alertVars == <<genuine, verification, raised, letter, warned, closure, approved, exhausted, alertWork, toldFailed, closedBy, confirmed>>
readVars == <<ofAlerts, clock, inserting, stamp, visible, matching, permitted, log, reader, moves, shown, steady>>
featureVars == <<state, seal, change, token, killed, featureWork, spent, applied, verified>>
decisionVars == <<licence, sealed, registry, feature, stopped, issued, changes, decisionWork>>
switchVars == <<switch, deactivation, event, switchWork>>
limitVars == <<now, counter, checking, told, throttled>>
jobVars == <<record, message, scheduled, outbox, smoke, jobWork, answers>>
callVars == <<call, bound, consumed, abandoned, acted>>

Outcome == INSTANCE AmlOutcome WITH Type <- MatchType, work <- outcomeWork
Stream == INSTANCE SecStream WITH work <- streamWork
Monitoring == INSTANCE SecMonitoring WITH Events <- Watched, Scopes <- RuleScopes, Scope <- RuleScope, work <- monitorWork
Alerts == INSTANCE SecAlerts WITH
    Keys <- Verifications, CloseKeys <- Closures,
    whole <- genuine, run <- verification, alert <- raised, bound <- approved, spent <- exhausted, work <- alertWork, told <- toldFailed
Reads == INSTANCE SecReads WITH Rows <- ReadRows, Limit <- PageLimit, MaxTime <- MaxReadTime, now <- clock
Feature == INSTANCE CfgFeature WITH Changes <- FeatureChanges, work <- featureWork
Decision == INSTANCE CfgDecision WITH killed <- stopped, token <- issued, work <- decisionWork
Switch == INSTANCE CfgKillSwitch WITH Requests <- Deactivations, request <- deactivation, work <- switchWork
RateLimit == INSTANCE FndRateLimit WITH answered <- told
Jobs == INSTANCE FndJobs WITH Jobs <- JobCodes, work <- jobWork
Calls == INSTANCE ServiceCalls WITH spent <- consumed

ASSUME OutcomeAssumption ==
    /\ Screenings \subseteq Nat /\ Deliveries \subseteq Nat \ {0}
    /\ None \notin {"requested", "completed", "failed", "applied", "potential_match", "confirmed_hit", "dismissed"}
    /\ None \notin {"pending", "succeeded"}
ASSUME StreamAssumption == IsFiniteSet(Events) /\ Forgery \notin Contents
ASSUME MonitorAssumption ==
    /\ RuleScope \in [Watched -> RuleScopes] /\ Threshold \in Nat \ {0} /\ MaxRetries \in Nat
    /\ None \notin {"pending", "failed", "replayed", "escalated"}
ASSUME AlertAssumption == MaxAlerts \in Nat /\ None \notin {"processing", "completed"}
ASSUME ReadAssumption ==
    /\ ReadRows \subseteq Nat /\ IsFiniteSet(ReadRows) /\ PageLimit \in Nat \ {0}
    /\ MaxReadTime \in Nat /\ MaxRequests \in Nat /\ None \notin [stamp : Nat, row : Nat]
ASSUME FeatureAssumption ==
    /\ Features \cap Licences = {} /\ IsFiniteSet(FeatureChanges)
    /\ Target \in [FeatureChanges -> Features \cup Licences]
    /\ To \in [FeatureChanges -> {"enabled", "disabled", "locked"}]
    /\ None \notin {"active", "revoked"}
ASSUME DecisionAssumption ==
    /\ MaxChanges \in Nat /\ None \notin Features \cup Tokens \cup {"enabled", "disabled"}
    /\ None \notin {"unknown_fail_closed", "environment_not_available", "stale_revalidate", "feature_disabled",
                    "production_activation_absent", "environment_mismatch", "binding_mismatch", "kill_switch_active",
                    "environment_unavailable", "config_changed"}
ASSUME LimitAssumption ==
    /\ {BurstLimit, BurstWindow, SustainedLimit, SustainedWindow} \subseteq Nat \ {0} /\ MaxTime \in Nat
    /\ Ceiling \in Nat /\ BurstLimit + 1 < Ceiling /\ SustainedLimit + 1 < Ceiling
ASSUME JobsAssumption ==
    /\ None \notin Keys \cup Payloads /\ Critical \subseteq Payloads
    /\ None \notin [kind : {"enqueue", "register"}, job : JobCodes, payload : Payloads]
ASSUME CallsAssumption == None \notin Tokens \cup Clients \cup Calls!Questions \cup {"memberships", "authorised"}
ASSUME SwitchAssumption == None \notin {"active", "requested", "applied"}

-----------------------------------------------------------------------------
PlatformInit ==
    /\ focus \in {"screening", "outcome", "stream", "monitoring", "verification", "reads", "feature", "decision",
                  "kill switch", "rate limit", "jobs", "calls"}
    /\ Init /\ Outcome!Init
    /\ Stream!Init /\ Monitoring!Init /\ Alerts!Init /\ Reads!Init
    /\ Feature!Init /\ Decision!Init /\ Switch!Init
    /\ RateLimit!Init /\ Jobs!Init /\ Calls!Init

AmlKept == UNCHANGED <<vars, outcomeVars>>
SecKept == UNCHANGED <<streamVars, monitorVars, alertVars, readVars>>
CfgKept == UNCHANGED <<featureVars, decisionVars, switchVars>>
FndKept == UNCHANGED <<limitVars, jobVars, callVars>>

AmlNext ==
    /\ \/ focus = "screening" /\ Next /\ UNCHANGED outcomeVars
       \/ focus = "outcome" /\ Outcome!Next /\ UNCHANGED vars
    /\ UNCHANGED focus /\ SecKept /\ CfgKept /\ FndKept
SecNext ==
    /\ \/ focus = "stream" /\ Stream!Next /\ UNCHANGED <<monitorVars, alertVars, readVars>>
       \/ focus = "monitoring" /\ Monitoring!Next /\ UNCHANGED <<streamVars, alertVars, readVars>>
       \/ focus = "verification" /\ Alerts!Next /\ UNCHANGED <<streamVars, monitorVars, readVars>>
       \/ focus = "reads" /\ Reads!Next /\ UNCHANGED <<streamVars, monitorVars, alertVars>>
    /\ UNCHANGED focus /\ AmlKept /\ CfgKept /\ FndKept
CfgNext ==
    /\ \/ focus = "feature" /\ Feature!Next /\ UNCHANGED <<decisionVars, switchVars>>
       \/ focus = "decision" /\ Decision!Next /\ UNCHANGED <<featureVars, switchVars>>
       \/ focus = "kill switch" /\ Switch!Next /\ UNCHANGED <<featureVars, decisionVars>>
    /\ UNCHANGED focus /\ AmlKept /\ SecKept /\ FndKept
FndNext ==
    /\ \/ focus = "rate limit" /\ RateLimit!Next /\ UNCHANGED <<jobVars, callVars>>
       \/ focus = "jobs" /\ Jobs!Next /\ UNCHANGED <<limitVars, callVars>>
       \/ focus = "calls" /\ Calls!Next /\ UNCHANGED <<limitVars, jobVars>>
    /\ UNCHANGED focus /\ AmlKept /\ SecKept /\ CfgKept

PlatformNext == AmlNext \/ SecNext \/ CfgNext \/ FndNext
allVars ==
    <<focus, vars, outcomeVars, streamVars, monitorVars, alertVars, readVars, featureVars, decisionVars, switchVars,
      limitVars, jobVars, callVars>>
PlatformSpec == PlatformInit /\ [][PlatformNext]_allVars

-----------------------------------------------------------------------------
\* Overlapping reviewers decide a match once; CLT-01 is told "clear", and the pre-transaction
\* gate allows a subject, only where a review or the screening itself found nothing.
FollowsReview ==
    focus = "outcome" => Outcome!TypeOK /\ Outcome!DecidedOnce /\ Outcome!ClearedByReview /\ Outcome!AllowedOnlyWhenCleared

\* The gate denies a subject whose newest screening has a confirmed match, as its test says.
ConfirmedDenied == Outcome!ConfirmedDenied

\* Concurrent and repeated deliveries of events leave each stream gapless and linked, answer an
\* event alike each time, and neither a seal nor an integrity run passes over an altered row.
ChainWhole ==
    focus = "stream" =>
       Stream!TypeOK /\ Stream!ChainWhole /\ Stream!AnswersAgree /\ Stream!PassMeansIntact /\ Stream!SealsHold

\* Events that cross a rule's threshold together raise one open alert of the rule's scope, and
\* one at least; a dead letter is evaluated once however often it is replayed.  Verifications
\* that fail together leave one open alert of what they verified, whoever is told of a failure
\* knows that a trace of it was left, and an alert is closed under an approval of its own.  A
\* search page by page, while rows come, has each row that was there when it began, and none
\* twice; no sensitive event is disclosed without a line in the log of sensitive reads.
MonitoringHolds ==
    /\ focus = "monitoring" =>
          Monitoring!TypeOK /\ Monitoring!OneOpenAlert /\ Monitoring!CrossingSeen /\ Monitoring!EvaluatedOnce
    /\ focus = "verification" =>
          Alerts!TypeOK /\ Alerts!OneOpenPerEntity /\ Alerts!FailureRaised /\ Alerts!ClosedByApproval
    /\ focus = "reads" => Reads!TypeOK /\ Reads!WalksAll /\ Reads!DisclosedIsLogged

\* Overlapping deactivations lift an activation of the kill switch once, an approved request lifts
\* one, and an open request of the one who activated the switch is older than that activation.
LiftedUnderRequest == Switch!TypeOK /\ Switch!LiftedOnce /\ Switch!RequestLiftsOne /\ Switch!SelfOnlyOlder

\* Overlapping changes leave each scope the seal of its rows and one active seal, no two changes
\* of a licence give it one version, one creates a feature, and a decision token verifies over a
\* change only when two overlap.  A kill switch is lifted under its own request.  What is changed
\* while a feature is evaluated or a token verified makes no answer say what never held.
ConfigurationHolds ==
    /\ focus = "feature" =>
          /\ Feature!TypeOK /\ Feature!SealMatches /\ Feature!SealCounts /\ Feature!VerifiedOnlyIfOverlapped
          /\ Feature!LicenceVersionsDiffer /\ Feature!CreatedOnce
    /\ focus = "kill switch" => LiftedUnderRequest
    /\ focus = "decision" => Decision!TypeOK /\ Decision!DecidedOnWhatHeld /\ Decision!AlarmsTell

\* Overlapping checks are admitted within the limits of their windows and not before the time a
\* denied caller was told, and every run of denials is logged; a request that is sent again is
\* carried out and audited once.  Whatever is lost between two services, a request goes on only
\* as those it asked have said, and a decision token has its action applied once at most.
FoundationHolds ==
    /\ focus = "rate limit" =>
          RateLimit!TypeOK /\ RateLimit!WithinLimits /\ RateLimit!RetryIsTrue /\ RateLimit!DenialsLogged
    /\ focus = "jobs" => Jobs!TypeOK /\ Jobs!DoneOnce /\ Jobs!OutboxTells /\ Jobs!CriticalWatched
    /\ focus = "calls" => Calls!TypeOK /\ Calls!ActedOnce /\ Calls!GoesOnAsTold
=============================================================================
