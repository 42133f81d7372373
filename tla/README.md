# Formal models of the Money Broking Platform services

TLA+ models of the backend services under `src/platform/services`: what they keep in PostgreSQL,
what their handlers do to it, and what stays true when handlers overlap, wait for locks, are
retried, roll back or die. TLC checks the modules on small instances; TLAPS proves the most
important properties for instances of any size. `PROJECT.json` maps every definition to the lines
it translates and lists the runs, a mutant of the code for each property, the hazards, the
findings and the theorems.

## 1. The system

Fastify services share one PostgreSQL server, each with its own schema, and call one another over
internal HTTP. There is no message broker and no background worker: everything happens in a
request. A handler typically runs one `READ COMMITTED` transaction (`withTransaction`) that writes
its audit row with its change, so that a failed audit write rolls the change back. Concurrency is
controlled with `SELECT ... FOR UPDATE`, advisory locks, conditional `UPDATE`s and partial unique
indexes, and in several handlers not at all. That is what the models are about.

| Component | State | Operations | Hard behaviour | What makes it correct |
|---|---|---|---|---|
| IAM-02 approvals and tokens | `approval_request`, `approval_decision`, `permission_decision_token`, policies, cache versions | request, approve, reject, permission check, execute-verify | checkers race each other, expiry and administration; redemptions race; authority lapses between approval and use | one decision per request, by somebody else; one execution per approval; nothing executes on withdrawn authority |
| IAM-02 roles, SoD, bootstrap | `user_role`, `sod_rule`, `sod_check` | assign a role, bootstrap the first administrator, check a permission | the SoD check reads rows it does not lock; a check reads its chain in several statements | roles in conflict come only from overlap; every role was approved |
| IAM-01 sessions | `session`, `refresh_token`, `password_reset_token` | login, refresh, logout, revoke, reset | nothing that is read is locked | reuse ends the session; a reset ends all of them; nothing revoked comes back |
| IAM-01 MFA, step-up | `mfa_challenge`, `mfa_factor`, `mfa_enrolment_session`, `step_up_assertion` | issue, answer, enrol | attempts are counted from an unlocked read | a bounded number of guesses; one session per challenge nobody raced on |
| WLT-01 destination use | `destination`, `destination_decision`, `limit_evaluation`, `destination_limit_profile`, evidence tables | register, assess, approve, evaluate-use, verify-and-consume, revoke | unlocked evaluation before locked writes; transactions stamped before they wait | one execution per decision, on live authority, within limits; revocation is final |
| WLT-01 rescreening | `rescreening_run` | one request, three phases | a run is taken from a worker that still lives; selection under a batch cap | honest run rows; no evidence for the revoked; runs are let in again and again |
| WLT-01 wallet screening, recovery, receipts | `wallet_screening_result`, `vendor_result_inbox` | start, provider call, receipt, stuck recovery | late and duplicate answers; recovery races the answer | a result is never replaced; an inbox row tells what became of it |
| WLT-01 proof of control, inbound source, export, public surface | `proof_of_control`, `address_integrity_check`, export tokens | register, challenge, verify, screen a source, export | one key used twice; tables read while others write | one live destination per account; one answer per key; an export of one moment |
| KYC-01 | `kyc_case`, `verification_result`, `cdd_outcome`, `manual_override_request`, `outcome_publication` | open and verify a case, decide, override, publish to CLT-01 | the remote call stands between two transactions; override races publication | what CLT-01 accepted is what the cases said when it was sent |
| AML-01 | `screening_request`, `screening_result`, `screening_match`, `monitoring_run`, `clt_outcome_delivery` | screen, rescreen, dispose of matches, recover, deliver | answers after recovery; delivery retried | one result per request; an outcome follows the review |
| CLT-01 | `client_application`, profiles, parties, users, mandates, their decision requests | draft, submit, decide under maker-checker, accept outcomes, change registers | content changes between request and decision; the roster changes under an outcome | what is approved is what was decided on; one row per place; what ended stays ended |
| CFG-01 | `feature`, `feature_version`, `licence_profile`, `kill_switch`, seals | change, kill, restore under approval, decide | a change, its seal and a decision overlap | each scope has the seal of its rows; decisions rest on what held |
| SEC-01 | `audit_stream`, `audit_event`, `audit_seal_batch`, `security_alert`, `monitoring_dead_letter` | ingest, seal, verify, alert, replay, search | concurrent ingestion into one chain; two events crossing one threshold | one gapless chain per stream; one open alert per scope; no failure without a trace |
| FND-01 and the foundation library | jobs, schedules, rate-limit counters, idempotency records | enqueue, register, count | a check counted at an older time than one before it | limits hold; a repeated request is carried out once |

Interactions: CLT-01, KYC-01, AML-01, CFG-01, SEC-01 and WLT-01 ask IAM-02 for approvals and
redeem its tokens with execute-verify; IAM-02 asks IAM-01 whether a step-up assertion is fresh and
whose it is; WLT-01 asks AML-01 and CLT-01 before it issues a decision, and AML-01 revokes
destinations through WLT-01; KYC-01 and AML-01 deliver outcomes to CLT-01; CLT-01 asks CFG-01
whether a class of clients may be opened; all of them write audit events, through SEC-01's
ingestion where it is configured. `ServiceCalls` models the calls themselves: answers that are
lost, late, refused or made twice. The modules of the callers take an answer as a choice.

Not modelled: migrations and grants beyond the unique indexes and checks that guard a race (those
are guards of the actions), the web prototype, proxy configuration, load scripts and CI guards,
and the tests and governance documents, which are read for the intended behaviour.

## 2. Modules

| Module | Models | Checked in run | Proved in |
|---|---|---|---|
| `Iam2Approval` | IAM-02 approvals, tokens and their redemption | `iam2_approval_race`, `iam2_approval_redeem` | `Iam2ApprovalProofs` |
| `DualControl` | abstract: a gated operation is submitted, decided by another user, carried out once | implemented by `Iam2Approval` (`DualControlled`) | `Iam2ApprovalProofs` |
| `Iam2RoleAssign` | role assignment, the SoD check, bootstrap | `iam` | `IamProofs` |
| `Iam2Permission` | the permission guard read by read, its tokens and the cache version | `iam` | `IamProofs` |
| `IamSession` | IAM-01 sessions, refresh tokens, password reset | `iam` | `IamProofs` |
| `IamChallenge` | MFA and step-up challenges, enrolment, lockout | `iam` | `IamProofs` |
| `WltDestinationUse` | destinations from review to use | `wlt_use_lifecycle`, `wlt` | `WltProofs` |
| `DestinationAuthority` | abstract: whitelisted once, revoked for good, a grant used once | implemented by `WltDestinationUse` (`KeepsAuthority`) | `WltProofs` |
| `WltRescreening` | rescreening runs | `wlt_rescreening` | `WltRescreeningProofs` |
| `WltScreening` | the screening of one wallet, receipts, recovery | `wlt`, `wlt_screening` | `WltProofs` |
| `WltControl` | registration and proof of control through both doors | `wlt` | `WltProofs` |
| `WltEvidence` | inbound source screening, evidence export | `wlt` | `WltProofs` |
| `WltPayout` | a fiat payout destination and its two kinds of evidence | `wlt` | `WltProofs` |
| `KycCase` | one verification case, its outcomes and overrides | `kyc` | `KycProofs` |
| `KycPublication` | publication of an application's outcome and its delivery | `kyc` | `KycProofs` |
| `AmlScreening` | screening requests, monitoring runs, recovery | `platform` | `PlatformProofs` |
| `AmlOutcome` | dispositions, delivery to CLT-01, pre-transaction gate | `platform` | `PlatformProofs` |
| `CltApplication` | a client application from draft to decision | `clt` | `CltProofs` |
| `CltRegister` | the registers of the client it becomes | `clt` | `CltProofs` |
| `CfgFeature` | approved changes of features and licences, their seals and tokens | `platform` | `CfgFndProofs` |
| `CfgKillSwitch` | the kill switch of a feature | `platform` | `CfgFndProofs` |
| `CfgDecision` | the decision engine, read by read | `platform` | `CfgFndProofs` |
| `SecStream` | audit streams, seals, integrity runs | `platform` | `PlatformProofs` |
| `SecMonitoring` | rule evaluation, alerts, dead letters | `platform` | `PlatformProofs` |
| `SecAlerts` | alerts on failed verifications and their closure | `platform` | `PlatformProofs` |
| `SecReads` | searches page by page, the log of sensitive reads | `platform` | `PlatformProofs` |
| `FndRateLimit` | the shared rate-limit engine | `platform` | `CfgFndProofs` |
| `FndJobs` | jobs and schedules under idempotency keys | `platform` | `CfgFndProofs` |
| `ServiceCalls` | the calls between the services | `platform` | `CfgFndProofs` |
| `Iam`, `Wlt`, `Kyc`, `Clt`, `Platform` | components of a service, or of services, that share no row, composed; their properties | the runs of their names | the `...Proofs` modules of their names, `CfgFndProofs` |
| `MCIam2Approval`, `MCWltDestinationUse`, `MCWltScreening`, `MCPlatform` | instances for TLC (the others are in the `.cfg` files) | | |

Components that share no row do not influence each other. A run that checks several of them
together (`iam`, `wlt`, `kyc`, `clt`, `platform`) chooses one at the start of a behaviour
(`focus`), lets it run and leaves the others in their initial states: the sum of their state spaces
is searched, not the product. That this loses nothing is proved: a behaviour of the whole is one of
each part (`PartsCompose`, `Composed` and the lemmas `Parts`).

### How a handler becomes actions

A worker is a request in progress; `work[w]`, or `pc[w]` with `req[w]` or `tx[w]`, holds the point
its transaction has reached and what it carries and has read. A handler is split wherever another
transaction can commit between two of its reads; the writes of a transaction appear in its last
step. A `FOR UPDATE` or an advisory lock is held from the step that takes it to the last one, and a
step that needs a lock is guarded by its being free. A transaction that locks, reads and writes
without waiting in between is one step. A denial that leaves no row is the step back to `"idle"`;
a rollback, a lost connection or a dead process is a step of its own (`Abort`, `Fails`, `Dies`,
`Crash`). Partial unique indexes are guards of the inserts they refuse. PostgreSQL's `now()` is
the time a transaction began; where that matters (`WltDestinationUse`, `FndRateLimit`,
`SecReads`) a transaction is stamped when it starts and may commit after one with a later stamp.

Identities are model values, payloads are opaque, and hashing, formatting, paging of plain lists
and the text of errors are left out. Audit rows commit with the change they describe and are
modelled only where a property is about them. Times are abstracted to what they decide (stuck or
not, lapsed or not) unless two times are compared.

A definition named `X_Reason` (`HoldsApproval_NoRowLock`) is a mutant of `X`: the same definition
with the slip a developer might make there. No definition uses it. `PROJECT.json` names, for every
property of every passing run, a mutant under which that run refutes the property.
`MonitoringHolds`, `ConfigurationHolds` and `FoundationHolds` are conjunctions over several components;
each of the other mutants in the modules they are about refutes them too, in the same run.

### What each module leaves out

The header of a module says what it models. Beyond that:

- `Iam2Approval`: redaction of RESTRICTED fields, notification rows, read routes. `create_read` to
  `InsertRequest` is `POST /iam2/approvals/request`; `VerifyStepUp` to `Approve` is `.../approve`;
  `GuardReject`, `LockReject`, `Reject` is `.../reject`; `PermissionCheck` issues tokens without an
  approval; `CheckToken` to `Consume` is execute-verify. `authorised[t].began` records what stood
  against an execution when its transaction began, for `NoStaleExecution`. Of an approval, the
  policy, the roles of the checker and the entitlement of the maker are read one after the other;
  the rows one entitlement is made of are read at once here, and read by read in `Iam2Permission`.
- `Iam2RoleAssign`: approved assignments that have a token are a constant, `Grants`; their minting
  is `Iam2Approval`'s subject. The role catalogue is fixed except that a role may be retired.
- `Iam2Permission`: one actor and one permission.
- `IamSession`: one user. Password hashing, network risk and device scores are left out; lockout is
  `IamChallenge`'s. A session's number is the order of `issued_at_utc`; expiry is a set (`lapsed`).
  A reset ends the sessions its UPDATE finds, which may be fewer than are active at its commit;
  logging out of all sessions and freezing the user, which no property tells apart from one moment,
  are one step. The UPDATE of the refresh tokens is of all the user's tokens.
- `IamChallenge`: recovery codes, removal of factors, and the use of a step-up assertion elsewhere.
- `WltDestinationUse`: destinations of one limit dimension. Registration is `WltControl`'s and the
  two kinds of fiat evidence `WltPayout`'s; denials that only write an evidence row, coverage
  checks and idempotency keys are left out. `Rescreen` is the effect of one candidate of a
  rescreening run, whose own life is `WltRescreening`'s.
- `WltRescreening`: `due` lists the destinations whose evidence lapses within the lead time, in the
  order the query sorts them; `aged` is the set of running runs past the stuck threshold. A COMMIT
  whose answer is lost leaves the result standing while the run counts a failure. A result whose
  validity is so short that the destination is still due is not modelled.
- `WltScreening`: signature checks and normalisation are an accepted or refused delivery. What does
  not normalise is turned away when recorded if the adaptor's version is missing, else when applied.
- `WltControl`, `WltPayout`: what CLT-01 and the public door say of a user is a choice.
- `KycCase`: the rules that compute an outcome from findings are a choice.
- `AmlScreening`: match scoring is the provider's. The advisory lock and the claims of a run take a
  connection each of one pool, so that runs may exhaust it.
- `CltApplication`, `CltRegister`: document storage and read routes. The registers of a client are
  modelled one sort at a time; they share only the client's status. A change without an approval
  reads that status unlocked (`fetchActiveClient`) and updates its row later, under a condition.
- `CfgFeature`, `CfgDecision`, `CfgKillSwitch`: which scopes a switch covers is one flag. A feature
  may be absent at first: the first change that enables it creates it, and of two that overlap the
  second fails on its code. A prohibited feature is refused at the request, and again at the apply.
- `SecStream`: a hash is what it depends on, the contents from the first row of the chain to its
  own; an alteration is one of a row's content, with or without its hash, past the application.
- `SecMonitoring`, `SecAlerts`, `SecReads`: one rule and one window; exports of events.
- `FndJobs`: another request under a used key is told of the conflict, which changes nothing.
- `FndRateLimit`: policies change by migration only and are constants.
- `ServiceCalls`: what a callee answers is a choice; only decision tokens are kept.

## 3. Runs

| Run | Instance | Properties | What it shows |
|---|---|---|---|
| `iam2_approval_race` | one request, token and operation; a policy any checker may decide under and one that asks for a role; two users, two workers; two changes of the surroundings | `DecidedOnce`, `FinalRows`, `DualControlled` | racing checkers, expiry and administration leave one decision; a decided row is final; the whole implements `DualControl` |
| `iam2_approval_redeem` | two tokens and operations, one policy, two workers, one change | `MakerChecker`, `ExecutedOnce`, `IInv`, `NoStaleExecution` | what executes was approved by somebody else for this operation, executes once, and did not begin on withdrawn authority |
| `iam` | three sessions and refresh tokens, a cap of one, one reset, two workers; five roles, a rule on permissions and one on roles, two users; two challenges of two attempts, or an enrolment with two factors; the reads of the permission guard | `SessionsEnd`, `RevivesNothing`, `ConflictsOnlyFromOverlap`, `GuessesBounded` | reuse and reset end sessions, logins exceed the cap only by those open at once; roles conflict only if their assignments overlapped; guesses are bounded |
| `wlt_use_lifecycle` | one wallet or fiat destination, one approval, one decision, two executions, two evidence rows, three ticks, two workers | `OneExecution`, `LiveAuthority`, `WhitelistedClear`, `KeepsAuthority` | the life of a destination from review to use and revocation, all handlers overlapping; it implements `DestinationAuthority` |
| `wlt` | two whitelisted destinations, amounts 1 and 2, three decisions, two days; registration, evidence, payout and the screening of one wallet on their own | `LimitsRespected`, `OneLive`, `ApprovedIsProven`, `AnswersAgree`, `ExportWhole`, `ReceiptsTell`, `ResultStands` | limits hold over racing consumptions; one live destination per account, approved on proof; one answer per key; an export is of one moment; a screening's result stands whatever comes after; an inbox row says what became of the receipt |
| `wlt_rescreening` | an unscreenable destination and a wallet, two runs, two workers, one crash, a forgotten answer | `RunsAccount`, `RevokedFrozen`, `NeverShut` | run rows are honest; no evidence after revocation; requests are let in again and again |
| `wlt_screening` | two screenings; two receipts that name the first, one of them another provider's, with two bodies each; two workers, one death | `AppliedIsProcessed` | a receipt that was applied is marked so in the end, though the process dies in between |
| `clt` | an application of two classes, one party, one candidate, two requests; registers of two rows and three changes; two workers | `ApprovedSoundly`, `DecidedIsFrozen`, `OnePlaceEach`, `EndedForGood` | what is approved is what was decided on; a decided application is closed; one row per place; what ended stays ended |
| `kyc` | one party, two publications, two cases, one straggling call; one case with two overrides | `AcceptedSoundly`, `AcceptedAsOfSending`, `OverrideStands` | what CLT-01 holds covers its roster and was current when sent; an override replaces what it was approved against |
| `platform` | see the header of `MCPlatform` | `RunsAccount`, `EndedStands`, `FollowsReview`, `ChainWhole`, `MonitoringHolds`, `ConfigurationHolds`, `FoundationHolds` | AML-01, SEC-01, CFG-01, FND-01 and the calls between services |
| `clt_register_closed` | as `clt` | `NoneAddedToInactive`, violated | section 4 |
| `aml_confirmed_denied` | as `platform` | `ConfirmedDenied`, violated | section 4 |

### Bounds and why they are enough

The races of this code are between two transactions that meet on one row, one client or one
chain, because that is what the handlers lock or fail to lock. Two workers reach
every order of two transactions' steps; a worker starts again when it has finished, so that a
behaviour holds many transactions, of which two are open at once. Three
sessions are one that is revoked, one that survives and one that is issued meanwhile, and a cap of
one is overrun by the second. Three limit decisions are two that fit and one that does not, and two
days are what a daily and a rolling limit differ in. Two changes of the surroundings let one undo
what a check has read and a second one what the first did. One crash is enough where each crash
leaves the state another request has to recover from; two runs are one reclaimed and the one that
reclaims it. The proofs of section 5 do not depend on these bounds.

Bounds of the models that the code does not have are constants or named operators (`MaxDecisions`,
`MaxEvidence`, `MaxTime`, `MaxOutcomes`, `MaxVersion`, `MaxRowVersion`, `MaxSeals`, `MaxRuns`,
`MaxCrashes`, `MaxDeaths`, `MaxStragglers`, `MaxChanges`, and the constraints built into next-state
relations: `OutcomeBound`, `AlertBound`, `FeatureBound`, `DecisionBound` and `CallBound` in
`MCPlatform`, `SessionBound`, `GuardBound` and `MfaBound` in `Iam`); the identities are finite sets.

`CHECK_DEADLOCK FALSE`: identities, counters and clocks are bounded, and a service without a request
rests; both are states without a successor. That something gets on nevertheless is what the two
liveness properties say. Symmetry is used in runs without a liveness property only, over workers
and over identities that no constant tells apart.

### Fairness

Two modules state fairness, each for the steps the code's runtime takes without anybody's doing.

- `WltRescreening!FairSpec`: of the requests in progress, some request gets on (weak fairness of
  their disjunction: the process runs its promises, but no single request is promised a turn); a
  running run gets old; periodic runs are requested and given the lock again and again (an
  operator's schedule); and a provider that is asked about a destination again and again answers in
  the end. Without the second a run whose process died would shut out the others for good, and
  without the third there would be nobody to let in. `NeverShut` follows: whatever crashes, requests
  are let in again and again.
- `WltScreening!FairSpec`: the provider delivers again what was not acknowledged, and a delivery in
  progress gets on. `AppliedIsProcessed` follows: a receipt that was applied is marked so in the
  end, although the process may die between the two transactions.

No other obligation of this code is one to act: everything else happens on request.

## 4. Findings

Two statements of the repository are contradicted by the code, and a run shows how.

- `clt_register_closed`: the comment at `clt1/src/routes/authorised-users.ts:265` says that no
  transaction ever writes a client's status, so that reading it without a lock has nothing to race
  against. `client-profiles.ts:255` writes it. A user or a mandate is added to a client that was
  suspended between the read and the insert.
- `aml_confirmed_denied`: `tests/integration/aml1-pre-transaction-route.test.ts:417` says that a
  confirmed hit denies, after inserting the overall status `confirmed_hit` itself. No handler writes
  that status: a disposition changes the match only, and the gate answers `review`
  (`aml1/src/lib/pre-transaction.ts:222`).

Seen while modelling, without a statement in the repository that they contradict or a run of their
own. Where a property describes what holds instead it is named.

Identity (IAM-01, IAM-02):

- Overlapping logins exceed the session cap by up to the number of other open transactions
  (`lib/session.ts:64`; `SessionsEnd` is that bound).
- Two overlapping refreshes rotate one token twice, without a report of reuse (`lib/session.ts:417`);
  a later reuse of it ends the session. A reset token can be used by two overlapping confirmations.
- Conflicting roles come of overlapping assignments (`ConflictsOnlyFromOverlap`: only of these).
- An MFA verification writes unconditionally: of two that overlap both may pass, and a wrong code may
  set a passed challenge back to pending. Enrolment does not look at the row count of its update, and
  an activation may revive a factor revoked meanwhile.
- A step-up assertion outlives its session (`routes/step-up.ts:342`).
- Only role assignments raise the cache version; revocations and denies by the owner of the data do
  not, and are caught by the live check at redemption. The expiry of a role is compared with the
  start of the transaction.

Destinations (WLT-01):

- An assessment that commits between the verification of an approval token and the locked write
  replaces the evidence the approval named. `WhitelistedClear` shows that it is clear too.
- Destinations that cannot be screened head the due list, and enough of them fill every batch.
- `finalizeRescreeningRun` is unconditional (`lib/rescreening.ts:163`): a run reclaimed as failed is
  rewritten as completed. `RunsAccount` shows that the rewritten row is truthful.
- An applied receipt can still be rejected as invalid by a delivery that overlaps; the code that
  would heal it is unreachable. A wallet under review whose screening turns adverse has no way out.
- A key of an export, an inbound screening or a payout assessment stays `processing` after a failed
  attempt. The token of a fiat approval names the screening but not the verification.

Cases and clients (KYC-01, CLT-01):

- The second transaction of a publication writes `failed` over `succeeded`. A call delayed past a
  newer success leaves CLT-01 with the older outcome (`AcceptedSoundly`: only such a call).
- An override asks whether its requester provided findings only before it calls IAM-02.
- CLT-01 checks the status of a client before it takes the registration lock.

Screening (AML-01):

- Monitoring selects subjects whose latest request is `completed`, against the header of its file.
- Monitoring runs hold two connections each and can exhaust the pool they share.
- A retried delivery carries the stored status; overlapping ones write `failed` over `succeeded`.

Configuration and audit (CFG-01, SEC-01):

- Whoever requested a deactivation before activating the kill switch can lift it himself
  (`Switched` says exactly when).
- A failed apply spends the IAM-02 token and leaves the change requested. A change that waited for a
  seal since superseded fails. The conditions of an allow need not have held at one moment. A licence
  change that commits between the read of the rows and of the seal raises an integrity alarm.
- Verification of a CFG-01 token reads it unlocked, and may verify one being revoked.
- An escalated alert has no exit and suppresses further alerts of its scope. An event whose process
  dies after ingestion is not evaluated. A seal may reach past the end of its chain and fails later.
  An altered last row passes verification if its hash was altered with it. A failed run whose process
  dies before raising its alert has none until its key is retried. A critical closure that fails
  after its token was spent needs a new one. An event committed late is not in pages already past it.

Foundation (FND-01, calls):

- A second denial can be logged without an allow in between. A job enqueued under another
  `Idempotency-Key` with a used body key is accepted and not queued. Registering again keeps the first
  owner; a replayed registration is told the job's current setting. All callers share one scope of
  keys. The smoke test cannot record that the database is unreachable.
- The IAM-02 clients of CLT-01, CFG-01 and SEC-01, and CLT-01's of CFG-01, set no timeout. A token
  verification that timed out may still be spent by the call, and its retry is then refused.

## 5. Proofs

TLAPS checks the proofs for every value of the constants that meets the assumptions stated where
the constants are declared. `PROJECT.json` lists the theorems; these are the ones about behaviours.

| Module | Theorems | State that |
|---|---|---|
| `Iam2ApprovalProofs` | `Inductive`, `TypeCorrect`, `OneDecision`, `FourEyes`, `SingleUse`, `DecidedForGood`, `NoneStale`, `Refinement` | `IInv`, `TypeOK`, `DecidedOnce`, `MakerChecker`, `ExecutedOnce`, `FinalRows`, `NoStaleExecution`; `Spec` implements `DualControl` |
| `IamProofs` | `SessionsAreEnded`, `NoneRevived`, `RolesAndChecks`, `Guesses` | `SessionsEnd`, `RevivesNothing`, `ConflictsOnlyFromOverlap`, `GuessesBounded` |
| `WltProofs` | `SpentOnce`, `Live`, `ClearWhenWhitelisted`, `FirstUseMarked`, `LimitsKept`, `Refinement` | `OneExecution`, `LiveAuthority`, `WhitelistedClear`, `FirstUseOnce`, `VelocityRespected` of the destinations; `Spec` implements `DestinationAuthority` |
| | `PartsCompose`, `LimitsHold`, `LiveOnce`, `ApprovalProven`, `OneAnswer`, `ExportSoundly`, `Tells`, `Stands` | a behaviour of `Wlt` is one of each part; `LimitsRespected`, `OneLive`, `ApprovedIsProven`, `AnswersAgree`, `ExportWhole`, `ReceiptsTell`, `ResultStands` |
| `WltRescreeningProofs` | `RunsTell`, `RevokedStays` | `RunsAccount`, `RevokedFrozen` |
| `KycProofs` | `Sound`, `AsOfSending`, `OverridesStand`, `Together` | `AcceptedSoundly`, `AcceptedAsOfSending`, `OverrideStands`, one by one and of the composition |
| `CltProofs` | `Sound`, `Frozen`, `RegisterOnePlace`, `RegisterEnded`, `Together` | `ApprovedSoundly`, `DecidedIsFrozen`, `OnePlaceEach`, `EndedForGood`, one by one and of the composition |
| `PlatformProofs` | `Accounted`, `EndsStand`, `ReviewFollowed`, `StreamWhole`, `MonitoringSound`, `Composed` | `RunsAccount`, `EndedStands`, `FollowsReview`, `ChainWhole`, `MonitoringHolds`; a behaviour of `Platform` is one of each part |
| `CfgFndProofs` | `Switched`, `ConfigurationSound`, `FoundationSound` | `LiftedUnderRequest`, `ConfigurationHolds`, `FoundationHolds` |

Every safety proof has the same shape: an inductive invariant, one lemma per handler that the
handler preserves it, a lemma that the invariant implies the property, and the temporal step by
PTL. What a lemma must say about the requests that do not take the step is proved once, in frame
lemmas (`OthersKept`, `OthersEvaluate`, `VerificationEnds` and the like): another request keeps
what it knows if the step leaves its lock, its row and its own variables alone, or moves them only
forward. A refinement is proved by mapping each handler to a step of the abstract specification, or
to a stutter. Action properties follow from the same invariants.

The properties themselves are seldom inductive. What is added to them is what the requests in
progress know of the rows:

- IAM-02 approvals: who holds a row lock holds it alone (`Locking`), the rows a request carries were
  there as it carries them (`Filled`), and an approval and a token come of each other
  (`Provenance`). `NoStaleExecution` needs that what stood against an execution when it began either
  still stands or was lifted under it: a deny lifted and imposed again in between is outside the
  model.
- Sessions: the cap is no invariant, as logins do not see each other's session. `CapShared` is: for
  every set W of logins that have counted, the sessions they will leave and W itself are together
  within the cap and the number of transactions. Evictions and creations are charged to it.
- Roles: a transaction past its token holds that token alone, and past the check nothing its target
  held when it began conflicts with the role. Only the sealed administrator's role has no grant.
- Permission checks: of what stood against the actor since a check began, nothing is left that the
  check has already looked for; what the actor held throughout is among the grants found; and a
  token is bound to a version no later than the one its grants were read at.
- Challenges: while the lockout is on, the guesses and the verifications under way are together
  within the maximum and the other requests (`GuessesShared`); a challenge nobody raced for counts
  every wrong code and has given nothing until it passes.
- Destinations: `Rows` relates a destination, its evidence, approvals, decisions and pass rows;
  `Everyone` says of each request what its locks let it rely on. For the limits (`VelocityInv`) a
  consumption that holds the client's lock knows that its amount fits on top of all rows not before
  its day, and of all less than a window before its stamp: these include the rows of every day and
  window that its own row will be counted in, also of those that later stamps have reached already.
  Amounts are summed unit by unit, as the size of a set, so that what a row adds can be proved.
- Rescreening: who runs a run (`Owned`, `Alone`, `Single`), how far it has come (`Progress`), and
  that the counts add up (`Accounts`).
- Proof of control: a destination is the answer of one key, the one it was registered under; one
  challenge of a destination at most is open or verified; and what a challenge refused is what it
  counted (`ControlIInv`). Sources and exports: a completed key names the row its answer came from,
  and the second read of an export is made of the snapshot of the first (`RecordsIInv`). Payout: a
  decision, by its number, precedes every row of evidence newer than those it rests on, and a
  request at its providers read a status no later than the row's (`PayoutIInv`).
- Wallet screening: one pending row (`OnePending`), where each answer came from (`Provenance`), and
  that inbox and result fit (`Row`, `Fit`).
- KYC-01: the newest publication is the active one (`NewestIsActive`), what is in flight fits the
  rows it was built from (`Whole`, `InFlight`, `Fit`); and an override request that is filed names
  an outcome no override set, so that same number and same result mean the same outcome.
- CLT-01: the number a request was decided on is the number it is bound to, a holder of the
  application's lock is alone (`OneHolder`), and a filed request fits its row (`Filed`, `Fit`).
- AML-01 screenings: a subject is claimed by one run; to do, claimed, created and failed are
  together what the run selected.
- AML-01's review: a match that was decided, or was never there, stays as it is, so that what a
  delivery was planned from may only have moved forward since (`OutcomeIInv`).
- SEC-01 streams: each chain is linked without a gap up to its head (`Chain`), the head's lock is
  held by one, and a pass or a seal means that what it covers was intact.
- SEC-01's monitoring: an event is evaluated by one worker, and evaluations of one scope exclude each
  other; who is about to create an alert knows that none is open (`MonitorIInv`). Closed alerts stay
  closed and tokens bound, so that a closure may rely on what it found (`AlertIInv`). A search's
  cursor splits the visible rows into those it has shown and those still to come (`ReadIInv`).
- CFG-01's kill switch: a deactivation that was applied ended the activation it names (`History`,
  `Counted`), and a filed request fits the switch (`SwitchFiled`, `SwitchFit`).
- CFG-01's changes: a change is held by one worker from its lock on, a licence's row from its read
  on; a row's version is the last applied to it, none if it is not there; a seal counts what was
  applied in its scope, and a token's version is one of the row's (`FeatureIInv`). Its decisions: each read leaves its condition
  among those that have held since the transaction began, and the verdict follows from what was
  read (`DecisionIInv`).
- FND-01's rate limit: a check counts one more than the one before it or begins a window, not before
  the last has ended (`LimitIInv`). Jobs: a key's record and audit row are written together, once,
  and the tables hold what the outbox says in its order (`JobsIInv`). Calls: a token is acted on by
  the one request that heard it stands (`CallsIInv`).

The invariants were checked by TLC first. In the compositions (`Iam`, `Wlt`, `Kyc`, `Clt`,
`Platform`) a lemma (`Parts`, `PartsHold`) or a theorem (`PartsCompose`, `Composed`) shows that a
behaviour of the whole is one of each part, as what is not in focus stands still; the theorems about
the parts then hold of the whole.

### Assumptions

Named in the module that declares the constants, evaluated by TLC in the runs, and no stronger than
the code: bounds, amounts and limits are natural numbers, and a limit may be unset, and the session cap and the maximum of attempts
are not zero; `None` is none of the identities and statuses; sets of workers, of runs, of events
and of screenings are finite where they are counted; requests, runs and destinations that the code
orders are numbers; the sealed administrator is a user and an administrator's role is a role;
features are no licences; and WLT-01's settings are positive (`Configured`), as its configuration
loader lets no process start otherwise.
There are no other assumptions: what is proved of `Spec` is proved for any number of requests.

### Checked by TLC only

- Liveness (`NeverShut`, `AppliedIsProcessed`) and anything with ENABLED: outside the provers.
- The two findings of section 4.

## 6. Plan

What is left is where the models stop, rather than the proofs: the code listed under "what each
module leaves out" in section 2 and the components that are modelled in part (roles and
bootstrap, MFA, cases, applications). Liveness stays with TLC.
