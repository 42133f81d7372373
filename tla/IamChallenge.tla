---------------------------- MODULE IamChallenge ----------------------------
(***************************************************************************)
(* IAM-01: the MFA and step-up challenges of one user, the enrolment of a  *)
(* TOTP factor, and the lockout they share.  A verification reads the      *)
(* challenge or the factor without a lock, judges the code, and writes     *)
(* what follows from what it read; only the lockout's counter is           *)
(* incremented in place.                                                   *)
(***************************************************************************)
EXTENDS Naturals, FiniteSets

CONSTANTS
    Challenges, Factors, Workers,
    MaxAttempts,    \* rateLimit.mfaMaxAttempts
    MaxWrong, MaxGrants,    \* bounds: wrong codes and sessions of one challenge
    None

VARIABLES
    challenge,  \* iam.mfa_challenge
    lockout,    \* iam.account_lockout of the user's MFA: failed_count, and whether locked_until is ahead
    factor,     \* iam.mfa_factor.factor_status
    enrolment,  \* iam.mfa_enrolment_session: status, factor
    work,
    granted,    \* history: sessions or assertions given for each challenge, and for the enrolment
    wrong,      \* history: codes judged wrong for each challenge
    guesses,    \* history: codes judged wrong since the lockout was last reset or ended
    raced       \* history: challenges, or the enrolment, changed between the read and the write of a verification

vars == <<challenge, lockout, factor, enrolment, work, granted, wrong, guesses, raced>>

Enrolment == "enrolment"
NoChallenge == [status |-> None, attempts |-> 0]
NoEnrolment == [status |-> None, factor |-> None]
Unlocked == [count |-> 0, locked |-> FALSE]
Idle == [at |-> "idle", of |-> None, read |-> None]

Rest(w) == work' = [work EXCEPT ![w] = Idle]
Pending == [status |-> "pending", attempts |-> 0]

-----------------------------------------------------------------------------
(* Lockout *)

Locks_Above(count) == count > MaxAttempts
Locks(count) == count >= MaxAttempts

\* recordFailure: one INSERT ... ON CONFLICT DO UPDATE failed_count + 1.  Only whether the count
\* has reached MaxAttempts matters, so it stops there.
RecordFailure ==
    LET count == lockout.count + 1 IN
    /\ lockout' = [count |-> IF count < MaxAttempts THEN count ELSE MaxAttempts,
                   locked |-> lockout.locked \/ Locks(count)]
    /\ guesses' = guesses + 1

ResetOnSuccess == lockout' = Unlocked /\ guesses' = 0

LockoutEnds ==
    /\ lockout.locked
    /\ lockout' = [lockout EXCEPT !.locked = FALSE] /\ guesses' = 0
    /\ UNCHANGED <<challenge, factor, enrolment, work, granted, wrong, raced>>

-----------------------------------------------------------------------------
(* Challenges *)

\* A login with a password, or a step-up by a session of the user.
Begin(c) ==
    /\ challenge[c] = NoChallenge /\ \E f \in Factors : factor[f] = "active"
    /\ challenge' = [challenge EXCEPT ![c] = Pending]
    /\ UNCHANGED <<lockout, factor, enrolment, work, granted, wrong, guesses, raced>>

Reissue(c, new) ==
    /\ challenge[c].status \notin {None, "passed"} /\ challenge[new] = NoChallenge
    /\ challenge' = [challenge EXCEPT ![c].status = IF @ = "pending" THEN "expired" ELSE @, ![new] = Pending]
    /\ UNCHANGED <<lockout, factor, enrolment, work, granted, wrong, guesses, raced>>

Usable_Passed(c) == challenge[c].status \in {"pending", "passed"}
Usable(c) == challenge[c].status = "pending"

Read(w, c) ==
    /\ work[w] = Idle /\ Usable(c) /\ ~lockout.locked
    /\ work' = [work EXCEPT ![w] = [at |-> "challenge", of |-> c, read |-> challenge[c]]]
    /\ UNCHANGED <<challenge, lockout, factor, enrolment, granted, wrong, guesses, raced>>

\* One that comes after expires_at_utc expires the challenge.
ReadLate(c) ==
    /\ challenge[c].status = "pending"
    /\ challenge' = [challenge EXCEPT ![c].status = "expired"]
    /\ UNCHANGED <<lockout, factor, enrolment, work, granted, wrong, guesses, raced>>

Races(w, now) == raced' = IF now = work[w].read THEN raced ELSE raced \cup {work[w].of}

\* None, if the user is not active by then.
Grant(c) == granted[c] < MaxGrants /\ (granted' = [granted EXCEPT ![c] = @ + 1] \/ UNCHANGED granted)

AfterWrong_Kept(read) == [read EXCEPT !.status = IF read.attempts + 1 >= MaxAttempts THEN "failed" ELSE "pending"]
AfterWrong_OneEarly(read) ==
    [read EXCEPT !.attempts = @ + 1, !.status = IF read.attempts + 2 >= MaxAttempts THEN "failed" ELSE "pending"]
AfterWrong(read) ==
    [status |-> IF read.attempts + 1 >= MaxAttempts THEN "failed" ELSE "pending", attempts |-> read.attempts + 1]

\* UPDATE ... WHERE challenge_id, from the count that was read.
WrongCode(w) ==
    LET c == work[w].of IN
    /\ work[w].at = "challenge" /\ Rest(w) /\ Races(w, challenge[c])
    /\ challenge' = [challenge EXCEPT ![c] = AfterWrong(work[w].read)]
    /\ RecordFailure
    /\ wrong[c] < MaxWrong /\ wrong' = [wrong EXCEPT ![c] = @ + 1]
    /\ UNCHANGED <<factor, enrolment, granted>>

RightCode(w) ==
    LET c == work[w].of IN
    /\ work[w].at = "challenge" /\ Rest(w) /\ Races(w, challenge[c])
    /\ challenge' = [challenge EXCEPT ![c].status = "passed"]
    /\ ResetOnSuccess
    /\ Grant(c)
    /\ UNCHANGED <<factor, enrolment, wrong>>

-----------------------------------------------------------------------------
(* Enrolment *)

\* A login of a user who must use MFA and has no factor.
BeginEnrolment ==
    /\ enrolment = NoEnrolment /\ \A f \in Factors : factor[f] # "active"
    /\ enrolment' = [status |-> "active", factor |-> None]
    /\ UNCHANGED <<challenge, lockout, factor, work, granted, wrong, guesses, raced>>

\* From the enrolment session, or from a session of the user.
Enrol(f, session) ==
    /\ factor[f] = None /\ session => enrolment.status = "active"
    /\ factor' = [g \in Factors |-> IF g = f THEN "pending" ELSE IF factor[g] = "pending" THEN "revoked" ELSE factor[g]]
    /\ enrolment' = IF session THEN [enrolment EXCEPT !.factor = f] ELSE enrolment
    /\ UNCHANGED <<challenge, lockout, work, granted, wrong, guesses, raced>>

ReadFactor(w, f, session) ==
    /\ work[w] = Idle /\ factor[f] = "pending"
    /\ IF session THEN enrolment.status = "active" /\ enrolment.factor = f ELSE ~lockout.locked
    /\ work' = [work EXCEPT ![w] = [at |-> IF session THEN "enrolling" ELSE "adding", of |-> Enrolment,
                                    read |-> <<f, enrolment>>]]
    /\ UNCHANGED <<challenge, lockout, factor, enrolment, granted, wrong, guesses, raced>>

Used_Kept(e) == e
Used(e) == [e EXCEPT !.status = "used"]

\* The factor becomes active; from an enrolment session, that is used and a session given.
Enrolled(w) ==
    LET f == work[w].read[1] IN
    /\ work[w].at \in {"enrolling", "adding"} /\ Rest(w)
    /\ factor' = [factor EXCEPT ![f] = "active"]
    /\ IF work[w].at = "enrolling"
       THEN /\ enrolment' = Used(enrolment) /\ UNCHANGED <<lockout, guesses>>
            /\ raced' = IF enrolment = work[w].read[2] THEN raced ELSE raced \cup {Enrolment}
            /\ Grant(Enrolment)
       ELSE ResetOnSuccess /\ UNCHANGED <<enrolment, raced, granted>>
    /\ UNCHANGED <<challenge, wrong>>

\* A wrong code counts against the user's MFA, or against the enrolment session, in its own scope.
NotEnrolled(w) ==
    /\ work[w].at \in {"enrolling", "adding"} /\ Rest(w)
    /\ IF work[w].at = "adding" THEN RecordFailure ELSE UNCHANGED <<lockout, guesses>>
    /\ UNCHANGED <<challenge, factor, enrolment, granted, wrong, raced>>

-----------------------------------------------------------------------------
Init ==
    /\ challenge = [c \in Challenges |-> NoChallenge]
    /\ lockout = Unlocked
    /\ factor \in [Factors -> {None, "active"}] /\ enrolment = NoEnrolment
    /\ work = [w \in Workers |-> Idle]
    /\ granted = [g \in Challenges \cup {Enrolment} |-> 0]
    /\ wrong = [c \in Challenges |-> 0] /\ guesses = 0 /\ raced = {}

Next ==
    \/ \E c \in Challenges :
          \/ Begin(c) \/ ReadLate(c)
          \/ \E new \in Challenges : Reissue(c, new)
          \/ \E w \in Workers : Read(w, c)
    \/ \E f \in Factors, session \in BOOLEAN : Enrol(f, session) \/ \E w \in Workers : ReadFactor(w, f, session)
    \/ \E w \in Workers : WrongCode(w) \/ RightCode(w) \/ Enrolled(w) \/ NotEnrolled(w)
    \/ LockoutEnds \/ BeginEnrolment

Spec == Init /\ [][Next]_vars

-----------------------------------------------------------------------------
ChallengeStatuses == {"pending", "expired", "failed", "passed"}
FactorStatuses == {"pending", "active", "revoked"}
EnrolmentStatuses == {"active", "used"}         \* an enrolment that has expired cannot be read any more

TypeOK ==
    /\ \A c \in Challenges : challenge[c].status \in ChallengeStatuses \cup {None}
    /\ \A c \in Challenges : challenge[c].attempts <= wrong[c] /\ (challenge[c].status = "failed" => challenge[c].attempts >= MaxAttempts)
    /\ \A f \in Factors : factor[f] \in FactorStatuses \cup {None}
    /\ enrolment.status \in EnrolmentStatuses \cup {None} /\ enrolment.factor \in Factors \cup {None}

\* Between two resets or ends of the lockout the user is judged wrong at most MaxAttempts times,
\* and once more for each verification already past the check, over all challenges, however
\* they are reissued.
GuessesBounded == guesses < MaxAttempts + Cardinality(Workers)

\* A challenge that no two verifications overlapped on gives one session or assertion and counts
\* every wrong code.
ExactUnlessRaced ==
    \A c \in Challenges \ raced : granted[c] <= 1 /\ challenge[c].attempts = wrong[c]

\* An enrolment session that no two verifications overlapped on gives one session.
EnrolsOnce == Enrolment \notin raced => granted[Enrolment] <= 1
=============================================================================
