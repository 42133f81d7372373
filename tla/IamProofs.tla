------------------------------ MODULE IamProofs ------------------------------
(***************************************************************************)
(* IAM, for any users, roles, rules, challenges, tokens and any finite set *)
(* of transactions open at once: the sessions of a user, the assignment of *)
(* roles, the permission checks, the challenges and their lockout, and the *)
(* composition of them all.                                                *)
(***************************************************************************)
EXTENDS Iam, FiniteSetTheorems, WellFoundedInduction, TLAPS

-----------------------------------------------------------------------------
(* The sessions.  Logins that overlap do not see each other's session, so  *)
(* the cap itself is no invariant; CapShared is: the sessions that a set   *)
(* of logins which have counted will leave, and those logins, are together *)
(* within the cap and the number of transactions.                          *)


Counted == {w \in Workers : pc[w] = "counted"}
LoggingIn(w) == pc[w] \in {"login", "counted"}
Evicting(W) == UNION {tx[w].evict : w \in W}

CapShared ==
    \A W \in SUBSET Counted :
        Cardinality(Active \ Evicting(W)) + Cardinality(W) <= MaxConcurrent + Cardinality(Workers) - 1

\* The session a login is to make is nobody else's and not yet made.
Numbered ==
    /\ \A w \in Workers : LoggingIn(w) => tx[w].session \in Sessions /\ session[tx[w].session] = "none"
    /\ \A v, w \in Workers : LoggingIn(v) /\ LoggingIn(w) /\ tx[v].session = tx[w].session => v = w

\* Tokens are issued in order, each for a session there is.
Issued ==
    /\ \E k \in 0..MaxTokens : \A t \in Tokens : token[t].status # "none" <=> t <= k
    /\ \A t \in Tokens : token[t].status # "none" =>
          token[t].session \in Sessions /\ session[token[t].session] # "none"

\* A transaction about a token knows one that was issued.
Resolved ==
    \A w \in Workers :
        /\ pc[w] \in {"reuse", "lapsed", "resolved", "live", "rotate", "frozen"} =>
              /\ tx[w].token \in Tokens /\ token[tx[w].token].status # "none"
              /\ tx[w].session \in Sessions /\ session[tx[w].session] # "none"
        /\ pc[w] \in {"reset", "revoking"} => tx[w].reset \in Resets
        /\ pc[w] = "revoking" => \A s \in tx[w].evict : session[s] # "none"

\* What was reported or reset is revoked, and not only inactive.
Ended == \A s \in reported \cup outlived : session[s] = "revoked"

IInv == TypeOK /\ CapShared /\ Numbered /\ Issued /\ Resolved /\ Ended

-----------------------------------------------------------------------------
(* Naturals.                                                               *)

\* A nonempty set of naturals has a least element.
LEMMA NatLeast ==
  ASSUME NEW S \in SUBSET Nat, S # {}
  PROVE  \E m \in S : \A x \in S : m <= x
<1> DEFINE R == {p \in Nat \X Nat : p[1] < p[2]}
<1>1. IsWellFoundedOn(R, Nat)
  BY NatLessThanWellFounded DEF OpToRel
<1> HIDE DEF R
<1>2. PICK m \in S : \A x \in S : ~ (<<x, m>> \in R)
  BY <1>1, WFMin
<1>3. ASSUME NEW x \in S PROVE m <= x
  <2>1. m \in Nat /\ x \in Nat
    OBVIOUS
  <2>2. x < m => <<x, m>> \in R
    BY <2>1 DEF R
  <2> QED  BY <1>2, <2>1, <2>2
<1> QED  BY <1>3

\* A nonempty set of naturals that has a bound has a maximum.
LEMMA MaxIs ==
  ASSUME NEW S \in SUBSET Nat, S # {}, NEW n \in Nat, \A x \in S : x <= n
  PROVE  Max(S) \in S /\ \A x \in S : x <= Max(S)
<1> DEFINE U == {u \in Nat : \A x \in S : x <= u}
<1>1. PICK m \in U : \A u \in U : m <= u
  <2>1. U \in SUBSET Nat /\ n \in U
    OBVIOUS
  <2> HIDE DEF U
  <2> QED  BY <2>1, NatLeast
<1>2. m \in S
  <2>1. SUFFICES ASSUME m \notin S PROVE FALSE
    OBVIOUS
  <2>2. \A x \in S : x <= m - 1
    BY <2>1
  <2>3. m - 1 \in Nat
    <3>1. PICK x \in S : TRUE
      OBVIOUS
    <3>2. x \in Nat /\ m \in Nat /\ x <= m - 1
      BY <2>2, <3>1
    <3> QED  BY <3>2
  <2>4. m - 1 \in U
    BY <2>2, <2>3
  <2> QED  BY <1>1, <2>3, <2>4
<1>3. \E x \in S : \A y \in S : x >= y
  BY <1>2
<1>4. Max(S) \in S /\ \A y \in S : Max(S) >= y
  BY <1>3 DEF Max
<1> QED  BY <1>4

\* Subsets of finite sets of sessions, tokens and workers are finite.
LEMMA Finite ==
  /\ \A S \in SUBSET Sessions : IsFiniteSet(S) /\ Cardinality(S) \in Nat
  /\ \A T \in SUBSET Tokens : IsFiniteSet(T) /\ Cardinality(T) \in Nat
  /\ \A W \in SUBSET Workers : /\ IsFiniteSet(W) /\ Cardinality(W) \in Nat
                               /\ Cardinality(W) <= Cardinality(Workers)
  /\ Cardinality(Workers) \in Nat
<1>1. IsFiniteSet(Sessions) /\ IsFiniteSet(Tokens)
  BY FS_Interval, BoundAssumption DEF Sessions, Tokens
<1> QED  BY <1>1, WorkersAssumption, FS_Subset, FS_CardinalityType

\* A login that counts S leaves room for its own session: what it does not evict is below the cap.
LEMMA KeptFew ==
  ASSUME NEW S \in SUBSET Sessions
  PROVE  Cardinality(S \ Oldest(S)) <= MaxConcurrent - 1
<1> USE CapAssumption
<1> DEFINE K == S \ Oldest(S)
           newer(s) == {x \in S : x > s}
<1>0. K \subseteq S /\ S \in SUBSET Nat
  BY BoundAssumption DEF Sessions
<1>1. \A s \in K : Cardinality(newer(s)) < MaxConcurrent - 1
  <2>1. \A s \in S : Cardinality(newer(s)) \in Nat
    BY Finite
  <2>2. \A s \in K : s \in S /\ ~(Cardinality(newer(s)) >= MaxConcurrent - 1)
    BY DEF Oldest
  <2> HIDE DEF newer, K
  <2> QED  BY <2>1, <2>2
<1>2. CASE K = {}
  BY <1>2, FS_EmptySet
<1>3. CASE K # {}
  <2>1. PICK m \in K : \A x \in K : m <= x
    <3> HIDE DEF K
    <3> QED  BY <1>0, <1>3, NatLeast
  <2>2. K \ {m} \subseteq newer(m)
    <3> SUFFICES ASSUME NEW x \in K, x # m PROVE x \in S /\ x > m
      OBVIOUS
    <3>1. x \in S /\ x \in Nat /\ m \in Nat /\ m <= x
      BY <1>0, <2>1
    <3> QED  BY <3>1
  <2>3. Cardinality(K \ {m}) <= Cardinality(newer(m))
    BY <2>2, Finite, FS_Subset
  <2>4. Cardinality(K \ {m}) = Cardinality(K) - 1
    BY <2>1, Finite, FS_RemoveElement
  <2>5. Cardinality(K) \in Nat /\ Cardinality(newer(m)) \in Nat
    BY Finite
  <2>6. Cardinality(newer(m)) < MaxConcurrent - 1
    BY <1>1, <2>1
  <2>7. Cardinality(K) <= MaxConcurrent - 1
    <3> HIDE DEF K, newer
    <3> QED  BY <2>3, <2>4, <2>5, <2>6
  <2> QED  BY <2>7
<1> QED  BY <1>2, <1>3

\* The next session's number is above all that are made or under way.
LEMMA NextSessionNew ==
  ASSUME TypeOK
  PROVE  /\ NextSession \in Nat \ {0}
         /\ \A s \in Sessions : session[s] # "none" => s < NextSession
         /\ \A w \in Workers : LoggingIn(w) => tx[w].session < NextSession
<1> DEFINE S == {0} \cup {s \in Sessions : session[s] # "none"}
                    \cup {tx[w].session : w \in {x \in Workers : pc[x] \in {"login", "counted"}}}
<1>1. S \in SUBSET Nat /\ S # {} /\ \A x \in S : x <= MaxSessions
  <2>1. \A w \in Workers : tx[w].session \in 0..MaxSessions
    BY DEF TypeOK
  <2> QED  BY <2>1, BoundAssumption DEF Sessions
<1>2. /\ \A s \in Sessions : session[s] # "none" => s \in S
      /\ \A w \in Workers : LoggingIn(w) => tx[w].session \in S
  BY DEF LoggingIn
<1>3. NextSession = 1 + Max(S)
  BY DEF NextSession
<1> HIDE DEF S
<1>4. Max(S) \in S /\ \A x \in S : x <= Max(S)
  BY <1>1, MaxIs, BoundAssumption
<1>5. Max(S) \in Nat
  BY <1>1, <1>4
<1>6. \A x \in S : x < NextSession
  <2>1. ASSUME NEW x \in S PROVE x < NextSession
    <3>1. x \in Nat /\ x <= Max(S)
      BY <1>1, <1>4
    <3> QED  BY <1>3, <1>5, <3>1
  <2> QED  BY <2>1
<1> QED  BY <1>2, <1>3, <1>5, <1>6

\* The next token is the first that was not issued.
LEMMA NextTokenNew ==
  ASSUME TypeOK, NEW k \in 0..MaxTokens, \A t \in Tokens : token[t].status # "none" <=> t <= k
  PROVE  NextToken = k + 1
<1> DEFINE I == {t \in Tokens : token[t].status # "none"}
<1>1. I = 1..k
  BY BoundAssumption DEF Tokens
<1>2. Cardinality(1..k) = k
  <2>1. k \in Nat
    BY BoundAssumption
  <2> QED  BY <2>1, FS_Interval
<1>3. NextToken = 1 + Cardinality(I)
  BY DEF NextToken
<1> HIDE DEF I
<1>4. k \in Nat
  BY BoundAssumption
<1> QED  BY <1>1, <1>2, <1>3, <1>4

-----------------------------------------------------------------------------
(* The cap.                                                                *)

\* Sessions that end and logins that are given up leave what the others count on.
LEMMA CapShrinks ==
  ASSUME TypeOK, TypeOK', CapShared, Active' \subseteq Active, Counted' \subseteq Counted,
         \A w \in Counted' : tx'[w].evict = tx[w].evict
  PROVE  CapShared'
<1> SUFFICES ASSUME NEW W \in SUBSET Counted'
             PROVE  Cardinality(Active' \ Evicting(W)') + Cardinality(W)
                        <= MaxConcurrent + Cardinality(Workers) - 1
  BY DEF CapShared
<1>1. Evicting(W)' = Evicting(W)
  BY DEF Evicting
<1>2. Active' \ Evicting(W)' \subseteq Active \ Evicting(W) /\ Active \in SUBSET Sessions
  BY <1>1 DEF Active
<1>3. Cardinality(Active' \ Evicting(W)') <= Cardinality(Active \ Evicting(W))
  BY <1>2, Finite, FS_Subset
<1>4. W \in SUBSET Workers /\ W \in SUBSET Counted
  BY DEF Counted
<1>5. /\ Cardinality(Active' \ Evicting(W)') \in Nat /\ Cardinality(Active \ Evicting(W)) \in Nat
      /\ Cardinality(W) \in Nat /\ Cardinality(Workers) \in Nat
  BY <1>2, <1>4, Finite
<1>6. Cardinality(Active \ Evicting(W)) + Cardinality(W) <= MaxConcurrent + Cardinality(Workers) - 1
  BY <1>4 DEF CapShared
<1> QED  BY <1>3, <1>5, <1>6, CapAssumption

\* A login that counts leaves less than the cap.
LEMMA CapCounted ==
  ASSUME TypeOK, TypeOK', CapShared, NEW w \in Workers, session' = session,
         pc' = [pc EXCEPT ![w] = "counted"], tx' = [tx EXCEPT ![w].evict = Oldest(Active)]
  PROVE  CapShared'
<1> SUFFICES ASSUME NEW W \in SUBSET Counted'
             PROVE  Cardinality(Active' \ Evicting(W)') + Cardinality(W)
                        <= MaxConcurrent + Cardinality(Workers) - 1
  BY DEF CapShared
<1>1. Active' = Active /\ Active \in SUBSET Sessions
  BY DEF Active
<1>2. W \in SUBSET Workers
  BY DEF Counted
<1>3. \A v \in Workers : tx'[v].evict = IF v = w THEN Oldest(Active) ELSE tx[v].evict
  BY DEF TypeOK
<1>4. CASE w \in W
  <2>1. Active' \ Evicting(W)' \subseteq Active \ Oldest(Active)
    BY <1>1, <1>3, <1>4 DEF Evicting
  <2>2. Cardinality(Active' \ Evicting(W)') <= Cardinality(Active \ Oldest(Active))
    BY <1>1, <2>1, Finite, FS_Subset
  <2>3. Cardinality(Active \ Oldest(Active)) <= MaxConcurrent - 1
    BY <1>1, KeptFew
  <2>4. /\ Cardinality(Active' \ Evicting(W)') \in Nat /\ Cardinality(Active \ Oldest(Active)) \in Nat
        /\ Cardinality(W) \in Nat /\ Cardinality(Workers) \in Nat /\ Cardinality(W) <= Cardinality(Workers)
    BY <1>1, <1>2, Finite
  <2> QED  BY <2>2, <2>3, <2>4, CapAssumption
<1>5. CASE w \notin W
  <2>1. Evicting(W)' = Evicting(W)
    BY <1>2, <1>3, <1>5 DEF Evicting
  <2>2. W \in SUBSET Counted
    BY <1>5 DEF Counted, TypeOK
  <2> QED  BY <1>1, <2>1, <2>2 DEF CapShared
<1> QED  BY <1>4, <1>5

\* A login that commits adds its session, and is one transaction less beside the others.
LEMMA CapMade ==
  ASSUME TypeOK, TypeOK', CapShared, NEW w \in Counted, NEW s \in Sessions,
         Active' \subseteq (Active \ tx[w].evict) \cup {s},
         Counted' \subseteq Counted \ {w},
         \A v \in Counted' : tx'[v].evict = tx[v].evict
  PROVE  CapShared'
<1> SUFFICES ASSUME NEW W \in SUBSET Counted'
             PROVE  Cardinality(Active' \ Evicting(W)') + Cardinality(W)
                        <= MaxConcurrent + Cardinality(Workers) - 1
  BY DEF CapShared
<1> DEFINE V == W \cup {w}
           left == Active \ Evicting(V)
<1>1. Evicting(W)' = Evicting(W) /\ Evicting(V) = Evicting(W) \cup tx[w].evict
  BY DEF Evicting
<1>2. Active' \ Evicting(W)' \subseteq left \cup {s} /\ left \in SUBSET Sessions
  BY <1>1 DEF Active
<1>3. V \in SUBSET Counted /\ W \in SUBSET Workers /\ w \notin W
  BY DEF Counted
<1>4. Cardinality(V) = Cardinality(W) + 1
  BY <1>3, Finite, FS_AddElement
<1>5. Cardinality(left) + Cardinality(V) <= MaxConcurrent + Cardinality(Workers) - 1
  BY <1>3 DEF CapShared
<1>6. /\ IsFiniteSet(left \cup {s})
      /\ Cardinality(left \cup {s}) <= Cardinality(left) + 1
  <2>1. IsFiniteSet(left) /\ Cardinality(left) \in Nat
    BY <1>2, Finite
  <2>2. /\ IsFiniteSet(left \cup {s})
        /\ Cardinality(left \cup {s}) = IF s \in left THEN Cardinality(left) ELSE Cardinality(left) + 1
    <3> HIDE DEF left
    <3> QED  BY <2>1, FS_AddElement
  <2> HIDE DEF left
  <2> QED  BY <2>1, <2>2
<1>7. Cardinality(Active' \ Evicting(W)') <= Cardinality(left \cup {s})
  BY <1>2, <1>6, FS_Subset
<1>8. /\ Cardinality(Active' \ Evicting(W)') \in Nat /\ Cardinality(left) \in Nat
      /\ Cardinality(W) \in Nat /\ Cardinality(Workers) \in Nat /\ Cardinality(left \cup {s}) \in Nat
  <2>1. Active' \ Evicting(W)' \in SUBSET Sessions /\ left \cup {s} \in SUBSET Sessions
    BY <1>2
  <2> HIDE DEF left
  <2> QED  BY <1>2, <1>3, <2>1, Finite
<1> HIDE DEF left, V
<1> QED  BY <1>4, <1>5, <1>6, <1>7, <1>8, CapAssumption

-----------------------------------------------------------------------------
(* Sessions and tokens that only end.                                      *)

Spent == {"used", "revoked", "expired"}

\* Nothing is issued, and nothing that is over becomes active.
Forward ==
    /\ \A s \in Sessions : /\ session'[s] = "none" <=> session[s] = "none"
                           /\ session[s] = "revoked" => session'[s] = "revoked"
    /\ \A t \in Tokens : /\ token'[t].status = "none" <=> token[t].status = "none"
                         /\ token'[t].session = token[t].session
                         /\ token[t].status \in Spent => token'[t].status \in Spent

Tables ==
    /\ session' \in [Sessions -> SessionStatuses]
    /\ token' \in [Tokens -> TokenRows]

\* Transactions go on about what they read, or end.
TokenPoints == {"reuse", "lapsed", "resolved", "live", "rotate", "frozen"}
Onward ==
    \A w \in Workers :
        \/ pc'[w] = "idle"
        \/ tx'[w] = tx[w] /\ (pc'[w] = pc[w] \/ {pc[w], pc'[w]} \subseteq TokenPoints)

\* Revocation is such a change, and leaves no session it names active.
LEMMA UpdatesForward ==
  ASSUME TypeOK, NEW S \in SUBSET Sessions, NEW T \in SUBSET Sessions, session' = Revoked(S), token' = WithoutTokensOf(T)
  PROVE  Tables /\ Forward /\ \A s \in S : session'[s] # "active"
<1>1. \A s \in Sessions : session'[s] = IF s \in S /\ session[s] = "active" THEN "revoked" ELSE session[s]
  BY DEF Revoked
<1>2. \A t \in Tokens : token'[t] = IF token[t].session \in T /\ token[t].status = "active"
                                    THEN [token[t] EXCEPT !.status = "revoked"] ELSE token[t]
  BY DEF WithoutTokensOf
<1>3. session' \in [Sessions -> SessionStatuses]
  BY <1>1 DEF Revoked, TypeOK, SessionStatuses
<1>4. \A t \in Tokens : token[t] \in TokenRows
  BY DEF TypeOK
<1>5. \A t \in Tokens : token'[t] \in TokenRows
  BY <1>2, <1>4 DEF TokenRows
<1>6. token' \in [Tokens -> TokenRows]
  BY <1>5 DEF WithoutTokensOf
<1>7. Forward
  BY <1>1, <1>2, <1>4 DEF Forward, TokenRows, Spent
<1> QED  BY <1>1, <1>3, <1>6, <1>7 DEF Tables

LEMMA RevokeForward ==
  ASSUME TypeOK, NEW S \in SUBSET Sessions, Revoke(S)
  PROVE  Tables /\ Forward /\ \A s \in S : session'[s] # "active"
BY UpdatesForward DEF Revoke

\* What the tables have in common before and after leaves them as they are.
LEMMA StillForward ==
  ASSUME TypeOK, UNCHANGED <<session, token>>
  PROVE  Tables /\ Forward
BY DEF TypeOK, Tables, Forward

\* A change that only ends things keeps the invariant.
LEMMA ForwardKeeps ==
  ASSUME IInv, TypeOK', Forward, Onward, \A s \in (reported \cup outlived)' : session'[s] = "revoked"
  PROVE  IInv'
<1>1. Active' \subseteq Active
  BY DEF Active, Forward, IInv, TypeOK, SessionStatuses
<1>2. \A w \in Workers : LoggingIn(w)' => LoggingIn(w) /\ pc'[w] = pc[w] /\ tx'[w] = tx[w]
  BY DEF LoggingIn, Onward, TokenPoints
<1>3. CapShared'
  <2>1. Counted' \subseteq Counted /\ \A w \in Counted' : tx'[w].evict = tx[w].evict
    BY <1>2 DEF Counted, LoggingIn
  <2> QED  BY <1>1, <2>1, CapShrinks DEF IInv
<1>4. Numbered'
  BY <1>2 DEF Numbered, IInv, Forward
<1>5. Issued'
  <2>1. PICK k \in 0..MaxTokens : \A t \in Tokens : token[t].status # "none" <=> t <= k
    BY DEF IInv, Issued
  <2>2. \A t \in Tokens : token'[t].status # "none" <=> t <= k
    BY <2>1 DEF Forward
  <2> QED  BY <2>2 DEF IInv, Issued, Forward
<1>6. Resolved'
  <2> SUFFICES ASSUME NEW w \in Workers, pc'[w] # "idle"
               PROVE  /\ pc'[w] \in TokenPoints =>
                           /\ tx'[w].token \in Tokens /\ token'[tx'[w].token].status # "none"
                           /\ tx'[w].session \in Sessions /\ session'[tx'[w].session] # "none"
                      /\ pc'[w] \in {"reset", "revoking"} => tx'[w].reset \in Resets
                      /\ pc'[w] = "revoking" => \A s \in tx'[w].evict : session'[s] # "none"
    BY DEF Resolved, TokenPoints
  <2>1. tx'[w] = tx[w] /\ (pc'[w] = pc[w] \/ {pc[w], pc'[w]} \subseteq TokenPoints)
    BY DEF Onward
  <2>2. tx[w].evict \in SUBSET Sessions
    BY DEF IInv, TypeOK
  <2> QED  BY <2>1, <2>2 DEF IInv, Resolved, Forward, TokenPoints
<1> QED  BY <1>3, <1>4, <1>5, <1>6 DEF IInv, Ended

\* What is over stays over (RevivesNothing) where a change only ends things.
Over ==
    /\ \A s \in Sessions : session[s] = "revoked" => session'[s] = "revoked"
    /\ \A t \in Tokens : token[t].status \in Spent => token'[t].status \in Spent

\* Ending a transaction.
LEMMA EndsOnward ==
  ASSUME TypeOK, NEW w \in Workers, End(w)
  PROVE  /\ Onward /\ pc' \in [Workers -> Points]
         /\ tx' \in [Workers -> [session : 0..MaxSessions, token : 0..MaxTokens,
                                 reset : Resets \cup {None}, evict : SUBSET Sessions]]
BY BoundAssumption DEF TypeOK, End, Onward, Points, Nothing

-----------------------------------------------------------------------------
(* The handlers of a transaction.                                          *)

\* A login takes a number of its own.
LEMMA AuthenticateStep ==
  ASSUME IInv, NEW w \in Workers, Authenticate(w)
  PROVE  IInv'
<1>1. /\ NextSession \in Sessions
      /\ \A s \in Sessions : session[s] # "none" => s < NextSession
      /\ \A v \in Workers : LoggingIn(v) => tx[v].session < NextSession
  BY NextSessionNew, BoundAssumption DEF IInv, Authenticate, Sessions
<1> DEFINE n == NextSession
<1>2. PICK m \in Sessions : m = n
  BY <1>1
<1> HIDE DEF n
<1>3. tx' = [tx EXCEPT ![w] = [Nothing EXCEPT !.session = m]] /\ pc' = [pc EXCEPT ![w] = "login"]
  BY <1>2 DEF Authenticate, Begin, n
<1>4. /\ UNCHANGED <<status, session, token, lapsed, reset, history>>
      /\ \A s \in Sessions : session[s] # "none" => s < m
      /\ \A v \in Workers : LoggingIn(v) => tx[v].session < m
  BY <1>1, <1>2 DEF Authenticate, n
<1>5. TypeOK'
  <2>1. [Nothing EXCEPT !.session = m] \in [session : 0..MaxSessions, token : 0..MaxTokens,
                                            reset : Resets \cup {None}, evict : SUBSET Sessions]
    BY BoundAssumption DEF Nothing, Sessions
  <2> QED  BY <1>3, <1>4, <2>1 DEF IInv, TypeOK, Points, history
<1>6. CapShared'
  <2>1. Active' = Active /\ Counted' \subseteq Counted /\ \A v \in Counted' : tx'[v].evict = tx[v].evict
    BY <1>3, <1>4 DEF Active, Counted, IInv, TypeOK
  <2> QED  BY <1>5, <2>1, CapShrinks DEF IInv
<1>7. \A v \in Workers : IF v = w THEN pc'[v] = "login" /\ tx'[v].session = m
                         ELSE pc'[v] = pc[v] /\ tx'[v] = tx[v]
  BY <1>3 DEF IInv, TypeOK, Nothing
<1>8. session[m] = "none"
  BY <1>4, BoundAssumption DEF Sessions
<1>9. Numbered'
  BY <1>4, <1>7, <1>8, BoundAssumption DEF Numbered, IInv, LoggingIn, Sessions
<1>10. Issued' /\ Resolved' /\ Ended'
  BY <1>4, <1>7 DEF IInv, Issued, Resolved, Ended, history
<1> QED  BY <1>5, <1>6, <1>9, <1>10 DEF IInv

\* It counts what is active.
LEMMA EnforceConcurrentLimitStep ==
  ASSUME IInv, NEW w \in Workers, EnforceConcurrentLimit(w)
  PROVE  IInv'
<1>1. Oldest(Active) \in SUBSET Sessions
  BY DEF Oldest, Active
<1>2. /\ pc' = [pc EXCEPT ![w] = "counted"] /\ tx' = [tx EXCEPT ![w].evict = Oldest(Active)]
      /\ pc[w] = "login" /\ UNCHANGED <<status, session, token, lapsed, reset, history>>
  BY DEF EnforceConcurrentLimit, At
<1>3. TypeOK'
  BY <1>1, <1>2 DEF IInv, TypeOK, Points, history
<1>4. CapShared'
  BY <1>2, <1>3, CapCounted DEF IInv
<1>5. \A v \in Workers : /\ LoggingIn(v)' <=> LoggingIn(v)
                         /\ tx'[v].session = tx[v].session /\ tx'[v].token = tx[v].token
                         /\ tx'[v].reset = tx[v].reset
                         /\ pc'[v] = pc[v] \/ (v = w /\ pc'[v] = "counted")
  BY <1>2 DEF IInv, TypeOK, LoggingIn
<1>6. Numbered' /\ Issued' /\ Resolved' /\ Ended'
  BY <1>2, <1>5 DEF IInv, Numbered, Issued, Resolved, Ended, history
<1> QED  BY <1>3, <1>4, <1>6 DEF IInv

\* It commits: a session and a token nobody had, and what it counted as oldest is over.
LEMMA CreateSessionStep ==
  ASSUME IInv, NEW w \in Workers, CreateSession(w)
  PROVE  IInv' /\ Over
<1> USE BoundAssumption
<1>1. PICK k \in 0..MaxTokens : \A t \in Tokens : token[t].status # "none" <=> t <= k
  BY DEF IInv, Issued
<1>2. NextToken = k + 1
  BY <1>1, NextTokenNew DEF IInv
<1>3. PICK s \in Sessions : s = tx[w].session
  BY DEF CreateSession, At, IInv, Numbered, LoggingIn
<1>4. PICK n \in Tokens : n = k + 1
  BY <1>2 DEF CreateSession, Tokens
<1>5. PICK E \in SUBSET Sessions : E = tx[w].evict
  BY DEF IInv, TypeOK
<1>6. /\ session[s] = "none" /\ token[n].status = "none" /\ w \in Counted /\ pc[w] = "counted"
      /\ session' = [Revoked(E) EXCEPT ![s] = "active"]
      /\ token' = [WithoutTokensOf(E) EXCEPT ![n] = [status |-> "active", session |-> s]]
      /\ End(w) /\ UNCHANGED <<status, lapsed, reset, history>>
  <2>1. session[s] = "none" /\ w \in Counted /\ pc[w] = "counted"
    BY <1>3 DEF CreateSession, At, IInv, Numbered, LoggingIn, Counted
  <2>2. token[n].status = "none"
    BY <1>1, <1>4 DEF Tokens
  <2> QED  BY <1>2, <1>3, <1>4, <1>5, <2>1, <2>2 DEF CreateSession
<1>7. \A x \in Sessions : session'[x] = IF x = s THEN "active"
                                        ELSE IF x \in E /\ session[x] = "active" THEN "revoked" ELSE session[x]
  BY <1>6 DEF Revoked
<1>8. \A t \in Tokens : token'[t] = IF t = n THEN [status |-> "active", session |-> s]
                                    ELSE IF token[t].session \in E /\ token[t].status = "active"
                                    THEN [token[t] EXCEPT !.status = "revoked"] ELSE token[t]
  BY <1>6 DEF WithoutTokensOf
<1>9. \A t \in Tokens : token[t] \in TokenRows
  BY DEF IInv, TypeOK
<1>10. Tables
  <2>1. session' \in [Sessions -> SessionStatuses]
    BY <1>6, <1>7 DEF Revoked, IInv, TypeOK, SessionStatuses
  <2>2. \A t \in Tokens : token'[t] \in TokenRows
    <3>1. [status |-> "active", session |-> s] \in TokenRows
      BY DEF TokenRows, Sessions
    <3>2. \A t \in Tokens : [token[t] EXCEPT !.status = "revoked"] \in TokenRows
      BY <1>9 DEF TokenRows
    <3> QED  BY <1>8, <1>9, <3>1, <3>2
  <2> QED  BY <1>6, <2>1, <2>2 DEF Tables, WithoutTokensOf
<1>11. \A t \in Tokens : t # n =>
          /\ token'[t].status = "none" <=> token[t].status = "none"
          /\ token'[t].session = token[t].session
          /\ token[t].status \in Spent => token'[t].status \in Spent
  BY <1>8, <1>9 DEF TokenRows, Spent
<1>21. token'[n].status = "active" /\ token'[n].session = s /\ session'[s] = "active"
  <2>1. token'[n] = [status |-> "active", session |-> s]
    BY <1>8
  <2>2. session'[s] = "active"
    BY <1>7
  <2> QED  BY <2>1, <2>2
<1>12. TypeOK'
  BY <1>6, <1>10, EndsOnward DEF IInv, TypeOK, Tables, history
<1>13. \A v \in Workers : v # w => pc'[v] = pc[v] /\ tx'[v] = tx[v]
  BY <1>6 DEF End
<1>14. pc'[w] = "idle"
  BY <1>6 DEF End, IInv, TypeOK
<1>15. CapShared'
  <2>1. Active' \subseteq (Active \ E) \cup {s}
    BY <1>7 DEF Active
  <2>2. Counted' \subseteq Counted \ {w} /\ \A v \in Counted' : tx'[v].evict = tx[v].evict
    BY <1>13, <1>14 DEF Counted
  <2> QED  BY <1>5, <1>6, <1>12, <2>1, <2>2, CapMade DEF IInv
<1>16. Numbered'
  <2>1. \A v \in Workers : LoggingIn(v)' => v # w /\ LoggingIn(v)
    BY <1>13, <1>14 DEF LoggingIn
  <2>2. LoggingIn(w)
    BY <1>6 DEF LoggingIn
  <2>3. \A v \in Workers : LoggingIn(v)' => tx[v].session # s
    BY <1>3, <2>1, <2>2 DEF IInv, Numbered
  <2> QED  BY <1>7, <1>13, <2>1, <2>3 DEF IInv, Numbered
<1>17. Issued'
  <2>1. \A t \in Tokens : token'[t].status # "none" <=> t <= n
    <3> SUFFICES ASSUME NEW t \in Tokens PROVE token'[t].status # "none" <=> t <= n
      OBVIOUS
    <3>1. CASE t = n
      BY <1>21, <3>1 DEF Tokens
    <3>2. CASE t # n
      BY <1>1, <1>4, <1>11, <3>2 DEF Tokens
    <3> QED  BY <3>1, <3>2
  <2>2. n \in 0..MaxTokens
    BY DEF Tokens
  <2>3. \A t \in Tokens : token'[t].status # "none" =>
           token'[t].session \in Sessions /\ session'[token'[t].session] # "none"
    <3> SUFFICES ASSUME NEW t \in Tokens, token'[t].status # "none"
                 PROVE  token'[t].session \in Sessions /\ session'[token'[t].session] # "none"
      OBVIOUS
    <3>1. CASE t = n
      BY <1>21, <3>1
    <3>2. CASE t # n
      BY <1>7, <1>11, <3>2 DEF IInv, Issued
    <3> QED  BY <3>1, <3>2
  <2> QED  BY <2>1, <2>2, <2>3 DEF Issued
<1>18. Resolved'
  <2>1. \A v \in Workers : tx[v].evict \in SUBSET Sessions
    BY DEF IInv, TypeOK
  <2> QED  BY <1>6, <1>7, <1>11, <1>13, <1>14, <1>8, <2>1 DEF IInv, Resolved
<1>19. Ended'
  BY <1>6, <1>7 DEF IInv, Ended, history, TypeOK
<1>20. Over
  BY <1>6, <1>7, <1>11 DEF Over, Spent
<1> QED  BY <1>12, <1>15, <1>16, <1>17, <1>18, <1>19, <1>20 DEF IInv

\* Presenting a token, or a reset token, starts a transaction about one that was issued.
LEMMA BeginStep ==
  ASSUME IInv, NEW w \in Workers,
         (\E t \in Tokens : ResolveToken(w, t)) \/ (\E r \in Resets : CheckReset(w, r))
  PROVE  IInv'
<1> DEFINE What == [session : 0..MaxSessions, token : 0..MaxTokens,
                    reset : Resets \cup {None}, evict : SUBSET Sessions]
<1>1. PICK what \in What, point \in TokenPoints \cup {"reset"} :
         /\ Begin(w, point, what)
         /\ UNCHANGED <<status, session, token, lapsed, reset, history>>
         /\ point \in TokenPoints => /\ what.token \in Tokens /\ token[what.token].status # "none"
                                     /\ what.session \in Sessions /\ session[what.session] # "none"
         /\ point = "reset" => what.reset \in Resets
  <2>1. ASSUME NEW t \in Tokens, ResolveToken(w, t)
        PROVE  /\ [Nothing EXCEPT !.token = t, !.session = token[t].session] \in What
               /\ [Nothing EXCEPT !.token = t, !.session = token[t].session].token = t
               /\ [Nothing EXCEPT !.token = t, !.session = token[t].session].session = token[t].session
               /\ token[t].status # "none" /\ token[t].session \in Sessions
               /\ session[token[t].session] # "none"
               /\ Outcome(t) \in TokenPoints
    <3>1. token[t].status # "none" /\ token[t].session \in Sessions /\ session[token[t].session] # "none"
      BY <2>1 DEF ResolveToken, IInv, Issued
    <3>2. PICK s \in Sessions : s = token[t].session
      BY <3>1
    <3>3. /\ [Nothing EXCEPT !.token = t, !.session = s] \in What
          /\ [Nothing EXCEPT !.token = t, !.session = s].token = t
          /\ [Nothing EXCEPT !.token = t, !.session = s].session = s
      <4> DEFINE x == [Nothing EXCEPT !.token = t]
      <4>1. x \in What /\ x.token = t
        BY BoundAssumption DEF Nothing, Tokens
      <4>2. [Nothing EXCEPT !.token = t, !.session = s] = [x EXCEPT !.session = s]
        OBVIOUS
      <4> HIDE DEF x
      <4>3. [x EXCEPT !.session = s] \in What /\ [x EXCEPT !.session = s].token = t
            /\ [x EXCEPT !.session = s].session = s
        BY <4>1, BoundAssumption DEF Sessions
      <4> QED  BY <4>2, <4>3
    <3>4. Outcome(t) \in TokenPoints
      BY DEF Outcome, TokenPoints
    <3> HIDE DEF What
    <3> QED  BY <3>1, <3>2, <3>3, <3>4
  <2>2. ASSUME NEW r \in Resets, CheckReset(w, r)
        PROVE  /\ [Nothing EXCEPT !.reset = r] \in What
               /\ [Nothing EXCEPT !.reset = r].reset = r
    BY BoundAssumption DEF Nothing
  <2>3. CASE \E t \in Tokens : ResolveToken(w, t)
    <3>1. PICK t \in Tokens : ResolveToken(w, t)
      BY <2>3
    <3>2. "reset" \notin TokenPoints
      BY DEF TokenPoints
    <3>3. Begin(w, Outcome(t), [Nothing EXCEPT !.token = t, !.session = token[t].session])
          /\ UNCHANGED <<status, session, token, lapsed, reset, history>>
      BY <3>1 DEF ResolveToken
    <3> HIDE DEF What
    <3>4. PICK what \in What : what = [Nothing EXCEPT !.token = t, !.session = token[t].session]
      BY <2>1, <3>1
    <3>5. /\ what.token = t /\ what.session = token[t].session
          /\ token[t].status # "none" /\ token[t].session \in Sessions
          /\ session[token[t].session] # "none" /\ Outcome(t) \in TokenPoints
      BY <2>1, <3>1, <3>4
    <3>6. Begin(w, Outcome(t), what)
      BY <3>3, <3>4
    <3> QED  BY <3>2, <3>3, <3>5, <3>6
  <2>4. CASE \E r \in Resets : CheckReset(w, r)
    <3>1. PICK r \in Resets : CheckReset(w, r)
      BY <2>4
    <3>2. "reset" \notin TokenPoints
      BY DEF TokenPoints
    <3> HIDE DEF What
    <3>4. PICK what \in What : what = [Nothing EXCEPT !.reset = r]
      BY <2>2, <3>1
    <3>5. what.reset = r
      BY <2>2, <3>1, <3>4
    <3>6. Begin(w, "reset", what) /\ UNCHANGED <<status, session, token, lapsed, reset, history>>
      BY <3>1, <3>4 DEF CheckReset
    <3> QED  BY <3>2, <3>5, <3>6
  <2> QED  BY <2>3, <2>4
<1>2. \A v \in Workers : IF v = w THEN pc'[v] = point /\ tx'[v] = what
                         ELSE pc'[v] = pc[v] /\ tx'[v] = tx[v]
  BY <1>1 DEF Begin, IInv, TypeOK
<1>3. TypeOK'
  <2>1. pc' \in [Workers -> Points] /\ tx' \in [Workers -> What]
    BY <1>1 DEF Begin, IInv, TypeOK, Points, TokenPoints
  <2> QED  BY <1>1, <2>1 DEF IInv, TypeOK, history
<1>4. point \notin {"login", "counted", "idle"}
  BY DEF TokenPoints
<1>5. CapShared'
  <2>1. Active' = Active /\ Counted' \subseteq Counted /\ \A v \in Counted' : tx'[v].evict = tx[v].evict
    BY <1>1, <1>2, <1>4 DEF Active, Counted
  <2> QED  BY <1>3, <2>1, CapShrinks DEF IInv
<1>6. Numbered'
  BY <1>1, <1>2, <1>4 DEF IInv, Numbered, LoggingIn
<1>7. Issued' /\ Ended'
  BY <1>1 DEF IInv, Issued, Ended, history
<1>8. Resolved'
  <2> SUFFICES ASSUME NEW v \in Workers
               PROVE  /\ pc'[v] \in TokenPoints =>
                           /\ tx'[v].token \in Tokens /\ token'[tx'[v].token].status # "none"
                           /\ tx'[v].session \in Sessions /\ session'[tx'[v].session] # "none"
                      /\ pc'[v] \in {"reset", "revoking"} => tx'[v].reset \in Resets
                      /\ pc'[v] = "revoking" => \A s \in tx'[v].evict : session'[s] # "none"
    BY DEF Resolved, TokenPoints
  <2>1. CASE v = w
    BY <1>1, <1>2, <2>1 DEF TokenPoints
  <2>2. CASE v # w
    BY <1>1, <1>2, <2>2 DEF IInv, Resolved, TokenPoints
  <2> QED  BY <2>1, <2>2
<1> QED  BY <1>3, <1>5, <1>6, <1>7, <1>8 DEF IInv

\* A refresh adds a token to the family of its session; the presented one is spent.
LEMMA RotateStep ==
  ASSUME IInv, NEW w \in Workers, Rotate(w)
  PROVE  IInv' /\ Over
<1> USE BoundAssumption
<1>1. PICK k \in 0..MaxTokens : \A t \in Tokens : token[t].status # "none" <=> t <= k
  BY DEF IInv, Issued
<1>2. NextToken = k + 1
  BY <1>1, NextTokenNew DEF IInv
<1>3. PICK n \in Tokens : n = k + 1
  BY <1>2 DEF Rotate, Tokens
<1>4. PICK s \in Sessions, o \in Tokens : s = tx[w].session /\ o = tx[w].token
  BY DEF Rotate, At, IInv, Resolved
<1>5. /\ session' = session /\ session[s] # "none" /\ token[o].status # "none" /\ n # o
      /\ token' = [token EXCEPT ![o].status = "used", ![n] = [status |-> "active", session |-> s]]
      /\ replaced' = [replaced EXCEPT ![o] = @ + 1]
      /\ End(w) /\ UNCHANGED <<status, lapsed, reset, confirmed, outlived, reported>>
  <2>1. session[s] # "none" /\ token[o].status # "none"
    BY <1>4 DEF Rotate, At, IInv, Resolved
  <2>2. n # o
    BY <1>1, <1>3, <2>1 DEF Tokens
  <2> QED  BY <1>2, <1>3, <1>4, <2>1, <2>2 DEF Rotate, SessionRefreshed
<1>6. \A t \in Tokens : token[t] \in TokenRows
  BY DEF IInv, TypeOK
<1>7. \A t \in Tokens : token'[t] = IF t = n THEN [status |-> "active", session |-> s]
                                    ELSE IF t = o THEN [token[o] EXCEPT !.status = "used"] ELSE token[t]
  BY <1>5 DEF IInv, TypeOK
<1>8. [status |-> "active", session |-> s] \in TokenRows /\ [token[o] EXCEPT !.status = "used"] \in TokenRows
  BY <1>6 DEF TokenRows, Sessions
<1>9. token' \in [Tokens -> TokenRows]
  BY <1>5, <1>6, <1>7, <1>8 DEF IInv, TypeOK
<1>10. \A t \in Tokens : t # n =>
          /\ token'[t].status = "none" <=> token[t].status = "none"
          /\ token'[t].session = token[t].session
          /\ token[t].status \in Spent => token'[t].status \in Spent
  <2> SUFFICES ASSUME NEW t \in Tokens, t # n
               PROVE  /\ token'[t].status = "none" <=> token[t].status = "none"
                      /\ token'[t].session = token[t].session
                      /\ token[t].status \in Spent => token'[t].status \in Spent
    OBVIOUS
  <2>1. CASE t = o
    <3>1. token'[o] = [token[o] EXCEPT !.status = "used"] /\ token[o] \in TokenRows
      BY <1>6, <1>7, <2>1
    <3>2. token'[o].status = "used" /\ token'[o].session = token[o].session
      BY <3>1 DEF TokenRows
    <3> QED  BY <1>5, <2>1, <3>2 DEF Spent
  <2>2. CASE t # o
    BY <1>7, <2>2
  <2> QED  BY <2>1, <2>2
<1>11. token'[n].status = "active" /\ token'[n].session = s /\ token[n].status = "none"
  BY <1>1, <1>3, <1>7 DEF Tokens
<1>12. TypeOK'
  <2>1. replaced' \in [Tokens -> Nat]
    BY <1>5 DEF IInv, TypeOK
  <2> QED  BY <1>5, <1>9, <2>1, EndsOnward DEF IInv, TypeOK
<1>13. \A v \in Workers : v # w => pc'[v] = pc[v] /\ tx'[v] = tx[v]
  BY <1>5 DEF End
<1>14. pc'[w] = "idle"
  BY <1>5 DEF End, IInv, TypeOK
<1>15. CapShared'
  <2>1. Active' = Active /\ Counted' \subseteq Counted /\ \A v \in Counted' : tx'[v].evict = tx[v].evict
    BY <1>5, <1>13, <1>14 DEF Active, Counted
  <2> QED  BY <1>12, <2>1, CapShrinks DEF IInv
<1>16. Numbered'
  BY <1>5, <1>13, <1>14 DEF IInv, Numbered, LoggingIn
<1>17. Issued'
  <2>1. \A t \in Tokens : token'[t].status # "none" <=> t <= n
    <3> SUFFICES ASSUME NEW t \in Tokens PROVE token'[t].status # "none" <=> t <= n
      OBVIOUS
    <3>1. CASE t = n
      BY <1>11, <3>1 DEF Tokens
    <3>2. CASE t # n
      BY <1>1, <1>3, <1>10, <3>2 DEF Tokens
    <3> QED  BY <3>1, <3>2
  <2>2. n \in 0..MaxTokens
    BY DEF Tokens
  <2>3. ASSUME NEW t \in Tokens, token'[t].status # "none"
        PROVE  token'[t].session \in Sessions /\ session'[token'[t].session] # "none"
    <3>1. CASE t = n
      BY <1>5, <1>11, <3>1
    <3>2. CASE t # n
      BY <1>5, <1>10, <2>3, <3>2 DEF IInv, Issued
    <3> QED  BY <3>1, <3>2
  <2> QED  BY <2>1, <2>2, <2>3 DEF Issued
<1>18. Resolved'
  <2>1. \A t \in Tokens : token[t].status # "none" => token'[t].status # "none"
    BY <1>10, <1>11
  <2> QED  BY <1>5, <1>13, <1>14, <2>1 DEF IInv, Resolved
<1>19. Ended' /\ Over
  BY <1>5, <1>10, <1>11 DEF IInv, Ended, Over, Spent
<1> QED  BY <1>12, <1>15, <1>16, <1>17, <1>18, <1>19 DEF IInv

\* A reset that is to revoke knows sessions that exist.
LEMMA FindSessionsStep ==
  ASSUME IInv, NEW w \in Workers, FindSessions(w)
  PROVE  IInv'
<1>1. /\ pc[w] = "reset" /\ pc' = [pc EXCEPT ![w] = "revoking"] /\ tx' = [tx EXCEPT ![w].evict = Active]
      /\ UNCHANGED <<status, session, token, lapsed, reset, history>>
  BY DEF FindSessions, At
<1>2. Active \in SUBSET Sessions /\ \A s \in Active : session[s] # "none"
  BY DEF Active
<1>3. /\ \A v \in Workers \ {w} : pc'[v] = pc[v] /\ tx'[v] = tx[v]
      /\ pc'[w] = "revoking" /\ tx'[w].evict = Active /\ tx'[w].reset = tx[w].reset
  BY <1>1 DEF IInv, TypeOK
<1>4. TypeOK'
  BY <1>1, <1>2 DEF IInv, TypeOK, Points, history
<1>5. CapShared'
  <2>1. Active' = Active /\ Counted' \subseteq Counted /\ \A v \in Counted' : tx'[v].evict = tx[v].evict
    BY <1>1, <1>3 DEF Active, Counted
  <2> QED  BY <1>4, <2>1, CapShrinks DEF IInv
<1>6. Numbered'
  BY <1>1, <1>3 DEF IInv, Numbered, LoggingIn
<1>7. Issued' /\ Ended'
  BY <1>1 DEF IInv, Issued, Ended, history
<1>8. Resolved'
  <2>1. tx[w].reset \in Resets
    BY <1>1 DEF IInv, Resolved
  <2> QED  BY <1>1, <1>2, <1>3, <2>1 DEF IInv, Resolved
<1> QED  BY <1>4, <1>5, <1>6, <1>7, <1>8 DEF IInv

\* The other steps of a transaction only end things.
LEMMA EndingStep ==
  ASSUME IInv, NEW w \in Workers,
         ReportLapsed(w) \/ CheckSession(w) \/ CheckUser(w) \/ EndFamily(w) \/ ConfirmReset(w) \/ Abort(w)
  PROVE  IInv' /\ Over
<1>1. ASSUME TypeOK', Forward, Onward, \A s \in (reported \cup outlived)' : session'[s] = "revoked"
      PROVE  IInv' /\ Over
  BY <1>1, ForwardKeeps DEF Forward, Over
<1>2. CASE ReportLapsed(w)
  <2>1. PICK t \in Tokens : t = tx[w].token
    BY <1>2 DEF ReportLapsed, At, IInv, Resolved
  <2>2. token' = [token EXCEPT ![t].status = "expired"] /\ token[t] \in TokenRows /\ token[t].status # "none"
    BY <1>2, <2>1 DEF ReportLapsed, At, IInv, Resolved, TypeOK
  <2>3. Tables /\ Forward
    <3>1. token'[t].status = "expired" /\ token'[t].session = token[t].session /\ token'[t] \in TokenRows
      BY <2>2 DEF IInv, TypeOK, TokenRows
    <3>2. \A x \in Tokens : x # t => token'[x] = token[x]
      BY <2>2 DEF IInv, TypeOK
    <3>3. session' = session
      BY <1>2 DEF ReportLapsed
    <3>4. Tables
      BY <2>2, <3>1, <3>3 DEF Tables, IInv, TypeOK
    <3> QED  BY <2>2, <3>1, <3>2, <3>3, <3>4 DEF Forward, Spent
  <2>4. TypeOK' /\ Onward
    BY <1>2, <2>3, EndsOnward DEF ReportLapsed, IInv, TypeOK, Tables, history
  <2> QED  BY <1>1, <1>2, <2>3, <2>4 DEF ReportLapsed, IInv, Ended, history
<1>3. CASE CheckSession(w) \/ CheckUser(w) \/ Abort(w)
  <2>1. UNCHANGED <<status, session, token, lapsed, reset, history>>
    BY <1>3 DEF CheckSession, CheckUser, Abort
  <2>2. Tables /\ Forward
    BY <2>1, StillForward DEF IInv
  <2>3. CASE End(w)
    <3>1. TypeOK' /\ Onward
      BY <2>1, <2>3, EndsOnward DEF IInv, TypeOK, history
    <3> QED  BY <1>1, <2>1, <2>2, <3>1 DEF IInv, Ended, history
  <2>4. CASE ~End(w)
    <3>1. PICK point \in TokenPoints : GoTo(w, point) /\ pc[w] \in TokenPoints
      BY <1>3, <2>4 DEF CheckSession, CheckUser, Abort, At, TokenPoints
    <3>2. TypeOK' /\ Onward
      BY <2>1, <3>1 DEF GoTo, IInv, TypeOK, history, Onward, TokenPoints, Points
    <3> QED  BY <1>1, <2>1, <2>2, <3>2 DEF IInv, Ended, history
  <2> QED  BY <2>3, <2>4
<1>4. CASE EndFamily(w)
  <2>1. PICK s \in Sessions : s = tx[w].session /\ session[s] # "none"
    BY <1>4 DEF EndFamily, At, IInv, Resolved
  <2>2. Tables /\ Forward /\ session'[s] # "active"
    BY <1>4, <2>1, RevokeForward DEF EndFamily, RevokeFamily, IInv
  <2>3. reported' \subseteq reported \cup {s} /\ outlived' = outlived
        /\ UNCHANGED <<status, lapsed, reset, replaced, confirmed>>
    BY <1>4, <2>1 DEF EndFamily
  <2>4. TypeOK' /\ Onward
    BY <1>4, <2>2, <2>3, EndsOnward DEF EndFamily, IInv, TypeOK, Tables
  <2>5. session'[s] = "revoked"
    BY <2>1, <2>2 DEF Tables, Forward, SessionStatuses
  <2> QED  BY <1>1, <2>2, <2>3, <2>4, <2>5 DEF IInv, Ended, Forward, TypeOK
<1>5. CASE ConfirmReset(w)
  <2>1. PICK r \in Resets : r = tx[w].reset
    BY <1>5 DEF ConfirmReset, At, IInv, Resolved
  <2>2. PICK S \in SUBSET Sessions : S = tx[w].evict /\ \A s \in S : session[s] # "none"
    BY <1>5 DEF ConfirmReset, At, IInv, Resolved, TypeOK
  <2>3. Tables /\ Forward /\ \A s \in S : session'[s] # "active"
    <3>1. session' = Revoked(S) /\ token' = WithoutTokensOf(Sessions)
      BY <1>5, <2>2 DEF ConfirmReset, EndSessions
    <3> QED  BY <3>1, UpdatesForward DEF IInv
  <2>4. /\ outlived' = outlived \cup S
        /\ reset' = [reset EXCEPT ![r] = "used"] /\ confirmed' = [confirmed EXCEPT ![r] = @ + 1]
        /\ UNCHANGED <<status, lapsed, replaced, reported>>
    BY <1>5, <2>1, <2>2 DEF ConfirmReset
  <2>5. TypeOK' /\ Onward
    BY <1>5, <2>2, <2>3, <2>4, EndsOnward DEF ConfirmReset, IInv, TypeOK, Tables, ResetStatuses
  <2>6. \A s \in S : session'[s] = "revoked"
    BY <2>2, <2>3 DEF Tables, Forward, SessionStatuses
  <2> QED  BY <1>1, <2>3, <2>4, <2>5, <2>6 DEF IInv, Ended, Forward, TypeOK
<1> QED  BY <1>2, <1>3, <1>4, <1>5

\* So do the steps of nobody's transaction.
LEMMA SurroundingStep ==
  ASSUME IInv,
         \/ \E s \in Sessions : RevokeSession(s)
         \/ RevokeAllSessions \/ FreezeEvent \/ Reinstate
         \/ \E r \in Resets : RequestReset(r) \/ ResetLapses(r)
         \/ \E t \in Tokens : TokenLapses(t)
  PROVE  IInv' /\ Over
<1>1. UNCHANGED <<pc, tx, history>>
  BY DEF RevokeSession, RevokeAllSessions, FreezeEvent, Reinstate, RequestReset, ResetLapses, TokenLapses
<1>2. /\ status' \in UserStatuses
      /\ lapsed' \subseteq Tokens \cup Resets
      /\ reset' \in [Resets -> ResetStatuses]
  BY DEF IInv, TypeOK, RevokeSession, RevokeAllSessions, FreezeEvent, Reinstate, RequestReset, ResetLapses,
         TokenLapses, UserStatuses, ResetStatuses
<1>3. Tables /\ Forward
  <2>1. CASE \E S \in SUBSET Sessions : Revoke(S)
    BY <2>1, RevokeForward DEF IInv
  <2>2. CASE UNCHANGED <<session, token>>
    BY <2>2, StillForward DEF IInv
  <2>3. (\E S \in SUBSET Sessions : Revoke(S)) \/ UNCHANGED <<session, token>>
    <3>1. ASSUME NEW s \in Sessions, RevokeSession(s) PROVE \E S \in SUBSET Sessions : Revoke(S)
      <4>1. {s} \in SUBSET Sessions /\ Revoke({s})
        BY <3>1 DEF RevokeSession
      <4> QED  BY <4>1
    <3>2. ASSUME RevokeAllSessions \/ FreezeEvent PROVE \E S \in SUBSET Sessions : Revoke(S)
      <4>1. Active \in SUBSET Sessions /\ Revoke(Active)
        BY <3>2 DEF RevokeAllSessions, FreezeEvent, Active
      <4> QED  BY <4>1
    <3> QED  BY <3>1, <3>2 DEF Reinstate, RequestReset, ResetLapses, TokenLapses
  <2> QED  BY <2>1, <2>2, <2>3
<1>4. TypeOK' /\ Onward
  BY <1>1, <1>2, <1>3 DEF IInv, TypeOK, Tables, Onward, history
<1>5. \A s \in (reported \cup outlived)' : session'[s] = "revoked"
  BY <1>1, <1>3 DEF IInv, Ended, Forward, TypeOK, history
<1> QED  BY <1>3, <1>4, <1>5, ForwardKeeps DEF Forward, Over

-----------------------------------------------------------------------------
(* The theorems.                                                           *)

\* Every step keeps the invariant and brings nothing back.
LEMMA Step ==
  ASSUME IInv, Next
  PROVE  IInv' /\ Over
<1>1. ASSUME UNCHANGED <<session, token>> PROVE Over
  BY <1>1 DEF Over
<1>2. ASSUME NEW w \in Workers, Transaction(w) PROVE IInv' /\ Over
  BY <1>1, <1>2, AuthenticateStep, EnforceConcurrentLimitStep, CreateSessionStep, BeginStep, RotateStep, FindSessionsStep, EndingStep
     DEF Transaction, Authenticate, EnforceConcurrentLimit, ResolveToken, CheckReset, FindSessions
<1> QED  BY <1>2, SurroundingStep DEF Next

\* The inductive invariant holds at all times.
THEOREM Inductive == Spec => []IInv
<1>1. Init => IInv
  <2> SUFFICES ASSUME Init PROVE IInv
    OBVIOUS
  <2> USE BoundAssumption DEF Init
  <2>1. TypeOK
    BY DEF TypeOK, UserStatuses, SessionStatuses, TokenRows, NoToken, ResetStatuses, Points, Nothing
  <2>2. CapShared
    <3>1. Active = {} /\ Counted = {}
      BY DEF Active, Counted
    <3>2. \A W \in SUBSET Counted : W = {} /\ Active \ Evicting(W) = {}
      BY <3>1
    <3>3. Cardinality({}) = 0
      BY FS_EmptySet
    <3>4. Cardinality(Workers) \in Nat
      BY Finite
    <3> SUFFICES ASSUME NEW W \in SUBSET Counted
                 PROVE  Cardinality(Active \ Evicting(W)) + Cardinality(W)
                            <= MaxConcurrent + Cardinality(Workers) - 1
      BY DEF CapShared
    <3>5. Cardinality(Active \ Evicting(W)) = 0 /\ Cardinality(W) = 0
      BY <3>2, <3>3
    <3> QED  BY <3>4, <3>5, CapAssumption
  <2>3. Numbered /\ Resolved /\ Ended
    BY DEF Numbered, LoggingIn, Resolved, Ended
  <2>4. Issued
    <3>1. \A t \in Tokens : token[t].status = "none" /\ ~(t <= 0)
      BY DEF NoToken, Tokens
    <3> QED  BY <3>1 DEF Issued
  <2> QED  BY <2>1, <2>2, <2>3, <2>4 DEF IInv
<1>2. IInv /\ [Next]_vars => IInv'
  <2>1. ASSUME IInv, UNCHANGED vars PROVE IInv'
    <3>1. TypeOK' /\ Forward /\ Onward
      BY <2>1 DEF IInv, TypeOK, Forward, Onward, vars
    <3> QED  BY <2>1, <3>1, ForwardKeeps DEF IInv, Ended, vars
  <2> QED  BY <2>1, Step
<1> QED  BY <1>1, <1>2, PTL DEF Spec

\* Logins exceed the cap by no more than the transactions that can be open beside the last to commit;
\* a session whose token was reused, or that a password reset found, is over.
THEOREM SessionsAreEnded == Spec => []SessionsEnd
<1>1. IInv => SessionsEnd
  <2> SUFFICES ASSUME IInv PROVE SessionsEnd
    OBVIOUS
  <2>1. CapOverrun
    <3>1. {} \in SUBSET Counted /\ Evicting({}) = {} /\ Cardinality({}) = 0
      BY FS_EmptySet DEF Evicting
    <3>2. Cardinality(Active \ {}) + 0 <= MaxConcurrent + Cardinality(Workers) - 1
      BY <3>1 DEF IInv, CapShared
    <3>3. Active \ {} = Active /\ Cardinality(Active) \in Nat
      BY Finite DEF Active
    <3> QED  BY <3>2, <3>3 DEF CapOverrun
  <2>2. ReuseEndsSession /\ ResetEndsSessions
    BY DEF IInv, Ended, ReuseEndsSession, ResetEndsSessions, Active
  <2> QED  BY <2>1, <2>2 DEF SessionsEnd, IInv
<1> QED  BY <1>1, Inductive, PTL

\* No handler revives a revoked session or a spent token, whatever it read before.
THEOREM NoneRevived == Spec => RevivesNothing
<1>1. IInv /\ [Next]_vars =>
        [/\ \A s \in Sessions : session[s] = "revoked" => session'[s] = "revoked"
         /\ \A t \in Tokens : token[t].status \in {"used", "revoked", "expired"}
                                  => token'[t].status \in {"used", "revoked", "expired"}]_vars
  BY Step DEF Over, Spent
<1> QED  BY <1>1, Inductive, PTL DEF Spec, RevivesNothing

-----------------------------------------------------------------------------
(* Role assignments.  The invariant says what a transaction past its       *)
(* token knows: the token is active and its alone, the assignment is the   *)
(* one that was approved, and, past the check, nothing that the target     *)
(* held when the transaction began conflicts with the role.                *)

LEMMA RoleSize == \A S : Role!Cardinality(S) = Cardinality(S)
BY DEF Cardinality, IsFiniteSet, Role!Cardinality, Role!IsFiniteSet

RoleTyped ==
    /\ held \subseteq Role!Assignments
    /\ roleToken \in [Grants -> {"active", "consumed", "revoked"}]
    /\ retired \subseteq Roles
    /\ version \in [Users -> Nat]
    /\ rolePc \in [Workers -> {"idle", "verified", "checked", "bootstrap"}]
    /\ req \in [Workers -> [user : Users \cup {None}, role : Roles \cup {None}, grant : Grants \cup {None}]]
    /\ heldBefore \in [Workers -> SUBSET Roles]
    /\ made \subseteq held \X SUBSET Roles

\* The assignment a worker makes is its token's, and its token is no other worker's.
Redeeming(w) == rolePc[w] \in {"verified", "checked"}
Redeems(w) ==
    Redeeming(w) =>
       /\ req[w].grant \in Grants /\ roleToken[req[w].grant] = "active"
       /\ req[w].user = req[w].grant.user /\ req[w].role = req[w].grant.role
       /\ heldBefore[w] \subseteq Role!RolesOf(req[w].user)
       /\ \A v \in Workers : Redeeming(v) /\ req[v].grant = req[w].grant => v = w

Passed(w) == rolePc[w] = "checked" => \A r \in heldBefore[w] \ retired : ~Role!Conflicting(req[w].role, r)

Bootstraps(w) == rolePc[w] = "bootstrap" => req[w].user = SealedAdmin /\ req[w].role \in AdminRoles

OneSealed == \A h, k \in held : h.basis = None /\ k.basis = None => h = k

RoleIInv ==
    /\ RoleTyped /\ OneSealed
    /\ Role!ConflictsOnlyFromOverlap /\ Role!EveryRoleApproved
    /\ \A w \in Workers : Redeems(w) /\ Passed(w) /\ Bootstraps(w)

\* What the check looks for is what the property forbids.
LEMMA NoConflict ==
    ASSUME NEW r, NEW S, ~Role!SodConflict(r, S), NEW x \in S
    PROVE  ~Role!Conflicting(r, x)
<1>1. ~Role!RefsConflict(SodRoleRules, r, x)
  <2> SUFFICES ASSUME Role!RefsConflict(SodRoleRules, r, x) PROVE FALSE
    OBVIOUS
  <2>1. PICK rule \in SodRoleRules : rule = <<r, x>> \/ rule = <<x, r>>
    BY DEF Role!RefsConflict
  <2> QED  BY <2>1 DEF Role!SodConflict, Role!Crosses
<1>2. ASSUME NEW p \in RolePerms[r], NEW q \in RolePerms[x], Role!RefsConflict(SodPermRules, p, q) PROVE FALSE
  <2>1. PICK rule \in SodPermRules : rule = <<p, q>> \/ rule = <<q, p>>
    BY <1>2 DEF Role!RefsConflict
  <2>2. q \in Role!PermsOf(S)
    BY DEF Role!PermsOf
  <2> QED  BY <2>1, <2>2 DEF Role!SodConflict, Role!Crosses
<1> QED  BY <1>1, <1>2 DEF Role!Conflicting

\* A worker that is done has nothing left to say.
LEMMA Finished ==
    ASSUME RoleTyped, NEW w \in Workers, Role!Finish(w)
    PROVE  /\ rolePc' \in [Workers -> {"idle", "verified", "checked", "bootstrap"}]
           /\ req' \in [Workers -> [user : Users \cup {None}, role : Roles \cup {None}, grant : Grants \cup {None}]]
           /\ heldBefore' \in [Workers -> SUBSET Roles]
           /\ rolePc'[w] = "idle"
           /\ \A v \in Workers \ {w} : rolePc'[v] = rolePc[v] /\ req'[v] = req[v] /\ heldBefore'[v] = heldBefore[v]
BY DEF RoleTyped, Role!Finish, Role!NoAssignment

\* A step that takes nothing from anybody, and no other worker's token, leaves the others as they
\* were.
LEMMA OthersKept ==
    ASSUME RoleIInv, NEW w,
           \A v \in Workers \ {w} : rolePc'[v] = rolePc[v] /\ req'[v] = req[v] /\ heldBefore'[v] = heldBefore[v],
           held \subseteq held', retired \subseteq retired',
           \A g \in Grants : roleToken'[g] = roleToken[g] \/ \A v \in Workers \ {w} : ~(Redeeming(v) /\ req[v].grant = g),
           w \in Workers /\ Redeeming(w)' => \A v \in Workers \ {w} : ~(Redeeming(v) /\ req[v].grant = req'[w].grant)
    PROVE  \A v \in Workers \ {w} : Redeems(v)' /\ Passed(v)' /\ Bootstraps(v)'
<1> SUFFICES ASSUME NEW v \in Workers \ {w} PROVE Redeems(v)' /\ Passed(v)' /\ Bootstraps(v)'
  OBVIOUS
<1>1. rolePc'[v] = rolePc[v] /\ req'[v] = req[v] /\ heldBefore'[v] = heldBefore[v]
  OBVIOUS
<1>2. Redeems(v) /\ Passed(v) /\ Bootstraps(v)
  BY DEF RoleIInv
<1>3. \A u : Role!RolesOf(u) \subseteq Role!RolesOf(u)'
  BY DEF Role!RolesOf
<1>4. Bootstraps(v)' /\ Passed(v)'
  BY <1>1, <1>2 DEF Bootstraps, Passed, Role!Conflicting, Role!RefsConflict
<1>5. ASSUME Redeeming(v)' PROVE Redeems(v)'
  <2>1. Redeeming(v)
    BY <1>1, <1>5 DEF Redeeming
  <2>2. roleToken'[req'[v].grant] = "active"
    BY <1>1, <1>2, <2>1 DEF Redeems
  <2>3. \A x \in Workers : Redeeming(x)' /\ req'[x].grant = req'[v].grant => x = v
    <3> SUFFICES ASSUME NEW x \in Workers, Redeeming(x)', req'[x].grant = req'[v].grant PROVE x = v
      OBVIOUS
    <3>1. CASE x = w
      BY <3>1, <1>1, <2>1
    <3>2. CASE x # w
      BY <3>2, <1>1, <1>2, <2>1 DEF Redeems, Redeeming
    <3> QED  BY <3>1, <3>2
  <2>4. (heldBefore[v] \subseteq Role!RolesOf(req[v].user))'
    BY <1>1, <1>2, <1>3, <2>1 DEF Redeems
  <2> QED  BY <1>1, <1>2, <1>5, <2>1, <2>2, <2>3, <2>4 DEF Redeems
<1> QED  BY <1>4, <1>5 DEF Redeems

\* What was made, held and approved stays so where rows are only added under a spent token.
LEMMA RowsKept ==
    ASSUME RoleIInv, UNCHANGED <<held, made>>, retired \subseteq retired',
           \A g \in Grants : roleToken[g] = "consumed" => roleToken'[g] = "consumed"
    PROVE  /\ OneSealed' /\ Role!ConflictsOnlyFromOverlap' /\ Role!EveryRoleApproved'
           /\ held' \subseteq Role!Assignments /\ made' \subseteq held' \X SUBSET Roles
<1>1. Role!ConflictsOnlyFromOverlap'
  BY DEF RoleIInv, Role!ConflictsOnlyFromOverlap, Role!Conflicting, Role!RefsConflict
<1>2. Role!EveryRoleApproved'
  BY DEF RoleIInv, Role!EveryRoleApproved
<1> QED  BY <1>1, <1>2 DEF RoleIInv, RoleTyped, OneSealed

LEMMA VerifyTokenStep ==
    ASSUME RoleIInv, NEW w \in Workers, NEW g \in Grants, NEW u \in Users, NEW r \in Roles, Role!VerifyToken(w, g, u, r)
    PROVE  RoleIInv'
<1>1. /\ UNCHANGED <<held, retired, version, made>> /\ rolePc[w] = "idle" /\ roleToken[g] = "active"
      /\ \A v \in Workers : ~(Redeeming(v) /\ req[v].grant = g)
  BY DEF Role!VerifyToken, Role!TokenLocked, Redeeming
<1>2. CASE Role!PayloadBound(g, u, r)
  <2>1. /\ UNCHANGED roleToken
        /\ rolePc' = [rolePc EXCEPT ![w] = "verified"]
        /\ req' = [req EXCEPT ![w] = [user |-> u, role |-> r, grant |-> g]]
        /\ heldBefore' = [heldBefore EXCEPT ![w] = Role!RolesOf(u)]
    BY <1>2 DEF Role!VerifyToken, Role!GoTo
  <2>2. Role!RolesOf(u) \subseteq Roles
    BY DEF Role!RolesOf, RoleIInv, RoleTyped, Role!Assignments
  <2>3. /\ RoleTyped'
        /\ rolePc'[w] = "verified" /\ req'[w] = [user |-> u, role |-> r, grant |-> g] /\ heldBefore'[w] = Role!RolesOf(u)
        /\ \A v \in Workers \ {w} : rolePc'[v] = rolePc[v] /\ req'[v] = req[v] /\ heldBefore'[v] = heldBefore[v]
    BY <1>1, <2>1, <2>2 DEF RoleIInv, RoleTyped
  <2>4. \A v \in Workers \ {w} : Redeems(v)' /\ Passed(v)' /\ Bootstraps(v)'
    BY <1>1, <2>1, <2>3, OthersKept
  <2>5. OneSealed' /\ Role!ConflictsOnlyFromOverlap' /\ Role!EveryRoleApproved'
    BY <1>1, <2>1, RowsKept
  <2>6. Redeems(w)'
    <3>1. \A v \in Workers : Redeeming(v)' /\ req'[v].grant = g => v = w
      BY <1>1, <2>3 DEF Redeeming
    <3>2. g.user = u /\ g.role = r
      BY <1>2 DEF Role!PayloadBound
    <3>3. (heldBefore[w] \subseteq Role!RolesOf(req[w].user))'
      BY <1>1, <2>3 DEF Role!RolesOf
    <3> QED  BY <1>1, <2>1, <2>3, <3>1, <3>2, <3>3 DEF Redeems
  <2>7. Passed(w)' /\ Bootstraps(w)'
    BY <2>3 DEF Passed, Bootstraps
  <2> QED  BY <2>3, <2>4, <2>5, <2>6, <2>7 DEF RoleIInv
<1>3. CASE ~Role!PayloadBound(g, u, r)
  <2>1. roleToken' = [roleToken EXCEPT ![g] = "revoked"] /\ UNCHANGED <<rolePc, req, heldBefore>>
    BY <1>3 DEF Role!VerifyToken
  <2>2. RoleTyped' /\ \A x \in Grants : x # g => roleToken'[x] = roleToken[x]
    BY <1>1, <2>1 DEF RoleIInv, RoleTyped
  <2>3. \A v \in Workers : Redeems(v)' /\ Passed(v)' /\ Bootstraps(v)'
    <3>1. \A x \in Grants : roleToken'[x] = roleToken[x] \/ \A v \in Workers : ~(Redeeming(v) /\ req[v].grant = x)
      BY <1>1, <2>2
    <3> QED  BY <1>1, <2>1, <3>1 DEF RoleIInv, Redeems, Redeeming, Passed, Bootstraps, Role!RolesOf, Role!Conflicting, Role!RefsConflict
  <2>4. OneSealed' /\ Role!ConflictsOnlyFromOverlap' /\ Role!EveryRoleApproved'
    <3>1. \A x \in Grants : roleToken[x] = "consumed" => roleToken'[x] = "consumed"
      BY <1>1, <2>2
    <3> QED  BY <1>1, <3>1, RowsKept
  <2> QED  BY <2>2, <2>3, <2>4 DEF RoleIInv
<1> QED  BY <1>2, <1>3

LEMMA CheckSodStep ==
    ASSUME RoleIInv, NEW w \in Workers, Role!CheckSod(w)
    PROVE  RoleIInv'
<1> DEFINE g == req[w].grant
           u == req[w].user
           existing == Role!RolesOf(u) \ retired
<1>1. /\ UNCHANGED <<held, retired, version, made>> /\ rolePc[w] = "verified" /\ Redeems(w) /\ Redeeming(w)
      /\ g \in Grants /\ roleToken[g] = "active"
      /\ \A v \in Workers \ {w} : ~(Redeeming(v) /\ req[v].grant = g)
  BY DEF Role!CheckSod, RoleIInv, Redeems, Redeeming
<1>2. CASE Role!SodConflict(req[w].role, existing)
  <2>1. roleToken' = [roleToken EXCEPT ![g] = "consumed"] /\ Role!Finish(w)
    BY <1>2 DEF Role!CheckSod, Role!Spend
  <2>2. /\ RoleTyped' /\ rolePc'[w] = "idle"
        /\ \A v \in Workers \ {w} : rolePc'[v] = rolePc[v] /\ req'[v] = req[v] /\ heldBefore'[v] = heldBefore[v]
        /\ \A x \in Grants : roleToken'[x] = IF x = g THEN "consumed" ELSE roleToken[x]
    BY <1>1, <2>1, Finished DEF RoleIInv, RoleTyped
  <2>3. \A v \in Workers \ {w} : Redeems(v)' /\ Passed(v)' /\ Bootstraps(v)'
    BY <1>1, <2>2, OthersKept DEF Redeeming
  <2>4. OneSealed' /\ Role!ConflictsOnlyFromOverlap' /\ Role!EveryRoleApproved'
    BY <1>1, <2>2, RowsKept
  <2>5. Redeems(w)' /\ Passed(w)' /\ Bootstraps(w)'
    BY <2>2 DEF Redeems, Redeeming, Passed, Bootstraps
  <2> QED  BY <2>2, <2>3, <2>4, <2>5 DEF RoleIInv
<1>3. CASE ~Role!SodConflict(req[w].role, existing)
  <2>1. rolePc' = [rolePc EXCEPT ![w] = "checked"] /\ UNCHANGED <<roleToken, req, heldBefore>>
    BY <1>3 DEF Role!CheckSod, Role!GoTo
  <2>2. RoleTyped' /\ rolePc'[w] = "checked" /\ \A v \in Workers \ {w} : rolePc'[v] = rolePc[v]
    BY <1>1, <2>1 DEF RoleIInv, RoleTyped
  <2>3. \A v \in Workers \ {w} : Redeems(v)' /\ Passed(v)' /\ Bootstraps(v)'
    BY <1>1, <2>1, <2>2, OthersKept
  <2>4. OneSealed' /\ Role!ConflictsOnlyFromOverlap' /\ Role!EveryRoleApproved'
    BY <1>1, <2>1, RowsKept
  <2>5. Redeems(w)'
    <3>1. (heldBefore[w] \subseteq Role!RolesOf(req[w].user))'
      BY <1>1, <2>1 DEF Redeems, Role!RolesOf
    <3>2. \A v \in Workers : Redeeming(v)' /\ req'[v].grant = g => v = w
      BY <1>1, <2>1, <2>2 DEF Redeeming
    <3> QED  BY <1>1, <2>1, <3>1, <3>2 DEF Redeems
  <2>6. Passed(w)' /\ Bootstraps(w)'
    <3>1. \A r \in existing : ~Role!Conflicting(req[w].role, r)
      BY <1>3, NoConflict
    <3>2. heldBefore[w] \ retired \subseteq existing
      BY <1>1 DEF Redeems
    <3> QED  BY <1>1, <2>1, <2>2, <3>1, <3>2 DEF Passed, Bootstraps, Role!Conflicting, Role!RefsConflict
  <2> QED  BY <2>2, <2>3, <2>4, <2>5, <2>6 DEF RoleIInv
<1> QED  BY <1>2, <1>3

LEMMA AssignStep ==
    ASSUME RoleIInv, NEW w \in Workers, Role!Assign(w)
    PROVE  RoleIInv'
<1> DEFINE g == req[w].grant
           u == req[w].user
           row == [user |-> u, role |-> req[w].role, basis |-> g]
<1>1. /\ held' = held \cup {row} /\ made' = made \cup {<<row, heldBefore[w]>>}
      /\ roleToken' = [roleToken EXCEPT ![g] = "consumed"]
      /\ version' = [version EXCEPT ![u] = @ + 1]
      /\ Role!Finish(w) /\ UNCHANGED retired /\ rolePc[w] = "checked"
  BY DEF Role!Assign, Role!Spend
<1>2. /\ Redeems(w) /\ Redeeming(w) /\ Passed(w)
      /\ g \in Grants /\ roleToken[g] = "active" /\ u = g.user /\ req[w].role = g.role
      /\ \A v \in Workers \ {w} : ~(Redeeming(v) /\ req[v].grant = g)
  BY <1>1 DEF RoleIInv, Redeems, Redeeming
<1>3. u \in Users /\ req[w].role \in Roles /\ g # None
  BY <1>2, RoleAssumption
<1>4. row \in Role!Assignments /\ heldBefore[w] \in SUBSET Roles
  BY <1>2, <1>3 DEF Role!Assignments, Role!Basis, RoleIInv, RoleTyped
<1>5. /\ rolePc'[w] = "idle"
      /\ \A v \in Workers \ {w} : rolePc'[v] = rolePc[v] /\ req'[v] = req[v] /\ heldBefore'[v] = heldBefore[v]
      /\ \A x \in Grants : roleToken'[x] = IF x = g THEN "consumed" ELSE roleToken[x]
  BY <1>1, Finished DEF RoleIInv, RoleTyped
<1>6. RoleTyped'
  <2>1. made' \subseteq held' \X SUBSET Roles
    BY <1>1, <1>4 DEF RoleIInv, RoleTyped
  <2>2. held' \subseteq Role!Assignments
    BY <1>1, <1>4 DEF RoleIInv, RoleTyped
  <2>3. roleToken' \in [Grants -> {"active", "consumed", "revoked"}] /\ version' \in [Users -> Nat]
    BY <1>1, <1>3 DEF RoleIInv, RoleTyped
  <2> QED  BY <1>1, <2>1, <2>2, <2>3, Finished DEF RoleIInv, RoleTyped
<1>7. \A v \in Workers \ {w} : Redeems(v)' /\ Passed(v)' /\ Bootstraps(v)'
  BY <1>1, <1>2, <1>5, OthersKept DEF Redeeming
<1>8. Redeems(w)' /\ Passed(w)' /\ Bootstraps(w)'
  BY <1>5 DEF Redeems, Redeeming, Passed, Bootstraps
<1>9. OneSealed'
  BY <1>1, <1>3 DEF RoleIInv, OneSealed
<1>10. Role!EveryRoleApproved'
  <2> SUFFICES ASSUME NEW h \in held' 
               PROVE  \/ /\ h.basis \in Grants /\ roleToken'[h.basis] = "consumed"
                         /\ h.basis.user = h.user /\ h.basis.role = h.role
                      \/ h.basis = None /\ h.user = SealedAdmin /\ h.role \in AdminRoles
    BY DEF Role!EveryRoleApproved
  <2>1. CASE h = row
    BY <2>1, <1>2, <1>5
  <2>2. CASE h \in held
    BY <2>2, <1>5 DEF RoleIInv, Role!EveryRoleApproved
  <2> QED  BY <2>1, <2>2, <1>1
<1>11. Role!ConflictsOnlyFromOverlap'
  <2> SUFFICES ASSUME NEW m \in made', NEW r \in m[2] \ retired PROVE ~Role!Conflicting(m[1].role, r)
    BY <1>1 DEF Role!ConflictsOnlyFromOverlap, Role!Conflicting, Role!RefsConflict
  <2>1. CASE m \in made
    BY <2>1 DEF RoleIInv, Role!ConflictsOnlyFromOverlap
  <2>2. CASE m = <<row, heldBefore[w]>>
    BY <2>2, <1>1, <1>2 DEF Passed
  <2> QED  BY <2>1, <2>2, <1>1
<1> QED  BY <1>6, <1>7, <1>8, <1>9, <1>10, <1>11 DEF RoleIInv

LEMMA BeginBootstrapStep ==
    ASSUME RoleIInv, NEW w \in Workers, NEW r \in AdminRoles, Role!BeginBootstrap(w, r)
    PROVE  RoleIInv'
<1>1. /\ UNCHANGED <<held, roleToken, retired, version, heldBefore, made>>
      /\ rolePc' = [rolePc EXCEPT ![w] = "bootstrap"]
      /\ req' = [req EXCEPT ![w] = [user |-> SealedAdmin, role |-> r, grant |-> None]]
  BY DEF Role!BeginBootstrap, Role!GoTo
<1>2. /\ RoleTyped' /\ rolePc'[w] = "bootstrap" /\ req'[w] = [user |-> SealedAdmin, role |-> r, grant |-> None]
      /\ \A v \in Workers \ {w} : rolePc'[v] = rolePc[v] /\ req'[v] = req[v]
  BY <1>1, RoleAssumption DEF RoleIInv, RoleTyped
<1>3. \A v \in Workers \ {w} : Redeems(v)' /\ Passed(v)' /\ Bootstraps(v)'
  BY <1>1, <1>2, OthersKept DEF Redeeming
<1>4. OneSealed' /\ Role!ConflictsOnlyFromOverlap' /\ Role!EveryRoleApproved'
  BY <1>1, RowsKept
<1>5. Redeems(w)' /\ Passed(w)' /\ Bootstraps(w)'
  BY <1>2 DEF Redeems, Redeeming, Passed, Bootstraps
<1> QED  BY <1>2, <1>3, <1>4, <1>5 DEF RoleIInv

LEMMA CommitBootstrapStep ==
    ASSUME RoleIInv, NEW w \in Workers, Role!CommitBootstrap(w)
    PROVE  RoleIInv'
<1> DEFINE u == req[w].user
           row == [user |-> u, role |-> req[w].role, basis |-> None]
<1>1. /\ UNCHANGED <<roleToken, retired, made>> /\ Role!Finish(w) /\ rolePc[w] = "bootstrap"
      /\ \/ UNCHANGED <<held, version>>
         \/ /\ \A h \in held : h.basis # None
            /\ held' = held \cup {row} /\ version' = [version EXCEPT ![u] = @ + 1]
  BY DEF Role!CommitBootstrap, Role!Overtaken
<1>2. u = SealedAdmin /\ req[w].role \in AdminRoles /\ row \in Role!Assignments
  BY <1>1, RoleAssumption DEF RoleIInv, Bootstraps, Role!Assignments, Role!Basis
<1>3. /\ rolePc'[w] = "idle"
      /\ \A v \in Workers \ {w} : rolePc'[v] = rolePc[v] /\ req'[v] = req[v] /\ heldBefore'[v] = heldBefore[v]
  BY <1>1, Finished DEF RoleIInv
<1>4. RoleTyped'
  <2>1. held' \subseteq Role!Assignments /\ made' \subseteq held' \X SUBSET Roles /\ version' \in [Users -> Nat]
    BY <1>1, <1>2, RoleAssumption DEF RoleIInv, RoleTyped
  <2> QED  BY <1>1, <2>1, Finished DEF RoleIInv, RoleTyped
<1>5. \A v \in Workers \ {w} : Redeems(v)' /\ Passed(v)' /\ Bootstraps(v)'
  <2>1. held \subseteq held'
    BY <1>1
  <2> QED  BY <1>1, <1>3, <2>1, OthersKept DEF Redeeming
<1>6. Redeems(w)' /\ Passed(w)' /\ Bootstraps(w)'
  BY <1>3 DEF Redeems, Redeeming, Passed, Bootstraps
<1>7. OneSealed' /\ Role!EveryRoleApproved'
  BY <1>1, <1>2 DEF RoleIInv, OneSealed, Role!EveryRoleApproved
<1>8. Role!ConflictsOnlyFromOverlap'
  BY <1>1 DEF RoleIInv, Role!ConflictsOnlyFromOverlap, Role!Conflicting, Role!RefsConflict
<1> QED  BY <1>4, <1>5, <1>6, <1>7, <1>8 DEF RoleIInv

LEMMA RetireStep ==
    ASSUME RoleIInv, NEW r \in Roles, Role!RetireRole(r)
    PROVE  RoleIInv'
<1>1. UNCHANGED <<held, roleToken, version, rolePc, req, heldBefore, made>> /\ retired' = retired \cup {r}
  BY DEF Role!RetireRole
<1>2. OneSealed' /\ Role!ConflictsOnlyFromOverlap' /\ Role!EveryRoleApproved'
  BY <1>1, RowsKept
<1>3. \A w \in Workers : Redeems(w)' /\ Passed(w)' /\ Bootstraps(w)'
  BY <1>1 DEF RoleIInv, Redeems, Redeeming, Passed, Bootstraps, Role!RolesOf, Role!Conflicting, Role!RefsConflict
<1> QED  BY <1>1, <1>2, <1>3 DEF RoleIInv, RoleTyped

LEMMA RoleStep ==
    ASSUME RoleIInv, [Role!Next]_Role!vars
    PROVE  RoleIInv'
<1>1. CASE UNCHANGED Role!vars
  <2>1. UNCHANGED <<held, roleToken, retired, version, rolePc, req, heldBefore, made>>
    BY <1>1 DEF Role!vars
  <2>2. OneSealed' /\ Role!ConflictsOnlyFromOverlap' /\ Role!EveryRoleApproved'
    BY <2>1, RowsKept
  <2>3. \A w \in Workers : Redeems(w)' /\ Passed(w)' /\ Bootstraps(w)'
    BY <2>1 DEF RoleIInv, Redeems, Redeeming, Passed, Bootstraps, Role!RolesOf, Role!Conflicting, Role!RefsConflict
  <2> QED  BY <2>1, <2>2, <2>3 DEF RoleIInv, RoleTyped
<1>2. CASE Role!Next
  BY <1>2, VerifyTokenStep, CheckSodStep, AssignStep, BeginBootstrapStep, CommitBootstrapStep, RetireStep
     DEF Role!Next, Role!Request
<1> QED  BY <1>1, <1>2

LEMMA RoleBegins == Role!Init => RoleIInv
BY DEF Role!Init, RoleIInv, RoleTyped, OneSealed, Redeems, Redeeming, Passed, Bootstraps, Role!NoAssignment,
   Role!ConflictsOnlyFromOverlap, Role!EveryRoleApproved

\* Conflicting roles come only of assignments that overlapped, each role held was approved for its
\* user with a token of its own or is the sealed administrator's, and of those there is one.
LEMMA RolesSound == RoleIInv => Role!TypeOK /\ Role!ConflictsOnlyFromOverlap /\ Role!EveryRoleApproved /\ Role!OneBootstrap
<1> SUFFICES ASSUME RoleIInv
             PROVE  Role!TypeOK /\ Role!ConflictsOnlyFromOverlap /\ Role!EveryRoleApproved /\ Role!OneBootstrap
  OBVIOUS
<1>1. Role!TypeOK
  BY DEF RoleIInv, RoleTyped, Role!TypeOK, Role!Basis
<1> DEFINE Sealed == {h \in held : h.basis = None}
<1>2. Cardinality(Sealed) <= 1
  <2>1. CASE Sealed = {}
    BY <2>1, FS_EmptySet
  <2>2. ASSUME NEW h \in Sealed PROVE Cardinality(Sealed) <= 1
    <3>1. Sealed = {h}
      BY <2>2 DEF RoleIInv, OneSealed
    <3>2. Cardinality({h}) = 1
      BY FS_Singleton
    <3> QED  BY <3>1, <3>2
  <2> QED  BY <2>1, <2>2
<1>3. Role!OneBootstrap
  BY <1>2, RoleSize DEF Role!OneBootstrap
<1> QED  BY <1>1, <1>3 DEF RoleIInv

\* Of every history of assignments, for any roles, rules and grants.
THEOREM RolesSafe ==
    Role!Spec => [](Role!TypeOK /\ Role!ConflictsOnlyFromOverlap /\ Role!EveryRoleApproved /\ Role!OneBootstrap)
BY RoleBegins, RoleStep, RolesSound, PTL DEF Role!Spec

-----------------------------------------------------------------------------
(* The permission guard.  The invariant says of each evaluation what the   *)
(* reads behind it rule out: of all that stood against the actor since it  *)
(* began, nothing it has looked for is left; and what was held since then  *)
(* is among the grants it found.  A token is bound to a version no later   *)
(* than the one its grants were read at.                                   *)

GuardPoints == {"idle", "version", "permission", "override", "grants", "deciding"}
Evaluations ==
    [at : GuardPoints, kind : Guard!Kinds \cup {None}, token : DirectTokens \cup {None}, evidence : BOOLEAN,
     payload : BOOLEAN, version : Nat, flags : SUBSET Guard!Flags, found : SUBSET Granting, granted : Nat,
     expired : SUBSET Granting, stood : SUBSET Guard!Hindrances, held : SUBSET Granting]
DirectRows == [status : {"none", "active", "revoked", "consumed"}, version : Nat, granted : Nat]

GuardTyped ==
    /\ against \subseteq Guard!Hindrances /\ outdated \subseteq granting /\ granting \subseteq Granting
    /\ permissionVersion \in Nat
    /\ directToken \in [DirectTokens -> DirectRows]
    /\ guardWork \in [Workers -> Evaluations]

\* What was seen of the flags when the permission was read.
Seen(e) ==
    /\ e.at \in {"override", "grants", "deciding"} =>
          /\ e.stood \cap Guard!Flags \subseteq e.flags
          /\ e.flags \cap (Guard!Locks \cup {"unknown"}) = {}
    /\ e.at \in {"grants", "deciding"} =>
          /\ "denied" \notin e.stood
          /\ e.kind = "check" => e.flags \cap Guard!Gates = {}
    /\ e.at = "deciding" => e.held \subseteq e.found

Evaluates(e) ==
    /\ e.held \cap e.expired = {}
    /\ e.evidence => e.kind = "step_up"
    /\ e.payload => e.kind = "check"
    /\ e.at # "idle" => e.kind \in Guard!Kinds
    /\ e.kind = "execute" /\ e.at # "idle" => e.token \in DirectTokens
    /\ Seen(e)

\* Beside what surrounds it: what stood since the beginning still stands, and versions grow.
Abreast(e) ==
    /\ e.stood \subseteq against /\ e.held \subseteq granting
    /\ e.version <= permissionVersion /\ e.granted <= permissionVersion
    /\ e.at = "deciding" /\ e.payload => e.version <= e.granted
    /\ e.kind = "execute" /\ e.at = "version" =>
          directToken[e.token].status # "none" /\ directToken[e.token].granted = e.granted

Bound(r) ==
    /\ r.version <= r.granted /\ r.granted <= permissionVersion

GuardIInv ==
    /\ GuardTyped /\ Guard!AnsweredAsOf
    /\ \A w \in Workers : Evaluates(guardWork[w]) /\ Abreast(guardWork[w])
    /\ \A t \in DirectTokens : Bound(directToken[t])

\* A step of one worker, which leaves what surrounds the evaluations alone.
Surroundings == <<against, granting, outdated, permissionVersion>>

LEMMA OthersEvaluate ==
    ASSUME GuardIInv, NEW w \in Workers, NEW e \in Evaluations, guardWork' = [guardWork EXCEPT ![w] = e],
           UNCHANGED Surroundings, directToken' \in [DirectTokens -> DirectRows],
           \A t \in DirectTokens :
              /\ Bound(directToken'[t])
              /\ directToken[t].status # "none" => directToken'[t].status # "none" /\ directToken'[t].granted = directToken[t].granted,
           Evaluates(e), Abreast(e)', Guard!AnsweredAsOf'
    PROVE  GuardIInv'
<1>1. guardWork' \in [Workers -> Evaluations] /\ \A v \in Workers : guardWork'[v] = IF v = w THEN e ELSE guardWork[v]
  BY DEF GuardIInv, GuardTyped
<1>2. \A t \in DirectTokens : Bound(directToken[t])'
  BY DEF Bound, Surroundings
<1>3. ASSUME NEW v \in Workers \ {w} PROVE Evaluates(guardWork[v])' /\ Abreast(guardWork[v])'
  <2>1. guardWork'[v] = guardWork[v] /\ Evaluates(guardWork[v]) /\ Abreast(guardWork[v])
    BY <1>1 DEF GuardIInv
  <2>2. Evaluates(guardWork[v])'
    BY <2>1 DEF Evaluates, Seen
  <2>3. Abreast(guardWork[v])'
    BY <2>1 DEF Abreast, Surroundings, Evaluates
  <2> QED  BY <2>2, <2>3
<1>4. Evaluates(guardWork[w])' /\ Abreast(guardWork[w])'
  <2>1. guardWork'[w] = e
    BY <1>1
  <2> QED  BY <2>1 DEF Evaluates, Seen, Abreast
<1>5. GuardTyped'
  BY <1>1 DEF GuardIInv, GuardTyped, Surroundings
<1> QED  BY <1>1, <1>2, <1>3, <1>4, <1>5 DEF GuardIInv

\* An evaluation that goes on without having answered, and without a token's row.
LEMMA GoesOn ==
    ASSUME GuardIInv, NEW w \in Workers, NEW e \in Evaluations, guardWork' = [guardWork EXCEPT ![w] = e],
           UNCHANGED <<Surroundings, directToken, answer>>, Evaluates(e), Abreast(e)
    PROVE  GuardIInv'
<1>1. Abreast(e)' 
  BY DEF Abreast, Surroundings
<1>2. directToken' \in [DirectTokens -> DirectRows] /\ Guard!AnsweredAsOf'
  BY DEF GuardIInv, GuardTyped, Guard!AnsweredAsOf
<1>3. \A t \in DirectTokens : Bound(directToken'[t])
  BY DEF GuardIInv
<1> QED  BY <1>1, <1>2, <1>3, OthersEvaluate

LEMMA IdleEvaluates == Guard!Idle \in Evaluations /\ Evaluates(Guard!Idle) /\ (GuardTyped => Abreast(Guard!Idle))
BY GuardAssumption DEF Guard!Idle, Evaluations, GuardPoints, Evaluates, Seen, Abreast, GuardTyped, Guard!Kinds

\* An evaluation that is answered: rows of tokens may change with the answer.
LEMMA EvaluationRests ==
    ASSUME GuardIInv, NEW w \in Workers, Guard!Rest(w), UNCHANGED Surroundings,
           directToken' \in [DirectTokens -> DirectRows],
           \A t \in DirectTokens :
              /\ Bound(directToken'[t])
              /\ directToken[t].status # "none" => directToken'[t].status # "none" /\ directToken'[t].granted = directToken[t].granted,
           Guard!AnsweredAsOf'
    PROVE  GuardIInv'
<1>1. guardWork' = [guardWork EXCEPT ![w] = Guard!Idle]
  BY DEF Guard!Rest
<1>2. Abreast(Guard!Idle)'
  BY IdleEvaluates DEF GuardIInv, GuardTyped, Surroundings, Abreast, Guard!Idle
<1> QED  BY <1>1, <1>2, IdleEvaluates, OthersEvaluate

LEMMA CheckRefused ==
    ASSUME GuardIInv, NEW w \in Workers, NEW d, Guard!Refuse(w, d), UNCHANGED Surroundings,
           d \notin {"allow", "authorised"}, d = "no_assignment" => guardWork[w].held = {}
    PROVE  GuardIInv'
<1>1. UNCHANGED directToken /\ Guard!Rest(w) /\ Guard!recordDecision(w, d)
  BY DEF Guard!Refuse
<1>2. Guard!AnsweredAsOf'
  BY <1>1 DEF Guard!recordDecision, Guard!AnsweredAsOf
<1>3. directToken' \in [DirectTokens -> DirectRows] /\ \A t \in DirectTokens : Bound(directToken'[t])
  BY <1>1 DEF GuardIInv, GuardTyped
<1> QED  BY <1>1, <1>2, <1>3, EvaluationRests

LEMMA EvaluationBeginsStep ==
    ASSUME GuardIInv, NEW w \in Workers, NEW kind \in Guard!Kinds, NEW evidence \in BOOLEAN, NEW payload \in BOOLEAN,
           Guard!Begin(w, kind, evidence, payload)
    PROVE  GuardIInv'
<1> DEFINE e == Guard!Begun(kind, None, evidence, payload, 0)
<1>1. /\ guardWork' = [guardWork EXCEPT ![w] = e] /\ UNCHANGED <<Surroundings, directToken, answer>>
      /\ kind # "execute" /\ (evidence => kind = "step_up") /\ (payload => kind = "check")
  BY DEF Guard!Begin, Surroundings
<1>2. e \in Evaluations
  BY DEF GuardIInv, GuardTyped, Guard!Begun, Evaluations, GuardPoints
<1>3. Evaluates(e) /\ Abreast(e)
  BY <1>1 DEF GuardIInv, GuardTyped, Guard!Begun, Evaluates, Seen, Abreast
<1> HIDE DEF e
<1> QED  BY <1>1, <1>2, <1>3, GoesOn

LEMMA CacheVersionStep ==
    ASSUME GuardIInv, NEW w \in Workers, Guard!lookupCacheVersion(w)
    PROVE  GuardIInv'
<1> DEFINE old == guardWork[w]
           e == [old EXCEPT !.at = "permission", !.version = permissionVersion]
<1>1. guardWork' = [guardWork EXCEPT ![w] = e] /\ UNCHANGED <<Surroundings, directToken, answer>> /\ old.at = "version"
  BY DEF Guard!lookupCacheVersion, Surroundings, Guard!At
<1>2. old \in Evaluations /\ Evaluates(old) /\ Abreast(old) /\ permissionVersion \in Nat
  BY DEF GuardIInv, GuardTyped
<1> HIDE DEF old
<1>3. e \in Evaluations
  BY <1>2 DEF Evaluations, GuardPoints
<1>4. Evaluates(e) /\ Abreast(e)
  BY <1>1, <1>2 DEF Evaluations, Evaluates, Seen, Abreast
<1> HIDE DEF e
<1> QED  BY <1>1, <1>3, <1>4, GoesOn

LEMMA PermissionStep ==
    ASSUME GuardIInv, NEW w \in Workers, Guard!lookupPermission(w)
    PROVE  GuardIInv'
<1> DEFINE old == guardWork[w]
           flags == against \cap Guard!Flags
           e == [old EXCEPT !.at = "override", !.flags = flags]
<1>1. UNCHANGED Surroundings /\ old.at = "permission"
  BY DEF Guard!lookupPermission, Surroundings, Guard!At
<1>2. old \in Evaluations /\ Evaluates(old) /\ Abreast(old)
  BY DEF GuardIInv, GuardTyped
<1>3. CASE Guard!Refuse(w, "unknown") \/ Guard!Refuse(w, "licence_locked")
  BY <1>1, <1>3, CheckRefused
<1>4. CASE "unknown" \notin flags /\ flags \cap Guard!Locks = {}
           /\ guardWork' = [guardWork EXCEPT ![w] = e] /\ UNCHANGED <<directToken, answer>>
  <2> HIDE DEF old
  <2>1. e \in Evaluations
    BY <1>2 DEF Evaluations, GuardPoints
  <2>2. Evaluates(e) /\ Abreast(e)
    BY <1>1, <1>2, <1>4 DEF Evaluations, Evaluates, Seen, Abreast
  <2> HIDE DEF e
  <2> QED  BY <1>1, <1>4, <2>1, <2>2, GoesOn
<1> QED  BY <1>3, <1>4 DEF Guard!lookupPermission

LEMMA DenyOrGateStep ==
    ASSUME GuardIInv, NEW w \in Workers, Guard!DenyOrGate(w)
    PROVE  GuardIInv'
<1> DEFINE old == guardWork[w]
           e == [old EXCEPT !.at = "grants"]
<1>1. UNCHANGED Surroundings /\ old.at = "override"
  BY DEF Guard!DenyOrGate, Surroundings, Guard!At
<1>2. old \in Evaluations /\ Evaluates(old) /\ Abreast(old)
  BY DEF GuardIInv, GuardTyped
<1>3. Guard!Gate(w) \in {None, "step_up_required", "approval_required"}
  BY DEF Guard!Gate
<1>4. CASE Guard!Refuse(w, "deny_override")
  BY <1>1, <1>4, CheckRefused
<1>5. CASE Guard!Refuse(w, Guard!Gate(w)) /\ Guard!Gate(w) # None
  BY <1>1, <1>3, <1>5, CheckRefused
<1>6. CASE "denied" \notin against /\ Guard!Gate(w) = None
           /\ guardWork' = [guardWork EXCEPT ![w] = e] /\ UNCHANGED <<directToken, answer>>
  <2>1. old.kind = "check" => old.flags \cap Guard!Gates = {}
    BY <1>2, <1>6, GuardAssumption DEF Guard!Gate, Guard!SkipsGates, Guard!stepUpSatisfies, Guard!Gates, Evaluates
  <2> HIDE DEF old
  <2>2. e \in Evaluations
    BY <1>2 DEF Evaluations, GuardPoints
  <2>3. Evaluates(e) /\ Abreast(e)
    BY <1>1, <1>2, <1>6, <2>1 DEF Evaluations, Evaluates, Seen, Abreast
  <2> HIDE DEF e
  <2> QED  BY <1>1, <1>6, <2>2, <2>3, GoesOn
<1> QED  BY <1>4, <1>5, <1>6 DEF Guard!DenyOrGate, Guard!lookupActiveDenyOverride

LEMMA GrantsStep ==
    ASSUME GuardIInv, NEW w \in Workers, Guard!lookupActiveRoleGrants(w)
    PROVE  GuardIInv'
<1> DEFINE old == guardWork[w]
           e == [old EXCEPT !.at = "deciding", !.found = granting \ old.expired, !.granted = permissionVersion]
<1>1. guardWork' = [guardWork EXCEPT ![w] = e] /\ UNCHANGED <<Surroundings, directToken, answer>> /\ old.at = "grants"
  BY DEF Guard!lookupActiveRoleGrants, Surroundings, Guard!At
<1>2. old \in Evaluations /\ Evaluates(old) /\ Abreast(old) /\ permissionVersion \in Nat /\ granting \subseteq Granting
  BY DEF GuardIInv, GuardTyped
<1> HIDE DEF old
<1>3. e \in Evaluations
  BY <1>2 DEF Evaluations, GuardPoints
<1>4. Evaluates(e) /\ Abreast(e)
  BY <1>1, <1>2 DEF Evaluations, Evaluates, Seen, Abreast
<1> HIDE DEF e
<1> QED  BY <1>1, <1>3, <1>4, GoesOn

LEMMA DecideStep ==
    ASSUME GuardIInv, NEW w \in Workers, Guard!Decide(w)
    PROVE  GuardIInv'
<1> DEFINE old == guardWork[w]
<1>1. UNCHANGED Surroundings /\ old.at = "deciding" /\ old.kind # "execute"
  BY DEF Guard!Decide, Surroundings, Guard!At
<1>2. old \in Evaluations /\ Evaluates(old) /\ Abreast(old)
  BY DEF GuardIInv, GuardTyped
<1>3. CASE old.found = {} /\ Guard!Refuse(w, "no_assignment")
  BY <1>1, <1>2, <1>3, CheckRefused DEF Evaluates, Seen
<1>4. CASE Guard!recordDecision(w, "allow") /\ Guard!Rest(w) /\ Guard!issueDecisionToken(w)
  <2>1. Guard!AnsweredAsOf'
    <3>1. old.stood \cap Guard!Ending = {} /\ (old.kind = "check" => old.stood \cap Guard!Gates = {})
      BY <1>1, <1>2 DEF Evaluates, Seen, Guard!Ending, Guard!Flags, Guard!Locks, Guard!Gates
    <3>2. answer' = [decision |-> "allow", kind |-> old.kind, stood |-> old.stood, held |-> old.held]
      BY <1>4 DEF Guard!recordDecision
    <3> QED  BY <3>1, <3>2 DEF Guard!AnsweredAsOf
  <2>2. CASE UNCHANGED directToken
    <3>1. directToken' \in [DirectTokens -> DirectRows] /\ \A t \in DirectTokens : Bound(directToken'[t])
      BY <2>2 DEF GuardIInv, GuardTyped
    <3> QED  BY <1>1, <1>4, <2>1, <2>2, <3>1, EvaluationRests
  <2>3. ASSUME old.payload, NEW t \in DirectTokens, directToken[t] = Guard!NoToken,
               directToken' = [directToken EXCEPT ![t] = [status |-> "active", version |-> Guard!BoundVersion(w), granted |-> old.granted]]
        PROVE  GuardIInv'
    <3> DEFINE r == [status |-> "active", version |-> Guard!BoundVersion(w), granted |-> old.granted]
    <3>1. r \in DirectRows /\ Bound(r)
      BY <1>1, <1>2, <2>3 DEF Evaluations, DirectRows, Guard!BoundVersion, Bound, Abreast
    <3>2. directToken[t].status = "none"
      BY <2>3 DEF Guard!NoToken
    <3> HIDE DEF r
    <3>3. /\ directToken' \in [DirectTokens -> DirectRows]
          /\ \A s \in DirectTokens : directToken'[s] = IF s = t THEN r ELSE directToken[s]
      BY <2>3, <3>1 DEF r, GuardIInv, GuardTyped
    <3>4. \A s \in DirectTokens : Bound(directToken'[s])
      BY <3>1, <3>3 DEF GuardIInv
    <3> QED  BY <1>1, <1>4, <2>1, <3>2, <3>3, <3>4, EvaluationRests
  <2> QED  BY <1>4, <2>2, <2>3 DEF Guard!issueDecisionToken
<1> QED  BY <1>3, <1>4 DEF Guard!Decide

LEMMA CheckDecisionTokenStep ==
    ASSUME GuardIInv, NEW w \in Workers, NEW t \in DirectTokens, NEW fits \in BOOLEAN, Guard!checkDecisionToken(w, t, fits)
    PROVE  GuardIInv'
<1>1. UNCHANGED <<Surroundings, answer>> /\ directToken[t].status = "active" /\ Bound(directToken[t]) /\ directToken[t] \in DirectRows
  BY DEF Guard!checkDecisionToken, Surroundings, GuardIInv, GuardTyped
<1>2. Guard!AnsweredAsOf'
  BY <1>1 DEF GuardIInv, Guard!AnsweredAsOf
<1>3. CASE directToken' = [directToken EXCEPT ![t].status = "revoked"] /\ UNCHANGED guardWork
  <2>1. /\ directToken' \in [DirectTokens -> DirectRows]
        /\ \A s \in DirectTokens : IF s = t THEN directToken'[s] = [directToken[t] EXCEPT !.status = "revoked"]
                                   ELSE directToken'[s] = directToken[s]
    BY <1>1, <1>3 DEF GuardIInv, GuardTyped, DirectRows
  <2>2. \A s \in DirectTokens : directToken'[s].granted = directToken[s].granted /\ directToken'[s].version = directToken[s].version
                                /\ (directToken[s].status # "none" => directToken'[s].status # "none")
    BY <1>1, <2>1 DEF DirectRows
  <2>3. ASSUME NEW v \in Workers PROVE Evaluates(guardWork[v])' /\ Abreast(guardWork[v])'
    <3>1. Evaluates(guardWork[v]) /\ Abreast(guardWork[v])
      BY DEF GuardIInv
    <3>2. Evaluates(guardWork[v])'
      BY <1>3, <3>1 DEF Evaluates, Seen
    <3>3. Abreast(guardWork[v])'
      BY <1>1, <1>3, <2>2, <3>1 DEF Abreast, Surroundings, Evaluates
    <3> QED  BY <3>2, <3>3
  <2>4. \A s \in DirectTokens : Bound(directToken[s])'
    BY <1>1, <2>2 DEF GuardIInv, Bound, Surroundings
  <2> QED  BY <1>1, <1>2, <1>3, <2>1, <2>3, <2>4 DEF GuardIInv, GuardTyped, Surroundings
<1>4. CASE /\ directToken[t].version = permissionVersion /\ UNCHANGED directToken
           /\ guardWork' = [guardWork EXCEPT ![w] = Guard!Begun("execute", t, FALSE, FALSE, permissionVersion)]
  <2> DEFINE e == Guard!Begun("execute", t, FALSE, FALSE, permissionVersion)
  <2>1. e \in Evaluations
    BY DEF GuardIInv, GuardTyped, Guard!Begun, Evaluations, GuardPoints, Guard!Kinds
  <2>2. directToken[t].granted = permissionVersion
    BY <1>1, <1>4 DEF Bound, DirectRows, GuardIInv, GuardTyped
  <2>3. Evaluates(e) /\ Abreast(e)
    BY <1>1, <2>2 DEF GuardIInv, GuardTyped, Guard!Begun, Evaluates, Seen, Abreast, Guard!Kinds
  <2> HIDE DEF e
  <2> QED  BY <1>1, <1>4, <2>1, <2>3, GoesOn DEF e
<1> QED  BY <1>3, <1>4 DEF Guard!checkDecisionToken

LEMMA ConsumeStep ==
    ASSUME GuardIInv, NEW w \in Workers, Guard!consumeCheckedToken(w)
    PROVE  GuardIInv'
<1> DEFINE old == guardWork[w]
<1>1. UNCHANGED Surroundings /\ old.at = "deciding" /\ old.kind = "execute"
  BY DEF Guard!consumeCheckedToken, Surroundings, Guard!At
<1>2. old \in Evaluations /\ Evaluates(old) /\ Abreast(old) /\ old.token \in DirectTokens
  BY <1>1 DEF GuardIInv, GuardTyped, Evaluates
<1>3. CASE old.found = {} /\ Guard!Refuse(w, "no_assignment")
  BY <1>1, <1>2, <1>3, CheckRefused DEF Evaluates, Seen
<1>4. CASE Guard!Refuse(w, "provenance")
  BY <1>1, <1>4, CheckRefused
<1>5. CASE /\ old.flags \cap Guard!Gates = {} /\ Guard!recordDecision(w, "authorised") /\ Guard!Rest(w)
           /\ directToken' = [directToken EXCEPT ![old.token].status = "consumed"]
  <2>1. Guard!AnsweredAsOf'
    <3>1. old.stood \cap Guard!Ending = {} /\ old.stood \cap Guard!Gates = {}
      BY <1>1, <1>2, <1>5 DEF Evaluates, Seen, Guard!Ending, Guard!Flags, Guard!Locks, Guard!Gates
    <3>2. answer' = [decision |-> "authorised", kind |-> old.kind, stood |-> old.stood, held |-> old.held]
      BY <1>5 DEF Guard!recordDecision
    <3> QED  BY <3>1, <3>2 DEF Guard!AnsweredAsOf
  <2> DEFINE t == old.token
  <2>2. t \in DirectTokens /\ directToken[t] \in DirectRows
    BY <1>2 DEF GuardIInv, GuardTyped
  <2> HIDE DEF t
  <2>3. directToken' = [directToken EXCEPT ![t].status = "consumed"]
    BY <1>5 DEF t
  <2>4. /\ directToken' \in [DirectTokens -> DirectRows]
        /\ \A s \in DirectTokens : IF s = t THEN directToken'[s] = [directToken[t] EXCEPT !.status = "consumed"]
                                   ELSE directToken'[s] = directToken[s]
    BY <2>2, <2>3 DEF GuardIInv, GuardTyped, DirectRows
  <2>5. \A s \in DirectTokens : directToken'[s].granted = directToken[s].granted /\ directToken'[s].version = directToken[s].version
                                /\ (directToken[s].status # "none" => directToken'[s].status # "none")
    BY <2>2, <2>4 DEF DirectRows
  <2>6. \A s \in DirectTokens : Bound(directToken'[s])
    BY <2>5 DEF GuardIInv, Bound
  <2> QED  BY <1>1, <1>5, <2>1, <2>4, <2>5, <2>6, EvaluationRests
<1> QED  BY <1>3, <1>4, <1>5 DEF Guard!consumeCheckedToken, Guard!checkApprovalProvenance

LEMMA DiesStep ==
    ASSUME GuardIInv, NEW w \in Workers, Guard!Dies(w)
    PROVE  GuardIInv'
<1>1. Guard!Rest(w) /\ UNCHANGED <<Surroundings, directToken, answer>>
  BY DEF Guard!Dies, Surroundings
<1>2. Guard!AnsweredAsOf' /\ directToken' \in [DirectTokens -> DirectRows] /\ \A t \in DirectTokens : Bound(directToken'[t])
  BY <1>1 DEF GuardIInv, GuardTyped, Guard!AnsweredAsOf
<1> QED  BY <1>1, <1>2, EvaluationRests

\* What an administrator does takes from what stood, or adds to what nobody relies on.
LEMMA AdministerStep ==
    ASSUME GuardIInv, Guard!Administer
    PROVE  GuardIInv'
<1>1. UNCHANGED <<directToken, answer>> /\ permissionVersion' \in Nat /\ permissionVersion <= permissionVersion'
  BY DEF Guard!Administer, Guard!AssignRole, Guard!RevokeRole, Guard!Expire, Guard!Impose, Guard!Lift, Guard!EvidenceLapses,
     Guard!bumpCacheVersion, GuardIInv, GuardTyped
<1>2. against' \subseteq Guard!Hindrances /\ outdated' \subseteq granting' /\ granting' \subseteq Granting
  BY DEF Guard!Administer, Guard!AssignRole, Guard!RevokeRole, Guard!Expire, Guard!Impose, Guard!Lift, Guard!EvidenceLapses,
     GuardIInv, GuardTyped
<1>3. ASSUME NEW v \in Workers
      PROVE  \E stood, held1 : 
                /\ stood \subseteq guardWork[v].stood /\ held1 \subseteq guardWork[v].held
                /\ stood \subseteq against' /\ held1 \subseteq granting'
                /\ guardWork'[v] = [guardWork[v] EXCEPT !.stood = stood, !.held = held1]
  <2> DEFINE old == guardWork[v]
  <2>1. old \in Evaluations /\ old.stood \subseteq against /\ old.held \subseteq granting
    BY DEF GuardIInv, GuardTyped, Abreast
  <2>2. ASSUME NEW h, against' = against \ {h}, UNCHANGED granting,
               guardWork' = [w \in Workers |-> [guardWork[w] EXCEPT !.stood = @ \ {h}]]
        PROVE  old.stood \ {h} \subseteq against' /\ old.held \subseteq granting'
               /\ guardWork'[v] = [old EXCEPT !.stood = old.stood \ {h}, !.held = old.held]
    <3>1. guardWork'[v] = [old EXCEPT !.stood = old.stood \ {h}]
      BY <2>2
    <3> HIDE DEF old
    <3> QED  BY <2>1, <2>2, <3>1 DEF Evaluations
  <2>3. ASSUME NEW r, granting' = granting \ {r}, UNCHANGED against,
               guardWork' = [w \in Workers |-> [guardWork[w] EXCEPT !.held = @ \ {r}]]
        PROVE  old.stood \subseteq against' /\ old.held \ {r} \subseteq granting'
               /\ guardWork'[v] = [old EXCEPT !.stood = old.stood, !.held = old.held \ {r}]
    <3>1. guardWork'[v] = [old EXCEPT !.held = old.held \ {r}]
      BY <2>3
    <3> HIDE DEF old
    <3> QED  BY <2>1, <2>3, <3>1 DEF Evaluations
  <2>4. ASSUME UNCHANGED guardWork, against \subseteq against', granting \subseteq granting'
        PROVE  old.stood \subseteq against' /\ old.held \subseteq granting'
               /\ guardWork'[v] = [old EXCEPT !.stood = old.stood, !.held = old.held]
    <3>1. guardWork'[v] = old
      BY <2>4
    <3> HIDE DEF old
    <3> QED  BY <2>1, <2>4, <3>1 DEF Evaluations
  <2>5. \/ \E h \in Guard!Hindrances : against' = against \ {h} /\ UNCHANGED granting
                /\ guardWork' = [w \in Workers |-> [guardWork[w] EXCEPT !.stood = @ \ {h}]]
        \/ \E r \in Granting : granting' = granting \ {r} /\ UNCHANGED against
                /\ guardWork' = [w \in Workers |-> [guardWork[w] EXCEPT !.held = @ \ {r}]]
        \/ UNCHANGED guardWork /\ against \subseteq against' /\ granting \subseteq granting'
    BY DEF Guard!Administer, Guard!AssignRole, Guard!RevokeRole, Guard!Expire, Guard!Impose, Guard!Lift, Guard!EvidenceLapses
  <2> HIDE DEF old
  <2>6. CASE \E h \in Guard!Hindrances : against' = against \ {h} /\ UNCHANGED granting
                /\ guardWork' = [w \in Workers |-> [guardWork[w] EXCEPT !.stood = @ \ {h}]]
    <3>1. PICK h \in Guard!Hindrances : against' = against \ {h} /\ UNCHANGED granting
                /\ guardWork' = [w \in Workers |-> [guardWork[w] EXCEPT !.stood = @ \ {h}]]
      BY <2>6
    <3> WITNESS old.stood \ {h}, old.held
    <3> QED  BY <3>1, <2>2 DEF old
  <2>7. CASE \E r \in Granting : granting' = granting \ {r} /\ UNCHANGED against
                /\ guardWork' = [w \in Workers |-> [guardWork[w] EXCEPT !.held = @ \ {r}]]
    <3>1. PICK r \in Granting : granting' = granting \ {r} /\ UNCHANGED against
                /\ guardWork' = [w \in Workers |-> [guardWork[w] EXCEPT !.held = @ \ {r}]]
      BY <2>7
    <3> WITNESS old.stood, old.held \ {r}
    <3> QED  BY <3>1, <2>3 DEF old
  <2>8. CASE UNCHANGED guardWork /\ against \subseteq against' /\ granting \subseteq granting'
    <3> WITNESS old.stood, old.held
    <3> QED  BY <2>8, <2>4 DEF old
  <2> QED  BY <2>5, <2>6, <2>7, <2>8
<1>4. ASSUME NEW v \in Workers PROVE Evaluates(guardWork[v])' /\ Abreast(guardWork[v])' /\ guardWork'[v] \in Evaluations
  <2> DEFINE old == guardWork[v]
  <2>1. old \in Evaluations /\ Evaluates(old) /\ Abreast(old) /\ permissionVersion \in Nat
    BY DEF GuardIInv, GuardTyped
  <2>2. PICK stood, held1 : 
                /\ stood \subseteq guardWork[v].stood /\ held1 \subseteq guardWork[v].held
                /\ stood \subseteq against' /\ held1 \subseteq granting'
                /\ guardWork'[v] = [guardWork[v] EXCEPT !.stood = stood, !.held = held1]
    BY <1>3
  <2> DEFINE e == [old EXCEPT !.stood = stood, !.held = held1]
  <2>4. guardWork'[v] = e
    BY <2>2
  <2>5. old.version \in Nat /\ old.granted \in Nat /\ stood \in SUBSET Guard!Hindrances /\ held1 \in SUBSET Granting
    BY <2>1, <2>2 DEF Evaluations
  <2>6. stood \subseteq old.stood /\ held1 \subseteq old.held /\ stood \subseteq against' /\ held1 \subseteq granting'
    BY <2>2
  <2> HIDE DEF old
  <2>7. e \in Evaluations
    BY <2>1, <2>5 DEF Evaluations
  <2>3. /\ e.at = old.at /\ e.kind = old.kind /\ e.token = old.token /\ e.evidence = old.evidence /\ e.payload = old.payload
        /\ e.version = old.version /\ e.flags = old.flags /\ e.found = old.found /\ e.granted = old.granted
        /\ e.expired = old.expired /\ e.stood = stood /\ e.held = held1
    BY <2>1 DEF Evaluations
  <2> HIDE DEF e
  <2>8. Evaluates(e)
    BY <2>1, <2>3, <2>6 DEF Evaluates, Seen
  <2>9. Evaluates(guardWork[v])'
    BY <2>4, <2>8 DEF Evaluates, Seen
  <2>10. Abreast(guardWork[v])'
    BY <1>1, <2>1, <2>3, <2>4, <2>5, <2>6 DEF Abreast
  <2> QED  BY <2>4, <2>7, <2>9, <2>10
<1>5. guardWork' \in [Workers -> Evaluations]
  <2>1. guardWork' = [v \in Workers |-> guardWork'[v]]
    BY DEF Guard!Administer, Guard!AssignRole, Guard!RevokeRole, Guard!Expire, Guard!Impose, Guard!Lift, Guard!EvidenceLapses,
       GuardIInv, GuardTyped
  <2> QED  BY <1>4, <2>1
<1>6. \A t \in DirectTokens : Bound(directToken[t])'
  BY <1>1 DEF GuardIInv, GuardTyped, Bound, DirectRows
<1>7. Guard!AnsweredAsOf'
  BY <1>1 DEF GuardIInv, Guard!AnsweredAsOf
<1> QED  BY <1>1, <1>2, <1>4, <1>5, <1>6, <1>7 DEF GuardIInv, GuardTyped

LEMMA GuardStep ==
    ASSUME GuardIInv, [Guard!Next]_Guard!vars
    PROVE  GuardIInv'
<1>1. CASE UNCHANGED Guard!vars
  <2>1. UNCHANGED <<against, granting, outdated, permissionVersion, directToken, guardWork, answer>>
    BY <1>1 DEF Guard!vars
  <2> QED  BY <2>1 DEF GuardIInv, GuardTyped, Guard!AnsweredAsOf, Evaluates, Seen, Abreast, Bound
<1>2. CASE Guard!Administer
  BY <1>2, AdministerStep
<1>3. ASSUME NEW w \in Workers, Guard!Evaluate(w) PROVE GuardIInv'
  <2>1. ASSUME NEW kind \in Guard!Kinds, NEW evidence \in BOOLEAN, NEW payload \in BOOLEAN, Guard!Begin(w, kind, evidence, payload)
        PROVE  GuardIInv'
    BY <2>1, EvaluationBeginsStep
  <2>2. ASSUME NEW t \in DirectTokens, NEW fits \in BOOLEAN, Guard!checkDecisionToken(w, t, fits)
        PROVE  GuardIInv'
    BY <2>2, CheckDecisionTokenStep
  <2> QED  BY <1>3, <2>1, <2>2, CacheVersionStep, PermissionStep, DenyOrGateStep, GrantsStep, DecideStep, ConsumeStep, DiesStep
           DEF Guard!Evaluate
<1> QED  BY <1>1, <1>2, <1>3 DEF Guard!Next

LEMMA GuardBegins == Guard!Init => GuardIInv
<1> SUFFICES ASSUME Guard!Init PROVE GuardIInv
  OBVIOUS
<1>1. GuardTyped
  BY IdleEvaluates DEF Guard!Init, GuardTyped, Guard!NoToken, DirectRows
<1>2. \A w \in Workers : Evaluates(guardWork[w]) /\ Abreast(guardWork[w])
  BY <1>1, IdleEvaluates DEF Guard!Init
<1>3. \A t \in DirectTokens : Bound(directToken[t])
  BY DEF Guard!Init, Guard!NoToken, Bound
<1>4. Guard!AnsweredAsOf
  BY GuardAssumption DEF Guard!Init, Guard!AnsweredAsOf
<1> QED  BY <1>1, <1>2, <1>3, <1>4 DEF GuardIInv

LEMMA GuardSound == GuardIInv => Guard!TypeOK /\ Guard!AnsweredAsOf /\ Guard!NoAssignmentCrossed
<1> SUFFICES ASSUME GuardIInv PROVE Guard!TypeOK /\ Guard!AnsweredAsOf /\ Guard!NoAssignmentCrossed
  OBVIOUS
<1>1. \A t \in DirectTokens :
         directToken[t].status \in {"none", "active", "revoked", "consumed"} /\ directToken[t].version \in 0..permissionVersion
  BY DEF GuardIInv, GuardTyped, DirectRows, Bound
<1>2. \A w \in Workers : guardWork[w].version \in 0..permissionVersion /\ guardWork[w].stood \subseteq Guard!Hindrances
  BY DEF GuardIInv, GuardTyped, Evaluations, Abreast
<1>3. Guard!NoAssignmentCrossed
  BY DEF GuardIInv, Guard!NoAssignmentCrossed, Guard!At, Abreast
<1> QED  BY <1>1, <1>2, <1>3 DEF GuardIInv, GuardTyped, Guard!TypeOK

\* Of every interleaving of checks with the changes around them: what the guard allows was not
\* hindered all along, what it refuses for want of a grant had none all along, and no token is
\* redeemed across a later assignment.
THEOREM GuardSafe == Guard!Spec => [](Guard!TypeOK /\ Guard!AnsweredAsOf /\ Guard!NoAssignmentCrossed)
BY GuardBegins, GuardStep, GuardSound, PTL DEF Guard!Spec

-----------------------------------------------------------------------------
(* The challenges.  The invariant of the lockout charges every guess       *)
(* beyond the maximum to a verification that had passed the check when the *)
(* lockout began: guesses, and the verifications still under way, are      *)
(* together within the maximum and the others.  What a challenge records   *)
(* is exact as long as no verification wrote over another.                 *)

LEMMA MfaSize == \A S : Mfa!Cardinality(S) = Cardinality(S)
BY DEF Cardinality, IsFiniteSet, Mfa!Cardinality, Mfa!IsFiniteSet

ChallengeRows == [status : Mfa!ChallengeStatuses \cup {None}, attempts : Nat]
EnrolmentRows == [status : Mfa!EnrolmentStatuses \cup {None}, factor : Factors \cup {None}]
Judging == [at : {"challenge"}, of : Challenges, read : [status : {"pending"}, attempts : Nat]]
Enrolling == [at : {"enrolling"}, of : {Mfa!Enrolment}, read : Factors \X [status : {"active"}, factor : Factors \cup {None}]]
Adding == [at : {"adding"}, of : {Mfa!Enrolment}, read : Factors \X EnrolmentRows]
Verifications == {Mfa!Idle} \cup Judging \cup Enrolling \cup Adding

MfaTyped ==
    /\ challenge \in [Challenges -> ChallengeRows]
    /\ lockout \in [count : 0..MaxAttempts, locked : BOOLEAN]
    /\ factor \in [Factors -> Mfa!FactorStatuses \cup {None}]
    /\ enrolment \in EnrolmentRows
    /\ work \in [Workers -> Verifications]
    /\ granted \in [Challenges \cup {Mfa!Enrolment} -> Nat]
    /\ wrong \in [Challenges -> Nat]
    /\ guesses \in Nat

Guessing == {w \in Workers : work[w].at \in {"challenge", "adding"}}
GuessesShared ==
    /\ ~lockout.locked => guesses <= lockout.count /\ (lockout.count = MaxAttempts => guesses = 0)
    /\ lockout.locked => guesses + Cardinality(Guessing) <= MaxAttempts + Cardinality(Workers) - 1

\* A challenge that is being judged was there, and its wrong codes are no fewer than were read.
Judged(w) ==
    work[w].at = "challenge" =>
        challenge[work[w].of].status # None /\ work[w].read.attempts <= wrong[work[w].of]

Recorded(c) ==
    /\ challenge[c].attempts <= wrong[c]
    /\ challenge[c].status = "failed" => challenge[c].attempts >= MaxAttempts
    /\ challenge[c].status = None => wrong[c] = 0 /\ granted[c] = 0
    /\ c \notin raced => /\ challenge[c].attempts = wrong[c] /\ granted[c] <= 1
                         /\ challenge[c].status # "passed" => granted[c] = 0

EnrolmentRecorded ==
    Mfa!Enrolment \notin raced => granted[Mfa!Enrolment] <= 1 /\ (enrolment.status # "used" => granted[Mfa!Enrolment] = 0)

MfaIInv ==
    /\ MfaTyped /\ GuessesShared /\ EnrolmentRecorded
    /\ \A w \in Workers : Judged(w)
    /\ \A c \in Challenges : Recorded(c)

LEMMA IsIdle == ASSUME NEW e \in Verifications
                PROVE  /\ (e = Mfa!Idle <=> e.at = "idle")
                       /\ e.at = "challenge" => e \in Judging
                       /\ e.at = "enrolling" => e \in Enrolling
                       /\ e.at = "adding" => e \in Adding
BY DEF Verifications, Judging, Enrolling, Adding, Mfa!Idle

\* A verification that ends leaves the others as they are.
LEMMA VerificationEnds ==
    ASSUME MfaIInv, NEW w \in Workers, Mfa!Rest(w),
           \A c \in Challenges : challenge[c].status # None => challenge'[c].status # None,
           \A c \in Challenges : wrong'[c] \in Nat /\ wrong[c] <= wrong'[c]
    PROVE  /\ work' \in [Workers -> Verifications] /\ \A v \in Workers : Judged(v)'
           /\ Guessing' = Guessing \ {w}
<1>1. \A v \in Workers : work'[v] = IF v = w THEN Mfa!Idle ELSE work[v]
  BY DEF Mfa!Rest, MfaIInv, MfaTyped
<1>2. work' \in [Workers -> Verifications]
  BY DEF Mfa!Rest, MfaIInv, MfaTyped, Verifications
<1>3. ASSUME NEW v \in Workers PROVE Judged(v)'
  <2>1. CASE v = w
    BY <1>1, <2>1 DEF Judged, Mfa!Idle
  <2>2. CASE v # w
    <3>1. work'[v] = work[v] /\ work[v] \in Verifications /\ Judged(v)
      BY <1>1, <2>2 DEF MfaIInv, MfaTyped
    <3> SUFFICES ASSUME work[v].at = "challenge"
                 PROVE  challenge'[work[v].of].status # None /\ work[v].read.attempts <= wrong'[work[v].of]
      BY <3>1 DEF Judged
    <3>2. work[v].of \in Challenges /\ work[v].read.attempts \in Nat
      BY <3>1, IsIdle DEF Judging
    <3>3. wrong[work[v].of] \in Nat
      BY <3>2 DEF MfaIInv, MfaTyped
    <3> QED  BY <3>1, <3>2, <3>3 DEF Judged
  <2> QED  BY <2>1, <2>2
<1>4. Guessing' = Guessing \ {w}
  BY <1>1 DEF Guessing, Mfa!Idle
<1> QED  BY <1>2, <1>3, <1>4

\* The workers are finitely many, so one fewer at work leaves room for one.
LEMMA GuessersFinite == Cardinality(Guessing) \in Nat /\ Cardinality(Workers) \in Nat /\ Cardinality(Guessing) <= Cardinality(Workers)
<1>1. Guessing \subseteq Workers
  BY DEF Guessing
<1> QED  BY <1>1, WorkersAssumption, FS_Subset, FS_CardinalityType

LEMMA OneFewer ==
    ASSUME NEW w \in Guessing
    PROVE  /\ Cardinality(Guessing \ {w}) = Cardinality(Guessing) - 1
           /\ Cardinality(Guessing \ {w}) <= Cardinality(Workers) - 1 /\ Cardinality(Guessing) \in Nat
<1>1. Guessing \subseteq Workers /\ IsFiniteSet(Guessing)
  BY WorkersAssumption, FS_Subset DEF Guessing
<1>2. Cardinality(Guessing \ {w}) = Cardinality(Guessing) - 1
  BY <1>1, FS_RemoveElement
<1> QED  BY <1>2, GuessersFinite

\* A wrong code, whatever it was guessed at.
LEMMA FailureShared ==
    ASSUME MfaIInv, NEW w \in Guessing, Mfa!RecordFailure, Guessing' = Guessing \ {w}
    PROVE  GuessesShared' /\ lockout' \in [count : 0..MaxAttempts, locked : BOOLEAN] /\ guesses' \in Nat
<1> DEFINE count == lockout.count + 1
           top == IF count < MaxAttempts THEN count ELSE MaxAttempts
<1>1. lockout.count \in 0..MaxAttempts /\ lockout.locked \in BOOLEAN /\ guesses \in Nat /\ MaxAttempts \in Nat \ {0}
  BY MfaAssumption DEF MfaIInv, MfaTyped
<1>2. PICK b \in BOOLEAN : b = (lockout.locked \/ count >= MaxAttempts)
  OBVIOUS
<1>3. lockout' = [count |-> top, locked |-> b] /\ guesses' = guesses + 1
  BY <1>2, Zenon DEF Mfa!RecordFailure, Mfa!Locks
<1>4. lockout' \in [count : 0..MaxAttempts, locked : BOOLEAN] /\ guesses' \in Nat
  BY <1>1, <1>3
<1>5. Cardinality(Guessing') = Cardinality(Guessing) - 1 /\ Cardinality(Guessing') <= Cardinality(Workers) - 1
      /\ Cardinality(Guessing) \in Nat /\ Cardinality(Workers) \in Nat
  BY OneFewer, GuessersFinite
<1>6. lockout'.count = top /\ lockout'.locked = b
  BY <1>3
<1>7. GuessesShared
  BY DEF MfaIInv
<1>10. b <=> (lockout.locked \/ count >= MaxAttempts)
  BY <1>2, Zenon
<1>8. CASE ~b
  <2>1. ~lockout.locked /\ count < MaxAttempts
    BY <1>1, <1>8, <1>10
  <2> QED  BY <1>1, <1>3, <1>6, <1>7, <1>8, <2>1 DEF GuessesShared
<1>9. CASE b
  <2>1. CASE lockout.locked
    BY <1>1, <1>3, <1>5, <1>6, <1>7, <1>9, <2>1 DEF GuessesShared
  <2>2. CASE ~lockout.locked
    <3>1. count >= MaxAttempts
      BY <1>9, <1>10, <2>2
    <3>2. guesses + 1 <= MaxAttempts
      BY <1>1, <1>7, <2>2, <3>1 DEF GuessesShared
    <3> QED  BY <1>1, <1>3, <1>5, <1>6, <1>9, <3>2 DEF GuessesShared
  <2> QED  BY <2>1, <2>2
<1> QED  BY <1>4, <1>8, <1>9, <1>2

LEMMA ResetShared ==
    ASSUME MfaIInv, Mfa!ResetOnSuccess
    PROVE  GuessesShared' /\ lockout' \in [count : 0..MaxAttempts, locked : BOOLEAN] /\ guesses' \in Nat
BY MfaAssumption DEF Mfa!ResetOnSuccess, Mfa!Unlocked, GuessesShared

\* What the lockout is when it does not change, and a verification ends beside it.
LEMMA LockoutKept ==
    ASSUME MfaIInv, UNCHANGED <<lockout, guesses>>, Guessing' \subseteq Guessing
    PROVE  GuessesShared'
<1>1. IsFiniteSet(Guessing) /\ Guessing \subseteq Workers
  BY WorkersAssumption, FS_Subset DEF Guessing
<1>2. Cardinality(Guessing') <= Cardinality(Guessing) /\ Cardinality(Guessing') \in Nat
  BY <1>1, FS_Subset, FS_CardinalityType
<1>3. lockout' = lockout /\ guesses' = guesses /\ guesses \in Nat /\ GuessesShared
  BY DEF MfaIInv, MfaTyped
<1>4. CASE ~lockout.locked
  BY <1>3, <1>4 DEF GuessesShared
<1>5. CASE lockout.locked
  <2>1. guesses + Cardinality(Guessing) <= MaxAttempts + Cardinality(Workers) - 1
    BY <1>3, <1>5 DEF GuessesShared
  <2>2. guesses' + Cardinality(Guessing') <= MaxAttempts + Cardinality(Workers) - 1
    BY <1>2, <1>3, <2>1, GuessersFinite, MfaAssumption
  <2> QED  BY <1>3, <1>5, <2>2 DEF GuessesShared
<1> QED  BY <1>4, <1>5

-----------------------------------------------------------------------------
LEMMA WrongCodeStep ==
    ASSUME MfaIInv, NEW w \in Workers, Mfa!WrongCode(w)
    PROVE  MfaIInv'
<1> DEFINE c == work[w].of
           read == work[w].read
           after == Mfa!AfterWrong(read)
<1>1. /\ work[w].at = "challenge" /\ Mfa!Rest(w) /\ Mfa!RecordFailure
      /\ raced' = IF challenge[c] = read THEN raced ELSE raced \cup {c}
      /\ challenge' = [challenge EXCEPT ![c] = after]
      /\ wrong' = [wrong EXCEPT ![c] = @ + 1]
      /\ UNCHANGED <<factor, enrolment, granted>>
  BY DEF Mfa!WrongCode, Mfa!Races
<1>2. c \in Challenges /\ read \in [status : {"pending"}, attempts : Nat] /\ Judged(w) /\ work[w] \in Verifications
  BY <1>1, IsIdle DEF MfaIInv, MfaTyped, Judging
<1>3. /\ MaxAttempts \in Nat /\ challenge[c] \in ChallengeRows /\ wrong[c] \in Nat /\ granted[c] \in Nat /\ Recorded(c)
      /\ read.attempts <= wrong[c] /\ challenge[c].status # None
  BY <1>1, <1>2, MfaAssumption DEF MfaIInv, MfaTyped, Judged
<1>4. /\ after \in ChallengeRows /\ after.attempts = read.attempts + 1
      /\ after.status = IF read.attempts + 1 >= MaxAttempts THEN "failed" ELSE "pending"
  <2> HIDE DEF read
  <2>1. after = [status |-> IF read.attempts + 1 >= MaxAttempts THEN "failed" ELSE "pending", attempts |-> read.attempts + 1]
    BY <1>2 DEF Mfa!AfterWrong
  <2> QED  BY <1>2, <2>1 DEF ChallengeRows, Mfa!ChallengeStatuses
<1> HIDE DEF after
<1>5. /\ challenge' \in [Challenges -> ChallengeRows] /\ wrong' \in [Challenges -> Nat]
      /\ \A d \in Challenges : challenge'[d] = IF d = c THEN after ELSE challenge[d]
      /\ \A d \in Challenges : wrong'[d] = IF d = c THEN wrong[c] + 1 ELSE wrong[d]
  BY <1>1, <1>2, <1>3, <1>4 DEF MfaIInv, MfaTyped
<1>6. after.status # None
  BY <1>4, MfaAssumption
<1>7. work' \in [Workers -> Verifications] /\ (\A v \in Workers : Judged(v)') /\ Guessing' = Guessing \ {w}
  <2>1. \A d \in Challenges : challenge[d].status # None => challenge'[d].status # None
    BY <1>5, <1>6
  <2>2. \A d \in Challenges : wrong'[d] \in Nat /\ wrong[d] <= wrong'[d]
    BY <1>5 DEF MfaIInv, MfaTyped
  <2> QED  BY <1>1, <2>1, <2>2, VerificationEnds
<1>8. GuessesShared' /\ lockout' \in [count : 0..MaxAttempts, locked : BOOLEAN] /\ guesses' \in Nat
  <2>1. w \in Guessing
    BY <1>1 DEF Guessing
  <2> QED  BY <1>1, <1>7, <2>1, FailureShared
<1>9. ASSUME NEW d \in Challenges PROVE Recorded(d)'
  <2>1. CASE d # c
    <3>1. challenge'[d] = challenge[d] /\ wrong'[d] = wrong[d] /\ granted'[d] = granted[d] /\ (d \in raced' <=> d \in raced)
      BY <1>1, <1>5, <2>1
    <3> QED  BY <3>1 DEF MfaIInv, Recorded
  <2>2. CASE d = c
    <3>1. challenge'[c] = after /\ wrong'[c] = wrong[c] + 1 /\ granted'[c] = granted[c]
      BY <1>1, <1>2, <1>5
    <3>2. after.attempts <= wrong'[c] /\ (after.status = "failed" => after.attempts >= MaxAttempts)
      BY <1>2, <1>3, <1>4, <3>1
    <3>3. ASSUME c \notin raced' PROVE after.attempts = wrong'[c] /\ granted'[c] = 0
      <4>1. challenge[c] = read /\ c \notin raced
        BY <1>1, <3>3
      <4>2. challenge[c].attempts = wrong[c] /\ granted[c] = 0
        BY <4>1, <1>2, <1>3 DEF Recorded
      <4> QED  BY <4>1, <4>2, <1>4, <3>1
    <3>4. after.status # None
      BY <1>6
    <3> HIDE DEF c
    <3> QED  BY <2>2, <3>1, <3>2, <3>3, <3>4 DEF Recorded
  <2> QED  BY <2>1, <2>2
<1>10. EnrolmentRecorded'
  <2>1. Mfa!Enrolment \in raced' <=> Mfa!Enrolment \in raced
    BY <1>1, <1>2, MfaAssumption
  <2> QED  BY <1>1, <2>1 DEF MfaIInv, EnrolmentRecorded
<1>11. MfaTyped'
  BY <1>1, <1>5, <1>7, <1>8 DEF MfaIInv, MfaTyped
<1> QED  BY <1>7, <1>8, <1>9, <1>10, <1>11 DEF MfaIInv

\* A right code, of a challenge: it passes, and one session or assertion may come of it.
LEMMA RightCodeStep ==
    ASSUME MfaIInv, NEW w \in Workers, Mfa!RightCode(w)
    PROVE  MfaIInv'
<1> DEFINE c == work[w].of
           read == work[w].read
           after == [challenge[c] EXCEPT !.status = "passed"]
<1>1. /\ work[w].at = "challenge" /\ Mfa!Rest(w) /\ Mfa!ResetOnSuccess
      /\ raced' = IF challenge[c] = read THEN raced ELSE raced \cup {c}
      /\ challenge' = [challenge EXCEPT ![c].status = "passed"]
      /\ granted' = [granted EXCEPT ![c] = @ + 1] \/ UNCHANGED granted
      /\ UNCHANGED <<factor, enrolment, wrong>>
  BY DEF Mfa!RightCode, Mfa!Races, Mfa!Grant
<1>2. c \in Challenges /\ read \in [status : {"pending"}, attempts : Nat] /\ work[w] \in Verifications
  BY <1>1, IsIdle DEF MfaIInv, MfaTyped, Judging
<1>3. /\ MaxAttempts \in Nat /\ challenge[c] \in ChallengeRows /\ wrong[c] \in Nat /\ granted[c] \in Nat /\ Recorded(c)
      /\ Mfa!Enrolment \notin Challenges
  BY <1>2, MfaAssumption DEF MfaIInv, MfaTyped
<1>4. after \in ChallengeRows /\ after.attempts = challenge[c].attempts /\ after.status = "passed"
  <2> HIDE DEF c
  <2> QED  BY <1>3 DEF ChallengeRows, Mfa!ChallengeStatuses
<1>5. challenge' = [challenge EXCEPT ![c] = after]
  BY <1>1
<1> HIDE DEF after
<1>6. challenge' \in [Challenges -> ChallengeRows] /\ \A d \in Challenges : challenge'[d] = IF d = c THEN after ELSE challenge[d]
  BY <1>2, <1>4, <1>5 DEF MfaIInv, MfaTyped
<1>7. /\ granted' \in [Challenges \cup {Mfa!Enrolment} -> Nat] /\ granted'[c] <= granted[c] + 1
      /\ \A d \in (Challenges \cup {Mfa!Enrolment}) \ {c} : granted'[d] = granted[d]
  BY <1>1, <1>2, <1>3 DEF MfaIInv, MfaTyped
<1>8. work' \in [Workers -> Verifications] /\ (\A v \in Workers : Judged(v)') /\ Guessing' = Guessing \ {w}
  <2>1. \A d \in Challenges : challenge[d].status # None => challenge'[d].status # None
    BY <1>4, <1>6, MfaAssumption
  <2>2. \A d \in Challenges : wrong'[d] \in Nat /\ wrong[d] <= wrong'[d]
    BY <1>1 DEF MfaIInv, MfaTyped
  <2> QED  BY <1>1, <2>1, <2>2, VerificationEnds
<1>9. ASSUME NEW d \in Challenges PROVE Recorded(d)'
  <2>1. CASE d # c
    <3>1. challenge'[d] = challenge[d] /\ wrong'[d] = wrong[d] /\ granted'[d] = granted[d] /\ (d \in raced' <=> d \in raced)
      BY <1>1, <1>6, <1>7, <2>1
    <3> QED  BY <3>1 DEF MfaIInv, Recorded
  <2>2. CASE d = c
    <3>1. challenge'[c] = after /\ wrong'[c] = wrong[c] /\ granted'[c] \in Nat
      BY <1>1, <1>2, <1>6, <1>7
    <3>2. ASSUME c \notin raced' PROVE after.attempts = wrong[c] /\ granted'[c] <= 1
      <4>1. challenge[c] = read /\ c \notin raced
        BY <1>1, <3>2
      <4>2. challenge[c].attempts = wrong[c] /\ granted[c] = 0
        BY <4>1, <1>2, <1>3 DEF Recorded
      <4> QED  BY <4>2, <1>4, <1>7, <3>1
    <3>3. after.attempts <= wrong[c] /\ after.status # None
      BY <1>3, <1>4, MfaAssumption DEF Recorded
    <3> HIDE DEF c
    <3> QED  BY <2>2, <3>1, <3>2, <3>3, <1>4 DEF Recorded
  <2> QED  BY <2>1, <2>2
<1>10. EnrolmentRecorded'
  <2>1. (Mfa!Enrolment \in raced' <=> Mfa!Enrolment \in raced) /\ granted'[Mfa!Enrolment] = granted[Mfa!Enrolment]
    BY <1>1, <1>2, <1>3, <1>7
  <2> QED  BY <1>1, <2>1 DEF MfaIInv, EnrolmentRecorded
<1>11. GuessesShared' /\ MfaTyped'
  BY <1>1, <1>6, <1>7, <1>8, ResetShared DEF MfaIInv, MfaTyped
<1> QED  BY <1>8, <1>9, <1>10, <1>11 DEF MfaIInv

\* A step that only takes challenges up, reissues them or lets them expire.
LEMMA ChallengeBegins ==
    ASSUME MfaIInv, UNCHANGED <<lockout, factor, enrolment, work, granted, wrong, guesses, raced>>,
           challenge' \in [Challenges -> ChallengeRows],
           \A c \in Challenges :
              \/ challenge'[c] = challenge[c]
              \/ /\ challenge[c].attempts = challenge'[c].attempts /\ challenge[c].status # "passed"
                 /\ challenge'[c].status \in {"pending", "expired"}
              \/ challenge[c].status = None /\ challenge'[c] = Mfa!Pending
    PROVE  MfaIInv'
<1>1. \A c \in Challenges : challenge[c].status # None => challenge'[c].status # None
  BY MfaAssumption
<1>2. Guessing' = Guessing /\ GuessesShared' /\ EnrolmentRecorded' /\ MfaTyped'
  BY DEF MfaIInv, MfaTyped, Guessing, GuessesShared, EnrolmentRecorded
<1>3. ASSUME NEW w \in Workers PROVE Judged(w)'
  <2>1. work[w].at = "challenge" => work[w].of \in Challenges
    BY IsIdle DEF MfaIInv, MfaTyped, Judging
  <2> QED  BY <1>1, <2>1 DEF MfaIInv, Judged
<1>4. ASSUME NEW c \in Challenges PROVE Recorded(c)'
  <2>1. Recorded(c) /\ challenge[c] \in ChallengeRows /\ wrong[c] \in Nat
    BY DEF MfaIInv, MfaTyped
  <2>2. CASE challenge'[c] = challenge[c]
    BY <2>1, <2>2 DEF Recorded
  <2>3. CASE /\ challenge[c].attempts = challenge'[c].attempts /\ challenge[c].status # "passed"
             /\ challenge'[c].status \in {"pending", "expired"}
    BY <2>1, <2>3, MfaAssumption DEF Recorded
  <2>4. CASE challenge[c].status = None /\ challenge'[c] = Mfa!Pending
    BY <2>1, <2>4, MfaAssumption DEF Recorded, Mfa!Pending, ChallengeRows
  <2> QED  BY <2>2, <2>3, <2>4
<1> QED  BY <1>2, <1>3, <1>4 DEF MfaIInv

LEMMA NoneYet == ASSUME MfaIInv, NEW c \in Challenges PROVE challenge[c] \in ChallengeRows
                        /\ (challenge[c] = Mfa!NoChallenge => challenge[c].status = None)
                        /\ Mfa!Pending \in ChallengeRows
BY DEF MfaIInv, MfaTyped, ChallengeRows, Mfa!NoChallenge, Mfa!Pending, Mfa!ChallengeStatuses

LEMMA ChallengeStep ==
    ASSUME MfaIInv, NEW c \in Challenges, Mfa!Begin(c) \/ Mfa!ReadLate(c) \/ \E new \in Challenges : Mfa!Reissue(c, new)
    PROVE  MfaIInv'
<1>1. challenge \in [Challenges -> ChallengeRows] /\ challenge[c] \in ChallengeRows
  BY DEF MfaIInv, MfaTyped
<1>2. CASE Mfa!Begin(c)
  <2>1. challenge' = [challenge EXCEPT ![c] = Mfa!Pending] /\ challenge[c] = Mfa!NoChallenge
        /\ UNCHANGED <<lockout, factor, enrolment, work, granted, wrong, guesses, raced>>
    BY <1>2 DEF Mfa!Begin
  <2>2. \A d \in Challenges : challenge'[d] = IF d = c THEN Mfa!Pending ELSE challenge[d]
    BY <1>1, <2>1
  <2> QED  BY <1>1, <2>1, <2>2, NoneYet, ChallengeBegins
<1> DEFINE expired == [challenge[c] EXCEPT !.status = "expired"]
<1>3. expired \in ChallengeRows /\ expired.attempts = challenge[c].attempts /\ expired.status = "expired"
  BY <1>1 DEF ChallengeRows, Mfa!ChallengeStatuses
<1>4. CASE Mfa!ReadLate(c)
  <2>1. challenge' = [challenge EXCEPT ![c] = expired] /\ challenge[c].status = "pending"
        /\ UNCHANGED <<lockout, factor, enrolment, work, granted, wrong, guesses, raced>>
    BY <1>4 DEF Mfa!ReadLate
  <2> HIDE DEF expired
  <2>2. \A d \in Challenges : challenge'[d] = IF d = c THEN expired ELSE challenge[d]
    BY <1>1, <2>1
  <2> QED  BY <1>1, <1>3, <2>1, <2>2, ChallengeBegins
<1>5. ASSUME NEW new \in Challenges, Mfa!Reissue(c, new) PROVE MfaIInv'
  <2> DEFINE old == [challenge[c] EXCEPT !.status = IF challenge[c].status = "pending" THEN "expired" ELSE challenge[c].status]
  <2>1. /\ challenge' = [challenge EXCEPT ![c].status = IF @ = "pending" THEN "expired" ELSE @, ![new] = Mfa!Pending]
        /\ challenge[c].status \notin {None, "passed"} /\ challenge[new] = Mfa!NoChallenge
        /\ UNCHANGED <<lockout, factor, enrolment, work, granted, wrong, guesses, raced>>
    BY <1>5 DEF Mfa!Reissue
  <2>2. c # new
    BY <2>1 DEF Mfa!NoChallenge
  <2>3. challenge' = [challenge EXCEPT ![c] = old, ![new] = Mfa!Pending]
    BY <2>1
  <2>4. old \in ChallengeRows /\ (old = challenge[c] \/ (challenge[c].attempts = old.attempts /\ old.status = "expired"))
    <3>1. CASE challenge[c].status = "pending"
      BY <1>1, <3>1 DEF ChallengeRows, Mfa!ChallengeStatuses
    <3>2. CASE challenge[c].status # "pending"
      BY <1>1, <3>2 DEF ChallengeRows, Mfa!ChallengeStatuses
    <3> QED  BY <3>1, <3>2
  <2> HIDE DEF old
  <2>5. \A d \in Challenges : challenge'[d] = IF d = new THEN Mfa!Pending ELSE IF d = c THEN old ELSE challenge[d]
    BY <1>1, <2>2, <2>3
  <2>6. challenge' \in [Challenges -> ChallengeRows]
    BY <1>1, <2>3, <2>4, NoneYet
  <2> QED  BY <2>1, <2>4, <2>5, <2>6, NoneYet, ChallengeBegins
<1> QED  BY <1>2, <1>4, <1>5

\* A verification reads what it judges.
LEMMA ReadStep ==
    ASSUME MfaIInv, NEW w \in Workers, NEW e \in Judging \cup Enrolling \cup Adding,
           work[w] = Mfa!Idle, work' = [work EXCEPT ![w] = e],
           e.at = "challenge" => challenge[e.of].status # None /\ e.read.attempts <= wrong[e.of],
           e.at # "enrolling" => ~lockout.locked,
           UNCHANGED <<challenge, lockout, factor, enrolment, granted, wrong, guesses, raced>>
    PROVE  MfaIInv'
<1>1. work' \in [Workers -> Verifications] /\ \A v \in Workers : work'[v] = IF v = w THEN e ELSE work[v]
  BY DEF MfaIInv, MfaTyped, Verifications
<1>2. \A v \in Workers : Judged(v)'
  BY <1>1 DEF MfaIInv, Judged
<1>3. GuessesShared'
  <2>1. CASE ~lockout.locked
    BY <2>1 DEF MfaIInv, GuessesShared
  <2>2. CASE lockout.locked
    <3>1. Guessing' = Guessing
      BY <1>1, <2>2 DEF Guessing, Mfa!Idle
    <3> QED  BY <3>1, LockoutKept
  <2> QED  BY <2>1, <2>2
<1>4. MfaTyped' /\ EnrolmentRecorded' /\ \A c \in Challenges : Recorded(c)'
  BY <1>1 DEF MfaIInv, MfaTyped, EnrolmentRecorded, Recorded
<1> QED  BY <1>2, <1>3, <1>4 DEF MfaIInv

LEMMA ReadingStep ==
    ASSUME MfaIInv, NEW w \in Workers,
           \/ \E c \in Challenges : Mfa!Read(w, c)
           \/ \E f \in Factors, fromSession \in BOOLEAN : Mfa!ReadFactor(w, f, fromSession)
    PROVE  MfaIInv'
<1>1. ASSUME NEW c \in Challenges, Mfa!Read(w, c) PROVE MfaIInv'
  <2> DEFINE e == [at |-> "challenge", of |-> c, read |-> challenge[c]]
  <2>1. /\ work[w] = Mfa!Idle /\ work' = [work EXCEPT ![w] = e] /\ challenge[c].status = "pending" /\ ~lockout.locked
        /\ UNCHANGED <<challenge, lockout, factor, enrolment, granted, wrong, guesses, raced>>
    BY <1>1 DEF Mfa!Read, Mfa!Usable
  <2>2. challenge[c] \in ChallengeRows /\ Recorded(c)
    BY DEF MfaIInv, MfaTyped
  <2>3. challenge[c] \in [status : {"pending"}, attempts : Nat] /\ challenge[c].status # None
    BY <2>1, <2>2, MfaAssumption DEF ChallengeRows
  <2>4. e \in Judging
    BY <2>3 DEF Judging
  <2>5. e.at = "challenge" /\ e.of = c /\ e.read = challenge[c]
    OBVIOUS
  <2>6. challenge[e.of].status # None /\ e.read.attempts <= wrong[e.of]
    BY <2>2, <2>3, <2>5 DEF Recorded
  <2> HIDE DEF e
  <2> QED  BY <2>1, <2>4, <2>6, ReadStep
<1>2. ASSUME NEW f \in Factors, NEW fromSession \in BOOLEAN, Mfa!ReadFactor(w, f, fromSession) PROVE MfaIInv'
  <2> DEFINE e == [at |-> IF fromSession THEN "enrolling" ELSE "adding", of |-> Mfa!Enrolment, read |-> <<f, enrolment>>]
  <2>1. /\ work[w] = Mfa!Idle /\ work' = [work EXCEPT ![w] = e]
        /\ UNCHANGED <<challenge, lockout, factor, enrolment, granted, wrong, guesses, raced>>
    BY <1>2 DEF Mfa!ReadFactor
  <2>2. enrolment \in EnrolmentRows
    BY DEF MfaIInv, MfaTyped
  <2>3. CASE fromSession
    <3>1. enrolment.status = "active"
      BY <1>2, <2>3 DEF Mfa!ReadFactor
    <3>2. enrolment \in [status : {"active"}, factor : Factors \cup {None}]
      BY <2>2, <3>1 DEF EnrolmentRows
    <3>3. e \in Enrolling /\ e.at = "enrolling"
      BY <2>3, <3>2 DEF Enrolling
    <3> HIDE DEF e
    <3> QED  BY <2>1, <3>3, ReadStep
  <2>4. CASE ~fromSession
    <3>1. ~lockout.locked
      BY <1>2, <2>4 DEF Mfa!ReadFactor
    <3>2. e \in Adding /\ e.at = "adding"
      BY <2>2, <2>4 DEF Adding
    <3> HIDE DEF e
    <3> QED  BY <2>1, <3>1, <3>2, ReadStep
  <2> QED  BY <2>3, <2>4
<1> QED  BY <1>1, <1>2

LEMMA EnrolmentStep ==
    ASSUME MfaIInv,
           \/ Mfa!BeginEnrolment
           \/ \E f \in Factors, fromSession \in BOOLEAN : Mfa!Enrol(f, fromSession)
    PROVE  MfaIInv'
<1>1. /\ UNCHANGED <<challenge, lockout, work, granted, wrong, guesses, raced>>
      /\ factor' \in [Factors -> Mfa!FactorStatuses \cup {None}]
      /\ enrolment' \in EnrolmentRows /\ (enrolment'.status = "used" <=> enrolment.status = "used")
  <2>1. CASE Mfa!BeginEnrolment
    BY <2>1, MfaAssumption DEF Mfa!BeginEnrolment, Mfa!NoEnrolment, MfaIInv, MfaTyped, EnrolmentRows, Mfa!EnrolmentStatuses
  <2>2. ASSUME NEW f \in Factors, NEW fromSession \in BOOLEAN, Mfa!Enrol(f, fromSession)
        PROVE  /\ UNCHANGED <<challenge, lockout, work, granted, wrong, guesses, raced>>
               /\ factor' \in [Factors -> Mfa!FactorStatuses \cup {None}]
               /\ enrolment' \in EnrolmentRows /\ (enrolment'.status = "used" <=> enrolment.status = "used")
    BY <2>2 DEF Mfa!Enrol, MfaIInv, MfaTyped, EnrolmentRows, Mfa!FactorStatuses
  <2> QED  BY <2>1, <2>2
<1>2. MfaTyped' /\ EnrolmentRecorded'
  BY <1>1 DEF MfaIInv, MfaTyped, EnrolmentRecorded
<1>3. GuessesShared' /\ (\A w \in Workers : Judged(w)') /\ \A c \in Challenges : Recorded(c)'
  BY <1>1 DEF MfaIInv, GuessesShared, Guessing, Judged, Recorded
<1> QED  BY <1>2, <1>3 DEF MfaIInv

LEMMA EnrolledStep ==
    ASSUME MfaIInv, NEW w \in Workers, Mfa!Enrolled(w)
    PROVE  MfaIInv'
<1>1. /\ work[w].at \in {"enrolling", "adding"} /\ Mfa!Rest(w) /\ factor' = [factor EXCEPT ![work[w].read[1]] = "active"]
      /\ UNCHANGED <<challenge, wrong>>
  BY DEF Mfa!Enrolled
<1>2. work[w].read[1] \in Factors /\ work[w] \in Verifications
  BY <1>1, IsIdle DEF MfaIInv, MfaTyped, Enrolling, Adding
<1>3. factor' \in [Factors -> Mfa!FactorStatuses \cup {None}]
  BY <1>1, <1>2 DEF MfaIInv, MfaTyped, Mfa!FactorStatuses
<1>4. work' \in [Workers -> Verifications] /\ (\A v \in Workers : Judged(v)') /\ Guessing' = Guessing \ {w}
  <2>1. \A d \in Challenges : challenge[d].status # None => challenge'[d].status # None
    BY <1>1
  <2>2. \A d \in Challenges : wrong'[d] \in Nat /\ wrong[d] <= wrong'[d]
    BY <1>1 DEF MfaIInv, MfaTyped
  <2> QED  BY <1>1, <2>1, <2>2, VerificationEnds
<1>5. CASE work[w].at = "adding"
  <2>1. Mfa!ResetOnSuccess /\ UNCHANGED <<enrolment, raced, granted>>
    BY <1>5 DEF Mfa!Enrolled
  <2>2. GuessesShared' /\ MfaTyped'
    BY <1>1, <1>3, <1>4, <2>1, ResetShared DEF MfaIInv, MfaTyped
  <2>3. EnrolmentRecorded' /\ \A c \in Challenges : Recorded(c)'
    BY <1>1, <2>1 DEF MfaIInv, EnrolmentRecorded, Recorded
  <2> QED  BY <1>4, <2>2, <2>3 DEF MfaIInv
<1>6. CASE work[w].at = "enrolling"
  <2>1. /\ UNCHANGED <<lockout, guesses>> /\ enrolment' = [enrolment EXCEPT !.status = "used"]
        /\ raced' = IF enrolment = work[w].read[2] THEN raced ELSE raced \cup {Mfa!Enrolment}
        /\ granted' = [granted EXCEPT ![Mfa!Enrolment] = @ + 1] \/ UNCHANGED granted
    BY <1>6 DEF Mfa!Enrolled, Mfa!Used, Mfa!Grant
  <2>2. work[w].read[2].status = "active"
    BY <1>2, <1>6, IsIdle DEF Enrolling
  <2>3. enrolment' \in EnrolmentRows /\ enrolment'.status = "used"
    BY <2>1 DEF MfaIInv, MfaTyped, EnrolmentRows, Mfa!EnrolmentStatuses
  <2>4. /\ granted' \in [Challenges \cup {Mfa!Enrolment} -> Nat] /\ granted'[Mfa!Enrolment] <= granted[Mfa!Enrolment] + 1
        /\ granted[Mfa!Enrolment] \in Nat /\ \A c \in Challenges : granted'[c] = granted[c]
    BY <2>1, MfaAssumption DEF MfaIInv, MfaTyped
  <2>5. EnrolmentRecorded'
    <3> SUFFICES ASSUME Mfa!Enrolment \notin raced' PROVE granted'[Mfa!Enrolment] <= 1
      BY <2>3 DEF EnrolmentRecorded
    <3>1. enrolment.status = "active" /\ Mfa!Enrolment \notin raced
      BY <2>1, <2>2
    <3>2. granted[Mfa!Enrolment] = 0
      BY <3>1 DEF MfaIInv, EnrolmentRecorded
    <3> QED  BY <2>4, <3>2
  <2>6. ASSUME NEW c \in Challenges PROVE Recorded(c)'
    <3>1. granted'[c] = granted[c] /\ (c \in raced' <=> c \in raced)
      BY <2>1, <2>4, MfaAssumption
    <3> QED  BY <1>1, <3>1 DEF MfaIInv, Recorded
  <2>7. GuessesShared'
    BY <1>4, <2>1, LockoutKept
  <2>8. MfaTyped'
    BY <1>1, <1>3, <1>4, <2>1, <2>3, <2>4 DEF MfaIInv, MfaTyped
  <2> QED  BY <1>4, <2>5, <2>6, <2>7, <2>8 DEF MfaIInv
<1> QED  BY <1>1, <1>5, <1>6

LEMMA NotEnrolledStep ==
    ASSUME MfaIInv, NEW w \in Workers, Mfa!NotEnrolled(w)
    PROVE  MfaIInv'
<1>1. /\ work[w].at \in {"enrolling", "adding"} /\ Mfa!Rest(w)
      /\ UNCHANGED <<challenge, factor, enrolment, granted, wrong, raced>>
  BY DEF Mfa!NotEnrolled
<1>2. work' \in [Workers -> Verifications] /\ (\A v \in Workers : Judged(v)') /\ Guessing' = Guessing \ {w}
  <2>1. \A d \in Challenges : challenge[d].status # None => challenge'[d].status # None
    BY <1>1
  <2>2. \A d \in Challenges : wrong'[d] \in Nat /\ wrong[d] <= wrong'[d]
    BY <1>1 DEF MfaIInv, MfaTyped
  <2> QED  BY <1>1, <2>1, <2>2, VerificationEnds
<1>3. GuessesShared' /\ lockout' \in [count : 0..MaxAttempts, locked : BOOLEAN] /\ guesses' \in Nat
  <2>1. CASE work[w].at = "adding"
    <3>1. Mfa!RecordFailure /\ w \in Guessing
      BY <2>1 DEF Mfa!NotEnrolled, Guessing
    <3> QED  BY <1>2, <3>1, FailureShared
  <2>2. CASE work[w].at = "enrolling"
    <3>1. UNCHANGED <<lockout, guesses>>
      BY <2>2 DEF Mfa!NotEnrolled
    <3> QED  BY <1>2, <3>1, LockoutKept DEF MfaIInv, MfaTyped
  <2> QED  BY <1>1, <2>1, <2>2
<1>4. MfaTyped' /\ EnrolmentRecorded' /\ \A c \in Challenges : Recorded(c)'
  BY <1>1, <1>2, <1>3 DEF MfaIInv, MfaTyped, EnrolmentRecorded, Recorded
<1> QED  BY <1>2, <1>3, <1>4 DEF MfaIInv

LEMMA LockoutEndsStep ==
    ASSUME MfaIInv, Mfa!LockoutEnds
    PROVE  MfaIInv'
<1>1. /\ lockout' = [lockout EXCEPT !.locked = FALSE] /\ guesses' = 0
      /\ UNCHANGED <<challenge, factor, enrolment, work, granted, wrong, raced>>
  BY DEF Mfa!LockoutEnds
<1>2. lockout' \in [count : 0..MaxAttempts, locked : BOOLEAN] /\ ~lockout'.locked /\ lockout'.count \in Nat
  <2>1. lockout \in [count : 0..MaxAttempts, locked : BOOLEAN] /\ MaxAttempts \in Nat
    BY MfaAssumption DEF MfaIInv, MfaTyped
  <2>2. lockout'.count = lockout.count /\ lockout'.locked = FALSE
    BY <1>1, <2>1
  <2>3. lockout' \in [count : 0..MaxAttempts, locked : BOOLEAN]
    BY <1>1, <2>1
  <2> QED  BY <2>1, <2>2, <2>3
<1>3. MfaTyped' /\ GuessesShared'
  BY <1>1, <1>2 DEF MfaIInv, MfaTyped, GuessesShared
<1>4. EnrolmentRecorded' /\ (\A w \in Workers : Judged(w)') /\ \A c \in Challenges : Recorded(c)'
  BY <1>1 DEF MfaIInv, EnrolmentRecorded, Recorded, Judged
<1> QED  BY <1>3, <1>4 DEF MfaIInv

LEMMA MfaStep ==
    ASSUME MfaIInv, [Mfa!Next]_Mfa!vars
    PROVE  MfaIInv'
<1>1. CASE UNCHANGED Mfa!vars
  <2>1. UNCHANGED <<challenge, lockout, factor, enrolment, work, granted, wrong, guesses, raced>>
    BY <1>1 DEF Mfa!vars
  <2> QED  BY <2>1 DEF MfaIInv, MfaTyped, GuessesShared, Guessing, EnrolmentRecorded, Judged, Recorded
<1>2. CASE Mfa!Next
  BY <1>2, ChallengeStep, ReadingStep, EnrolmentStep, WrongCodeStep, RightCodeStep, EnrolledStep, NotEnrolledStep, LockoutEndsStep
     DEF Mfa!Next
<1> QED  BY <1>1, <1>2

LEMMA MfaBegins == Mfa!Init => MfaIInv
<1> SUFFICES ASSUME Mfa!Init PROVE MfaIInv
  OBVIOUS
<1>1. MfaTyped
  BY MfaAssumption DEF Mfa!Init, MfaTyped, Mfa!NoChallenge, Mfa!NoEnrolment, Mfa!Unlocked, ChallengeRows, EnrolmentRows,
     Verifications, Mfa!FactorStatuses
<1>2. GuessesShared /\ EnrolmentRecorded
  BY MfaAssumption DEF Mfa!Init, Mfa!Unlocked, GuessesShared, EnrolmentRecorded
<1>3. \A w \in Workers : Judged(w)
  BY DEF Mfa!Init, Mfa!Idle, Judged
<1>4. \A c \in Challenges : Recorded(c)
  BY MfaAssumption DEF Mfa!Init, Mfa!NoChallenge, Recorded
<1> QED  BY <1>1, <1>2, <1>3, <1>4 DEF MfaIInv

LEMMA MfaSound == MfaIInv => Mfa!TypeOK /\ Mfa!GuessesBounded /\ Mfa!ExactUnlessRaced /\ Mfa!EnrolsOnce
<1> SUFFICES ASSUME MfaIInv PROVE Mfa!TypeOK /\ Mfa!GuessesBounded /\ Mfa!ExactUnlessRaced /\ Mfa!EnrolsOnce
  OBVIOUS
<1>1. Mfa!TypeOK
  BY DEF MfaIInv, MfaTyped, Mfa!TypeOK, ChallengeRows, EnrolmentRows, Recorded
<1>2. Mfa!GuessesBounded
  <2>1. guesses < MaxAttempts + Cardinality(Workers)
    <3>1. guesses \in Nat /\ lockout.count \in 0..MaxAttempts /\ MaxAttempts \in Nat \ {0} /\ GuessesShared
      BY MfaAssumption DEF MfaIInv, MfaTyped
    <3>2. CASE ~lockout.locked
      BY <3>1, <3>2, GuessersFinite DEF GuessesShared
    <3>3. CASE lockout.locked
      BY <3>1, <3>3, GuessersFinite DEF GuessesShared
    <3> QED  BY <3>2, <3>3
  <2> QED  BY <2>1, MfaSize DEF Mfa!GuessesBounded
<1>3. Mfa!ExactUnlessRaced /\ Mfa!EnrolsOnce
  BY DEF MfaIInv, Mfa!ExactUnlessRaced, Mfa!EnrolsOnce, Recorded, EnrolmentRecorded
<1> QED  BY <1>1, <1>2, <1>3

\* Of every interleaving of verifications, for any number of challenges and requests: guesses
\* stay within the lockout, a challenge that nobody raced for is exact, and an enrolment makes
\* one session.
THEOREM MfaSafe == Mfa!Spec => [](Mfa!TypeOK /\ Mfa!GuessesBounded /\ Mfa!ExactUnlessRaced /\ Mfa!EnrolsOnce)
BY MfaBegins, MfaStep, MfaSound, PTL DEF Mfa!Spec

-----------------------------------------------------------------------------
(* The composition: what is not in focus stands still, so a behaviour of   *)
(* IamSpec is one of each part.                                            *)

LEMMA Parts == IamSpec => Spec /\ Role!Spec /\ Mfa!Spec /\ Guard!Spec
<1>1. IamInit => Init /\ Role!Init /\ Mfa!Init /\ Guard!Init
  BY DEF IamInit
<1>2. [IamNext]_<<focus, vars, roleVars, mfaVars, guardVars>> =>
         [Next]_vars /\ [Role!Next]_Role!vars /\ [Mfa!Next]_Mfa!vars /\ [Guard!Next]_Guard!vars
  <2>1. /\ UNCHANGED roleVars => UNCHANGED Role!vars
        /\ UNCHANGED mfaVars => UNCHANGED Mfa!vars
        /\ UNCHANGED guardVars => UNCHANGED Guard!vars
    BY DEF roleVars, mfaVars, guardVars, Role!vars, Mfa!vars, Guard!vars
  <2> QED  BY <2>1 DEF IamNext
<1> QED  BY <1>1, <1>2, PTL DEF IamSpec, Spec, Role!Spec, Mfa!Spec, Guard!Spec

\* Of any history: conflicting roles come only of overlapping assignments, each role was approved
\* and the bootstrap happens once; no check allows what was hindered all along.
THEOREM RolesAndChecks == IamSpec => []ConflictsOnlyFromOverlap
<1>1. /\ Role!TypeOK /\ Role!ConflictsOnlyFromOverlap /\ Role!EveryRoleApproved /\ Role!OneBootstrap
      /\ Guard!TypeOK /\ Guard!AnsweredAsOf /\ Guard!NoAssignmentCrossed
      => ConflictsOnlyFromOverlap
  BY DEF ConflictsOnlyFromOverlap
<1> QED  BY <1>1, Parts, RolesSafe, GuardSafe, PTL

\* Of any history: guesses at challenges stay within the lockout, and only challenges that
\* verifications raced for are passed twice.
THEOREM Guesses == IamSpec => []GuessesBounded
<1>1. Mfa!TypeOK /\ Mfa!GuessesBounded /\ Mfa!ExactUnlessRaced /\ Mfa!EnrolsOnce => GuessesBounded
  BY DEF GuessesBounded
<1> QED  BY <1>1, Parts, MfaSafe, PTL
=============================================================================
