----------------------------- MODULE WltControl -----------------------------
(***************************************************************************)
(* WLT-01: how a destination of one client comes to be.  It is registered, *)
(* by an internal service or by the client's own user, as a wallet or as a *)
(* payout account; a wallet the client says it controls is proven with     *)
(* signed challenges while it is under review; approval asks for the       *)
(* proof.  Every operation is one transaction under the lock of the client *)
(* or of the destination, and so one step.  The client's status, which     *)
(* CLT-01 is asked for before that transaction, and the authority of the   *)
(* user at the public door are not in the state: both may change at any    *)
(* time, so a request may get through the checks at any time.              *)
(***************************************************************************)
EXTENDS Naturals

CONSTANTS
    Dests, Challenges,  \* rows in order of creation, 1..n
    Accounts,           \* addresses and accounts a destination may name
    Unhosted, Hosted,   \* of them: wallets whose control must be proven, and the other wallets
    Keys,
    MaxAttempts,        \* pocMaxAttempts
    None

VARIABLES
    dest,       \* wlt1.destination
    keys,       \* foundation.idempotency_record, by door
    poc,        \* wlt1.proof_of_control
    refused     \* history: signatures refused, by challenge

vars == <<dest, keys, poc, refused>>

Refused == 0
Doors == {"internal", "public"}
NoDest == [account |-> None, status |-> None]
NoKey == [account |-> None, result |-> None]
NoPoc == [dest |-> 0, status |-> None, attempts |-> 0, late |-> FALSE]

\* The next row of a table whose rows are numbered in order.
FirstFree(rows, table, blank, n) == \A k \in rows : table[k] = blank <=> k >= n

-----------------------------------------------------------------------------
(* Registration: a request that CLT-01's answer let through *)

\* What a request may name: an address that canonicalisation accepts, or an account that is well
\* formed, of a client CLT-01 answers for.  Any other is refused before the transaction.
Wallet(a) == a \in Unhosted \cup Hosted
PublicWallet(a) == a \in Unhosted \cup Hosted
Payout(a) == a \notin Unhosted \cup Hosted
PublicPayout(a) == a \notin Unhosted \cup Hosted

\* One live destination per natural key: the lookup, and the unique index behind it.
Taken_Approved(a) == \E d \in Dests : dest[d].account = a /\ dest[d].status = "approved"
Taken(a) == \E d \in Dests : dest[d].account = a /\ dest[d].status # "revoked"

Complete_Forgets(door, k, a, result) == UNCHANGED keys
Complete(door, k, a, result) == keys' = [keys EXCEPT ![door][k] = [account |-> a, result |-> result]]

\* A key answered before, or used with another request, registers nothing.
Registered(door, k, a) ==
    /\ keys[door][k] = NoKey
    /\ \/ Taken(a) /\ Complete(door, k, a, Refused) /\ UNCHANGED dest
       \/ /\ ~Taken(a)
          /\ \E d \in Dests :
                /\ FirstFree(Dests, dest, NoDest, d)
                /\ dest' = [dest EXCEPT ![d] = [account |-> a, status |-> "draft"]]
                /\ Complete(door, k, a, d)
    /\ UNCHANGED <<poc, refused>>

RegisterWallet(k, a) == Wallet(a) /\ Registered("internal", k, a)
RegisterPayout(k, a) == Payout(a) /\ Registered("internal", k, a)
PublicRegisterWallet(k, a) == PublicWallet(a) /\ Registered("public", k, a)
PublicRegisterPayout(k, a) == PublicPayout(a) /\ Registered("public", k, a)

-----------------------------------------------------------------------------
(* Proof of control *)

UnderReview(d) == dest[d].status = "pending_review"
Provable(d) == UnderReview(d) /\ dest[d].account \in Unhosted
Of(d, status) == {c \in Challenges : poc[c].dest = d /\ poc[c].status = status}

\* A new challenge ends the one that was open.
EndsOpen_None(d) == poc
EndsOpen(d) ==
    [c \in Challenges |-> IF c \in Of(d, "issued")
                          THEN [poc[c] EXCEPT !.status = IF poc[c].late THEN "expired" ELSE "superseded"]
                          ELSE poc[c]]

\* A wallet already proven is answered with the proof.
Unproven(d) == Of(d, "verified") = {}
Issued(d) == [NoPoc EXCEPT !.dest = d, !.status = "issued"]
Issue(d, c) ==
    /\ Provable(d) /\ Unproven(d)
    /\ FirstFree(Challenges, poc, NoPoc, c)
    /\ poc' = [EndsOpen(d) EXCEPT ![c] = Issued(d)]
    /\ UNCHANGED <<dest, keys, refused>>
PublicIssue(d, c) == Issue(d, c)

\* The refusal is returned, not thrown: what it counted is committed.
Attempt_RolledBack(c) == poc
Attempt_OneMore(c) ==
    [poc EXCEPT ![c].attempts = @ + 1, ![c].status = IF poc[c].attempts >= MaxAttempts THEN "failed" ELSE @]
Attempt(c) ==
    [poc EXCEPT ![c].attempts = @ + 1, ![c].status = IF poc[c].attempts + 1 >= MaxAttempts THEN "failed" ELSE @]

\* The challenge answers for this destination and can still be answered.
Answerable(d, c) == UnderReview(d) /\ poc[c].dest = d /\ poc[c].status = "issued"
Wrong(c) == poc' = Attempt(c) /\ refused' = [refused EXCEPT ![c] = @ + 1]
Proven(d, c) ==
    /\ Unproven(d)
    /\ poc' = [poc EXCEPT ![c].status = "verified"] /\ UNCHANGED refused

Verify(d, c, good) ==
    /\ Answerable(d, c)
    /\ \/ poc[c].late /\ poc' = [poc EXCEPT ![c].status = "expired"] /\ UNCHANGED refused
       \/ ~poc[c].late /\ ~good /\ Wrong(c)
       \/ ~poc[c].late /\ good /\ Proven(d, c)
    /\ UNCHANGED <<dest, keys>>
PublicVerify(d, c, good) == Verify(d, c, good)

-----------------------------------------------------------------------------
(* What else happens to a destination *)

Screened(d) == dest[d].status = "draft" /\ dest' = [dest EXCEPT ![d].status = "pending_review"]

Gate_AnyChallenge(d) == UnderReview(d) /\ (dest[d].account \in Unhosted => \E c \in Challenges : poc[c].dest = d)
Gate(d) == UnderReview(d) /\ (dest[d].account \in Unhosted => Of(d, "verified") # {})
Approve(d) == Gate(d) /\ dest' = [dest EXCEPT ![d].status = "approved"]

Revoke(d) == dest[d].status \notin {None, "revoked"} /\ dest' = [dest EXCEPT ![d].status = "revoked"]

Elapse(c) ==
    /\ poc[c].status = "issued" /\ ~poc[c].late /\ poc' = [poc EXCEPT ![c].late = TRUE]
    /\ UNCHANGED <<dest, keys, refused>>

-----------------------------------------------------------------------------
Init ==
    /\ dest = [d \in Dests |-> NoDest]
    /\ keys = [door \in Doors |-> [k \in Keys |-> NoKey]]
    /\ poc = [c \in Challenges |-> NoPoc]
    /\ refused = [c \in Challenges |-> 0]

Next ==
    \/ \E k \in Keys, a \in Accounts :
          RegisterWallet(k, a) \/ RegisterPayout(k, a) \/ PublicRegisterWallet(k, a) \/ PublicRegisterPayout(k, a)
    \/ \E d \in Dests, c \in Challenges :
          \/ Issue(d, c) \/ PublicIssue(d, c)
          \/ \E good \in BOOLEAN : Verify(d, c, good) \/ PublicVerify(d, c, good)
    \/ \E d \in Dests : (Screened(d) \/ Approve(d) \/ Revoke(d)) /\ UNCHANGED <<keys, poc, refused>>
    \/ \E c \in Challenges : Elapse(c)

Spec == Init /\ [][Next]_vars

-----------------------------------------------------------------------------
TypeOK ==
    /\ \A d \in Dests : dest[d].status \in {None, "draft", "pending_review", "approved", "revoked"}
    /\ \A door \in Doors, k \in Keys : keys[door][k].result \in Dests \cup {None, Refused}
    /\ \A c \in Challenges :
          /\ poc[c].status \in {None, "issued", "expired", "superseded", "failed", "verified"}
          /\ poc[c].status = "failed" <=> poc[c].attempts = MaxAttempts

\* Whatever overlaps, dies and is retried, through either door: the live destinations name
\* different accounts, and none was made by a key that had been answered before.
OneLive ==
    \A d, e \in Dests : d # e /\ dest[d].account # None /\ dest[d].account = dest[e].account =>
        "revoked" \in {dest[d].status, dest[e].status}

\* A destination is the answer of one key, which is answered with it for good.
MadeByOneKey ==
    \A d \in Dests : dest[d] # NoDest =>
        \E door \in Doors, k \in Keys :
           /\ keys[door][k] = [account |-> dest[d].account, result |-> d]
           /\ \A other \in Doors, j \in Keys : keys[other][j].result = d => other = door /\ j = k

\* A challenge is guessed at no more than MaxAttempts times, however the guesses come.
GuessesBounded == \A c \in Challenges : refused[c] <= MaxAttempts

\* Of the challenges of a destination at most one can still be answered, or has been.
OneOpen ==
    \A d \in Dests : \A b, c \in Of(d, "issued") \cup Of(d, "verified") : b = c

\* A wallet whose control can be proven is approved only on a proof, of its own address.
ApprovedIsProven ==
    \A d \in Dests : dest[d].status = "approved" /\ dest[d].account \in Unhosted =>
        \E c \in Of(d, "verified") : refused[c] < MaxAttempts
=============================================================================
