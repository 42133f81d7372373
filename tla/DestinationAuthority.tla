------------------------ MODULE DestinationAuthority ------------------------
(***************************************************************************)
(* What the destination registry of WLT-01 promises a module that moves    *)
(* money: a destination is whitelisted at most once and revoked for good,  *)
(* a grant names one destination and one amount, and using it enters that  *)
(* amount in the book once, while the destination is still whitelisted.    *)
(* Versions, locks, evidence, tokens and clocks are how, and are left to   *)
(* the module that implements this one.                                    *)
(***************************************************************************)
EXTENDS Sequences

CONSTANTS Dests, Amounts, Grants, NoGrant

VARIABLES
    standing,   \* "candidate", "whitelisted" or "revoked"
    grant,      \* what each grant allows: NoGrant, or its destination and amount
    used,       \* the grants that were used
    book        \* what was spent, entry by entry

vars == <<standing, grant, used, book>>

Init ==
    /\ standing \in [Dests -> {"candidate", "whitelisted"}]
    /\ grant = [g \in Grants |-> NoGrant]
    /\ used = {}
    /\ book = <<>>

Whitelist(d) ==
    /\ standing[d] = "candidate"
    /\ standing' = [standing EXCEPT ![d] = "whitelisted"]
    /\ UNCHANGED <<grant, used, book>>

Revoke(d) ==
    /\ standing[d] # "revoked"
    /\ standing' = [standing EXCEPT ![d] = "revoked"]
    /\ UNCHANGED <<grant, used, book>>

Allow(g, d, a) ==
    /\ standing[d] = "whitelisted" /\ grant[g] = NoGrant
    /\ grant' = [grant EXCEPT ![g] = [dest |-> d, amount |-> a]]
    /\ UNCHANGED <<standing, used, book>>

Use(g) ==
    /\ grant[g] # NoGrant /\ g \notin used
    /\ standing[grant[g].dest] = "whitelisted"
    /\ used' = used \cup {g}
    /\ book' = Append(book, grant[g])
    /\ UNCHANGED <<standing, grant>>

Next ==
    \/ \E d \in Dests : Whitelist(d) \/ Revoke(d)
    \/ \E g \in Grants, d \in Dests, a \in Amounts : Allow(g, d, a)
    \/ \E g \in Grants : Use(g)

Spec == Init /\ [][Next]_vars
=============================================================================
