--------------------------------- MODULE Clt ---------------------------------
(***************************************************************************)
(* CLT-01: an application, and a register of the client it becomes.  The   *)
(* two share no row, so what either promises depends on its own steps      *)
(* alone, and a behaviour is about the one in focus.                       *)
(***************************************************************************)
EXTENDS CltApplication, TLC

CONSTANTS
    Rows,               \* rows of the register
    Changes,            \* numbers of the requests to change it
    MaxRowVersion       \* bound: version of a row

ASSUME RegisterAssumption == MaxRowVersion \in Nat /\ Changes \subseteq Nat /\ IsFiniteSet(Workers)

VARIABLES focus, sort, client, row, change, hand, paid
registerVars == <<sort, client, row, change, hand, paid>>

Register == INSTANCE CltRegister WITH
    Requests <- Changes, MaxVersion <- MaxRowVersion, request <- change, work <- hand

CltInit ==
    /\ focus \in {"application", "register"} /\ Init /\ Register!Init
    /\ focus = "application" => sort = "user"
CltNext ==
    \/ focus = "application" /\ Next /\ UNCHANGED <<focus, registerVars>>
    \/ focus = "register" /\ Register!Next /\ UNCHANGED <<focus, vars>>
CltSpec == CltInit /\ [][CltNext]_<<vars, focus, registerVars>>

\* Workers are alike, and so are the rows that compete for a place.
Alike == Permutations(Workers) \cup Permutations(Rows)

-----------------------------------------------------------------------------
\* However changes of a client's register interleave, a place in it is held by one row.
OnePlaceEach == Register!TypeOK /\ Register!OnePlaceEach

\* What ended stays ended: a revoked row, an inactive edge, a closed client.  And a party
\* becomes active only while its screening is clear.
EndedForGood == Register!EndedForGood /\ Register!ActivatedWhileCleared /\ Register!ClosedForGood

\* No authorised user or mandate is added to a client that is not active.
NoneAddedToInactive == Register!NoneAddedToInactive
=============================================================================
