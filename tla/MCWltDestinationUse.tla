------------------------ MODULE MCWltDestinationUse ------------------------
(***************************************************************************)
(* WltDestinationUse for TLC: one destination, two executions, one         *)
(* decision, under a profile without velocity limits.                      *)
(***************************************************************************)
EXTENDS WltDestinationUse, TLC

OneTransfer == <<[perTxn |-> 1, firstUse |-> None, daily |-> None, rolling |-> None]>>

MCSymmetry == Permutations(Workers)
=============================================================================
