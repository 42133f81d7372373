-------------------------- MODULE MCWltScreening --------------------------
(* One wallet screened up to twice; its first screening has a receipt of its own, and another
   provider's receipt names it as well. *)
EXTENDS WltScreening

MCTarget == <<1, 1>>
=============================================================================
