--------------------------- MODULE MCAliceBinding ---------------------------
(* AliceBinding for TLC; the constants are numbers of the cfg. *)
EXTENDS AliceBinding
=============================================================================
