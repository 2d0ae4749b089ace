---------------------------- MODULE MCBridgePause ----------------------------
(* A line with two pooled handles, polled by the scheduler and written to by *)
(* the writeback thread.                                                     *)
EXTENDS BridgePause, TLC

CONSTANTS k1, k2, w1, w2, h1, h2

UsesTwo == (w1 :> h1) @@ (w2 :> h2)
UsesSame == (w1 :> h1) @@ (w2 :> h1)
=============================================================================
