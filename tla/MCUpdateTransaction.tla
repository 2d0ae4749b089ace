-------------------------- MODULE MCUpdateTransaction --------------------------
(***************************************************************************)
(* Instances of UpdateTransaction for TLC: the VERSION file, a file the    *)
(* package adds, one it ships unchanged, the runner stamp and one it       *)
(* deletes; one UART service that boots, one the package restarts.         *)
(***************************************************************************)
EXTENDS UpdateTransaction
CONSTANTS version, added, same, stamp, gone, u1, u2
================================================================================
