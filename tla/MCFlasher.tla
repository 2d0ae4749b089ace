------------------------------ MODULE MCFlasher ------------------------------
(* Flasher for TLC.  The ids of jobs are made as the jobs are submitted, so that
   which of the model values comes first is of no account. *)
EXTENDS Flasher

CONSTANT j1
j1First == job[j1].state = "none" => \A j \in Job : job[j].state = "none"
=============================================================================
