---------------------------- MODULE MCCloudAgent ----------------------------
(* CloudAgent for TLC; all constants are numbers and Booleans of the cfg. *)
EXTENDS CloudAgent
=============================================================================
