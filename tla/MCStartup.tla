----------------------------- MODULE MCStartup ------------------------------
(***************************************************************************)
(* Instances of Startup for TLC: replicas of one deployment.               *)
(***************************************************************************)
EXTENDS Startup
=============================================================================
