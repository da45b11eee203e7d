------------------------------ MODULE MCIndex ------------------------------
(***************************************************************************)
(* Instances of Index for TLC.                                             *)
(***************************************************************************)
EXTENDS IndexProperties, TLC

MCSymmetry == Permutations(Yankers)
=============================================================================
