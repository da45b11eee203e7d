------------------------------ MODULE MCTokens ------------------------------
(***************************************************************************)
(* Instances of the token tables for TLC.                                  *)
(***************************************************************************)
EXTENDS TokenProperties, TLC

CONSTANTS c1, c2

MCHash == [r \in Raw |-> r]

\* Nothing, one claim, two in either order, and a list that repeats itself.
MCRequests == {<<>>, <<c1>>, <<c1, c2>>, <<c2, c1>>, <<c2, c2>>}
=============================================================================
