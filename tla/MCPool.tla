------------------------------- MODULE MCPool -------------------------------
(***************************************************************************)
(* Instances of Pool for TLC: more handlers than connections.              *)
(***************************************************************************)
EXTENDS Pool

CONSTANTS h1, c1, c2

\* Two claims in either order.
MCLists == {<<c1, c2>>, <<c2, c1>>}

(* No handler has a part of its own in Pool, so one stands for all: its    *)
(* requests are answered.                                                  *)
RequestIsAnswered == IsAnswered(h1)
=============================================================================
