------------------------------ MODULE MCAccess ------------------------------
(***************************************************************************)
(* Instances of the composition for TLC.                                   *)
(***************************************************************************)
EXTENDS AccessProperties, TLC

CONSTANTS t1, c1, c2

MCHash == [r \in Raw |-> r]

MCCallers == {c1, c2}
MCSymmetry == Permutations(MCCallers) \cup Permutations(Secrets)

MCLower == {"a", "b"}
MCChars == {"a", "b", "1", "_", "-", "*"}
MCDigits == {"1"}

a == <<"a">>
ab == <<"a", "b">>
aStar == <<"a", "*">>
twoStars == <<"*", "*">>

MCCrates == {ab, <<"b">>}
MCScopes == {star, ab, aStar, twoStars}
MCClaims == {"read", "publish"} \X MCScopes

\* The right to publish some crates and to read all, that to read some, and a
\* list that is not valid, which would let its caller search.
MCRequests == {<<<<"publish", aStar>>, <<"read", star>>>>, <<<<"read", aStar>>>>,
               <<<<"read", ab>>, <<"read", twoStars>>>>}

\* Replacements of claims that overlap are left to MCTokens.
MCOneReplaces == \E c \in MCCallers : call[c].op # "replace"
=============================================================================
