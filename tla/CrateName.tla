----------------------------- MODULE CrateName -----------------------------
(***************************************************************************)
(* Crate names and the patterns that claims are made of.  A name or a      *)
(* pattern is a sequence of characters; what matters of a character is its *)
(* class.                                                                  *)
(***************************************************************************)
EXTENDS Naturals, Sequences, Functions

CONSTANTS
  Chars,                \* the characters of names and patterns
  Lower,                \* ASCII lowercase letters
  Digits,               \* ASCII digits
  MaxName               \* 64

ASSUME CharAssumption ==
         /\ Lower \cup Digits \cup {"_", "-", "*"} \subseteq Chars
         /\ "*" \notin Lower /\ "*" \notin Digits

NameChars == Lower \cup Digits \cup {"_", "-"}

validate_crate_name(name) ==
  /\ Len(name) \in 1..MaxName
  /\ name[1] \in Lower
  /\ Range(name) \subseteq NameChars

star == <<"*">>

EndsInStar(pattern) == pattern # <<>> /\ pattern[Len(pattern)] = "*"

\* pattern.strip_suffix('*')
Stem(pattern) == SubSeq(pattern, 1, Len(pattern) - 1)

starts_with(name, stem) ==
  /\ Len(stem) <= Len(name)
  /\ \A i \in 1..Len(stem) : name[i] = stem[i]

\* Any stem will do.
validate_claim_pattern_by_suffix(pattern) ==
  EndsInStar(pattern) \/ validate_crate_name(pattern)

validate_claim_pattern(pattern) ==
  \/ pattern = star
  \/ /\ EndsInStar(pattern)
     /\ Len(pattern) > 1
     /\ Range(Stem(pattern)) \subseteq NameChars
  \/ validate_crate_name(pattern)

\* What comes before the star is not compared.
claim_matches_any_star(pattern, name) ==
  \/ pattern = star
  \/ pattern = name
  \/ EndsInStar(pattern)

claim_matches(pattern, name) ==
  \/ pattern = star
  \/ pattern = name
  \/ EndsInStar(pattern) /\ starts_with(name, Stem(pattern))
=============================================================================
