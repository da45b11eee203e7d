------------------------------ MODULE MCRegistry ------------------------------
(***************************************************************************)
(* Instances of the publish pipeline for TLC.  Two tarballs whose digests  *)
(* differ share the digest prefix of the object key, the worst case.       *)
(***************************************************************************)
EXTENDS RegistryProperties, TLC

MCDigest == [t \in Tarballs |-> t]
MCPrefix == [g \in Digests |-> CHOOSE x \in Prefixes : TRUE]

CONSTANTS v1, v1_build, v2, k1, k2

\* Two builds of one version, and another version.
MCBuilds == (v1 :> k1) @@ (v1_build :> k1) @@ (v2 :> k2)

\* Two spellings of one name.
MCOneName == [c \in Crates |-> CHOOSE n \in NormalizedNames : TRUE]

\* One version only.
MCOneKey  == [v \in Versions |-> CHOOSE k \in SemverKeys : TRUE]

Symmetry == Permutations(Publishers) \cup Permutations(Consumers)
              \cup Permutations(Tarballs)
=============================================================================
