------------------------------ MODULE Catalog ------------------------------
(***************************************************************************)
(* What the registry promises a Cargo client, with every mechanism hidden: *)
(* a catalog with at most one entry per crate and semver key.  An entry    *)
(* appears whole, its tarball with its checksum, and from then on only its *)
(* yanked flag may change.  Registry.tla implements this with two          *)
(* Postgres transactions and an object-store PUT between them.             *)
(***************************************************************************)
CONSTANTS
  Crates,               \* crate names that pass validate_crate_name
  Versions,             \* semver versions, build metadata included
  SemverKeys,           \* versions without their build metadata
  Tarballs,             \* .crate files
  Digests,              \* SHA-256 values
  semver_key,           \* Versions -> SemverKeys
  hex_digest_sha256,    \* Tarballs -> Digests
  None

VARIABLE catalog

Ids == Crates \X SemverKeys

Entry == [version : Versions, cksum : Digests, tarball : Tarballs,
          yanked : BOOLEAN]

Init == catalog = [id \in Ids |-> None]

(* A version becomes visible: the build metadata of the version published  *)
(* first is the one that stays.                                            *)
Publish(id) ==
  /\ catalog[id] = None
  /\ \E v \in Versions, t \in Tarballs :
       /\ semver_key[v] = id[2]
       /\ catalog' = [catalog EXCEPT ![id] =
                        [version |-> v, cksum |-> hex_digest_sha256[t],
                         tarball |-> t, yanked |-> FALSE]]

SetYanked(id) ==
  /\ catalog[id] # None
  /\ \E b \in BOOLEAN : catalog' = [catalog EXCEPT ![id].yanked = b]

Next == \E id \in Ids : Publish(id) \/ SetYanked(id)

Spec == Init /\ [][Next]_catalog
=============================================================================
