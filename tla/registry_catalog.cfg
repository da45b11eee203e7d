SPECIFICATION Spec
CONSTANTS
  v1 = v1
  v1_build = v1_build
  v2 = v2
  k1 = k1
  k2 = k2
  Publishers = {p1, p2}
  Consumers = {d1}
  Crates = {foo}
  NormalizedNames = {n_foo}
  Versions = {v1, v1_build, v2}
  SemverKeys = {k1, k2}
  Tarballs = {t1, t2}
  Digests = {t1, t2}
  Prefixes = {x}
  None = None
  normalized_name <- MCOneName
  semver_key <- MCBuilds
  hex_digest_sha256 <- MCDigest
  digest_prefix <- MCPrefix
SYMMETRY Symmetry
INVARIANTS
  TypeOK
  ReadyIsServable
  AckedIsServed
  ConsumerIsServed
PROPERTIES
  ImplementsCatalog
