SPECIFICATION FairSpec
CONSTANTS
  v1 = v1
  v1_build = v1_build
  v2 = v2
  k1 = k1
  k2 = k2
  Publishers = {p1, p2, p3}
  Consumers = {}
  Crates = {foo_bar, foo_dash_bar}
  NormalizedNames = {n_foo_bar}
  Versions = {v1, v1_build}
  SemverKeys = {k1}
  Tarballs = {t1}
  Digests = {t1}
  Prefixes = {x}
  None = None
  normalized_name <- MCOneName
  semver_key <- MCOneKey
  hex_digest_sha256 <- MCDigest
  digest_prefix <- MCPrefix
INVARIANTS
  ClaimIsExclusive
  FailureEventIsTrue
  EventsTellTheStatus
  LockHoldersGoOn
  NormalizedNamesDiffer
PROPERTIES
  BurnedForGood
  PublishIsAnswered
