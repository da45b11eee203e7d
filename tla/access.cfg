SPECIFICATION AccessSpec
CONSTANTS
  t1 = t1
  Chars <- MCChars
  Lower <- MCLower
  Digits <- MCDigits
  MaxName = 3
  TokenIds = {t1}
  Secrets = {s1, s2}
  Hashes <- Raw
  hash <- MCHash
  None = None
  Sessions <- MCCallers
  Admins <- MCCallers
  c1 = c1
  c2 = c2
  Scopes <- MCScopes
  Claims <- MCClaims
  Requests <- MCRequests
  Crates <- MCCrates
  Ops = {"publish", "search", "index", "create", "replace", "revoke", "rotate"}
SYMMETRY MCSymmetry
CONSTRAINT MCOneReplaces
INVARIANTS
  TypeOK
  StaleTokensAreRefused
  LockoutOnlyByLostAnswer
  AccessTypeOK
  ServedWithinRights
  SearchSeesOnlyReadable
CHECK_DEADLOCK FALSE
