SPECIFICATION Spec
CONSTANTS
  c1 = c1
  c2 = c2
  TokenIds = {id1}
  Secrets = {s1}
  Claims = {c1, c2}
  Requests <- MCRequests
  Admins = {a1, a2}
  Sessions = {}
  Hashes <- Raw
  hash <- MCHash
  None = None
PROPERTIES
  ReplaceReplaces
