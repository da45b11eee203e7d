SPECIFICATION FairSpec
CONSTANTS
  h1 = h1
  c1 = c1
  c2 = c2
  Claims = {c1, c2}
  Lists <- MCLists
  Handlers = {h1, h2, h3}
  Size = 2
  Operations = {"publish"}
  None = None
INVARIANTS
  NoHoldAndWait
  SomebodyGoesOn
  OnlyReplacementsDeadlock
PROPERTY
  RequestIsAnswered
