SPECIFICATION Spec
CONSTANTS
  Base = 8
  MaxTarball = 2
  Allowance = 11
  Bodies <- MCBodies
  Fields <- MCFields
  Malformed = Malformed
  Names = {"foo", "bar"}
  Versions = {"1.0.0"}
  None = None
INVARIANTS
  AuthorizedIsPublished
  PublishedAsEncoded
  EncodedIsPublishable
  DependenciesResolve
CHECK_DEADLOCK FALSE
