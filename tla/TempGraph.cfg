SPECIFICATION FairSpec
CONSTANTS
  Runs = {r1, r2}
  Tok = {x, y}
  Depth = 2
  Deps <- MCDeps
  MaxAttempts = 2
  MaxFaults = 2
  MaxInterrupts = 1
  None = None
INVARIANTS
  TypeOK
  ProfilesRegistered
PROPERTIES
  RunningRunsSpared
  ReferencedTemplateKept
  ManifestsWorkedOff
