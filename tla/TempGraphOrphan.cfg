SPECIFICATION Spec
CONSTANTS
  Runs = {r1}
  Tok = {x, y}
  Depth = 2
  Deps <- MCDeps
  MaxAttempts = 2
  MaxFaults = 1
  MaxInterrupts = 0
  None = None
INVARIANTS
  ManifestOutlivesProfiles
