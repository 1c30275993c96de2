\* One process runs a batch after the other on its pooled session.
SPECIFICATION Spec
CONSTANTS
  A = A
  B = B
  a1 = a1
  a2 = a2
  b1 = b1
  None = None
  Old = Old
  Procs = {A, B}
  Workers = {a1}
  ProcOf <- MCProcOf
  Max <- MCMax
  Reuse = {A}
  Crashable = {}
  Leftover = {}
  Tokens = {0}
  Batch = 2
  MaxCalls = 2
INVARIANTS CommandsNeverReplayed
