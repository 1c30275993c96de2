\* Two threads of one process share its pool; nobody crashes, no file is left over.
SPECIFICATION Spec
CONSTANTS
  A = A
  B = B
  a1 = a1
  a2 = a2
  b1 = b1
  None = None
  Old = Old
  Procs = {A}
  Workers = {a1, a2}
  ProcOf <- MCProcOf
  Max <- MCMax
  Reuse = {A}
  Crashable = {}
  Leftover = {}
  Tokens = {0, 1}
  Batch = 2
  MaxCalls = 3
INVARIANTS SessionsApart
