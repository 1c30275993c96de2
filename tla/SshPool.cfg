\* Two processes, two tokens; B may crash, an earlier run may have left token 0.
SPECIFICATION FairSpec
CONSTANTS
  A = A
  B = B
  a1 = a1
  a2 = a2
  b1 = b1
  None = None
  Old = Old
  Procs = {A, B}
  Workers = {a1, b1}
  ProcOf <- MCProcOf
  Max <- MCMax
  Reuse = {A}
  Crashable = {B}
  Leftover = {0}
  Tokens = {0, 1}
  Batch = 2
  MaxCalls = 3
INVARIANTS
  TypeOK
  OpenSessionsHaveTokens
  NoTokenLeak
  CompletedNotResent
PROPERTIES
  TakenOnlyOnOutdatedView
  TimeoutsHaveLivingHolders
  BatchesEnd
