SPECIFICATION FairSpec
CONSTANTS
  t1 = t1
  t2 = t2
  NoThread = NoThread
  Threads = {t1, t2}
  Delays <- MCDelays
  Interval = 2
  MaxCalls = 3
INVARIANTS
  TypeOK
  LedgerTellsOutcome
PROPERTIES
  ImplementsCall
  SlotsApart
  CallsEnd
