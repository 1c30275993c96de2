\* Two threads, an account that recovers on every method and one that never does.
SPECIFICATION FairSpec
CONSTANTS
  Threads = {t1, t2}
  Roles = {"readwrite", "noaccess"}
  Sid <- MCSid
  NoSid = NoSid
  NoThread = NoThread
  Lifetime = 3
  Refresh = 2
  MaxLatency = 1
  MaxClock = 3
  MaxOps = 2
INVARIANTS TypeOK NoUntrackedSession MutationSeenOnce
PROPERTIES LiveEntryKept HandedOutFreshOrNewer CallsEnd
