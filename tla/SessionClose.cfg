\* One thread caches two roles, then closes the manager.
SPECIFICATION Spec
CONSTANTS
  Threads = {t1}
  Roles = {"readwrite", "readonly"}
  Sid <- MCSid
  NoSid = NoSid
  NoThread = NoThread
  Lifetime = 3
  Refresh = 2
  MaxLatency = 1
  MaxClock = 3
  MaxOps = 2
INVARIANTS CloseLogsOutEverySession
