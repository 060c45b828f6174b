CONSTANTS
  Callers = {1, 2, 3}
  MUTEX_EXPIRE = 2
  CACHE_EXPIRE = 2
  NULL_EXPIRE = 1
  Values = {"v"}
  null = null
  CACHE_PLACE_HOLDER = "none"
  MaxWaits = 1
  Threads = {1, 2}
  Limits <- MCLimits
  MaxCalls = 4
SPECIFICATION SpecServices
INVARIANTS
  MutexKept
  
