SPECIFICATION FairSpec
CONSTANTS
  job = job
  preview = preview
  other = other
  good = good
  bad = bad
  unsafe = unsafe
  Callers = {job, preview, other}
  Jobs = {job}
  Keys = {good, bad, unsafe}
  Good = {good}
  Unsafe = {unsafe}
  Limit = 1
  MaxEntries = 1
  MaxAttempts = 1
  MaxCalls = 3
  MaxFaults = 1
CONSTANT Fallback <- MCFallback
INVARIANTS TypeOK SlotsCounted WorkspacesOwned CacheBounded
PROPERTIES FairSlots CallsEnd ShutdownEnds
CHECK_DEADLOCK FALSE
