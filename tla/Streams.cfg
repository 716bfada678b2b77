SPECIFICATION Spec
CONSTANTS
  Stream = {s1, s2}
  Event = {e1}
  Thread = {t1, t2}
  Heads = {s1}
  Capacity = 2
  Null = Null
  Absent = Absent
INVARIANTS CacheInv TypeOK CacheMapped NoSyncAfterDestroy HeadNotSynced WorkAccounted
