SPECIFICATION Spec
CONSTANTS
  r1 = r1
  r2 = r2
  i1 = i1
  i2 = i2
  erofs = erofs
  ext4 = ext4
  Requests = {p1, p2}
  Refs = {r1, r2}
  Ids = {i1, i2}
  Worlds <- CrashWorlds
  Formats <- OnlyExt4
  FixedSize = {ext4}
  None = None
  Empty = Empty
  Torn = Torn
  MaxCrashes = 1
CHECK_DEADLOCK FALSE
INVARIANTS CacheDescribesItsImage
PROPERTY RequestsAnswered
