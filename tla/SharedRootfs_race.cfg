SPECIFICATION Spec
CONSTANTS
  r1 = r1
  r2 = r2
  i1 = i1
  i2 = i2
  erofs = erofs
  ext4 = ext4
  Requests = {p1, p2}
  Refs = {r1, r2}
  Ids = {i1, i2}
  Worlds <- RaceWorlds
  Formats <- BothFormats
  FixedSize = {ext4}
  None = None
  Empty = Empty
  Torn = Torn
  MaxCrashes = 0
CHECK_DEADLOCK FALSE
SYMMETRY Symmetry
INVARIANTS RepliesMatchRequests RepliedImagesComplete CachedEntriesStayValid
