\* Two blocks beside the header block, one of them cached at a time.
CONSTANTS
  MaxId = 3
  CacheSize = 1
  Data = {d1, d2}
  Zero = Zero
  Text = {t}
  NoText = NoText
  Users = 2
  Beyond = Beyond
  Absent = Absent
  NoBlock = NoBlock
  NoId = NoId
  Spans = {1, 2}
  NotStored = NotStored
  NoHeader = NoHeader
SPECIFICATION HSpec
SYMMETRY DataSymmetry
CHECK_DEADLOCK FALSE
INVARIANTS TypeOK StoredIdsKnown SealedFileOpens
PROPERTY ImplementsDurableBlocks
