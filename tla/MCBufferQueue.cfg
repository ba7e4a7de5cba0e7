CONSTANTS
  Byte <- TwoBytes
  Junk = Junk
  Values <- ShortValues
  MaxBytes = 6
SPECIFICATION FairSpec
INVARIANTS TypeOK Fifo NoAssert RoomOK
PROPERTIES SerializeEnds
