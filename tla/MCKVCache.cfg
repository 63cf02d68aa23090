SPECIFICATION Spec
CONSTANTS
  Align = 2
  ExpandChunk = 1
  Limit = 4
  Uses = {}
  DraftLength = 3
  MaxAdd = 4
  MaxToken = 11
INVARIANTS
  TypeOK
  HistoryKept
  KVLengthAgrees
  FitsBuffer
  PositionsFollow
CHECK_DEADLOCK FALSE
