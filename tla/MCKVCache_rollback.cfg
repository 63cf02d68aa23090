SPECIFICATION Spec
CONSTANTS
  Align = 2
  ExpandChunk = 1
  Limit <- NoLimitOfSize
  Uses = {"override"}
  DraftLength = 3
  MaxAdd = 3
  MaxToken = 8
INVARIANTS
  KVLengthAgrees
