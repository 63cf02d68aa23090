CONSTANTS
  MaxOpen = 2
  MaxTurns = 2
  MaxNewTokens = 2
  Uses = {}
  Requests = {q1, q2}
  Nobody = Nobody
SPECIFICATION Spec
INVARIANTS
  TypeOK
  NativeGuarded
  HistoryAgrees
  EachInOnePlace
PROPERTIES
  Released
  Answered
CHECK_DEADLOCK FALSE
