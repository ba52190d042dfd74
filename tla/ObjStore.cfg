SPECIFICATION LiveSpec
CONSTANTS
  o1 = o1
  o2 = o2
  Missing = Missing
  Zero = "0"
  Bytes = {"0", "a", "b", "c", "d", "e", "f"}
  Objects = {o1, o2}
  Requests <- MCRequests
  MaxSize = 5
  Chunk = 2
  MaxAlloc = 4
  MaxTries = 2
  MaxAsks = 3
INVARIANTS RetryHeals AppendKeepsAll DamageIsLocal AnswerIsTheRange
PROPERTY RequestsEnd
CHECK_DEADLOCK FALSE
