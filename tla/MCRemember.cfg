SPECIFICATION RememberSpec
CONSTANTS
  RemNodes = 3
  RemFiles = {"a", "b"}
  MaxKnown = 2
  remember = 90
  Clock = 60
INVARIANT KnownKept
CHECK_DEADLOCK FALSE
