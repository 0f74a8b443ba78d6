SPECIFICATION MCSpec
CONSTANTS
  ArgWords <- MCArgWords
  MaxWords = 4
  TextChars <- MCTextChars
  MaxText = 6
  Daemons = {1, 2}
  Commands = {3}
  Settings <- MCSettings
  MountMax = 2
INVARIANTS
  OptionsArrive
  EscapesSurvive
  MountsListed
PROPERTIES
  MountReturns
  AutoUnmounted
CHECK_DEADLOCK FALSE
