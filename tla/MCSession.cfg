CONSTANTS
  w1 = w1
  w2 = w2
  w3 = w3
  Workers = {w1, w2, w3}
  Main = Main
  Fs = Fs
  None = None
  IdleLimit = 1
  Configs <- MCConfigs
SPECIFICATION Spec
INVARIANTS Lifetimes InterruptsHit ServedOnce
PROPERTIES AllAnswered UnmountEndsLoop
CHECK_DEADLOCK FALSE
