SPECIFICATION Spec
CONSTANTS
  Invocations <- DamagedTexts
  BufSize = 4
INVARIANT IllFormedIsReplaced
CHECK_DEADLOCK FALSE
