SPECIFICATION Spec
CONSTANTS
  Invocations <- AllInvocations
  BufSize = 4
INVARIANTS RefusedByTheHelp NoFlagIgnored ReadsItsShare DamageIsLocal ExpandReadsBack
CHECK_DEADLOCK FALSE
