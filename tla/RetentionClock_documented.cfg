\* The same without any allowance for the steps that pass unnoticed, which
\* the documentation does not make.
SPECIFICATION RCSpec
CONSTANTS
  MinIdle = 3
  Idle = 4
  Drift = 1
  Jumps <- SmallAndLarge
  Horizon = 7
CHECK_DEADLOCK FALSE
INVARIANT IdleWhenReclaimed
