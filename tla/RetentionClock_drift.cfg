\* The wall clock is set by small steps and by large jumps, both ways, around
\* samples, touches, cleanups and restarts.
SPECIFICATION RCSpec
CONSTANTS
  MinIdle = 3
  Idle = 4
  Drift = 1
  Jumps <- SmallAndLarge
  Horizon = 7
CHECK_DEADLOCK FALSE
INVARIANTS NotReclaimedEarly RestartPostpones
