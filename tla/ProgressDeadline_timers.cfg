\* Timers run up to two ticks early and up to three late, in any order with
\* progress, the end of the generation and disposal.
SPECIFICATION FairSpec
CONSTANTS
  IdleTimeout = 30
  DeliveryTimeout = 20
  Early = 2
  Late = 3
CHECK_DEADLOCK FALSE
INVARIANTS NeverEarly NeverForgotten
PROPERTIES DeliveryEnds
