\* A stream of six frames, the last one terminal.
SPECIFICATION SWFairSpec
CONSTANT Frames = 6
CHECK_DEADLOCK FALSE
INVARIANTS SWTypeOK OneWriteAtATime
PROPERTIES NothingAfterTheEnd WriteSettles
