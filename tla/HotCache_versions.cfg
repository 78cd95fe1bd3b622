\* Three records, payloads of one and two units in a cache of two units, six
\* row versions: each record may be written, or one of them again and again.
SPECIFICATION Spec
CONSTANTS
  None = None
  small = small  touched = touched  large = large
  Ends = {e1, e2, e3}
  Observations = {o1}
  Payloads = {small, touched, large}
  Size <- SizeOf
  MemoryBytes = 2
  MaxVersion = 6
SYMMETRY Symmetry
CHECK_DEADLOCK FALSE
INVARIANTS TypeOK HitsAreCurrent
