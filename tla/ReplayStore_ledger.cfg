\* One scope, a conversation of two answered turns, two payloads, two requests;
\* fences and coverage gaps up to the second generation, races of the two
\* requests, failures, crashes and restarts included.
SPECIFICATION Spec
CONSTANTS
  None = None
  c1 = c1  s1 = s1  s2 = s2  e1 = e1  e2 = e2
  Scopes = {c1}
  FenceGroups <- WholeScopes
  Starts = {s1, s2}
  Ends = {e1, e2}
  Payloads = {p1, p2}
  Ids = {i1, i2}
  Snapshots = {m1}
  ScopeOf <- OneScope
  StartOf <- ChainStartOf
  History <- ChainHistory
  CleanupBatch = 1
  MaxGeneration = 2
SYMMETRY Symmetry
CHECK_DEADLOCK FALSE
INVARIANTS TypeOK NoGenerationForgotten UniqueReplay NoSuspectReplay LineageRetained InFlightPlanRetained
PROPERTIES ImplementsContract EvidenceKept
