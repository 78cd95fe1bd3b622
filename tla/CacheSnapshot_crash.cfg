\* A ledger and a place for its backup, neither directory older than the run; two copies.
SPECIFICATION Spec
CONSTANTS
  Absent = Absent
  Original = live
  Places = {live, bak}
  Settled = {}
  Secrets = {k1, k2}
  First = k1
  Relays = {r1}
  Admins = {a1, a2}
SYMMETRY Symmetry
CHECK_DEADLOCK FALSE
INVARIANT FinishedIsDurable
PROPERTY StartsAreSafe
