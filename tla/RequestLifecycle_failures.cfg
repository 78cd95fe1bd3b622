\* Two requests that fit by number and not always by size.  No symmetry
\* because of the liveness property: leases are returned under the fairness
\* of timers, awaited calls and coroutines.
SPECIFICATION FairSpec
CONSTANTS
  Requests = {r1, r2}
  MaxConcurrent = 2
  Available = 5
  BaseCost = 2
  ReplayCosts = {2}
CHECK_DEADLOCK FALSE
INVARIANTS TypeOK ReplyIsPublished ResolvedWasDelivered IntentSettled LeaseCoversWork QuietAfterStop
PROPERTIES IntentDiscipline LeaseReturned
