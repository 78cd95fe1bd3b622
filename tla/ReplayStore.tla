----------------------------- MODULE ReplayStore -----------------------------
(***************************************************************************)
(* The durable ledger of the reasoning cache: ReplayStore and the SQLite   *)
(* tables it keeps.  Every public method is one synchronous SQLite         *)
(* transaction, so every action below is one method call; what interleaves *)
(* is the order of calls made by concurrent requests, and crashes between  *)
(* any two of them.                                                        *)
(*                                                                         *)
(* A "start" is the digest of the visible history a request is sent with,  *)
(* an "end" the digest of that history plus the assistant message that     *)
(* answered it.  Digests are taken to be collision free: an end determines *)
(* its start, and a start determines the ends its history runs through.    *)
(* Every ledger table is keyed by scope and digest; here a start belongs   *)
(* to one scope, so starts and ends are the scoped keys.                   *)
(***************************************************************************)
EXTENDS Naturals, Sequences, FiniteSets

CONSTANTS
  Scopes,        \* credential, model, caller and settings identities
  FenceGroups,   \* the sets of scopes one fence call can match
  Starts,        \* visible histories a request can be sent with
  Ends,          \* visible histories ending in an assistant message
  Payloads,      \* the output items behind an assistant message
  Ids,           \* intent ids, random UUIDs in the code
  Snapshots,     \* dated model names reported by the upstream
  ScopeOf,       \* the scope of each start
  StartOf,       \* the start of each end
  History,       \* the ends each start's history runs through
  CleanupBatch,  \* payloads one cleanup deletes at most
  MaxGeneration, \* bound: scopes are not fenced beyond this generation
  None           \* an absent row

Descriptor == [end : Ends, payload : Payloads]

Intent == [start      : Starts,
           generation : Nat \ {0},
           plan       : Seq(Descriptor),
           phase      : {"dispatch", "delivery"},
           outcome    : Descriptor]

Observation == [payload    : Payloads,
                plan       : Seq(Descriptor),
                generation : Nat \ {0},
                producer   : Ids,
                snapshot   : Snapshots,
                replayable : BOOLEAN]

(* An end lies beyond its start, never in the start's own history. *)
ASSUME KeyAssumption ==
  /\ ScopeOf \in [Starts -> Scopes]
  /\ StartOf \in [Ends -> Starts]
  /\ History \in [Starts -> SUBSET Ends]
  /\ \A e \in Ends : e \notin History[StartOf[e]]
  /\ \A s \in Starts : \A e \in History[s] : ScopeOf[StartOf[e]] = ScopeOf[s]
  /\ FenceGroups \subseteq SUBSET Scopes

ASSUME NoneAssumption ==
  /\ None \notin Intent
  /\ None \notin Observation
  /\ None \notin Snapshots

VARIABLES
  (* Durable: the tables and the files beside the database.                *)
  generation,    \* scopes.generation, 0 while the scope has no row
  last,          \* scopes.snapshot
  recent,        \* snapshots rows seen within the last 24 hours
  poisoned,      \* markers of kind start-poison
  conflicted,    \* markers of kind end-conflict
  intents,       \* intents
  observations,  \* observations
  payloads,      \* ends that have a payloads row
  deps,          \* dependencies, <<child, ancestor>>
  pins,          \* intent_dependencies, <<intent id, end>>
  gap,           \* metadata 'coverage-gap'
  blocked,       \* the guard byte
  (* In memory, or a fact about the file system and the clock.             *)
  mode,          \* the store's closed, failed and coverageGap flags
  reserve,       \* the safety reserve is fully allocated
  idle,          \* payloads last touched before the deletion cutoff
  (* History variables: what really happened upstream.                     *)
  minted,        \* ids ever handed out
  produced,      \* what every generation at a derived start answers with
  suspectEnds,   \* ends not observed since unobserved traffic in their scope
  suspectIds     \* intents that were open during such traffic

tables  == <<generation, last, recent, poisoned, conflicted, intents,
             observations, payloads, deps, pins>>
status  == <<gap, blocked, mode>>
history == <<minted, produced, suspectEnds, suspectIds>>
vars    == <<tables, status, reserve, idle, history>>

-----------------------------------------------------------------------------
(* Reading the ledger.                                                     *)

Open == {i \in Ids : intents[i] # None}

Known == {e \in Ends : observations[e] # None}

Scope(e) == ScopeOf[StartOf[e]]

EndsOf(plan) == {plan[k].end : k \in DOMAIN plan}

(* A record's prior plan followed by its own descriptor. *)
Lineage(e) ==
  Append(observations[e].plan, [end |-> e, payload |-> observations[e].payload])

(* walk without replay: every record of the lineage can be read, belongs   *)
(* to the same generation and has exactly the prefix before it as plan.    *)
Structural(e) ==
  /\ e \in payloads
  /\ \A k \in DOMAIN Lineage(e) :
       LET m == Lineage(e)[k].end
       IN  /\ m \in payloads
           /\ observations[m].generation = observations[e].generation
           /\ Lineage(m) = SubSeq(Lineage(e), 1, k)

NotCompeting(e) == FALSE

Competing(e) ==
  \E i \in Open : /\ intents[i].start = StartOf[e]
                  /\ i # observations[e].producer

MarkedEndOnly(e) == e \in conflicted

Marked(e) == StartOf[e] \in poisoned \/ e \in conflicted

Safe(e) ==
  /\ observations[e].replayable
  /\ observations[e].generation = generation[Scope(e)]
  /\ ~Marked(e)
  /\ ~Competing(e)

(* canReplay: the whole lineage is intact and every member of it is safe.  *)
CanReplay(e) == Structural(e) /\ \A m \in EndsOf(Lineage(e)) : Safe(m)

SnapshotAccepted(scope, snapshot) ==
  last[scope] \in {None, snapshot} \/ snapshot \in recent[scope]

-----------------------------------------------------------------------------
(* Shared pieces of the methods.                                           *)

Enabled == mode = "open"

(* A commit that hits a full disk or an I/O error gives up the reserve and *)
(* runs the whole transaction once more.                                   *)
Commit == reserve' \in {reserve, FALSE}

EnsuredWithoutRow(scope) == generation[scope]

(* The generation of the scope's row, which is inserted if there is none.  *)
Ensured(scope) == IF generation[scope] = 0 THEN 1 ELSE generation[scope]

EnsureRow(scope) ==
  generation' = [generation EXCEPT ![scope] = Ensured(scope)]

(* Deleting intents cascades to their pins. *)
DeleteIntents(ids) ==
  /\ intents' = [i \in Ids |-> IF i \in ids THEN None ELSE intents[i]]
  /\ pins' = {pin \in pins : pin[1] \notin ids}

StartsOf(ids) == {intents[i].start : i \in ids}

(* History: traffic in these scopes that no record of the ledger covers.   *)
Distrust(scopes) ==
  /\ suspectEnds' = suspectEnds \cup {e \in Ends : Scope(e) \in scopes}
  /\ suspectIds' =
       suspectIds \cup {i \in Open : ScopeOf[intents[i].start] \in scopes}

-----------------------------------------------------------------------------
(* Dispatch.                                                               *)

EnsureScope(scope) ==
  /\ Enabled
  /\ EnsureRow(scope)
  /\ Commit
  /\ UNCHANGED <<last, recent, poisoned, conflicted, intents, observations,
                 payloads, deps, pins, status, idle, history>>

(* touchVerified, and planning's touches: a structurally intact record and *)
(* its ancestors become recently used even if they cannot be replayed.     *)
TouchVerified(e) ==
  /\ Enabled
  /\ Structural(e)
  /\ idle' = idle \ EndsOf(Lineage(e))
  /\ Commit
  /\ UNCHANGED <<tables, status, history>>

(* begin commits the intent, then the request goes upstream with the plan. *)
(* What the upstream will answer is settled here and learnt later, if ever.*)
Begin(i, s, plan, answer) ==
  /\ Enabled
  /\ reserve
  /\ i \notin minted
  /\ StartOf[answer.end] = s
  /\ EnsureRow(ScopeOf[s])
  /\ intents' = [intents EXCEPT ![i] =
                   [start |-> s, generation |-> Ensured(ScopeOf[s]),
                    plan |-> plan, phase |-> "dispatch", outcome |-> answer]]
  /\ pins' = pins \cup {<<i, e>> : e \in EndsOf(plan)}
  /\ idle' = idle \ EndsOf(plan)
  /\ Commit
  /\ minted' = minted \cup {i}
  /\ produced' = produced \cup {answer}
  /\ UNCHANGED <<last, recent, poisoned, conflicted, observations, payloads,
                 deps, status, suspectEnds, suspectIds>>

BeginFresh(i, s, answer) == Begin(i, s, <<>>, answer)

BeginReplay(i, s, e, answer) ==
  /\ e \in Known
  /\ EndsOf(Lineage(e)) \subseteq History[s]
  /\ CanReplay(e)
  /\ SnapshotAccepted(ScopeOf[s], observations[e].snapshot)
  /\ Begin(i, s, Lineage(e), answer)

(* bypass: the position is poisoned before the request is forwarded        *)
(* without an intent.                                                      *)
Bypass(s, answer) ==
  /\ Enabled
  /\ StartOf[answer.end] = s
  /\ EnsureRow(ScopeOf[s])
  /\ poisoned' = poisoned \cup {s}
  /\ Commit
  /\ produced' = produced \cup {answer}
  /\ UNCHANGED <<last, recent, conflicted, intents, observations, payloads,
                 deps, pins, status, idle, minted, suspectEnds, suspectIds>>

-----------------------------------------------------------------------------
(* Observation, all cases of publishObservation.  Only a complete capture  *)
(* is observed, and that one always names its snapshot (the others are     *)
(* poisoned, see Poison).                                                  *)

Observing(i) ==
  /\ Enabled
  /\ i \in Open
  /\ intents[i].phase = "dispatch"

NoteSnapshot(scope, snapshot) ==
  /\ last' = [last EXCEPT ![scope] = snapshot]
  /\ recent' = [recent EXCEPT ![scope] = @ \cup {snapshot}]

Deliver(i) == intents' = [intents EXCEPT ![i].phase = "delivery"]

(* History: an end learnt from an intent of undisturbed times is good      *)
(* again, one learnt from an intent that unobserved traffic overlapped is  *)
(* not.                                                                    *)
Learn(i, e) ==
  /\ suspectEnds' = IF i \in suspectIds THEN suspectEnds \cup {e}
                                        ELSE suspectEnds \ {e}
  /\ UNCHANGED <<minted, produced, suspectIds>>

(* The envelope or the payload could not be identified. *)
ObserveUnknown(i, snapshot) ==
  /\ Observing(i)
  /\ NoteSnapshot(ScopeOf[intents[i].start], snapshot)
  /\ poisoned' = poisoned \cup {intents[i].start}
  /\ Deliver(i)
  /\ Commit
  /\ UNCHANGED <<generation, conflicted, observations, payloads, deps, pins,
                 status, idle, history>>

(* The end is already known with another payload or another provenance. *)
Differs(i, e) ==
  \/ observations[e].payload # intents[i].outcome.payload
  \/ observations[e].plan # intents[i].plan

NeverConflicts(i, e) == FALSE

Conflicts(i, e) == observations[e] # None /\ Differs(i, e)

OldTouches(e) == IF Structural(e) THEN EndsOf(Lineage(e)) ELSE {}

(* An output over the entry limit poisons the position and is still        *)
(* compared and recorded.                                                  *)
PoisonIf(oversized, s) ==
  poisoned' = IF oversized THEN poisoned \cup {s} ELSE poisoned

ObserveConflict(i, snapshot, oversized) ==
  LET e == intents[i].outcome.end
      s == intents[i].start
  IN  /\ Observing(i)
      /\ Conflicts(i, e)
      /\ NoteSnapshot(ScopeOf[s], snapshot)
      /\ PoisonIf(oversized, s)
      /\ Deliver(i)
      /\ conflicted' = conflicted \cup {e}
      /\ observations' = [observations EXCEPT ![e].replayable = FALSE]
      /\ idle' = idle \ OldTouches(e)
      /\ Commit
      /\ Learn(i, e)
      /\ UNCHANGED <<generation, payloads, deps, pins, status>>

(* Every record the intent replayed is still exactly what was dispatched   *)
(* and could still be replayed.                                            *)
ValidPlan(i) ==
  \A k \in DOMAIN intents[i].plan :
    LET m == intents[i].plan[k].end
    IN  /\ m \in payloads
        /\ Lineage(m) = SubSeq(intents[i].plan, 1, k)
        /\ CanReplay(m)

(* admit stands for the capture's verdict and the quota; the quota is      *)
(* refused while the reserve is not allocated.                             *)
Admissible(i, e, oversized, admit) ==
  /\ admit
  /\ ~oversized
  /\ ~Marked(e)
  /\ ValidPlan(i)
  /\ generation[Scope(e)] = intents[i].generation
  /\ reserve'

ObserveRecorded(i, snapshot, oversized, admit) ==
  LET e     == intents[i].outcome.end
      s     == intents[i].start
      plan  == intents[i].plan
      known == OldTouches(e)
      keep  == Admissible(i, e, oversized, admit)
  IN  /\ Observing(i)
      /\ ~Conflicts(i, e)
      /\ NoteSnapshot(ScopeOf[s], snapshot)
      /\ PoisonIf(oversized, s)
      /\ Deliver(i)
      /\ Commit
      /\ observations' = [observations EXCEPT ![e] =
           [payload |-> intents[i].outcome.payload, plan |-> plan,
            generation |-> intents[i].generation, producer |-> i,
            snapshot |-> snapshot, replayable |-> keep]]
      /\ IF keep
         THEN /\ payloads' = payloads \cup {e}
              /\ deps' = deps \cup ({e} \X EndsOf(plan))
              /\ pins' = pins \cup {<<i, e>>}
              /\ idle' = (idle \ known) \ (EndsOf(plan) \cup {e})
         ELSE /\ idle' = idle \ known
              /\ UNCHANGED <<payloads, deps, pins>>
      /\ Learn(i, e)
      /\ UNCHANGED <<generation, conflicted, status>>

-----------------------------------------------------------------------------
(* The end of an intent.                                                   *)

(* The only caller resolves an intent whose response finished, which is    *)
(* after its observation.                                                  *)
Resolve(i) ==
  /\ Enabled
  /\ i \in Open
  /\ intents[i].phase = "delivery"
  /\ DeleteIntents({i})
  /\ Commit
  /\ UNCHANGED <<generation, last, recent, poisoned, conflicted, observations,
                 payloads, deps, status, idle, history>>

(* poison for one intent; expire for all those whose deadline has passed.  *)
Poison(ids) ==
  /\ Enabled
  /\ ids # {} /\ ids \subseteq Open
  /\ poisoned' = poisoned \cup StartsOf(ids)
  /\ DeleteIntents(ids)
  /\ Commit
  /\ UNCHANGED <<generation, last, recent, conflicted, observations, payloads,
                 deps, status, idle, history>>

(* The upstream refused the request: every block it replayed is given up.  *)
RejectReplay(i) ==
  /\ Enabled
  /\ i \in Open
  /\ LET plan == EndsOf(intents[i].plan)
     IN  /\ conflicted' = conflicted \cup plan
         /\ observations' = [e \in Ends |->
              IF e \in plan \cap Known
              THEN [observations[e] EXCEPT !.replayable = FALSE]
              ELSE observations[e]]
  /\ Commit
  /\ UNCHANGED <<generation, last, recent, poisoned, intents, payloads, deps,
                 pins, status, idle, history>>

-----------------------------------------------------------------------------
(* Quarantine of what unobserved traffic may have duplicated.              *)

NotFenced(scopes) == generation

(* Only scopes with a row have a generation to advance. *)
Fenced(scopes) ==
  [s \in Scopes |-> IF s \in scopes /\ generation[s] > 0
                    THEN generation[s] + 1 ELSE generation[s]]

InScopes(scopes) == {i \in Open : ScopeOf[intents[i].start] \in scopes}

(* fence, then a request whose position cannot be derived goes upstream.   *)
Fence(scopes) ==
  /\ Enabled
  /\ \A s \in scopes : generation[s] < MaxGeneration
  /\ poisoned' = poisoned \cup StartsOf(InScopes(scopes))
  /\ generation' = Fenced(scopes)
  /\ Commit
  /\ Distrust(scopes)
  /\ UNCHANGED <<last, recent, conflicted, intents, observations, payloads,
                 deps, pins, status, idle, minted, produced>>

(* markCoverageGap, before the cache serves traffic disabled. *)
MarkCoverageGap ==
  /\ Enabled
  /\ \A s \in Scopes : generation[s] < MaxGeneration
  /\ gap' = TRUE
  /\ mode' = "disabled"
  /\ Commit
  /\ UNCHANGED <<tables, blocked, idle, history>>

(* External: a disabled relay forwards whatever it is asked. *)
ForwardUnobserved ==
  /\ mode = "disabled"
  /\ Distrust(Scopes)
  /\ UNCHANGED <<tables, status, reserve, idle, minted, produced>>

-----------------------------------------------------------------------------
(* Retention.                                                              *)

NeverPinned(e) == FALSE

Pinned(e) == \E i \in Ids : <<i, e>> \in pins

(* An unresolved intent at the payload's own position keeps it too. *)
Contested(e) == \E i \in Open : intents[i].start = StartOf[e]

IgnoresDependencies(ends) == TRUE

(* Nothing outside the set depends on a member of it. *)
ClosedUnderDependents(ends) ==
  \A dep \in deps : dep[2] \in ends => dep[1] \in ends

Deletable(ends) ==
  /\ ends \subseteq payloads \cap idle
  /\ \A e \in ends : ~Pinned(e) /\ ~Contested(e)
  /\ ClosedUnderDependents(ends)
  /\ Cardinality(ends) <= CleanupBatch

(* cleanup deletes payloads nothing depends on until none is left or the   *)
(* batch is full; a payload's own dependency rows go with it.              *)
Cleanup(ends) ==
  /\ Enabled
  /\ Deletable(ends)
  /\ \/ Cardinality(ends) = CleanupBatch
     \/ \A more \in SUBSET payloads :
          Deletable(more) => Cardinality(more) <= Cardinality(ends)
  /\ payloads' = payloads \ ends
  /\ deps' = {dep \in deps : dep[1] \notin ends}
  /\ idle' = idle \ ends
  /\ Commit
  /\ UNCHANGED <<generation, last, recent, poisoned, conflicted, intents,
                 observations, pins, status, history>>

(* External: time passes and the last touch falls behind the cutoff. *)
GrowIdle(e) ==
  /\ e \in payloads \ idle
  /\ idle' = idle \cup {e}
  /\ UNCHANGED <<tables, status, reserve, history>>

(* External: a day passes since the snapshot was seen. *)
ForgetSnapshot(scope, snapshot) ==
  /\ snapshot \in recent[scope]
  /\ recent' = [recent EXCEPT ![scope] = @ \ {snapshot}]
  /\ UNCHANGED <<generation, last, poisoned, conflicted, intents, observations,
                 payloads, deps, pins, status, reserve, idle, history>>

-----------------------------------------------------------------------------
(* Failure, crash and restart.                                             *)

(* The second attempt failed too.  The guard byte may not reach the disk.  *)
FailClosed ==
  /\ Enabled
  /\ mode' = "failed"
  /\ blocked' \in {TRUE, blocked}
  /\ reserve' \in {reserve, FALSE}
  /\ UNCHANGED <<tables, gap, idle, history>>

(* close, or a crash between two transactions. *)
Stop ==
  /\ mode # "down"
  /\ mode' = "down"
  /\ UNCHANGED <<tables, gap, blocked, reserve, idle, history>>

RecoversNothing(ids) == {}

Recovered(ids) == StartsOf(ids)

(* The constructor: recover the intents an earlier process left, use up a  *)
(* recorded gap, and try to allocate the reserve again.                    *)
Reopen ==
  /\ mode = "down"
  /\ ~blocked
  /\ poisoned' = poisoned \cup Recovered(Open)
  /\ DeleteIntents(Open)
  /\ generation' = IF gap THEN Fenced(Scopes) ELSE generation
  /\ gap' = FALSE
  /\ mode' = "open"
  /\ reserve' \in BOOLEAN
  /\ UNCHANGED <<last, recent, conflicted, observations, payloads, deps,
                 blocked, idle, history>>

(* The constructor's own transaction fails twice. *)
FailToReopen ==
  /\ mode = "down"
  /\ ~blocked
  /\ blocked' = TRUE
  /\ reserve' \in {reserve, FALSE}
  /\ UNCHANGED <<tables, gap, mode, idle, history>>

-----------------------------------------------------------------------------

Init ==
  /\ generation = [s \in Scopes |-> 0]
  /\ last = [s \in Scopes |-> None]
  /\ recent = [s \in Scopes |-> {}]
  /\ poisoned = {}
  /\ conflicted = {}
  /\ intents = [i \in Ids |-> None]
  /\ observations = [e \in Ends |-> None]
  /\ payloads = {}
  /\ deps = {}
  /\ pins = {}
  /\ gap = FALSE
  /\ blocked = FALSE
  /\ mode = "down"
  /\ reserve = FALSE
  /\ idle = {}
  /\ minted = {}
  /\ produced = {}
  /\ suspectEnds = {}
  /\ suspectIds = {}

Dispatch ==
  \/ \E scope \in Scopes : EnsureScope(scope)
  \/ \E e \in Known : TouchVerified(e)
  \/ \E i \in Ids, s \in Starts, answer \in Descriptor :
       \/ BeginFresh(i, s, answer)
       \/ \E e \in Known : BeginReplay(i, s, e, answer)
  \/ \E s \in Starts, answer \in Descriptor : Bypass(s, answer)

Observe ==
  \E i \in Open, snapshot \in Snapshots :
    \/ ObserveUnknown(i, snapshot)
    \/ \E oversized \in BOOLEAN :
         \/ ObserveConflict(i, snapshot, oversized)
         \/ \E admit \in BOOLEAN : ObserveRecorded(i, snapshot, oversized, admit)

Conclude ==
  \/ \E i \in Open : Resolve(i) \/ RejectReplay(i)
  \/ \E ids \in SUBSET Open : Poison(ids)

Quarantine ==
  \/ \E scopes \in FenceGroups : Fence(scopes)
  \/ MarkCoverageGap
  \/ ForwardUnobserved

Retain ==
  \/ \E ends \in SUBSET payloads : Cleanup(ends)
  \/ \E e \in Ends : GrowIdle(e)
  \/ \E scope \in Scopes, snapshot \in Snapshots : ForgetSnapshot(scope, snapshot)

Restart == FailClosed \/ Stop \/ Reopen \/ FailToReopen

Next == Dispatch \/ Observe \/ Conclude \/ Quarantine \/ Retain \/ Restart

Spec == Init /\ [][Next]_vars

-----------------------------------------------------------------------------
(* Properties.                                                             *)

(* Every table holds rows of its type, and the foreign keys and cascades   *)
(* hold: payloads belong to observations, dependencies to payloads, pins   *)
(* to open intents, idle marks to payloads (store-schema.ts).              *)
TypeOK ==
  /\ generation \in [Scopes -> Nat]
  /\ last \in [Scopes -> Snapshots \cup {None}]
  /\ recent \in [Scopes -> SUBSET Snapshots]
  /\ poisoned \subseteq Starts
  /\ conflicted \subseteq Ends
  /\ intents \in [Ids -> Intent \cup {None}]
  /\ observations \in [Ends -> Observation \cup {None}]
  /\ payloads \subseteq Known
  /\ deps \subseteq payloads \X Ends
  /\ pins \subseteq Open \X Ends
  /\ gap \in BOOLEAN /\ blocked \in BOOLEAN /\ reserve \in BOOLEAN
  /\ mode \in {"down", "open", "disabled", "failed"}
  /\ idle \subseteq payloads
  /\ minted \subseteq Ids
  /\ produced \subseteq Descriptor
  /\ suspectEnds \subseteq Ends
  /\ suspectIds \subseteq Ids

(* No generation is forgotten: whatever the upstream produced at a derived *)
(* start is covered, whether its request was observed, interrupted,        *)
(* crashed or never captured.  Either its position is poisoned, its end is *)
(* in conflict, the ledger knows that payload for that end, or its intent  *)
(* still waits to be observed.                                             *)
Covered(block) ==
  \/ StartOf[block.end] \in poisoned
  \/ block.end \in conflicted
  \/ /\ observations[block.end] # None
     /\ observations[block.end].payload = block.payload
  \/ \E i \in Open : /\ intents[i].phase = "dispatch"
                     /\ intents[i].outcome = block

NoGenerationForgotten == \A block \in produced : Covered(block)

(* What canReplay lets through is unique: for every record of a lineage    *)
(* that may be replayed now, the upstream never produced anything else     *)
(* behind the same visible message, in flight requests included.           *)
UniqueReplay ==
  mode = "open" =>
    \A e \in Known : CanReplay(e) =>
      \A block \in produced : block.end \in EndsOf(Lineage(e)) =>
        block.payload = observations[block.end].payload

(* Nothing learnt before traffic the ledger did not see (a fenced request, *)
(* a disabled relay) can be replayed after it, across restarts and for     *)
(* requests that were in flight meanwhile, unless it was observed anew.    *)
NoSuspectReplay ==
  mode = "open" =>
    \A e \in Known : CanReplay(e) => EndsOf(Lineage(e)) \cap suspectEnds = {}

(* A retained payload keeps its whole ancestry: cleanup never leaves a     *)
(* descendant whose prior plan can no longer be read.                      *)
LineageRetained ==
  \A e \in payloads : EndsOf(observations[e].plan) \subseteq payloads

(* While a request is in progress the payloads it replayed stay, so its    *)
(* own observation can still validate them.                                *)
InFlightPlanRetained ==
  \A i \in Open : EndsOf(intents[i].plan) \subseteq payloads

(* The evidence for an end is never lost or rewritten: no crash, cleanup   *)
(* or repeated observation replaces a known payload or its provenance, or  *)
(* lets a marked record become replayable again.                           *)
EvidenceKept ==
  [][\A e \in Known :
       /\ observations'[e] # None
       /\ observations'[e].payload = observations[e].payload
       /\ observations'[e].plan = observations[e].plan
       /\ Marked(e) /\ ~observations[e].replayable
            => ~observations'[e].replayable]_vars

-----------------------------------------------------------------------------
(* The inductive strengthening of the invariants above, used in proofs.    *)

(* Ids are handed out once, before anything else mentions them, and an     *)
(* intent is for the position its answer lies behind.                      *)
IntentFacts ==
  /\ suspectIds \subseteq minted
  /\ \A i \in Open :
       /\ i \in minted
       /\ intents[i].start = StartOf[intents[i].outcome.end]
       /\ intents[i].outcome \in produced
       /\ intents[i].generation <= generation[ScopeOf[intents[i].start]]

(* A record is of something the upstream really produced, and its producer *)
(* is done generating.                                                     *)
ObservationFacts ==
  \A e \in Known :
    /\ [end |-> e, payload |-> observations[e].payload] \in produced
    /\ observations[e].generation <= generation[Scope(e)]
    /\ observations[e].producer \in minted
    /\ observations[e].producer \in Open
         => intents[observations[e].producer].phase = "delivery"

(* Pins and dependencies say everything cleanup has to know. *)
PinFacts ==
  /\ \A i \in Open : \A e \in EndsOf(intents[i].plan) : <<i, e>> \in pins
  /\ \A pin \in pins : pin[2] \in payloads

DependencyFacts ==
  \A e \in payloads : \A a \in EndsOf(observations[e].plan) :
    a \in payloads /\ <<e, a>> \in deps

(* What is not trusted is of an older generation, in conflict, or left to  *)
(* the recorded gap, which an open store does not have.                    *)
SuspicionFacts ==
  /\ mode = "open" => ~gap
  /\ mode = "disabled" => gap
  /\ \A e \in Known \cap suspectEnds :
       gap \/ e \in conflicted \/ observations[e].generation < generation[Scope(e)]
  /\ \A i \in Open \cap suspectIds :
       gap \/ intents[i].generation < generation[ScopeOf[intents[i].start]]

IInv ==
  /\ TypeOK
  /\ IntentFacts
  /\ ObservationFacts
  /\ PinFacts
  /\ DependencyFacts
  /\ SuspicionFacts
  /\ NoGenerationForgotten

-----------------------------------------------------------------------------
(* Refinement.                                                             *)

ReplayedBlocks ==
  [i \in Ids |-> IF i \in Open
                THEN {intents[i].plan[k] : k \in DOMAIN intents[i].plan} ELSE {}]

Contract == INSTANCE ReplayContract WITH replayed <- ReplayedBlocks

(* The ledger implements the contract: at the moment of dispatch every     *)
(* replayed block is unambiguous and trusted.                              *)
ImplementsContract == Contract!Spec

=============================================================================
