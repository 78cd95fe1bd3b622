-------------------------- MODULE ReplayStore_proofs --------------------------
(* Proofs about the ledger, for all scopes, histories, requests and answers. *)
EXTENDS ReplayStore, TLAPS

(* What a plan names are ends. *)
LEMMA EndsOfType ==
  ASSUME NEW plan \in Seq(Descriptor)
  PROVE  EndsOf(plan) \subseteq Ends
  <1>1. \A k \in DOMAIN plan : plan[k] \in Descriptor
    OBVIOUS
  <1>2. QED
    BY <1>1 DEF EndsOf, Descriptor

(* A sequence of descriptors that grows by one is one. *)
LEMMA LineageType ==
  ASSUME TypeOK, NEW e \in Known
  PROVE  /\ observations[e] \in Observation
         /\ Lineage(e) \in Seq(Descriptor)
         /\ EndsOf(Lineage(e)) \subseteq Ends
         /\ e \in Ends
  <1>1. observations[e] \in Observation /\ e \in Ends
    BY DEF TypeOK, Known
  <1>2. Lineage(e) \in Seq(Descriptor)
    BY <1>1 DEF Lineage, Observation, Descriptor
  <1>3. EndsOf(Lineage(e)) \subseteq Ends
    BY <1>2, EndsOfType
  <1>4. QED
    BY <1>1, <1>2, <1>3

LEMMA IntentType ==
  ASSUME TypeOK, NEW i \in Open
  PROVE  /\ intents[i] \in Intent
         /\ i \in Ids
         /\ EndsOf(intents[i].plan) \subseteq Ends
         /\ StartOf[intents[i].outcome.end] \in Starts
         /\ ScopeOf[intents[i].start] \in Scopes
  <1>1. intents[i] \in Intent /\ i \in Ids
    BY DEF TypeOK, Open
  <1>2. EndsOf(intents[i].plan) \subseteq Ends
    BY <1>1, EndsOfType DEF Intent
  <1>3. QED
    BY <1>1, <1>2, KeyAssumption DEF Intent, Descriptor

(* Deleting intents takes their pins with them and leaves the rest alone. *)
LEMMA DeleteType ==
  ASSUME TypeOK, NEW ids, DeleteIntents(ids)
  PROVE  /\ intents' \in [Ids -> Intent \cup {None}]
         /\ Open' = Open \ ids
         /\ pins' \subseteq Open' \X Ends
         /\ \A i \in Open' : intents'[i] = intents[i]
  BY DEF TypeOK, DeleteIntents, Open

-----------------------------------------------------------------------------
(* Type correctness.                                                       *)

LEMMA BeginType ==
  ASSUME TypeOK,
         NEW i \in Ids, NEW s \in Starts, NEW answer \in Descriptor,
         NEW plan \in Seq(Descriptor), EndsOf(plan) \subseteq Ends,
         Begin(i, s, plan, answer)
  PROVE  TypeOK' /\ i \in Open'
  <1>1. ScopeOf[s] \in Scopes
    BY KeyAssumption
  <1>2. generation' \in [Scopes -> Nat] /\ Ensured(ScopeOf[s]) \in Nat \ {0}
    BY <1>1 DEF TypeOK, Begin, EnsureRow, Ensured
  <1>3. intents' \in [Ids -> Intent \cup {None}]
    BY <1>2 DEF TypeOK, Begin, Intent
  <1>4. intents'[i] \in Intent
    BY <1>2 DEF TypeOK, Begin, Intent
  <1>5. Open' = Open \cup {i}
    BY <1>4, NoneAssumption DEF TypeOK, Begin, Open
  <1>6. pins' \subseteq Open' \X Ends
    BY <1>5 DEF TypeOK, Begin
  <1>7. Known' = Known /\ UNCHANGED <<payloads, deps>>
    BY DEF Begin, Known
  <1>8. idle' \subseteq payloads' /\ reserve' \in BOOLEAN
    BY DEF TypeOK, Begin, Commit
  <1>9. QED
    BY <1>2, <1>3, <1>5, <1>6, <1>7, <1>8 DEF TypeOK, Begin, status

(* What the cases of an observation have in common. *)
LEMMA ObserveType ==
  ASSUME TypeOK, NEW i \in Open, NEW snapshot \in Snapshots,
         NoteSnapshot(ScopeOf[intents[i].start], snapshot), Deliver(i)
  PROVE  /\ last' \in [Scopes -> Snapshots \cup {None}]
         /\ recent' \in [Scopes -> SUBSET Snapshots]
         /\ intents' \in [Ids -> Intent \cup {None}]
         /\ Open' = Open
         /\ intents'[i] = [intents[i] EXCEPT !.phase = "delivery"]
         /\ intents'[i] \in Intent
         /\ \A j \in Open : j # i => intents'[j] = intents[j]
  <1>1. intents[i] \in Intent /\ i \in Ids /\ ScopeOf[intents[i].start] \in Scopes
    BY IntentType
  <1>2. /\ last' \in [Scopes -> Snapshots \cup {None}]
        /\ recent' \in [Scopes -> SUBSET Snapshots]
    BY <1>1 DEF TypeOK, NoteSnapshot
  <1>3. [intents[i] EXCEPT !.phase = "delivery"] \in Intent
    BY <1>1 DEF Intent
  <1>4. intents' = [intents EXCEPT ![i] = [intents[i] EXCEPT !.phase = "delivery"]]
    BY DEF Deliver
  <1>5. intents' \in [Ids -> Intent \cup {None}]
    BY <1>3, <1>4 DEF TypeOK
  <1>6. /\ intents'[i] = [intents[i] EXCEPT !.phase = "delivery"]
        /\ \A j \in Ids : j # i => intents'[j] = intents[j]
    BY <1>1, <1>4 DEF TypeOK
  <1>7. Open' = Open
    BY <1>1, <1>3, <1>6, NoneAssumption DEF Open
  <1>8. QED
    BY <1>2, <1>3, <1>5, <1>6, <1>7 DEF Open

LEMMA FencedType ==
  ASSUME TypeOK, NEW scopes
  PROVE  /\ Fenced(scopes) \in [Scopes -> Nat]
         /\ \A s \in Scopes : generation[s] <= Fenced(scopes)[s]
  BY DEF TypeOK, Fenced

(* Setting a record's flag leaves the rest of it. *)
LEMMA FlagType ==
  ASSUME NEW record \in Observation
  PROVE  [record EXCEPT !.replayable = FALSE] \in Observation
  BY DEF Observation


(* The invariant of types is inductive by itself. *)
LEMMA TypeStep ==
  ASSUME TypeOK, Next
  PROVE  TypeOK'
  <1>1. ASSUME NEW scope \in Scopes, EnsureScope(scope)
        PROVE  TypeOK'
    BY <1>1 DEF TypeOK, EnsureScope, EnsureRow, Ensured, Commit, Known, Open,
                status, history
  <1>2. ASSUME NEW e \in Known, TouchVerified(e)
        PROVE  TypeOK'
    BY <1>2 DEF TypeOK, TouchVerified, Commit, Known, Open, tables, status, history
  <1>3. ASSUME NEW i \in Ids, NEW s \in Starts, NEW answer \in Descriptor,
               BeginFresh(i, s, answer)
        PROVE  TypeOK'
    <2>1. <<>> \in Seq(Descriptor)
      OBVIOUS
    <2>2. EndsOf(<<>>) \subseteq Ends
      BY <2>1, EndsOfType
    <2>3. QED
      BY <1>3, <2>1, <2>2, BeginType DEF BeginFresh
  <1>4. ASSUME NEW i \in Ids, NEW s \in Starts, NEW answer \in Descriptor,
               NEW e \in Known, BeginReplay(i, s, e, answer)
        PROVE  TypeOK'
    <2>1. Begin(i, s, Lineage(e), answer)
      BY <1>4 DEF BeginReplay
    <2>2. QED
      BY <2>1, LineageType, BeginType
  <1>5. ASSUME NEW s \in Starts, NEW answer \in Descriptor, Bypass(s, answer)
        PROVE  TypeOK'
    BY <1>5, KeyAssumption
    DEF TypeOK, Bypass, EnsureRow, Ensured, Commit, Known, Open, status
  <1>6. ASSUME NEW i \in Open, NEW snapshot \in Snapshots,
               ObserveUnknown(i, snapshot)
        PROVE  TypeOK'
    <2>1. NoteSnapshot(ScopeOf[intents[i].start], snapshot) /\ Deliver(i)
      BY <1>6 DEF ObserveUnknown
    <2>2. intents[i].start \in Starts
      BY IntentType DEF Intent
    <2>3. QED
      BY <1>6, <2>1, <2>2, ObserveType
      DEF TypeOK, ObserveUnknown, Commit, Known, status, history
  <1>7. ASSUME NEW i \in Open, NEW snapshot \in Snapshots,
               NEW oversized \in BOOLEAN, ObserveConflict(i, snapshot, oversized)
        PROVE  TypeOK'
    <2> DEFINE e == intents[i].outcome.end
    <2>1. NoteSnapshot(ScopeOf[intents[i].start], snapshot) /\ Deliver(i)
      BY <1>7 DEF ObserveConflict
    <2>2. intents[i].start \in Starts /\ e \in Ends
      BY IntentType DEF Intent, Descriptor
    <2>3. observations[e] \in Observation
      BY <1>7, <2>2 DEF ObserveConflict, Conflicts, TypeOK
    <2>4. observations' = [observations EXCEPT
                             ![e] = [observations[e] EXCEPT !.replayable = FALSE]]
      BY <1>7 DEF ObserveConflict
    <2>5. /\ observations' \in [Ends -> Observation \cup {None}]
          /\ Known' = Known
      BY <2>2, <2>3, <2>4, FlagType, NoneAssumption DEF TypeOK, Known
    <2>6. poisoned' \subseteq Starts /\ conflicted' \subseteq Ends
      BY <1>7, <2>2 DEF TypeOK, ObserveConflict, PoisonIf
    <2>7. suspectEnds' \subseteq Ends /\ UNCHANGED <<minted, produced, suspectIds>>
      BY <1>7, <2>2 DEF TypeOK, ObserveConflict, Learn
    <2>8. idle' \subseteq payloads' /\ reserve' \in BOOLEAN
      BY <1>7 DEF TypeOK, ObserveConflict, Commit
    <2>9. QED
      BY <1>7, <2>1, <2>5, <2>6, <2>7, <2>8, ObserveType
      DEF TypeOK, ObserveConflict, status
  <1>8. ASSUME NEW i \in Open, NEW snapshot \in Snapshots,
               NEW oversized \in BOOLEAN, NEW admit \in BOOLEAN,
               ObserveRecorded(i, snapshot, oversized, admit)
        PROVE  TypeOK'
    <2> DEFINE e == intents[i].outcome.end
               keep == Admissible(i, e, oversized, admit)
               record == [payload |-> intents[i].outcome.payload,
                          plan |-> intents[i].plan,
                          generation |-> intents[i].generation,
                          producer |-> i, snapshot |-> snapshot,
                          replayable |-> keep]
    <2>1. NoteSnapshot(ScopeOf[intents[i].start], snapshot) /\ Deliver(i)
      BY <1>8 DEF ObserveRecorded
    <2>2. /\ intents[i].start \in Starts /\ e \in Ends /\ i \in Ids
          /\ EndsOf(intents[i].plan) \subseteq Ends
      BY IntentType DEF Intent, Descriptor
    <2>3. observations' = [observations EXCEPT ![e] = record]
      BY <1>8 DEF ObserveRecorded
    <2>4. record \in Observation
      <3>1. intents[i] \in Intent
        BY IntentType
      <3>2. keep \in BOOLEAN
        BY DEF Admissible
      <3>3. QED
        BY <2>2, <3>1, <3>2 DEF Observation, Intent, Descriptor
    <2>5. /\ observations' \in [Ends -> Observation \cup {None}]
          /\ Known' = Known \cup {e}
      <3> HIDE DEF record, e
      <3>1. QED
        BY <2>2, <2>3, <2>4, NoneAssumption DEF TypeOK, Known
    <2>6. poisoned' \subseteq Starts /\ conflicted' \subseteq Ends
      BY <1>8, <2>2 DEF TypeOK, ObserveRecorded, PoisonIf
    <2>7. suspectEnds' \subseteq Ends /\ UNCHANGED <<minted, produced, suspectIds>>
      BY <1>8, <2>2 DEF TypeOK, ObserveRecorded, Learn
    <2>8. /\ payloads' \subseteq Known' /\ deps' \subseteq payloads' \X Ends
          /\ pins' \subseteq Open' \X Ends /\ idle' \subseteq payloads'
      <3>1. Open' = Open
        BY <2>1, ObserveType
      <3>2. CASE keep
        <4>1. /\ payloads' = payloads \cup {e}
              /\ deps' = deps \cup ({e} \X EndsOf(intents[i].plan))
              /\ pins' = pins \cup {<<i, e>>}
              /\ idle' \subseteq idle
          BY <1>8, <3>2 DEF ObserveRecorded
        <4>2. QED
          BY <2>2, <2>5, <3>1, <4>1 DEF TypeOK
      <3>3. CASE ~keep
        <4>1. UNCHANGED <<payloads, deps, pins>> /\ idle' \subseteq idle
          BY <1>8, <3>3 DEF ObserveRecorded
        <4>2. QED
          BY <2>5, <3>1, <4>1 DEF TypeOK
      <3>4. QED
        BY <3>2, <3>3
    <2>9. reserve' \in BOOLEAN
      BY <1>8 DEF TypeOK, ObserveRecorded, Commit
    <2>10. QED
      BY <1>8, <2>1, <2>5, <2>6, <2>7, <2>8, <2>9, ObserveType
      DEF TypeOK, ObserveRecorded, status
  <1>9. ASSUME NEW i \in Open, Resolve(i)
        PROVE  TypeOK'
    <2>1. DeleteIntents({i})
      BY <1>9 DEF Resolve
    <2>2. QED
      BY <1>9, <2>1, DeleteType DEF TypeOK, Resolve, Commit, Known, status, history
  <1>10. ASSUME NEW i \in Open, RejectReplay(i)
         PROVE  TypeOK'
    <2> DEFINE plan == EndsOf(intents[i].plan)
    <2>1. plan \subseteq Ends
      BY IntentType
    <2>2. \A e \in Ends :
            observations'[e] = IF e \in plan \cap Known
                               THEN [observations[e] EXCEPT !.replayable = FALSE]
                               ELSE observations[e]
      BY <1>10 DEF RejectReplay
    <2>3. \A e \in Ends : e \in Known <=> observations[e] \in Observation
      BY NoneAssumption DEF TypeOK, Known
    <2>4. ASSUME NEW e \in Ends
          PROVE  /\ observations'[e] \in Observation \cup {None}
                 /\ e \in Known <=> observations'[e] # None
      <3>1. CASE e \in plan \cap Known
        <4>1. [observations[e] EXCEPT !.replayable = FALSE] \in Observation
          BY <2>3, <3>1, FlagType
        <4>2. QED
          BY <2>2, <3>1, <4>1, NoneAssumption
      <3>2. CASE e \notin plan \cap Known
        BY <2>2, <3>2 DEF TypeOK, Known
      <3>3. QED
        BY <3>1, <3>2
    <2>5. observations' = [e \in Ends |-> observations'[e]]
      BY <1>10 DEF RejectReplay
    <2>6. observations' \in [Ends -> Observation \cup {None}] /\ Known' = Known
      BY <2>4, <2>5 DEF Known
    <2>7. QED
      BY <1>10, <2>1, <2>6
      DEF TypeOK, RejectReplay, Commit, Open, status, history
  <1>11. ASSUME NEW ids \in SUBSET Open, Poison(ids)
         PROVE  TypeOK'
    <2>1. DeleteIntents(ids)
      BY <1>11 DEF Poison
    <2>2. StartsOf(ids) \subseteq Starts
      BY IntentType DEF StartsOf, Intent
    <2>3. QED
      BY <1>11, <2>1, <2>2, DeleteType
      DEF TypeOK, Poison, Commit, Known, status, history
  <1>12. ASSUME NEW scopes \in FenceGroups, Fence(scopes)
         PROVE  TypeOK'
    <2>1. StartsOf(InScopes(scopes)) \subseteq Starts
      BY IntentType DEF StartsOf, InScopes, Intent
    <2>2. QED
      BY <1>12, <2>1, FencedType
      DEF TypeOK, Fence, Distrust, Commit, Known, Open, status
  <1>13. CASE MarkCoverageGap
    BY <1>13 DEF TypeOK, MarkCoverageGap, Commit, Known, Open, tables, history
  <1>14. CASE ForwardUnobserved
    BY <1>14 DEF TypeOK, ForwardUnobserved, Distrust, Known, Open, tables, status
  <1>15. ASSUME NEW ends \in SUBSET payloads, Cleanup(ends)
         PROVE  TypeOK'
    BY <1>15 DEF TypeOK, Cleanup, Commit, Known, Open, status, history
  <1>16. ASSUME NEW e \in Ends, GrowIdle(e)
         PROVE  TypeOK'
    BY <1>16 DEF TypeOK, GrowIdle, Known, Open, tables, status, history
  <1>17. ASSUME NEW scope \in Scopes, NEW snapshot \in Snapshots,
                ForgetSnapshot(scope, snapshot)
         PROVE  TypeOK'
    BY <1>17 DEF TypeOK, ForgetSnapshot, Known, Open, status, history
  <1>18. CASE FailClosed
    BY <1>18 DEF TypeOK, FailClosed, Known, Open, tables, history
  <1>19. CASE Stop
    BY <1>19 DEF TypeOK, Stop, Known, Open, tables, history
  <1>20. CASE Reopen
    <2>1. DeleteIntents(Open)
      BY <1>20 DEF Reopen
    <2>2. Recovered(Open) \subseteq Starts
      BY IntentType DEF Recovered, StartsOf, Intent
    <2>3. QED
      BY <1>20, <2>1, <2>2, DeleteType, FencedType
      DEF TypeOK, Reopen, Known, history
  <1>21. CASE FailToReopen
    BY <1>21 DEF TypeOK, FailToReopen, Known, Open, tables, history
  <1>22. QED
    BY <1>1, <1>2, <1>3, <1>4, <1>5, <1>6, <1>7, <1>8, <1>9, <1>10, <1>11,
       <1>12, <1>13, <1>14, <1>15, <1>16, <1>17, <1>18, <1>19, <1>20, <1>21
    DEF Next, Dispatch, Observe, Conclude, Quarantine, Retain, Restart

LEMMA TypeInit == Init => TypeOK
  <1> SUFFICES ASSUME Init PROVE TypeOK
    OBVIOUS
  <1>1. /\ intents \in [Ids -> Intent \cup {None}]
        /\ observations \in [Ends -> Observation \cup {None}]
    BY DEF Init
  <1>2. /\ generation \in [Scopes -> Nat]
        /\ last \in [Scopes -> Snapshots \cup {None}]
        /\ recent \in [Scopes -> SUBSET Snapshots]
    BY DEF Init
  <1>3. QED
    BY <1>1, <1>2 DEF Init, TypeOK

(* Every table holds rows of its type and the foreign keys hold, whatever  *)
(* the requests, answers, crashes and restarts.                            *)
THEOREM TypeCorrect == Spec => []TypeOK
  <1>1. TypeOK /\ UNCHANGED vars => TypeOK'
    BY DEF TypeOK, Known, Open, vars, tables, status, history
  <1>2. QED
    BY <1>1, TypeInit, TypeStep, PTL DEF Spec

-----------------------------------------------------------------------------
(* The writers of observations.                                            *)

(* Nothing of a record changes but its flag, which is never set again.     *)
RecordKept(e) ==
  /\ observations'[e].payload = observations[e].payload
  /\ observations'[e].plan = observations[e].plan
  /\ observations'[e].generation = observations[e].generation
  /\ observations'[e].producer = observations[e].producer
  /\ ~observations[e].replayable => ~observations'[e].replayable

RecordsKept == Known' = Known /\ \A e \in Known : RecordKept(e)

LEMMA ConflictKeeps ==
  ASSUME TypeOK, NEW i \in Open, NEW snapshot \in Snapshots,
         NEW oversized \in BOOLEAN, ObserveConflict(i, snapshot, oversized)
  PROVE  RecordsKept
  <1> DEFINE end == intents[i].outcome.end
  <1>1. end \in Ends
    BY IntentType DEF Intent, Descriptor
  <1>2. observations[end] \in Observation
    BY <1>1 DEF ObserveConflict, Conflicts, TypeOK
  <1>3. observations' = [observations EXCEPT
                           ![end] = [observations[end] EXCEPT !.replayable = FALSE]]
    BY DEF ObserveConflict
  <1>4. \A e \in Ends :
          observations'[e] = IF e = end
                             THEN [observations[end] EXCEPT !.replayable = FALSE]
                             ELSE observations[e]
    BY <1>1, <1>3 DEF TypeOK
  <1>5. Known' = Known
    BY <1>1, <1>2, <1>4, FlagType, NoneAssumption DEF Known
  <1>6. ASSUME NEW e \in Known
        PROVE  RecordKept(e)
    <2>1. e \in Ends
      BY DEF Known
    <2>2. CASE e = end
      BY <1>2, <1>4, <2>1, <2>2 DEF Observation, RecordKept
    <2>3. CASE e # end
      BY <1>4, <2>1, <2>3 DEF RecordKept
    <2>4. QED
      BY <2>2, <2>3
  <1>7. QED
    BY <1>5, <1>6 DEF RecordsKept

LEMMA RejectKeeps ==
  ASSUME TypeOK, NEW i \in Open, RejectReplay(i)
  PROVE  RecordsKept
  <1> DEFINE plan == EndsOf(intents[i].plan)
  <1>1. \A e \in Ends :
          observations'[e] = IF e \in plan \cap Known
                             THEN [observations[e] EXCEPT !.replayable = FALSE]
                             ELSE observations[e]
    BY DEF RejectReplay
  <1>2. ASSUME NEW e \in Known
        PROVE  e \in Known' /\ RecordKept(e)
    <2>1. e \in Ends /\ observations[e] \in Observation
      BY LineageType
    <2>2. CASE e \in plan
      <3>1. observations'[e] = [observations[e] EXCEPT !.replayable = FALSE]
        BY <1>1, <2>1, <2>2
      <3>2. observations'[e] \in Observation
        BY <2>1, <3>1, FlagType
      <3>3. QED
        BY <2>1, <3>1, <3>2, NoneAssumption DEF Known, Observation, RecordKept
    <2>3. CASE e \notin plan
      BY <1>1, <2>1, <2>3 DEF Known, RecordKept
    <2>4. QED
      BY <2>2, <2>3
  <1>3. Known' \subseteq Known
    BY <1>1 DEF Known
  <1>4. QED
    BY <1>2, <1>3 DEF RecordsKept

(* A recorded observation is of this intent, and of nothing that differs   *)
(* from what was known.                                                    *)
LEMMA RecordedKeeps ==
  ASSUME TypeOK, NEW i \in Open, NEW snapshot \in Snapshots,
         NEW oversized \in BOOLEAN, NEW admit \in BOOLEAN,
         ObserveRecorded(i, snapshot, oversized, admit)
  PROVE  LET end == intents[i].outcome.end
             keep == Admissible(i, end, oversized, admit)
         IN  /\ end \in Ends
             /\ Known' = Known \cup {end}
             /\ observations'[end].payload = intents[i].outcome.payload
             /\ observations'[end].plan = intents[i].plan
             /\ observations'[end].generation = intents[i].generation
             /\ observations'[end].producer = i
             /\ observations'[end].replayable = keep
             /\ \A e \in Ends \ {end} : observations'[e] = observations[e]
             /\ end \in Known => /\ observations[end].payload = intents[i].outcome.payload
                                 /\ observations[end].plan = intents[i].plan
  <1> DEFINE end == intents[i].outcome.end
             keep == Admissible(i, end, oversized, admit)
             record == [payload |-> intents[i].outcome.payload,
                        plan |-> intents[i].plan,
                        generation |-> intents[i].generation,
                        producer |-> i, snapshot |-> snapshot,
                        replayable |-> keep]
  <1>1. intents[i] \in Intent /\ i \in Ids
    BY IntentType
  <1>2. end \in Ends
    BY <1>1 DEF Intent, Descriptor
  <1>3. observations' = [observations EXCEPT ![end] = record]
    BY DEF ObserveRecorded
  <1>4. record \in Observation
    <2>1. keep \in BOOLEAN
      BY DEF Admissible
    <2>2. QED
      BY <1>1, <2>1 DEF Observation, Intent, Descriptor
  <1>5. /\ observations'[end] = record
        /\ \A e \in Ends \ {end} : observations'[e] = observations[e]
    <2> HIDE DEF record, end
    <2> QED
      BY <1>2, <1>3 DEF TypeOK
  <1>6. Known' = Known \cup {end}
    <2> HIDE DEF record, end
    <2> QED
      BY <1>2, <1>4, <1>5, NoneAssumption DEF Known
  <1>7. end \in Known => /\ observations[end].payload = intents[i].outcome.payload
                         /\ observations[end].plan = intents[i].plan
    BY DEF ObserveRecorded, Conflicts, Differs, Known
  <1>8. QED
    BY <1>2, <1>5, <1>6, <1>7

-----------------------------------------------------------------------------
(* Retention.                                                              *)

LEMMA DependencyStep ==
  ASSUME TypeOK, DependencyFacts, Next
  PROVE  DependencyFacts'
  <1>1. CASE UNCHANGED <<payloads, observations, deps>>
    BY <1>1 DEF DependencyFacts
  <1>2. CASE RecordsKept /\ UNCHANGED <<payloads, deps>>
    BY <1>2 DEF DependencyFacts, RecordsKept, RecordKept, TypeOK
  <1>3. ASSUME NEW i \in Open, NEW snapshot \in Snapshots,
               NEW oversized \in BOOLEAN, ObserveConflict(i, snapshot, oversized)
        PROVE  DependencyFacts'
    <2>1. RecordsKept /\ UNCHANGED <<payloads, deps>>
      BY <1>3, ConflictKeeps DEF ObserveConflict
    <2>2. QED
      BY <2>1, <1>2
  <1>4. ASSUME NEW i \in Open, RejectReplay(i)
        PROVE  DependencyFacts'
    <2>1. RecordsKept /\ UNCHANGED <<payloads, deps>>
      BY <1>4, RejectKeeps DEF RejectReplay
    <2>2. QED
      BY <2>1, <1>2
  <1>5. ASSUME NEW i \in Open, NEW snapshot \in Snapshots,
               NEW oversized \in BOOLEAN, NEW admit \in BOOLEAN,
               ObserveRecorded(i, snapshot, oversized, admit)
        PROVE  DependencyFacts'
    <2> DEFINE end == intents[i].outcome.end
               keep == Admissible(i, end, oversized, admit)
               plan == EndsOf(intents[i].plan)
    <2>1. ASSUME NEW e \in payloads
          PROVE  observations'[e].plan = observations[e].plan
      <3>1. e \in Known /\ e \in Ends
        BY DEF TypeOK, Known
      <3>2. CASE e = end
        BY <1>5, <3>1, <3>2, RecordedKeeps
      <3>3. CASE e # end
        BY <1>5, <3>1, <3>3, RecordedKeeps
      <3>4. QED
        BY <3>2, <3>3
    <2>2. CASE ~keep
      <3>1. UNCHANGED <<payloads, deps>>
        BY <1>5, <2>2 DEF ObserveRecorded
      <3>2. QED
        BY <2>1, <3>1 DEF DependencyFacts
    <2>3. CASE keep
      <3>1. /\ payloads' = payloads \cup {end}
            /\ deps' = deps \cup ({end} \X plan)
        BY <1>5, <2>3 DEF ObserveRecorded
      <3>2. plan \subseteq payloads
        BY <2>3 DEF Admissible, ValidPlan, EndsOf
      <3>3. observations'[end].plan = intents[i].plan
        BY <1>5, RecordedKeeps
      <3>4. \A a \in EndsOf(observations'[end].plan) :
              a \in payloads' /\ <<end, a>> \in deps'
        BY <3>1, <3>2, <3>3
      <3>5. \A e \in payloads : \A a \in EndsOf(observations'[e].plan) :
              a \in payloads' /\ <<e, a>> \in deps'
        BY <2>1, <3>1 DEF DependencyFacts
      <3>6. QED
        BY <3>1, <3>4, <3>5 DEF DependencyFacts
    <2>4. QED
      BY <2>2, <2>3
  <1>6. ASSUME NEW ends \in SUBSET payloads, Cleanup(ends)
        PROVE  DependencyFacts'
    <2>1. /\ payloads' = payloads \ ends
          /\ deps' = {dep \in deps : dep[1] \notin ends}
          /\ UNCHANGED observations
          /\ \A dep \in deps : dep[2] \in ends => dep[1] \in ends
      BY <1>6 DEF Cleanup, Deletable, ClosedUnderDependents
    <2>2. ASSUME NEW e \in payloads', NEW a \in EndsOf(observations[e].plan)
          PROVE  a \in payloads' /\ <<e, a>> \in deps'
      <3>1. a \in payloads /\ <<e, a>> \in deps /\ e \notin ends
        BY <2>1, <2>2 DEF DependencyFacts
      <3>2. <<e, a>>[1] = e /\ <<e, a>>[2] = a
        OBVIOUS
      <3>3. QED
        BY <2>1, <3>1, <3>2
    <2>3. QED
      BY <2>1, <2>2 DEF DependencyFacts
  <1>7. CASE Dispatch
    BY <1>1, <1>7
    DEF Dispatch, EnsureScope, TouchVerified, BeginFresh, BeginReplay, Begin,
        Bypass, tables
  <1>8. CASE Observe
    BY <1>1, <1>3, <1>5, <1>8
    DEF Observe, ObserveUnknown, tables
  <1>9. CASE Conclude
    BY <1>1, <1>4, <1>9
    DEF Conclude, Resolve, Poison, tables
  <1>10. CASE Quarantine
    BY <1>1, <1>10
    DEF Quarantine, Fence, MarkCoverageGap, ForwardUnobserved, tables
  <1>11. CASE Retain
    BY <1>1, <1>6, <1>11
    DEF Retain, GrowIdle, ForgetSnapshot, tables
  <1>12. CASE Restart
    BY <1>1, <1>12
    DEF Restart, FailClosed, Stop, Reopen, FailToReopen, tables
  <1>13. QED
    BY <1>7, <1>8, <1>9, <1>10, <1>11, <1>12 DEF Next

LEMMA PinStep ==
  ASSUME TypeOK, PinFacts, Next
  PROVE  PinFacts'
  <1>1. CASE UNCHANGED <<payloads, intents, pins>>
    BY <1>1 DEF PinFacts, Open
  <1>2. ASSUME NEW ids, DeleteIntents(ids), UNCHANGED payloads
        PROVE  PinFacts'
    <2>1. \A i \in Open' : i \in Open /\ i \notin ids /\ intents'[i] = intents[i]
      BY <1>2, DeleteType
    <2>2. \A i \in Open' : \A e \in EndsOf(intents'[i].plan) : <<i, e>> \in pins'
      BY <1>2, <2>1 DEF PinFacts, DeleteIntents
    <2>3. QED
      BY <1>2, <2>2 DEF PinFacts, DeleteIntents
  <1>3. ASSUME NEW i \in Ids, NEW s \in Starts, NEW answer \in Descriptor,
               NEW plan \in Seq(Descriptor), EndsOf(plan) \subseteq payloads,
               Begin(i, s, plan, answer)
        PROVE  PinFacts'
    <2>1. /\ \A j \in Open' : j # i => j \in Open /\ intents'[j] = intents[j]
          /\ intents'[i].plan = plan
          /\ pins' = pins \cup {<<i, e>> : e \in EndsOf(plan)}
          /\ UNCHANGED payloads
      BY <1>3 DEF Begin, TypeOK, Open
    <2>2. ASSUME NEW j \in Open', NEW e \in EndsOf(intents'[j].plan)
          PROVE  <<j, e>> \in pins'
      BY <2>1 DEF PinFacts
    <2>3. \A pin \in pins' : pin[2] \in payloads'
      BY <1>3, <2>1 DEF PinFacts
    <2>4. QED
      BY <2>2, <2>3 DEF PinFacts
  <1>4. ASSUME NEW i \in Ids, NEW s \in Starts, NEW answer \in Descriptor,
               BeginFresh(i, s, answer)
        PROVE  PinFacts'
    <2>1. <<>> \in Seq(Descriptor)
      OBVIOUS
    <2>2. EndsOf(<<>>) \subseteq payloads
      BY DEF EndsOf
    <2>3. QED
      BY <1>3, <1>4, <2>1, <2>2 DEF BeginFresh
  <1>5. ASSUME NEW i \in Ids, NEW s \in Starts, NEW answer \in Descriptor,
               NEW e \in Known, BeginReplay(i, s, e, answer)
        PROVE  PinFacts'
    <2>1. EndsOf(Lineage(e)) \subseteq payloads /\ Begin(i, s, Lineage(e), answer)
      BY <1>5 DEF BeginReplay, CanReplay, Structural, EndsOf
    <2>2. QED
      BY <1>3, <2>1, LineageType
  <1>6. ASSUME NEW i \in Open, NEW snapshot \in Snapshots,
               NoteSnapshot(ScopeOf[intents[i].start], snapshot), Deliver(i),
               NEW e \in Ends,
               \/ UNCHANGED <<payloads, pins>>
               \/ payloads' = payloads \cup {e} /\ pins' = pins \cup {<<i, e>>}
        PROVE  PinFacts'
    <2>1. /\ Open' = Open
          /\ \A j \in Open : intents'[j].plan = intents[j].plan
      <3>1. /\ Open' = Open
            /\ intents'[i] = [intents[i] EXCEPT !.phase = "delivery"]
            /\ \A j \in Open : j # i => intents'[j] = intents[j]
        BY <1>6, ObserveType
      <3>2. intents'[i].plan = intents[i].plan
        BY <3>1, IntentType DEF Intent
      <3>3. QED
        BY <3>1, <3>2
    <2>2. QED
      BY <1>6, <2>1 DEF PinFacts
  <1>7. ASSUME NEW i \in Open, NEW snapshot \in Snapshots
        PROVE  /\ ObserveUnknown(i, snapshot) => PinFacts'
               /\ \A oversized \in BOOLEAN :
                    /\ ObserveConflict(i, snapshot, oversized) => PinFacts'
                    /\ \A admit \in BOOLEAN :
                         ObserveRecorded(i, snapshot, oversized, admit) => PinFacts'
    <2>1. intents[i].outcome.end \in Ends
      BY IntentType DEF Intent, Descriptor
    <2>2. QED
      BY <1>6, <2>1 DEF ObserveUnknown, ObserveConflict, ObserveRecorded
  <1>8. ASSUME NEW ends \in SUBSET payloads, Cleanup(ends)
        PROVE  PinFacts'
    <2>1. /\ payloads' = payloads \ ends /\ UNCHANGED <<intents, pins>>
          /\ \A e \in ends : ~Pinned(e)
      BY <1>8 DEF Cleanup, Deletable
    <2>2. ASSUME NEW pin \in pins
          PROVE  pin[2] \notin ends
      <3>1. pin = <<pin[1], pin[2]>> /\ pin[1] \in Ids
        BY DEF TypeOK, Open
      <3>2. QED
        BY <2>1, <3>1 DEF Pinned
    <2>3. QED
      BY <2>1, <2>2 DEF PinFacts, Open
  <1>9. CASE Dispatch
    BY <1>1, <1>4, <1>5, <1>9
    DEF Dispatch, EnsureScope, TouchVerified, Bypass, tables
  <1>10. CASE Observe
    BY <1>7, <1>10
    DEF Observe, tables
  <1>11. CASE Conclude
    BY <1>1, <1>2, <1>11
    DEF Conclude, Resolve, RejectReplay, Poison, tables
  <1>12. CASE Quarantine
    BY <1>1, <1>12
    DEF Quarantine, Fence, MarkCoverageGap, ForwardUnobserved, tables
  <1>13. CASE Retain
    BY <1>1, <1>8, <1>13
    DEF Retain, GrowIdle, ForgetSnapshot, tables
  <1>14. CASE Restart
    BY <1>1, <1>2, <1>14
    DEF Restart, FailClosed, Stop, Reopen, FailToReopen, tables
  <1>15. QED
    BY <1>9, <1>10, <1>11, <1>12, <1>13, <1>14 DEF Next

-----------------------------------------------------------------------------
(* What one step can do to generations, intents and records.               *)

(* What no kind of observation touches or takes back. *)
LEMMA ObservationLeaves ==
  ASSUME Observe
  PROVE  /\ UNCHANGED generation /\ UNCHANGED status
         /\ UNCHANGED minted /\ UNCHANGED produced /\ UNCHANGED suspectIds
         /\ poisoned \subseteq poisoned' /\ conflicted \subseteq conflicted'
  <1> DEFINE Leaves ==
        /\ UNCHANGED generation /\ UNCHANGED status
        /\ UNCHANGED minted /\ UNCHANGED produced /\ UNCHANGED suspectIds
        /\ poisoned \subseteq poisoned' /\ conflicted \subseteq conflicted'
  <1>1. ASSUME NEW i \in Open, NEW snapshot \in Snapshots,
               ObserveUnknown(i, snapshot)
        PROVE  Leaves
    BY <1>1 DEF ObserveUnknown, history
  <1>2. ASSUME NEW i \in Open, NEW snapshot \in Snapshots,
               NEW oversized \in BOOLEAN, ObserveConflict(i, snapshot, oversized)
        PROVE  Leaves
    <2>1. /\ UNCHANGED <<generation, payloads, deps, pins, status>>
          /\ PoisonIf(oversized, intents[i].start)
          /\ Learn(i, intents[i].outcome.end)
          /\ conflicted \subseteq conflicted'
      BY <1>2 DEF ObserveConflict
    <2>2. QED
      BY <2>1 DEF Learn, PoisonIf
  <1>3. ASSUME NEW i \in Open, NEW snapshot \in Snapshots,
               NEW oversized \in BOOLEAN, NEW admit \in BOOLEAN,
               ObserveRecorded(i, snapshot, oversized, admit)
        PROVE  Leaves
    <2>1. /\ UNCHANGED <<generation, conflicted, status>>
          /\ PoisonIf(oversized, intents[i].start)
          /\ Learn(i, intents[i].outcome.end)
      BY <1>3 DEF ObserveRecorded
    <2>2. QED
      BY <2>1 DEF Learn, PoisonIf
  <1>4. Leaves
    BY <1>1, <1>2, <1>3 DEF Observe
  <1>5. QED
    BY <1>4

(* Marks and generations only ever grow. *)
LEMMA NothingForgotten ==
  ASSUME TypeOK, Next
  PROVE  /\ minted \subseteq minted' /\ produced \subseteq produced'
         /\ poisoned \subseteq poisoned' /\ conflicted \subseteq conflicted'
         /\ \A s \in Scopes : generation[s] <= generation'[s]
  <1>1. UNCHANGED generation => \A s \in Scopes : generation[s] <= generation'[s]
    BY DEF TypeOK
  <1>2. ASSUME NEW scope \in Scopes, EnsureRow(scope)
        PROVE  \A s \in Scopes : generation[s] <= generation'[s]
    BY <1>2 DEF TypeOK, EnsureRow, Ensured
  <1>3. \A s \in Starts : ScopeOf[s] \in Scopes
    BY KeyAssumption
  <1>4. CASE Dispatch
    BY <1>1, <1>2, <1>3, <1>4
    DEF Dispatch, EnsureScope, TouchVerified, BeginFresh, BeginReplay, Begin,
        Bypass, tables, history
  <1>5. CASE Observe
    BY <1>1, <1>5, ObservationLeaves
  <1>6. CASE Conclude
    BY <1>1, <1>6 DEF Conclude, Resolve, RejectReplay, Poison, history
  <1>7. CASE Quarantine
    BY <1>1, <1>7, FencedType
    DEF Quarantine, Fence, MarkCoverageGap, ForwardUnobserved, Distrust, tables,
        history
  <1>8. CASE Retain
    BY <1>1, <1>8 DEF Retain, Cleanup, GrowIdle, ForgetSnapshot, tables, history
  <1>9. CASE Restart
    BY <1>1, <1>9, FencedType
    DEF Restart, FailClosed, Stop, Reopen, FailToReopen, tables, history
  <1>10. QED
    BY <1>4, <1>5, <1>6, <1>7, <1>8, <1>9 DEF Next

(* An intent that is open after a step was open before, or was just begun  *)
(* under an id nothing knows yet.                                          *)
Carried(i) ==
  /\ i \in Open
  /\ intents'[i].start = intents[i].start
  /\ intents'[i].generation = intents[i].generation
  /\ intents'[i].plan = intents[i].plan
  /\ intents'[i].outcome = intents[i].outcome
  /\ intents[i].phase = "delivery" => intents'[i].phase = "delivery"

Begun(i) ==
  /\ i \notin minted /\ i \in minted'
  /\ intents'[i].start = StartOf[intents'[i].outcome.end]
  /\ intents'[i].outcome \in produced'
  /\ intents'[i].generation = generation'[ScopeOf[intents'[i].start]]
  /\ UNCHANGED <<observations, suspectIds>>

LEMMA BeginBegins ==
  ASSUME TypeOK, NEW i \in Ids, NEW s \in Starts, NEW answer \in Descriptor,
         NEW plan, Begin(i, s, plan, answer)
  PROVE  \A j \in Open' : Carried(j) \/ Begun(j)
  <1>1. /\ intents'[i] = [start |-> s, generation |-> Ensured(ScopeOf[s]),
                         plan |-> plan, phase |-> "dispatch", outcome |-> answer]
        /\ \A j \in Ids \ {i} : intents'[j] = intents[j]
    BY DEF Begin, TypeOK
  <1>2. Begun(i)
    <2>1. generation'[ScopeOf[s]] = Ensured(ScopeOf[s])
      BY KeyAssumption DEF Begin, EnsureRow, TypeOK
    <2>2. QED
      BY <1>1, <2>1 DEF Begun, Begin
  <1>3. \A j \in Open' \ {i} : Carried(j)
    BY <1>1 DEF Open, Carried
  <1>4. QED
    BY <1>2, <1>3

LEMMA DeliverCarries ==
  ASSUME TypeOK, NEW i \in Open, NEW snapshot \in Snapshots,
         NoteSnapshot(ScopeOf[intents[i].start], snapshot), Deliver(i)
  PROVE  (\A j \in Open' : Carried(j)) /\ intents'[i].phase = "delivery"
  <1>1. /\ Open' = Open
        /\ intents'[i] = [intents[i] EXCEPT !.phase = "delivery"]
        /\ \A j \in Open : j # i => intents'[j] = intents[j]
    BY ObserveType
  <1>2. intents[i] \in Intent
    BY IntentType
  <1>3. Carried(i) /\ intents'[i].phase = "delivery"
    BY <1>1, <1>2 DEF Carried, Intent
  <1>4. QED
    BY <1>1, <1>3 DEF Carried

LEMMA IntentsChange ==
  ASSUME TypeOK, Next
  PROVE  \A i \in Open' : Carried(i) \/ Begun(i)
  <1>1. CASE UNCHANGED intents
    BY <1>1 DEF Carried, Open
  <1>2. ASSUME NEW ids, DeleteIntents(ids)
        PROVE  \A i \in Open' : Carried(i)
    BY <1>2, DeleteType DEF Carried
  <1>3. ASSUME NEW i \in Open, NEW snapshot \in Snapshots
        PROVE  /\ ObserveUnknown(i, snapshot) => \A j \in Open' : Carried(j)
               /\ \A oversized \in BOOLEAN :
                    /\ ObserveConflict(i, snapshot, oversized)
                         => \A j \in Open' : Carried(j)
                    /\ \A admit \in BOOLEAN :
                         ObserveRecorded(i, snapshot, oversized, admit)
                           => \A j \in Open' : Carried(j)
    BY DeliverCarries DEF ObserveUnknown, ObserveConflict, ObserveRecorded
  <1>4. CASE Dispatch
    BY <1>1, BeginBegins, <1>4
    DEF Dispatch, EnsureScope, TouchVerified, BeginFresh, BeginReplay, Bypass,
        tables
  <1>5. CASE Observe
    BY <1>3, <1>5
    DEF Observe, tables
  <1>6. CASE Conclude
    BY <1>1, <1>2, <1>6
    DEF Conclude, Resolve, RejectReplay, Poison, tables
  <1>7. CASE Quarantine
    BY <1>1, <1>7
    DEF Quarantine, Fence, MarkCoverageGap, ForwardUnobserved, tables
  <1>8. CASE Retain
    BY <1>1, <1>8
    DEF Retain, Cleanup, GrowIdle, ForgetSnapshot, tables
  <1>9. CASE Restart
    BY <1>1, <1>2, <1>9
    DEF Restart, FailClosed, Stop, Reopen, FailToReopen, tables
  <1>10. QED
    BY <1>4, <1>5, <1>6, <1>7, <1>8, <1>9 DEF Next

(* A record known after a step was known before and kept, or was recorded  *)
(* for an intent that ends generating with this step.                      *)
RecordedFor(e, i) ==
  /\ i \in Open /\ intents[i].phase = "dispatch"
  /\ e = intents[i].outcome.end
  /\ observations'[e].payload = intents[i].outcome.payload
  /\ observations'[e].plan = intents[i].plan
  /\ observations'[e].generation = intents[i].generation
  /\ observations'[e].producer = i
  /\ e \in Known => /\ observations[e].payload = observations'[e].payload
                    /\ observations[e].plan = observations'[e].plan
                    /\ Marked(e) => ~observations'[e].replayable
  /\ intents'[i].phase = "delivery"
  /\ UNCHANGED <<generation, gap, suspectIds>>
  /\ i \notin suspectIds => e \notin suspectEnds'

LEMMA RecordedIsFor ==
  ASSUME TypeOK, NEW i \in Open, NEW snapshot \in Snapshots,
         NEW oversized \in BOOLEAN, NEW admit \in BOOLEAN,
         ObserveRecorded(i, snapshot, oversized, admit)
  PROVE  RecordedFor(intents[i].outcome.end, i)
  <1> DEFINE end == intents[i].outcome.end
             keep == Admissible(i, end, oversized, admit)
  <1>1. /\ observations'[end].payload = intents[i].outcome.payload
        /\ observations'[end].plan = intents[i].plan
        /\ observations'[end].generation = intents[i].generation
        /\ observations'[end].producer = i
        /\ observations'[end].replayable = keep
        /\ end \in Known => /\ observations[end].payload = intents[i].outcome.payload
                            /\ observations[end].plan = intents[i].plan
    BY RecordedKeeps
  <1>2. Marked(end) => ~keep
    BY DEF Admissible
  <1>3. intents'[i].phase = "delivery"
    BY DeliverCarries DEF ObserveRecorded
  <1>4. /\ intents[i].phase = "dispatch"
        /\ UNCHANGED <<generation, gap, suspectIds>>
        /\ i \notin suspectIds => end \notin suspectEnds'
    BY DEF ObserveRecorded, Observing, Learn, status
  <1>5. QED
    BY <1>1, <1>2, <1>3, <1>4 DEF RecordedFor

LEMMA RecordsChange ==
  ASSUME TypeOK, Next
  PROVE  /\ Known \subseteq Known'
         /\ \A e \in Known' : \/ e \in Known /\ RecordKept(e)
                              \/ \E i \in Open : RecordedFor(e, i)
  <1> DEFINE Changed == /\ Known \subseteq Known'
                        /\ \A e \in Known' : \/ e \in Known /\ RecordKept(e)
                                             \/ \E i \in Open : RecordedFor(e, i)
  <1>1. CASE UNCHANGED observations
    BY <1>1 DEF RecordKept, Known
  <1>2. ASSUME NEW i \in Open, NEW snapshot \in Snapshots,
               NEW oversized \in BOOLEAN, ObserveConflict(i, snapshot, oversized)
        PROVE  Changed
    BY <1>2, ConflictKeeps DEF RecordsKept
  <1>3. ASSUME NEW i \in Open, RejectReplay(i)
        PROVE  Changed
    BY <1>3, RejectKeeps DEF RecordsKept
  <1>4. ASSUME NEW i \in Open, NEW snapshot \in Snapshots,
               NEW oversized \in BOOLEAN, NEW admit \in BOOLEAN,
               ObserveRecorded(i, snapshot, oversized, admit)
        PROVE  Changed
    <2> DEFINE end == intents[i].outcome.end
    <2>1. /\ end \in Ends /\ Known' = Known \cup {end}
          /\ \A e \in Ends \ {end} : observations'[e] = observations[e]
      BY <1>4, RecordedKeeps
    <2>2. \A e \in Known \ {end} : RecordKept(e)
      BY <2>1 DEF Known, RecordKept
    <2>3. RecordedFor(end, i)
      BY <1>4, RecordedIsFor
    <2>4. QED
      BY <2>1, <2>2, <2>3
  <1>5. CASE Dispatch
    BY <1>1, <1>5
    DEF Dispatch, EnsureScope, TouchVerified, BeginFresh, BeginReplay, Begin,
        Bypass, tables
  <1>6. CASE Observe
    BY <1>1, <1>2, <1>4, <1>6
    DEF Observe, ObserveUnknown, tables
  <1>7. CASE Conclude
    BY <1>1, <1>3, <1>7
    DEF Conclude, Resolve, Poison, tables
  <1>8. CASE Quarantine
    BY <1>1, <1>8
    DEF Quarantine, Fence, MarkCoverageGap, ForwardUnobserved, tables
  <1>9. CASE Retain
    BY <1>1, <1>9
    DEF Retain, Cleanup, GrowIdle, ForgetSnapshot, tables
  <1>10. CASE Restart
    BY <1>1, <1>10
    DEF Restart, FailClosed, Stop, Reopen, FailToReopen, tables
  <1>11. Changed
    BY <1>5, <1>6, <1>7, <1>8, <1>9, <1>10 DEF Next
  <1>12. QED
    BY <1>11

-----------------------------------------------------------------------------
(* Intents, records and the generations nobody may forget.                 *)

LEMMA IntentStep ==
  ASSUME TypeOK, IntentFacts, Next
  PROVE  IntentFacts'
  <1>1. suspectIds' \subseteq minted'
    <2>1. suspectIds' \subseteq suspectIds \cup Open
      <3>1. CASE Dispatch
        BY <3>1 DEF Dispatch, EnsureScope, TouchVerified, BeginFresh,
                    BeginReplay, Begin, Bypass, history
      <3>2. CASE Observe
        BY <3>2, ObservationLeaves
      <3>3. CASE Conclude
        BY <3>3 DEF Conclude, Resolve, RejectReplay, Poison, history
      <3>4. CASE Quarantine
        BY <3>4 DEF Quarantine, Fence, MarkCoverageGap, ForwardUnobserved,
                    Distrust, history
      <3>5. CASE Retain
        BY <3>5 DEF Retain, Cleanup, GrowIdle, ForgetSnapshot, history
      <3>6. CASE Restart
        BY <3>6 DEF Restart, FailClosed, Stop, Reopen, FailToReopen, history
      <3>7. QED
        BY <3>1, <3>2, <3>3, <3>4, <3>5, <3>6 DEF Next
    <2>2. QED
      BY <2>1, NothingForgotten DEF IntentFacts
  <1>2. ASSUME NEW i \in Open', Carried(i)
        PROVE  /\ i \in minted'
               /\ intents'[i].start = StartOf[intents'[i].outcome.end]
               /\ intents'[i].outcome \in produced'
               /\ intents'[i].generation <= generation'[ScopeOf[intents'[i].start]]
    <2>1. /\ ScopeOf[intents[i].start] \in Scopes
          /\ intents[i].generation \in Nat
      BY <1>2, IntentType DEF Carried, Intent
    <2>2. /\ generation[ScopeOf[intents[i].start]] \in Nat
          /\ generation'[ScopeOf[intents[i].start]] \in Nat
      BY <2>1, TypeStep DEF TypeOK
    <2>3. generation[ScopeOf[intents[i].start]] <= generation'[ScopeOf[intents[i].start]]
      BY <2>1, NothingForgotten
    <2>4. QED
      BY <1>2, <2>1, <2>2, <2>3, NothingForgotten DEF Carried, IntentFacts
  <1>3. ASSUME NEW i \in Open', Begun(i)
        PROVE  /\ i \in minted'
               /\ intents'[i].start = StartOf[intents'[i].outcome.end]
               /\ intents'[i].outcome \in produced'
               /\ intents'[i].generation <= generation'[ScopeOf[intents'[i].start]]
    <2>1. TypeOK'
      BY TypeStep
    <2>2. intents'[i] \in Intent
      BY <2>1 DEF TypeOK, Open
    <2>3. intents'[i].generation \in Nat
      BY <2>2 DEF Intent
    <2>4. \A n, m : n \in Nat /\ n = m => n <= m
      OBVIOUS
    <2>5. intents'[i].generation <= generation'[ScopeOf[intents'[i].start]]
      BY <1>3, <2>3, <2>4 DEF Begun
    <2>6. QED
      BY <1>3, <2>5 DEF Begun
  <1>4. QED
    BY <1>1, <1>2, <1>3, IntentsChange DEF IntentFacts

LEMMA ObservationStep ==
  ASSUME TypeOK, IntentFacts, ObservationFacts, Next
  PROVE  ObservationFacts'
  <1> DEFINE Good(e) ==
        /\ [end |-> e, payload |-> observations'[e].payload] \in produced'
        /\ observations'[e].generation <= generation'[Scope(e)]
        /\ observations'[e].producer \in minted'
        /\ observations'[e].producer \in Open'
             => intents'[observations'[e].producer].phase = "delivery"
  <1>1. ASSUME NEW e \in Known, RecordKept(e)
        PROVE  Good(e)
    <2>1. Scope(e) \in Scopes /\ observations[e].generation \in Nat
      BY LineageType, KeyAssumption DEF Scope, Observation
    <2>2. generation[Scope(e)] \in Nat /\ generation'[Scope(e)] \in Nat
      BY <2>1, TypeStep DEF TypeOK
    <2>3. observations'[e].generation <= generation'[Scope(e)]
      <3>1. observations'[e].generation = observations[e].generation
        BY <1>1 DEF RecordKept
      <3>2. observations[e].generation <= generation[Scope(e)]
        BY DEF ObservationFacts
      <3>3. generation[Scope(e)] <= generation'[Scope(e)]
        BY <2>1, NothingForgotten
      <3> HIDE DEF Good
      <3>4. QED
        BY <2>1, <2>2, <3>1, <3>2, <3>3
    <2>4. /\ [end |-> e, payload |-> observations'[e].payload] \in produced'
          /\ observations'[e].producer \in minted'
      BY <1>1, NothingForgotten DEF RecordKept, ObservationFacts
    <2>5. ASSUME observations'[e].producer \in Open'
          PROVE  intents'[observations'[e].producer].phase = "delivery"
      <3> DEFINE i == observations[e].producer
      <3>1. observations'[e].producer = i /\ i \in minted
        BY <1>1 DEF RecordKept, ObservationFacts
      <3>2. Carried(i)
        BY <2>5, <3>1, IntentsChange DEF Begun
      <3>3. QED
        BY <3>1, <3>2 DEF Carried, ObservationFacts
    <2>6. QED
      BY <2>3, <2>4, <2>5
  <1>2. ASSUME NEW e, NEW i \in Open, RecordedFor(e, i)
        PROVE  Good(e)
    <2>1. /\ i \in minted
          /\ intents[i].start = StartOf[e]
          /\ intents[i].outcome \in produced
          /\ intents[i].generation <= generation[Scope(e)]
      BY <1>2 DEF RecordedFor, IntentFacts, Scope
    <2>2. intents[i].outcome = [end |-> e, payload |-> intents[i].outcome.payload]
      BY <1>2, IntentType DEF RecordedFor, Intent, Descriptor
    <2>3. QED
      BY <1>2, <2>1, <2>2, NothingForgotten DEF RecordedFor
  <1>3. \A e \in Known' : Good(e)
    BY <1>1, <1>2, RecordsChange
  <1>4. QED
    BY <1>3 DEF ObservationFacts, Scope

(* Who waits to be observed still does after a step, or the step settled   *)
(* what its block is.                                                      *)
LEMMA WaitingStep ==
  ASSUME TypeOK, IntentFacts, Next,
         NEW i \in Open, intents[i].phase = "dispatch",
         NEW block, intents[i].outcome = block
  PROVE  Covered(block)'
  <1>1. /\ intents[i] \in Intent /\ i \in Ids /\ i \in minted
        /\ intents[i].start = StartOf[block.end]
        /\ block.end \in Ends
    BY IntentType DEF IntentFacts, Intent, Descriptor
  <1>2. CASE intents'[i] = intents[i]
    <2>1. i \in Open'
      BY <1>2 DEF Open
    <2>2. QED
      BY <1>2, <2>1 DEF Covered
  <1>3. CASE StartOf[block.end] \in poisoned'
    BY <1>3 DEF Covered
  <1>4. ASSUME NEW j \in Ids, NEW s \in Starts, NEW answer \in Descriptor,
               NEW plan, Begin(j, s, plan, answer)
        PROVE  Covered(block)'
    <2>1. j # i
      BY <1>1, <1>4 DEF Begin
    <2>2. intents'[i] = intents[i]
      BY <1>1, <1>4, <2>1 DEF Begin, TypeOK
    <2>3. QED
      BY <1>2, <2>2
  <1>5. ASSUME NEW j \in Open, j # i, NEW snapshot \in Snapshots,
               NoteSnapshot(ScopeOf[intents[j].start], snapshot), Deliver(j)
        PROVE  Covered(block)'
    <2>1. intents'[i] = intents[i]
      BY <1>5, ObserveType
    <2>2. QED
      BY <1>2, <2>1
  <1>6. ASSUME NEW j \in Open, NEW snapshot \in Snapshots,
               ObserveUnknown(j, snapshot)
        PROVE  Covered(block)'
    <2>1. CASE j = i
      BY <1>1, <1>3, <1>6, <2>1 DEF ObserveUnknown
    <2>2. CASE j # i
      BY <1>5, <1>6, <2>2 DEF ObserveUnknown
    <2>3. QED
      BY <2>1, <2>2
  <1>7. ASSUME NEW j \in Open, NEW snapshot \in Snapshots,
               NEW oversized \in BOOLEAN, ObserveConflict(j, snapshot, oversized)
        PROVE  Covered(block)'
    <2>1. CASE j = i
      BY <1>7, <2>1 DEF ObserveConflict, Covered
    <2>2. CASE j # i
      BY <1>5, <1>7, <2>2 DEF ObserveConflict
    <2>3. QED
      BY <2>1, <2>2
  <1>8. ASSUME NEW j \in Open, NEW snapshot \in Snapshots,
               NEW oversized \in BOOLEAN, NEW admit \in BOOLEAN,
               ObserveRecorded(j, snapshot, oversized, admit)
        PROVE  Covered(block)'
    <2>1. CASE j = i
      <3>1. block.end \in Known' /\ observations'[block.end].payload = block.payload
        BY <1>8, <2>1, RecordedKeeps
      <3>2. QED
        BY <3>1 DEF Covered, Known
    <2>2. CASE j # i
      BY <1>5, <1>8, <2>2 DEF ObserveRecorded
    <2>3. QED
      BY <2>1, <2>2
  <1>9. ASSUME NEW ids \in SUBSET Open, DeleteIntents(ids),
               i \in ids => StartOf[block.end] \in poisoned'
        PROVE  Covered(block)'
    <2>1. CASE i \in ids
      BY <1>3, <1>9, <2>1
    <2>2. CASE i \notin ids
      BY <1>1, <1>2, <1>9, <2>2 DEF DeleteIntents
    <2>3. QED
      BY <2>1, <2>2
  <1>10. ASSUME NEW j \in Open, Resolve(j)
         PROVE  Covered(block)'
    BY <1>9, <1>10 DEF Resolve
  <1>11. ASSUME NEW ids \in SUBSET Open, Poison(ids)
         PROVE  Covered(block)'
    BY <1>1, <1>9, <1>11 DEF Poison, StartsOf
  <1>12. CASE Reopen
    BY <1>1, <1>9, <1>12 DEF Reopen, Recovered, StartsOf
  <1>13. CASE UNCHANGED intents
    BY <1>2, <1>13
  <1>14. CASE Dispatch
    BY <1>4, <1>13, <1>14
    DEF Dispatch, EnsureScope, TouchVerified, BeginFresh, BeginReplay, Bypass,
        tables
  <1>15. CASE Observe
    BY <1>6, <1>7, <1>8, <1>15
    DEF Observe, tables
  <1>16. CASE Conclude
    BY <1>10, <1>11, <1>13, <1>16
    DEF Conclude, RejectReplay, tables
  <1>17. CASE Quarantine
    BY <1>13, <1>17
    DEF Quarantine, Fence, MarkCoverageGap, ForwardUnobserved, tables
  <1>18. CASE Retain
    BY <1>13, <1>18
    DEF Retain, Cleanup, GrowIdle, ForgetSnapshot, tables
  <1>19. CASE Restart
    BY <1>12, <1>13, <1>19
    DEF Restart, FailClosed, Stop, FailToReopen, tables
  <1>20. QED
    BY <1>14, <1>15, <1>16, <1>17, <1>18, <1>19 DEF Next

(* Whatever is newly produced is awaited by an intent or poisoned. *)
LEMMA ProducedStep ==
  ASSUME TypeOK, Next, NEW block \in produced' \ produced
  PROVE  Covered(block)'
  <1>1. ASSUME NEW i \in Ids, NEW s \in Starts, NEW answer \in Descriptor,
               NEW plan \in Seq(Descriptor), EndsOf(plan) \subseteq Ends,
               Begin(i, s, plan, answer)
        PROVE  Covered(block)'
    <2>1. block = answer
      BY <1>1 DEF Begin
    <2>2. intents'[i].phase = "dispatch" /\ intents'[i].outcome = answer
      BY <1>1 DEF Begin, TypeOK
    <2>3. i \in Open'
      BY <1>1, BeginType
    <2>4. QED
      BY <2>1, <2>2, <2>3 DEF Covered
  <1>2. ASSUME NEW i \in Ids, NEW s \in Starts, NEW answer \in Descriptor,
               BeginFresh(i, s, answer)
        PROVE  Covered(block)'
    <2>1. <<>> \in Seq(Descriptor)
      OBVIOUS
    <2>2. EndsOf(<<>>) \subseteq Ends
      BY DEF EndsOf
    <2>3. QED
      BY <1>1, <1>2, <2>1, <2>2 DEF BeginFresh
  <1>3. ASSUME NEW i \in Ids, NEW s \in Starts, NEW answer \in Descriptor,
               NEW e \in Known, BeginReplay(i, s, e, answer)
        PROVE  Covered(block)'
    BY <1>1, <1>3, LineageType DEF BeginReplay
  <1>4. ASSUME NEW s \in Starts, NEW answer \in Descriptor, Bypass(s, answer)
        PROVE  Covered(block)'
    BY <1>4 DEF Bypass, Covered
  <1>5. CASE Dispatch
    BY <1>2, <1>3, <1>4, <1>5
    DEF Dispatch, EnsureScope, TouchVerified, history
  <1>6. CASE Observe
    BY <1>6, ObservationLeaves
  <1>7. CASE Conclude
    BY <1>7
    DEF Conclude, Resolve, RejectReplay, Poison, history
  <1>8. CASE Quarantine
    BY <1>8
    DEF Quarantine, Fence, MarkCoverageGap, ForwardUnobserved, history
  <1>9. CASE Retain
    BY <1>9
    DEF Retain, Cleanup, GrowIdle, ForgetSnapshot, history
  <1>10. CASE Restart
    BY <1>10
    DEF Restart, FailClosed, Stop, Reopen, FailToReopen, history
  <1>11. QED
    BY <1>5, <1>6, <1>7, <1>8, <1>9, <1>10 DEF Next

LEMMA CoverStep ==
  ASSUME TypeOK, IntentFacts, NoGenerationForgotten, Next
  PROVE  NoGenerationForgotten'
  <1>1. ASSUME NEW block \in produced
        PROVE  Covered(block)'
    <2>1. Covered(block)
      BY DEF NoGenerationForgotten
    <2>2. CASE StartOf[block.end] \in poisoned \/ block.end \in conflicted
      BY <2>2, NothingForgotten DEF Covered
    <2>3. CASE /\ observations[block.end] # None
               /\ observations[block.end].payload = block.payload
      <3>1. block.end \in Ends
        BY DEF TypeOK, Descriptor
      <3>2. block.end \in Known /\ block.end \in Known'
        BY <2>3, <3>1, RecordsChange DEF Known
      <3>3. observations'[block.end].payload = block.payload
        <4>1. CASE RecordKept(block.end)
          BY <2>3, <4>1 DEF RecordKept
        <4>2. CASE \E i \in Open : RecordedFor(block.end, i)
          BY <2>3, <3>2, <4>2 DEF RecordedFor
        <4>3. QED
          BY <3>2, <4>1, <4>2, RecordsChange
      <3>4. QED
        BY <3>2, <3>3 DEF Covered, Known
    <2>4. CASE \E i \in Open : /\ intents[i].phase = "dispatch"
                               /\ intents[i].outcome = block
      BY <2>4, WaitingStep
    <2>5. QED
      BY <2>1, <2>2, <2>3, <2>4 DEF Covered
  <1>2. QED
    BY <1>1, ProducedStep DEF NoGenerationForgotten

-----------------------------------------------------------------------------
(* Quarantine.                                                             *)

(* A set of scopes that advances leaves everything known or in flight in   *)
(* them behind.                                                            *)
LEMMA FenceLeavesBehind ==
  ASSUME TypeOK, IntentFacts, ObservationFacts, NEW scopes
  PROVE  /\ \A e \in Known : Scope(e) \in scopes =>
              observations[e].generation < Fenced(scopes)[Scope(e)]
         /\ \A i \in Open : ScopeOf[intents[i].start] \in scopes =>
              intents[i].generation < Fenced(scopes)[ScopeOf[intents[i].start]]
  <1>1. ASSUME NEW s \in Scopes, s \in scopes, NEW g \in Nat \ {0},
               g <= generation[s]
        PROVE  g < Fenced(scopes)[s]
    <2>1. generation[s] \in Nat
      BY DEF TypeOK
    <2>2. Fenced(scopes)[s] = generation[s] + 1
      BY <1>1, <2>1 DEF Fenced
    <2>3. QED
      BY <1>1, <2>1, <2>2
  <1>2. ASSUME NEW e \in Known
        PROVE  /\ Scope(e) \in Scopes /\ observations[e].generation \in Nat \ {0}
               /\ observations[e].generation <= generation[Scope(e)]
    BY LineageType, KeyAssumption DEF Scope, Observation, ObservationFacts
  <1>3. ASSUME NEW i \in Open
        PROVE  /\ ScopeOf[intents[i].start] \in Scopes
               /\ intents[i].generation \in Nat \ {0}
               /\ intents[i].generation <= generation[ScopeOf[intents[i].start]]
    BY IntentType DEF Intent, IntentFacts
  <1>4. QED
    BY <1>1, <1>2, <1>3

(* Whoever is left behind stays so. *)
LEMMA LeftBehindStays ==
  ASSUME TypeOK, Next, NEW s \in Scopes, NEW g \in Nat, g < generation[s]
  PROVE  g < generation'[s]
  <1>1. generation[s] \in Nat /\ generation'[s] \in Nat
    BY TypeStep DEF TypeOK
  <1>2. generation[s] <= generation'[s]
    BY NothingForgotten
  <1>3. QED
    BY <1>1, <1>2

Behind(e) == observations[e].generation < generation[Scope(e)]

Outdated(i) == intents[i].generation < generation[ScopeOf[intents[i].start]]

LEMMA BehindStays ==
  ASSUME TypeOK, Next
  PROVE  /\ \A e \in Known : RecordKept(e) /\ Behind(e) => Behind(e)'
         /\ \A i \in Open' : Carried(i) /\ Outdated(i) => Outdated(i)'
  <1>1. ASSUME NEW e \in Known, RecordKept(e), Behind(e)
        PROVE  Behind(e)'
    <2>1. Scope(e) \in Scopes /\ observations[e].generation \in Nat
      BY LineageType, KeyAssumption DEF Scope, Observation
    <2>2. observations[e].generation < generation'[Scope(e)]
      BY <1>1, <2>1, LeftBehindStays DEF Behind
    <2>3. QED
      BY <1>1, <2>2 DEF Behind, RecordKept, Scope
  <1>2. ASSUME NEW i \in Open', Carried(i), Outdated(i)
        PROVE  Outdated(i)'
    <2>1. /\ ScopeOf[intents[i].start] \in Scopes
          /\ intents[i].generation \in Nat
      BY <1>2, IntentType DEF Carried, Intent
    <2>2. intents[i].generation < generation'[ScopeOf[intents[i].start]]
      BY <1>2, <2>1, LeftBehindStays DEF Outdated
    <2>3. QED
      BY <1>2, <2>2 DEF Outdated, Carried
  <1>3. QED
    BY <1>1, <1>2

LEMMA StatusChange ==
  ASSUME Next
  PROVE  \/ UNCHANGED status
         \/ MarkCoverageGap \/ FailClosed \/ Stop \/ Reopen \/ FailToReopen
  <1>1. CASE Dispatch
    BY <1>1 DEF Dispatch, EnsureScope, TouchVerified, BeginFresh, BeginReplay,
                Begin, Bypass
  <1>2. CASE Observe
    BY <1>2, ObservationLeaves
  <1>3. CASE Conclude
    BY <1>3 DEF Conclude, Resolve, RejectReplay, Poison
  <1>4. CASE Quarantine
    BY <1>4 DEF Quarantine, Fence, ForwardUnobserved
  <1>5. CASE Retain
    BY <1>5 DEF Retain, Cleanup, GrowIdle, ForgetSnapshot
  <1>6. CASE Restart
    BY <1>6 DEF Restart
  <1>7. QED
    BY <1>1, <1>2, <1>3, <1>4, <1>5, <1>6 DEF Next

(* An open store has no gap, a disabled one has recorded it. *)
LEMMA GapStep ==
  ASSUME Next, mode = "open" => ~gap, mode = "disabled" => gap
  PROVE  /\ mode' = "open" => ~gap'
         /\ mode' = "disabled" => gap'
  <1>1. CASE UNCHANGED status
    <2>1. gap' = gap /\ mode' = mode
      BY <1>1 DEF status
    <2>2. QED
      BY <2>1
  <1>2. CASE MarkCoverageGap
    BY <1>2 DEF MarkCoverageGap
  <1>3. CASE FailClosed
    BY <1>3 DEF FailClosed
  <1>4. CASE Stop
    BY <1>4 DEF Stop
  <1>5. CASE Reopen
    BY <1>5 DEF Reopen
  <1>6. CASE FailToReopen
    BY <1>6 DEF FailToReopen
  <1>7. QED
    BY <1>1, <1>2, <1>3, <1>4, <1>5, <1>6, StatusChange

(* Only a restart forgets a recorded gap. *)
LEMMA GapKept ==
  ASSUME Next, gap, ~Reopen
  PROVE  gap'
  <1>1. CASE UNCHANGED status
    BY <1>1 DEF status
  <1>2. CASE MarkCoverageGap
    BY <1>2 DEF MarkCoverageGap
  <1>3. CASE FailClosed \/ Stop \/ FailToReopen
    BY <1>3 DEF FailClosed, Stop, FailToReopen
  <1>4. QED
    BY <1>1, <1>2, <1>3, StatusChange

(* What a step newly distrusts: whatever a disabled store forwards, what   *)
(* a fence leaves behind, and the end of a conflict or of an intent that   *)
(* was distrusted already.                                                 *)
Escaped(scope) ==
  \/ mode = "disabled" /\ UNCHANGED gap
  \/ \E scopes : scope \in scopes /\ generation' = Fenced(scopes)

LEMMA NewSuspects ==
  ASSUME TypeOK, Next
  PROVE  /\ \A e \in suspectEnds' \ suspectEnds :
              \/ Escaped(Scope(e))
              \/ e \in conflicted'
              \/ \E i \in Open : RecordedFor(e, i)
         /\ \A i \in suspectIds' \ suspectIds :
              /\ i \in Open /\ UNCHANGED intents
              /\ Escaped(ScopeOf[intents[i].start])
  <1> DEFINE Goal == /\ \A e \in suspectEnds' \ suspectEnds :
                          \/ Escaped(Scope(e))
                          \/ e \in conflicted'
                          \/ \E i \in Open : RecordedFor(e, i)
                     /\ \A i \in suspectIds' \ suspectIds :
                          /\ i \in Open /\ UNCHANGED intents
                          /\ Escaped(ScopeOf[intents[i].start])
  <1>1. CASE UNCHANGED <<suspectEnds, suspectIds>>
    BY <1>1
  <1>2. ASSUME NEW scopes \in FenceGroups, Fence(scopes)
        PROVE  Goal
    BY <1>2 DEF Fence, Distrust, Escaped
  <1>3. CASE ForwardUnobserved
    <2>1. \A s \in Scopes : Escaped(s)
      BY <1>3 DEF ForwardUnobserved, status, Escaped
    <2>2. /\ \A e \in Ends : Scope(e) \in Scopes
          /\ \A i \in Open : ScopeOf[intents[i].start] \in Scopes
      BY KeyAssumption, IntentType DEF Scope
    <2>3. QED
      BY <1>3, <2>1, <2>2 DEF ForwardUnobserved, Distrust, tables
  <1>4. ASSUME NEW i \in Open, NEW snapshot \in Snapshots,
               NEW oversized \in BOOLEAN, ObserveConflict(i, snapshot, oversized)
        PROVE  Goal
    BY <1>4 DEF ObserveConflict, Learn
  <1>5. ASSUME NEW i \in Open, NEW snapshot \in Snapshots,
               NEW oversized \in BOOLEAN, NEW admit \in BOOLEAN,
               ObserveRecorded(i, snapshot, oversized, admit)
        PROVE  Goal
    <2>1. RecordedFor(intents[i].outcome.end, i)
      BY <1>5, RecordedIsFor
    <2>2. QED
      BY <1>5, <2>1 DEF ObserveRecorded, Learn
  <1>6. CASE Dispatch
    BY <1>1, <1>6
    DEF Dispatch, EnsureScope, TouchVerified, BeginFresh, BeginReplay, Begin,
        Bypass, history
  <1>7. CASE Observe
    BY <1>1, <1>4, <1>5, <1>7
    DEF Observe, ObserveUnknown, history
  <1>8. CASE Conclude
    BY <1>1, <1>8
    DEF Conclude, Resolve, RejectReplay, Poison, history
  <1>9. CASE Quarantine
    BY <1>1, <1>2, <1>3, <1>9
    DEF Quarantine, MarkCoverageGap, history
  <1>10. CASE Retain
    BY <1>1, <1>10
    DEF Retain, Cleanup, GrowIdle, ForgetSnapshot, history
  <1>11. CASE Restart
    BY <1>1, <1>11
    DEF Restart, FailClosed, Stop, Reopen, FailToReopen, history
  <1>12. Goal
    BY <1>6, <1>7, <1>8, <1>9, <1>10, <1>11 DEF Next
  <1>13. QED
    BY <1>12

LEMMA SuspicionStep ==
  ASSUME TypeOK, IntentFacts, ObservationFacts, SuspicionFacts, Next
  PROVE  SuspicionFacts'
  <1>1. mode' = "open" => ~gap'
    BY GapStep DEF SuspicionFacts
  <1>2. mode' = "disabled" => gap'
    BY GapStep DEF SuspicionFacts
  <1>3. ASSUME NEW e \in Known', e \in suspectEnds'
        PROVE  gap' \/ e \in conflicted' \/ Behind(e)'
    <2>1. ASSUME e \in Known, RecordKept(e), e \in suspectEnds
          PROVE  gap' \/ e \in conflicted' \/ Behind(e)'
      <3>1. gap \/ e \in conflicted \/ Behind(e)
        BY <2>1 DEF SuspicionFacts, Behind
      <3>2. CASE Reopen /\ gap
        <4>1. generation' = Fenced(Scopes)
          BY <3>2 DEF Reopen
        <4>2. Scope(e) \in Scopes
          BY <2>1, LineageType, KeyAssumption DEF Scope
        <4>3. QED
          BY <2>1, <4>1, <4>2, FenceLeavesBehind DEF Behind, RecordKept, Scope
      <3>3. CASE gap /\ ~Reopen
        BY <3>3, GapKept
      <3>4. CASE e \in conflicted
        BY <3>4, NothingForgotten
      <3>5. CASE Behind(e)
        BY <2>1, <3>5, BehindStays
      <3>6. QED
        BY <3>1, <3>2, <3>3, <3>4, <3>5
    <2>2. ASSUME e \in Known, RecordKept(e), Escaped(Scope(e))
          PROVE  gap' \/ Behind(e)'
      <3>1. CASE mode = "disabled" /\ UNCHANGED gap
        BY <3>1 DEF SuspicionFacts
      <3>2. CASE \E scopes : Scope(e) \in scopes /\ generation' = Fenced(scopes)
        BY <2>2, <3>2, FenceLeavesBehind DEF Behind, RecordKept, Scope
      <3>3. QED
        BY <2>2, <3>1, <3>2 DEF Escaped
    <2>3. ASSUME NEW i \in Open, RecordedFor(e, i)
          PROVE  gap' \/ Behind(e)'
      <3>1. i \in suspectIds /\ intents[i].start = StartOf[e]
        BY <1>3, <2>3 DEF RecordedFor, IntentFacts
      <3>2. gap \/ intents[i].generation < generation[ScopeOf[StartOf[e]]]
        BY <3>1 DEF SuspicionFacts
      <3>3. QED
        BY <2>3, <3>2 DEF RecordedFor, Behind, Scope
    <2>4. QED
      BY <1>3, <2>1, <2>2, <2>3, RecordsChange, NewSuspects
  <1>4. ASSUME NEW i \in Open', i \in suspectIds'
        PROVE  gap' \/ Outdated(i)'
    <2>1. CASE i \in suspectIds
      <3>1. Carried(i)
        BY <2>1, IntentsChange DEF Begun, IntentFacts
      <3>2. gap \/ Outdated(i)
        BY <2>1, <3>1 DEF SuspicionFacts, Carried, Outdated
      <3>3. ~Reopen
        <4>1. Reopen => Open' = {}
          BY DeleteType DEF Reopen
        <4>2. QED
          BY <4>1
      <3>4. CASE gap
        BY <3>3, <3>4, GapKept
      <3>5. CASE Outdated(i)
        BY <3>1, <3>5, BehindStays
      <3>6. QED
        BY <3>2, <3>4, <3>5
    <2>2. CASE i \notin suspectIds
      <3>1. i \in Open /\ UNCHANGED intents /\ Escaped(ScopeOf[intents[i].start])
        BY <1>4, <2>2, NewSuspects
      <3>2. CASE mode = "disabled" /\ UNCHANGED gap
        BY <3>2 DEF SuspicionFacts
      <3>3. CASE \E scopes : /\ ScopeOf[intents[i].start] \in scopes
                             /\ generation' = Fenced(scopes)
        BY <3>1, <3>3, FenceLeavesBehind DEF Outdated
      <3>4. QED
        BY <3>1, <3>2, <3>3 DEF Escaped
    <2>3. QED
      BY <2>1, <2>2
  <1>5. QED
    BY <1>1, <1>2, <1>3, <1>4 DEF SuspicionFacts, Behind, Outdated

-----------------------------------------------------------------------------
(* The theorems.                                                           *)

LEMMA InductiveInit == Init => IInv
  <1> SUFFICES ASSUME Init PROVE IInv
    OBVIOUS
  <1>1. Open = {} /\ Known = {}
    BY DEF Init, Open, Known
  <1>2. IntentFacts /\ ObservationFacts /\ PinFacts /\ DependencyFacts
    BY <1>1 DEF Init, IntentFacts, ObservationFacts, PinFacts, DependencyFacts
  <1>3. SuspicionFacts
    BY <1>1 DEF Init, SuspicionFacts
  <1>4. NoGenerationForgotten
    BY DEF Init, NoGenerationForgotten
  <1>5. QED
    BY <1>2, <1>3, <1>4, TypeInit DEF IInv

LEMMA InductiveStutter == IInv /\ UNCHANGED vars => IInv'
  BY DEF IInv, TypeOK, IntentFacts, ObservationFacts, PinFacts, DependencyFacts,
      SuspicionFacts, NoGenerationForgotten, Covered, Known, Open, Scope, vars,
      tables, status, history

LEMMA InductiveStep == IInv /\ [Next]_vars => IInv'
  <1>1. IInv /\ Next => IInv'
    BY TypeStep, IntentStep, ObservationStep, PinStep, DependencyStep,
       SuspicionStep, CoverStep DEF IInv
  <1>2. QED
    BY <1>1, InductiveStutter

(* The conjunction every other theorem rests on. *)
THEOREM Inductive == Spec => []IInv
  BY InductiveInit, InductiveStep, PTL DEF Spec

(* No upstream generation at a derived position goes unaccounted for.      *)
THEOREM NothingIsForgotten == Spec => []NoGenerationForgotten
  <1>1. IInv => NoGenerationForgotten
    BY DEF IInv
  <1>2. QED
    BY <1>1, Inductive, PTL

(* Every member of a lineage canReplay accepts is known and safe. *)
LEMMA LineageSafe ==
  ASSUME TypeOK, NEW e \in Known, CanReplay(e), NEW m \in EndsOf(Lineage(e))
  PROVE  m \in Known /\ Safe(m)
  <1>1. m \in payloads
    BY DEF CanReplay, Structural, EndsOf
  <1>2. QED
    BY <1>1 DEF CanReplay, TypeOK

(* A record that is not marked and has no competitor is of the only block  *)
(* ever produced behind its message.                                       *)
LEMMA SafeIsUnique ==
  ASSUME TypeOK, IntentFacts, ObservationFacts, NoGenerationForgotten,
         NEW m \in Known, Safe(m), NEW block \in produced, block.end = m
  PROVE  block.payload = observations[m].payload
  <1>1. StartOf[m] \notin poisoned /\ m \notin conflicted /\ ~Competing(m)
    BY DEF Safe, Marked
  <1>2. Covered(block)
    BY DEF NoGenerationForgotten
  <1>3. ASSUME NEW i \in Open, intents[i].phase = "dispatch",
               intents[i].outcome = block
        PROVE  FALSE
    <2>1. intents[i].start = StartOf[m]
      BY <1>3 DEF IntentFacts
    <2>2. i = observations[m].producer
      BY <1>1, <2>1 DEF Competing
    <2>3. QED
      BY <1>3, <2>2 DEF ObservationFacts
  <1>4. QED
    BY <1>1, <1>2, <1>3 DEF Covered

(* Whatever canReplay lets through is the one thing the upstream ever      *)
(* produced behind that visible message.                                   *)
THEOREM ReplayIsUnique == Spec => []UniqueReplay
  <1>1. IInv => UniqueReplay
    BY LineageSafe, SafeIsUnique DEF IInv, UniqueReplay
  <1>2. QED
    BY <1>1, Inductive, PTL

(* Nothing learnt before traffic the ledger did not see is replayed after. *)
LEMMA SafeIsTrusted ==
  ASSUME TypeOK, SuspicionFacts, mode = "open", NEW m \in Known, Safe(m)
  PROVE  m \notin suspectEnds
  <1>1. Scope(m) \in Scopes /\ observations[m].generation \in Nat
    BY LineageType, KeyAssumption DEF Scope, Observation
  <1>2. ~gap /\ m \notin conflicted /\ observations[m].generation = generation[Scope(m)]
    BY DEF SuspicionFacts, Safe, Marked
  <1>3. ~(observations[m].generation < generation[Scope(m)])
    BY <1>1, <1>2
  <1>4. QED
    BY <1>2, <1>3 DEF SuspicionFacts

THEOREM SuspectsAreNotReplayed == Spec => []NoSuspectReplay
  <1>1. IInv => NoSuspectReplay
    BY LineageSafe, SafeIsTrusted DEF IInv, NoSuspectReplay
  <1>2. QED
    BY <1>1, Inductive, PTL

(* Cleanup never breaks a lineage that is still stored. *)
THEOREM LineagesAreRetained == Spec => []LineageRetained
  <1>1. IInv => LineageRetained
    BY DEF IInv, DependencyFacts, LineageRetained
  <1>2. QED
    BY <1>1, Inductive, PTL

(* Cleanup never takes what a request in progress replayed. *)
THEOREM InFlightPlansAreRetained == Spec => []InFlightPlanRetained
  <1>1. IInv => InFlightPlanRetained
    <2>1. ASSUME PinFacts, NEW i \in Open, NEW e \in EndsOf(intents[i].plan)
          PROVE  e \in payloads
      <3>1. <<i, e>> \in pins /\ <<i, e>>[2] = e
        BY <2>1 DEF PinFacts
      <3>2. QED
        BY <2>1, <3>1 DEF PinFacts
    <2>2. QED
      BY <2>1 DEF IInv, InFlightPlanRetained
  <1>2. QED
    BY <1>1, Inductive, PTL

(* No step loses or rewrites what is known of an end, or makes a marked    *)
(* record replayable again.                                                *)
THEOREM EvidenceIsKept == Spec => EvidenceKept
  <1> DEFINE Kept == \A e \in Known :
                       /\ observations'[e] # None
                       /\ observations'[e].payload = observations[e].payload
                       /\ observations'[e].plan = observations[e].plan
                       /\ Marked(e) /\ ~observations[e].replayable
                            => ~observations'[e].replayable
  <1>1. IInv /\ Next => Kept
    <2>1. ASSUME TypeOK, Next, NEW e \in Known
          PROVE  /\ observations'[e] # None
                 /\ observations'[e].payload = observations[e].payload
                 /\ observations'[e].plan = observations[e].plan
                 /\ Marked(e) /\ ~observations[e].replayable
                      => ~observations'[e].replayable
      <3>1. e \in Known' /\ (RecordKept(e) \/ \E i \in Open : RecordedFor(e, i))
        BY <2>1, RecordsChange
      <3>2. observations'[e] # None
        BY <3>1 DEF Known
      <3>3. CASE RecordKept(e)
        BY <3>2, <3>3 DEF RecordKept
      <3>4. CASE \E i \in Open : RecordedFor(e, i)
        BY <3>2, <3>4 DEF RecordedFor
      <3>5. QED
        BY <3>1, <3>3, <3>4
    <2>2. QED
      BY <2>1 DEF IInv
  <1>2. IInv /\ [Next]_vars => [Kept]_vars
    BY <1>1
  <1>3. QED
    BY <1>2, Inductive, PTL DEF Spec, EvidenceKept

-----------------------------------------------------------------------------
(* The ledger implements the contract.                                     *)

(* Each entry of an intact lineage describes the record it names.          *)
LEMMA LineageEntry ==
  ASSUME TypeOK, NEW e \in Known, Structural(e), NEW k \in DOMAIN Lineage(e)
  PROVE  LET m == Lineage(e)[k].end
         IN  /\ m \in Known
             /\ Lineage(e)[k] = [end |-> m, payload |-> observations[m].payload]
  <1> DEFINE m == Lineage(e)[k].end
             d == [end |-> m, payload |-> observations[m].payload]
  <1>1. m \in Known /\ Lineage(m) = SubSeq(Lineage(e), 1, k)
    BY DEF Structural, TypeOK
  <1>2. observations[m] \in Observation
    BY <1>1, LineageType
  <1>3. observations[m].plan \in Seq(Descriptor)
    BY <1>2 DEF Observation
  <1>4. Lineage(m)[Len(Lineage(m))] = d
    <2>1. ASSUME NEW prior \in Seq(Descriptor), NEW own
          PROVE  Append(prior, own)[Len(Append(prior, own))] = own
      OBVIOUS
    <2>2. Lineage(m) = Append(observations[m].plan, d)
      BY DEF Lineage
    <2> HIDE DEF d, m
    <2>3. QED
      BY <1>3, <2>1, <2>2
  <1>5. Lineage(e) \in Seq(Descriptor) /\ k \in 1 .. Len(Lineage(e))
    BY LineageType
  <1> HIDE DEF d, m
  <1>6. Len(SubSeq(Lineage(e), 1, k)) = k /\ SubSeq(Lineage(e), 1, k)[k] = Lineage(e)[k]
    BY <1>5
  <1>7. Lineage(e)[k] = d
    BY <1>1, <1>4, <1>6
  <1>8. QED
    BY <1>1, <1>7 DEF d, m

LEMMA ReplayedIsPromised ==
  ASSUME IInv, mode = "open", NEW e \in Known, CanReplay(e),
         NEW k \in DOMAIN Lineage(e)
  PROVE  Contract!Unambiguous(Lineage(e)[k]) /\ Contract!Trusted(Lineage(e)[k])
  <1> DEFINE block == Lineage(e)[k]
  <1>1. block.end \in Known /\ block = [end |-> block.end,
                                        payload |-> observations[block.end].payload]
    BY LineageEntry DEF IInv, CanReplay
  <1>2. Safe(block.end)
    BY LineageSafe DEF IInv, EndsOf
  <1>3. block \in produced
    BY <1>1 DEF IInv, ObservationFacts
  <1>4. ASSUME NEW other \in produced, other.end = block.end
        PROVE  other = block
    <2>1. other.payload = observations[block.end].payload
      BY <1>1, <1>2, <1>4, SafeIsUnique DEF IInv
    <2>2. other = [end |-> other.end, payload |-> other.payload]
      BY DEF IInv, TypeOK, Descriptor
    <2>3. QED
      BY <1>1, <1>4, <2>1, <2>2
  <1>5. block.end \notin suspectEnds
    BY <1>1, <1>2, SafeIsTrusted DEF IInv
  <1>6. QED
    BY <1>3, <1>4, <1>5 DEF Contract!Unambiguous, Contract!Trusted

LEMMA BeginDispatches ==
  ASSUME TypeOK, IntentFacts,
         NEW i \in Ids, NEW s \in Starts, NEW answer \in Descriptor,
         NEW plan \in Seq(Descriptor), EndsOf(plan) \subseteq Ends,
         Begin(i, s, plan, answer),
         \A k \in DOMAIN plan : /\ Contract!Unambiguous(plan[k])
                                /\ Contract!Trusted(plan[k])
  PROVE  Contract!Next
  <1> DEFINE blocks == {plan[k] : k \in DOMAIN plan}
  <1>1. i \notin Open
    BY DEF Begin, IntentFacts
  <1>2. ReplayedBlocks[i] = {}
    BY <1>1 DEF ReplayedBlocks
  <1>3. /\ intents'[i].plan = plan
        /\ \A j \in Ids \ {i} : intents'[j] = intents[j]
    BY DEF Begin, TypeOK
  <1>4. i \in Open' /\ \A j \in Ids \ {i} : j \in Open' <=> j \in Open
    BY <1>3, BeginType DEF Open
  <1>5. ReplayedBlocks' = [ReplayedBlocks EXCEPT ![i] = blocks]
    BY <1>3, <1>4 DEF ReplayedBlocks
  <1>6. blocks \subseteq produced
    BY DEF Contract!Unambiguous
  <1>7. produced' = produced \cup {answer} /\ UNCHANGED suspectEnds
    BY DEF Begin
  <1>8. Contract!Dispatch(i, blocks, answer)
    BY <1>2, <1>5, <1>7 DEF Contract!Dispatch
  <1>9. answer \in Contract!Block
    BY DEF Contract!Block, Descriptor
  <1>10. QED
    BY <1>6, <1>8, <1>9 DEF Contract!Next

LEMMA ContractStep ==
  ASSUME IInv, Next
  PROVE  [Contract!Next]_(Contract!vars)
  <1> USE DEF Contract!vars
  <1>1. CASE UNCHANGED <<intents, produced, suspectEnds>>
    <2>1. UNCHANGED ReplayedBlocks
      BY <1>1 DEF ReplayedBlocks, Open
    <2>2. QED
      BY <1>1, <2>1
  <1>2. ASSUME NEW i \in Ids, NEW s \in Starts, NEW answer \in Descriptor,
               BeginFresh(i, s, answer)
        PROVE  Contract!Next
    <2>1. <<>> \in Seq(Descriptor) /\ DOMAIN <<>> = {}
      OBVIOUS
    <2>2. EndsOf(<<>>) \subseteq Ends
      BY DEF EndsOf
    <2>3. QED
      BY <1>2, <2>1, <2>2, BeginDispatches DEF BeginFresh, IInv
  <1>3. ASSUME NEW i \in Ids, NEW s \in Starts, NEW answer \in Descriptor,
               NEW e \in Known, BeginReplay(i, s, e, answer)
        PROVE  Contract!Next
    <2>1. mode = "open" /\ CanReplay(e) /\ Begin(i, s, Lineage(e), answer)
      BY <1>3 DEF BeginReplay, Begin, Enabled
    <2>2. \A k \in DOMAIN Lineage(e) : /\ Contract!Unambiguous(Lineage(e)[k])
                                       /\ Contract!Trusted(Lineage(e)[k])
      BY <2>1, ReplayedIsPromised
    <2>3. QED
      BY <2>1, <2>2, LineageType, BeginDispatches DEF IInv
  <1>4. ASSUME NEW s \in Starts, NEW answer \in Descriptor, Bypass(s, answer)
        PROVE  Contract!Next
    <2>1. produced' = produced \cup {answer} /\ UNCHANGED <<suspectEnds, intents>>
      BY <1>4 DEF Bypass
    <2>2. UNCHANGED ReplayedBlocks
      BY <2>1 DEF ReplayedBlocks, Open
    <2>3. Contract!ForwardWithoutReplay(answer) /\ answer \in Contract!Block
      BY <2>1, <2>2 DEF Contract!ForwardWithoutReplay, Contract!Block, Descriptor
    <2>4. QED
      BY <2>3 DEF Contract!Next
  <1>5. ASSUME NEW i \in Open, NEW snapshot \in Snapshots,
               NoteSnapshot(ScopeOf[intents[i].start], snapshot), Deliver(i)
        PROVE  UNCHANGED ReplayedBlocks
    <2>1. Open' = Open /\ \A j \in Open : intents'[j].plan = intents[j].plan
      BY <1>5, ObserveType, DeliverCarries DEF IInv, Carried
    <2>2. QED
      BY <2>1 DEF ReplayedBlocks
  <1>6. ASSUME NEW i \in Open, NEW snapshot \in Snapshots,
               ObserveUnknown(i, snapshot)
        PROVE  UNCHANGED Contract!vars
    BY <1>5, <1>6 DEF ObserveUnknown, history
  <1>7. ASSUME NEW i, NEW e \in Ends, Learn(i, e), UNCHANGED ReplayedBlocks
        PROVE  Contract!Next
    <2>1. CASE i \in suspectIds
      <3>1. Contract!EscapeNotice({e}) /\ {e} \in SUBSET Ends
        BY <1>7, <2>1 DEF Learn, Contract!EscapeNotice
      <3>2. QED
        BY <3>1 DEF Contract!Next
    <2>2. CASE i \notin suspectIds
      <3>1. Contract!Learn(e)
        BY <1>7, <2>2 DEF Learn, Contract!Learn
      <3>2. QED
        BY <3>1 DEF Contract!Next
    <2>3. QED
      BY <2>1, <2>2
  <1>8. ASSUME NEW i \in Open, NEW snapshot \in Snapshots,
               NEW oversized \in BOOLEAN,
               \/ ObserveConflict(i, snapshot, oversized)
               \/ \E admit \in BOOLEAN :
                    ObserveRecorded(i, snapshot, oversized, admit)
        PROVE  Contract!Next
    <2>1. intents[i].outcome.end \in Ends
      BY IntentType DEF IInv, Intent, Descriptor
    <2>2. /\ Learn(i, intents[i].outcome.end)
          /\ NoteSnapshot(ScopeOf[intents[i].start], snapshot) /\ Deliver(i)
      BY <1>8 DEF ObserveConflict, ObserveRecorded
    <2>3. QED
      BY <1>5, <1>7, <2>1, <2>2
  <1>9. ASSUME NEW ids \in SUBSET Open, DeleteIntents(ids),
               UNCHANGED <<produced, suspectEnds>>
        PROVE  Contract!Next
    <2>1. Open' = Open \ ids /\ \A j \in Open' : intents'[j] = intents[j]
      BY <1>9, DeleteType DEF IInv
    <2>2. ReplayedBlocks' = [j \in Ids |-> IF j \in ids THEN {} ELSE ReplayedBlocks[j]]
      BY <2>1 DEF ReplayedBlocks
    <2>3. Contract!Conclude(ids) /\ ids \in SUBSET Ids
      BY <1>9, <2>2 DEF Contract!Conclude, Open
    <2>4. QED
      BY <2>3 DEF Contract!Next
  <1>10. ASSUME NEW i \in Open, Resolve(i)
         PROVE  Contract!Next
    BY <1>9, <1>10 DEF Resolve, history
  <1>11. ASSUME NEW ids \in SUBSET Open, Poison(ids)
         PROVE  Contract!Next
    BY <1>9, <1>11 DEF Poison, history
  <1>12. CASE Reopen
    BY <1>9, <1>12 DEF Reopen, history
  <1>13. ASSUME NEW scopes, Distrust(scopes), UNCHANGED <<intents, produced>>
         PROVE  Contract!Next
    <2>1. UNCHANGED ReplayedBlocks
      BY <1>13 DEF ReplayedBlocks, Open
    <2>2. Contract!EscapeNotice({e \in Ends : Scope(e) \in scopes})
      BY <1>13, <2>1 DEF Distrust, Contract!EscapeNotice
    <2>3. QED
      BY <2>2 DEF Contract!Next
  <1>14. CASE ForwardUnobserved
    BY <1>13, <1>14 DEF ForwardUnobserved, tables
  <1>15. ASSUME NEW scopes \in FenceGroups, Fence(scopes)
         PROVE  Contract!Next
    BY <1>13, <1>15 DEF Fence
  <1>16. CASE Dispatch
    BY <1>1, <1>2, <1>3, <1>4, <1>16
    DEF Dispatch, EnsureScope, TouchVerified, tables, history
  <1>17. CASE Observe
    BY <1>6, <1>8, <1>17 DEF Observe
  <1>18. CASE Conclude
    BY <1>1, <1>10, <1>11, <1>18 DEF Conclude, RejectReplay, history
  <1>19. CASE Quarantine
    BY <1>1, <1>14, <1>15, <1>19 DEF Quarantine, MarkCoverageGap, tables, history
  <1>20. CASE Retain
    BY <1>1, <1>20 DEF Retain, Cleanup, GrowIdle, ForgetSnapshot, tables, history
  <1>21. CASE Restart
    BY <1>1, <1>12, <1>21
    DEF Restart, FailClosed, Stop, FailToReopen, tables, history
  <1>22. QED
    BY <1>16, <1>17, <1>18, <1>19, <1>20, <1>21 DEF Next

(* At the moment of dispatch every replayed block is the one thing the     *)
(* upstream ever produced behind its message and nothing has escaped the   *)
(* ledger since it was learnt.                                             *)
THEOREM LedgerKeepsContract == Spec => ImplementsContract
  <1>1. Init => Contract!Init
    BY DEF Init, Contract!Init, ReplayedBlocks, Open
  <1>2. IInv /\ [Next]_vars => [Contract!Next]_(Contract!vars)
    <2>1. UNCHANGED vars => UNCHANGED Contract!vars
      BY DEF vars, tables, status, history, Contract!vars, ReplayedBlocks, Open
    <2>2. QED
      BY <2>1, ContractStep
  <1>3. QED
    BY <1>1, <1>2, Inductive, PTL DEF Spec, ImplementsContract, Contract!Spec

=============================================================================
