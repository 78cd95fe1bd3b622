---------------------------- MODULE HotCache_proofs ----------------------------
(* Proofs that the hot cache of HotCache never answers with a record the   *)
(* rows no longer hold, for every set of records, every limit and however  *)
(* entries are chosen for eviction, and that it never retains more than    *)
(* its limit.                                                              *)
EXTENDS HotCache, DataInduction, SequenceTheorems

(* A row read from a consistent table is typed and stamped. *)
LEMMA RowRead ==
  ASSUME NEW observations, NEW payloads, NEW counter,
         Consistent(observations, payloads, counter), NEW e \in Ends
  PROVE  /\ observations[e] # None =>
              /\ observations[e] \in [value : Observations, version : Nat]
              /\ observations[e].version <= counter
         /\ payloads[e] # None =>
              /\ payloads[e] \in [value : Payloads, version : Nat]
              /\ payloads[e].version <= counter
BY DEF Consistent, Stamped, Rows

(* An observation written with the next version keeps the tables           *)
(* consistent.                                                             *)
LEMMA ObservationWritten ==
  ASSUME Consistent(observation, payload, version), NEW e \in Ends, NEW o \in Observations
  PROVE  Consistent([observation EXCEPT ![e] = [value |-> o, version |-> version + 1]], payload, version + 1)
<1> DEFINE written == [observation EXCEPT ![e] = [value |-> o, version |-> version + 1]]
<1>1. version + 1 \in Nat /\ payload \in [Ends -> Rows(Payloads)]
  BY DEF Consistent
<1>2. written \in [Ends -> Rows(Observations)]
  BY <1>1 DEF Consistent, Rows
<1>3. Stamped(written, version + 1)
  <2> SUFFICES ASSUME NEW k \in Ends, written[k] # None PROVE written[k].version <= version + 1
    BY DEF Stamped
  <2>1. CASE k = e
    BY <2>1, <1>1 DEF Consistent
  <2>2. CASE k # e
    BY <2>2, <1>1, RowRead DEF Consistent
  <2> QED
    BY <2>1, <2>2
<1>4. Stamped(payload, version + 1)
  <2> SUFFICES ASSUME NEW k \in Ends, payload[k] # None PROVE payload[k].version <= version + 1
    BY DEF Stamped
  <2>1. payload[k].version \in Nat /\ payload[k].version <= version
    BY RowRead
  <2> QED
    BY <2>1 DEF Consistent
<1> QED
  BY <1>1, <1>2, <1>3, <1>4 DEF Consistent

(* So does a payload written with the next version. *)
LEMMA PayloadWritten ==
  ASSUME Consistent(observation, payload, version), NEW e \in Ends, NEW p \in Payloads
  PROVE  Consistent(observation, [payload EXCEPT ![e] = [value |-> p, version |-> version + 1]], version + 1)
<1> DEFINE written == [payload EXCEPT ![e] = [value |-> p, version |-> version + 1]]
<1>1. version + 1 \in Nat /\ observation \in [Ends -> Rows(Observations)]
  BY DEF Consistent
<1>2. written \in [Ends -> Rows(Payloads)]
  BY <1>1 DEF Consistent, Rows
<1>3. Stamped(written, version + 1)
  <2> SUFFICES ASSUME NEW k \in Ends, written[k] # None PROVE written[k].version <= version + 1
    BY DEF Stamped
  <2>1. CASE k = e
    BY <2>1, <1>1 DEF Consistent
  <2>2. CASE k # e
    BY <2>2, <1>1, RowRead DEF Consistent
  <2> QED
    BY <2>1, <2>2
<1>4. Stamped(observation, version + 1)
  <2> SUFFICES ASSUME NEW k \in Ends, observation[k] # None PROVE observation[k].version <= version + 1
    BY DEF Stamped
  <2>1. observation[k].version \in Nat /\ observation[k].version <= version
    BY RowRead
  <2> QED
    BY <2>1 DEF Consistent
<1> QED
  BY <1>1, <1>2, <1>3, <1>4 DEF Consistent

(* What a read of both rows returns is typed and no newer than the         *)
(* counter.                                                                *)
LEMMA CurrentIsEntry ==
  ASSUME Consistent(observation, payload, version), NEW e \in Ends, Joined(e)
  PROVE  /\ Current(e) \in Entries
         /\ Current(e).versions[1] <= version /\ Current(e).versions[2] <= version
BY RowRead DEF Joined, Current, Entries

(* A new entry leaves the others alone or evicts them, and is what was     *)
(* read, or is refused.                                                    *)
LEMMA SetKeepsOrForgets ==
  ASSUME cached \in [Ends -> Entries], NEW e \in Ends, NEW entry, Set(e, entry)
  PROVE  /\ cached' = [k \in Ends |-> cached'[k]]
         /\ \A k \in Ends : cached'[k] \in {None, cached[k]} \/ (k = e /\ cached'[k] = entry)
<1>1. CASE Bytes(entry) > MemoryBytes
  <2>1. cached' = [cached EXCEPT ![e] = None]
    BY <1>1 DEF Set
  <2> QED
    BY <2>1
<1>2. CASE ~(Bytes(entry) > MemoryBytes)
  <2>1. PICK kept : cached' = [k \in Ends |-> IF k = e THEN entry
                                 ELSE IF k \in Range(kept) THEN cached[k]
                                 ELSE None]
    BY <1>2 DEF Set
  <2> QED
    BY <2>1
<1> QED
  BY <1>1, <1>2

(* An empty cache has no stale entry. *)
LEMMA ClearedIsCurrent ==
  ASSUME Cleared
  PROVE  /\ cached' \in [Ends -> Entries]
         /\ \A e \in Ends : cached'[e] = None
BY DEF Cleared, Entries

(* The first state satisfies the inductive invariant. *)
LEMMA InitInvariant == Init => IInv
BY DEF Init, IInv, Consistent, Stamped, Rows, Entries, HitsAreCurrent, Hit

(* Reading records changes the cache, not the rows. *)
LEMMA ReadInvariant ==
  ASSUME IInv, NEW e \in Ends, Read(e)
  PROVE  IInv'
<1>1. UNCHANGED <<observation, payload, version, txn, saved>>
  BY DEF Read, rows
<1>2. \A k \in Ends : cached'[k] \in {None, cached[k]} \/ (k = e /\ cached'[k] = Current(e))
  <2>1. CASE Hit(e)
    BY <2>1 DEF Read, Used
  <2>2. CASE ~Hit(e)
    BY <2>2, SetKeepsOrForgets DEF Read, IInv
  <2> QED
    BY <2>1, <2>2
<1>3. cached' = [k \in Ends |-> cached'[k]]
  <2>1. CASE Hit(e)
    BY <2>1 DEF Read, Used, IInv
  <2>2. CASE ~Hit(e)
    BY <2>2, SetKeepsOrForgets DEF Read, IInv
  <2> QED
    BY <2>1, <2>2
<1>4. /\ Current(e) \in Entries
      /\ Current(e).versions[1] <= version /\ Current(e).versions[2] <= version
  BY CurrentIsEntry DEF Read, IInv
<1>5. cached' \in [Ends -> Entries]
  <2>1. \A k \in Ends : cached'[k] \in Entries
    BY <1>2, <1>4 DEF IInv, Entries
  <2> QED
    BY <1>3, <2>1
<1>6. \A k \in Ends : cached'[k] # None =>
        cached'[k].versions[1] <= version' /\ cached'[k].versions[2] <= version'
  BY <1>1, <1>2, <1>4 DEF IInv
<1>7. HitsAreCurrent'
  BY <1>1, <1>2 DEF IInv, HitsAreCurrent, Hit, Joined, Current
<1> QED
  BY <1>1, <1>5, <1>6, <1>7 DEF IInv, Consistent, Stamped

(* A write stamps its row with a version no entry was read at. *)
LEMMA ObserveInvariant ==
  ASSUME IInv, NEW e \in Ends, NEW o \in Observations, Observe(e, o)
  PROVE  IInv'
<1>1. /\ observation' = [observation EXCEPT ![e] = [value |-> o, version |-> version + 1]]
      /\ version' = version + 1
      /\ UNCHANGED <<payload, saved, cached>>
      /\ txn \in {"reading", "writing"} /\ txn' = "writing"
  BY DEF Observe, Writes, NextVersion, cache
<1>2. Consistent(observation', payload', version')
  BY <1>1, ObservationWritten DEF IInv
<1>3. \A k \in Ends : cached'[k] # None =>
        cached'[k].versions[1] <= version' /\ cached'[k].versions[2] <= version'
  BY <1>1 DEF IInv, Consistent, Entries
<1>4. ASSUME NEW k \in Ends, Joined(k)', Hit(k)' PROVE cached'[k] = Current(k)'
  <2>1. CASE k = e
    <3>1. cached[k] # None /\ cached[k].versions[1] = version + 1
      BY <1>1, <1>4, <2>1 DEF Hit, Current, IInv, Consistent
    <3> QED
      BY <3>1 DEF IInv, Entries, Consistent
  <2>2. CASE k # e
    BY <1>1, <1>4, <2>2 DEF Hit, Joined, Current, IInv, HitsAreCurrent, Consistent
  <2> QED
    BY <2>1, <2>2
<1> QED
  BY <1>1, <1>2, <1>3, <1>4 DEF IInv, HitsAreCurrent, Consistent

(* The same for a payload, new or touched. *)
LEMMA PayloadInvariant ==
  ASSUME IInv, NEW e \in Ends, NEW p \in Payloads, Store(e, p) \/ Touch(e, p)
  PROVE  IInv'
<1>1. /\ payload' = [payload EXCEPT ![e] = [value |-> p, version |-> version + 1]]
      /\ version' = version + 1
      /\ UNCHANGED <<observation, saved, cached>>
      /\ txn \in {"reading", "writing"} /\ txn' = "writing"
  BY DEF Store, Touch, Writes, NextVersion, cache
<1>2. Consistent(observation', payload', version')
  BY <1>1, PayloadWritten DEF IInv
<1>3. \A k \in Ends : cached'[k] # None =>
        cached'[k].versions[1] <= version' /\ cached'[k].versions[2] <= version'
  BY <1>1 DEF IInv, Consistent, Entries
<1>4. ASSUME NEW k \in Ends, Joined(k)', Hit(k)' PROVE cached'[k] = Current(k)'
  <2>1. CASE k = e
    <3>1. cached[k] # None /\ cached[k].versions[2] = version + 1
      BY <1>1, <1>4, <2>1 DEF Hit, Current, IInv, Consistent
    <3> QED
      BY <3>1 DEF IInv, Entries, Consistent
  <2>2. CASE k # e
    BY <1>1, <1>4, <2>2 DEF Hit, Joined, Current, IInv, HitsAreCurrent, Consistent
  <2> QED
    BY <2>1, <2>2
<1> QED
  BY <1>1, <1>2, <1>3, <1>4 DEF IInv, HitsAreCurrent, Consistent

(* A deleted payload is joined with nothing. *)
LEMMA DeleteInvariant ==
  ASSUME IInv, NEW e \in Ends, Delete(e)
  PROVE  IInv'
<1>1. /\ payload' = [payload EXCEPT ![e] = None]
      /\ UNCHANGED <<observation, version, saved, cached>>
      /\ txn \in {"reading", "writing"} /\ txn' = "writing"
  BY DEF Delete, cache
<1>2. Consistent(observation', payload', version')
  BY <1>1 DEF IInv, Consistent, Stamped, Rows
<1>3. HitsAreCurrent'
  BY <1>1 DEF Hit, Joined, Current, IInv, HitsAreCurrent, Consistent
<1> QED
  BY <1>1, <1>2, <1>3 DEF IInv, Consistent

(* A transaction that fails, and a restart, leave nothing in the cache. *)
LEMMA RollbackInvariant ==
  ASSUME IInv, Fail \/ Restart
  PROVE  IInv'
<1>1. cached' \in [Ends -> Entries] /\ \A e \in Ends : cached'[e] = None
  BY ClearedIsCurrent DEF Fail, Restart
<1>2. Consistent(observation', payload', version') /\ saved' = None
  <2>1. CASE Fail
    BY <2>1 DEF Fail, Restored, IInv
  <2>2. CASE Restart
    BY <2>2 DEF Restart, Restored, IInv, rows
  <2> QED
    BY <2>1, <2>2
<1>3. txn' \in {"none", "failed"}
  BY DEF Fail, Restart
<1> QED
  BY <1>1, <1>2, <1>3 DEF IInv, HitsAreCurrent, Hit

(* Beginning and committing move rows that are consistent. *)
LEMMA TransactionInvariant ==
  ASSUME IInv, Begin \/ Commit
  PROVE  IInv'
<1>1. UNCHANGED <<observation, payload, version, cached>>
  BY DEF Begin, Commit, rows, cache
<1>2. CASE Begin
  BY <1>1, <1>2 DEF Begin, IInv, Consistent, Stamped, HitsAreCurrent, Hit, Joined, Current
<1>3. CASE Commit
  BY <1>1, <1>3 DEF Commit, IInv, Consistent, Stamped, HitsAreCurrent, Hit, Joined, Current
<1> QED
  BY <1>2, <1>3

(* Every step preserves the inductive invariant. *)
LEMMA NextInvariant == IInv /\ [Next]_vars => IInv'
<1> SUFFICES ASSUME IInv, [Next]_vars PROVE IInv'
  OBVIOUS
<1>1. CASE UNCHANGED vars
  BY <1>1 DEF vars, rows, cache, IInv, Consistent, Stamped, HitsAreCurrent, Hit, Joined, Current
<1>2. ASSUME NEW e \in Ends, Read(e) PROVE IInv'
  BY <1>2, ReadInvariant
<1>3. ASSUME NEW e \in Ends, Delete(e) PROVE IInv'
  BY <1>3, DeleteInvariant
<1>4. ASSUME NEW e \in Ends, NEW o \in Observations, Observe(e, o) PROVE IInv'
  BY <1>4, ObserveInvariant
<1>5. ASSUME NEW e \in Ends, NEW p \in Payloads, Store(e, p) \/ Touch(e, p) PROVE IInv'
  BY <1>5, PayloadInvariant
<1>6. CASE Begin \/ Commit
  BY <1>6, TransactionInvariant
<1>7. CASE Fail \/ Restart
  BY <1>7, RollbackInvariant
<1> QED
  BY <1>1, <1>2, <1>3, <1>4, <1>5, <1>6, <1>7 DEF Next

(* The strengthened invariant, that nothing is cached or stored under a    *)
(* version still to be given out, always holds.                            *)
THEOREM Inductive == Spec => []IInv
BY InitInvariant, NextInvariant, PTL DEF Spec

(* A record RecordReader.read takes from the cache is the record in the    *)
(* rows, through every history of writes, deletions and rollbacks.         *)
THEOREM CacheIsCurrent == Spec => []HitsAreCurrent
<1>1. IInv => HitsAreCurrent
  BY DEF IInv
<1> QED
  BY <1>1, Inductive, PTL

-----------------------------------------------------------------------------
(* The cache's account of itself.                                          *)

(* Each key is there once.                                                 *)
Once(keys) == \A i, j \in DOMAIN keys : keys[i] = keys[j] => i = j

(* What an entry counts for.                                               *)
Charge(k) == IF cached[k] = None THEN 0 ELSE Bytes(cached[k])

(* A removed key is gone, and the others stay in their order.              *)
LEMMA OthersStay ==
  ASSUME NEW keys \in Seq(Ends), Once(keys), NEW e \in Ends
  PROVE  /\ Others(keys, e) \in Seq(Ends) /\ Once(Others(keys, e))
         /\ Range(Others(keys, e)) = Range(keys) \ {e}
<1>1. CASE e \notin Range(keys)
  BY <1>1 DEF Others, Range
<1>2. CASE e \in Range(keys)
  <2> DEFINE at == CHOOSE i \in DOMAIN keys : keys[i] = e
             rest == [i \in 1 .. Len(keys) - 1 |-> keys[IF i < at THEN i ELSE i + 1]]
  <2>1. at \in DOMAIN keys /\ keys[at] = e
    BY <1>2 DEF Range
  <2>2. Others(keys, e) = RemoveAt(keys, at)
    BY <1>2 DEF Others
  <2> HIDE DEF at
  <2>3. at \in 1 .. Len(keys) /\ Len(keys) \in Nat
    BY <2>1
  <2>5. rest \in Seq(Ends) /\ Len(rest) = Len(keys) - 1
    BY <2>3
  <2>4. RemoveAt(keys, at) = rest
    <3> DEFINE before == SubSeq(keys, 1, at - 1)
               after == SubSeq(keys, at + 1, Len(keys))
    <3>1. /\ before \in Seq(Ends) /\ Len(before) = at - 1
          /\ \A i \in 1 .. at - 1 : before[i] = keys[i]
      BY <2>3, SubSeqProperties
    <3>2. /\ after \in Seq(Ends) /\ Len(after) = Len(keys) - at
          /\ \A i \in 1 .. Len(keys) - at : after[i] = keys[at + i]
      BY <2>3, SubSeqProperties
    <3>3. RemoveAt(keys, at) = before \o after
      BY DEF RemoveAt
    <3> HIDE DEF before, after
    <3>4. before \o after \in Seq(Ends) /\ Len(before \o after) = Len(keys) - 1
      <4>1. before \o after \in Seq(Ends) /\ Len(before \o after) = Len(before) + Len(after)
        BY <3>1, <3>2, ConcatProperties
      <4> QED
        BY <2>3, <3>1, <3>2, <4>1
    <3>5. ASSUME NEW i \in 1 .. Len(keys) - 1 PROVE (before \o after)[i] = rest[i]
      <4>1. (before \o after)[i] = IF i <= Len(before) THEN before[i] ELSE after[i - Len(before)]
        BY <2>3, <3>1, <3>2, <3>5, ConcatProperties
      <4>2. CASE i < at
        BY <2>3, <3>1, <4>1, <4>2
      <4>3. CASE ~(i < at)
        <5>1. i - (at - 1) \in 1 .. Len(keys) - at /\ ~(i <= at - 1) /\ at + (i - (at - 1)) = i + 1
          BY <2>3, <4>3
        <5> QED
          BY <3>1, <3>2, <4>1, <4>3, <5>1
      <4> QED
        BY <4>2, <4>3
    <3> HIDE DEF rest
    <3> QED
      BY <2>5, <3>3, <3>4, <3>5, SeqEqual
  <2>6. Once(rest)
    BY <2>3 DEF Once
  <2>7. \A i \in DOMAIN rest : rest[i] \in Range(keys) /\ rest[i] # e
    BY <2>1, <2>3 DEF Once, Range
  <2>8. ASSUME NEW k \in Range(keys) \ {e} PROVE k \in Range(rest)
    <3>1. PICK i \in DOMAIN keys : keys[i] = k /\ i # at
      BY <2>1, <2>8 DEF Range
    <3>2. CASE i < at
      <4>1. i \in DOMAIN rest /\ rest[i] = k
        BY <2>3, <3>1, <3>2
      <4> QED
        BY <4>1 DEF Range
    <3>3. CASE ~(i < at)
      <4>1. i - 1 \in DOMAIN rest /\ rest[i - 1] = k
        BY <2>3, <3>1, <3>3
      <4> QED
        BY <4>1 DEF Range
    <3> QED
      BY <3>2, <3>3
  <2>9. Range(rest) = Range(keys) \ {e}
    <3> HIDE DEF rest
    <3>1. Range(rest) \subseteq Range(keys) \ {e}
      BY <2>7 DEF Range
    <3> QED
      BY <2>8, <3>1
  <2> QED
    BY <2>2, <2>4, <2>5, <2>6, <2>9
<1> QED
  BY <1>1, <1>2

(* A key put at the end.                                                   *)
LEMMA AppendOnce ==
  ASSUME NEW keys \in Seq(Ends), Once(keys), NEW e \in Ends, e \notin Range(keys)
  PROVE  /\ Append(keys, e) \in Seq(Ends) /\ Once(Append(keys, e))
         /\ Range(Append(keys, e)) = Range(keys) \cup {e}
<1>1. /\ Append(keys, e) \in Seq(Ends) /\ Len(Append(keys, e)) = Len(keys) + 1
      /\ \A i \in 1 .. Len(keys) : Append(keys, e)[i] = keys[i]
      /\ Append(keys, e)[Len(keys) + 1] = e
      /\ DOMAIN Append(keys, e) = 1 .. Len(keys) + 1
  OBVIOUS
<1>2. \A i \in 1 .. Len(keys) : keys[i] # e
  BY DEF Range
<1>3. Once(Append(keys, e))
  BY <1>1, <1>2 DEF Once
<1>4. Range(Append(keys, e)) = Range(keys) \cup {e}
  BY <1>1 DEF Range
<1> QED
  BY <1>1, <1>3, <1>4

(* The keys after the first n.                                             *)
LEMMA SuffixOnce ==
  ASSUME NEW keys \in Seq(Ends), Once(keys), NEW n \in 0 .. Len(keys)
  PROVE  LET kept == SubSeq(keys, n + 1, Len(keys))
         IN  /\ kept \in Seq(Ends) /\ Once(kept)
             /\ Range(kept) = Range(keys) \ {keys[i] : i \in 1 .. n}
<1> DEFINE kept == SubSeq(keys, n + 1, Len(keys))
<1>1. /\ kept \in Seq(Ends) /\ Len(kept) = Len(keys) - n
      /\ \A i \in 1 .. Len(keys) - n : kept[i] = keys[n + i]
  BY SubSeqProperties
<1> HIDE DEF kept
<1>2. Once(kept)
  <2> SUFFICES ASSUME NEW i \in DOMAIN kept, NEW j \in DOMAIN kept, kept[i] = kept[j] PROVE i = j
    BY DEF Once
  <2>1. keys[n + i] = keys[n + j] /\ n + i \in DOMAIN keys /\ n + j \in DOMAIN keys
    BY <1>1
  <2>2. n + i = n + j
    BY <2>1 DEF Once
  <2> QED
    BY <1>1, <2>2
<1>3. Range(kept) \subseteq Range(keys) \ {keys[i] : i \in 1 .. n}
  <2> SUFFICES ASSUME NEW j \in DOMAIN kept
               PROVE  kept[j] \in Range(keys) /\ \A i \in 1 .. n : kept[j] # keys[i]
    BY DEF Range
  <2>1. kept[j] = keys[n + j] /\ n + j \in DOMAIN keys /\ \A i \in 1 .. n : i \in DOMAIN keys /\ i # n + j
    BY <1>1
  <2> QED
    BY <2>1 DEF Once, Range
<1>4. ASSUME NEW k \in Range(keys) \ {keys[i] : i \in 1 .. n} PROVE k \in Range(kept)
  <2>1. PICK i \in DOMAIN keys : keys[i] = k /\ i \notin 1 .. n
    BY <1>4 DEF Range
  <2>2. i - n \in DOMAIN kept /\ kept[i - n] = k
    BY <1>1, <2>1
  <2> QED
    BY <2>2 DEF Range
<1>5. Range(kept) = Range(keys) \ {keys[i] : i \in 1 .. n}
  BY <1>3, <1>4
<1> QED
  BY <1>1, <1>2, <1>5 DEF kept

(* The first keys weigh nothing, and each one more its own bytes.          *)
LEMMA BytesOfFirstGrow ==
  ASSUME NEW keys \in Seq(Ends), NEW n \in Nat,
         \A i \in DOMAIN keys : Bytes(cached[keys[i]]) \in Nat
  PROVE  /\ BytesOfFirst(keys, 0) = 0
         /\ n < Len(keys) =>
              /\ BytesOfFirst(keys, n) \in Nat
              /\ BytesOfFirst(keys, n + 1) = BytesOfFirst(keys, n) + Bytes(cached[keys[n + 1]])
<1> DEFINE f(m) == [i \in 1 .. m |-> Bytes(cached[keys[i]])]
<1>1. BytesOfFirst(keys, 0) = 0
  <2>1. f(0) \in [1 .. 0 -> Nat] /\ IsFiniteSet(1 .. 0) /\ \A i \in 1 .. 0 : f(0)[i] = 0
    BY FS_Interval
  <2> DEFINE g == f(0)
  <2> HIDE DEF g
  <2>2. SumFunction(g) = 0
    BY <2>1, SumVanishes DEF g
  <2> QED
    BY <2>2 DEF BytesOfFirst, g
<1>2. ASSUME n < Len(keys)
      PROVE  /\ BytesOfFirst(keys, n) \in Nat
             /\ BytesOfFirst(keys, n + 1) = BytesOfFirst(keys, n) + Bytes(cached[keys[n + 1]])
  <2> DEFINE g == f(n)
             h == f(n + 1)
             S == 1 .. n
             x == n + 1
  <2>1. IsFiniteSet(S) /\ x \notin S
    <3>1. 1 \in Int /\ n \in Int
      OBVIOUS
    <3>2. IsFiniteSet(S)
      BY <3>1, FS_Interval
    <3> QED
      BY <3>2
  <2>5. g \in [S -> Nat]
    BY <1>2
  <2>2. h \in [S \cup {x} -> Nat]
    BY <1>2
  <2>8. \A i \in S : h[i] = g[i]
    OBVIOUS
  <2>3. h[x] = Bytes(cached[keys[n + 1]])
    BY <1>2
  <2>4. BytesOfFirst(keys, n) = SumFunction(g) /\ BytesOfFirst(keys, n + 1) = SumFunction(h)
    BY DEF BytesOfFirst
  <2> HIDE DEF g, h, S, x
  <2>6. SumFunction(g) \in Nat
    BY <2>1, <2>5, SumIsNumber
  <2>7. SumFunction(h) = SumFunction(g) + h[x]
    BY <2>1, <2>2, <2>5, <2>8, SumGrows, ZenonT(30)
  <2> QED
    BY <2>3, <2>4, <2>6, <2>7
<1> QED
  BY <1>1, <1>2

(* What is cached without e and the first n of keys.                       *)
Without(e, keys, n) ==
  [k \in Ends |-> IF k = e \/ k \in {keys[i] : i \in 1 .. n} THEN 0 ELSE Charge(k)]

(* Cached entries have a size.                                             *)
LEMMA ChargesAreNumbers ==
  ASSUME IInv
  PROVE  /\ \A k \in Ends : Charge(k) \in Nat /\ (cached[k] # None => Bytes(cached[k]) \in Nat)
         /\ Charged = SumFunction([k \in Ends |-> Charge(k)])
<1>1. ASSUME NEW k \in Ends, cached[k] # None PROVE Bytes(cached[k]) \in Nat
  <2>1. cached[k] \in [versions : Nat \X Nat, record : Observations \X Payloads]
    BY <1>1 DEF IInv, Entries
  <2>2. cached[k].record[2] \in Payloads
    BY <2>1
  <2> QED
    BY <2>2, HotCacheAssumption DEF Bytes
<1> QED
  BY <1>1 DEF Charge, Charged

(* There are finitely many keys to sum over.                               *)
LEMMA EndsFinite == IsFiniteSet(Ends)
  BY HotCacheAssumption

(* What is evicted and what stays add up to what there was, but for e.     *)
LEMMA EvictionsBalance ==
  ASSUME IInv, TypeOK, NEW e \in Ends
  PROVE  LET keys == Others(order, e)
         IN  /\ RetainedWithout(e) \in Nat /\ RetainedWithout(e) <= retained
             /\ \A n \in 0 .. Len(keys) :
                  /\ Without(e, keys, n) \in [Ends -> Nat]
                  /\ SumFunction(Without(e, keys, n)) \in Nat
                  /\ BytesOfFirst(keys, n) \in Nat
                  /\ SumFunction(Without(e, keys, n)) + BytesOfFirst(keys, n) = RetainedWithout(e)
             /\ BytesOfFirst(keys, Len(keys)) = RetainedWithout(e)
<1> DEFINE keys == Others(order, e)
           left == RetainedWithout(e)
           W(n) == Without(e, keys, n)
           all == [k \in Ends |-> Charge(k)]
           last == Len(keys)
<1>1. keys \in Seq(Ends) /\ Once(keys) /\ Range(keys) = Range(order) \ {e}
  BY OthersStay DEF TypeOK, Once
<1>2. /\ \A i \in DOMAIN keys : keys[i] \in Ends /\ keys[i] # e /\ cached[keys[i]] # None
      /\ \A k \in Ends : k # e /\ cached[k] # None => k \in Range(keys)
      /\ last \in Nat /\ DOMAIN keys = 1 .. last
  <2>1. last \in Nat /\ DOMAIN keys = 1 .. last
    BY <1>1
  <2>2. ASSUME NEW k \in Ends, k # e, cached[k] # None PROVE k \in Range(keys)
    BY <1>1, <2>2 DEF TypeOK
  <2>3. ASSUME NEW i \in DOMAIN keys
        PROVE  keys[i] \in Ends /\ keys[i] # e /\ cached[keys[i]] # None
    <3>1. keys[i] \in Range(keys)
      BY DEF Range
    <3>2. keys[i] \in Range(order) /\ keys[i] # e /\ keys[i] \in Ends
      <4>1. keys[i] \in Ends
        BY <1>1, <2>1
      <4> QED
        BY <1>1, <3>1, <4>1
    <3> QED
      BY <3>2 DEF TypeOK
  <2> HIDE DEF keys
  <2> QED
    BY <2>1, <2>2, <2>3
<1> HIDE DEF keys
<1>3. /\ \A k \in Ends : Charge(k) \in Nat /\ (cached[k] # None => Bytes(cached[k]) \in Nat)
      /\ Charged = SumFunction(all)
  BY ChargesAreNumbers
<1>4. \A n \in Nat : W(n) \in [Ends -> Nat]
  BY <1>3 DEF Without
<1>5. \A n \in Nat : SumFunction(W(n)) \in Nat
  <2> SUFFICES ASSUME NEW n \in Nat PROVE SumFunction(W(n)) \in Nat
    OBVIOUS
  <2> DEFINE g == W(n)
  <2>1. g \in [Ends -> Nat]
    BY <1>4
  <2> HIDE DEF g
  <2>2. SumFunction(g) \in Nat
    BY <2>1, HotCacheAssumption, SumIsNumber
  <2> QED
    BY <2>2 DEF g
<1>6. left \in Nat /\ left <= retained /\ SumFunction(W(0)) = left
  <2> DEFINE g == W(0)
             f == all
  <2>1. g \in [Ends -> Nat] /\ f \in [Ends -> Nat]
    BY <1>3, <1>4
  <2>2. \A k \in Ends \ {e} : g[k] = f[k]
    BY DEF Without
  <2>3. g[e] = 0 /\ f[e] = Charge(e) /\ SumFunction(f) = retained
    BY <1>3 DEF Without, TypeOK
  <2>5. SumFunction(g) \in Nat
    BY <1>5
  <2> HIDE DEF g, f
  <2>6. SumFunction(g) + f[e] = SumFunction(f) + g[e]
    BY <2>1, <2>2, EndsFinite, SumChanges
  <2>7. SumFunction(f) \in Nat
    BY <2>1, HotCacheAssumption, SumIsNumber
  <2>8. left = SumFunction(g) /\ left <= retained
    <3>1. left = retained - Charge(e)
      BY <1>3, <2>3, <2>7 DEF RetainedWithout, Charge
    <3> HIDE DEF left
    <3> QED
      BY <1>3, <2>3, <2>5, <2>6, <2>7, <3>1
  <2> QED
    BY <2>5, <2>8 DEF g
<1>7. \A n \in Nat : n < last =>
        /\ BytesOfFirst(keys, n) \in Nat
        /\ BytesOfFirst(keys, n + 1) = BytesOfFirst(keys, n) + Charge(keys[n + 1])
  <2> SUFFICES ASSUME NEW n \in Nat, n < last
               PROVE  /\ BytesOfFirst(keys, n) \in Nat
                      /\ BytesOfFirst(keys, n + 1) = BytesOfFirst(keys, n) + Charge(keys[n + 1])
    OBVIOUS
  <2>1. n + 1 \in DOMAIN keys
    BY <1>2
  <2>2. \A i \in DOMAIN keys : Bytes(cached[keys[i]]) \in Nat
    BY <1>2, <1>3
  <2> QED
    BY <1>1, <1>2, <2>1, <2>2, BytesOfFirstGrow DEF Charge
<1>8. BytesOfFirst(keys, 0) = 0
  <2>1. \A i \in DOMAIN keys : Bytes(cached[keys[i]]) \in Nat
    BY <1>2, <1>3
  <2> QED
    BY <1>1, <2>1, BytesOfFirstGrow
<1>9. \A n \in Nat : n < last =>
        SumFunction(W(n + 1)) + Charge(keys[n + 1]) = SumFunction(W(n))
  <2> SUFFICES ASSUME NEW n \in Nat, n < last
               PROVE  SumFunction(W(n + 1)) + Charge(keys[n + 1]) = SumFunction(W(n))
    OBVIOUS
  <2> DEFINE f == W(n)
             g == W(n + 1)
             x == keys[n + 1]
  <2>1. n + 1 \in 1 .. last /\ x \in Ends /\ x # e
    BY <1>2
  <2>2. x \notin {keys[i] : i \in 1 .. n}
    BY <1>1, <1>2, <2>1 DEF Once
  <2>3. {keys[i] : i \in 1 .. n + 1} = {keys[i] : i \in 1 .. n} \cup {x}
    OBVIOUS
  <2>4. f \in [Ends -> Nat] /\ g \in [Ends -> Nat]
    <3>1. n + 1 \in Nat
      OBVIOUS
    <3> HIDE DEF W
    <3> QED
      BY <1>4, <3>1
  <2>5. \A k \in Ends \ {x} : g[k] = f[k]
    BY <2>3, Zenon DEF Without
  <2>6. f[x] = Charge(x) /\ g[x] = 0
    BY <2>1, <2>2, <2>3 DEF Without
  <2> HIDE DEF f, g, x
  <2>7. SumFunction(g) + f[x] = SumFunction(f) + g[x]
    BY <2>1, <2>4, <2>5, EndsFinite, SumChanges
  <2>8. SumFunction(f) \in Nat
    BY <2>4, HotCacheAssumption, SumIsNumber
  <2>9. SumFunction(g) + Charge(x) = SumFunction(f)
    BY <2>6, <2>7, <2>8
  <2> QED
    BY <2>9 DEF f, g, x
<1> DEFINE Good(n) == BytesOfFirst(keys, n) \in Nat
                      /\ SumFunction(W(n)) + BytesOfFirst(keys, n) = left
<1>10. \A n \in 0 .. last : Good(n)
  <2> DEFINE T == {n \in Nat : n <= last => Good(n)}
  <2> HIDE DEF W, left, last
  <2>1. 0 \in T
    BY <1>6, <1>8
  <2>2. ASSUME NEW n \in Nat, n \in T PROVE n + 1 \in T
    <3> SUFFICES ASSUME n + 1 <= last PROVE Good(n + 1)
      OBVIOUS
    <3>1. n < last /\ Good(n) /\ n + 1 \in 1 .. last /\ n + 1 \in Nat
      BY <2>2, <1>2
    <3>2. keys[n + 1] \in Ends
      BY <1>2, <3>1
    <3>3. Charge(keys[n + 1]) \in Nat
      BY <1>3, <3>2
    <3>4. BytesOfFirst(keys, n + 1) = BytesOfFirst(keys, n) + Charge(keys[n + 1])
      BY <1>7, <3>1
    <3>5. SumFunction(W(n + 1)) + Charge(keys[n + 1]) = SumFunction(W(n))
      BY <1>9, <3>1
    <3>6. SumFunction(W(n + 1)) \in Nat /\ SumFunction(W(n)) \in Nat
      BY <1>5, <3>1
    <3> QED
      BY <3>1, <3>3, <3>4, <3>5, <3>6
  <2>3. Nat \subseteq T
    <3> HIDE DEF T
    <3> QED
      BY <2>1, <2>2, EveryNumber
  <2> HIDE DEF Good
  <2> QED
    BY <2>3, <1>2
<1>11. SumFunction(W(last)) = 0
  <2> DEFINE g == W(last)
  <2>1. g \in [Ends -> Nat]
    BY <1>4, <1>2
  <2>2. \A k \in Ends : g[k] = 0
    BY <1>2 DEF Without, Charge, Range
  <2> HIDE DEF g
  <2>3. SumFunction(g) = 0
    BY <2>1, <2>2, HotCacheAssumption, SumVanishes
  <2> QED
    BY <2>3 DEF g
<1>12. BytesOfFirst(keys, last) = left
  <2> HIDE DEF W, left, last
  <2>1. Good(last)
    BY <1>2, <1>10
  <2> QED
    BY <1>6, <1>11, <2>1
<1> HIDE DEF W, left, last
<1>13. \A n \in 0 .. last : n \in Nat
  BY <1>2
<1>14. \A n \in 0 .. last :
         W(n) \in [Ends -> Nat] /\ SumFunction(W(n)) \in Nat /\ Good(n)
  <2> HIDE DEF Good
  <2> QED
    BY <1>4, <1>5, <1>10, <1>13
<1> QED
  BY <1>6, <1>12, <1>14, Zenon DEF W, left, last, keys

(* What is read from the rows is an entry with a size.                     *)
LEMMA CurrentHasSize ==
  ASSUME IInv, NEW e \in Ends, Joined(e)
  PROVE  Current(e) # None /\ Bytes(Current(e)) \in Nat
<1>1. /\ observation[e] \in [value : Observations, version : Nat]
      /\ payload[e] \in [value : Payloads, version : Nat]
  BY RowRead DEF IInv, Joined
<1>2. Current(e) \in [versions : Nat \X Nat, record : Observations \X Payloads]
  BY <1>1 DEF Current
<1>3. Bytes(Current(e)) = Size(payload[e].value)
  BY DEF Bytes, Current
<1> QED
  BY <1>1, <1>2, <1>3, HotCacheAssumption

(* The part of TypeOK that is about the cache.                             *)
Accounted ==
  /\ order \in Seq(Ends)
  /\ \A e \in Ends : cached[e] # None <=> e \in Range(order)
  /\ Once(order)
  /\ retained = Charged
  /\ retained <= MemoryBytes

(* The least number of evictions that lets an entry fit.                   *)
LEMMA SomeEvictionsFit ==
  ASSUME IInv, TypeOK, NEW e \in Ends, NEW bytes \in Nat, bytes <= MemoryBytes
  PROVE  LET keys == Others(order, e)
             fits == {n \in 0..Len(keys) :
                        RetainedWithout(e) + bytes <= MemoryBytes + BytesOfFirst(keys, n)}
         IN  Min(fits) \in fits
<1> DEFINE keys == Others(order, e)
           left == RetainedWithout(e)
           fits == {n \in 0..Len(keys) : left + bytes <= MemoryBytes + BytesOfFirst(keys, n)}
<1>1. keys \in Seq(Ends)
  BY OthersStay DEF TypeOK, Once
<1>2. BytesOfFirst(keys, Len(keys)) = left /\ left \in Nat
  BY EvictionsBalance
<1>3. Len(keys) \in 0 .. Len(keys) /\ Len(keys) \in Nat
  <2> HIDE DEF keys
  <2> QED
    BY <1>1
<1>4. Len(keys) \in fits
  <2> HIDE DEF keys, left
  <2> QED
    BY <1>2, <1>3, HotCacheAssumption
<1>5. fits \subseteq Nat
  <2> HIDE DEF keys, left
  <2> QED
    BY <1>3
<1> HIDE DEF fits
<1>6. \E least \in fits : \A n \in fits : least <= n
  BY <1>4, <1>5, LeastNumber
<1>7. Min(fits) \in fits
  BY <1>6, Zenon DEF Min
<1> QED
  BY <1>7 DEF fits

(* An entry that fits no cache takes out the one it replaces.              *)
LEMMA RefusalAccounted ==
  ASSUME IInv, TypeOK, NEW e \in Ends, NEW entry, Set(e, entry), Bytes(entry) > MemoryBytes
  PROVE  Accounted'
<1> DEFINE keys == Others(order, e)
           left == RetainedWithout(e)
           W == Without(e, keys, 0)
           charges == [k \in Ends |-> IF cached'[k] = None THEN 0 ELSE Bytes(cached'[k])]
<1>1. cached' = [cached EXCEPT ![e] = None] /\ order' = keys /\ retained' = left
  BY DEF Set
<1>2. keys \in Seq(Ends) /\ Once(keys) /\ Range(keys) = Range(order) \ {e}
  BY OthersStay DEF TypeOK, Once
<1>3. charges = W
  BY <1>1 DEF IInv, Without, Charge
<1>4. left \in Nat /\ left <= retained /\ SumFunction(W) = left
  <2>1. 0 \in 0 .. Len(keys)
    <3> HIDE DEF keys
    <3> QED
      BY <1>2
  <2>2. left \in Nat /\ left <= retained /\ SumFunction(W) \in Nat
        /\ SumFunction(W) + BytesOfFirst(keys, 0) = left
    BY <2>1, EvictionsBalance
  <2>3. BytesOfFirst(keys, 0) = 0
    <3>1. \A i \in DOMAIN keys : Bytes(cached[keys[i]]) \in Nat
      <4>1. \A i \in DOMAIN keys : keys[i] \in Range(order) /\ keys[i] \in Ends
        <5> HIDE DEF keys
        <5>1. \A i \in DOMAIN keys : keys[i] \in Range(keys)
          BY DEF Range
        <5>2. \A i \in DOMAIN keys : keys[i] \in Ends
          BY <1>2
        <5> QED
          BY <1>2, <5>1, <5>2
      <4> QED
        BY <4>1, ChargesAreNumbers DEF TypeOK
    <3> QED
      BY <1>2, <3>1, BytesOfFirstGrow
  <2> HIDE DEF left, W, keys
  <2> QED
    BY <2>2, <2>3
<1>5. Charged' = SumFunction(charges)
  BY DEF Charged, Bytes
<1>6. retained \in Nat
  <2>1. retained = SumFunction([k \in Ends |-> Charge(k)])
    BY ChargesAreNumbers DEF TypeOK
  <2> DEFINE f == [k \in Ends |-> Charge(k)]
  <2>2. f \in [Ends -> Nat]
    BY ChargesAreNumbers
  <2> HIDE DEF f
  <2>3. SumFunction(f) \in Nat
    BY <2>2, EndsFinite, SumIsNumber
  <2> QED
    BY <2>1, <2>3 DEF f
<1> HIDE DEF charges, left, W, keys
<1>7. retained' <= MemoryBytes
  BY <1>1, <1>4, <1>6, HotCacheAssumption DEF TypeOK
<1>8. \A k \in Ends : cached'[k] # None <=> k \in Range(order')
  BY <1>1, <1>2 DEF TypeOK, IInv
<1> QED
  BY <1>1, <1>2, <1>3, <1>4, <1>5, <1>7, <1>8 DEF Accounted, Once

(* An entry that fits evicts as many others as it takes.                   *)
LEMMA EntryAccounted ==
  ASSUME IInv, TypeOK, NEW e \in Ends, NEW entry, entry # None, Bytes(entry) \in Nat,
         Set(e, entry), ~(Bytes(entry) > MemoryBytes)
  PROVE  Accounted'
<1> DEFINE keys == Others(order, e)
           left == RetainedWithout(e)
           bytes == Bytes(entry)
           fits == {n \in 0..Len(keys) : left + bytes <= MemoryBytes + BytesOfFirst(keys, n)}
           m == Min(fits)
           kept == SubSeq(keys, m + 1, Len(keys))
           W == Without(e, keys, m)
           charges == [k \in Ends |-> IF cached'[k] = None THEN 0 ELSE Bytes(cached'[k])]
<1>1. /\ cached' = [k \in Ends |-> IF k = e THEN entry
                                  ELSE IF k \in Range(kept) THEN cached[k]
                                  ELSE None]
      /\ order' = Append(kept, e)
      /\ retained' = left - BytesOfFirst(keys, m) + bytes
  BY DEF Set
<1>2. keys \in Seq(Ends) /\ Once(keys) /\ Range(keys) = Range(order) \ {e}
  BY OthersStay DEF TypeOK, Once
<1>3. bytes \in Nat /\ bytes <= MemoryBytes
  BY HotCacheAssumption
<1>4. m \in fits
  <2> HIDE DEF bytes
  <2> QED
    BY <1>3, SomeEvictionsFit
<1>5. m \in 0 .. Len(keys) /\ left + bytes <= MemoryBytes + BytesOfFirst(keys, m)
  BY <1>4
<1> HIDE DEF m
<1>6. /\ left \in Nat /\ W \in [Ends -> Nat] /\ SumFunction(W) \in Nat
      /\ BytesOfFirst(keys, m) \in Nat
      /\ SumFunction(W) + BytesOfFirst(keys, m) = left
  BY <1>5, EvictionsBalance
<1>7. kept \in Seq(Ends) /\ Once(kept) /\ Range(kept) = Range(keys) \ {keys[i] : i \in 1 .. m}
  <2> HIDE DEF keys
  <2> QED
    BY <1>2, <1>5, SuffixOnce
<1> HIDE DEF kept
<1>8. order' \in Seq(Ends) /\ Once(order') /\ Range(order') = Range(kept) \cup {e}
  <2>1. e \notin Range(kept)
    BY <1>2, <1>7
  <2> QED
    BY <1>1, <1>7, <2>1, AppendOnce
<1>9. \A k \in Ends : cached'[k] # None <=> k \in Range(order')
  <2>1. \A k \in Range(kept) : cached[k] # None \/ k \notin Ends
    BY <1>2, <1>7 DEF TypeOK
  <2> QED
    BY <1>1, <1>8, <2>1
<1>10. charges \in [Ends -> Nat] /\ charges[e] = bytes /\ \A k \in Ends \ {e} : charges[k] = W[k]
  <2>1. charges[e] = bytes
    BY <1>1
  <2>2. ASSUME NEW k \in Ends \ {e} PROVE charges[k] = W[k]
    <3>1. CASE k \in Range(kept)
      <4>1. cached'[k] = cached[k] /\ k \notin {keys[i] : i \in 1 .. m}
        BY <1>1, <1>7, <3>1
      <4> QED
        BY <4>1 DEF Without, Charge
    <3>2. CASE k \notin Range(kept)
      <4>1. cached'[k] = None
        BY <1>1, <3>2
      <4>2. k \in {keys[i] : i \in 1 .. m} \/ cached[k] = None
        BY <1>2, <1>7, <3>2 DEF TypeOK
      <4> QED
        BY <4>1, <4>2 DEF Without, Charge
    <3> QED
      BY <3>1, <3>2
  <2>3. \A k \in Ends : charges[k] \in Nat
    <3> HIDE DEF W, charges, bytes
    <3> QED
      BY <1>3, <1>6, <2>1, <2>2
  <2> QED
    BY <2>1, <2>2, <2>3
<1>11. W[e] = 0
  BY DEF Without
<1>12. Charged' = SumFunction(charges)
  BY DEF Charged, Bytes
<1> HIDE DEF charges, W, left, bytes, keys
<1>13. SumFunction(charges) + W[e] = SumFunction(W) + charges[e]
  BY <1>6, <1>10, EndsFinite, SumChanges
<1>14. SumFunction(charges) \in Nat
  BY <1>10, EndsFinite, SumIsNumber
<1>15. retained' = SumFunction(charges) /\ retained' <= MemoryBytes
  <2>1. retained' = left - BytesOfFirst(keys, m) + bytes /\ MemoryBytes \in Nat
    BY <1>1, HotCacheAssumption
  <2>2. SumFunction(charges) = SumFunction(W) + bytes
    BY <1>3, <1>6, <1>10, <1>11, <1>13, <1>14
  <2> QED
    <3> DEFINE sum == SumFunction(W)
               gone == BytesOfFirst(keys, m)
    <3>1. /\ sum \in Nat /\ gone \in Nat /\ left \in Nat /\ bytes \in Nat
          /\ sum + gone = left /\ left + bytes <= MemoryBytes + gone
      BY <1>3, <1>5, <1>6
    <3>2. retained' = left - gone + bytes /\ SumFunction(charges) = sum + bytes
      BY <2>1, <2>2
    <3> HIDE DEF sum, gone
    <3>3. left - gone + bytes = sum + bytes /\ sum + bytes <= MemoryBytes
      BY <2>1, <3>1
    <3> QED
      BY <3>2, <3>3
<1> QED
  BY <1>8, <1>9, <1>12, <1>15 DEF Accounted, Once

(* get moves the entry to the end.                                         *)
LEMMA UseAccounted ==
  ASSUME IInv, TypeOK, NEW e \in Ends, cached[e] # None, Used(e)
  PROVE  Accounted'
<1> DEFINE keys == Others(order, e)
<1>1. keys \in Seq(Ends) /\ Once(keys) /\ Range(keys) = Range(order) \ {e}
  BY OthersStay DEF TypeOK, Once
<1>2. order' = Append(keys, e) /\ cached' = cached /\ retained' = retained
  BY DEF Used
<1> HIDE DEF keys
<1>3. order' \in Seq(Ends) /\ Once(order') /\ Range(order') = Range(order) \cup {e}
  BY <1>1, <1>2, AppendOnce
<1>4. Charged' = Charged
  BY <1>2 DEF Charged
<1>5. \A k \in Ends : cached'[k] # None <=> k \in Range(order')
  BY <1>2, <1>3 DEF TypeOK
<1> QED
  BY <1>2, <1>3, <1>4, <1>5 DEF TypeOK, Accounted, Once

(* An empty cache is in order.                                             *)
LEMMA EmptyAccounted ==
  ASSUME NEW entries, entries = [e \in Ends |-> None]
  PROVE  SumFunction([e \in Ends |-> IF entries[e] = None THEN 0 ELSE Bytes(entries[e])]) = 0
<1> DEFINE f == [e \in Ends |-> IF entries[e] = None THEN 0 ELSE Bytes(entries[e])]
<1>1. f \in [Ends -> Nat] /\ \A e \in Ends : f[e] = 0
  OBVIOUS
<1> HIDE DEF f
<1>2. SumFunction(f) = 0
  BY <1>1, EndsFinite, SumVanishes
<1> QED
  BY <1>2 DEF f

LEMMA InitTyped == Init => TypeOK
<1> SUFFICES ASSUME Init PROVE TypeOK
  OBVIOUS
<1>1. Charged = 0
  BY EmptyAccounted DEF Init, Charged
<1>2. order = <<>> /\ Range(order) = {}
  BY DEF Init, Range
<1> QED
  BY <1>1, <1>2, EmptySeq, HotCacheAssumption DEF Init, TypeOK

(* A read leaves the transaction and accounts for what it cached.          *)
LEMMA ReadTyped ==
  ASSUME IInv, TypeOK, NEW e \in Ends, Read(e)
  PROVE  TypeOK'
<1>1. Joined(e) /\ UNCHANGED <<txn, saved>>
  BY DEF Read
<1>2. Accounted'
  <2>1. CASE Hit(e)
    BY <2>1, UseAccounted DEF Read, Hit
  <2>2. CASE ~Hit(e)
    <3>1. Set(e, Current(e))
      BY <2>2 DEF Read
    <3>2. Current(e) # None /\ Bytes(Current(e)) \in Nat
      BY <1>1, CurrentHasSize
    <3> DEFINE entry == Current(e)
    <3> HIDE DEF entry
    <3>3. Set(e, entry) /\ entry # None /\ Bytes(entry) \in Nat
      BY <3>1, <3>2 DEF entry
    <3>4. CASE Bytes(entry) > MemoryBytes
      BY <3>3, <3>4, RefusalAccounted
    <3>5. CASE ~(Bytes(entry) > MemoryBytes)
      BY <3>3, <3>5, EntryAccounted
    <3> QED
      BY <3>4, <3>5
  <2> QED
    BY <2>1, <2>2
<1> QED
  BY <1>1, <1>2 DEF TypeOK, Accounted, Once

(* Writing rows leaves the cache as it is.                                 *)
LEMMA WriteTyped ==
  ASSUME TypeOK, UNCHANGED cache, txn \in {"reading", "writing"}, txn' = "writing",
         UNCHANGED saved
  PROVE  TypeOK'
BY DEF TypeOK, cache, Charged

LEMMA NextTyped == IInv /\ TypeOK /\ [Next]_vars => TypeOK'
<1> SUFFICES ASSUME IInv, TypeOK, [Next]_vars PROVE TypeOK'
  OBVIOUS
<1>1. CASE UNCHANGED vars
  BY <1>1 DEF vars, cache, TypeOK, Charged
<1>2. ASSUME NEW e \in Ends, Read(e) PROVE TypeOK'
  BY <1>2, ReadTyped
<1>3. ASSUME NEW e \in Ends, Delete(e) PROVE TypeOK'
  BY <1>3, WriteTyped DEF Delete, cache
<1>4. ASSUME NEW e \in Ends, NEW o \in Observations, Observe(e, o) PROVE TypeOK'
  BY <1>4, WriteTyped DEF Observe, Writes
<1>5. ASSUME NEW e \in Ends, NEW p \in Payloads, Store(e, p) \/ Touch(e, p) PROVE TypeOK'
  BY <1>5, WriteTyped DEF Store, Touch, Writes
<1>6. CASE Begin
  <2>1. [observation |-> observation, payload |-> payload, version |-> version] \in Snapshots
    BY DEF IInv, Consistent, Snapshots
  <2> QED
    BY <1>6, <2>1 DEF Begin, TypeOK, cache, Charged
<1>7. CASE Commit
  BY <1>7 DEF Commit, TypeOK, cache, Charged
<1>8. CASE Fail \/ Restart
  <2>1. txn' \in {"none", "failed"} /\ saved' = None /\ Cleared
    BY <1>8 DEF Fail, Restart, Restored
  <2>2. Charged' = 0
    BY <2>1, EmptyAccounted DEF Cleared, Charged
  <2>3. order' = <<>> /\ Range(order') = {}
    BY <2>1 DEF Cleared, Range
  <2> QED
    BY <2>1, <2>2, <2>3, EmptySeq, HotCacheAssumption DEF Cleared, TypeOK
<1> QED
  BY <1>1, <1>2, <1>3, <1>4, <1>5, <1>6, <1>7, <1>8 DEF Next

(* The order names each cached record once, and the bytes retained are     *)
(* what the records were charged with and never above the limit, through   *)
(* every use, replacement, refusal, eviction and clearing.                 *)
THEOREM AccountIsKept == Spec => []TypeOK
BY InitTyped, NextTyped, Inductive, PTL DEF Spec

=============================================================================
