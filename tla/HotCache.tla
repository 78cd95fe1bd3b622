-------------------------------- MODULE HotCache --------------------------------
(***************************************************************************)
(* The hot cache of replay records in front of the ledger's rows.  A       *)
(* record joins an observation and a payload; a cached record is used as   *)
(* long as the versions of both rows are those it was read at.  Triggers   *)
(* stamp every row written with the next value of one counter, which is    *)
(* itself a row and goes back with the transaction that advanced it.       *)
(* Records are read outside of transactions, and inside of one before it   *)
(* writes any of these rows.                                               *)
(***************************************************************************)
EXTENDS Naturals, Sequences, SequencesExt

CONSTANTS
  Ends,         \* the records' keys: end digests of one scope
  Observations, \* what the row of an observation may say
  Payloads,     \* what the row of a payload may say
  Size(_),      \* the bytes a payload is charged with
  MemoryBytes,  \* the cache's limit
  MaxVersion,   \* bound: row versions given out
  None

ASSUME HotCacheAssumption ==
  /\ IsFiniteSet(Ends)
  /\ MemoryBytes \in Nat /\ MaxVersion \in Nat
  /\ \A p \in Payloads : Size(p) \in Nat
  /\ None \notin [value : Observations \cup Payloads, version : Nat]
  /\ None \notin [versions : Nat \X Nat, record : Observations \X Payloads]

VARIABLES
  observation, \* the rows of observations: None, or their value and row_version
  payload,     \* the rows of payloads
  version,     \* metadata's record-version
  txn,         \* no transaction, it has written no row yet, it has
  saved,       \* the rows and the counter a rollback returns to
  cached,      \* entries: None, or the versions and the record read
  order,       \* the keys of entries, the one unused for longest first
  retained     \* SizedHotCache.bytes

rows == <<observation, payload, version>>

cache == <<cached, order, retained>>

vars == <<rows, txn, saved, cache>>

-----------------------------------------------------------------------------
(* SizedHotCache.                                                          *)

Bytes(entry) == Size(entry.record[2])

(* delete: a Map holds a key once. *)
Others(keys, e) ==
  IF e \in Range(keys) THEN RemoveAt(keys, CHOOSE i \in DOMAIN keys : keys[i] = e) ELSE keys

(* get takes the entry out and puts it back at the end. *)
Used(e) ==
  /\ order' = Append(Others(order, e), e)
  /\ UNCHANGED <<cached, retained>>

RetainedWithReplaced(e) == retained

RetainedWithout(e) == IF cached[e] = None THEN retained ELSE retained - Bytes(cached[e])

(* The bytes of the first n keys. *)
BytesOfFirst(keys, n) == SumFunction([i \in 1..n |-> Bytes(cached[keys[i]])])

(* set: the entry under the same key goes first, then as many of the       *)
(* others, in their order, as the new one needs to fit.                    *)
Set(e, entry) ==
  LET keys == Others(order, e)
      left == RetainedWithout(e)
      fits == {n \in 0..Len(keys) : left + Bytes(entry) <= MemoryBytes + BytesOfFirst(keys, n)}
      kept == SubSeq(keys, Min(fits) + 1, Len(keys))
  IN IF Bytes(entry) > MemoryBytes
     THEN /\ cached' = [cached EXCEPT ![e] = None]
          /\ order' = keys
          /\ retained' = left
     ELSE /\ cached' = [k \in Ends |-> IF k = e THEN entry
                                       ELSE IF k \in Range(kept) THEN cached[k]
                                       ELSE None]
          /\ order' = Append(kept, e)
          /\ retained' = left - BytesOfFirst(keys, Min(fits)) + Bytes(entry)

Cleared ==
  /\ cached' = [e \in Ends |-> None]
  /\ order' = <<>>
  /\ retained' = 0

-----------------------------------------------------------------------------
(* RecordReader.read.                                                      *)

Joined(e) == observation[e] # None /\ payload[e] # None

(* What a read of the rows returns. *)
Current(e) ==
  [versions |-> <<observation[e].version, payload[e].version>>,
   record |-> <<observation[e].value, payload[e].value>>]

Hit(e) == cached[e] # None /\ cached[e].versions = Current(e).versions

Read(e) ==
  /\ txn \in {"none", "reading"}
  /\ Joined(e)
  /\ IF Hit(e) THEN Used(e) ELSE Set(e, Current(e))
  /\ UNCHANGED <<rows, txn, saved>>

-----------------------------------------------------------------------------
(* Transactions.                                                           *)

Begin ==
  /\ txn = "none"
  /\ txn' = "reading"
  /\ saved' = [observation |-> observation, payload |-> payload, version |-> version]
  /\ UNCHANGED <<rows, cache>>

VersionOfItsOwn(row) == IF row = None THEN 1 ELSE row.version + 1

(* The triggers after INSERT and UPDATE. *)
NextVersion(row) == version + 1

Writes ==
  /\ txn \in {"reading", "writing"} /\ version < MaxVersion
  /\ txn' = "writing"
  /\ version' = version + 1
  /\ UNCHANGED <<saved, cache>>

(* publishObservation's row of the turn, new or met again; also the reset  *)
(* of its replayable column, which leaves the record as it is.             *)
Observe(e, o) ==
  /\ Writes
  /\ observation' = [observation EXCEPT ![e] = [value |-> o, version |-> NextVersion(@)]]
  /\ UNCHANGED payload

(* Its payload, if the turn is replayable. *)
Store(e, p) ==
  /\ Writes
  /\ observation[e] # None
  /\ payload' = [payload EXCEPT ![e] = [value |-> p, version |-> NextVersion(@)]]
  /\ UNCHANGED observation

(* touchRecords: touched_at changes, not the size. *)
Touch(e, p) ==
  /\ Writes
  /\ payload[e] # None /\ Size(p) = Size(payload[e].value)
  /\ payload' = [payload EXCEPT ![e] = [value |-> p, version |-> NextVersion(@)]]
  /\ UNCHANGED observation

(* cleanup deletes payloads, of which the cache hears nothing. *)
Delete(e) ==
  /\ txn \in {"reading", "writing"}
  /\ payload[e] # None
  /\ txn' = "writing"
  /\ payload' = [payload EXCEPT ![e] = None]
  /\ UNCHANGED <<observation, version, saved, cache>>

Commit ==
  /\ txn \in {"reading", "writing"}
  /\ txn' = "none"
  /\ saved' = None
  /\ UNCHANGED <<rows, cache>>

Restored ==
  /\ observation' = saved.observation /\ payload' = saved.payload
  /\ version' = saved.version
  /\ saved' = None

(* A statement or the commit fails: the cache is emptied before the rows   *)
(* are restored.  The operation is tried again, is given up or, without a  *)
(* way to make room, ends the use of this process's store.                 *)
Fail ==
  /\ txn \in {"reading", "writing"}
  /\ Cleared
  /\ Restored
  /\ txn' \in {"none", "failed"}

(* The process ends, perhaps amid a transaction, and another takes over. *)
Restart ==
  /\ Cleared
  /\ IF saved = None THEN UNCHANGED <<rows, saved>> ELSE Restored
  /\ txn' = "none"

Init ==
  /\ observation = [e \in Ends |-> None]
  /\ payload = [e \in Ends |-> None]
  /\ version = 0
  /\ txn = "none"
  /\ saved = None
  /\ cached = [e \in Ends |-> None]
  /\ order = <<>>
  /\ retained = 0

Next ==
  \/ \E e \in Ends :
       \/ Read(e) \/ Delete(e)
       \/ \E o \in Observations : Observe(e, o)
       \/ \E p \in Payloads : Store(e, p) \/ Touch(e, p)
  \/ Begin \/ Commit \/ Fail \/ Restart

Spec == Init /\ [][Next]_vars

-----------------------------------------------------------------------------

Rows(Values) == {None} \cup [value : Values, version : Nat]

Entries == {None} \cup [versions : Nat \X Nat, record : Observations \X Payloads]

Snapshots ==
  [observation : [Ends -> Rows(Observations)], payload : [Ends -> Rows(Payloads)], version : Nat]

(* What the entries were charged with. *)
Charged == SumFunction([e \in Ends |-> IF cached[e] = None THEN 0 ELSE Bytes(cached[e])])

(* Types, and the cache's own account: the order names each entry once,    *)
(* and retained is what the entries were charged with, within the limit,   *)
(* whatever was replaced, refused and evicted.                             *)
TypeOK ==
  /\ txn \in {"none", "reading", "writing", "failed"}
  /\ IF txn \in {"none", "failed"} THEN saved = None ELSE saved \in Snapshots
  /\ order \in Seq(Ends)
  /\ \A e \in Ends : cached[e] # None <=> e \in Range(order)
  /\ \A i, j \in DOMAIN order : order[i] = order[j] => i = j
  /\ retained = Charged
  /\ retained <= MemoryBytes

(* No row of a table is stamped with a version the counter has not given   *)
(* out.                                                                    *)
Stamped(table, counter) ==
  \A e \in Ends : table[e] # None => table[e].version <= counter

Consistent(observations, payloads, counter) ==
  /\ counter \in Nat
  /\ observations \in [Ends -> Rows(Observations)] /\ payloads \in [Ends -> Rows(Payloads)]
  /\ Stamped(observations, counter) /\ Stamped(payloads, counter)

(* A record the cache answers with is the record the rows hold, however    *)
(* often the rows were written, deleted, written anew and rolled back      *)
(* since it was read.                                                      *)
HitsAreCurrent == \A e \in Ends : Joined(e) /\ Hit(e) => cached[e] = Current(e)

(* Inductive: nothing in the cache is newer than the counter, so that the  *)
(* next row written differs in version from all that was ever cached; the  *)
(* rows a rollback returns to are consistent with their own counter.       *)
IInv ==
  /\ Consistent(observation, payload, version)
  /\ txn \in {"none", "reading", "writing", "failed"}
  /\ IF txn \in {"none", "failed"} THEN saved = None
     ELSE Consistent(saved.observation, saved.payload, saved.version)
  /\ cached \in [Ends -> Entries]
  /\ \A e \in Ends : cached[e] # None =>
       cached[e].versions[1] <= version /\ cached[e].versions[2] <= version
  /\ HitsAreCurrent

=============================================================================
