------------------------- MODULE CacheSnapshot_proofs -------------------------
(* Proofs about CacheSnapshot for any places, relays and copies.           *)
EXTENDS CacheSnapshot, TLAPS

(* A file written: *)
LEMMA PutFacts ==
  ASSUME Types, NEW q \in Places, NEW f \in Files, NEW c \in Cells, Put(q, f, c)
  PROVE  /\ view' \in [Places -> [Files -> Cells]]
         /\ view'[q][f] = c
         /\ \A g \in Files : g # f => view'[q][g] = view[q][g]
         /\ \A p \in Places : p # q => view'[p] = view[p]
         /\ stored' = stored /\ named' = named
BY DEF Types, Put

(* its content synced: *)
LEMMA SyncFileFacts ==
  ASSUME Types, NEW q \in Places, NEW f \in Files, SyncFile(q, f)
  PROVE  /\ stored' \in [Places -> [Files -> Cells]]
         /\ stored'[q][f] = view[q][f]
         /\ \A g \in Files : g # f => stored'[q][g] = stored[q][g]
         /\ \A p \in Places : p # q => stored'[p] = stored[p]
         /\ view' = view /\ named' = named
BY DEF Types, SyncFile

(* its name: *)
LEMMA SyncDirectoryFacts ==
  ASSUME Types, NEW q \in Places, SyncDirectory(q)
  PROVE  /\ named' \in [Places -> SUBSET Files]
         /\ named'[q] = {f \in Files : Exists(q, f)}
         /\ \A p \in Places : p # q => named'[p] = named[p]
         /\ view' = view /\ stored' = stored
BY DEF Types, SyncDirectory

(* and both. *)
LEMMA SyncBothFacts ==
  ASSUME Types, NEW q \in Places, NEW f \in Files, SyncBoth(q, f)
  PROVE  /\ stored' \in [Places -> [Files -> Cells]]
         /\ stored'[q][f] = view[q][f]
         /\ \A g \in Files : g # f => stored'[q][g] = stored[q][g]
         /\ named' \in [Places -> SUBSET Files]
         /\ named'[q] = {g \in Files : Exists(q, g)}
         /\ \A p \in Places : p # q => stored'[p] = stored[p] /\ named'[p] = named[p]
         /\ view' = view
BY DEF Types, SyncBoth

-----------------------------------------------------------------------------
(* What a step does to a place.                                            *)

Elsewhere(q) ==
  \A p \in Places : p # q =>
    /\ view'[p] = view[p] /\ stored'[p] = stored[p] /\ named'[p] = named[p]
    /\ reported'[p] = reported[p]

SecretStays(p) ==
  Exists(p, "secret") =>
    /\ view'[p].secret = view[p].secret
    /\ stored[p].secret = view[p].secret => stored'[p].secret = view'[p].secret
    /\ "secret" \in named[p] => "secret" \in named'[p]

BlockerStays(p) ==
  /\ Exists(p, "blocked") => Exists(p, "blocked")'
  /\ Barred(p) => Barred(p)'

(* The database is left alone or opened. *)
DatabaseStays(p) ==
  Exists(p, "db") =>
    /\ \/ view'[p].db = view[p].db
       \/ /\ Exists(p, "secret")
          /\ view'[p].db = [state |-> "ledger",
                            of |-> IF Bare(view[p].db) THEN view[p].secret.of ELSE view[p].db.of]
    /\ stored[p].db = view[p].db => stored'[p].db = view'[p].db
    /\ "db" \in named[p] => "db" \in named'[p]

Stay(p) == SecretStays(p) /\ BlockerStays(p) /\ DatabaseStays(p)

LEMMA ElsewhereStays ==
  ASSUME NEW q \in Places, Elsewhere(q), NEW p \in Places, p # q
  PROVE  /\ Stay(p)
         /\ \A f \in Files : Exists(p, f)' <=> Exists(p, f)
         /\ Clear(p)' <=> Clear(p)
         /\ Lasting(p)' <=> Lasting(p)
         /\ ReportIsDurable(p)' <=> ReportIsDurable(p)
<1>1. /\ view'[p] = view[p] /\ stored'[p] = stored[p] /\ named'[p] = named[p]
      /\ reported'[p] = reported[p]
  BY DEF Elsewhere
<1>2. \A f \in Files : Exists(p, f)' <=> Exists(p, f)
  BY <1>1 DEF Exists
<1>3. Barred(p)' <=> Barred(p)
  BY <1>1 DEF Barred, Exists
<1>4. Stay(p)
  BY <1>1, <1>3 DEF Stay, SecretStays, BlockerStays, DatabaseStays, Exists
<1>5. (Clear(p)' <=> Clear(p)) /\ (Lasting(p)' <=> Lasting(p))
  BY <1>1, <1>3 DEF Clear, Lasting, Exists
<1>6. ReportIsDurable(p)' <=> ReportIsDurable(p)
  BY <1>1 DEF ReportIsDurable, Complete, Kept
<1> QED
  BY <1>2, <1>4, <1>5, <1>6

(* Files that only became more durable. *)
LEMMA SyncStays ==
  ASSUME NEW q \in Places, Types, Types', Clear(q), Lasting(q),
         view'[q] = view[q],
         \A f \in Files : stored'[q][f] \in {stored[q][f], view[q][f]},
         named'[q] \in {named[q], {f \in Files : Exists(q, f)}}
  PROVE  /\ Stay(q) /\ Clear(q)' /\ Lasting(q)'
         /\ \A f \in Files : Exists(q, f)' <=> Exists(q, f)
<1>1. \A f \in Files : Exists(q, f)' <=> Exists(q, f)
  BY DEF Exists
<1>2. /\ stored'[q].db \in {stored[q].db, view[q].db}
      /\ stored'[q].secret \in {stored[q].secret, view[q].secret}
      /\ "db" \in Files /\ "secret" \in Files /\ "blocked" \in Files
  BY DEF Files
<1>3. Barred(q) => Barred(q)'
  BY <1>1, <1>2 DEF Barred
<1>4. Stay(q)
  BY <1>1, <1>2, <1>3 DEF Stay, SecretStays, BlockerStays, DatabaseStays
<1>5. Clear(q)'
  BY <1>1, <1>2, <1>3 DEF Clear
<1>6. Lasting(q)'
  <2>1. \A f \in {"db", "secret"} : f \in named'[q] \/ stored'[q][f] # Absent => Exists(q, f)'
    BY <1>1, <1>2 DEF Lasting, Exists
  <2>2. stored'[q].secret # Absent => stored'[q].secret.of = view'[q].secret.of
    BY <1>2 DEF Lasting
  <2> QED
    BY <2>1, <2>2 DEF Lasting
<1> QED
  BY <1>1, <1>4, <1>5, <1>6

-----------------------------------------------------------------------------
(* What those know who do not act.                                         *)

LEMMA FitsKept ==
  ASSUME Types, NEW p \in Places, Fits(view[p].db, view[p].secret), SecretStays(p), DatabaseStays(p)
  PROVE  /\ Fits(view'[p].db, view'[p].secret) /\ view'[p].secret = view[p].secret
         /\ view[p].db.state # "empty" => view'[p].db.state # "empty"
<1>1. Exists(p, "db") /\ Exists(p, "secret")
  BY AbsentAssumption DEF Fits, Exists
<1>2. view'[p].secret = view[p].secret /\ view[p].secret \in Content /\ view[p].db \in Content
  BY <1>1 DEF SecretStays, Fits
<1>3. CASE view'[p].db = view[p].db
  BY <1>2, <1>3
<1>4. CASE view'[p].db = [state |-> "ledger",
                          of |-> IF Bare(view[p].db) THEN view[p].secret.of ELSE view[p].db.of]
  <2>1. /\ view'[p].db.state = "ledger" /\ view'[p].db.of = view[p].secret.of
        /\ view'[p].db \in Content
    BY <1>2, <1>4 DEF Fits, Content
  <2> QED
    BY <1>2, <2>1 DEF Fits
<1> QED
  BY <1>1, <1>3, <1>4 DEF DatabaseStays

LEMMA CompleteKept ==
  ASSUME Types, NEW p \in Places, NEW s, Complete(p, s), SecretStays(p), DatabaseStays(p)
  PROVE  Complete(p, s)'
<1>1. Fits(view[p].db, view[p].secret) /\ view[p].secret = s
  BY DEF Complete
<1>2. Exists(p, "db") /\ Exists(p, "secret")
  BY <1>1, AbsentAssumption DEF Fits, Exists
<1>3. Fits(view'[p].db, view'[p].secret) /\ view'[p].secret = s /\ view'[p].db.state # "empty"
  BY <1>1, FitsKept DEF Complete
<1>4. Kept(p, "db")' /\ Kept(p, "secret")'
  BY <1>2 DEF Complete, Kept, SecretStays, DatabaseStays
<1> QED
  BY <1>3, <1>4 DEF Complete

LEMMA RelayFactsKept ==
  ASSUME NEW r \in Relays, RelayFacts(r), NEW p \in Places, p = at[r],
         step'[r] = step[r], at'[r] = at[r], key'[r] = key[r],
         r \notin overtaken' /\ step[r] \in Starting =>
           r \notin overtaken /\ (~Exists(p, "blocked") => ~Exists(p, "blocked")'),
         Exists(p, "secret") => Exists(p, "secret")',
         Exists(p, "db") => Exists(p, "db")',
         step[r] \in {"keying"} \cup Keyed => SecretStays(p),
         step[r] = "keying" \/ (step[r] = "searched" /\ ~Exists(p, "secret")') =>
           /\ Barred(p) => Barred(p)'
           /\ ~Exists(p, "db") => ~Exists(p, "db")' \/ Barred(p)'
  PROVE  RelayFacts(r)'
<1>1. (step[r] \in Starting /\ r \notin overtaken => ~Exists(p, "blocked"))'
  BY DEF RelayFacts
<1>2. (step[r] = "searched" /\ ~Exists(p, "secret") => ~Exists(p, "db") \/ Barred(p))'
  BY DEF RelayFacts
<1>3. (step[r] \in {"keying", "filled"} => Exists(p, "secret"))'
  BY DEF RelayFacts
<1>4. (step[r] = "keying" => view[p].secret.state = "torn" /\ (~Exists(p, "db") \/ Barred(p)))'
  BY DEF RelayFacts, SecretStays
<1>5. (step[r] \in Keyed => Exists(p, "secret") /\ view[p].secret = key[r])'
  BY DEF RelayFacts, SecretStays
<1>6. (step[r] \in Keyed \ {"keyed"} => Exists(p, "db"))'
  BY DEF RelayFacts
<1> QED
  BY <1>1, <1>2, <1>3, <1>4, <1>5, <1>6 DEF RelayFacts

LEMMA CopyFactsKept ==
  ASSUME Types, NEW b \in Admins, CopyFacts(b),
         pc'[b] = pc[b], secret'[b] = secret[b], from'[b] = from[b], to'[b] = to[b],
         pc[b] \in Holding =>
           BlockerStays(to[b]) /\ (Exists(to[b], "secret") => Exists(to[b], "secret")'),
         pc[b] \in Written \cup {"unblocked"} => SecretStays(to[b]),
         pc[b] \in Filling \cup {"unblocked"} => DatabaseStays(to[b]),
         pc[b] \in Reading => SecretStays(from[b]) /\ DatabaseStays(from[b])
  PROVE  CopyFacts(b)'
<1> DEFINE p == to[b]
           d == view[p].db
           e == view'[p].db
<1>0. /\ p \in Places /\ from[b] \in Places
      /\ Written \subseteq Filling /\ Filling \subseteq Guarded /\ Guarded \subseteq Holding
  BY DEF Types, Holding, Guarded, Filling
<1>1. (pc[b] \in Holding => Exists(p, "blocked"))' /\ (pc[b] \in Guarded => Barred(p))'
  BY <1>0 DEF CopyFacts, BlockerStays
<1>2. ASSUME pc[b] \in Filling
      PROVE  /\ Exists(p, "db") /\ Exists(p, "db")' /\ secret[b] \in Content
             /\ \/ e = d
                \/ /\ Exists(p, "secret")
                   /\ e = [state |-> "ledger", of |-> IF Bare(d) THEN view[p].secret.of ELSE d.of]
             /\ stored[p].db = d => stored'[p].db = e
             /\ "db" \in named[p] => "db" \in named'[p]
  BY <1>0, <1>2, AbsentAssumption DEF CopyFacts, DatabaseStays, Exists, Types, Files, Cells, Content
<1>3. ASSUME pc[b] = "vacuumed", ~Exists(p, "secret")' PROVE e.state = "begun" \/ e.of = secret[b].of
  BY <1>0, <1>2, <1>3 DEF CopyFacts, Filling
<1>4. ASSUME pc[b] \in Written
      PROVE  /\ view'[p].secret = secret[b] /\ (e.state = "begun" \/ e.of = secret[b].of)
             /\ pc[b] # "copied" => e.state \in {"gapped", "ledger"}
             /\ pc[b] \in {"syncing", "synced", "named"} => stored'[p].db = e
             /\ pc[b] \in {"synced", "named"} => stored'[p].secret = secret[b]
             /\ pc[b] = "named" => {"db", "secret"} \subseteq named'[p]
  <2>1. /\ view[p].secret = secret[b] /\ (d.state = "begun" \/ d.of = secret[b].of)
        /\ pc[b] # "copied" => d.state \in {"gapped", "ledger"}
        /\ pc[b] \in {"syncing", "synced", "named"} => stored[p].db = d
        /\ pc[b] \in {"synced", "named"} => stored[p].secret = secret[b]
        /\ pc[b] = "named" => {"db", "secret"} \subseteq named[p]
    BY <1>4 DEF CopyFacts
  <2>2. Exists(p, "secret")
    BY <1>0, <1>2, <1>4, <2>1, AbsentAssumption DEF Exists
  <2>3. /\ view'[p].secret = secret[b]
        /\ stored[p].secret = view[p].secret => stored'[p].secret = secret[b]
        /\ "secret" \in named[p] => "secret" \in named'[p]
    BY <1>4, <2>1, <2>2 DEF SecretStays
  <2>4. /\ e.state = "begun" \/ e.of = secret[b].of
        /\ pc[b] # "copied" => e.state \in {"gapped", "ledger"}
    <3>1. CASE e = d
      BY <2>1, <3>1
    <3>2. CASE e = [state |-> "ledger", of |-> IF Bare(d) THEN view[p].secret.of ELSE d.of]
      BY <2>1, <3>2 DEF Bare
    <3> QED
      BY <1>0, <1>2, <1>4, <3>1, <3>2
  <2> QED
    BY <1>0, <1>2, <1>4, <2>1, <2>3, <2>4
<1>5. pc[b] = "unblocked" => Complete(p, secret[b])'
  BY <1>0, CompleteKept DEF CopyFacts
<1>6. pc[b] \in Reading =>
        Fits(view'[from[b]].db, view'[from[b]].secret) /\ view'[from[b]].secret = view[from[b]].secret
  BY <1>0, FitsKept DEF CopyFacts
<1>7. pc[b] \in Reading \ {"checked"} => secret[b] = view'[from[b]].secret
  BY <1>6 DEF CopyFacts
<1>8. {"syncing", "synced", "named"} \subseteq Written
  BY DEF Written
<1> HIDE DEF p
<1>9. p' = p
  BY DEF p
<1> QED
  BY <1>1, <1>2, <1>3, <1>4, <1>5, <1>6, <1>7, <1>8, <1>9 DEF CopyFacts, p

(* A step at place q of the relays R and the copies A: what is left to     *)
(* show is about these and the place.                                      *)
LEMMA Step ==
  ASSUME IInv, Types', NEW q \in Places, Elsewhere(q),
         NEW R \in SUBSET Relays, NEW A \in SUBSET Admins,
         \A r \in Relays \ R : step'[r] = step[r] /\ at'[r] = at[r] /\ key'[r] = key[r],
         \A b \in Admins \ A :
           pc'[b] = pc[b] /\ secret'[b] = secret[b] /\ from'[b] = from[b] /\ to'[b] = to[b],
         \A r \in Relays \ R : r \notin overtaken' =>
           /\ r \notin overtaken
           /\ at[r] = q /\ step[r] \in Starting /\ ~Exists(q, "blocked") => ~Exists(q, "blocked")',
         Exists(q, "db") => Exists(q, "db")', Exists(q, "secret") => Exists(q, "secret")',
         SecretStays(q) \/ \E r \in R : step[r] = "keying" /\ at[r] = q,
         BlockerStays(q) \/ \E a \in A : pc[a] = "named" /\ to[a] = q,
         DatabaseStays(q) \/ \E a \in A : pc[a] \in Filling /\ to[a] = q,
         ~Exists(q, "db") /\ Exists(q, "db")' =>
           Barred(q)' \/ (Exists(q, "secret") /\ \A r \in Relays : step[r] = "keying" => at[r] # q),
         Clear(q)', Lasting(q)', reported'[q] = reported[q] \/ ReportIsDurable(q)',
         \A r \in R : RelayFacts(r)', \A a \in A : CopyFacts(a)',
         \A r \in Relays : Unused(r)', \A a \in Admins : Alone(a)'
  PROVE  IInv'
<1>0. /\ Types
      /\ "keying" \notin Keyed /\ "named" \in Written
      /\ Written \subseteq Filling /\ Filling \subseteq Guarded /\ Guarded \subseteq Holding
      /\ "unblocked" \notin Holding /\ "unblocked" \notin Reading
      /\ "db" \in Files /\ "secret" \in Files /\ "blocked" \in Files
  BY DEF IInv, Keyed, Written, Filling, Guarded, Holding, Files, Reading
<1>1. ASSUME NEW r \in Relays \ R PROVE RelayFacts(r)'
  <2>0. RelayFacts(r) /\ at[r] \in Places /\ Unused(r)
    BY <1>0 DEF IInv, Types
  <2>1. CASE at[r] # q
    BY <1>0, <1>1, <2>0, <2>1, ElsewhereStays, RelayFactsKept DEF Stay, BlockerStays
  <2>2. CASE at[r] = q
    <3>1. step[r] \in {"keying"} \cup Keyed => SecretStays(q)
      <4> SUFFICES ASSUME step[r] \in {"keying"} \cup Keyed, ~SecretStays(q) PROVE FALSE
        OBVIOUS
      <4>1. PICK x \in R : step[x] = "keying" /\ at[x] = q
        OBVIOUS
      <4>2. Unused(x)
        BY <4>1 DEF IInv
      <4> QED
        BY <1>1, <2>2, <4>1, <4>2 DEF Unused
    <3>2. CASE step[r] = "keying" \/ (step[r] = "searched" /\ ~Exists(q, "secret")')
      <4>1. Barred(q) => Barred(q)'
        <5> SUFFICES ASSUME ~BlockerStays(q) PROVE FALSE
          BY DEF BlockerStays
        <5>1. PICK a \in A : pc[a] = "named" /\ to[a] = q
          OBVIOUS
        <5>2. view[q].secret = secret[a] /\ secret[a] \in Content
          BY <1>0, <5>1 DEF IInv, CopyFacts
        <5>3. step[r] = "keying"
          BY <3>2, <5>2, AbsentAssumption DEF Exists
        <5> QED
          BY <1>0, <2>0, <2>2, <5>1, <5>3 DEF Unused
      <4>2. ~Exists(q, "db") => ~Exists(q, "db")' \/ Barred(q)'
        BY <2>2, <3>2
      <4> QED
        BY <1>1, <2>0, <2>2, <3>1, <4>1, <4>2, RelayFactsKept
    <3>3. CASE ~(step[r] = "keying" \/ (step[r] = "searched" /\ ~Exists(q, "secret")'))
      BY <1>1, <2>0, <2>2, <3>1, <3>3, RelayFactsKept
    <3> QED
      BY <3>2, <3>3
  <2> QED
    BY <2>1, <2>2
<1>2. ASSUME ~SecretStays(q)
      PROVE  /\ reported[q] = Absent
             /\ \A b \in Admins : /\ pc[b] \in Reading => from[b] # q
                                  /\ pc[b] \in Written \cup {"unblocked"} => to[b] # q
  BY <1>2 DEF IInv, Unused
<1>3. ASSUME ~DatabaseStays(q)
      PROVE  /\ reported[q] = Absent
             /\ \A b \in Admins : /\ pc[b] \in Reading => from[b] # q
                                  /\ pc[b] \in Filling /\ b \notin A => to[b] # q
                                  /\ pc[b] = "unblocked" => to[b] # q
  <2>1. PICK a \in A : pc[a] \in Filling /\ to[a] = q
    BY <1>3
  <2>2. Alone(a) /\ pc[a] \in Holding
    BY <1>0, <2>1 DEF IInv
  <2> QED
    BY <1>0, <2>1, <2>2 DEF Alone
<1>4. ASSUME NEW b \in Admins \ A PROVE CopyFacts(b)'
  <2>0. CopyFacts(b) /\ to[b] \in Places /\ from[b] \in Places
    BY <1>0 DEF IInv, Types
  <2>1. pc[b] \in Holding =>
          BlockerStays(to[b]) /\ (Exists(to[b], "secret") => Exists(to[b], "secret")')
    <3>1. CASE to[b] # q
      BY <1>0, <2>0, <3>1, ElsewhereStays DEF Stay
    <3>2. CASE to[b] = q
      <4> SUFFICES ASSUME pc[b] \in Holding, ~BlockerStays(q) PROVE FALSE
        BY <3>2
      <4>1. PICK a \in A : pc[a] = "named" /\ to[a] = q
        OBVIOUS
      <4>2. Alone(a) /\ pc[a] \in Holding
        BY <1>0, <4>1 DEF IInv
      <4> QED
        BY <1>4, <3>2, <4>1, <4>2 DEF Alone
    <3> QED
      BY <3>1, <3>2
  <2>2. /\ pc[b] \in Written \cup {"unblocked"} => SecretStays(to[b])
        /\ pc[b] \in Filling \cup {"unblocked"} => DatabaseStays(to[b])
    <3>1. CASE to[b] # q
      BY <2>0, <3>1, ElsewhereStays DEF Stay
    <3>2. CASE to[b] = q
      BY <1>2, <1>3, <1>4, <3>2
    <3> QED
      BY <3>1, <3>2
  <2>3. pc[b] \in Reading => SecretStays(from[b]) /\ DatabaseStays(from[b])
    <3>1. CASE from[b] # q
      BY <2>0, <3>1, ElsewhereStays DEF Stay
    <3>2. CASE from[b] = q
      BY <1>2, <1>3, <1>4, <3>2
    <3> QED
      BY <3>1, <3>2
  <2> QED
    BY <1>0, <1>4, <2>0, <2>1, <2>2, <2>3, CopyFactsKept
<1>5. ReportIsDurable(q)'
  <2> SUFFICES ASSUME reported'[q] = reported[q], reported[q] # Absent
               PROVE  Complete(q, reported[q])'
    BY DEF ReportIsDurable
  <2>1. Complete(q, reported[q]) /\ SecretStays(q) /\ DatabaseStays(q)
    BY <1>2, <1>3 DEF IInv, ReportIsDurable
  <2>2. \A s : Complete(q, s) => Complete(q, s)'
    BY <1>0, <2>1, CompleteKept
  <2>3. PICK s : s = reported[q]
    OBVIOUS
  <2>4. Complete(q, s)'
    BY <2>1, <2>2, <2>3
  <2> QED
    BY <2>3, <2>4 DEF Complete
<1>6. ASSUME NEW p \in Places PROVE Clear(p)' /\ Lasting(p)' /\ ReportIsDurable(p)'
  <2>1. CASE p = q
    BY <1>5, <2>1
  <2>2. CASE p # q
    BY <2>2, ElsewhereStays DEF IInv
  <2> QED
    BY <2>1, <2>2
<1> QED
  BY <1>1, <1>4, <1>6 DEF IInv

-----------------------------------------------------------------------------
(* Steps of one relay.                                                     *)

(* A place that something is known of has a secret. *)
LEMMA InUse ==
  ASSUME IInv, NEW p \in Places, ~Exists(p, "secret")
  PROVE  /\ reported[p] = Absent
         /\ \A r \in Relays : step[r] \in {"keying"} \cup Keyed => at[r] # p
         /\ \A a \in Admins :
              /\ pc[a] \in Reading => from[a] # p
              /\ pc[a] \in Written \cup {"unblocked"} => to[a] # p
<1>1. \A s : Complete(p, s) => FALSE
  BY AbsentAssumption DEF Complete, Fits, Exists
<1>2. reported[p] = Absent
  BY <1>1 DEF IInv, ReportIsDurable
<1>3. \A r \in Relays : step[r] \in {"keying"} \cup Keyed => at[r] # p
  BY DEF IInv, RelayFacts
<1>4. ASSUME NEW a \in Admins PROVE pc[a] \in Reading => from[a] # p
  BY AbsentAssumption DEF IInv, CopyFacts, Fits, Exists
<1>5. ASSUME NEW a \in Admins, pc[a] \in Written, to[a] = p PROVE FALSE
  <2>1. pc[a] \in Filling /\ CopyFacts(a)
    BY <1>5 DEF Filling, IInv
  <2>2. view[p].secret = secret[a] /\ secret[a] \in Content
    BY <1>5, <2>1 DEF CopyFacts
  <2> QED
    BY <2>2, AbsentAssumption DEF Exists
<1>6. ASSUME NEW a \in Admins, pc[a] = "unblocked", to[a] = p PROVE FALSE
  BY <1>1, <1>6 DEF IInv, CopyFacts
<1> QED
  BY <1>2, <1>3, <1>4, <1>5, <1>6

(* Relay r takes a step at place q: it begins to write a secret where none *)
(* is, and uses one that is whole.                                         *)
LEMMA RelayStep ==
  ASSUME IInv, Types', NEW q \in Places, Elsewhere(q), NEW r \in Relays, at'[r] = q,
         step[r] # "none" => at[r] = q,
         \A x \in Relays : x # r => step'[x] = step[x] /\ at'[x] = at[x] /\ key'[x] = key[x],
         pc' = pc, from' = from, to' = to, secret' = secret, reported' = reported,
         overtaken' \in {overtaken, overtaken \ {r}},
         Exists(q, "db") => Exists(q, "db")', Exists(q, "secret") => Exists(q, "secret")',
         SecretStays(q) \/ step[r] = "keying", BlockerStays(q), DatabaseStays(q),
         Exists(q, "blocked")' => Exists(q, "blocked"),
         ~Exists(q, "db") /\ Exists(q, "db")' => step[r] \in Keyed,
         step'[r] = "keying" => step[r] # "keying" /\ ~Exists(q, "secret"),
         step'[r] \in Keyed =>
           step[r] \in Keyed \/ (Exists(q, "secret") /\ view[q].secret.state = "whole"),
         Clear(q)', Lasting(q)', RelayFacts(r)'
  PROVE  IInv'
<1>0. Types /\ "none" \notin Keyed /\ "keying" \notin Keyed
  BY DEF IInv, Keyed
<1>1. view[q].secret.state = "whole" => \A x \in Relays : step[x] = "keying" => at[x] # q
  BY DEF IInv, RelayFacts
<1>2. ASSUME NEW x \in Relays PROVE Unused(x)'
  <2> SUFFICES ASSUME step'[x] = "keying"
               PROVE  /\ reported[at'[x]] = Absent
                      /\ \A y \in Relays : step'[y] \in {"keying"} \cup Keyed /\ at'[y] = at'[x] => y = x
                      /\ \A a \in Admins :
                           /\ pc[a] \in Reading => from[a] # at'[x]
                           /\ pc[a] \in Written \cup {"unblocked"} => to[a] # at'[x]
    BY DEF Unused
  <2>1. CASE x = r
    <3>1. ~Exists(q, "secret")
      BY <2>1
    <3> QED
      BY <2>1, <3>1, InUse
  <2>2. CASE x # r
    <3>1. Unused(x) /\ step[x] = "keying" /\ at'[x] = at[x] /\ at[x] \in Places /\ Exists(at[x], "secret")
      BY <1>0, <2>2 DEF IInv, Types, RelayFacts
    <3>2. ASSUME step'[r] \in {"keying"} \cup Keyed, at'[r] = at[x] PROVE FALSE
      <4>1. step[r] \notin Keyed
        BY <1>0, <2>2, <3>1, <3>2 DEF Unused
      <4>2. step'[r] \in Keyed
        BY <3>1, <3>2
      <4> QED
        BY <1>1, <3>1, <3>2, <4>1, <4>2
    <3>3. \A y \in Relays : step'[y] \in {"keying"} \cup Keyed /\ at'[y] = at[x] => y = x
      BY <2>2, <3>1, <3>2 DEF Unused
    <3> QED
      BY <3>1, <3>3 DEF Unused
  <2> QED
    BY <2>1, <2>2
<1>3. \A a \in Admins : Alone(a)'
  BY DEF IInv, Alone
<1>4. PICK R \in SUBSET Relays, A \in SUBSET Admins : R = {r} /\ A = {}
  OBVIOUS
<1>5. /\ \A x \in Relays \ R : step'[x] = step[x] /\ at'[x] = at[x] /\ key'[x] = key[x]
      /\ \A b \in Admins \ A :
           pc'[b] = pc[b] /\ secret'[b] = secret[b] /\ from'[b] = from[b] /\ to'[b] = to[b]
      /\ SecretStays(q) \/ \E x \in R : step[x] = "keying" /\ at[x] = q
      /\ \A x \in R : RelayFacts(x)'
      /\ \A b \in A : CopyFacts(b)'
  BY <1>4
<1>6. \A x \in Relays \ R : x \notin overtaken' =>
        /\ x \notin overtaken
        /\ at[x] = q /\ step[x] \in Starting /\ ~Exists(q, "blocked") => ~Exists(q, "blocked")'
  BY <1>4
<1>7. ~Exists(q, "db") /\ Exists(q, "db")' =>
        Barred(q)' \/ (Exists(q, "secret") /\ \A x \in Relays : step[x] = "keying" => at[x] # q)
  <2> SUFFICES ASSUME step[r] \in Keyed
               PROVE  Exists(q, "secret") /\ \A x \in Relays : step[x] = "keying" => at[x] # q
    OBVIOUS
  <2>1. at[r] = q /\ Exists(q, "secret")
    BY <1>0 DEF IInv, RelayFacts
  <2> QED
    BY <1>0, <2>1 DEF IInv, Unused
<1>8. \A x \in Relays : Unused(x)'
  BY <1>2
<1> QED
  BY <1>3, <1>5, <1>6, <1>7, <1>8, Step

(* What Goes says. *)
LEMMA GoesFacts ==
  ASSUME Types, NEW r \in Relays, NEW before \in Steps, NEW after \in Steps, Goes(r, before, after)
  PROVE  /\ step[r] = before /\ step'[r] = after
         /\ step' \in [Relays -> Steps]
         /\ \A x \in Relays : x # r => step'[x] = step[x]
         /\ pc' = pc /\ from' = from /\ to' = to /\ secret' = secret /\ reported' = reported
BY DEF Types, Goes, copies

(* Steps that write nothing. *)
LEMMA LookInvariant ==
  ASSUME IInv, NEW r \in Relays, NEW q \in Places,
         Look(r, q) \/ (q = at[r] /\ (Search(r) \/ ReadSecret(r)))
  PROVE  IInv'
<1>0. Types /\ Clear(q) /\ Lasting(q)
  BY DEF IInv
<1>1. /\ view' = view /\ stored' = stored /\ named' = named /\ overtaken' = overtaken
      /\ at' \in [Relays -> Places] /\ at'[r] = q /\ \A x \in Relays : x # r => at'[x] = at[x]
      /\ \A x \in Relays : x # r => key'[x] = key[x]
      /\ key' \in [Relays -> Cells]
  <2>1. view[q].secret \in Cells
    BY <1>0 DEF Types, Files
  <2>2. CASE Look(r, q)
    BY <1>0, <2>2 DEF Look, files, Types
  <2>3. CASE q = at[r] /\ Search(r)
    BY <1>0, <2>3 DEF Search, files, Types
  <2>4. CASE q = at[r] /\ ReadSecret(r)
    BY <1>0, <2>1, <2>4 DEF ReadSecret, files, Types
  <2> QED
    BY <2>2, <2>3, <2>4
<1>2. /\ step' \in [Relays -> Steps]
      /\ \A x \in Relays : x # r => step'[x] = step[x]
      /\ pc' = pc /\ from' = from /\ to' = to /\ secret' = secret /\ reported' = reported
      /\ \/ step[r] = "none" /\ step'[r] = "looked" /\ ~Exists(q, "blocked")
         \/ /\ step[r] = "looked" /\ step'[r] = "searched" /\ at[r] = q
            /\ Exists(q, "db") => Exists(q, "secret")
         \/ /\ step[r] = "searched" /\ step'[r] = "keyed" /\ at[r] = q
            /\ Exists(q, "secret") /\ view[q].secret.state = "whole" /\ key'[r] = view[q].secret
  <2>1. CASE Look(r, q)
    BY <1>0, <2>1, GoesFacts DEF Look, Steps, Starting
  <2>2. CASE q = at[r] /\ Search(r)
    BY <1>0, <2>2, GoesFacts DEF Search, Steps, Starting
  <2>3. CASE q = at[r] /\ ReadSecret(r)
    BY <1>0, <2>3, GoesFacts DEF ReadSecret, Steps, Starting, Types
  <2> QED
    BY <2>1, <2>2, <2>3
<1>3. Types' /\ Elsewhere(q)
  BY <1>0, <1>1, <1>2 DEF Types, Elsewhere
<1>4. /\ Stay(q) /\ Clear(q)' /\ Lasting(q)'
      /\ \A f \in Files : Exists(q, f)' <=> Exists(q, f)
  BY <1>0, <1>1, <1>3, SyncStays
<1>5. RelayFacts(r)'
  <2>1. RelayFacts(r)
    BY DEF IInv
  <2>2. \A f \in Files : Exists(q, f)' <=> Exists(q, f)
    BY <1>4
  <2> QED
    BY <1>1, <1>2, <2>1, <2>2 DEF RelayFacts, Keyed, Starting, Files
<1>6. step'[r] # "keying" /\ (step'[r] \in Keyed => Exists(q, "secret") /\ view[q].secret.state = "whole")
  BY <1>2 DEF Keyed
<1>7. /\ Exists(q, "db")' <=> Exists(q, "db")
      /\ Exists(q, "secret")' <=> Exists(q, "secret")
      /\ Exists(q, "blocked")' <=> Exists(q, "blocked")
  BY <1>4 DEF Files
<1> QED
  BY <1>1, <1>2, <1>3, <1>4, <1>5, <1>6, <1>7, RelayStep DEF Stay

(* Of the other files nothing changes where one is written. *)
LEMMA PutRest ==
  ASSUME Types, NEW q \in Places, NEW f \in Files, NEW c \in Content, Put(q, f, c),
         reported' = reported
  PROVE  /\ view'[q][f] = c /\ Exists(q, f)'
         /\ \A g \in Files \ {f} : view'[q][g] = view[q][g] /\ (Exists(q, g)' <=> Exists(q, g))
         /\ Elsewhere(q)
         /\ view' \in [Places -> [Files -> Cells]] /\ stored' = stored /\ named' = named
         /\ f # "secret" => SecretStays(q)
         /\ f # "db" => DatabaseStays(q)
         /\ Barred(q) => Barred(q)'
         /\ f # "blocked" => (Barred(q)' => Barred(q))
         /\ BlockerStays(q)
<1>1. /\ view' \in [Places -> [Files -> Cells]]
      /\ view'[q][f] = c
      /\ \A g \in Files : g # f => view'[q][g] = view[q][g]
      /\ \A p \in Places : p # q => view'[p] = view[p]
      /\ stored' = stored /\ named' = named
  BY PutFacts DEF Cells
<1>2. Exists(q, f)' /\ \A g \in Files \ {f} : Exists(q, g)' <=> Exists(q, g)
  BY <1>1, AbsentAssumption DEF Exists
<1>3. /\ Barred(q) => Barred(q)'
      /\ f # "blocked" => (Barred(q)' => Barred(q))
      /\ Exists(q, "blocked") => Exists(q, "blocked")'
  BY <1>1, <1>2 DEF Barred, Files
<1>4. /\ f # "secret" => SecretStays(q)
      /\ f # "db" => DatabaseStays(q)
  BY <1>1 DEF SecretStays, DatabaseStays, Files
<1> QED
  BY <1>1, <1>2, <1>3, <1>4 DEF Elsewhere, BlockerStays

(* A new secret *)
LEMMA NewSecretInvariant ==
  ASSUME IInv, NEW r \in Relays, NEW q \in Places, q = at[r], NewSecret(r)
  PROVE  IInv'
<1>0. Types /\ Clear(q) /\ Lasting(q) /\ RelayFacts(r)
  BY DEF IInv
<1>1. PICK k \in Secrets : Put(q, "secret", [state |-> "torn", of |-> k])
  BY DEF NewSecret
<1>2. /\ step[r] = "searched" /\ step'[r] = "keying" /\ step' \in [Relays -> Steps]
      /\ \A x \in Relays : x # r => step'[x] = step[x]
      /\ pc' = pc /\ from' = from /\ to' = to /\ secret' = secret /\ reported' = reported
      /\ at' = at /\ key' = key /\ overtaken' = overtaken /\ ~Exists(q, "secret")
  BY <1>0, GoesFacts DEF NewSecret, Steps, Starting
<1> DEFINE c == [state |-> "torn", of |-> k]
<1>3. c \in Content /\ c.state = "torn" /\ "secret" \in Files /\ "db" \in Files /\ "blocked" \in Files
  BY DEF Content, Files
<1> HIDE DEF c
<1>4. /\ view'[q].secret = c /\ Exists(q, "secret")'
      /\ view'[q].db = view[q].db
      /\ Exists(q, "db")' <=> Exists(q, "db")
      /\ Exists(q, "blocked")' <=> Exists(q, "blocked")
      /\ Elsewhere(q)
      /\ view' \in [Places -> [Files -> Cells]] /\ stored' = stored /\ named' = named
      /\ DatabaseStays(q) /\ BlockerStays(q) /\ (Barred(q)' <=> Barred(q))
  BY <1>0, <1>1, <1>2, <1>3, PutRest DEF c
<1>5. Types'
  BY <1>0, <1>2, <1>4 DEF Types
<1>6. ~Exists(q, "db") \/ Barred(q)
  BY <1>0, <1>2 DEF RelayFacts
<1>7. Clear(q)'
  BY <1>4, <1>6 DEF Clear
<1>8. Lasting(q)'
  BY <1>0, <1>2, <1>4 DEF Lasting
<1>9. RelayFacts(r)'
  BY <1>0, <1>2, <1>3, <1>4, <1>6 DEF RelayFacts, Starting, Keyed
<1>10. SecretStays(q) /\ step'[r] \notin Keyed
  BY <1>2 DEF SecretStays, Keyed
<1> QED
  BY <1>2, <1>4, <1>5, <1>7, <1>8, <1>9, <1>10, RelayStep

(* is written *)
LEMMA FillSecretInvariant ==
  ASSUME IInv, NEW r \in Relays, NEW q \in Places, q = at[r], FillSecret(r)
  PROVE  IInv'
<1>0. Types /\ Clear(q) /\ Lasting(q) /\ RelayFacts(r)
  BY DEF IInv
<1> DEFINE c == [view[q].secret EXCEPT !.state = "whole"]
<1>1. Put(q, "secret", c)
  BY DEF FillSecret
<1>2. /\ step[r] = "keying" /\ step'[r] = "filled" /\ step' \in [Relays -> Steps]
      /\ \A x \in Relays : x # r => step'[x] = step[x]
      /\ pc' = pc /\ from' = from /\ to' = to /\ secret' = secret /\ reported' = reported
      /\ at' = at /\ key' = key /\ overtaken' = overtaken
  BY <1>0, GoesFacts DEF FillSecret, Steps, Starting
<1>3. /\ Exists(q, "secret") /\ view[q].secret \in Content
      /\ "secret" \in Files /\ "db" \in Files /\ "blocked" \in Files
  BY <1>0, <1>2 DEF RelayFacts, Types, Cells, Exists, Files
<1>4. c \in Content /\ c.of = view[q].secret.of
  BY <1>3 DEF Content
<1> HIDE DEF c
<1>5. /\ view'[q].secret = c /\ Exists(q, "secret")'
      /\ view'[q].db = view[q].db
      /\ Exists(q, "db")' <=> Exists(q, "db")
      /\ Exists(q, "blocked")' <=> Exists(q, "blocked")
      /\ Elsewhere(q)
      /\ view' \in [Places -> [Files -> Cells]] /\ stored' = stored /\ named' = named
      /\ DatabaseStays(q) /\ BlockerStays(q) /\ (Barred(q)' <=> Barred(q))
  BY <1>0, <1>1, <1>2, <1>3, <1>4, PutRest
<1>6. Types'
  BY <1>0, <1>2, <1>5 DEF Types
<1>7. Clear(q)'
  BY <1>0, <1>3, <1>4, <1>5 DEF Clear, Fits
<1>8. Lasting(q)'
  BY <1>0, <1>4, <1>5 DEF Lasting, Exists
<1>9. RelayFacts(r)'
  BY <1>0, <1>2, <1>3, <1>5 DEF RelayFacts, Starting, Keyed
<1>10. step'[r] \notin Keyed /\ step'[r] # "keying"
  BY <1>2 DEF Keyed
<1> QED
  BY <1>2, <1>5, <1>6, <1>7, <1>8, <1>9, <1>10, RelayStep

(* and synced. *)
LEMMA KeepSecretInvariant ==
  ASSUME IInv, NEW r \in Relays, NEW q \in Places, q = at[r], KeepSecret(r)
  PROVE  IInv'
<1>0. Types /\ Clear(q) /\ Lasting(q) /\ RelayFacts(r)
  BY DEF IInv
<1>1. /\ step[r] = "filled" /\ step'[r] = "searched" /\ step' \in [Relays -> Steps]
      /\ \A x \in Relays : x # r => step'[x] = step[x]
      /\ pc' = pc /\ from' = from /\ to' = to /\ secret' = secret /\ reported' = reported
      /\ at' = at /\ key' = key /\ overtaken' = overtaken
  BY <1>0, GoesFacts DEF KeepSecret, Steps, Starting
<1>2. /\ stored' \in [Places -> [Files -> Cells]]
      /\ \A f \in Files : stored'[q][f] \in {stored[q][f], view[q][f]}
      /\ named' \in [Places -> SUBSET Files]
      /\ named'[q] = {g \in Files : Exists(q, g)}
      /\ \A p \in Places : p # q => stored'[p] = stored[p] /\ named'[p] = named[p]
      /\ view' = view
      /\ "secret" \in Files /\ "db" \in Files /\ "blocked" \in Files
  BY <1>0, SyncBothFacts DEF KeepSecret, Files
<1>3. Types' /\ Elsewhere(q)
  BY <1>0, <1>1, <1>2 DEF Types, Elsewhere
<1>4. /\ Stay(q) /\ Clear(q)' /\ Lasting(q)'
      /\ Exists(q, "db")' <=> Exists(q, "db")
      /\ Exists(q, "secret")' <=> Exists(q, "secret")
      /\ Exists(q, "blocked")' <=> Exists(q, "blocked")
  BY <1>0, <1>2, <1>3, SyncStays
<1>5. RelayFacts(r)'
  BY <1>0, <1>1, <1>2, <1>4 DEF RelayFacts, Starting, Keyed
<1>6. step'[r] \notin Keyed /\ step'[r] # "keying"
  BY <1>1 DEF Keyed
<1> QED
  BY <1>1, <1>2, <1>3, <1>4, <1>5, <1>6, RelayStep DEF Stay

(* The database is created or found *)
LEMMA FindDatabaseInvariant ==
  ASSUME IInv, NEW r \in Relays, NEW q \in Places, q = at[r], FindDatabase(r)
  PROVE  IInv'
<1>0. Types /\ Clear(q) /\ Lasting(q) /\ RelayFacts(r)
  BY DEF IInv
<1>1. /\ step[r] = "keyed" /\ step'[r] = "found" /\ step' \in [Relays -> Steps]
      /\ \A x \in Relays : x # r => step'[x] = step[x]
      /\ pc' = pc /\ from' = from /\ to' = to /\ secret' = secret /\ reported' = reported
      /\ at' = at /\ key' = key /\ overtaken' = overtaken
      /\ step[r] \in Keyed /\ step'[r] # "keying" /\ step'[r] \in Keyed
      /\ step'[r] # "searched" /\ step'[r] # "filled"
  BY <1>0, GoesFacts DEF FindDatabase, Steps, Starting, Keyed
<1>2. /\ Exists(q, "secret") /\ view[q].secret = key[r] /\ key[r] \in Content
      /\ "secret" \in Files /\ "db" \in Files /\ "blocked" \in Files
  BY <1>0, <1>1 DEF RelayFacts, Types, Cells, Exists, Files
<1>3. CASE Exists(q, "db") /\ UNCHANGED files
  <2>1. view' = view /\ stored' = stored /\ named' = named
    BY <1>3 DEF files
  <2>2. Types' /\ Elsewhere(q)
    BY <1>0, <1>1, <2>1 DEF Types, Elsewhere
  <2>3. /\ Stay(q) /\ Clear(q)' /\ Lasting(q)'
        /\ Exists(q, "db")' <=> Exists(q, "db")
        /\ Exists(q, "secret")' <=> Exists(q, "secret")
        /\ Exists(q, "blocked")' <=> Exists(q, "blocked")
    BY <1>0, <1>2, <2>1, <2>2, SyncStays
  <2>4. RelayFacts(r)'
    BY <1>0, <1>1, <1>2, <1>3, <2>1, <2>3 DEF RelayFacts, Starting
  <2> QED
    BY <1>1, <1>2, <2>1, <2>2, <2>3, <2>4, RelayStep DEF Stay
<1>4. CASE ~Exists(q, "db") /\ Put(q, "db", [state |-> "empty", of |-> key[r].of])
  <2> DEFINE c == [state |-> "empty", of |-> key[r].of]
  <2>1. c \in Content /\ c.state = "empty" /\ c.of = key[r].of /\ Fits(c, key[r])
    BY <1>2 DEF Content, Fits
  <2>2. Put(q, "db", c)
    BY <1>4
  <2> HIDE DEF c
  <2>3. /\ view'[q].db = c /\ Exists(q, "db")'
        /\ view'[q].secret = view[q].secret
        /\ Exists(q, "secret")'
        /\ Exists(q, "blocked")' <=> Exists(q, "blocked")
        /\ Elsewhere(q)
        /\ view' \in [Places -> [Files -> Cells]] /\ stored' = stored /\ named' = named
        /\ SecretStays(q) /\ BlockerStays(q) /\ (Barred(q)' <=> Barred(q))
    BY <1>0, <1>1, <1>2, <2>1, <2>2, PutRest
  <2>4. Types'
    BY <1>0, <1>1, <2>3 DEF Types
  <2>5. stored[q].db = Absent
    BY <1>0, <1>4 DEF Lasting
  <2>6. Clear(q)'
    BY <1>2, <2>1, <2>3, <2>5 DEF Clear
  <2>7. Lasting(q)'
    BY <1>0, <2>3 DEF Lasting, Exists
  <2>8. RelayFacts(r)'
    BY <1>0, <1>1, <1>2, <2>3 DEF RelayFacts, Starting
  <2> QED
    BY <1>1, <1>2, <1>4, <2>3, <2>4, <2>6, <2>7, <2>8, RelayStep DEF DatabaseStays
<1> QED
  BY <1>3, <1>4 DEF FindDatabase

(* and opened.  Unless a durable blocker is there, what is opened fits. *)
LEMMA OpenInvariant ==
  ASSUME IInv, NEW r \in Relays, NEW q \in Places, q = at[r], Open(r)
  PROVE  IInv'
<1> DEFINE was == view[q].db
           now == IF was.state = "torn" THEN was
                  ELSE [state |-> "ledger", of |-> IF Bare(was) THEN key[r].of ELSE was.of]
<1>0. Types /\ Clear(q) /\ Lasting(q) /\ RelayFacts(r)
  BY DEF IInv
<1>1. /\ step[r] = "found" /\ step'[r] = "open" /\ step' \in [Relays -> Steps]
      /\ \A x \in Relays : x # r => step'[x] = step[x]
      /\ pc' = pc /\ from' = from /\ to' = to /\ secret' = secret /\ reported' = reported
      /\ at' = at /\ key' = key /\ overtaken' = overtaken \ {r}
      /\ step[r] \in Keyed /\ step'[r] # "keying" /\ step'[r] \notin Starting
  BY <1>0, GoesFacts DEF Open, Steps, Starting, Keyed
<1>2. /\ Exists(q, "secret") /\ view[q].secret = key[r] /\ key[r] \in Content
      /\ Exists(q, "db") /\ was \in Content
      /\ "secret" \in Files /\ "db" \in Files /\ "blocked" \in Files
  BY <1>0, <1>1 DEF RelayFacts, Types, Cells, Exists, Files, Keyed
<1>3. /\ now \in Content
      /\ \/ now = was
         \/ now = [state |-> "ledger", of |-> IF Bare(was) THEN key[r].of ELSE was.of]
      /\ Fits(was, key[r]) => Fits(now, key[r])
  BY <1>2 DEF Content, Fits
<1>4. /\ view' = [view EXCEPT ![q].db = now]
      /\ stored' = [stored EXCEPT ![q].db = IF @ = was \/ Bare(was) THEN now ELSE @]
      /\ named' = [named EXCEPT ![q] = {f \in Files : Exists(q, f)}]
  BY DEF Open
<1> HIDE DEF now
<1>5. /\ view' \in [Places -> [Files -> Cells]] /\ stored' \in [Places -> [Files -> Cells]]
      /\ named' \in [Places -> SUBSET Files]
      /\ view'[q].db = now /\ view'[q].secret = view[q].secret /\ view'[q].blocked = view[q].blocked
      /\ stored'[q].db = (IF stored[q].db = was \/ Bare(was) THEN now ELSE stored[q].db)
      /\ stored'[q].secret = stored[q].secret
      /\ named'[q] = {f \in Files : Exists(q, f)}
      /\ \A p \in Places : p # q =>
           view'[p] = view[p] /\ stored'[p] = stored[p] /\ named'[p] = named[p]
  <2> DEFINE kept == IF stored[q].db = was \/ Bare(was) THEN now ELSE stored[q].db
  <2>1. view \in [Places -> [Files -> Cells]] /\ stored \in [Places -> [Files -> Cells]]
    BY <1>0 DEF Types
  <2>2. now \in Cells /\ kept \in Cells
    BY <1>2, <1>3, <2>1 DEF Cells
  <2>3. stored' = [stored EXCEPT ![q].db = kept]
    BY <1>2, <1>4, <2>1
  <2> HIDE DEF kept, was
  <2>4. /\ view' \in [Places -> [Files -> Cells]]
        /\ view'[q].db = now /\ view'[q].secret = view[q].secret /\ view'[q].blocked = view[q].blocked
        /\ \A p \in Places : p # q => view'[p] = view[p]
    BY <1>2, <1>4, <2>1, <2>2
  <2>5. /\ stored' \in [Places -> [Files -> Cells]]
        /\ stored'[q].db = kept /\ stored'[q].secret = stored[q].secret
        /\ \A p \in Places : p # q => stored'[p] = stored[p]
    BY <1>2, <2>1, <2>2, <2>3
  <2>6. /\ named' \in [Places -> SUBSET Files]
        /\ named'[q] = {f \in Files : Exists(q, f)}
        /\ \A p \in Places : p # q => named'[p] = named[p]
    BY <1>0, <1>4 DEF Types
  <2> QED
    BY <2>4, <2>5, <2>6 DEF kept
<1>6. Types' /\ Elsewhere(q)
  BY <1>0, <1>1, <1>5 DEF Types, Elsewhere
<1>7. /\ Exists(q, "db")' /\ Exists(q, "secret")'
      /\ Exists(q, "blocked")' <=> Exists(q, "blocked")
      /\ Barred(q)' <=> Exists(q, "blocked")
  BY <1>2, <1>3, <1>5, AbsentAssumption DEF Exists, Barred
<1>8. SecretStays(q) /\ BlockerStays(q) /\ DatabaseStays(q)
  BY <1>2, <1>3, <1>5, <1>7 DEF SecretStays, BlockerStays, DatabaseStays, Barred
<1>9. Clear(q)'
  <2> SUFFICES ASSUME ~Barred(q)' PROVE stored'[q].db = view'[q].db /\ Fits(view'[q].db, view'[q].secret)
    BY DEF Clear
  <2>1. /\ stored[q].db = was \/ was.state = "empty"
        /\ Fits(was, key[r])
    BY <1>0, <1>2, <1>7 DEF Clear, Barred
  <2> QED
    BY <1>2, <1>3, <1>5, <2>1 DEF Bare
<1>10. Lasting(q)'
  BY <1>0, <1>2, <1>5, <1>7 DEF Lasting
<1>11. RelayFacts(r)'
  BY <1>1, <1>2, <1>5, <1>7 DEF RelayFacts
<1> QED
  BY <1>1, <1>2, <1>5, <1>6, <1>7, <1>8, <1>9, <1>10, <1>11, RelayStep

(* Relays that end know nothing. *)
LEMMA GoneFacts ==
  ASSUME Types, NEW R \in SUBSET Relays, Gone(R)
  PROVE  /\ step' \in [Relays -> Steps] /\ at' \in [Relays -> Places] /\ key' \in [Relays -> Cells]
         /\ \A r \in R : step'[r] = "none"
         /\ \A r \in Relays \ R : step'[r] = step[r] /\ at'[r] = at[r] /\ key'[r] = key[r]
         /\ overtaken' = overtaken \ R
BY SnapshotAssumption DEF Types, Gone, Steps, Cells

LEMMA GoneInvariant ==
  ASSUME IInv, NEW r \in Relays, Refuse(r) \/ Stop(r)
  PROVE  IInv'
<1>0. Types
  BY DEF IInv
<1>1. /\ Gone({r}) /\ step[r] # "none"
      /\ view' = view /\ stored' = stored /\ named' = named
      /\ pc' = pc /\ from' = from /\ to' = to /\ secret' = secret /\ reported' = reported
  BY DEF Refuse, Stop, files, copies
<1>2. /\ step' \in [Relays -> Steps] /\ at' \in [Relays -> Places] /\ key' \in [Relays -> Cells]
      /\ step'[r] = "none"
      /\ \A x \in Relays : x # r => step'[x] = step[x] /\ at'[x] = at[x] /\ key'[x] = key[x]
      /\ overtaken' = overtaken \ {r}
  BY <1>0, <1>1, GoneFacts
<1>3. Types'
  BY <1>0, <1>1, <1>2 DEF Types
<1>4. \A p \in Places : Clear(p)' /\ Lasting(p)' /\ ReportIsDurable(p)'
  BY <1>1 DEF IInv, Clear, Lasting, ReportIsDurable, Complete, Kept, Exists, Barred
<1>5. RelayFacts(r)' /\ Unused(r)'
  BY <1>2 DEF RelayFacts, Unused, Starting, Keyed
<1>6. ASSUME NEW x \in Relays, x # r PROVE RelayFacts(x)' /\ Unused(x)'
  <2>1. RelayFacts(x) /\ Unused(x)
    BY DEF IInv
  <2>2. RelayFacts(x)'
    BY <1>1, <1>2, <1>6, <2>1 DEF RelayFacts, Exists, Barred
  <2>3. Unused(x)'
    BY <1>1, <1>2, <1>6, <2>1 DEF Unused, Keyed
  <2> QED
    BY <2>2, <2>3
<1>7. \A a \in Admins : CopyFacts(a)' /\ Alone(a)'
  BY <1>1 DEF IInv, CopyFacts, Alone, Complete, Kept, Exists, Barred
<1> QED
  BY <1>3, <1>4, <1>5, <1>6, <1>7 DEF IInv

-----------------------------------------------------------------------------
(* Steps of one copy.                                                      *)

(* A database that is complete or read is there. *)
LEMMA DatabaseInUse ==
  ASSUME IInv, NEW p \in Places, ~Exists(p, "db")
  PROVE  /\ reported[p] = Absent
         /\ \A a \in Admins : /\ pc[a] \in Reading => from[a] # p
                              /\ pc[a] = "unblocked" => to[a] # p
<1>1. \A s : Complete(p, s) => FALSE
  BY AbsentAssumption DEF Complete, Fits, Exists
<1>2. reported[p] = Absent
  BY <1>1 DEF IInv, ReportIsDurable
<1>3. ASSUME NEW a \in Admins PROVE pc[a] \in Reading => from[a] # p
  BY AbsentAssumption DEF IInv, CopyFacts, Fits, Exists
<1>4. ASSUME NEW a \in Admins, pc[a] = "unblocked", to[a] = p PROVE FALSE
  BY <1>1, <1>4 DEF IInv, CopyFacts
<1> QED
  BY <1>2, <1>3, <1>4

(* Copies and relays stay apart where one copy begins to hold a place that *)
(* has no blocker, to fill one that has no database and no secret, to read *)
(* one that has a database and no blocker.                                 *)
LEMMA Apart ==
  ASSUME IInv, NEW q \in Places, NEW a \in Admins, step' = step, at' = at,
         \A p \in Places : p # q => reported'[p] = reported[p],
         \A b \in Admins : b # a => pc'[b] = pc[b] /\ from'[b] = from[b] /\ to'[b] = to[b],
         pc'[a] \in Holding =>
           to'[a] = q /\ ((pc[a] \in Holding /\ to[a] = q) \/ ~Exists(q, "blocked")),
         pc'[a] \in Filling =>
           to'[a] = q /\ to[a] = q /\ (pc[a] \in Filling \/ ~Exists(q, "db")),
         pc'[a] \in Reading =>
           \/ pc[a] \in Reading /\ from'[a] = from[a]
           \/ /\ pc'[a] = "checked" /\ from'[a] \in Places
              /\ Exists(from'[a], "db") /\ ~Exists(from'[a], "blocked"),
         pc'[a] \in Written \cup {"unblocked"} =>
           to'[a] = to[a] /\ (pc[a] \in Written \cup {"unblocked"} \/ ~Exists(to[a], "secret")),
         pc'[a] = "unblocked" => pc[a] \in Filling,
         reported'[q] = reported[q] \/ (pc[a] = "unblocked" /\ to[a] = q /\ pc'[a] = "none")
  PROVE  /\ \A r \in Relays : Unused(r)'
         /\ \A b \in Admins : Alone(b)'
<1>0. /\ Types
      /\ Written \subseteq Filling /\ Filling \subseteq Holding
      /\ "none" \notin Filling /\ "checked" \notin Holding /\ "unblocked" \notin Holding
      /\ "unblocked" \notin Reading
  BY DEF IInv, Written, Filling, Guarded, Holding, Reading
<1>1. ASSUME NEW r \in Relays PROVE Unused(r)'
  <2> SUFFICES ASSUME step[r] = "keying"
               PROVE  /\ reported'[at[r]] = Absent
                      /\ \A y \in Relays : step[y] \in {"keying"} \cup Keyed /\ at[y] = at[r] => y = r
                      /\ \A b \in Admins :
                           /\ pc'[b] \in Reading => from'[b] # at[r]
                           /\ pc'[b] \in Written \cup {"unblocked"} => to'[b] # at[r]
    BY DEF Unused
  <2>1. /\ Unused(r) /\ at[r] \in Places /\ Exists(at[r], "secret")
        /\ ~Exists(at[r], "db") \/ Exists(at[r], "blocked")
    BY <1>0 DEF IInv, Types, RelayFacts, Barred
  <2> QED
    BY <2>1 DEF Unused
<1>2. ASSUME NEW b \in Admins, NEW c \in Admins, pc'[b] \in Holding, pc'[c] \in Holding, to'[c] = to'[b]
      PROVE  c = b
  <2>1. \A d \in Admins : pc[d] \in Holding => Exists(to[d], "blocked") /\ Alone(d)
    BY DEF IInv, CopyFacts
  <2> QED
    BY <1>2, <2>1 DEF Alone
<1>3. ASSUME NEW b \in Admins, b # a, pc'[b] \in Filling
      PROVE  /\ reported'[to'[b]] = Absent
             /\ \A c \in Admins : /\ pc'[c] \in Reading => from'[c] # to'[b]
                                  /\ pc'[c] = "unblocked" => to'[c] # to'[b]
  <2>1. /\ pc[b] \in Filling /\ pc[b] \in Holding /\ to'[b] = to[b] /\ to[b] \in Places
        /\ Alone(b) /\ Exists(to[b], "blocked")
    BY <1>0, <1>3 DEF IInv, Types, CopyFacts
  <2>2. reported'[to'[b]] = Absent
    BY <2>1 DEF Alone
  <2>3. ASSUME NEW c \in Admins, pc'[c] \in Reading PROVE from'[c] # to'[b]
    BY <2>1, <2>3 DEF Alone
  <2>4. ASSUME NEW c \in Admins, pc'[c] = "unblocked" PROVE to'[c] # to'[b]
    BY <1>0, <1>3, <2>1, <2>4 DEF Alone
  <2> QED
    BY <2>2, <2>3, <2>4
<1>4. ASSUME pc'[a] \in Filling
      PROVE  /\ reported'[to'[a]] = Absent
             /\ \A c \in Admins : /\ pc'[c] \in Reading => from'[c] # to'[a]
                                  /\ pc'[c] = "unblocked" => to'[c] # to'[a]
  <2>1. /\ to'[a] = q /\ to[a] = q /\ reported'[q] = reported[q] /\ pc'[a] # "unblocked" /\ pc'[a] # "checked"
        /\ Alone(a)
    BY <1>0, <1>4 DEF IInv
  <2>2. CASE pc[a] \in Filling
    BY <2>1, <2>2 DEF Alone
  <2>3. CASE ~Exists(q, "db")
    BY <2>1, <2>3, DatabaseInUse
  <2> QED
    BY <1>4, <2>2, <2>3
<1>5. ASSUME NEW b \in Admins PROVE Alone(b)'
  BY <1>2, <1>3, <1>4 DEF Alone, Holding, Guarded, Filling, Written, Reading
<1> QED
  BY <1>1, <1>5

LEMMA CopyStep ==
  ASSUME IInv, Types', NEW q \in Places, Elsewhere(q), NEW a \in Admins,
         step' = step, at' = at, key' = key,
         \A b \in Admins : b # a =>
           pc'[b] = pc[b] /\ secret'[b] = secret[b] /\ from'[b] = from[b] /\ to'[b] = to[b],
         \A r \in Relays : r \notin overtaken' =>
           /\ r \notin overtaken
           /\ at[r] = q /\ step[r] \in Starting /\ ~Exists(q, "blocked") => ~Exists(q, "blocked")',
         Exists(q, "db") => Exists(q, "db")', Exists(q, "secret") => Exists(q, "secret")',
         SecretStays(q),
         BlockerStays(q) \/ (pc[a] = "named" /\ to[a] = q),
         DatabaseStays(q) \/ (pc[a] \in Filling /\ to[a] = q),
         ~Exists(q, "db") /\ Exists(q, "db")' => Barred(q)',
         Clear(q)', Lasting(q)', reported'[q] = reported[q] \/ ReportIsDurable(q)',
         CopyFacts(a)', \A r \in Relays : Unused(r)', \A b \in Admins : Alone(b)'
  PROVE  IInv'
<1>1. PICK R \in SUBSET Relays, A \in SUBSET Admins : R = {} /\ A = {a}
  OBVIOUS
<1>2. /\ \A x \in Relays \ R : step'[x] = step[x] /\ at'[x] = at[x] /\ key'[x] = key[x]
      /\ \A b \in Admins \ A :
           pc'[b] = pc[b] /\ secret'[b] = secret[b] /\ from'[b] = from[b] /\ to'[b] = to[b]
      /\ BlockerStays(q) \/ \E b \in A : pc[b] = "named" /\ to[b] = q
      /\ DatabaseStays(q) \/ \E b \in A : pc[b] \in Filling /\ to[b] = q
      /\ \A x \in R : RelayFacts(x)'
      /\ \A b \in A : CopyFacts(b)'
  BY <1>1
<1>3. \A x \in Relays \ R : x \notin overtaken' =>
        /\ x \notin overtaken
        /\ at[x] = q /\ step[x] \in Starting /\ ~Exists(q, "blocked") => ~Exists(q, "blocked")'
  OBVIOUS
<1> QED
  BY <1>2, <1>3, Step

(* What Does says. *)
LEMMA DoesFacts ==
  ASSUME Types, NEW a \in Admins, NEW before \in Phases, NEW after \in Phases, Does(a, before, after)
  PROVE  /\ pc[a] = before /\ pc'[a] = after
         /\ pc' \in [Admins -> Phases]
         /\ \A b \in Admins : b # a => pc'[b] = pc[b]
         /\ from' = from /\ to' = to /\ reported' = reported
         /\ step' = step /\ at' = at /\ key' = key
BY DEF Types, Does

(* Steps that only sync, or change no file at all. *)
LEMMA SyncInvariant ==
  ASSUME IInv, NEW a \in Admins, NEW q \in Places, q = to[a],
         \/ Lock(a) \/ SyncBlocker(a) \/ SyncDatabase(a) \/ SyncSecret(a) \/ SyncNames(a)
         \/ Vacuum(a) /\ UNCHANGED files
  PROVE  IInv'
<1>0. /\ Types /\ Clear(q) /\ Lasting(q) /\ CopyFacts(a) /\ from[a] \in Places
      /\ "secret" \in Files /\ "db" \in Files /\ "blocked" \in Files
      /\ view[from[a]].secret \in Cells
  BY DEF IInv, Files, Types
<1>1. /\ pc' \in [Admins -> Phases]
      /\ \A b \in Admins : b # a => pc'[b] = pc[b] /\ secret'[b] = secret[b]
      /\ secret' \in [Admins -> Cells]
      /\ from' = from /\ to' = to /\ reported' = reported
      /\ step' = step /\ at' = at /\ key' = key /\ overtaken' = overtaken
      /\ pc[a] # "checked" => secret'[a] = secret[a]
  <2>1. CASE Lock(a)
    BY <1>0, <2>1, DoesFacts DEF Lock, Phases, Types
  <2>2. CASE SyncBlocker(a)
    BY <1>0, <2>2, DoesFacts DEF SyncBlocker, Unmoved, Types, Phases, Holding, Guarded
  <2>3. CASE SyncDatabase(a) \/ SyncSecret(a) \/ SyncNames(a)
    BY <1>0, <2>3, DoesFacts
       DEF SyncDatabase, SyncSecret, SyncNames, Unmoved, Types, Phases, Holding, Guarded, Filling, Written
  <2>4. CASE Vacuum(a)
    BY <1>0, <2>4, DoesFacts DEF Vacuum, Unmoved, Types, Phases, Holding, Guarded, Filling
  <2> QED
    BY <2>1, <2>2, <2>3, <2>4
<1>2. \/ /\ pc[a] = "checked" /\ pc'[a] = "locked" /\ secret'[a] = view[from[a]].secret
         /\ view' = view /\ stored' = stored /\ named' = named
      \/ /\ pc[a] = "blocking" /\ pc'[a] = "blocked" /\ SyncBoth(q, "blocked")
      \/ /\ pc[a] = "gapped" /\ pc'[a] = "syncing" /\ SyncFile(q, "db")
      \/ /\ pc[a] = "syncing" /\ pc'[a] = "synced" /\ SyncFile(q, "secret")
      \/ /\ pc[a] = "synced" /\ pc'[a] = "named" /\ SyncDirectory(q)
      \/ /\ pc[a] = "created" /\ pc'[a] = "vacuumed" /\ view[q].db.state = "begun"
         /\ view' = view /\ stored' = stored /\ named' = named
  BY <1>0, <1>1 DEF Lock, SyncBlocker, SyncDatabase, SyncSecret, SyncNames, Vacuum, Does, files, Types
<1>3. /\ view' = view
      /\ stored' \in [Places -> [Files -> Cells]] /\ named' \in [Places -> SUBSET Files]
      /\ \A f \in Files : stored'[q][f] \in {stored[q][f], view[q][f]}
      /\ named'[q] \in {named[q], {f \in Files : Exists(q, f)}}
      /\ \A p \in Places : p # q => stored'[p] = stored[p] /\ named'[p] = named[p]
      /\ pc[a] = "blocking" => named'[q] = {f \in Files : Exists(q, f)}
      /\ pc[a] = "gapped" => stored'[q].db = view[q].db /\ stored'[q].secret = stored[q].secret
      /\ pc[a] = "syncing" => stored'[q].secret = view[q].secret /\ stored'[q].db = stored[q].db
      /\ pc[a] = "synced" => stored' = stored /\ named'[q] = {f \in Files : Exists(q, f)}
  <2>1. CASE view' = view /\ stored' = stored /\ named' = named /\ pc[a] \in {"checked", "created"}
    BY <1>0, <2>1 DEF Types
  <2>2. CASE pc[a] = "blocking" /\ SyncBoth(q, "blocked")
    BY <1>0, <2>2, SyncBothFacts
  <2>3. CASE pc[a] = "gapped" /\ SyncFile(q, "db")
    <3>1. /\ stored' \in [Places -> [Files -> Cells]]
          /\ stored'[q].db = view[q].db
          /\ \A h \in Files : h # "db" => stored'[q][h] = stored[q][h]
          /\ \A p \in Places : p # q => stored'[p] = stored[p]
          /\ view' = view /\ named' = named
      BY <1>0, <2>3, SyncFileFacts
    <3>2. stored'[q].secret = stored[q].secret /\ named \in [Places -> SUBSET Files]
      BY <1>0, <3>1 DEF Types
    <3>3. \A h \in Files : stored'[q][h] \in {stored[q][h], view[q][h]}
      BY <3>1
    <3> QED
      BY <2>3, <3>1, <3>2, <3>3
  <2>4. CASE pc[a] = "syncing" /\ SyncFile(q, "secret")
    <3>1. /\ stored' \in [Places -> [Files -> Cells]]
          /\ stored'[q].secret = view[q].secret
          /\ \A h \in Files : h # "secret" => stored'[q][h] = stored[q][h]
          /\ \A p \in Places : p # q => stored'[p] = stored[p]
          /\ view' = view /\ named' = named
      BY <1>0, <2>4, SyncFileFacts
    <3>2. stored'[q].db = stored[q].db /\ named \in [Places -> SUBSET Files]
      BY <1>0, <3>1 DEF Types
    <3>3. \A h \in Files : stored'[q][h] \in {stored[q][h], view[q][h]}
      BY <3>1
    <3> QED
      BY <2>4, <3>1, <3>2, <3>3
  <2>5. CASE pc[a] = "synced" /\ SyncDirectory(q)
    BY <1>0, <2>5, SyncDirectoryFacts DEF Types
  <2> QED
    BY <1>2, <2>1, <2>2, <2>3, <2>4, <2>5
<1>4. Types' /\ Elsewhere(q)
  BY <1>0, <1>1, <1>3 DEF Types, Elsewhere
<1>5. /\ Stay(q) /\ Clear(q)' /\ Lasting(q)'
      /\ Exists(q, "db")' <=> Exists(q, "db")
      /\ Exists(q, "secret")' <=> Exists(q, "secret")
      /\ Exists(q, "blocked")' <=> Exists(q, "blocked")
      /\ Barred(q) => Barred(q)'
      /\ pc[a] = "blocking" => Barred(q)'
  <2>1. Stay(q) /\ Clear(q)' /\ Lasting(q)' /\ \A f \in Files : Exists(q, f)' <=> Exists(q, f)
    BY <1>0, <1>3, <1>4, SyncStays
  <2>2. pc[a] = "blocking" => Barred(q)'
    BY <1>0, <1>3, <2>1 DEF CopyFacts, Barred, Holding
  <2> QED
    BY <1>0, <2>1, <2>2 DEF Stay, BlockerStays
<1>6. CopyFacts(a)'
  <2>1. CASE pc[a] \in {"checked", "blocking"}
    BY <1>0, <1>1, <1>2, <1>3, <1>5, <2>1 DEF CopyFacts, Holding, Guarded, Filling, Written, Reading
  <2>2. CASE pc[a] = "created"
    BY <1>0, <1>1, <1>2, <1>3, <1>5, <2>2 DEF CopyFacts, Holding, Guarded, Filling, Written, Reading
  <2>3. CASE pc[a] \in {"gapped", "syncing", "synced"}
    <3>1. /\ view[q].secret = secret[a] /\ secret[a] \in Content
          /\ Exists(q, "db") /\ Exists(q, "blocked") /\ Barred(q)
          /\ view[q].db.state = "begun" \/ view[q].db.of = secret[a].of
          /\ view[q].db.state \in {"gapped", "ledger"}
          /\ pc[a] # "gapped" => stored[q].db = view[q].db
          /\ pc[a] = "synced" => stored[q].secret = secret[a]
      BY <1>0, <2>3 DEF CopyFacts, Holding, Guarded, Filling, Written
    <3>2. pc[a] = "synced" => {"db", "secret"} \subseteq named'[q]
      BY <1>0, <1>3, <3>1, AbsentAssumption DEF Exists
    <3> QED
      BY <1>0, <1>1, <1>2, <1>3, <1>5, <2>3, <3>1, <3>2
         DEF CopyFacts, Holding, Guarded, Filling, Written, Reading
  <2> QED
    BY <1>2, <2>1, <2>2, <2>3
<1>7. /\ \A r \in Relays : Unused(r)'
      /\ \A b \in Admins : Alone(b)'
  <2>1. /\ pc'[a] \in Holding => pc[a] \in Holding
        /\ pc'[a] \in Filling => pc[a] \in Filling
        /\ pc'[a] \in Reading => pc[a] \in Reading
        /\ pc'[a] # "unblocked"
        /\ pc'[a] \in Written => pc[a] \in Written
    BY <1>2 DEF Holding, Guarded, Filling, Written, Reading
  <2> QED
    BY <1>1, <2>1, Apart
<1> QED
  BY <1>0, <1>1, <1>4, <1>5, <1>6, <1>7, CopyStep DEF Stay

(* A copy takes its places: the source is whole, since it has no blocker. *)
LEMMA CheckInvariant ==
  ASSUME IInv, NEW a \in Admins, NEW p \in Places, NEW q \in Places, Check(a, p, q)
  PROVE  IInv'
<1>0. /\ Types /\ Clear(q) /\ Lasting(q) /\ Clear(p)
      /\ "secret" \in Files /\ "db" \in Files /\ "blocked" \in Files
  BY DEF IInv, Files
<1>1. /\ pc[a] = "none" /\ pc'[a] = "checked" /\ from'[a] = p /\ to'[a] = q
      /\ pc' \in [Admins -> Phases] /\ from' \in [Admins -> Places] /\ to' \in [Admins -> Places]
      /\ \A b \in Admins : b # a => pc'[b] = pc[b] /\ from'[b] = from[b] /\ to'[b] = to[b]
      /\ secret' = secret /\ reported' = reported
      /\ step' = step /\ at' = at /\ key' = key /\ overtaken' = overtaken
      /\ view' = view /\ stored' = stored /\ named' = named
      /\ Exists(p, "db") /\ Exists(p, "secret") /\ ~Exists(p, "blocked")
  BY <1>0 DEF Check, Types, Phases, files, relays
<1>2. Types' /\ Elsewhere(q)
  BY <1>0, <1>1 DEF Types, Elsewhere
<1>3. /\ Stay(q) /\ Clear(q)' /\ Lasting(q)'
      /\ Exists(q, "db")' <=> Exists(q, "db")
      /\ Exists(q, "secret")' <=> Exists(q, "secret")
      /\ Exists(q, "blocked")' <=> Exists(q, "blocked")
  BY <1>0, <1>1, <1>2, SyncStays
<1>4. CopyFacts(a)'
  <2>1. Fits(view[p].db, view[p].secret)
    BY <1>0, <1>1 DEF Clear, Barred
  <2> QED
    BY <1>1, <2>1 DEF CopyFacts, Holding, Guarded, Filling, Written, Reading
<1>5. /\ \A r \in Relays : Unused(r)'
      /\ \A b \in Admins : Alone(b)'
  <2>1. /\ pc'[a] \notin Holding /\ pc'[a] \notin Filling /\ pc'[a] \notin Written \cup {"unblocked"}
        /\ pc'[a] # "unblocked"
    BY <1>1 DEF Holding, Guarded, Filling, Written
  <2> QED
    BY <1>1, <2>1, Apart
<1> QED
  BY <1>1, <1>2, <1>3, <1>4, <1>5, CopyStep DEF Stay

(* The blocker is written: relays that have looked are overtaken. *)
LEMMA BlockInvariant ==
  ASSUME IInv, NEW a \in Admins, NEW q \in Places, q = to[a], Block(a)
  PROVE  IInv'
<1>0. /\ Types /\ Clear(q) /\ Lasting(q) /\ CopyFacts(a)
      /\ "secret" \in Files /\ "db" \in Files /\ "blocked" \in Files
  BY DEF IInv, Files
<1>1. /\ pc[a] = "locked" /\ pc'[a] = "blocking" /\ pc' \in [Admins -> Phases]
      /\ \A b \in Admins : b # a => pc'[b] = pc[b]
      /\ from' = from /\ to' = to /\ reported' = reported /\ secret' = secret
      /\ step' = step /\ at' = at /\ key' = key
      /\ ~Exists(q, "blocked")
      /\ \A r \in Relays : r \notin overtaken' =>
           r \notin overtaken /\ ~(at[r] = q /\ step[r] \in Starting)
  BY <1>0, DoesFacts DEF Block, Phases, Holding, Starting
<1> DEFINE c == [state |-> "whole", of |-> First]
<1>2. c \in Content /\ Put(q, "blocked", c)
  BY SnapshotAssumption DEF Content, Block
<1> HIDE DEF c
<1>3. /\ Exists(q, "blocked")'
      /\ view'[q].db = view[q].db /\ view'[q].secret = view[q].secret
      /\ Exists(q, "db")' <=> Exists(q, "db")
      /\ Exists(q, "secret")' <=> Exists(q, "secret")
      /\ Elsewhere(q)
      /\ view' \in [Places -> [Files -> Cells]] /\ stored' = stored /\ named' = named
      /\ SecretStays(q) /\ DatabaseStays(q) /\ BlockerStays(q)
  BY <1>0, <1>1, <1>2, PutRest
<1>4. Types'
  BY <1>0, <1>1, <1>3 DEF Types
<1>5. Clear(q)' /\ Lasting(q)'
  BY <1>0, <1>1, <1>3 DEF Clear, Lasting, Exists, Barred
<1>6. /\ from[a] \in Places /\ pc[a] \in Reading /\ pc[a] # "checked"
      /\ Fits(view[from[a]].db, view[from[a]].secret) /\ secret[a] = view[from[a]].secret
  BY <1>0, <1>1 DEF Types, CopyFacts, Reading
<1>7. view'[from[a]].db = view[from[a]].db /\ view'[from[a]].secret = view[from[a]].secret
  BY <1>3, <1>6 DEF Elsewhere
<1>8. CopyFacts(a)'
  BY <1>1, <1>3, <1>6, <1>7 DEF CopyFacts, Holding, Guarded, Filling, Written, Reading
<1>9. /\ \A r \in Relays : Unused(r)'
      /\ \A b \in Admins : Alone(b)'
  <2>1. /\ pc'[a] \notin Filling /\ pc'[a] \notin Written \cup {"unblocked"}
        /\ pc'[a] # "unblocked"
    BY <1>1 DEF Filling, Written
  <2> QED
    BY <1>1, <1>6, <2>1, Apart
<1> QED
  BY <1>1, <1>3, <1>4, <1>5, <1>8, <1>9, CopyStep

(* The copy's own file is created. *)
LEMMA CreateInvariant ==
  ASSUME IInv, NEW a \in Admins, NEW q \in Places, q = to[a], Create(a)
  PROVE  IInv'
<1>0. /\ Types /\ Clear(q) /\ Lasting(q) /\ CopyFacts(a) /\ from[a] \in Places
      /\ "secret" \in Files /\ "db" \in Files /\ "blocked" \in Files
  BY DEF IInv, Files, Types
<1>1. /\ pc[a] = "blocked" /\ pc'[a] = "created" /\ pc' \in [Admins -> Phases]
      /\ \A b \in Admins : b # a => pc'[b] = pc[b]
      /\ from' = from /\ to' = to /\ reported' = reported /\ secret' = secret
      /\ step' = step /\ at' = at /\ key' = key /\ overtaken' = overtaken
      /\ ~Exists(q, "db")
  BY <1>0, DoesFacts DEF Create, Unmoved, Phases, Holding, Guarded, Filling
<1>2. /\ Exists(q, "blocked") /\ Barred(q)
      /\ Fits(view[from[a]].db, view[from[a]].secret) /\ secret[a] = view[from[a]].secret
      /\ secret[a] \in Content /\ from[a] # q
  BY <1>0, <1>1, AbsentAssumption DEF CopyFacts, Holding, Guarded, Reading, Fits, Exists
<1> DEFINE c == [state |-> "begun", of |-> secret[a].of]
<1>3. c \in Content /\ Put(q, "db", c)
  BY <1>2 DEF Content, Create
<1> HIDE DEF c
<1>4. /\ view'[q].secret = view[q].secret
      /\ Exists(q, "db")'
      /\ Exists(q, "secret")' <=> Exists(q, "secret")
      /\ Exists(q, "blocked")'
      /\ Barred(q)'
      /\ Elsewhere(q)
      /\ view' \in [Places -> [Files -> Cells]] /\ stored' = stored /\ named' = named
      /\ SecretStays(q) /\ BlockerStays(q)
  BY <1>0, <1>1, <1>2, <1>3, PutRest
<1>5. Types'
  BY <1>0, <1>1, <1>4 DEF Types
<1>6. Clear(q)' /\ Lasting(q)'
  BY <1>0, <1>4 DEF Clear, Lasting, Exists
<1>7. CopyFacts(a)'
  BY <1>0, <1>1, <1>2, <1>4 DEF CopyFacts, Holding, Guarded, Filling, Written, Reading, Elsewhere
<1>8. /\ \A r \in Relays : Unused(r)'
      /\ \A b \in Admins : Alone(b)'
  <2>1. /\ pc[a] \in Holding /\ pc[a] \in Reading
        /\ pc'[a] \notin Written \cup {"unblocked"} /\ pc'[a] # "unblocked"
    BY <1>1 DEF Holding, Guarded, Reading, Written
  <2> QED
    BY <1>1, <2>1, Apart
<1>9. DatabaseStays(q)
  BY <1>1 DEF DatabaseStays
<1> QED
  BY <1>1, <1>2, <1>4, <1>5, <1>6, <1>7, <1>8, <1>9, CopyStep

(* A copy goes on filling its place: its blocker stays, nobody relies on   *)
(* the place. *)
LEMMA FillStep ==
  ASSUME IInv, Types', NEW a \in Admins, NEW q \in Places, q = to[a],
         NEW after \in Filling \ {"created"}, pc[a] \in Filling, pc'[a] = after,
         pc'[a] \in Written => pc[a] \in Written \/ ~Exists(q, "secret"),
         \A b \in Admins : b # a => pc'[b] = pc[b],
         from' = from, to' = to, reported' = reported, secret' = secret,
         step' = step, at' = at, key' = key, overtaken' = overtaken,
         Elsewhere(q), stored' = stored, named' = named,
         view'[q].blocked = view[q].blocked,
         Exists(q, "db")', SecretStays(q), Exists(q, "secret") => Exists(q, "secret")',
         stored[q].secret # Absent => view'[q].secret = view[q].secret,
         CopyFacts(a)'
  PROVE  IInv'
<1>1. /\ Lasting(q) /\ Barred(q) /\ Exists(q, "db")
      /\ after \in Holding /\ after \notin Reading /\ after # "unblocked" /\ pc[a] \in Holding
  BY DEF IInv, CopyFacts, Holding, Guarded, Filling, Written, Reading
<1>2. Barred(q)' /\ BlockerStays(q) /\ (Exists(q, "blocked")' <=> Exists(q, "blocked"))
  BY <1>1 DEF Barred, Exists, BlockerStays
<1>3. Clear(q)'
  BY <1>2 DEF Clear
<1>4. Lasting(q)'
  <2>1. \A f \in {"db", "secret"} : f \in named[q] \/ stored[q][f] # Absent => Exists(q, f)'
    BY <1>1 DEF Lasting
  <2>2. stored[q].secret # Absent => stored[q].secret.of = view'[q].secret.of
    BY <1>1 DEF Lasting
  <2> QED
    BY <2>1, <2>2 DEF Lasting
<1>5. /\ \A r \in Relays : Unused(r)'
      /\ \A b \in Admins : Alone(b)'
  BY <1>1, Apart
<1> QED
  BY <1>1, <1>2, <1>3, <1>4, <1>5, CopyStep

(* The database is copied into the empty file. *)
LEMMA VacuumInvariant ==
  ASSUME IInv, NEW a \in Admins, NEW q \in Places, q = to[a], Vacuum(a)
  PROVE  IInv'
<1>0. /\ Types /\ CopyFacts(a) /\ from[a] \in Places
      /\ "secret" \in Files /\ "db" \in Files /\ "blocked" \in Files
  BY DEF IInv, Files, Types
<1>1. /\ pc[a] = "created" /\ pc'[a] = "vacuumed" /\ pc' \in [Admins -> Phases]
      /\ \A b \in Admins : b # a => pc'[b] = pc[b]
      /\ from' = from /\ to' = to /\ reported' = reported /\ secret' = secret
      /\ step' = step /\ at' = at /\ key' = key /\ overtaken' = overtaken
  BY <1>0, DoesFacts DEF Vacuum, Unmoved, Phases, Holding, Guarded, Filling
<1> DEFINE s == view[from[a]].db
<1>2. /\ Fits(s, secret[a]) /\ s \in Content /\ secret[a] \in Content
      /\ Exists(q, "blocked") /\ Barred(q) /\ Exists(q, "db")
  BY <1>0, <1>1 DEF CopyFacts, Holding, Guarded, Filling, Reading, Fits
<1>3. CASE UNCHANGED files
  BY <1>3, SyncInvariant
<1>4. ASSUME NEW c \in Content, c.of = s.of, Put(q, "db", c) PROVE IInv'
  <2>1. /\ view'[q].db = c /\ view'[q].secret = view[q].secret /\ view'[q].blocked = view[q].blocked
        /\ Exists(q, "db")'
        /\ Exists(q, "secret")' <=> Exists(q, "secret")
        /\ Exists(q, "blocked")'
        /\ Barred(q)'
        /\ Elsewhere(q)
        /\ view' \in [Places -> [Files -> Cells]] /\ stored' = stored /\ named' = named
        /\ SecretStays(q) /\ BlockerStays(q)
    BY <1>0, <1>1, <1>2, <1>4, PutRest
  <2>2. Types'
    BY <1>0, <1>1, <2>1 DEF Types
  <2>3. CopyFacts(a)'
    BY <1>0, <1>1, <1>2, <1>4, <2>1 DEF CopyFacts, Holding, Guarded, Filling, Written, Reading, Fits
  <2>4. /\ pc[a] \in Filling /\ "vacuumed" \in Filling \ {"created"} /\ pc'[a] \notin Written
        /\ stored[q].secret # Absent => view'[q].secret = view[q].secret
    BY <1>1, <2>1 DEF Filling, Written
  <2> QED
    BY <1>1, <2>1, <2>2, <2>3, <2>4, FillStep
<1>5. CASE s.state = "gapped" /\ Put(q, "db", s)
  BY <1>2, <1>4, <1>5
<1>6. CASE s.state = "ledger" /\ Put(q, "db", [s EXCEPT !.state = "copied"])
  <2>1. [s EXCEPT !.state = "copied"] \in Content /\ [s EXCEPT !.state = "copied"].of = s.of
    BY <1>2 DEF Content
  <2> QED
    BY <1>4, <1>6, <2>1
<1> QED
  BY <1>3, <1>5, <1>6 DEF Vacuum

(* The secret is written ... *)
LEMMA WriteInvariant ==
  ASSUME IInv, NEW a \in Admins, NEW q \in Places, q = to[a], WriteSecret(a)
  PROVE  IInv'
<1>0. /\ Types /\ CopyFacts(a) /\ Lasting(q)
      /\ "secret" \in Files /\ "db" \in Files /\ "blocked" \in Files
  BY DEF IInv, Files, Types
<1>1. /\ pc[a] = "vacuumed" /\ pc'[a] = "copied" /\ pc' \in [Admins -> Phases]
      /\ \A b \in Admins : b # a => pc'[b] = pc[b]
      /\ from' = from /\ to' = to /\ reported' = reported /\ secret' = secret
      /\ step' = step /\ at' = at /\ key' = key /\ overtaken' = overtaken
      /\ ~Exists(q, "secret")
  BY <1>0, DoesFacts DEF WriteSecret, Unmoved, Phases, Holding, Guarded, Filling, Written
<1>2. /\ secret[a] \in Content /\ Exists(q, "blocked") /\ Barred(q) /\ Exists(q, "db")
      /\ view[q].db.state = "begun" \/ view[q].db.of = secret[a].of
  BY <1>0, <1>1 DEF CopyFacts, Holding, Guarded, Filling
<1>3. Put(q, "secret", secret[a])
  BY DEF WriteSecret
<1>4. /\ view'[q].secret = secret[a] /\ view'[q].db = view[q].db /\ view'[q].blocked = view[q].blocked
      /\ Exists(q, "db")' /\ Exists(q, "secret")' /\ Exists(q, "blocked")'
      /\ Barred(q)'
      /\ Elsewhere(q)
      /\ view' \in [Places -> [Files -> Cells]] /\ stored' = stored /\ named' = named
  BY <1>0, <1>1, <1>2, <1>3, PutRest
<1>5. Types'
  BY <1>0, <1>1, <1>4 DEF Types
<1>6. CopyFacts(a)'
  BY <1>0, <1>1, <1>2, <1>4 DEF CopyFacts, Holding, Guarded, Filling, Written, Reading
<1>7. /\ pc[a] \in Filling /\ "copied" \in Filling \ {"created"} /\ SecretStays(q)
      /\ stored[q].secret # Absent => view'[q].secret = view[q].secret
  BY <1>0, <1>1 DEF Filling, Written, SecretStays, Lasting
<1> QED
  BY <1>1, <1>4, <1>5, <1>6, <1>7, FillStep

(* and the gap recorded. *)
LEMMA MarkGapInvariant ==
  ASSUME IInv, NEW a \in Admins, NEW q \in Places, q = to[a], MarkGap(a)
  PROVE  IInv'
<1>0. /\ Types /\ CopyFacts(a)
      /\ "secret" \in Files /\ "db" \in Files /\ "blocked" \in Files
  BY DEF IInv, Files, Types
<1>1. /\ pc[a] = "copied" /\ pc'[a] = "gapped" /\ pc' \in [Admins -> Phases]
      /\ \A b \in Admins : b # a => pc'[b] = pc[b]
      /\ from' = from /\ to' = to /\ reported' = reported /\ secret' = secret
      /\ step' = step /\ at' = at /\ key' = key /\ overtaken' = overtaken
      /\ view[q].db.state \in {"copied", "gapped", "ledger"}
  BY <1>0, DoesFacts DEF MarkGap, Unmoved, Phases, Holding, Guarded, Filling, Written
<1>2. /\ secret[a] \in Content /\ Exists(q, "blocked") /\ Barred(q) /\ Exists(q, "db")
      /\ view[q].db \in Content
      /\ view[q].secret = secret[a] /\ view[q].db.of = secret[a].of
  BY <1>0, <1>1 DEF CopyFacts, Holding, Guarded, Filling, Written, Types, Cells, Exists
<1> DEFINE c == [view[q].db EXCEPT !.state = "gapped"]
<1>3. c \in Content /\ c.of = secret[a].of /\ c.state = "gapped" /\ Put(q, "db", c)
  BY <1>2 DEF Content, MarkGap
<1> HIDE DEF c
<1>4. /\ view'[q].db = c /\ view'[q].secret = view[q].secret /\ view'[q].blocked = view[q].blocked
      /\ Exists(q, "db")' /\ Exists(q, "blocked")'
      /\ Exists(q, "secret")' <=> Exists(q, "secret")
      /\ Barred(q)'
      /\ Elsewhere(q) /\ SecretStays(q)
      /\ view' \in [Places -> [Files -> Cells]] /\ stored' = stored /\ named' = named
  BY <1>0, <1>1, <1>2, <1>3, PutRest
<1>5. Types'
  BY <1>0, <1>1, <1>4 DEF Types
<1>6. CopyFacts(a)'
  BY <1>0, <1>1, <1>2, <1>3, <1>4 DEF CopyFacts, Holding, Guarded, Filling, Written, Reading
<1>7. /\ pc[a] \in Filling /\ "gapped" \in Filling \ {"created"} /\ pc[a] \in Written
      /\ stored[q].secret # Absent => view'[q].secret = view[q].secret
  BY <1>1, <1>4 DEF Filling, Written
<1> QED
  BY <1>1, <1>4, <1>5, <1>6, <1>7, FillStep

(* The blocker goes, now that all is durable. *)
LEMMA UnblockInvariant ==
  ASSUME IInv, NEW a \in Admins, NEW q \in Places, q = to[a], Unblock(a)
  PROVE  IInv'
<1>0. /\ Types /\ CopyFacts(a) /\ Lasting(q)
      /\ "secret" \in Files /\ "db" \in Files /\ "blocked" \in Files
  BY DEF IInv, Files, Types
<1>1. /\ pc[a] = "named" /\ pc'[a] = "unblocked" /\ pc' \in [Admins -> Phases]
      /\ \A b \in Admins : b # a => pc'[b] = pc[b]
      /\ from' = from /\ to' = to /\ reported' = reported /\ secret' = secret
      /\ step' = step /\ at' = at /\ key' = key /\ overtaken' = overtaken
  BY <1>0, DoesFacts DEF Unblock, Unmoved, Phases, Holding, Guarded, Filling, Written
<1>2. /\ secret[a] \in Content /\ Exists(q, "db") /\ view[q].db \in Content
      /\ view[q].secret = secret[a] /\ view[q].db.of = secret[a].of
      /\ view[q].db.state \in {"gapped", "ledger"}
      /\ stored[q].db = view[q].db /\ stored[q].secret = secret[a]
      /\ {"db", "secret"} \subseteq named[q]
  BY <1>0, <1>1 DEF CopyFacts, Holding, Guarded, Filling, Written, Types, Cells, Exists
<1>3. /\ view' \in [Places -> [Files -> Cells]]
      /\ view'[q].blocked = Absent /\ view'[q].db = view[q].db /\ view'[q].secret = view[q].secret
      /\ \A p \in Places : p # q => view'[p] = view[p]
      /\ stored' = stored /\ named' = named
  BY <1>0, PutFacts DEF Unblock, Cells
<1>4. Types' /\ Elsewhere(q)
  BY <1>0, <1>1, <1>3 DEF Types, Elsewhere
<1>5. /\ ~Exists(q, "blocked")'
      /\ Exists(q, "db")' <=> Exists(q, "db")
      /\ Exists(q, "secret")' <=> Exists(q, "secret")
      /\ SecretStays(q) /\ DatabaseStays(q)
  BY <1>3 DEF Exists, SecretStays, DatabaseStays
<1>6. Complete(q, secret[a])'
  BY <1>1, <1>2, <1>3 DEF Complete, Fits, Kept
<1>7. Clear(q)' /\ Lasting(q)'
  <2>1. Fits(view'[q].db, view'[q].secret) /\ stored'[q].db = view'[q].db
    BY <1>1, <1>6 DEF Complete, Kept
  <2> QED
    BY <1>0, <1>3, <1>5, <2>1 DEF Clear, Lasting, Exists
<1>8. CopyFacts(a)'
  BY <1>1, <1>6 DEF CopyFacts, Holding, Guarded, Filling, Written, Reading
<1>9. /\ \A r \in Relays : Unused(r)'
      /\ \A b \in Admins : Alone(b)'
  <2>1. /\ pc'[a] \notin Holding /\ pc'[a] \notin Filling /\ pc'[a] \notin Reading
        /\ pc[a] \in Written /\ pc[a] \in Filling
    BY <1>1 DEF Holding, Guarded, Filling, Written, Reading
  <2> QED
    BY <1>1, <2>1, Apart
<1> QED
  BY <1>1, <1>4, <1>5, <1>7, <1>8, <1>9, CopyStep

(* What Over says. *)
LEMMA OverFacts ==
  ASSUME Types, NEW A \in SUBSET Admins, Over(A)
  PROVE  /\ pc' \in [Admins -> Phases] /\ secret' \in [Admins -> Cells]
         /\ from' \in [Admins -> Places] /\ to' \in [Admins -> Places]
         /\ \A a \in A : pc'[a] = "none"
         /\ \A b \in Admins \ A :
              pc'[b] = pc[b] /\ secret'[b] = secret[b] /\ from'[b] = from[b] /\ to'[b] = to[b]
BY SnapshotAssumption DEF Types, Over, Phases, Cells

(* The names without the blocker are durable, and the copy is reported. *)
LEMMA SyncUnblockedInvariant ==
  ASSUME IInv, NEW a \in Admins, NEW q \in Places, q = to[a], SyncUnblocked(a)
  PROVE  IInv'
<1>0. Types /\ CopyFacts(a) /\ Clear(q) /\ Lasting(q)
  BY DEF IInv
<1>1. /\ pc[a] = "unblocked" /\ pc'[a] = "none" /\ pc' \in [Admins -> Phases]
      /\ from' \in [Admins -> Places] /\ to' \in [Admins -> Places] /\ secret' \in [Admins -> Cells]
      /\ \A b \in Admins : b # a =>
           pc'[b] = pc[b] /\ secret'[b] = secret[b] /\ from'[b] = from[b] /\ to'[b] = to[b]
      /\ step' = step /\ at' = at /\ key' = key /\ overtaken' = overtaken
  BY <1>0, OverFacts DEF SyncUnblocked, relays
<1>2. /\ reported' \in [Places -> Cells] /\ reported'[q] = secret[a]
      /\ \A p \in Places : p # q => reported'[p] = reported[p]
  BY <1>0 DEF SyncUnblocked, Types
<1>3. /\ view' = view /\ stored' = stored
      /\ named' \in [Places -> SUBSET Files]
      /\ named'[q] = {f \in Files : Exists(q, f)}
      /\ \A p \in Places : p # q => named'[p] = named[p]
  BY <1>0, SyncDirectoryFacts DEF SyncUnblocked
<1>4. Types' /\ Elsewhere(q)
  BY <1>0, <1>1, <1>2, <1>3 DEF Types, Elsewhere, SyncUnblocked
<1>5. /\ Stay(q) /\ Clear(q)' /\ Lasting(q)'
      /\ \A f \in Files : Exists(q, f)' <=> Exists(q, f)
  BY <1>0, <1>3, <1>4, SyncStays
<1>6. ReportIsDurable(q)'
  <2>1. PICK s : s = secret[a]
    OBVIOUS
  <2>2. Complete(q, s)
    BY <1>0, <1>1, <2>1 DEF CopyFacts
  <2>3. Complete(q, s)'
    BY <1>0, <1>5, <2>2, CompleteKept DEF Stay
  <2> QED
    BY <1>2, <2>1, <2>3 DEF ReportIsDurable, Complete
<1>7. CopyFacts(a)'
  BY <1>1 DEF CopyFacts, Holding, Guarded, Filling, Written, Reading
<1>8. /\ \A r \in Relays : Unused(r)'
      /\ \A b \in Admins : Alone(b)'
  <2>1. pc'[a] \notin Holding /\ pc'[a] \notin Filling /\ pc'[a] \notin Reading /\ pc'[a] \notin Written
    BY <1>1 DEF Holding, Guarded, Filling, Written, Reading
  <2> QED
    BY <1>1, <1>2, <2>1, Apart
<1>9. "db" \in Files /\ "secret" \in Files /\ "blocked" \in Files
  BY DEF Files
<1> QED
  BY <1>1, <1>4, <1>5, <1>6, <1>7, <1>8, <1>9, CopyStep DEF Stay

(* A copy fails, and what it leaves has a blocker. *)
LEMMA GiveUpInvariant ==
  ASSUME IInv, NEW a \in Admins, NEW q \in Places, q = to[a], GiveUp(a)
  PROVE  IInv'
<1>0. /\ Types /\ CopyFacts(a) /\ Clear(q) /\ Lasting(q)
      /\ "db" \in Files /\ "secret" \in Files /\ "blocked" \in Files
  BY DEF IInv, Files
<1>1. /\ pc[a] # "none" /\ pc'[a] = "none" /\ pc' \in [Admins -> Phases]
      /\ from' \in [Admins -> Places] /\ to' \in [Admins -> Places] /\ secret' \in [Admins -> Cells]
      /\ \A b \in Admins : b # a =>
           pc'[b] = pc[b] /\ secret'[b] = secret[b] /\ from'[b] = from[b] /\ to'[b] = to[b]
      /\ step' = step /\ at' = at /\ key' = key /\ overtaken' = overtaken
      /\ stored' = stored /\ named' = named /\ reported' = reported /\ directory' = directory
      /\ guard' = guard
  BY <1>0, OverFacts DEF GiveUp, relays
<1>2. CopyFacts(a)'
  BY <1>1 DEF CopyFacts, Holding, Guarded, Filling, Written, Reading
<1>3. /\ \A r \in Relays : Unused(r)'
      /\ \A b \in Admins : Alone(b)'
  <2>1. /\ pc'[a] \notin Holding /\ pc'[a] \notin Filling /\ pc'[a] \notin Reading
        /\ pc'[a] \notin Written /\ pc'[a] # "unblocked"
    BY <1>1 DEF Holding, Guarded, Filling, Written, Reading
  <2> QED
    BY <1>1, <2>1, Apart
<1>4. CASE view' = view
  <2>1. Types' /\ Elsewhere(q)
    BY <1>0, <1>1, <1>4 DEF Types, Elsewhere
  <2>2. /\ Stay(q) /\ Clear(q)' /\ Lasting(q)'
        /\ \A f \in Files : Exists(q, f)' <=> Exists(q, f)
    BY <1>0, <1>1, <1>4, <2>1, SyncStays
  <2> QED
    BY <1>0, <1>1, <1>2, <1>3, <2>1, <2>2, CopyStep DEF Stay
<1>5. CASE /\ pc[a] = "created" /\ view[q].db.state = "begun"
           /\ view' = [view EXCEPT ![q].db.state = "torn"]
  <2>1. /\ Exists(q, "db") /\ view[q].db \in Content /\ Exists(q, "blocked") /\ Barred(q)
        /\ pc[a] \in Filling
    BY <1>0, <1>5 DEF CopyFacts, Holding, Guarded, Filling, Types, Cells, Exists
  <2> DEFINE c == [view[q].db EXCEPT !.state = "torn"]
  <2>2. c \in Content /\ view' = [view EXCEPT ![q].db = c]
    BY <1>0, <1>5, <2>1 DEF Content, Types
  <2>3. Put(q, "db", c)
    BY <1>1, <2>2 DEF Put
  <2> HIDE DEF c
  <2>4. /\ view'[q].db = c /\ view'[q].secret = view[q].secret
        /\ Exists(q, "db")' /\ Barred(q)'
        /\ Exists(q, "secret")' <=> Exists(q, "secret")
        /\ Exists(q, "blocked")' <=> Exists(q, "blocked")
        /\ Elsewhere(q) /\ SecretStays(q) /\ BlockerStays(q)
        /\ view' \in [Places -> [Files -> Cells]]
    BY <1>0, <1>1, <2>1, <2>2, <2>3, PutRest
  <2>5. Types'
    BY <1>0, <1>1, <2>4 DEF Types
  <2>6. Clear(q)' /\ Lasting(q)'
    BY <1>0, <1>1, <2>4 DEF Clear, Lasting, Exists
  <2> QED
    BY <1>0, <1>1, <1>2, <1>3, <2>1, <2>4, <2>5, <2>6, CopyStep
<1> QED
  BY <1>1, <1>4, <1>5 DEF GiveUp

-----------------------------------------------------------------------------
(* A crash.                                                                *)

LEMMA TornFacts ==
  ASSUME NEW c \in Content
  PROVE  Torn(c) \in Content /\ Torn(c).of = c.of /\ (c.state = "empty" => Torn(c) = c)
BY DEF Torn, Bare, Content

(* What may remain of a database or a secret: *)
LEMMA RemainsFacts ==
  ASSUME Types, NEW p \in Places, Lasting(p), NEW f \in {"db", "secret"}, NEW c \in Remains(p, f)
  PROVE  /\ c \in Cells
         /\ Exists(p, f) /\ Kept(p, f) => c = view[p][f]
         /\ c # Absent =>
              Exists(p, f) /\ c \in Content /\ c \in {stored[p][f], view[p][f], Torn(view[p][f])}
<1>1. /\ f \in Files /\ view[p][f] \in Cells /\ stored[p][f] \in Cells
      /\ f \in named[p] => Exists(p, f)
  BY DEF Types, Files, Lasting
<1>2. CASE Exists(p, f)
  <2>1. view[p][f] \in Content /\ view[p][f] # Absent
    BY <1>1, <1>2 DEF Exists, Cells
  <2>2. c = Absent \/ c \in {stored[p][f], view[p][f], Torn(view[p][f])}
    BY <2>1 DEF Remains
  <2>3. Torn(view[p][f]) \in Content
    BY <2>1, TornFacts
  <2>4. Kept(p, f) => c = view[p][f]
    BY <2>1 DEF Remains, Kept
  <2> QED
    BY <1>1, <1>2, <2>2, <2>3, <2>4 DEF Cells
<1>3. CASE ~Exists(p, f)
  BY <1>1, <1>3 DEF Remains, Exists, Cells
<1> QED
  BY <1>2, <1>3

(* and of a blocker. *)
LEMMA BlockerRemains ==
  ASSUME Types, NEW p \in Places, NEW c \in Remains(p, "blocked")
  PROVE  c \in Cells /\ (c = Absent => ~Barred(p))
<1>1. view[p].blocked \in Cells /\ stored[p].blocked \in Cells
  BY DEF Types, Files
<1>2. view[p].blocked # Absent => Torn(view[p].blocked) \in Content
  BY <1>1, TornFacts DEF Cells
<1>3. c \in Cells
  BY <1>1, <1>2 DEF Remains, Cells
<1>4. ASSUME Barred(p) PROVE c # Absent
  BY <1>1, <1>2, <1>4, AbsentAssumption DEF Barred, Exists, Remains
<1> QED
  BY <1>3, <1>4

LEMMA LeaveFacts ==
  ASSUME Types, NEW p \in Places, NEW left \in [Files -> Cells], Leave(p, left)
  PROVE  /\ view' \in [Places -> [Files -> Cells]] /\ stored' \in [Places -> [Files -> Cells]]
         /\ named' \in [Places -> SUBSET Files]
         /\ view'[p] = left /\ stored'[p] = left
         /\ \A f \in Files : (Exists(p, f)' <=> left[f] # Absent) /\ (Exists(p, f)' => Kept(p, f)')
         /\ Barred(p)' <=> Exists(p, "blocked")'
         /\ Lasting(p)'
         /\ \A q \in Places : q # p => view'[q] = view[q] /\ stored'[q] = stored[q] /\ named'[q] = named[q]
<1>1. /\ view' \in [Places -> [Files -> Cells]] /\ stored' \in [Places -> [Files -> Cells]]
      /\ named' \in [Places -> SUBSET Files]
      /\ view'[p] = left /\ stored'[p] = left /\ named'[p] = {f \in Files : left[f] # Absent}
      /\ \A q \in Places : q # p => view'[q] = view[q] /\ stored'[q] = stored[q] /\ named'[q] = named[q]
  BY DEF Leave, Types
<1>2. \A f \in Files : (Exists(p, f)' <=> left[f] # Absent) /\ (Exists(p, f)' => Kept(p, f)')
  BY <1>1 DEF Exists, Kept
<1>3. Barred(p)' <=> Exists(p, "blocked")'
  BY <1>1 DEF Barred, Exists, Files
<1>4. Lasting(p)'
  BY <1>1 DEF Lasting, Exists, Files
<1> QED
  BY <1>1, <1>2, <1>3, <1>4

LEMMA KeepFacts ==
  ASSUME IInv, NEW p \in Places, Keep(p)
  PROVE  /\ view' \in [Places -> [Files -> Cells]] /\ stored' \in [Places -> [Files -> Cells]]
         /\ named' \in [Places -> SUBSET Files]
         /\ Elsewhere(p) /\ reported' = reported
         /\ Clear(p)' /\ Lasting(p)' /\ ReportIsDurable(p)'
<1>0. Types /\ Clear(p) /\ Lasting(p) /\ ReportIsDurable(p)
  BY DEF IInv
<1>1. PICK d \in Remains(p, "db"), s \in Remains(p, "secret"), b \in Remains(p, "blocked") :
        Leave(p, [db |-> d, secret |-> s, blocked |-> b])
  BY DEF Keep
<1> DEFINE left == [db |-> d, secret |-> s, blocked |-> b]
<1>2. /\ d \in Cells
      /\ Exists(p, "db") /\ Kept(p, "db") => d = view[p].db
      /\ d # Absent =>
           Exists(p, "db") /\ d \in Content /\ d \in {stored[p].db, view[p].db, Torn(view[p].db)}
  BY <1>0, <1>1, RemainsFacts
<1>3. /\ s \in Cells
      /\ Exists(p, "secret") /\ Kept(p, "secret") => s = view[p].secret
      /\ s # Absent =>
           /\ Exists(p, "secret") /\ s \in Content
           /\ s \in {stored[p].secret, view[p].secret, Torn(view[p].secret)}
  BY <1>0, <1>1, RemainsFacts
<1>4. b \in Cells /\ (b = Absent => ~Barred(p))
  BY <1>0, <1>1, BlockerRemains
<1>5. left \in [Files -> Cells] /\ left.db = d /\ left.secret = s /\ left.blocked = b
  BY <1>2, <1>3, <1>4 DEF Files
<1>6. Leave(p, left)
  BY <1>1
<1> HIDE DEF left
<1>7. /\ view' \in [Places -> [Files -> Cells]] /\ stored' \in [Places -> [Files -> Cells]]
      /\ named' \in [Places -> SUBSET Files]
      /\ view'[p] = left /\ stored'[p] = left
      /\ \A f \in Files : (Exists(p, f)' <=> left[f] # Absent) /\ (Exists(p, f)' => Kept(p, f)')
      /\ Barred(p)' <=> Exists(p, "blocked")'
      /\ Lasting(p)'
      /\ \A q \in Places : q # p => view'[q] = view[q] /\ stored'[q] = stored[q] /\ named'[q] = named[q]
  BY <1>0, <1>5, <1>6, LeaveFacts
<1>8. /\ Exists(p, "db")' <=> d # Absent
      /\ Exists(p, "secret")' <=> s # Absent
      /\ Exists(p, "blocked")' <=> b # Absent
      /\ Exists(p, "db")' => Kept(p, "db")'
      /\ Exists(p, "secret")' => Kept(p, "secret")'
  BY <1>5, <1>7 DEF Files
<1>9. reported' = reported /\ Elsewhere(p)
  BY <1>7 DEF Keep, Elsewhere
<1>10. Clear(p)'
  <2> SUFFICES ASSUME d # Absent, b = Absent
               PROVE  stored'[p].db = view'[p].db /\ (s # Absent => Fits(d, s))
    BY <1>5, <1>7, <1>8 DEF Clear
  <2>1. /\ \/ stored[p].db = view[p].db
           \/ stored[p].db = Absent /\ view[p].db.state = "empty"
        /\ Exists(p, "secret") => Fits(view[p].db, view[p].secret)
    BY <1>0, <1>2, <1>4 DEF Clear
  <2>2. ASSUME s # Absent PROVE Fits(d, s)
    <3>1. Fits(view[p].db, view[p].secret)
      BY <1>3, <2>1, <2>2
    <3>2. s.of = view[p].secret.of
      BY <1>0, <1>3, <2>2, <3>1, TornFacts DEF Fits, Lasting
    <3>3. d = view[p].db \/ d = Torn(view[p].db)
      BY <1>2, <2>1
    <3>4. /\ Torn(view[p].db) \in Content /\ Torn(view[p].db).of = view[p].db.of
          /\ view[p].db.state = "empty" => Torn(view[p].db) = view[p].db
      BY <3>1, TornFacts DEF Fits
    <3>5. d = view[p].db
      BY <1>1, <1>2, <2>1, <3>1, <3>3, <3>4 DEF Remains, Exists
    <3> QED
      BY <1>3, <2>2, <3>1, <3>2, <3>5 DEF Fits
  <2> QED
    BY <1>7, <2>2
<1>11. ReportIsDurable(p)'
  <2> SUFFICES ASSUME reported[p] # Absent PROVE Complete(p, reported[p])'
    BY <1>9 DEF ReportIsDurable
  <2>1. Complete(p, reported[p]) /\ Exists(p, "db") /\ Exists(p, "secret")
    BY <1>0, AbsentAssumption DEF ReportIsDurable, Complete, Fits, Exists
  <2>2. d = view[p].db /\ s = view[p].secret
    BY <1>2, <1>3, <2>1 DEF Complete
  <2> QED
    BY <1>5, <1>7, <1>8, <1>9, <2>1, <2>2 DEF Complete, Exists
<1> QED
  BY <1>7, <1>9, <1>10, <1>11

LEMMA LoseFacts ==
  ASSUME IInv, NEW p \in Places, Lose(p)
  PROVE  /\ view' \in [Places -> [Files -> Cells]] /\ stored' \in [Places -> [Files -> Cells]]
         /\ named' \in [Places -> SUBSET Files]
         /\ Elsewhere(p) /\ reported' \in [Places -> Cells]
         /\ Clear(p)' /\ Lasting(p)' /\ ReportIsDurable(p)'
<1>0. Types
  BY DEF IInv
<1> DEFINE left == [f \in Files |-> Absent]
<1>1. left \in [Files -> Cells] /\ left.db = Absent /\ left.secret = Absent /\ left.blocked = Absent
  BY DEF Files, Cells
<1>2. Leave(p, left)
  BY DEF Lose
<1> HIDE DEF left
<1>3. /\ view' \in [Places -> [Files -> Cells]] /\ stored' \in [Places -> [Files -> Cells]]
      /\ named' \in [Places -> SUBSET Files]
      /\ \A f \in Files : (Exists(p, f)' <=> left[f] # Absent) /\ (Exists(p, f)' => Kept(p, f)')
      /\ Lasting(p)'
      /\ \A q \in Places : q # p => view'[q] = view[q] /\ stored'[q] = stored[q] /\ named'[q] = named[q]
  BY <1>0, <1>1, <1>2, LeaveFacts
<1>4. /\ reported' \in [Places -> Cells] /\ reported'[p] = Absent
      /\ \A q \in Places : q # p => reported'[q] = reported[q]
  BY <1>0 DEF Lose, Types, Cells
<1>5. Clear(p)'
  BY <1>1, <1>3 DEF Clear, Files
<1>6. ReportIsDurable(p)'
  BY <1>4 DEF ReportIsDurable
<1> QED
  BY <1>3, <1>4, <1>5, <1>6 DEF Elsewhere

LEMMA CrashInvariant ==
  ASSUME IInv, NEW q \in Places, Crash(q)
  PROVE  IInv'
<1>0. Types
  BY DEF IInv
<1>1. PICK R \in SUBSET Relays, A \in SUBSET Admins :
        R = {r \in Relays : at[r] = q} /\ A = {a \in Admins : q \in {from[a], to[a]}}
  OBVIOUS
<1>2. /\ view' \in [Places -> [Files -> Cells]] /\ stored' \in [Places -> [Files -> Cells]]
      /\ named' \in [Places -> SUBSET Files] /\ reported' \in [Places -> Cells]
      /\ Elsewhere(q)
      /\ Clear(q)' /\ Lasting(q)' /\ ReportIsDurable(q)'
  BY <1>0, KeepFacts, LoseFacts DEF Crash, Types
<1>3. /\ step' \in [Relays -> Steps] /\ at' \in [Relays -> Places] /\ key' \in [Relays -> Cells]
      /\ \A r \in R : step'[r] = "none"
      /\ \A r \in Relays \ R :
           /\ step'[r] = step[r] /\ at'[r] = at[r] /\ key'[r] = key[r] /\ at[r] # q /\ at[r] \in Places
      /\ overtaken' = overtaken \ R
  BY <1>0, <1>1, GoneFacts DEF Crash, Types
<1>4. /\ pc' \in [Admins -> Phases] /\ secret' \in [Admins -> Cells]
      /\ from' \in [Admins -> Places] /\ to' \in [Admins -> Places]
      /\ \A a \in A : pc'[a] = "none"
      /\ \A b \in Admins \ A :
           /\ pc'[b] = pc[b] /\ secret'[b] = secret[b] /\ from'[b] = from[b] /\ to'[b] = to[b]
           /\ from[b] # q /\ to[b] # q /\ from[b] \in Places /\ to[b] \in Places
  BY <1>0, <1>1, OverFacts DEF Crash, Types
<1>5. Types'
  BY <1>2, <1>3, <1>4 DEF Types
<1>6. ASSUME NEW p \in Places PROVE Clear(p)' /\ Lasting(p)' /\ ReportIsDurable(p)'
  BY <1>2, ElsewhereStays DEF IInv
<1>7. ASSUME NEW r \in Relays PROVE RelayFacts(r)' /\ Unused(r)'
  <2>1. CASE r \in R
    BY <1>3, <2>1 DEF RelayFacts, Unused, Starting, Keyed
  <2>2. CASE r \notin R
    <3>1. RelayFacts(r) /\ Unused(r) /\ Stay(at[r]) /\ \A f \in Files : Exists(at[r], f)' <=> Exists(at[r], f)
      BY <1>2, <1>3, <2>2, ElsewhereStays DEF IInv
    <3>2. RelayFacts(r)'
      BY <1>3, <2>2, <3>1, RelayFactsKept DEF Stay, BlockerStays, Files
    <3>3. Unused(r)'
      <4> SUFFICES ASSUME step[r] = "keying"
                   PROVE  /\ reported'[at[r]] = Absent
                          /\ \A x \in Relays : step'[x] \in {"keying"} \cup Keyed /\ at'[x] = at[r] => x = r
                          /\ \A a \in Admins :
                               /\ pc'[a] \in Reading => from'[a] # at[r]
                               /\ pc'[a] \in Written \cup {"unblocked"} => to'[a] # at[r]
        BY <1>3, <2>2 DEF Unused
      <4>1. reported'[at[r]] = Absent
        BY <1>2, <1>3, <2>2, <3>1 DEF Unused, Elsewhere
      <4>2. /\ "none" \notin {"keying"} \cup Keyed /\ "none" \notin Reading
            /\ "none" \notin Written \cup {"unblocked"}
        BY DEF Keyed, Reading, Written
      <4> QED
        BY <1>3, <1>4, <3>1, <4>1, <4>2 DEF Unused
    <3> QED
      BY <3>2, <3>3
  <2> QED
    BY <2>1, <2>2
<1>8. ASSUME NEW a \in Admins PROVE CopyFacts(a)' /\ Alone(a)'
  <2>0. /\ "none" \notin Holding /\ "none" \notin Filling /\ "none" \notin Reading
        /\ "none" \notin Written /\ "none" \notin Guarded
    BY DEF Holding, Guarded, Filling, Written, Reading
  <2>1. CASE a \in A
    BY <1>4, <2>0, <2>1 DEF CopyFacts, Alone, Filling
  <2>2. CASE a \notin A
    <3>1. /\ CopyFacts(a) /\ Alone(a) /\ Stay(from[a]) /\ Stay(to[a])
          /\ \A f \in Files : Exists(to[a], f)' <=> Exists(to[a], f)
          /\ reported'[to[a]] = reported[to[a]]
      BY <1>2, <1>4, <2>2, ElsewhereStays DEF IInv, Elsewhere
    <3>2. CopyFacts(a)'
      <4>1. /\ BlockerStays(to[a]) /\ SecretStays(to[a]) /\ DatabaseStays(to[a])
            /\ SecretStays(from[a]) /\ DatabaseStays(from[a])
            /\ Exists(to[a], "secret") => Exists(to[a], "secret")'
        BY <3>1 DEF Stay, Files
      <4>2. pc'[a] = pc[a] /\ secret'[a] = secret[a] /\ from'[a] = from[a] /\ to'[a] = to[a]
        BY <1>4, <2>2
      <4> QED
        BY <1>0, <3>1, <4>1, <4>2, CopyFactsKept
    <3>3. Alone(a)'
      <4>1. pc'[a] = pc[a] /\ to'[a] = to[a]
        BY <1>4, <2>2
      <4>2. ASSUME pc[a] \in Holding, NEW b \in Admins, pc'[b] \in Holding, to'[b] = to[a] PROVE b = a
        BY <1>4, <2>0, <3>1, <4>2 DEF Alone
      <4>3. ASSUME pc[a] \in Filling, NEW b \in Admins
            PROVE  (pc'[b] \in Reading => from'[b] # to[a]) /\ (pc'[b] = "unblocked" => to'[b] # to[a])
        BY <1>4, <2>0, <3>1, <4>3 DEF Alone
      <4>4. pc[a] \in Filling => reported'[to[a]] = Absent
        BY <3>1 DEF Alone
      <4> QED
        BY <4>1, <4>2, <4>3, <4>4 DEF Alone
    <3> QED
      BY <3>2, <3>3
  <2> QED
    BY <2>1, <2>2
<1> QED
  BY <1>5, <1>6, <1>7, <1>8 DEF IInv

-----------------------------------------------------------------------------

LEMMA Unchanged == ASSUME IInv, UNCHANGED vars PROVE IInv'
<1>1. /\ UNCHANGED <<view, stored, named, step, at, key, overtaken>>
      /\ UNCHANGED <<pc, from, to, secret, reported>>
  BY DEF vars, files, relays, copies
<1>2. Types'
  BY <1>1 DEF IInv, Types
<1>3. \A p \in Places : Clear(p)' /\ Lasting(p)' /\ ReportIsDurable(p)'
  BY <1>1 DEF IInv, Clear, Lasting, ReportIsDurable, Complete, Kept, Exists, Barred
<1>4. \A r \in Relays : RelayFacts(r)' /\ Unused(r)'
  BY <1>1 DEF IInv, RelayFacts, Unused, Exists, Barred
<1>5. \A a \in Admins : CopyFacts(a)' /\ Alone(a)'
  BY <1>1 DEF IInv, CopyFacts, Alone, Complete, Kept, Exists, Barred
<1> QED
  BY <1>2, <1>3, <1>4, <1>5 DEF IInv

LEMMA InitInvariant == Init => IInv
<1> SUFFICES ASSUME Init PROVE IInv
  OBVIOUS
<1>1. PICK d \in {"ledger", "gapped"} :
        view = [p \in Places |-> [f \in Files |->
                  IF p # Original \/ f = "blocked" THEN Absent
                  ELSE [state |-> IF f = "db" THEN d ELSE "whole", of |-> First]]]
  BY DEF Init
<1>2. /\ view \in [Places -> [Files -> Cells]]
      /\ \A p \in Places : p # Original => \A f \in Files : view[p][f] = Absent
      /\ view[Original].db = [state |-> d, of |-> First]
      /\ view[Original].secret = [state |-> "whole", of |-> First]
      /\ \A p \in Places : view[p].blocked = Absent
  BY <1>1, SnapshotAssumption DEF Cells, Content, Files
<1>3. /\ stored = view /\ named = [p \in Places |-> {f \in Files : Exists(p, f)}]
      /\ step = [r \in Relays |-> "none"] /\ at = [r \in Relays |-> Original]
      /\ key = [r \in Relays |-> Absent] /\ pc = [a \in Admins |-> "none"]
      /\ from = [a \in Admins |-> Original] /\ to = [a \in Admins |-> Original]
      /\ secret = [a \in Admins |-> Absent] /\ reported = [p \in Places |-> Absent]
  BY DEF Init
<1>4. Types
  BY <1>2, <1>3, SnapshotAssumption DEF Types, Steps, Phases, Cells
<1>5. ASSUME NEW p \in Places PROVE Clear(p) /\ Lasting(p) /\ ReportIsDurable(p)
  <2>1. Fits(view[Original].db, view[Original].secret)
    BY <1>2, SnapshotAssumption DEF Fits, Content
  <2>2. Exists(p, "db") => p = Original
    BY <1>2 DEF Exists, Files
  <2>3. Clear(p)
    BY <1>3, <2>1, <2>2 DEF Clear
  <2>4. Lasting(p)
    BY <1>3 DEF Lasting, Exists
  <2>5. ReportIsDurable(p)
    BY <1>3 DEF ReportIsDurable
  <2> QED
    BY <2>3, <2>4, <2>5
<1>6. \A r \in Relays : RelayFacts(r) /\ Unused(r)
  BY <1>3 DEF RelayFacts, Unused, Starting, Keyed
<1>7. \A a \in Admins : CopyFacts(a) /\ Alone(a)
  BY <1>3 DEF CopyFacts, Alone, Holding, Guarded, Filling, Written, Reading
<1> QED
  BY <1>4, <1>5, <1>6, <1>7 DEF IInv

(* Every step keeps the invariant. *)
LEMMA NextInvariant == IInv /\ [Next]_vars => IInv'
<1> SUFFICES ASSUME IInv, [Next]_vars PROVE IInv'
  OBVIOUS
<1>1. ASSUME NEW p \in Places, Crash(p) PROVE IInv'
  BY <1>1, CrashInvariant
<1>2. ASSUME NEW r \in Relays, NEW p \in Places, Look(r, p) PROVE IInv'
  BY <1>2, LookInvariant
<1>3. ASSUME NEW r \in Relays,
             \/ Search(r) \/ NewSecret(r) \/ FillSecret(r) \/ KeepSecret(r) \/ ReadSecret(r)
             \/ FindDatabase(r) \/ Open(r) \/ Refuse(r) \/ Stop(r)
      PROVE  IInv'
  <2>1. PICK q \in Places : q = at[r]
    BY DEF IInv, Types
  <2> QED
    BY <1>3, <2>1, LookInvariant, NewSecretInvariant, FillSecretInvariant, KeepSecretInvariant,
       FindDatabaseInvariant, OpenInvariant, GoneInvariant
<1>4. ASSUME NEW a \in Admins, NEW p \in Places, NEW q \in Places, Check(a, p, q) PROVE IInv'
  BY <1>4, CheckInvariant
<1>5. ASSUME NEW a \in Admins,
             \/ Lock(a) \/ Block(a) \/ SyncBlocker(a) \/ Create(a) \/ Vacuum(a) \/ WriteSecret(a)
             \/ MarkGap(a) \/ SyncDatabase(a) \/ SyncSecret(a) \/ SyncNames(a)
             \/ Unblock(a) \/ SyncUnblocked(a) \/ GiveUp(a)
      PROVE  IInv'
  <2>1. PICK q \in Places : q = to[a]
    BY DEF IInv, Types
  <2> QED
    BY <1>5, <2>1, SyncInvariant, BlockInvariant, CreateInvariant, VacuumInvariant, WriteInvariant,
       MarkGapInvariant, UnblockInvariant, SyncUnblockedInvariant, GiveUpInvariant
<1>6. CASE UNCHANGED vars
  BY <1>6, Unchanged
<1> QED
  BY <1>1, <1>2, <1>3, <1>4, <1>5, <1>6 DEF Next

(* Where a blocker is missing or may get lost nothing is that must not be  *)
(* opened, and what relays and copies know of the files is so.             *)
THEOREM Inductive == Spec => []IInv
  BY InitInvariant, NextInvariant, PTL DEF Spec

(* A relay that no copy has overtaken never starts on half a copy, on an   *)
(* unmarked copy or with a secret that is not the ledger's.                *)
THEOREM StartsSafely == Spec => StartsAreSafe
<1>1. ASSUME IInv, NEW r \in Relays \ overtaken, step[r] = "found"
      PROVE  /\ view[at[r]].db.state \in {"empty", "ledger", "gapped"}
             /\ view[at[r]].db.of = key[r].of
  <2>1. /\ Exists(at[r], "db") /\ ~Barred(at[r])
        /\ Exists(at[r], "secret") /\ view[at[r]].secret = key[r]
    BY <1>1 DEF IInv, RelayFacts, Barred, Starting, Keyed
  <2>2. at[r] \in Places
    BY <1>1 DEF IInv, Types
  <2>3. Fits(view[at[r]].db, view[at[r]].secret)
    BY <1>1, <2>1, <2>2 DEF Clear, IInv
  <2> QED
    BY <2>1, <2>3 DEF Fits
<1>2. IInv /\ [Next]_vars =>
        [\A r \in Relays \ overtaken :
           step[r] = "found" /\ step'[r] = "open" =>
             /\ view[at[r]].db.state \in {"empty", "ledger", "gapped"}
             /\ view[at[r]].db.of = key[r].of]_vars
  BY <1>1
<1> QED
  BY <1>2, Inductive, PTL DEF Spec, StartsAreSafe

(* A reported copy survives every crash that its directory survives.       *)
THEOREM CopiesEndure == Spec => []FinishedIsDurable
<1>1. IInv => FinishedIsDurable
  <2> SUFFICES ASSUME IInv, NEW p \in Places, reported[p] # Absent
               PROVE  /\ view[p].db # Absent /\ view[p].secret = reported[p]
                      /\ view[p].db.state \in {"gapped", "ledger"}
                      /\ view[p].db.of = reported[p].of
    BY DEF FinishedIsDurable
  <2>1. Complete(p, reported[p])
    BY DEF IInv, ReportIsDurable
  <2> QED
    BY <2>1, AbsentAssumption DEF Complete, Fits
<1> QED
  BY <1>1, Inductive, PTL

=============================================================================
