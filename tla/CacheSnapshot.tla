----------------------------- MODULE CacheSnapshot -----------------------------
(***************************************************************************)
(* Offline backup and restore: copyCacheSnapshot makes a new ledger out of *)
(* another, a file operation at a time, and may fail or lose its machine   *)
(* after each of them.  A blocker next to the copy, made durable before    *)
(* anything else and removed after everything else is durable, tells an    *)
(* incomplete copy from a complete one.  Relays start anywhere meanwhile,  *)
(* a file operation at a time, and look for the blocker only once.         *)
(*                                                                         *)
(* A crash keeps what was synced: the content of a file and its name in    *)
(* the directory separately.  All else may be kept, lost or torn.  Nobody  *)
(* syncs the parent of a directory that was made, so a crash may take the  *)
(* directory with all that is in it.                                       *)
(***************************************************************************)
EXTENDS Naturals

CONSTANTS
  Places,   \* database paths, each in a directory of its own
  Original, \* where the ledger is at first
  Settled,  \* directories that were made long ago
  Secrets,  \* keys of digests; a new one may be any, more often than chance has it
  First,    \* the key of the first ledger
  Relays,   \* processes that open a ledger
  Admins,   \* processes that copy
  Absent

ASSUME SnapshotAssumption ==
  Original \in Places /\ Settled \subseteq Places /\ First \in Secrets

(* .guard and .reserve are not copied; .guard is the variable guard. *)
Files == {"db", "secret", "blocked"}

(* of: the key itself, or the one the digests were made with.  A database  *)
(* is an empty file of a relay or of a copy ("begun"), a ledger in use, a  *)
(* copy, or a copy with coverage-gap=1.                                    *)
Content ==
  [state : {"empty", "begun", "torn", "whole", "ledger", "copied", "gapped"}, of : Secrets]

ASSUME AbsentAssumption == Absent \notin Content

VARIABLES
  view,      \* the files as processes see them
  stored,    \* the content of each file that is durable
  named,     \* the names of each directory that are durable
  directory, \* whether each directory is there, and its name durable
  guard,     \* the byte in .guard: a safety write failed
  step,      \* what each relay has done last; or it does not run
  at,        \* its place
  key,       \* the secret it has read
  overtaken, \* history: a copy began at its place after it had looked
  pc,        \* what each copy has done last; or no copy is under way
  from, to,
  secret,    \* the secret a copy has read
  reported   \* history: the secret of the last copy reported as complete,
             \* as long as the directory has not vanished

files == <<view, stored, named>>

relays == <<step, at, key, overtaken>>

copies == <<pc, from, to, secret, reported>>

vars == <<files, directory, guard, relays, copies>>

-----------------------------------------------------------------------------
(* The file system.                                                        *)

Exists(p, f) == view[p][f] # Absent

Put(p, f, content) ==
  /\ view' = [view EXCEPT ![p][f] = content]
  /\ UNCHANGED <<stored, named>>

SyncFile(p, f) ==
  /\ stored' = [stored EXCEPT ![p][f] = view[p][f]]
  /\ UNCHANGED <<view, named>>

SyncDirectory(p) ==
  /\ named' = [named EXCEPT ![p] = {f \in Files : Exists(p, f)}]
  /\ UNCHANGED <<view, stored>>

SyncBoth(p, f) ==
  /\ stored' = [stored EXCEPT ![p][f] = view[p][f]]
  /\ named' = [named EXCEPT ![p] = {g \in Files : Exists(p, g)}]
  /\ UNCHANGED view

MakeDirectory(p) ==
  directory' = [directory EXCEPT ![p] = IF @ = "missing" THEN "made" ELSE @]

Bare(content) == content.state \in {"empty", "begun"}

Torn(content) == IF Bare(content) THEN content ELSE [content EXCEPT !.state = "torn"]

(* What a crash may leave of a file. *)
Remains(p, f) ==
  LET old == stored[p][f]
      new == view[p][f]
  IN (IF f \in named[p] /\ new # Absent THEN {} ELSE {Absent})
     \cup (IF new = Absent THEN (IF f \in named[p] THEN {old} ELSE {})
           ELSE IF new = old THEN {new}
           ELSE {old, new, Torn(new)} \ {Absent})

Leave(p, left) ==
  /\ view' = [view EXCEPT ![p] = left]
  /\ stored' = [stored EXCEPT ![p] = left]
  /\ named' = [named EXCEPT ![p] = {f \in Files : left[f] # Absent}]

(* Copies end, and forget what they knew. *)
Over(A) ==
  /\ pc' = [a \in Admins |-> IF a \in A THEN "none" ELSE pc[a]]
  /\ from' = [a \in Admins |-> IF a \in A THEN Original ELSE from[a]]
  /\ to' = [a \in Admins |-> IF a \in A THEN Original ELSE to[a]]
  /\ secret' = [a \in Admins |-> IF a \in A THEN Absent ELSE secret[a]]

(* Relays end. *)
Gone(R) ==
  /\ step' = [r \in Relays |-> IF r \in R THEN "none" ELSE step[r]]
  /\ at' = [r \in Relays |-> IF r \in R THEN Original ELSE at[r]]
  /\ key' = [r \in Relays |-> IF r \in R THEN Absent ELSE key[r]]
  /\ overtaken' = overtaken \ R

(* A directory that was made outlasts a crash, or all in it is gone. *)
Keep(p) ==
  /\ \E d \in Remains(p, "db"), s \in Remains(p, "secret"), b \in Remains(p, "blocked") :
       Leave(p, [db |-> d, secret |-> s, blocked |-> b])
  /\ directory' = [directory EXCEPT ![p] = IF @ = "made" THEN "durable" ELSE @]
  /\ UNCHANGED <<guard, reported>>

Lose(p) ==
  /\ directory[p] = "made"
  /\ Leave(p, [f \in Files |-> Absent])
  /\ directory' = [directory EXCEPT ![p] = "missing"]
  /\ guard' = [guard EXCEPT ![p] = 0]
  /\ reported' = [reported EXCEPT ![p] = Absent]

(* The machine that holds p stops, with every process that works there. *)
Crash(p) ==
  /\ Keep(p) \/ Lose(p)
  /\ Gone({r \in Relays : at[r] = p})
  /\ Over({a \in Admins : p \in {from[a], to[a]}})

-----------------------------------------------------------------------------
(* Relays: the constructor of ReplayStore, and its end.  What a step does  *)
(* not find as it needs it ends the relay, see Refuse.  Nothing is copied  *)
(* from a ledger that one has locked.                                      *)

Running(p) == \E r \in Relays : step[r] = "open" /\ at[r] = p

(* A copy holds the exclusive lock of its source until it wrote the secret. *)
Copying(a) == pc[a] \in {"locked", "blocking", "blocked", "created", "vacuumed"}

Locked(p) == Running(p) \/ \E a \in Admins : Copying(a) /\ from[a] = p

Goes(r, before, after) ==
  /\ step[r] = before
  /\ step' = [step EXCEPT ![r] = after]
  /\ UNCHANGED <<guard, copies>>

(* The one look for a blocker. *)
Look(r, p) ==
  /\ Goes(r, "none", "looked")
  /\ ~Exists(p, "blocked")
  /\ at' = [at EXCEPT ![r] = p]
  /\ UNCHANGED <<files, directory, key, overtaken>>

Search(r) ==
  /\ Goes(r, "looked", "searched")
  /\ Exists(at[r], "db") => Exists(at[r], "secret")
  /\ MakeDirectory(at[r])
  /\ UNCHANGED <<files, at, key, overtaken>>

(* A ledger without a secret gets one. *)
NewSecret(r) ==
  /\ Goes(r, "searched", "keying")
  /\ ~Exists(at[r], "secret")
  /\ \E k \in Secrets : Put(at[r], "secret", [state |-> "torn", of |-> k])
  /\ UNCHANGED <<directory, at, key, overtaken>>

FillSecret(r) ==
  /\ Goes(r, "keying", "filled")
  /\ Put(at[r], "secret", [view[at[r]].secret EXCEPT !.state = "whole"])
  /\ UNCHANGED <<directory, at, key, overtaken>>

KeepSecret(r) ==
  /\ Goes(r, "filled", "searched")
  /\ SyncBoth(at[r], "secret")
  /\ UNCHANGED <<directory, at, key, overtaken>>

ReadSecret(r) ==
  /\ Goes(r, "searched", "keyed")
  /\ Exists(at[r], "secret") /\ view[at[r]].secret.state = "whole"
  /\ key' = [key EXCEPT ![r] = view[at[r]].secret]
  /\ UNCHANGED <<files, directory, at, overtaken>>

FindDatabase(r) ==
  /\ Goes(r, "keyed", "found")
  /\ \/ Exists(at[r], "db") /\ UNCHANGED files
     \/ ~Exists(at[r], "db") /\ Put(at[r], "db", [state |-> "empty", of |-> key[r].of])
  /\ UNCHANGED <<directory, at, key, overtaken>>

(* It locks the database, and commits to it.  What others wrote to the     *)
(* file and did not sync is not durable for that.                          *)
Open(r) ==
  LET p == at[r]
      was == view[p].db
      now == IF was.state = "torn" THEN was
             ELSE [state |-> "ledger", of |-> IF Bare(was) THEN key[r].of ELSE was.of]
  IN /\ Goes(r, "found", "open")
     /\ ~Locked(p) /\ guard[p] = 0
     /\ view' = [view EXCEPT ![p].db = now]
     /\ stored' = [stored EXCEPT ![p].db = IF @ = was \/ Bare(was) THEN now ELSE @]
     /\ named' = [named EXCEPT ![p] = {f \in Files : Exists(p, f)}]
     /\ overtaken' = overtaken \ {r}
     /\ UNCHANGED <<directory, at, key>>

Refuse(r) ==
  /\ step[r] \notin {"none", "open"}
  /\ Gone({r})
  /\ UNCHANGED <<files, directory, guard, copies>>

(* It ends, or fails and bars the path. *)
Stop(r) ==
  /\ step[r] = "open"
  /\ Gone({r})
  /\ \E b \in {0, 1} : guard' = [guard EXCEPT ![at[r]] = b]
  /\ UNCHANGED <<files, directory, copies>>

-----------------------------------------------------------------------------
(* copyCacheSnapshot.  What a step does not find as it needs it, and every *)
(* other error, ends the copy, see GiveUp.                                 *)

Does(a, before, after) ==
  /\ pc[a] = before
  /\ pc' = [pc EXCEPT ![a] = after]
  /\ UNCHANGED <<guard, step, at, key, from, to, reported>>

Unmoved == UNCHANGED <<secret, directory, overtaken>>

Check(a, p, q) ==
  /\ pc[a] = "none"
  /\ p # q /\ \A f \in Files : ~Exists(q, f)
  /\ Exists(p, "db") /\ Exists(p, "secret") /\ ~Exists(p, "blocked") /\ guard[p] = 0
  /\ pc' = [pc EXCEPT ![a] = "checked"]
  /\ from' = [from EXCEPT ![a] = p] /\ to' = [to EXCEPT ![a] = q]
  /\ UNCHANGED <<files, directory, guard, relays, secret, reported>>

Lock(a) ==
  /\ Does(a, "checked", "locked")
  /\ ~Locked(from[a]) /\ view[from[a]].db.state # "torn"
  /\ secret' = [secret EXCEPT ![a] = view[from[a]].secret]
  /\ UNCHANGED <<files, directory, overtaken>>

(* Relays that looked at the destination before do not see the blocker. *)
Block(a) ==
  /\ Does(a, "locked", "blocking")
  /\ ~Exists(to[a], "blocked")
  /\ MakeDirectory(to[a])
  /\ Put(to[a], "blocked", [state |-> "whole", of |-> First])
  /\ overtaken' = overtaken \cup
       {r \in Relays : at[r] = to[a] /\ step[r] \notin {"none", "open"}}
  /\ UNCHANGED secret

TrustBlocker(a) ==
  /\ Does(a, "blocking", "blocked")
  /\ UNCHANGED files
  /\ Unmoved

SyncBlocker(a) ==
  /\ Does(a, "blocking", "blocked")
  /\ SyncBoth(to[a], "blocked")
  /\ Unmoved

Create(a) ==
  /\ Does(a, "blocked", "created")
  /\ ~Exists(to[a], "db")
  /\ Put(to[a], "db", [state |-> "begun", of |-> secret[a].of])
  /\ Unmoved

(* External: VACUUM INTO takes an empty file.  A gap is copied, too; of an *)
(* empty database nothing is.                                              *)
Vacuum(a) ==
  /\ Does(a, "created", "vacuumed")
  /\ view[to[a]].db.state = "begun"
  /\ LET source == view[from[a]].db
     IN \/ source.state = "gapped" /\ Put(to[a], "db", source)
        \/ source.state = "ledger" /\ Put(to[a], "db", [source EXCEPT !.state = "copied"])
        \/ source.state = "empty" /\ UNCHANGED files
  /\ Unmoved

WriteSecret(a) ==
  /\ Does(a, "vacuumed", "copied")
  /\ ~Exists(to[a], "secret")
  /\ Put(to[a], "secret", secret[a])
  /\ Unmoved

(* It needs the lock, and a database that has tables. *)
MarkGap(a) ==
  /\ Does(a, "copied", "gapped")
  /\ ~Running(to[a]) /\ view[to[a]].db.state \in {"copied", "gapped", "ledger"}
  /\ Put(to[a], "db", [view[to[a]].db EXCEPT !.state = "gapped"])
  /\ Unmoved

SyncDatabase(a) ==
  /\ Does(a, "gapped", "syncing")
  /\ SyncFile(to[a], "db")
  /\ Unmoved

TrustSecret(a) ==
  /\ Does(a, "syncing", "synced")
  /\ UNCHANGED files
  /\ Unmoved

SyncSecret(a) ==
  /\ Does(a, "syncing", "synced")
  /\ SyncFile(to[a], "secret")
  /\ Unmoved

SyncNames(a) ==
  /\ Does(a, "synced", "named")
  /\ SyncDirectory(to[a])
  /\ Unmoved

Unblock(a) ==
  /\ Does(a, "named", "unblocked")
  /\ Put(to[a], "blocked", Absent)
  /\ Unmoved

SyncUnblocked(a) ==
  /\ pc[a] = "unblocked"
  /\ SyncDirectory(to[a])
  /\ reported' = [reported EXCEPT ![to[a]] = secret[a]]
  /\ Over({a})
  /\ UNCHANGED <<directory, guard, relays>>

(* An error, or the end of the process, which may come amid the copy of    *)
(* the database.                                                           *)
GiveUp(a) ==
  /\ pc[a] # "none"
  /\ Over({a})
  /\ \/ UNCHANGED view
     \/ /\ pc[a] = "created" /\ view[to[a]].db.state = "begun"
        /\ view' = [view EXCEPT ![to[a]].db.state = "torn"]
  /\ UNCHANGED <<stored, named, directory, guard, relays, reported>>

-----------------------------------------------------------------------------

Init ==
  /\ \E d \in {"ledger", "gapped"} :
       view = [p \in Places |-> [f \in Files |->
                 IF p # Original \/ f = "blocked" THEN Absent
                 ELSE [state |-> IF f = "db" THEN d ELSE "whole", of |-> First]]]
  /\ stored = view
  /\ named = [p \in Places |-> {f \in Files : Exists(p, f)}]
  /\ directory \in [Places -> {"missing", "made", "durable"}]
  /\ directory[Original] # "missing"
  /\ \A p \in Settled : directory[p] = "durable"
  /\ guard = [p \in Places |-> 0]
  /\ step = [r \in Relays |-> "none"]
  /\ at = [r \in Relays |-> Original]
  /\ key = [r \in Relays |-> Absent]
  /\ overtaken = {}
  /\ pc = [a \in Admins |-> "none"]
  /\ from = [a \in Admins |-> Original] /\ to = [a \in Admins |-> Original]
  /\ secret = [a \in Admins |-> Absent]
  /\ reported = [p \in Places |-> Absent]

Next ==
  \/ \E p \in Places : Crash(p)
  \/ \E r \in Relays :
       \/ \E p \in Places : Look(r, p)
       \/ Search(r) \/ NewSecret(r) \/ FillSecret(r) \/ KeepSecret(r) \/ ReadSecret(r)
       \/ FindDatabase(r) \/ Open(r) \/ Refuse(r) \/ Stop(r)
  \/ \E a \in Admins :
       \/ \E p, q \in Places : Check(a, p, q)
       \/ Lock(a) \/ Block(a) \/ SyncBlocker(a) \/ Create(a) \/ Vacuum(a) \/ WriteSecret(a)
       \/ MarkGap(a) \/ SyncDatabase(a) \/ SyncSecret(a) \/ SyncNames(a)
       \/ Unblock(a) \/ SyncUnblocked(a) \/ GiveUp(a)

Spec == Init /\ [][Next]_vars

-----------------------------------------------------------------------------

(* No relay starts on half a copy, on a copy that has not recorded the gap *)
(* between it and what came after it, or on a ledger keyed by another      *)
(* secret: not after a failure of the copy, not after a crash that lost or *)
(* tore whatever was not synced.  The code does not promise it to a relay  *)
(* that looked for the blocker before the copy wrote it and opens the      *)
(* database after that; of such a relay nothing is said.                   *)
StartsAreSafe ==
  [][\A r \in Relays \ overtaken :
       step[r] = "found" /\ step'[r] = "open" =>
         /\ view[at[r]].db.state \in {"empty", "ledger", "gapped"}
         /\ view[at[r]].db.of = key[r].of]_vars

(* A copy reported as complete survives every crash that its directory     *)
(* survives: its database stays, with the gap recorded or acted upon, and  *)
(* with it the secret that was read of the source and belongs to it.  What *)
(* may vanish is a directory that a copy or a relay had to make, before    *)
(* the system wrote its name by itself: its parent is never synced.        *)
FinishedIsDurable ==
  \A p \in Places :
    reported[p] # Absent =>
      /\ view[p].db # Absent /\ view[p].secret = reported[p]
      /\ view[p].db.state \in {"gapped", "ledger"}
      /\ view[p].db.of = reported[p].of

(* The phases of a relay: it starts; it has read the secret; it knows that *)
(* there is a database.                                                    *)
Keyed == {"keyed", "found", "open"}

Starting == {"looked", "searched", "keying", "filled", "keyed", "found"}

Steps == {"none", "open"} \cup Starting

(* The phases of a copy: it wrote its blocker, which is durable from       *)
(* "blocked" on; it writes the database and the secret; it has written     *)
(* both; it still needs its source.                                        *)
Written == {"copied", "gapped", "syncing", "synced", "named"}

Filling == {"created", "vacuumed"} \cup Written

Guarded == {"blocked"} \cup Filling

Holding == {"blocking"} \cup Guarded

Reading == {"checked", "locked", "blocking", "blocked", "created"}

Phases == {"none", "checked", "locked", "unblocked"} \cup Holding

Cells == Content \cup {Absent}

Types ==
  /\ view \in [Places -> [Files -> Cells]] /\ stored \in [Places -> [Files -> Cells]]
  /\ named \in [Places -> SUBSET Files]
  /\ step \in [Relays -> Steps] /\ at \in [Relays -> Places]
  /\ key \in [Relays -> Cells]
  /\ pc \in [Admins -> Phases]
  /\ from \in [Admins -> Places] /\ to \in [Admins -> Places]
  /\ secret \in [Admins -> Cells]
  /\ reported \in [Places -> Cells]

(* A database that may be opened with this secret, once it is whole. *)
Fits(d, s) ==
  /\ d \in Content /\ s \in Content
  /\ d.state \in {"empty", "ledger", "gapped"} /\ d.of = s.of

(* There is a blocker, and no crash takes it. *)
Barred(p) == Exists(p, "blocked") /\ "blocked" \in named[p]

(* Where the blocker is missing, or may be after a crash, nothing is that  *)
(* must not be opened.                                                     *)
Clear(p) ==
  Exists(p, "db") /\ ~Barred(p) =>
    /\ \/ stored[p].db = view[p].db
       \/ stored[p].db = Absent /\ view[p].db.state = "empty"
    /\ Exists(p, "secret") => Fits(view[p].db, view[p].secret)

(* Nothing but blockers is ever removed, and a place has one secret. *)
Lasting(p) ==
  /\ \A f \in {"db", "secret"} : f \in named[p] \/ stored[p][f] # Absent => Exists(p, f)
  /\ stored[p].secret # Absent => stored[p].secret.of = view[p].secret.of

Kept(p, f) == f \in named[p] /\ stored[p][f] = view[p][f]

(* A copy with this secret, that no crash takes. *)
Complete(p, s) ==
  /\ Fits(view[p].db, s) /\ view[p].db.state # "empty" /\ view[p].secret = s
  /\ Kept(p, "db") /\ Kept(p, "secret")

RelayFacts(r) ==
  LET p == at[r]
  IN /\ step[r] \in Starting /\ r \notin overtaken => ~Exists(p, "blocked")
     /\ step[r] = "searched" /\ ~Exists(p, "secret") => ~Exists(p, "db") \/ Barred(p)
     /\ step[r] \in {"keying", "filled"} => Exists(p, "secret")
     /\ step[r] = "keying" =>
          view[p].secret.state = "torn" /\ (~Exists(p, "db") \/ Barred(p))
     /\ step[r] \in Keyed => Exists(p, "secret") /\ view[p].secret = key[r]
     /\ step[r] \in Keyed \ {"keyed"} => Exists(p, "db")

(* A secret that is being written is not used yet. *)
Unused(r) ==
  step[r] = "keying" =>
    /\ reported[at[r]] = Absent
    /\ \A q \in Relays : step[q] \in {"keying"} \cup Keyed /\ at[q] = at[r] => q = r
    /\ \A a \in Admins :
         /\ pc[a] \in Reading => from[a] # at[r]
         /\ pc[a] \in Written \cup {"unblocked"} => to[a] # at[r]

CopyFacts(a) ==
  LET p == to[a]
      d == view[p].db
  IN /\ pc[a] \in Holding => Exists(p, "blocked")
     /\ pc[a] \in Guarded => Barred(p)
     /\ pc[a] \in Filling => Exists(p, "db") /\ secret[a] \in Content
     /\ pc[a] = "vacuumed" /\ ~Exists(p, "secret") => d.state = "begun" \/ d.of = secret[a].of
     /\ pc[a] \in Written =>
          view[p].secret = secret[a] /\ (d.state = "begun" \/ d.of = secret[a].of)
     /\ pc[a] \in Written \ {"copied"} => d.state \in {"gapped", "ledger"}
     /\ pc[a] \in {"syncing", "synced", "named"} => stored[p].db = d
     /\ pc[a] \in {"synced", "named"} => stored[p].secret = secret[a]
     /\ pc[a] = "named" => {"db", "secret"} \subseteq named[p]
     /\ pc[a] = "unblocked" => Complete(p, secret[a])
     /\ pc[a] \in Reading => Fits(view[from[a]].db, view[from[a]].secret)
     /\ pc[a] \in Reading \ {"checked"} => secret[a] = view[from[a]].secret

(* A place is filled by one copy, which is nobody's source and not         *)
(* reported.                                                               *)
Alone(a) ==
  /\ pc[a] \in Holding => \A b \in Admins : pc[b] \in Holding /\ to[b] = to[a] => b = a
  /\ pc[a] \in Filling =>
       /\ reported[to[a]] = Absent
       /\ \A b \in Admins :
            /\ pc[b] \in Reading => from[b] # to[a]
            /\ pc[b] = "unblocked" => to[b] # to[a]

ReportIsDurable(p) == reported[p] # Absent => Complete(p, reported[p])

(* Inductive. *)
IInv ==
  /\ Types
  /\ \A p \in Places : Clear(p) /\ Lasting(p) /\ ReportIsDurable(p)
  /\ \A r \in Relays : RelayFacts(r) /\ Unused(r)
  /\ \A a \in Admins : CopyFacts(a) /\ Alone(a)

=============================================================================
