# A TLA+ verification of the relay and its reasoning cache

The program is a relay between a chat client and a Responses API.  Its own core
is the *reasoning cache*: the API answers with encrypted reasoning that the
client never sees and therefore cannot send back; the relay keeps it, and when
the client comes back with a history that contains the visible answer it puts
the original output items in its place (a *replay*).  The client names nothing:
a turn is recognised by the digest of its visible history.  If the same visible
history was ever answered in two ways, a replay would be a guess.  So everything
in the cache is about one question: *can something else have been produced
behind this message?*

Paths below are relative to the directory that holds `src/`.

## 1. The system

| component | state | operations | module |
| --- | --- | --- | --- |
| ledger (`store.ts`, `store-records.ts`, `store-observe.ts`, `store-schema.ts`, `planner.ts`) | tables of scopes, markers, intents, observations, payloads, dependencies; flags | `ensureScope` `withPlanning` `begin` `bypass` `observe` `resolve` `poison` `expire` `rejectReplay` `fence` `markCoverageGap` `cleanup` `close`, constructor | `ReplayStore`, `ReplayContract` |
| hot cache of records (`store-records.ts`, `resources.ts`) | entries, their order and account; versions of rows | get, fill, evict, clear after a rollback | `HotCache` |
| ledger files (`store-files.ts`, constructor of `store.ts`) | lock, guard byte, safety reserve, secret, directory | open, refuse, give up the reserve, block | `ReplayStore` (guard, reserve), `CacheSnapshot` (a start by file operations: blocker, directory, secret, database, lock, guard) |
| offline backup and restore (`backup.ts`) | a blocker next to an unfinished copy | one copy, by file operations | `CacheSnapshot` |
| retention clock (`retention.ts`) | last wall and monotonic sample, start of the barrier | `now` `deletionCutoff` | `RetentionClock` |
| request handler, relayed response, server (`requestHandler.ts`, `relayResponse.ts`, `app.ts`) | a coroutine per request, the Node response | read, prepare, call upstream, relay, reply, fail | `RequestLifecycle` |
| replay runtime, session (`runtime.ts`, `session.ts`) | live sessions, closed flag; phase, lease and flags of a session | `prepare` `complete` `finishWithoutCapture` `abort` `requestFinished` `stop` `close` | `RequestLifecycle` |
| admission (`admission.ts`) | leases by count and by bytes | `reserve`, release | `RequestLifecycle` |
| progress deadline (`lifecycle.ts`) | phase, deadline, armed timer | `progress` `beginDelivery` `dispose`, timer | `ProgressDeadline` |
| transport watchdog (`transport.ts`) | phase, timer, abort signal | `beginDelivery` `abort`, timer, response events | `RequestLifecycle`, `SseWriter` |
| client writes and keepalives (`sseWriter.ts`, `clientWrite.ts`) | frame in progress, heartbeat in progress, timer, failure | `publish` `write` `stop`, tick, drain, timeout | `SseWriter` |
| inspection snapshot (`inspection*.ts`) | the pending snapshot, its file | `createSnapshot`, batches of the online backup | `RelayShutdown` |
| admin server, relay's server, shutdown (`admin/server.ts`, `server.ts`, `tunnel.ts`, `app.ts`) | startup promise, connections, active snapshot, closing flag; listening server, tunnel | requests, `startAdmin`, `listen`, `close` | `RelayShutdown` |
| output capture (`capture.ts`) | items, final response and visible fragments observed, budget, verdict | `addEvent` `addFrame` `addJson` `finish` | `OutputCapture` |
| stream and response conversion (`convertStream.ts`, `convertResponse.ts`) | model, tool index per item id | one event or one response to frames | `OutputCapture` |
| SSE parsing (`sse.ts`) | the unfinished line and event | one chunk to events | `SseReader` |
| canonical identity (`canonical*.ts`) | none between requests | project, write, measure and limit a message | `CanonicalIdentity` |
| eligibility, request conversion, diagnostic log, admin client | none that takes part in a protocol | decisions, translation, I/O | left out, see section 7 |

**Interaction.**  The handler prepares a request with the runtime, which leases
admission, plans a replay from the ledger, commits an *intent* and hands out a
session.  The session listens to the response (`finish`, `close`, `error`), owns
a progress deadline, and calls the ledger when the generation ends, when the
reply left the process, or when anything went wrong.  The SSE writer and the
transport watchdog act on the same response and can abort the same handler.
The runtime's maintenance timer calls `cleanup`; the admin server
asks for snapshots of the ledger; `close()` of the relay stops all of them.

**What is hard.**  All of it runs in one thread, so two statements between two
awaits never interleave; what does interleave are calls of different requests,
timers, socket events that come late or in an unexpected order, an exception in
the middle, a shutdown, a crash between two SQLite transactions, and clocks that
disagree.  The list of these places, with the properties that answer them, is
`hazards` in `PROJECT.json`.

**What makes each part correct.**

* Ledger: no generation is forgotten; what may be replayed is unique; nothing
  learnt before unobserved traffic is trusted; evidence is never rewritten;
  cleanup never tears a lineage or a plan in flight.
* Session and handler: a reply is published in the ledger before the client has
  it; an intent is closed without a mark only if its reply was delivered; every
  intent is settled or left to recovery; leases come back, and not too early.
* Deadline: never early, never forgotten, fixed once delivery began.
* Writer: one frame at a time, no keepalive after the end, no write hangs.
* Shutdown: the ledger closes after the backup, and shutdown completes.
* Hot cache: a record it answers with is the record the rows hold.
* Offline copy: no relay starts on half a copy or an unmarked one, unless the
  copy began after the relay had looked for a blocker; a copy reported as complete
  survives every crash that its directory survives.
* Capture: a complete verdict is about exactly the message the client was shown,
  an admissible one about an output that says no more and no less.
* Clock: a restart or a jump of the clock never makes a payload look idle.
* Parser: what is read depends on what was sent and not on how it was cut, apart
  from a block of just the limit.
* Identity: what is hashed depends on what a message means and not on how it was
  written, and limits tell apart no two messages of one digest.

## 2. The modules

Every `X.tla` holds the model and its properties, `MCX.tla` the values TLC
needs, `X_<run>.cfg` one instance, `X_proofs.tla` the proofs (`Process_proofs`
those of the four small components, `Algorithms_proofs` those of `SseReader` and
`CanonicalIdentity`).  `DataInduction` holds what several proofs need of
sequences, folds, recursive functions and sums.  The definitions
named like `NeverConflicts`, placed before the one they resemble, are plausible
bugs: the run of a property must fail when the definition is replaced by them
(`mutants` in `PROJECT.json`).  `map` names the lines each definition stands for.

### ReplayStore

Each public method of the ledger is one synchronous transaction, so it is one
action, and concurrency is the order of the calls.  A crash can only come
between two actions (SQLite's own atomicity is assumed).  *Starts* stand for
digests of histories, *ends* for digests of a history and its answer.  `Begin`
takes the answer the upstream will give as a parameter and keeps it in the
intent: this is how the model knows what really happened upstream (`produced`)
while the ledger learns it only by `Observe*`.  `suspectEnds` and `suspectIds`
record likewise what unobserved traffic may have duplicated.  No action reads
these history variables.

| code | actions |
| --- | --- |
| `planner.ts`, `runtime.prepare`, `store.begin` | `BeginFresh`, `BeginReplay` |
| `store.bypass`, `ensureScope`, `withPlanning` / `touchVerified` | `Bypass`, `EnsureScope`, `TouchVerified` |
| `publishObservation`, by case | `ObserveUnknown`, `ObserveConflict`, `ObserveRecorded` |
| `resolve`, `poison` and `expire`, `rejectReplay` | `Resolve`, `Poison`, `RejectReplay` |
| `fence`, `markCoverageGap`, a disabled relay | `Fence`, `MarkCoverageGap`, `ForwardUnobserved` |
| `cleanup`, the passing of time | `Cleanup`, `GrowIdle`, `ForgetSnapshot` |
| `transaction` and `failClosed`, `close` or a crash, constructor | `Commit`, `FailClosed`, `Stop`, `Reopen`, `FailToReopen` |

Abstracted: byte and record budgets (a refusal is a choice), the envelope
fingerprint (it is determined by the end), diagnostic deadlines of intents
(`renew`; `expire` is `Poison` of any set of open intents), the hot cache, which
is a module of its own.
`GrowIdle` lets any payload become idle at any time, which `RetentionClock`
refines.

### ReplayContract

The same promise without a ledger: at the moment of dispatch, every replayed
block is the only thing ever produced behind its message and no traffic escaped
notice since it was learnt.  `ReplayStore!ImplementsContract` instantiates it
with the blocks of the open intents.  What was sent cannot be recalled, so the
promise is about dispatch and not about later.

### RequestLifecycle

One record per request: where its handler waits, the state of the response, the
transport phase, the session phase, its flags, its lease and what has become of
its intent in the ledger.  A step of the handler is everything between two
awaits.  An abort signal reaches the handler only at its next await, and what
had arrived before may still be processed.  The ledger is `store`, which is
open, failed or closed; each call returns or throws, and `ok` is that choice.
`CloseStore` is bound to the responses only, as in the code: handlers may still
be running when the ledger is closed, which is why `QuietAfterStop` matters.

### HotCache

The rows a replay record is read from, the triggers that stamp each row written
with the next value of one counter, and `SizedHotCache` in front.  The counter
is a row, too: a rollback takes it back, and the next writer gives out the same
versions again for other contents.  A cached record cannot match
them: `transaction` clears the cache when it rolls back; and every transaction
reads its records before it writes any of these rows (the guard of `Read`), so
that nothing is cached that a rollback could take back.  Eviction and the account of bytes are those of the code.

### CacheSnapshot

`copyCacheSnapshot` and the constructor of `ReplayStore` (`store.ts:41` on, with
`loadSecret`), by any number of copies and relays, one action per file operation.
Copies may fail after each, may copy copies, and race each other for a place;
relays start at any path at any time and refuse what the constructor refuses.

| code | actions |
| --- | --- |
| `store.ts:41`, the one look for a blocker | `Look` |
| `loadSecret`: missing secret, directory; create, write, sync; read | `Search`; `NewSecret`, `FillSecret`, `KeepSecret`; `ReadSecret` |
| `store.ts:43-49` | `FindDatabase` |
| `store.ts:53-69`: lock, guard, schema, coverage gap | `Open` |
| an error of the constructor; the end of a relay | `Refuse`; `Stop` |
| `backup.ts:16-22`; `:23-26` | `Check`; `Lock` |
| `backup.ts:27-28`, directory and blocker; `:29-30`, its sync | `Block`; `SyncBlocker` |
| `backup.ts:31-32`; `:33`; `:34` | `Create`; `Vacuum`; `WriteSecret` |
| `backup.ts:37-43` | `MarkGap` |
| `backup.ts:44`; `:45`; `:46`; `:47`; `:48` | `SyncDatabase`; `SyncSecret`; `SyncNames`; `Unblock`; `SyncUnblocked` |
| an error or the end of the process | `GiveUp` |

A crash keeps only what was synced, the content of a file and its name in the
directory separately; all else may be kept, lost or torn.  Directories are made on
the way (`mkdirSync` with `recursive`, `backup.ts:27` and `store-files.ts:16`), and
nobody syncs the parent of one that was made.  `directory` says whether each is
there and whether its name is durable: until the system has written it by itself,
which here a crash that keeps it shows, a crash may take the directory with all
that is in it (`Lose`).  `Settled` are directories that were there long before.
`FinishedIsDurable` therefore speaks of copies whose directory has not vanished;
a ledger that a relay begins in a new directory has the same gap.

The blocker is looked for once.  A relay that is past `store.ts:41` when a copy
writes its blocker is `overtaken`, a history variable: it may read the copied
secret, find the half-written or still unmarked copy, and lock it, whereupon
`backup.ts:39` fails.  `StartsAreSafe` says nothing of its start, see section 6.  Of
every other start it says what the blocker is for.

What a copy checked (`backup.ts:20`) may be stale when it locks its source (`:25`);
this is harmless because a copy never unblocks what it did not itself create, and
marks it as having a gap.  A copy does not validate the secret it reads
(`backup.ts:26`), relays do; `Check` and `Lock` meet only sources whose secret is
whole, which is what the invariant says of them.  A race for one place may leave a
blocker beside a finished copy, or beside a relay that already runs: such a path
then refuses to start, and loses nothing.

### SseReader

`readSseEvents`: one action per piece of text the decoder hands out (`Receive`:
the rest of a cut line end is skipped, line ends are unified, the loop takes the
blocks that are complete, the limit is tested) and one for the end of the stream
(`End`). The reference `Sent` knows no chunks: it takes the text received so far
a character at a time and keeps the lines of the unfinished event, its size, the
sizes of the events ended and the events themselves. After the reader has given
up, the rest of the stream is still taken by the reference (`Unread`), so that both
speak of one text however it is cut. Both use `Through` of `Stepwise`, the fold of a
function given by what each element does, because proofs can be made about it in
general. A character counts once towards the limit, whatever its bytes.

`ChunksMatterAtTheLimitOnly` says that the reader yields the events of the text, or
when it gave up the first of them; that it gives up on every text with a block over
the limit (`TooLong`), however that is cut; and that it gives up on no other, with
one exception, at which the chunks do matter. A block of exactly `maxEventBytes`
is yielded if both line ends that end it arrive in one chunk, because the test of
`sse.ts:28` does not count them; if the chunk ends between them, or amid the
first, the first is part of the unfinished buffer, which `sse.ts:34` then finds one
over the limit (`CutAtItsEnd`; `parted` remembers that it happened). With a limit of
three, `xxx LF LF` is an event, and `xxx LF` followed by `LF` an error. The length of a
block is `Reached`, which counts no line end at its end.

### CanonicalIdentity

A pure algorithm in three parts, next to a reference that says what it is for,
what a message *means*.  `Projected` is `canonicalShape.ts`: the code projects
lazily while it walks, with a mode for each level (the message, its calls, one
call), the model projects first, which is the same since nothing is changed in
between.  `EmitCanonical` is what is hashed, keys sorted; `Walk` is what is
counted, fields as they were written, on a `Budget` that remembers the most there
ever was of what is also released or foreseen, so that `Refused` can be asked for
any limit afterwards: the code throws at the first limit it meets, which is
one of those a count is over.  All three, like `Meaning`, are recursive functions
of the depth, whose value at a depth is a function of the values nested so deep;
folds over items and fields are those of `Stepwise`.  The specification
`Messages` grows two messages a field at a time, so that every order of
fields is a state; `MCAlgorithms` runs it, or where there is no message reads a
stream.

### ProgressDeadline, SseWriter, RelayShutdown

`ProgressDeadline` counts time relative to the present, so its states are finite
without a bound on the time that passes.  A timer may run `Early` before it is
due (Node's timers and `performance.now` are different clocks) and `Late` after.
The comparison of revisions in the code is not in the model: the timer of an
old revision has been cancelled, and cancelled timers do not run.

`SseWriter` has one frame producer and one heartbeat; the socket may clog at any
write, drain, time out, close or fail.  `reports` counts calls of `onError`.

`RelayShutdown` follows the awaits of `close()` one by one.  The runtime's own
wait for the inspection is redundant for snapshots asked over the admin socket,
because the admin server waits for those itself; it is needed for a program that
embeds the relay and calls the runtime, which is `CreateSnapshot`.  The start
belongs to it because `close()` may come while it lasts: `Listen` begins to look
up the host, `Listening` opens the server, then the tunnel comes up or fails
(`TunnelOnline`, `TunnelFails`), and a failed tunnel closes the relay.

### OutputCapture

One generation: the converter, the capture that observes what goes in and what
comes out, and the verdict.  Upstream owes nothing: events come in any order and
number, positions are reported twice, and the final response is any of a set.
An event is one action: `session.event`, the conversion, `session.frame` and the
write run without an await between them, up to the write itself.  Texts are
sequences of pieces; a piece in `Spaces` is what normalising arguments drops.
The budget may run out at any observation (`Observe`), and `client` and `said`
are histories of what was shown and of what was announced, which know of no
budget.  `message.models` stands for `clientModel` and the flag set when a frame
names another model.  The frames after the finish, usage and `[DONE]`, are part
of it: the budget running out there has the outcome of running out before.

### RetentionClock

`RetentionClock` follows one payload.  `gone` and `ahead` are what the next
sample will see; `slack` sums the forward steps a sample let pass.

## 3. The runs

| run | bounds | shows |
| --- | --- | --- |
| `ReplayStore_ledger` | 1 scope, 2 turns, 2 payloads, 2 requests, 2 generations | `NoGenerationForgotten`, `UniqueReplay`, `NoSuspectReplay`, `LineageRetained`, `InFlightPlanRetained`, `EvidenceKept`, `ImplementsContract` |
| `HotCache_versions` | 3 records, payloads of 1 and 2 units in a cache of 2, 6 versions | `HitsAreCurrent` |
| `CacheSnapshot_crash` | 2 places, either directory new, 1 relay, 2 copies at a time, 2 secrets | `StartsAreSafe`, `FinishedIsDurable` |
| `RequestLifecycle_failures` | 2 requests, 2 slots, memory for two small or one large | `ReplyIsPublished`, `ResolvedWasDelivered`, `IntentSettled`, `LeaseCoversWork`, `QuietAfterStop`, `IntentDiscipline`, `LeaseReturned` |
| `ProgressDeadline_timers` | timeouts 30 and 20, timers 2 early to 3 late | `NeverEarly`, `NeverForgotten`, `DeliveryEnds` |
| `SseWriter_stream` | 6 frames | `OneWriteAtATime`, `NothingAfterTheEnd`, `WriteSettles` |
| `RelayShutdown_close` | 3 admin connections | `StoreClosesCleanly`, `NoneBeginsAfterStop`, `ShutdownCompletes` |
| `RelayShutdown_documented` | 1 admin connection | violation of `NothingListensBehindTheStore`, see section 6 |
| `OutputCapture_verdict` | 4 events and the last, 2 positions, 7 items, 4 final outputs, 2 models | `EnvelopeIsShown`, `AdmissibleIsShown`, `CompleteAgrees` |
| `Algorithms_bounded` | texts of 6 characters in any chunks, events of 3; messages in all orders and forms, every limit | `ChunksMatterAtTheLimitOnly`, `HashedAsMeant`, `LimitsMeetTheIdentity` |
| `RetentionClock_drift` | minimum 3, configured 4, drift 1, horizon 7 | `NotReclaimedEarly`, `RestartPostpones` |
| `RetentionClock_documented` | the same | violation of `IdleWhenReclaimed`, see section 6 |

Six runs also check a type invariant (`TypeOK`, or `SWTypeOK` and `RSTypeOK` where
one module proves about several components), which holds one fact beyond types (the foreign
keys of the tables, both admission limits, one report per failure, the admin
server's count of snapshots, nothing retained by an exhausted capture, the
cache's account of its bytes).

Why the bounds are enough.  In the ledger a conflict needs two answers, so two
payloads and two requests that race at one position; a second turn is the first
that has an ancestry to lose, and a batch of one deletes no more than one
payload at a time, so cleanup must choose which.  What was learnt before a
fence, in flight across it and after it are two generations.  Larger instances
(a third turn, whose inner ancestor could be torn out; a second scope, left out
of a fence; a third request that replays while two race) were checked while the
model grew; now the proofs cover them for all constants.  In `HotCache` three
records fill a cache of two, one large payload replaces both, and six versions
suffice to write, roll back, and give the same versions out again.
`CacheSnapshot` has a ledger and a place that two copies race for, while a relay
starts at either; neither directory is settled, so that either may vanish, and a
new secret may be another or the same.  What is copied may be copied back when the
first directory has vanished.  A second relay was checked with a settled ledger
while the model grew; more places, relays and copies are left to the proofs.  In `RequestLifecycle` the count limit never refuses
with two requests and two slots, the byte limit does; a larger number of
requests adds no new pair of interacting actions, since requests meet only in
admission, the ledger's state and shutdown.  In `OutputCapture` four events make
a complete stream with one call, its arguments in two pieces or its item
reported, and a contradiction needs two reports of one position; the items hold
a reasoning item and the same one encrypted again, and a message, a refused and
an incomplete one with the same text.  In `SseReader` six characters hold an
event ended by two line ends of two characters each, cut in the middle of
either, an event beyond the limit with its end, and one of just the limit, with its
end in one chunk or cut.
In `CanonicalIdentity` messages have up to three fields, whose left version is written in
one order because every message has a twin that is; limits are drawn one at a
time, at every value a message of this size can meet (90 bytes, 16 nodes, 5
levels, 30 units of scratch).  A part of a text is the deepest value there is, in
the content of a message: it stands on the fourth level.

Symmetry is used for payloads and ids in the run of `ReplayStore`, for records
in that of `HotCache`, for models in that of `OutputCapture`, and for copies, relays
and places other than the first in that of `CacheSnapshot`, none of which has
liveness properties.

`CHECK_DEADLOCK FALSE` stands where the program really comes to rest: all
requests are over, the deadline is disposed of, the stream ended, the relay
closed, the generation judged, the payload reclaimed, the input complete, or the
bound of `MaxGeneration`, `MaxVersion`, ids or horizon is reached.

## 4. Fairness

* `RequestLifecycle`: the session's timer fires, an awaited call whose signal
  fired throws, writes end or time out, log writes end (they are capped at two
  seconds), coroutines go on.  The upstream and the client owe nothing.  One
  assumption is not guaranteed by the code: a generation that keeps receiving
  bytes renews its deadline for ever, by design; `WF(SessionTimer)` says it does
  not.
* `ProgressDeadline`: time passes and timers run.
* `SseWriter`: only the timeout of a blocked write is fair.
* `RelayShutdown`: coroutines go on, sockets time out, a bounded backup ends, a
  server whose connections were closed reports that it is closed (Node's part),
  the tunnel stops.  Nothing is assumed of `Listen`, of the tunnel coming up or
  of anybody asking for a snapshot.
* `ReplayStore`, `HotCache`, `CacheSnapshot`, `OutputCapture`, `RetentionClock`,
  `SseReader` and `CanonicalIdentity` have no liveness properties: what happens
  there is up to clients, operators and upstream.

## 5. The proofs

TLAPS checks every leaf; nothing is assumed but the named assumptions on the
constants, which TLC evaluates in each run.

**ReplayStore_proofs.**  Assumptions: `KeyAssumption` (an end lies beyond its
start and outside the start's own history, histories stay in one scope) and
`NoneAssumption`.  The invariants are not inductive alone.  `UniqueReplay` needs
that whatever was produced is covered (`NoGenerationForgotten`), that a record's
producer is done generating (`ObservationFacts`), and that an intent is for the
position its answer lies behind (`IntentFacts`).  `NoSuspectReplay` needs that
what is suspect is of an older generation, in conflict, or left to a recorded
gap that no open store has (`SuspicionFacts`).  The retention invariants need
that pins and dependencies say all that cleanup must know (`PinFacts`,
`DependencyFacts`).  `IInv` is their conjunction.  The proof has one lemma per
action, the helper lemmas on lineages come first, and `UniqueReplay` and
`NoSuspectReplay` follow from `IInv` in any state.  `LedgerKeepsContract` maps
each action to a step of the contract: a replaying `Begin` is a `Dispatch`
because `CanReplay` implies uniqueness and trust in that very state.

**HotCache_proofs.**  For any finite set of records, any sizes and limit: no row and no entry has
a version the counter has not given out, and rows with the versions of an entry
hold its record; the rows a rollback returns to are consistent with their own
counter.  A write then always differs from all that is cached, and a rollback
keeps the invariant because it empties the cache.  What is needed of the
eviction is only that it removes entries and changes none.  That transactions
read before they write is not needed: it is a second, independent protection.
The account (`AccountIsKept`) is inductive with the order in which entries are
evicted, which holds every entry once: what `evict` drops from the front is a
prefix of it, and its sum is what the account loses.  The records are finite
(`IsFiniteSet(Ends)`) because the account is a sum over them.

**CacheSnapshot_proofs.**  For any places, settled or not, and any number of relays
and copies.  `Clear` says: where the blocker is missing *or may be missing after a
crash*, a database is as durable as it is seen, and fits every secret beside it.
`Lasting` says that nothing but blockers is ever removed and that a place has one
secret; `RelayFacts` what a relay may rely on after each of its steps, if no copy
has overtaken it, and `Unused` that nobody uses a secret which is still being
written; `CopyFacts` what a copy relies on in each phase, and `Alone` why others do
not disturb it: the file it creates is created exclusively, and nobody copies from a
place that is being filled.  `ReportIsDurable` is why a crash takes nothing of a
complete copy but all of it.  An overtaken relay is in the invariant like the
others: it may open what it must not, but it breaks nothing of what is said of
places and copies, because the copy then fails and its blocker stays.  The lemma
`Step` reduces a step to the place it changes; `SyncInvariant`, `FillStep` and
`RelayStep` treat steps that are alike together.  `StartsSafely` follows from
`RelayFacts` and `Clear`, `CopiesEndure` from `ReportIsDurable`.

**RequestLifecycle_proofs.**  For any number of requests, any costs (a positive
base cost, `CostAssumption`) and any limits.  `Coherent` says which phases of
handler, response, session, lease and intent of *one* request go together;
`IInv` adds that nothing lives behind a stop.  Every action but `Stop` changes
one request, so there is one lemma per operation about what that request may
become (`MayBecome`), and two lemmas lift it to the state.  All five invariants
beyond the types, and the order of the ledger's calls, follow.  The two admission
limits (`AdmissionIsLimited`) are a cardinality and a sum over a finite set of
requests: the sum changes by the cost of the one request that takes or returns
a lease, and taking one is guarded by what the sum becomes.

**OutputCapture_proofs.**  For any items, texts, final outputs and models, and any
number of events; an item is told from the absence of one (`None \notin Items`).
The invariants relate the verdict to histories that know of no budget, and are not
inductive: `Follows` says that a capture whose budget has not run out holds the
message the client was shown, and, unless upstream has contradicted itself, at each
position what was last said of it; `Judged` that the verdict is the decision of
`finish` on the capture as it ended; `Numbers` that the converter's tool indices are
numbers of a finite map, so that a frame can be consumed; `Fresh` that nothing was
captured before the first event.  Most of the work is in the types of what is
recursive: the bodies joined and the calls collected from an output.
`EnvelopeIsShown` and `AdmissibleIsShown` follow from the first part of `Follows`
and `Judged`.  `CompleteAgrees` needs the second: a contradiction at a position is
noticed when it arrives, and the final output is compared with what is held there.

**Process_proofs.**  Four small components.  *Deadline*, for any durations: it is
where the last renewal put it, and the armed timer is due no later.  *Clock*, for
any minimum, drift and jumps: either the barrier and the idle time together make
up the minimum, or the payload's apparent age is at most its idle time plus what
samples let pass and the next one will see.  *Writer*, for any number of frames:
what the chain, the heartbeat, the timer and the failure say of each other.
*Shutdown*, for any number of connections: the admin server's snapshot, the
helper's pending one and its file agree until the ledger closes.

**Algorithms_proofs: the reader.**  For any characters, any limit, any length of the stream and
any chunks.  What is held between two chunks has no blank line, is the unfinished
part of what the reference has taken, and is within the limit (`Holds`).  A chunk
then is treated in three steps.  `UnifiedConcat`: unifying the whole text is unifying
its parts, if a carriage return at the end of one eats a line feed at the beginning
of the next.  `BlockTaken`: the reference takes the first block of a text and the
rest as one turn of the loop does.  `DrainedTaken`: the loop comes to rest, since
every turn shortens what is left, and all the while what the reference makes of the
rest is what it makes of the whole.  When the reader gives up, what it yielded is a
prefix because the reference never takes an event back (`TakenGrows`), and the text is
too long for good (`TooLongStays`), whatever else arrives (`UnreadInvariant`), unless
the block held is of just the limit but for its line end (`AtTheLimit`).

**Algorithms_proofs: the identity.**  For any letters, keys, fields and depth, any
numbers the scratch is counted with, and messages of any length
(`CanonicalAssumption`: the keys are in an order, each once, and `content` is
one of them; the fields of messages are values nested below the bound).
`MessagesAreValues` is the invariant of `Messages`; the rest are facts about
every value, by induction on the depth at which it is nested.

* *Emissions can be read* (`Readable`): if two of them begin one text, they are the
  same.  No piece of a list begins with what closes it, and a quoted text ends at
  its second quote, so lists, texts and fields are told apart wherever they stand.
* *Values are emitted alike exactly when they mean the same* (`EmittedAsMeant`),
  since arrays then agree item by item and objects key by key.
* *What is projected means what is understood* (`MessagesMean`): the projection
  looks at forms (a part of a text, an index that is the position), the reference
  at meanings, and a meaning tells enough of the form (`ToldBelow`).  With the
  former this is `MessagesAreHashedAsMeant`.
* *Walking a value settles a cost* (`WalksAreCosted`): whatever the budget was, the
  walk adds the same bytes and nodes, releases all it reserved, and raises each
  maximum to what it was plus the same amount; the bytes are the length of the
  emission.  An array refused ahead for its length would be refused in any case,
  because each item is a node.  Steps that settle costs commute, so the fields of an
  object can be walked in any order, and values emitted alike have the same cost
  (`Uniform`).  This is `TheLimitsMeetTheIdentity`, for any set of limits.

**DataInduction.**  The library's induction rules take an operator as a parameter,
which the provers cannot instantiate; here induction is stated of the *set* of
numbers for which something holds (`EveryNumber`, from the least element of a set
of naturals, `LeastNumber`).  From it follow that a function defined by recursion
on a number exists and obeys its equation, how the sum of a function over a
finite set changes with it, that a fold of commuting steps does not depend on the
order (`AnyOrder`), and that a list of words none of which begins another can be
read in one way (`ListsAreRead`).

**Only model-checked**: the four liveness properties (`LeaseReturned`,
`DeliveryEnds`, `WriteSettles`, `ShutdownCompletes`), whose fairness the prover
does not treat, nor ENABLED.  Every safety property of a passing run is proved.

## 6. Divergences

Two runs show a disagreement of code and documentation.

`src/README.md:233` says that payloads are reclaimed "only after at least 30 idle
days".  The clock restarts its barrier if wall and monotonic clock disagree by
more than 60 seconds *since the last sample* (`src/src/reasoning/retention.ts:47`)
and forgets smaller disagreements, while the age of a payload is measured on the
wall clock.  Forward steps of up to 60 seconds per sample therefore add up:
`RetentionClock_documented` finds two of them.  `NotReclaimedEarly`, checked and
proved, says that this is all: idle time plus the sum of the tolerated steps is
never below the minimum.  In practice a clock would have to be stepped forward
again and again for the difference to matter.

`src/REASONING-REPLAY-CONCEPT.md:170` says "Shutdown stops new work, aborts and
poisons active sessions, closes connections and then closes the store."
`close()` closes the relay's server only if it is listening
(`server.listening`), and `listen()` looks up the host first
(`src/src/server.ts:30`).  A `close()` in between finds nothing to close, and the
server begins to listen behind the closed ledger, and starts the tunnel:
`RelayShutdown_documented` finds it.  The runtime is closed, so requests get an
error and nothing is recorded wrongly, but the process does not end.  With an
address as host, which is the default, the window is one turn of the event loop.

Three more limits of what is promised were met while modelling.  They have no run of
their own; the properties are stated so that they do not hide them.

* `src/REASONING-REPLAY-CONCEPT.md:168` says "A `.blocked` file prevents activation
  until snapshot publication and metadata are durable."  It prevents it for relays
  that start after the file was written; one that has passed `store.ts:41` before
  may still open the unfinished copy (`overtaken`).  The comment at `backup.ts:12`
  calls the copy "Offline only", which excludes such a relay by convention.
* The name of a directory that a copy or a relay had to make is not synced, so a
  copy reported as complete in a new directory may vanish with it in a crash that
  comes soon after (`Lose`).
* An event of just `maxEventBytes` is read or refused depending on where a chunk
  ends (`CutAtItsEnd`).

## 7. Not modelled

* Digest collisions; the digest of a scope and the chain of digests of a
  history, which enter `ReplayStore` as scopes, starts, ends and histories.  Of
  the canonical walk: the escaping of strings, keys that are array indices
  (which JavaScript orders before the others).
* Of the stream's reader: the decoder and the byte-order mark.
* An operator who puts an older copy of the database in place of the ledger by
  other means than the restore.  Restoring marks the copy with a coverage gap,
  which `CacheSnapshot` has; what was produced between is outside the ledger.
* Traffic that does not pass this relay.  A fence protects the records that
  exist; it cannot reconstruct what was produced on a path nobody observed.
* The diagnostic log (`log.ts`): its slots and its cap of two seconds bound file
  writes, and losing lines breaks no promise of the relay; that a write whose
  time ran out keeps a slot is the one hazard listed without a property.
* Eligibility, request conversion: stateless decisions and translations, both of
  whose outcomes are inputs of `RequestLifecycle`.  The admin client and the
  checks of its paths, configuration, status and counters: I/O without a
  protocol of its own.
* The contents of requests, their conversion, limits and headers.  Of replies,
  `OutputCapture` leaves out frames the converter never writes (unknown keys,
  several choices, data after `[DONE]`), which the capture refuses, and of the
  upstream's events the malformed ones (`capture.ts:165-169`) and empty strings where
  some text is required, which only make a verdict negative.
* Of the shutdown: an error of the file system when the admin server removes its
  socket (`location.cleanup()`, `admin/server.ts:100`), upon which
  `src/src/server.ts:12-18` would not go on to stop the tunnel.

## 8. Plan

Done: ledger and contract, hot cache, offline copies, request lifecycle,
deadline, clock, writer, shutdown, capture, stream reader and canonical identity,
with proofs of every safety property.  Open, in this order:

1. `RequestLifecycle` composed with `ReplayStore`: every sequence of calls of the
   sessions is one the ledger's actions allow.  `IntentDiscipline`, checked and
   proved, is the interface.
2. The walk's escaping and array-index keys, and the digests of scopes and
   histories over it; then eligibility as operators.
3. The slots of the diagnostic log.
