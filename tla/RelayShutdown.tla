----------------------------- MODULE RelayShutdown -----------------------------
(***************************************************************************)
(* The start and the end of the relay's process: server.ts and close(),    *)
(* against the private admin server and the online backup an inspection    *)
(* snapshot makes.  The backup reads the ledger's own SQLite handle over   *)
(* many turns of the event loop, close() is a coroutine of five awaits,    *)
(* and the admin server, the relay's server and the tunnel to it may still *)
(* be starting when it begins.                                             *)
(***************************************************************************)
EXTENDS Naturals

CONSTANT Clients \* connections to the admin socket

VARIABLES
  step,    \* what close() awaits: the admin server's start, its end, the
           \* relay's server, the inspection; or it was not called, is over,
           \* or the tunnel was stopped after it
  server,  \* the relay's server; lookup: listen() awaits the host's address
  tunnel,  \* the public tunnel
  admin,   \* the admin server's startup promise and closing flag
  client,  \* each connection: none, its request is read, it awaits an answer
  activeSnapshot, \* none, asked for, or under way
  closed,  \* ReplayRuntime.closed
  store,   \* the ledger
  pending, \* the inspection helper's snapshot: none, deferred, or copying
  file,    \* the snapshot's file
  refused  \* history: the ledger refused to close

rsVars == <<step, server, tunnel, admin, client, activeSnapshot, closed, store, pending, file, refused>>

closeVars == <<step, server, tunnel, closed, refused>>

-----------------------------------------------------------------------------
(* The admin server.                                                       *)

(* startAdmin, which a relay that is closing rejects. *)
StartAdmin ==
  /\ step = "no" /\ admin = "none"
  /\ admin' = "starting"
  /\ UNCHANGED <<closeVars, client, activeSnapshot, store, pending, file>>

AdminStarted ==
  /\ admin = "starting"
  /\ admin' \in {"up", "failed"}
  /\ UNCHANGED <<closeVars, client, activeSnapshot, store, pending, file>>

Connect(c) ==
  /\ admin = "up" /\ client[c] = "none"
  /\ client' = [client EXCEPT ![c] = "reading"]
  /\ UNCHANGED <<closeVars, admin, activeSnapshot, store, pending, file>>

(* Answered, refused, timed out or gone: the connection ends. *)
Leave(c) ==
  /\ client[c] # "none"
  /\ client' = [client EXCEPT ![c] = "none"]
  /\ UNCHANGED <<closeVars, admin, activeSnapshot, store, pending, file>>

(* A complete request for a snapshot.  While another is active or the      *)
(* server is closing, the request is answered at once, see Leave.          *)
AskForSnapshot(c) ==
  /\ client[c] = "reading" /\ activeSnapshot = "none" /\ admin # "closing"
  /\ client' = [client EXCEPT ![c] = "waiting"]
  /\ activeSnapshot' = "asked"
  /\ UNCHANGED <<closeVars, admin, store, pending, file>>

-----------------------------------------------------------------------------
(* The snapshot.                                                           *)

CreatesAtAnyTime == store = "open"

MayCreate == ~closed /\ store = "open"

CallSnapshot ==
  /\ activeSnapshot = "asked"
  /\ IF MayCreate /\ pending = "none"
     THEN activeSnapshot' = "running" /\ pending' = "deferred"
     ELSE activeSnapshot' = "none" /\ UNCHANGED pending
  /\ UNCHANGED <<closeVars, admin, client, store, file>>

(* The program that embeds the relay asks the runtime directly. *)
CreateSnapshot ==
  /\ MayCreate /\ pending = "none"
  /\ pending' = "deferred"
  /\ UNCHANGED <<closeVars, admin, client, activeSnapshot, store, file>>

SettleKeepingPending == UNCHANGED pending /\ activeSnapshot' = "none"

SettleKeepingActive == pending' = "none" /\ UNCHANGED activeSnapshot

(* The snapshot promise settles: the helper and, if it was the one to ask, *)
(* the admin server forget it.                                             *)
Settle ==
  /\ pending' = "none"
  /\ activeSnapshot' = IF activeSnapshot = "running" THEN "none" ELSE activeSnapshot

(* The store is checked again before the file is made, then the space. *)
StartBackup ==
  /\ pending = "deferred"
  /\ \/ Settle /\ UNCHANGED file
     \/ /\ store = "open"
        /\ pending' = "copying" /\ file' = "temporary"
        /\ UNCHANGED activeSnapshot
  /\ UNCHANGED <<closeVars, admin, client, store>>

(* Between two batches of pages the store turns out to be failed or closed,*)
(* the space runs out, or SQLite reports an error.                         *)
BackupFails ==
  /\ pending = "copying"
  /\ file' = "none"
  /\ Settle
  /\ UNCHANGED <<closeVars, admin, client, store>>

BackupEnds ==
  /\ pending = "copying"
  /\ store = "open"
  /\ file' = "published"
  /\ Settle
  /\ UNCHANGED <<closeVars, admin, client, store>>

(* A safety write of the ledger fails while requests are served. *)
StoreFails ==
  /\ store = "open" /\ ~closed
  /\ store' = "failed"
  /\ UNCHANGED <<closeVars, admin, client, activeSnapshot, pending, file>>

-----------------------------------------------------------------------------
(* close().                                                                *)

CloseRelay ==
  /\ step' = "admin"
  /\ closed' = TRUE
  /\ server' = IF server = "listening" THEN "closing" ELSE server
  /\ UNCHANGED <<admin, client, activeSnapshot, store, pending, file, refused>>

(* A signal, or the program that embeds the relay. *)
Close ==
  /\ step = "no"
  /\ CloseRelay
  /\ UNCHANGED tunnel

(* The admin server has started, failed to, or was never asked to.  If it  *)
(* runs it is closed: the connections that wait for headers are destroyed, *)
(* the others are left to their answers.                                   *)
CloseAdmin ==
  /\ step = "admin" /\ admin # "starting"
  /\ IF admin = "up" THEN step' = "drain" /\ admin' = "closing"
                     ELSE step' = "server" /\ UNCHANGED admin
  /\ UNCHANGED <<server, tunnel, client, activeSnapshot, closed, store, pending, file, refused>>

AdminClosed ==
  /\ step = "drain"
  /\ \A c \in Clients : client[c] = "none"
  /\ activeSnapshot = "none"
  /\ step' = "server" /\ admin' = "closed"
  /\ UNCHANGED <<server, tunnel, client, activeSnapshot, closed, store, pending, file, refused>>

(* External: all connections of the relay's server, destroyed by close(),  *)
(* are gone.                                                               *)
ServerCloses ==
  /\ server = "closing"
  /\ server' = "closed"
  /\ UNCHANGED <<step, tunnel, admin, client, activeSnapshot, closed, store, pending, file, refused>>

(* The server's end may also be an error, which does not keep the ledger   *)
(* open.                                                                   *)
ServerAwaited ==
  /\ step = "server" /\ server # "closing"
  /\ step' = "inspection"
  /\ UNCHANGED <<server, tunnel, admin, client, activeSnapshot, closed, store, pending, file, refused>>

InspectionIgnored == step = "inspection"

InspectionAwaited == step = "inspection" /\ pending = "none"

CloseStore ==
  /\ InspectionAwaited
  /\ step' = "over"
  /\ IF pending = "none" THEN store' = "closed" /\ UNCHANGED refused
                         ELSE refused' = TRUE /\ UNCHANGED store
  /\ UNCHANGED <<server, tunnel, admin, client, activeSnapshot, closed, pending, file>>

(* External: ngrok.disconnect ends the tunnels that are online. *)
StopTunnel ==
  /\ step = "over"
  /\ step' = "stopped"
  /\ tunnel' = IF tunnel = "online" THEN "off" ELSE tunnel
  /\ UNCHANGED <<server, admin, client, activeSnapshot, closed, store, pending, file, refused>>

-----------------------------------------------------------------------------
(* server.ts, once the admin server is up or known not to be wanted.       *)

Listen ==
  /\ step = "no" /\ server = "idle" /\ admin \in {"none", "up"}
  /\ server' = "lookup"
  /\ UNCHANGED <<step, tunnel, closed, refused, admin, client, activeSnapshot, store, pending, file>>

(* External: the host's address is known, the port is bound; the callback  *)
(* of listen() starts the tunnel.                                          *)
Listening ==
  /\ server = "lookup"
  /\ server' = "listening"
  /\ tunnel' = IF tunnel = "wanted" THEN "connecting" ELSE tunnel
  /\ UNCHANGED <<step, closed, refused, admin, client, activeSnapshot, store, pending, file>>

TunnelOnline ==
  /\ tunnel = "connecting"
  /\ tunnel' = "online"
  /\ UNCHANGED <<step, server, closed, refused, admin, client, activeSnapshot, store, pending, file>>

(* A relay that cannot be reached shuts down, unless it does already. *)
TunnelFails ==
  /\ tunnel = "connecting"
  /\ tunnel' = "off"
  /\ IF step = "no" THEN CloseRelay
     ELSE UNCHANGED <<step, server, closed, refused, admin, client, activeSnapshot, store, pending, file>>

-----------------------------------------------------------------------------

RSInit ==
  /\ step = "no"
  /\ server \in {"idle", "listening"}
  /\ tunnel \in IF server = "idle" THEN {"off", "wanted"} ELSE {"off"}
  /\ admin = "none"
  /\ client = [c \in Clients |-> "none"]
  /\ activeSnapshot = "none"
  /\ closed = FALSE
  /\ store = "open"
  /\ pending = "none"
  /\ file = "none"
  /\ refused = FALSE

RSNext ==
  \/ StartAdmin \/ AdminStarted
  \/ \E c \in Clients : Connect(c) \/ Leave(c) \/ AskForSnapshot(c)
  \/ CallSnapshot \/ CreateSnapshot \/ StartBackup \/ BackupFails \/ BackupEnds \/ StoreFails
  \/ Close \/ CloseAdmin \/ AdminClosed \/ ServerCloses \/ ServerAwaited \/ CloseStore
  \/ StopTunnel \/ Listen \/ Listening \/ TunnelOnline \/ TunnelFails

RSSpec == RSInit /\ [][RSNext]_rsVars

(* Coroutines go on, sockets time out, a backup of a bounded file ends.    *)
RSFairness ==
  /\ WF_rsVars(AdminStarted)
  /\ \A c \in Clients : WF_rsVars(Leave(c))
  /\ WF_rsVars(CallSnapshot) /\ WF_rsVars(StartBackup)
  /\ WF_rsVars(BackupFails \/ BackupEnds)
  /\ WF_rsVars(CloseAdmin) /\ WF_rsVars(AdminClosed)
  /\ WF_rsVars(ServerCloses) /\ WF_rsVars(ServerAwaited) /\ WF_rsVars(CloseStore)
  /\ WF_rsVars(StopTunnel)

RSFairSpec == RSSpec /\ RSFairness

-----------------------------------------------------------------------------

(* Types, the admin server counts a snapshot as active no longer than the  *)
(* helper does, and a temporary file belongs to a backup in progress.      *)
RSTypeOK ==
  /\ step \in {"no", "admin", "drain", "server", "inspection", "over", "stopped"}
  /\ server \in {"idle", "lookup", "listening", "closing", "closed"}
  /\ tunnel \in {"off", "wanted", "connecting", "online"}
  /\ admin \in {"none", "starting", "up", "failed", "closing", "closed"}
  /\ client \in [Clients -> {"none", "reading", "waiting"}]
  /\ activeSnapshot \in {"none", "asked", "running"}
  /\ closed \in BOOLEAN /\ refused \in BOOLEAN
  /\ store \in {"open", "failed", "closed"}
  /\ pending \in {"none", "deferred", "copying"}
  /\ file \in {"none", "temporary", "published"}
  /\ activeSnapshot = "running" => pending # "none"
  /\ file = "temporary" => pending = "copying"

(* The backup never loses the handle it reads: the ledger is closed only   *)
(* when no snapshot is deferred or copying, so that its close never        *)
(* refuses and shutdown never fails because of an inspection.              *)
StoreClosesCleanly == ~refused /\ (store = "closed" => pending = "none")

(* Inductive. *)
RSInv == RSTypeOK /\ StoreClosesCleanly

(* Once close() was called no backup is created any more: none can begin   *)
(* behind the wait for the last one.                                       *)
NoneBeginsAfterStop == [][closed /\ pending = "none" => pending' = "none"]_rsVars

(* close() completes and releases the ledger, whatever the admin server,   *)
(* its clients and the backup are doing when it is called.                 *)
ShutdownCompletes == step # "no" ~> step = "stopped" /\ store = "closed"

(* REASONING-REPLAY-CONCEPT.md:170: "Shutdown stops new work, aborts and   *)
(* poisons active sessions, closes connections and then closes the store." *)
(* Once the store is closed, nothing listens for new work.                 *)
NothingListensBehindTheStore == store = "closed" => server # "listening"

=============================================================================
