---------------------------- MODULE Process_proofs ----------------------------
(***************************************************************************)
(* Proofs about the parts of the relay's process that stand beside the     *)
(* requests and the ledger, and do not interact with each other in the     *)
(* model: the deadline of a generation, the retention clock, the writer of *)
(* a stream, and the start and the end of the process.  They hold for all  *)
(* durations, all inaccuracies of timers and clocks, streams of any number *)
(* of frames and any number of admin connections.                          *)
(***************************************************************************)
EXTENDS ProgressDeadline, RetentionClock, SseWriter, RelayShutdown, TLAPS

-----------------------------------------------------------------------------
(* ProgressDeadline.                                                       *)

(* What ties the watchdog's state together: the time left and the time     *)
(* elapsed add up to the phase's limit, and an active watchdog has exactly *)
(* one timer, armed for its deadline.                                      *)
PDInv ==
  /\ TypeOK
  /\ remaining + elapsed = Limit
  /\ active <=> armed
  /\ active => due = remaining /\ due >= -Late /\ expired = 0
  /\ expired > 0 => remaining <= 0

LEMMA DeadlineInit == Init => PDInv
BY DurationAssumption DEF Init, PDInv, TypeOK, Limit

(* The timer's check, called with the watchdog active. *)
LEMMA CheckPreserves == PDInv /\ active /\ Check => PDInv'
<1> SUFFICES ASSUME PDInv, active, Check PROVE PDInv'
  OBVIOUS
<1>1. CASE remaining > 0
  BY <1>1, DurationAssumption DEF Check, Scheduled, PDInv, TypeOK, Limit
<1>2. CASE ~(remaining > 0)
  <2>1. /\ active' = FALSE /\ armed' = FALSE
        /\ expired' = 1
        /\ remaining' = remaining /\ due' = due
        /\ phase' = phase /\ elapsed' = elapsed
    BY <1>2 DEF Check, Expire, PDInv
  <2>2. TypeOK'
    <3>1. active' \in BOOLEAN /\ armed' \in BOOLEAN
      BY <2>1
    <3>2. expired' \in 0..1
      BY <2>1
    <3>3. /\ phase' \in {"generation", "delivery"}
          /\ remaining' \in Int /\ due' \in Int /\ elapsed' \in Nat
      BY <2>1 DEF PDInv, TypeOK
    <3> QED
      BY <3>1, <3>2, <3>3 DEF TypeOK
  <2>3. remaining' <= 0
    BY <1>2, <2>1 DEF PDInv, TypeOK
  <2>4. (remaining + elapsed = Limit)'
    BY <2>1 DEF PDInv, Limit
  <2>5. ~active' /\ ~armed'
    BY <2>1
  <2> QED
    BY <2>2, <2>3, <2>4, <2>5 DEF PDInv
<1> QED
  BY <1>1, <1>2

LEMMA DeadlineNext == PDInv /\ [Next]_vars => PDInv'
<1> SUFFICES ASSUME PDInv, [Next]_vars PROVE PDInv'
  OBVIOUS
<1>1. CASE Progress
  <2>1. CASE remaining <= 0
    BY <1>1, <2>1, CheckPreserves DEF Progress
  <2>2. CASE ~(remaining <= 0)
    BY <1>1, <2>2, DurationAssumption
       DEF Progress, Renew, Scheduled, PDInv, TypeOK, Limit
  <2> QED
    BY <2>1, <2>2
<1>2. CASE BeginDelivery
  <2>1. CASE remaining <= 0
    BY <1>2, <2>1, CheckPreserves DEF BeginDelivery
  <2>2. CASE ~(remaining <= 0)
    BY <1>2, <2>2, DurationAssumption
       DEF BeginDelivery, Renew, Scheduled, PDInv, TypeOK, Limit
  <2> QED
    BY <2>1, <2>2
<1>3. CASE Dispose
  BY <1>3 DEF Dispose, PDInv, TypeOK, Limit
<1>4. CASE Fire
  BY <1>4, CheckPreserves DEF Fire, PDInv
<1>5. CASE Tick
  BY <1>5, DurationAssumption DEF Tick, PDInv, TypeOK, Limit
<1>6. CASE UNCHANGED vars
  BY <1>6 DEF vars, PDInv, TypeOK, Limit
<1> QED
  BY <1>1, <1>2, <1>3, <1>4, <1>5, <1>6 DEF Next

(* The strengthened invariant holds in every behaviour of the watchdog.    *)
THEOREM DeadlineInductive == Spec => []PDInv
<1> QED
  BY DeadlineInit, DeadlineNext, PTL DEF Spec

(* A generation is never aborted early, whatever its timeouts and however  *)
(* early timers run.                                                       *)
THEOREM ExpiryIsNeverEarly == Spec => []NeverEarly
<1>1. PDInv => NeverEarly
  BY DurationAssumption DEF PDInv, TypeOK, NeverEarly, Limit
<1> QED
  BY <1>1, DeadlineInductive, PTL

(* A generation that makes no progress is aborted at most Late after its   *)
(* deadline, for every Late that bounds a single timer.                    *)
THEOREM ExpiryIsNotForgotten == Spec => []NeverForgotten
<1>1. PDInv => NeverForgotten
  BY DurationAssumption DEF PDInv, TypeOK, NeverForgotten, Limit
<1> QED
  BY <1>1, DeadlineInductive, PTL

(* The watchdog's types, and that it expires at most once.                 *)
THEOREM ExpiresOnce == Spec => []TypeOK
<1>1. PDInv => TypeOK
  BY DEF PDInv
<1> QED
  BY <1>1, DeadlineInductive, PTL

(* No action of the watchdog postpones a delivery deadline.                *)
THEOREM DeadlineOfDeliveryIsFixed == Spec => DeliveryIsFixed
<1>1. PDInv /\ [Next]_vars => [phase = "delivery" => phase' = phase /\ remaining' <= remaining]_vars
  <2> SUFFICES ASSUME PDInv, [Next]_vars, phase = "delivery"
               PROVE  phase' = phase /\ remaining' <= remaining
    OBVIOUS
  <2>1. remaining \in Int
    BY DEF PDInv, TypeOK
  <2>2. CASE Dispose
    BY <2>1, <2>2 DEF Dispose
  <2>3. CASE Fire
    BY <2>1, <2>3 DEF Fire, Check, Expire
  <2>4. CASE Tick
    BY <2>1, <2>4 DEF Tick
  <2>5. CASE UNCHANGED vars
    BY <2>1, <2>5 DEF vars
  <2> QED
    BY <2>2, <2>3, <2>4, <2>5 DEF Next, Progress, BeginDelivery
<1> QED
  BY <1>1, DeadlineInductive, PTL DEF Spec, DeliveryIsFixed

-----------------------------------------------------------------------------
(* RetentionClock.                                                         *)

(* The first state satisfies the inductive invariant. *)
LEMMA RetentionInit == RCInit => RCInv
<1> SUFFICES ASSUME RCInit PROVE RCInv
  OBVIOUS
<1>1. RCTypeOK
  <2>1. barrier \in 0..MinIdle
    BY RetentionAssumption DEF RCInit
  <2>2. reclaimed \in BOOLEAN
    BY DEF RCInit
  <2> QED
    BY <2>1, <2>2 DEF RCInit, RCTypeOK
<1>2. AgeFacts /\ up + barrier >= MinIdle
  BY RetentionAssumption DEF RCInit, AgeFacts
<1>3. NotReclaimedEarly /\ RestartPostpones
  BY DEF RCInit, NotReclaimedEarly, RestartPostpones
<1> QED
  BY <1>1, <1>2, <1>3 DEF RCInv

(* So does the state after every step. *)
LEMMA RetentionNext == RCInv /\ [RCNext]_rcVars => RCInv'
<1> SUFFICES ASSUME RCInv, [RCNext]_rcVars PROVE RCInv'
  OBVIOUS
<1> USE DEF RCInv, RCTypeOK, AgeFacts, NotReclaimedEarly, RestartPostpones
<1>1. CASE UNCHANGED rcVars
  BY <1>1 DEF rcVars
<1>2. ASSUME ~reclaimed, Now PROVE RCInv'
  BY <1>2, RetentionAssumption DEF Now, Sample, Discontinuous, Abs, Tolerated
<1>3. ASSUME ~reclaimed, Touch PROVE RCInv'
  BY <1>3, RetentionAssumption DEF Touch, Sample, Discontinuous, Abs
<1>4. ASSUME ~reclaimed, Cleanup PROVE RCInv'
  BY <1>4, RetentionAssumption DEF Cleanup, Sample, Discontinuous, Abs, Tolerated
<1>5. ASSUME ~reclaimed, Restart PROVE RCInv'
  BY <1>5, RetentionAssumption DEF Restart
<1>6. ASSUME ~reclaimed, Pass PROVE RCInv'
  BY <1>6, RetentionAssumption DEF Pass, Remaining
<1>7. ASSUME ~reclaimed, NEW jump \in Jumps, SetWall(jump) PROVE RCInv'
  BY <1>7, RetentionAssumption DEF SetWall
<1> QED
  BY <1>1, <1>2, <1>3, <1>4, <1>5, <1>6, <1>7 DEF RCNext

(* The strengthened invariant, which ties the payload's apparent age to    *)
(* its idle time or to the barrier, always holds.                          *)
THEOREM RetentionInductive == RCSpec => []RCInv
BY RetentionInit, RetentionNext, PTL DEF RCSpec

(* Whatever the wall clock, restarts and touches do, reclamation (cleanup  *)
(* with RetentionClock.deletionCutoff) waits for the minimum of idle time, *)
(* less the small steps that passed unnoticed.                             *)
THEOREM ReclaimedWhenIdle == RCSpec => []NotReclaimedEarly
<1>1. RCInv => NotReclaimedEarly
  BY DEF RCInv
<1> QED
  BY <1>1, RetentionInductive, PTL

(* A started process reclaims nothing before it ran for the minimum of     *)
(* idle time.                                                              *)
THEOREM ReclaimedWhenUp == RCSpec => []RestartPostpones
<1>1. RCInv => RestartPostpones
  BY DEF RCInv
<1> QED
  BY <1>1, RetentionInductive, PTL

-----------------------------------------------------------------------------
(* SseWriter.                                                              *)

(* The first state satisfies the inductive invariant. *)
LEMMA WriterInit == SWInit => SWInv
<1> SUFFICES ASSUME SWInit PROVE SWInv
  OBVIOUS
<1>1. stopped \in BOOLEAN /\ timer \in BOOLEAN /\ failure \in BOOLEAN
  BY DEF SWInit
<1>2. frames \in 0..Frames /\ reports \in 0..1
  BY FramesAssumption DEF SWInit
<1> QED
  BY <1>1, <1>2 DEF SWInit, SWInv, SWTypeOK, OneWriteAtATime, Blocked

(* A failure stops the keepalives, and is reported by its first call only. *)
LEMMA FailReportsOnce ==
  ASSUME SWInv, NEW calls, Fail(calls)
  PROVE  /\ failure' /\ stopped' /\ ~timer'
         /\ stopped' \in BOOLEAN /\ timer' \in BOOLEAN /\ failure' \in BOOLEAN
         /\ reports' = 1 /\ reports' \in 0..1
<1>1. reports' = 1
  BY DEF Fail, Reports, SWInv, SWTypeOK
<1>2. reports' \in 0..1
  BY <1>1
<1> QED
  BY <1>1, <1>2 DEF Fail, Stopped

(* A socket that fails rejects the writes that are under way. *)
LEMMA FailureInvariant ==
  ASSUME SWInv, NEW calls, Fail(calls), Rejected, response' \in {"closed", "destroyed"}
  PROVE  SWInv'
<1>1. heartbeat' = "none" /\ main' \in {"none", "failed"} /\ frames' = frames /\ last' = last
  BY DEF Rejected, SWInv, SWTypeOK
<1> QED
  BY <1>1, FailReportsOnce DEF SWInv, SWTypeOK, OneWriteAtATime, Blocked

(* A frame is submitted, or finds the end of the response, when nothing    *)
(* else is being written.                                                  *)
LEMMA PublishInvariant ==
  ASSUME SWInv, NEW clogs \in BOOLEAN, Publish(clogs), heartbeat' = "none",
         ~failure, frames > 0, response \in {"clogged", "destroyed", "ended", "closed"} \/ ~Blocked
  PROVE  SWInv'
<1> USE DEF SWInv, SWTypeOK
<1>1. CASE Disconnected
  <2>1. Fail(1) /\ response' \in {"closed", "destroyed"} /\ main' = "failed" /\ frames' = frames /\ last' = last
    BY <1>1 DEF Publish, Disconnected, Destroyed
  <2> QED
    BY <2>1, FailReportsOnce DEF OneWriteAtATime, Blocked
<1>2. CASE ~Disconnected
  <2>1. frames' \in 0..Frames
    BY <1>2, FramesAssumption DEF Publish
  <2> QED
    BY <1>2, <2>1 DEF Publish, Submit, BeatScheduled, OneWriteAtATime, Blocked
<1> QED
  BY <1>1, <1>2

(* So does the state after every step. *)
LEMMA WriterNext == SWInv /\ [SWNext]_swVars => SWInv'
<1> SUFFICES ASSUME SWInv, [SWNext]_swVars PROVE SWInv'
  OBVIOUS
<1>1. ASSUME NEW clogs \in BOOLEAN, Write(clogs) PROVE SWInv'
  <2>1. CASE failure \/ heartbeat = "blocked"
    BY <1>1, <2>1 DEF Write, SWInv, SWTypeOK, OneWriteAtATime, Blocked
  <2>2. CASE ~failure /\ heartbeat # "blocked"
    <3>1. Publish(clogs) /\ frames > 0 /\ ~Blocked /\ heartbeat' = "none"
      BY <1>1, <2>2 DEF Write, Blocked, SWInv, SWTypeOK
    <3> QED
      BY <2>2, <3>1, PublishInvariant
  <2> QED
    BY <2>1, <2>2
<1>2. ASSUME NEW clogs \in BOOLEAN, Beat(clogs) PROVE SWInv'
  BY <1>2 DEF Beat, Submit, BeatScheduled, SWInv, SWTypeOK, OneWriteAtATime, Blocked
<1>3. ASSUME NEW clogs \in BOOLEAN, Drain(clogs) PROVE SWInv'
  <2>1. CASE main = "waiting"
    <3>1. Publish(clogs) /\ frames > 0 /\ ~failure /\ heartbeat' = "none" /\ response = "clogged"
      BY <1>3, <2>1 DEF Drain, SWInv
    <3> QED
      BY <3>1, PublishInvariant
  <2>2. CASE main # "waiting"
    BY <1>3, <2>2 DEF Drain, SWInv, SWTypeOK, OneWriteAtATime, Blocked
  <2> QED
    BY <2>1, <2>2
<1>4. CASE OwnerStops
  BY <1>4 DEF OwnerStops, Stopped, SWInv, SWTypeOK, OneWriteAtATime, Blocked
<1>5. CASE End
  BY <1>5 DEF End, SWInv, SWTypeOK, OneWriteAtATime, Blocked
<1>6. CASE TickFindsEnd
  BY <1>6 DEF TickFindsEnd, Stopped, SWInv, SWTypeOK, OneWriteAtATime, Blocked
<1>7. CASE WriteTimesOut
  BY <1>7, FailureInvariant DEF WriteTimesOut, Destroyed
<1>8. CASE Destroy
  BY <1>8 DEF Destroy, SWInv, SWTypeOK, OneWriteAtATime, Blocked
<1>9. CASE ResponseCloses
  <2>1. CASE Blocked
    BY <1>9, <2>1, FailureInvariant DEF ResponseCloses
  <2>2. CASE ~Blocked
    <3>1. main' \in {"none", "failed"} /\ heartbeat' = "none" /\ frames' = frames /\ last' = last
      BY <1>9, <2>2 DEF ResponseCloses, Rejected, SWInv, SWTypeOK
    <3>2. stopped' \in BOOLEAN /\ timer' \in BOOLEAN /\ stopped' /\ ~timer'
      BY <1>9, <2>2 DEF ResponseCloses, Stopped
    <3>3. failure' = failure /\ reports' = reports /\ response' = "closed"
      BY <1>9, <2>2 DEF ResponseCloses
    <3> QED
      BY <3>1, <3>2, <3>3 DEF SWInv, SWTypeOK, OneWriteAtATime, Blocked
  <2> QED
    BY <2>1, <2>2
<1>10. CASE SocketError
  BY <1>10, FailureInvariant DEF SocketError, Destroyed
<1>11. CASE UNCHANGED swVars
  BY <1>11 DEF swVars, SWInv, SWTypeOK, OneWriteAtATime, Blocked
<1> QED
  BY <1>1, <1>2, <1>3, <1>4, <1>5, <1>6, <1>7, <1>8, <1>9, <1>10, <1>11 DEF SWNext

(* The armed timer, the reported failure and the frame that waits: the     *)
(* facts the others rest on.                                               *)
THEOREM WriterInductive == SWSpec => []SWInv
BY WriterInit, WriterNext, PTL DEF SWSpec

(* The writer's types, and that an error is reported at most once.         *)
THEOREM ReportsOnce == SWSpec => []SWTypeOK
<1>1. SWInv => SWTypeOK
  BY DEF SWInv
<1> QED
  BY <1>1, WriterInductive, PTL

(* A keepalive and a frame never wait for the same drain, and nothing is   *)
(* written into a clogged socket.                                          *)
THEOREM WritesOneAtATime == SWSpec => []OneWriteAtATime
<1>1. SWInv => OneWriteAtATime
  BY DEF SWInv
<1> QED
  BY <1>1, WriterInductive, PTL

(* Nothing is written after a failure, and no keepalive after a stop.      *)
THEOREM EndIsTheEnd == SWSpec => NothingAfterTheEnd
<1>1. SWInv /\ [SWNext]_swVars =>
        [(failure => UNCHANGED last) /\ (stopped => last' = last \/ last' # "keepalive")]_swVars
  <2> SUFFICES ASSUME SWInv, [SWNext]_swVars
               PROVE  (failure => UNCHANGED last) /\ (stopped => last' = last \/ last' # "keepalive")
    OBVIOUS
  <2>1. ASSUME NEW clogs \in BOOLEAN, Write(clogs) PROVE (failure => UNCHANGED last) /\ last' \in {last, "frame"}
    BY <2>1 DEF Write, Publish, Submit
  <2>2. ASSUME NEW clogs \in BOOLEAN, Beat(clogs) PROVE ~failure /\ ~stopped
    BY <2>2 DEF Beat, SWInv
  <2>3. ASSUME NEW clogs \in BOOLEAN, Drain(clogs) PROVE (failure => UNCHANGED last) /\ last' \in {last, "frame"}
    BY <2>3 DEF Drain, Publish, Submit, SWInv
  <2>4. CASE OwnerStops \/ End \/ TickFindsEnd \/ Destroy
    BY <2>4 DEF OwnerStops, End, TickFindsEnd, Destroy
  <2>5. CASE WriteTimesOut \/ ResponseCloses \/ SocketError
    BY <2>5 DEF WriteTimesOut, ResponseCloses, SocketError, Rejected
  <2>6. CASE UNCHANGED swVars
    BY <2>6 DEF swVars
  <2> QED
    BY <2>1, <2>2, <2>3, <2>4, <2>5, <2>6 DEF SWNext
<1> QED
  BY <1>1, WriterInductive, PTL DEF SWSpec, NothingAfterTheEnd

-----------------------------------------------------------------------------
(* RelayShutdown.                                                          *)

(* The first state satisfies the inductive invariant. *)
LEMMA ShutdownInit == RSInit => RSInv
BY DEF RSInit, RSInv, RSTypeOK, StoreClosesCleanly

(* The admin server's connections do not touch the backup. *)
LEMMA AdminInvariant ==
  ASSUME RSInv, StartAdmin \/ AdminStarted \/ \E c \in Clients : Connect(c) \/ Leave(c) \/ AskForSnapshot(c)
  PROVE  RSInv'
<1> USE DEF RSInv, RSTypeOK, StoreClosesCleanly, closeVars
<1>1. CASE StartAdmin
  BY <1>1 DEF StartAdmin
<1>2. CASE AdminStarted
  BY <1>2 DEF AdminStarted
<1>3. ASSUME NEW c \in Clients, Connect(c) PROVE RSInv'
  BY <1>3 DEF Connect
<1>4. ASSUME NEW c \in Clients, Leave(c) PROVE RSInv'
  BY <1>4 DEF Leave
<1>5. ASSUME NEW c \in Clients, AskForSnapshot(c) PROVE RSInv'
  BY <1>5 DEF AskForSnapshot
<1> QED
  BY <1>1, <1>2, <1>3, <1>4, <1>5

(* A snapshot begins only while the ledger is open, and ends with its      *)
(* file published or removed.                                              *)
LEMMA SnapshotInvariant ==
  ASSUME RSInv, CallSnapshot \/ CreateSnapshot \/ StartBackup \/ BackupFails \/ BackupEnds \/ StoreFails
  PROVE  RSInv'
<1> USE DEF RSInv, RSTypeOK, StoreClosesCleanly, closeVars
<1>1. CASE CallSnapshot
  BY <1>1 DEF CallSnapshot, MayCreate
<1>2. CASE CreateSnapshot
  BY <1>2 DEF CreateSnapshot, MayCreate
<1>3. CASE StartBackup
  BY <1>3 DEF StartBackup, Settle
<1>4. CASE BackupFails \/ BackupEnds
  BY <1>4 DEF BackupFails, BackupEnds, Settle
<1>5. CASE StoreFails
  BY <1>5 DEF StoreFails
<1> QED
  BY <1>1, <1>2, <1>3, <1>4, <1>5

(* So does the state after every step. *)
LEMMA ShutdownNext == RSInv /\ [RSNext]_rsVars => RSInv'
<1> SUFFICES ASSUME RSInv, [RSNext]_rsVars PROVE RSInv'
  OBVIOUS
<1> USE DEF RSInv, RSTypeOK, StoreClosesCleanly
<1>1. CASE Close \/ CloseAdmin \/ AdminClosed \/ ServerCloses \/ ServerAwaited
  <2>1. CASE Close
    BY <1>1, <2>1 DEF Close, CloseRelay
  <2>2. CASE CloseAdmin
    BY <1>1, <2>2 DEF CloseAdmin
  <2>3. CASE AdminClosed
    BY <1>1, <2>3 DEF AdminClosed
  <2>4. CASE ServerCloses \/ ServerAwaited
    BY <1>1, <2>4 DEF ServerCloses, ServerAwaited
  <2> QED
    BY <1>1, <2>1, <2>2, <2>3, <2>4
<1>2. CASE CloseStore
  BY <1>2 DEF CloseStore, InspectionAwaited
<1>3. CASE StopTunnel \/ Listen \/ Listening \/ TunnelOnline \/ TunnelFails
  BY <1>3 DEF StopTunnel, Listen, Listening, TunnelOnline, TunnelFails, CloseRelay
<1>4. CASE UNCHANGED rsVars
  BY <1>4 DEF rsVars
<1> QED
  BY <1>1, <1>2, <1>3, <1>4, AdminInvariant, SnapshotInvariant DEF RSNext

(* Types, the admin server's count of snapshots and the snapshot's file.   *)
THEOREM TypeCorrect == RSSpec => []RSTypeOK
<1>1. RSInv => RSTypeOK
  BY DEF RSInv
<1> QED
  BY <1>1, ShutdownInit, ShutdownNext, PTL DEF RSSpec

(* The ledger is never closed under a snapshot, and its close never        *)
(* refuses.                                                                *)
THEOREM ClosesCleanly == RSSpec => []StoreClosesCleanly
<1>1. RSInv => StoreClosesCleanly
  BY DEF RSInv
<1> QED
  BY <1>1, ShutdownInit, ShutdownNext, PTL DEF RSSpec

(* No snapshot begins behind close().                                      *)
THEOREM NoneBegins == RSSpec => NoneBeginsAfterStop
<1>1. [RSNext]_rsVars => [closed /\ pending = "none" => pending' = "none"]_rsVars
  <2> SUFFICES ASSUME [RSNext]_rsVars, closed, pending = "none" PROVE pending' = "none"
    OBVIOUS
  <2>1. CASE StartAdmin \/ AdminStarted \/ \E c \in Clients : Connect(c) \/ Leave(c) \/ AskForSnapshot(c)
    BY <2>1 DEF StartAdmin, AdminStarted, Connect, Leave, AskForSnapshot
  <2>2. CASE CallSnapshot \/ CreateSnapshot
    BY <2>2 DEF CallSnapshot, CreateSnapshot, MayCreate
  <2>3. CASE StartBackup \/ BackupFails \/ BackupEnds \/ StoreFails
    BY <2>3 DEF StartBackup, BackupFails, BackupEnds, StoreFails
  <2>4. CASE Close \/ CloseAdmin \/ AdminClosed \/ ServerCloses \/ ServerAwaited \/ CloseStore
    BY <2>4 DEF Close, CloseRelay, CloseAdmin, AdminClosed, ServerCloses, ServerAwaited, CloseStore
  <2>5. CASE StopTunnel \/ Listen \/ Listening \/ TunnelOnline \/ TunnelFails
    BY <2>5 DEF StopTunnel, Listen, Listening, TunnelOnline, TunnelFails, CloseRelay
  <2>6. CASE UNCHANGED rsVars
    BY <2>6 DEF rsVars
  <2> QED
    BY <2>1, <2>2, <2>3, <2>4, <2>5, <2>6 DEF RSNext
<1> QED
  BY <1>1, PTL DEF RSSpec, NoneBeginsAfterStop

=============================================================================
