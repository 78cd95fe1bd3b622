---------------------------- MODULE RetentionClock ----------------------------
(***************************************************************************)
(* When an idle payload may be reclaimed.  Payloads are stamped with the   *)
(* wall clock, which people and daemons set; the retention clock compares  *)
(* it with the monotonic clock each time it is read, and starts a deletion *)
(* barrier anew whenever the two disagree, and whenever a process starts.  *)
(*                                                                         *)
(* One payload is followed until it is reclaimed.  Times are relative to   *)
(* the present: they change as time passes.  That the process is down for  *)
(* a while is time passing, unread, before it is started again.            *)
(***************************************************************************)
EXTENDS Integers

CONSTANTS
  MinIdle, \* MIN_IDLE_MS
  Idle,    \* idleMs, what is configured but MinIdle at least
  Drift,   \* MAX_CLOCK_DRIFT_MS
  Jumps,   \* how the wall clock may be set forward or back
  Horizon  \* bound: times and deviations are followed this far

ASSUME RetentionAssumption ==
  /\ MinIdle \in Nat /\ Idle \in Nat /\ MinIdle <= Idle
  /\ Drift \in Nat
  /\ Jumps \subseteq Int

VARIABLES
  barrier,   \* barrierRemainingMs, from the present monotonic time
  gone,      \* monotonic time since the last sample
  ahead,     \* what the wall clock gained on it since then
  age,       \* the wall clock minus the payload's touched_at
  reclaimed,
  idle,      \* history: monotonic time since the last touch
  slack,     \* history: sum of the gains that were let pass since then
  up         \* history: time since the process started

rcVars == <<barrier, gone, ahead, age, reclaimed, idle, slack, up>>

-----------------------------------------------------------------------------

Abs(n) == IF n < 0 THEN -n ELSE n

BackwardOnly == gone + ahead < 0

(* The wall clock went back, or the clocks disagree too much. *)
Discontinuous == gone + ahead < 0 \/ Abs(ahead) > Drift

(* History: what a sample may let pass. *)
Tolerated == IF ahead \in 1..Drift THEN ahead ELSE 0

(* sample, the first thing every reader of the clock does. *)
Sample ==
  /\ barrier' = IF Discontinuous THEN MinIdle ELSE barrier
  /\ gone' = 0
  /\ ahead' = 0

(* now(), for a stamp of something else or an operation that fails. *)
Now ==
  /\ Sample
  /\ slack' = slack + Tolerated
  /\ UNCHANGED <<age, reclaimed, idle, up>>

(* touched_at = max(touched_at, now()) *)
Touch ==
  /\ Sample
  /\ age' = IF age > 0 THEN 0 ELSE age
  /\ idle' = 0
  /\ slack' = 0
  /\ UNCHANGED <<reclaimed, up>>

(* cleanup, with nothing else keeping the payload (see ReplayStore): no      *)
(* cutoff while the barrier stands, then it must be stamped before that.    *)
Cleanup ==
  /\ Sample
  /\ slack' = slack + Tolerated
  /\ reclaimed' = (barrier' = 0 /\ age >= Idle)
  /\ UNCHANGED <<age, idle, up>>

RestartKeepingBarrier ==
  /\ gone' = 0 /\ ahead' = 0
  /\ up' = 0
  /\ UNCHANGED <<barrier, age, reclaimed, idle, slack>>

(* The constructor. *)
Restart ==
  /\ barrier' = MinIdle
  /\ gone' = 0 /\ ahead' = 0
  /\ up' = 0
  /\ UNCHANGED <<age, reclaimed, idle, slack>>

Remaining(n) == IF n > 0 THEN n - 1 ELSE 0

(* External: time passes ... *)
Pass ==
  /\ idle < Horizon /\ up < Horizon
  /\ barrier' = Remaining(barrier)
  /\ gone' = gone + 1
  /\ age' = age + 1
  /\ idle' = idle + 1
  /\ up' = up + 1
  /\ UNCHANGED <<ahead, reclaimed, slack>>

(* ... and the wall clock is set. *)
SetWall(jump) ==
  /\ slack + Abs(ahead + jump) <= Horizon /\ Abs(age + jump) <= Horizon
  /\ ahead' = ahead + jump
  /\ age' = age + jump
  /\ UNCHANGED <<barrier, gone, reclaimed, idle, slack, up>>

RCInit ==
  /\ barrier = MinIdle
  /\ gone = 0 /\ ahead = 0
  /\ age = 0
  /\ reclaimed = FALSE
  /\ idle = 0 /\ slack = 0 /\ up = 0

RCNext ==
  /\ ~reclaimed
  /\ \/ Now \/ Touch \/ Cleanup \/ Restart \/ Pass
     \/ \E jump \in Jumps : SetWall(jump)

RCSpec == RCInit /\ [][RCNext]_rcVars

-----------------------------------------------------------------------------

(* Types; the barrier never stands longer than its fixed time. *)
RCTypeOK ==
  /\ barrier \in 0..MinIdle
  /\ gone \in Nat /\ ahead \in Int /\ age \in Int
  /\ reclaimed \in BOOLEAN
  /\ idle \in Nat /\ slack \in Nat /\ up \in Nat

(* A payload is reclaimed only after the minimum of idle time, less what   *)
(* the wall clock gained in steps too small to be taken for a jump,        *)
(* whatever jumps, restarts and touches came before.                       *)
NotReclaimedEarly == reclaimed => idle + slack >= MinIdle

(* Every restart postpones reclamation by the minimum of idle time, even   *)
(* if the wall clock was set forward while the process was down.           *)
RestartPostpones == reclaimed => up >= MinIdle

(* What the documentation says without the allowance for small steps. *)
IdleWhenReclaimed == reclaimed => idle >= MinIdle

(* The strengthening: a payload that looks older than it is idle was not   *)
(* touched since the barrier began.                                        *)
AgeFacts ==
  \/ idle + barrier >= MinIdle
  \/ age <= idle + slack + ahead

RCInv ==
  /\ RCTypeOK
  /\ AgeFacts
  /\ up + barrier >= MinIdle
  /\ NotReclaimedEarly
  /\ RestartPostpones

=============================================================================
