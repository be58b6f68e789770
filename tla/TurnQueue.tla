------------------------------ MODULE TurnQueue ------------------------------
(***************************************************************************)
(* The durable per-chat queue of src/agent_server.py: QUEUED_TURNS,        *)
(* RUN_NOW_TURNS, STEERING_SESSIONS and the events of one chat's           *)
(* events.jsonl that rebuild them after a restart.  One chat is modelled:  *)
(* the queue state of two chats is disjoint.                               *)
(*                                                                         *)
(* A critical section of QUEUE_LOCK is one action, the fsynced append it   *)
(* awaits included (nobody else can touch the queue meanwhile, and a crash *)
(* before or after the fsync is a crash before or after the action); the   *)
(* awaits outside the lock are the places where the others interleave.     *)
(***************************************************************************)
EXTENDS Queues

CONSTANTS
    Users,        \* queued ids of ordinary user messages
    Deliveries,   \* queued ids of cross-chat / secure-peer deliveries
    NoRow,        \* "no queue row"
    MaxCrashes,   \* bound: process crashes
    MaxStops,     \* bound: explicit Stops
    MaxMoves,     \* bound: user reorders
    MaxForces     \* bound: Force Send requests that detach a row

Rows == Users \cup Deliveries

ASSUME RowsAssumption == NoRow \notin Rows /\ Users \cap Deliveries = {}
ASSUME BoundsAssumption ==
    /\ MaxCrashes \in Nat /\ MaxStops \in Nat /\ MaxMoves \in Nat
    /\ MaxForces \in Nat

VARIABLES
    up,           \* the process runs and startup queue recovery has finished
    queue,        \* QUEUED_TURNS[sid]
    runNow,       \* RUN_NOW_TURNS[sid]
    steering,     \* sid \in STEERING_SESSIONS
    provisional,  \* rows whose "_durable" is False
    paused,       \* rows with "_paused_after_stop"
    fenced,       \* rows with "_native_delivery_fenced"
    promo,        \* the QUEUE_START_TASKS owner and the row it popped
    force,        \* the RUN_NOW_REQUESTS owner and the row it detached
    waiter,       \* a live STEERING_WAIT_TASKS entry
    slot,         \* BUSY_SESSIONS / ACTIVE of the chat
    stop,         \* the explicit Stop operation
    wake,         \* a scheduled start_next_queued_turn task not yet begun
    retry,        \* the QUEUE_RETRY_TASKS timer
    log,          \* what scan_queued_turns_from_events makes of events.jsonl
    fresh,        \* queued ids not yet used
    launches,     \* how often a provider was handed the row's message
    burnt,        \* rows consumed by a turn_started whose launch then failed
    held,         \* rows under a durable Stop hold nobody released since
    used          \* the counters behind the bounds

mem   == <<queue, runNow, steering, provisional, paused, fenced>>
ghost == <<fresh, launches, burnt, held>>
vars  == <<up, mem, promo, force, waiter, slot, stop, wake, retry, log, ghost, used>>

NoPromo == [pc |-> "idle", row |-> NoRow]
NoForce == [pc |-> "idle", row |-> NoRow, idx |-> 1, pred |-> NoRow,
            succ |-> NoRow, wasPaused |-> FALSE]
EmptyLog == [order |-> <<>>, paused |-> {}, fenced |-> {}]

-----------------------------------------------------------------------------
(* The journal reducer: one operator per event type, from log to log.      *)

LogQueued(l, r) ==
    [order  |-> IF r \in ToSet(l.order) THEN l.order ELSE Append(l.order, r),
     paused |-> l.paused \ {r},
     fenced |-> l.fenced \ {r}]

LogRemoved(l, r) ==
    [order |-> Without(l.order, r), paused |-> l.paused \ {r},
     fenced |-> l.fenced \ {r}]

LogRunNow(l, r) ==
    IF r \in ToSet(l.order)
    THEN [order |-> <<r>> \o Without(l.order, r), paused |-> l.paused \ {r},
          fenced |-> l.fenced \ {r}]
    ELSE l

LogPaused(l, S) ==
    [l EXCEPT !.paused = @ \cup (S \cap ToSet(l.order))]

LogFenced(l, r, position) ==
    [order  |-> IF r \in ToSet(l.order) THEN l.order
                ELSE InsertAt(l.order, AtMost(position, Len(l.order) + 1), r),
     paused |-> l.paused \cup {r},
     fenced |-> l.fenced \cup {r}]

-----------------------------------------------------------------------------
Promos == [pc : {"idle", "popped", "reserved", "started"}, row : Rows \cup {NoRow}]
Forces == [pc : {"idle", "handoff", "queued", "accepted", "fenced", "delivered",
                 "selected", "stopping"},
           row : Rows \cup {NoRow}, idx : Nat \ {0}, pred : Rows \cup {NoRow},
           succ : Rows \cup {NoRow}, wasPaused : BOOLEAN]
Logs   == [order : Seq(Rows), paused : SUBSET Rows, fenced : SUBSET Rows]
Counts == [crashes : Nat, stops : Nat, moves : Nat, forces : Nat]

TypeOK ==
    /\ up \in BOOLEAN /\ steering \in BOOLEAN /\ waiter \in BOOLEAN /\ wake \in BOOLEAN
    /\ queue \in Seq(Rows)
    /\ runNow \in Rows \cup {NoRow}
    /\ provisional \subseteq Rows /\ paused \subseteq Rows /\ fenced \subseteq Rows
    /\ promo \in Promos
    /\ force \in Forces
    /\ slot \in {"free", "reserved", "running", "ready", "stopping"}
    /\ stop \in {"none", "admitted", "paused"}
    /\ retry \in {"none", "sleeping", "firing"}
    /\ log \in Logs
    /\ fresh \subseteq Rows /\ burnt \subseteq Rows /\ held \subseteq Rows
    /\ launches \in [Rows -> Nat]
    /\ used \in Counts

Init ==
    /\ up = TRUE
    /\ queue = <<>> /\ runNow = NoRow /\ steering = FALSE
    /\ provisional = {} /\ paused = {} /\ fenced = {}
    /\ promo = NoPromo /\ force = NoForce /\ waiter = FALSE
    /\ slot = "free" /\ stop = "none" /\ wake = FALSE /\ retry = "none"
    /\ log = EmptyLog
    /\ fresh = Rows /\ launches = [r \in Rows |-> 0] /\ burnt = {} /\ held = {}
    /\ used = [crashes |-> 0, stops |-> 0, moves |-> 0, forces |-> 0]

(* session_lifecycle_lock: a promotion holds it from the pop to the launch,*)
(* a non-native Force Send from the selection to the commit.               *)
LifecycleFree == promo.pc = "idle" /\ force.pc \notin {"selected", "stopping"}

(* Everything a new message must queue behind. *)
Occupied ==
    \/ slot # "free" \/ stop # "none" \/ steering
    \/ queue # <<>> \/ runNow # NoRow \/ promo.pc # "idle"

-----------------------------------------------------------------------------
(* Intake and edits of the visible queue. *)

(* enqueue_turn: the row and its fsynced turn_queued event. *)
Enqueue(r) ==
    /\ up /\ LifecycleFree /\ r \in fresh
    /\ fresh' = fresh \ {r}
    /\ queue' = Append(queue, r)
    /\ log' = LogQueued(log, r)
    /\ wake' = (wake \/ slot = "free")
    /\ UNCHANGED <<up, runNow, steering, provisional, paused, fenced, promo,
                   force, waiter, slot, stop, retry, launches, burnt, held, used>>

(* A delivery whose ledger owner ended after turn_queued was fsynced: the  *)
(* event is compensated by turn_unqueued and the row never becomes visible.*)
EnqueueRevoked(r) ==
    /\ up /\ LifecycleFree /\ r \in fresh \cap Deliveries
    /\ fresh' = fresh \ {r}
    /\ log' = LogRemoved(LogQueued(log, r), r)
    /\ UNCHANGED <<up, mem, promo, force, waiter, slot, stop, wake, retry,
                   launches, burnt, held, used>>

(* start_turn with nothing ahead of it: the message never enters the queue.*)
DirectTurn ==
    /\ up /\ LifecycleFree /\ ~Occupied
    /\ slot' = "running"
    /\ UNCHANGED <<up, mem, promo, force, waiter, stop, wake, retry, log, ghost, used>>

UnqueueTurn(r) ==
    /\ up /\ r \in ToSet(queue) \ Deliveries
    /\ queue' = Without(queue, r)
    /\ log' = LogRemoved(log, r)
    /\ held' = held \ {r}
    /\ UNCHANGED <<up, runNow, steering, provisional, paused, fenced, promo, force,
                   waiter, slot, stop, wake, retry, fresh, launches, burnt, used>>

(* move_queued_turn: a move past either end keeps the order and is logged. *)
MoveQueuedTurn ==
    /\ up /\ queue # <<>> /\ used.moves < MaxMoves
    /\ \/ queue' = queue
       \/ \E i \in 1..(Len(queue) - 1) : queue' = Swap(queue, i)
    /\ \E t \in Reorderings(log.order, queue') : log' = [log EXCEPT !.order = t]
    /\ used' = [used EXCEPT !.moves = @ + 1]
    /\ UNCHANGED <<up, runNow, steering, provisional, paused, fenced, promo, force,
                   waiter, slot, stop, wake, retry, ghost>>

-----------------------------------------------------------------------------
(* Promotion: start_next_queued_turn and _start_next_queued_turn_locked.   *)

(* A start_next_queued_turn task begins: a scheduled one, or the retry     *)
(* timer's.  The timer's task is then itself the promotion owner.          *)
Begin ==
    /\ up /\ LifecycleFree
    /\ \/ wake /\ wake' = FALSE /\ UNCHANGED retry
       \/ retry = "firing" /\ retry' = "none" /\ UNCHANGED wake

(* Fault: the Stop hold is not consulted. *)
StartableIgnoringHold(r) == r \notin provisional

Startable(r) == r \notin provisional /\ r \notin paused

(* The promoted row, else the head of the queue. *)
Candidate == IF runNow # NoRow THEN runNow
             ELSE IF queue # <<>> THEN Head(queue) ELSE NoRow

PromotionFenced == stop # "none" \/ steering

(* Nothing may start: a fence, an empty queue, or a row that must wait. *)
PromoteNothing ==
    /\ Begin
    /\ \/ PromotionFenced
       \/ Candidate = NoRow
       \/ Candidate \in provisional \ paused
       \/ runNow = NoRow /\ Candidate \in paused
    /\ UNCHANGED <<up, mem, promo, force, waiter, slot, stop, log, ghost, used>>

(* Fault: the promoted row is listed again and stays promoted. *)
ReturnPausedPromotionTwice ==
    /\ Begin /\ ~PromotionFenced
    /\ runNow # NoRow /\ runNow \in paused
    /\ queue' = (IF runNow \in ToSet(queue) THEN queue ELSE <<runNow>> \o queue)
    /\ UNCHANGED <<up, runNow, steering, provisional, paused, fenced, promo, force,
                   waiter, slot, stop, log, ghost, used>>

(* A Stop that landed after the promotion wins: back to the visible queue. *)
ReturnPausedPromotion ==
    /\ Begin /\ ~PromotionFenced
    /\ runNow # NoRow /\ runNow \in paused
    /\ queue' = (IF runNow \in ToSet(queue) THEN queue ELSE <<runNow>> \o queue)
    /\ runNow' = NoRow
    /\ UNCHANGED <<up, steering, provisional, paused, fenced, promo, force, waiter,
                   slot, stop, log, ghost, used>>

PopNext ==
    /\ Begin /\ ~PromotionFenced
    /\ Candidate # NoRow /\ Startable(Candidate)
    /\ promo' = [pc |-> "popped", row |-> Candidate]
    /\ IF runNow # NoRow
       THEN runNow' = NoRow /\ queue' = queue
       ELSE queue' = Tail(queue) /\ runNow' = runNow
    /\ UNCHANGED <<up, steering, provisional, paused, fenced, force, waiter, slot,
                   stop, log, ghost, used>>

(* A second task finds a live QUEUE_START_TASKS owner and returns. *)
PromotionAlreadyOwned ==
    /\ up /\ promo.pc # "idle"
    /\ \/ wake /\ wake' = FALSE /\ UNCHANGED retry
       \/ retry = "firing" /\ retry' = "none" /\ UNCHANGED wake
    /\ UNCHANGED <<up, mem, promo, force, waiter, slot, stop, log, ghost, used>>

(* retry_next_queued_turn_later wakes and enters start_next_queued_turn. *)
RetryTimer ==
    /\ up /\ retry = "sleeping" /\ retry' = "firing"
    /\ UNCHANGED <<up, mem, promo, force, waiter, slot, stop, wake, log, ghost, used>>

(* _start_turn_locked reserves the slot ... *)
Reserve ==
    /\ up /\ promo.pc = "popped" /\ slot = "free"
    /\ slot' = "reserved"
    /\ promo' = [promo EXCEPT !.pc = "reserved"]
    /\ UNCHANGED <<up, mem, force, waiter, stop, wake, retry, log, ghost, used>>

(* ... persists the acceptance (turn_started consumes the queue row) ... *)
PersistTurnAcceptance ==
    /\ up /\ promo.pc = "reserved"
    /\ log' = LogRemoved(log, promo.row)
    /\ promo' = [promo EXCEPT !.pc = "started"]
    /\ UNCHANGED <<up, mem, force, waiter, slot, stop, wake, retry, ghost, used>>

(* ... and hands the message to a provider task. *)
Launch ==
    /\ up /\ promo.pc = "started"
    /\ slot' = "running"
    /\ launches' = [launches EXCEPT ![promo.row] = @ + 1]
    /\ promo' = NoPromo
    /\ UNCHANGED <<up, mem, force, waiter, stop, wake, retry, log, fresh, burnt,
                   held, used>>

(* What every failed attempt does to the slot and to the books: a row      *)
(* whose turn_started was already fsynced is gone from the journal.        *)
AbandonAttempt ==
    /\ slot' = (IF promo.pc = "popped" THEN slot ELSE "free")
    /\ promo' = NoPromo

(* Fault: requeues from RUN_NOW_TURNS, which the pop has cleared. *)
RequeueClearedRow == queue' = <<runNow>> \o queue /\ UNCHANGED burnt

RequeueTurnFront ==
    /\ queue' = <<promo.row>> \o queue
    /\ burnt' = (IF promo.pc = "started" THEN burnt \cup {promo.row} ELSE burnt)

(* schedule_queued_turn_retry: at most one timer task at a time. *)
ScheduleRetry == retry' = (IF retry = "none" THEN "sleeping" ELSE retry)

(* A wait state, a failed write or an unexpected exception: the row goes   *)
(* back to the front and a retry is armed.                                 *)
DeferPromotion ==
    /\ up /\ promo.pc # "idle"
    /\ AbandonAttempt /\ RequeueTurnFront /\ ScheduleRetry
    /\ UNCHANGED <<up, runNow, steering, provisional, paused, fenced, force, waiter,
                   stop, wake, log, fresh, launches, held, used>>

(* Fault: the cancelled task forgets the row it popped. *)
CancelDropsRow ==
    /\ up /\ promo.pc # "idle"
    /\ AbandonAttempt
    /\ UNCHANGED <<up, mem, force, waiter, stop, wake, retry, log, ghost, used>>

(* The promotion task is cancelled: the row goes back, nothing is armed. *)
CancelPromotion ==
    /\ up /\ promo.pc # "idle"
    /\ AbandonAttempt /\ RequeueTurnFront
    /\ UNCHANGED <<up, runNow, steering, provisional, paused, fenced, force, waiter,
                   stop, wake, retry, log, fresh, launches, held, used>>

(* terminally_discard_queued_turn: the fsynced removal, then the next row; *)
(* if the removal cannot be written the row goes back.                     *)
DiscardPromotion ==
    /\ up /\ promo.pc # "idle" /\ AbandonAttempt
    /\ \/ /\ log' = LogRemoved(log, promo.row)
          /\ wake' = TRUE
          /\ UNCHANGED <<queue, burnt>>
       \/ RequeueTurnFront /\ UNCHANGED <<log, wake>>
    /\ UNCHANGED <<up, runNow, steering, provisional, paused, fenced, force, waiter,
                   stop, retry, fresh, launches, held, used>>

-----------------------------------------------------------------------------
(* The provider's side of the slot. *)

ProviderReady ==
    /\ up /\ slot = "running" /\ slot' = "ready"
    /\ UNCHANGED <<up, mem, promo, force, waiter, stop, wake, retry, log, ghost, used>>

(* A run ends; its owner releases the slot and schedules the queue. *)
ProviderFinish ==
    /\ up /\ slot \in {"running", "ready", "stopping"}
    /\ slot' = "free" /\ wake' = TRUE
    /\ UNCHANGED <<up, mem, promo, force, waiter, stop, retry, log, ghost, used>>

-----------------------------------------------------------------------------
(* Explicit Stop. *)

StopAdmit ==
    /\ up /\ LifecycleFree /\ stop = "none" /\ used.stops < MaxStops
    /\ stop' = "admitted"
    /\ slot' = (IF slot \in {"running", "ready"} THEN "stopping" ELSE slot)
    /\ used' = [used EXCEPT !.stops = @ + 1]
    /\ UNCHANGED <<up, mem, promo, force, waiter, wake, retry, log, ghost>>

Promoted == {runNow} \ {NoRow}

(* pause_queued_turns_after_explicit_stop: the hold is written before it   *)
(* shows in memory; if it cannot be written the rows become provisional.   *)
(* Hidden deliveries are never held, and one at the head is woken.         *)
StopPause ==
    /\ up /\ stop = "admitted" /\ stop' = "paused"
    /\ LET S == (ToSet(queue) \cup Promoted) \ Deliveries IN
       /\ paused' = paused \cup S
       /\ \/ /\ log' = LogPaused(log, S)
             /\ held' = held \cup (S \cap ToSet(log.order))
             /\ UNCHANGED provisional
          \/ provisional' = provisional \cup S /\ UNCHANGED <<log, held>>
    /\ wake' = (wake \/ Candidate \in Deliveries \ paused)
    /\ UNCHANGED <<up, queue, runNow, steering, fenced, promo, force, waiter, slot,
                   retry, fresh, launches, burnt, used>>

(* A stopped scheduled job leaves the queue running. *)
StopKeepsQueue ==
    /\ up /\ stop = "admitted" /\ stop' = "paused"
    /\ UNCHANGED <<up, mem, promo, force, waiter, slot, wake, retry, log, ghost, used>>

(* Teardown ends, with or without a hard release, and the queue is woken. *)
StopFinish ==
    /\ up /\ stop = "paused" /\ stop' = "none"
    /\ slot' \in (IF slot = "stopping" THEN {slot, "free"} ELSE {slot})
    /\ wake' = TRUE
    /\ UNCHANGED <<up, mem, promo, force, waiter, retry, log, ghost, used>>

-----------------------------------------------------------------------------
(* Force Send (_run_queued_turn_now_once).  The selected row leaves the    *)
(* deque and its hold is released.                                         *)

Detach(r, pc) ==
    LET i == IndexOf(queue, r) IN
    /\ up /\ force.pc = "idle" /\ stop = "none" /\ used.forces < MaxForces
    /\ ~steering /\ runNow = NoRow /\ r \in ToSet(queue) \ fenced
    /\ queue' = Without(queue, r)
    /\ steering' = TRUE
    /\ paused' = paused \ {r}
    /\ held' = held \ {r}
    /\ force' = [pc |-> pc, row |-> r, idx |-> i,
                 pred |-> IF i > 1 THEN queue[i - 1] ELSE NoRow,
                 succ |-> IF i < Len(queue) THEN queue[i + 1] ELSE NoRow,
                 wasPaused |-> r \in paused]
    /\ used' = [used EXCEPT !.forces = @ + 1]

(* Native steering of a ready provider turn; needs no lifecycle lock. *)
SelectNative(r) ==
    /\ r \in Users /\ slot \in {"ready", "stopping"}
    /\ Detach(r, "handoff")
    /\ UNCHANGED <<up, runNow, provisional, fenced, promo, waiter, slot, stop, wake,
                   retry, log, fresh, launches, burnt>>

(* put_nowait against the live ACTIVE record. *)
HandOff ==
    /\ up /\ force.pc = "handoff" /\ slot \in {"ready", "stopping"}
    /\ force' = [force EXCEPT !.pc = "queued"]
    /\ UNCHANGED <<up, mem, promo, waiter, slot, stop, wake, retry, log, ghost, used>>

(* mark_native_steer_accepted by the provider's consumer. *)
AcceptSteer ==
    /\ up /\ force.pc = "queued" /\ slot \in {"ready", "stopping"}
    /\ force' = [force EXCEPT !.pc = "accepted"]
    /\ UNCHANGED <<up, mem, promo, waiter, slot, stop, wake, retry, log, ghost, used>>

FenceLog(l) == LogFenced(LogRemoved(l, force.row), force.row, force.idx)

(* fence_native_steer_delivery by the consumer, unless the turn is stopping.*)
FenceNativeSteerDelivery ==
    /\ up /\ force.pc = "accepted" /\ slot = "ready"
    /\ log' = FenceLog(log)
    /\ paused' = paused \cup {force.row}
    /\ fenced' = fenced \cup {force.row}
    /\ force' = [force EXCEPT !.pc = "fenced"]
    /\ UNCHANGED <<up, queue, runNow, steering, provisional, promo, waiter, slot, stop,
                   wake, retry, ghost, used>>

(* The provider is given the message; it may have accepted it from here on.*)
DeliverSteer ==
    /\ up /\ force.pc = "fenced" /\ slot = "ready"
    /\ launches' = [launches EXCEPT ![force.row] = @ + 1]
    /\ force' = [force EXCEPT !.pc = "delivered"]
    /\ UNCHANGED <<up, mem, promo, waiter, slot, stop, wake, retry, log, fresh, burnt,
                   held, used>>

(* The finally of the native path: the steering fence is released. *)
ReleaseNativeFence ==
    /\ force' = NoForce /\ steering' = FALSE
    /\ wake' = (wake \/ slot = "free")

(* The batch turn_queue_run_now + turn_started consumes the row. *)
CommitSteer ==
    /\ up /\ force.pc = "delivered"
    /\ log' = LogRemoved(LogRunNow(log, force.row), force.row)
    /\ ReleaseNativeFence
    /\ UNCHANGED <<up, queue, runNow, provisional, paused, fenced, promo, waiter, slot,
                   stop, retry, ghost, used>>

(* Delivery is uncertain: the row is not requeued; only its fence remains. *)
SteerUncertain ==
    /\ up /\ force.pc \in {"fenced", "delivered"}
    /\ ReleaseNativeFence
    /\ UNCHANGED <<up, queue, runNow, provisional, paused, fenced, promo, waiter, slot,
                   stop, retry, log, ghost, used>>

(* Fault: a delivered message is treated as safely rejected. *)
RequeueDeliveredSteer ==
    /\ up /\ force.pc \in {"handoff", "queued", "accepted", "fenced", "delivered"}
    /\ queue' = InsertAt(queue, ReturnIndex(queue, force), force.row)
    /\ log' = LogQueued(log, force.row)
    /\ paused' = paused \ {force.row} /\ fenced' = fenced \ {force.row}
    /\ ReleaseNativeFence
    /\ UNCHANGED <<up, runNow, provisional, promo, waiter, slot, stop, retry, ghost, used>>

(* requeue_native_steer_after_safe_rejection: the message certainly did    *)
(* not reach the provider.  keep: the hold is preserved (goal follow-up).  *)
RequeueRejectedSteer ==
    /\ up /\ force.pc \in {"handoff", "queued", "accepted", "fenced"}
    /\ queue' = InsertAt(queue, ReturnIndex(queue, force), force.row)
    /\ \/ \E keep \in BOOLEAN, t \in Reorderings(LogQueued(log, force.row).order, queue') :
            LET l == [LogQueued(log, force.row) EXCEPT !.order = t] IN
            /\ log' = IF keep THEN LogPaused(l, {force.row}) ELSE l
            /\ paused' = IF keep THEN paused \cup {force.row} ELSE paused \ {force.row}
            /\ fenced' = fenced \ {force.row}
       \/ /\ paused' = paused \cup {force.row}
          /\ UNCHANGED <<log, fenced>>
    /\ ReleaseNativeFence
    /\ UNCHANGED <<up, runNow, provisional, promo, waiter, slot, stop, retry, ghost, used>>

(* reconcile_idle_queue_session expires the owner of a steer whose         *)
(* provider is gone: the cancelled owner fences the row if it can, and     *)
(* restore_missing_durable_force_send_row puts back what the journal holds.*)
ExpireSteerOwner ==
    LET r == force.row IN
    /\ up /\ force.pc \in {"handoff", "accepted", "fenced", "delivered"}
    /\ slot = "free" /\ stop = "none"
    /\ \E l \in (IF r \in fenced THEN {log} ELSE {log, FenceLog(log)}) :
         LET pending == r \in ToSet(l.order) IN
         /\ log' = l
         /\ queue' = IF pending
                     THEN InsertAt(queue, RestoreIndex(queue, l.order, r), r)
                     ELSE queue
         /\ paused' = (paused \ {r}) \cup ({r} \cap l.paused)
         /\ fenced' = (fenced \ {r}) \cup ({r} \cap l.fenced)
         /\ held' = held \cup ({r} \cap (l.paused \ l.fenced))
    /\ provisional' = provisional \ {r}
    /\ ReleaseNativeFence
    /\ UNCHANGED <<up, runNow, promo, waiter, slot, stop, retry, fresh, launches,
                   burnt, used>>

(* Non-native Force Send: stop the live turn, then run the row next.  It   *)
(* holds the lifecycle lock, so explicit Stop cannot interleave.           *)
SelectForStop(r) ==
    /\ LifecycleFree /\ Detach(r, "selected")
    /\ runNow' = r
    /\ UNCHANGED <<up, provisional, fenced, promo, waiter, slot, stop, wake, retry, log,
                   fresh, launches, burnt>>

InterruptForForceSend ==
    /\ up /\ force.pc = "selected" /\ slot # "running"
    /\ force' = [force EXCEPT !.pc = "stopping"]
    /\ slot' = (IF slot = "ready" THEN "stopping" ELSE slot)
    /\ UNCHANGED <<up, mem, promo, waiter, stop, wake, retry, log, ghost, used>>

(* The provider has not accepted its turn yet: the row returns to its      *)
(* index, its hold released.                                               *)
DeferForceSend ==
    /\ up /\ force.pc = "selected" /\ slot = "running"
    /\ queue' = InsertAt(queue, AtMost(force.idx, Len(queue) + 1), force.row)
    /\ runNow' = NoRow /\ steering' = FALSE /\ force' = NoForce
    /\ UNCHANGED <<up, provisional, paused, fenced, promo, waiter, slot, stop, wake,
                   retry, log, ghost, used>>

(* turn_queue_run_now is fsynced; a waiter keeps the steering fence until  *)
(* the slot is free.                                                       *)
CommitForceSend ==
    /\ up /\ force.pc = "stopping"
    /\ log' = LogRunNow(log, force.row)
    /\ waiter' = TRUE /\ force' = NoForce
    /\ UNCHANGED <<up, mem, promo, slot, stop, wake, retry, ghost, used>>

(* restore_uncommitted_promotion: the row, its place and its hold.  The    *)
(* failure may come from the Stop, the write or a cancellation.            *)
RestoreUncommitted ==
    LET r == force.row IN
    /\ up /\ force.pc \in {"selected", "stopping"}
    /\ queue' = InsertAt(queue, ReturnIndex(queue, force), r)
    /\ paused' = (IF force.wasPaused THEN paused \cup {r} ELSE paused)
    /\ held' = (IF force.wasPaused THEN held \cup ({r} \cap (log.paused \ log.fenced))
                ELSE held)
    /\ runNow' = NoRow /\ steering' = FALSE /\ force' = NoForce /\ wake' = TRUE
    /\ UNCHANGED <<up, provisional, fenced, promo, waiter, slot, stop, retry, log,
                   fresh, launches, burnt, used>>

(* wait_for_steered_turn_slot sees the slot free. *)
ReleaseWaiterFence ==
    /\ up /\ waiter /\ slot = "free"
    /\ waiter' = FALSE /\ steering' = FALSE /\ wake' = TRUE
    /\ UNCHANGED <<up, queue, runNow, provisional, paused, fenced, promo, force, slot,
                   stop, retry, log, ghost, used>>

(* Fault: the stale fence is cleared and nothing is scheduled. *)
ReconcileWithoutWake ==
    /\ up /\ stop = "none" /\ force.pc = "idle" /\ slot = "free"
    /\ promo.pc = "idle" /\ ~waiter
    /\ Candidate # NoRow /\ Startable(Candidate)
    /\ steering' = FALSE
    /\ UNCHANGED <<up, queue, runNow, provisional, paused, fenced, promo, force, waiter,
                   slot, stop, wake, retry, log, ghost, used>>

(* reconcile_idle_queue_session on a health poll: an idle chat's runnable  *)
(* row is scheduled again.                                                 *)
ReconcileIdleQueue ==
    /\ up /\ stop = "none" /\ force.pc = "idle" /\ slot = "free"
    /\ promo.pc = "idle" /\ ~waiter
    /\ Candidate # NoRow /\ Startable(Candidate)
    /\ steering' = FALSE /\ wake' = TRUE
    /\ UNCHANGED <<up, queue, runNow, provisional, paused, fenced, promo, force, waiter,
                   slot, stop, retry, log, ghost, used>>

-----------------------------------------------------------------------------
(* Crash and startup recovery: memory is lost, the journal stays. *)

Crash ==
    /\ up /\ used.crashes < MaxCrashes
    /\ up' = FALSE
    /\ queue' = <<>> /\ runNow' = NoRow /\ steering' = FALSE
    /\ provisional' = {} /\ paused' = {} /\ fenced' = {}
    /\ promo' = NoPromo /\ force' = NoForce /\ waiter' = FALSE
    /\ slot' = "free" /\ stop' = "none" /\ wake' = FALSE /\ retry' = "none"
    /\ used' = [used EXCEPT !.crashes = @ + 1]
    /\ UNCHANGED <<log, ghost>>

(* A recovered delivery whose ledger names another owner is removed. *)
DiscardRecovered(r) ==
    /\ ~up /\ r \in Deliveries \cap ToSet(log.order)
    /\ log' = LogRemoved(log, r)
    /\ UNCHANGED <<up, mem, promo, force, waiter, slot, stop, wake, retry, ghost, used>>

RecoverQueuedTurns ==
    /\ ~up /\ up' = TRUE
    /\ queue' = log.order
    /\ paused' = log.paused /\ fenced' = log.fenced
    /\ wake' = (log.order # <<>> /\ Head(log.order) \notin log.paused)
    /\ UNCHANGED <<runNow, steering, provisional, promo, force, waiter, slot, stop,
                   retry, log, ghost, used>>

-----------------------------------------------------------------------------
Next ==
    \/ \E r \in Rows : \/ Enqueue(r) \/ EnqueueRevoked(r) \/ UnqueueTurn(r)
                       \/ SelectNative(r) \/ SelectForStop(r) \/ DiscardRecovered(r)
    \/ DirectTurn \/ MoveQueuedTurn
    \/ PromoteNothing \/ ReturnPausedPromotion \/ PopNext \/ PromotionAlreadyOwned
    \/ RetryTimer \/ Reserve \/ PersistTurnAcceptance \/ Launch
    \/ DeferPromotion \/ CancelPromotion \/ DiscardPromotion
    \/ ProviderReady \/ ProviderFinish
    \/ StopAdmit \/ StopPause \/ StopKeepsQueue \/ StopFinish
    \/ HandOff \/ AcceptSteer \/ FenceNativeSteerDelivery \/ DeliverSteer
    \/ CommitSteer \/ SteerUncertain \/ RequeueRejectedSteer \/ ExpireSteerOwner
    \/ InterruptForForceSend \/ DeferForceSend \/ CommitForceSend
    \/ RestoreUncommitted \/ ReleaseWaiterFence \/ ReconcileIdleQueue
    \/ Crash \/ RecoverQueuedTurns

Spec == Init /\ [][Next]_vars

-----------------------------------------------------------------------------
(* Properties. *)

Detached == {force.row} \ {NoRow}
Popped   == {promo.row} \ {NoRow}
InMemory == ToSet(queue) \cup Promoted \cup Popped \cup Detached

(* A row has one home: it is listed once, and never both listed and owned  *)
(* by a promotion or a Force Send, whatever order requeue_turn_front,      *)
(* restore_uncommitted_promotion, the safe-rejection requeue and recovery  *)
(* run in.                                                                 *)
OneHome ==
    /\ Distinct(queue)
    /\ ToSet(queue) \cap (Promoted \cup Popped \cup Detached) = {}
    /\ Popped \cap (Promoted \cup Detached) = {}
    /\ Promoted \cap Detached # {} => force.pc \in {"selected", "stopping"}

(* A message reaches a provider at most once, across deferrals, Force      *)
(* Sends, crashes and recovery.                                            *)
AtMostOnce == \A r \in Rows : launches[r] <= 1

(* A message a provider may have received is pending in the journal only   *)
(* under its delivery fence, so recovery holds it and never replays it.    *)
ReplayFenced ==
    \A r \in ToSet(log.order) : launches[r] > 0 => r \in log.fenced \cap log.paused

(* Whatever the process would lose in a crash and still owes the user is   *)
(* pending in the journal, except a message whose launch failed after its  *)
(* turn_started was fsynced.                                               *)
JournalCoversMemory ==
    \A r \in InMemory : \/ r \in ToSet(log.order) \/ r \in burnt
                        \/ r = promo.row /\ promo.pc = "started"

(* No row is left pending on disk only: every pending row has an owner in  *)
(* memory, unless its delivery is uncertain (it is fenced).                *)
NoDiskOnlyRow ==
    up => \A r \in ToSet(log.order) : r \in InMemory \/ r \in log.fenced

(* A durable Stop hold survives a crash: it is in the journal.             *)
HoldDurable == held \subseteq log.paused

(* It is also in memory, wherever the row is listed.                       *)
HoldListed == up => held \cap (ToSet(queue) \cup Promoted) \subseteq paused

(* A row held by an explicit Stop is not handed to a provider until a Run  *)
(* Now releases it.                                                        *)
HeldNeverLaunched ==
    [][\A r \in Rows : launches'[r] > launches[r] => r \notin held]_vars

(* What the code's own comments promise and the code does not keep.        *)

(* pause_queued_turns_after_explicit_stop: "A later explicit Run Now       *)
(* operation clears the per-item hold": a promoted row that is not held   *)
(* again can start.                                                        *)
RunNowPromotable ==
    up /\ runNow # NoRow /\ force.pc = "idle" /\ runNow \notin paused
      => runNow \notin provisional

(* _start_next_queued_turn_locked: an unexpected exception must "preserve  *)
(* the user's durable message": a row the queue still owes is pending in   *)
(* the journal.                                                            *)
DurableRowsJournaled ==
    \A r \in ToSet(queue) : r \in ToSet(log.order)

Precedes(s, a, b) ==
    a \in ToSet(s) /\ b \in ToSet(s) /\ IndexOf(s, a) < IndexOf(s, b)

(* _run_queued_turn_now_once: "Preserve its exact durable position so      *)
(* crash recovery and a safe rejection can restore the same order": a      *)
(* fenced row still follows its old predecessor or precedes its old        *)
(* successor in the journal while either of them is pending.               *)
FencedRowPlace ==
    force.pc = "fenced" /\ {force.pred, force.succ} \cap ToSet(log.order) # {}
      => \/ Precedes(log.order, force.pred, force.row)
         \/ Precedes(log.order, force.row, force.succ)

-----------------------------------------------------------------------------
(* Liveness.  The event loop runs every scheduled task (weak fairness),    *)
(* providers and Stop teardown are bounded by timeouts, a connected client *)
(* polls health, and an admission or launch that can succeed again and     *)
(* again does not fail for ever (strong fairness).                         *)
StartTask == PromoteNothing \/ ReturnPausedPromotion \/ PopNext \/ PromotionAlreadyOwned
SteerStep == HandOff \/ AcceptSteer \/ FenceNativeSteerDelivery \/ DeliverSteer
             \/ CommitSteer \/ SteerUncertain \/ RequeueRejectedSteer \/ ExpireSteerOwner
ForceStep == InterruptForForceSend \/ DeferForceSend \/ CommitForceSend \/ RestoreUncommitted
PromoStep == Reserve \/ PersistTurnAcceptance \/ Launch \/ DeferPromotion
             \/ CancelPromotion \/ DiscardPromotion

Fairness ==
    /\ WF_vars(StartTask) /\ WF_vars(RetryTimer) /\ WF_vars(PromoStep)
    /\ SF_vars(PopNext) /\ SF_vars(Reserve) /\ SF_vars(PersistTurnAcceptance) /\ SF_vars(Launch)
    /\ WF_vars(ProviderFinish) /\ WF_vars(StopPause \/ StopKeepsQueue) /\ WF_vars(StopFinish)
    /\ WF_vars(SteerStep) /\ WF_vars(ForceStep) /\ WF_vars(ReleaseWaiterFence)
    /\ WF_vars(ReconcileIdleQueue) /\ WF_vars(RecoverQueuedTurns)

FairSpec == Spec /\ Fairness

Blocked == InMemory \cap (paused \cup provisional) # {}

(* Every queued row is eventually handed to a provider or taken out of the *)
(* queue, unless a held, fenced or provisional row stands in the chat: no  *)
(* interleaving of Force Send, deferrals, cancellations, dropped wake-ups  *)
(* and a crash leaves the queue wedged.                                    *)
QueueDrains ==
    \A r \in Rows : r \in InMemory ~> (launches[r] > 0 \/ r \notin InMemory \/ Blocked)

(* A message reaches a provider at most once: no promotion, Force Send, steer *)
(* or recovery sends what an earlier turn or an unsettled steer may have      *)
(* delivered (_start_turn_locked, fence_native_steer_delivery,                *)
(* recover_queued_turns_after_start).                                         *)
SentOnce ==
  /\ AtMostOnce
  /\ ReplayFenced

(* After any crash the journal knows every row the memory lists, and lists    *)
(* none that nobody owns (enqueue_turn, requeue_turn_front,                   *)
(* scan_queued_turns_from_events).                                            *)
JournalExact ==
  /\ JournalCoversMemory
  /\ NoDiskOnlyRow

(* A chat that was stopped stays stopped, across crashes and failed writes,   *)
(* until its user resumes it, and no held row is launched                     *)
(* (pause_queued_turns_after_explicit_stop, start_next_queued_turn).          *)
HoldHonoured ==
  /\ [](HoldDurable /\ HoldListed)
  /\ HeldNeverLaunched

=============================================================================
