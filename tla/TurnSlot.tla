------------------------------ MODULE TurnSlot ------------------------------
(***************************************************************************)
(* The turn slot of one chat in src/agent_server.py (BUSY_SESSIONS,        *)
(* CURRENT_TURNS, ACTIVE, STOP_REQUESTS, STOPPED_RUNS) and the tasks that  *)
(* contend for it: the admission under the lifecycle lock, the provider    *)
(* runner of each backend and its supervisor, native steering, the         *)
(* explicit Stop, deletion of the chat, the queue's wake-up and a restart. *)
(*                                                                         *)
(* A runner is named by the run that launched it; a native steer gives the *)
(* same runner, and the same ACTIVE record, a new run id.                  *)
(***************************************************************************)
EXTENDS Integers, FiniteSets

CONSTANTS
    MaxRuns,      \* bound on the run ids a behaviour uses
    Transports,   \* the provider transports a turn may run on
    Steering,     \* native steer requests arrive
    MaxStops,     \* bound on explicit Stops
    MaxDeletes,   \* bound on requests to delete the chat
    MaxCrashes    \* bound on crashes

AllTransports == {"print", "exec", "cursor", "opencode", "sdk", "app"}

ASSUME SlotAssumption ==
    /\ MaxRuns \in Nat \ {0} /\ Transports \subseteq AllTransports
    /\ Steering \in BOOLEAN /\ {MaxStops, MaxDeletes, MaxCrashes} \subseteq Nat

Runs == 1..MaxRuns
NoRun == 0

VARIABLES
    lock,      \* session_lifecycle_lock: who is inside it
    cur,       \* CURRENT_TURNS (present exactly while BUSY_SESSIONS has it)
    act,       \* ACTIVE: the record, the run it names, stop, transition
    stopReq,   \* STOP_REQUESTS holds this chat
    stopped,   \* STOPPED_RUNS
    pc,        \* where each run's task is
    how,       \* the transport of each run
    names,     \* the run each runner currently stands for
    host,      \* the runner whose provider executes a run
    prev,      \* previous_run_id: the run each runner was last steered from
    cancelled, \* runners whose task was cancelled
    alive,     \* runs whose provider turn or process is executing
    thread,    \* the generation of the chat's provider session
    given,     \* the prompts given to a provider: <<run, generation>>
    started,   \* runs with a durable turn_started
    ended,     \* terminal events of each run
    torn,      \* runs a crash or a broken handover left open for good
    stop,      \* the explicit Stop operation
    del,       \* deletion of the chat
    row,       \* the queue: empty, a row that may start, a row held by Stop
    wake,      \* schedule_next_queued_turn has a task pending
    born,      \* how many Stops and deletions had been asked at each admission
    used       \* the bounded Stops, deletions and crashes so far

vars == <<lock, cur, act, stopReq, stopped, pc, how, names, host, prev, cancelled, alive,
          thread, given, started, ended, torn, stop, del, row, wake,
          born, used>>
slot   == <<cur, act, stopReq>>
runner == <<how, names, host, prev, cancelled>>
events == <<started, ended, torn>>
others == <<stop, del, born, used>>
queue  == <<row, wake>>

NoTurn == [adm |-> NoRun, run |-> NoRun]
NoAct  == [rec |-> NoRun, run |-> NoRun, stop |-> FALSE, trans |-> NoRun]
NoStop == [pc |-> "idle", rec |-> NoRun, run |-> NoRun, adm |-> NoRun]

Busy == cur # NoTurn

Native(r)  == how[r] \in {"sdk", "app"}
Used == {r \in Runs : pc[r] # "none"}
Fresh(r) == r \notin Used /\ \A q \in 1..(r - 1) : q \in Used

Unfinished == {"admit", "accepted", "task", "spawned", "bound", "stream",
               "steering", "handing", "opening", "drain", "closing", "exit"}
(* SESSION_TURN_TASKS of the chat *)
Tasks == {r \in Runs : pc[r] \in Unfinished}

TypeOK ==
    /\ lock \in {"free", "start", "delete"}
    /\ cur \in [adm : Runs \cup {NoRun}, run : Runs \cup {NoRun}]
    /\ act \in [rec : Runs \cup {NoRun}, run : Runs \cup {NoRun}, stop : BOOLEAN,
                trans : Runs \cup {NoRun}]
    /\ act # NoAct => Busy /\ act.rec # NoRun /\ act.run = cur.run
    /\ stopReq \in BOOLEAN /\ wake \in BOOLEAN
    /\ {stopped, cancelled, alive, started, torn} \subseteq SUBSET Runs
    /\ pc \in [Runs -> Unfinished \cup {"none", "steered", "done"}]
    /\ how \in [Runs -> AllTransports \cup {"none", "exec_retry"}]
    /\ {names, host, prev} \subseteq [Runs -> Runs \cup {NoRun}]
    /\ thread \in Nat \ {0} /\ given \subseteq Runs \X Nat /\ ended \in [Runs -> Nat]
    /\ born \in [Runs -> Nat]
    /\ used \in [stops : 0..MaxStops, deletes : 0..MaxDeletes, crashes : 0..MaxCrashes]
    /\ stop \in [pc : {"idle", "await", "interrupt", "confirm", "hard", "closing", "done"},
                 rec : Runs \cup {NoRun}, run : Runs \cup {NoRun},
                 adm : Runs \cup {NoRun}]
    /\ del \in {"no", "asked", "waiting", "gone"}
    /\ row \in {"none", "ready", "held", "claimed"}

Init ==
    /\ lock = "free" /\ cur = NoTurn /\ act = NoAct
    /\ stopReq = FALSE /\ stopped = {} /\ cancelled = {} /\ alive = {}
    /\ pc = [r \in Runs |-> "none"] /\ how = [r \in Runs |-> "none"]
    /\ names = [r \in Runs |-> NoRun] /\ host = names /\ prev = names
    /\ born = [r \in Runs |-> 0]
    /\ thread = 1 /\ given = {} /\ used = [stops |-> 0, deletes |-> 0, crashes |-> 0]
    /\ started = {} /\ ended = [r \in Runs |-> 0] /\ torn = {}
    /\ stop = NoStop /\ del = "no" /\ row = "none" /\ wake = FALSE

-----------------------------------------------------------------------------
(* The slot operations, all of them under ACTIVE_LOCK. *)

Asked == used.stops + used.deletes

Go(r, where) == pc' = [pc EXCEPT ![r] = where]

(* turn_slot_is_owned *)
Owns(r) == r \in {act.run, cur.run} /\ {act.run, cur.run} \subseteq {NoRun, r}

(* Fault: the late release of a finished run takes whatever turn is there. *)
MayReleaseAny(r) == Busy

(* release_turn_slot(expected_run_id = r) *)
MayRelease(r) == Owns(r)

(* Fault: a chat-wide Stop request survives the turn it was made for. *)
ClearSlotKeepsRequest == cur' = NoTurn /\ act' = NoAct /\ UNCHANGED stopReq

ClearSlot == cur' = NoTurn /\ act' = NoAct /\ stopReq' = FALSE

Release(r) == IF MayRelease(r) THEN ClearSlot ELSE UNCHANGED slot

(* clear_active_process: the record goes, the turn keeps the chat. *)
ClearActive(r) ==
    /\ act' = IF act.run = r THEN NoAct ELSE act
    /\ UNCHANGED <<cur, stopReq>>

Terminal(r) == ended' = [ended EXCEPT ![r] = @ + 1]

(* explicit_stop_in_progress or detached_stop_in_progress *)
StopFence == stop.pc # "idle"

-----------------------------------------------------------------------------
(* Admission: start_turn, _start_turn_locked. *)

Reserve(r, t) ==
    /\ lock = "free" /\ del = "no" /\ ~Busy /\ ~StopFence /\ Fresh(r)
    /\ lock' = "start" /\ cur' = [adm |-> r, run |-> NoRun]
    /\ Go(r, "admit") /\ how' = [how EXCEPT ![r] = t]
    /\ born' = [born EXCEPT ![r] = Asked]
    /\ UNCHANGED <<act, stopReq, stopped, names, host, prev, cancelled, alive,
                   thread, given, events, stop, del, used>>

StartTurn(r, t) == row = "none" /\ Reserve(r, t) /\ UNCHANGED queue

(* queue_if_busy: the turn waits behind a turn, a row or a Stop. *)
EnqueueTurn ==
    /\ lock = "free" /\ del = "no" /\ row = "none" /\ (Busy \/ StopFence)
    /\ Cardinality(Used) < MaxRuns
    /\ row' = "ready" /\ wake' = (wake \/ ~Busy)
    /\ UNCHANGED <<lock, slot, stopped, pc, runner, alive, thread, given, events,
                   others>>

(* start_next_queued_turn: fenced by a Stop, a turn or a hold it just      *)
(* returns, and relies on whoever ends those to wake it again.             *)
Promote(r, t) ==
    /\ wake /\ row = "ready" /\ Reserve(r, t) /\ row' = "none" /\ wake' = FALSE

PromoteNothing ==
    /\ wake /\ lock = "free" /\ (row # "ready" \/ Busy \/ StopFence)
    /\ wake' = FALSE
    /\ UNCHANGED <<lock, slot, stopped, pc, runner, alive, thread, given, events,
                   others, row>>

(* The run id is published in CURRENT_TURNS, then turn_started is durable. *)
PublishRun(r) ==
    /\ pc[r] = "admit" /\ r \notin cancelled
    /\ cur' = IF Busy THEN [cur EXCEPT !.run = r] ELSE cur
    /\ names' = [names EXCEPT ![r] = r] /\ host' = [host EXCEPT ![r] = r]
    /\ Go(r, "accepted")
    /\ UNCHANGED <<lock, act, stopReq, stopped, how, prev, cancelled, alive, thread,
                   given, events, others, queue>>

PersistTurnAcceptance(r) ==
    /\ pc[r] = "accepted" /\ r \notin started /\ r \notin cancelled
    /\ started' = started \cup {r}
    /\ UNCHANGED <<lock, slot, stopped, pc, runner, alive, thread, given, ended,
                   torn, others, queue>>

LaunchTask(r) ==
    /\ pc[r] = "accepted" /\ r \in started /\ r \notin cancelled
    /\ Go(r, "task") /\ lock' = "free"
    /\ UNCHANGED <<slot, stopped, runner, alive, thread, given, events, others, queue>>

(* settle_precommit_failure: a durable start is closed, then the slot is   *)
(* released by run id, or by admission id when there is none yet.          *)
SettlePrecommitFailure(r) ==
    /\ pc[r] \in {"admit", "accepted"}
    /\ IF r \in started THEN Terminal(r) ELSE UNCHANGED ended
    /\ IF \/ names[r] = r /\ MayRelease(r)
          \/ names[r] = NoRun /\ cur.adm = r /\ act.run = NoRun
       THEN ClearSlot ELSE UNCHANGED slot
    /\ Go(r, "done") /\ lock' = "free"
    /\ UNCHANGED <<stopped, runner, alive, thread, given, started, torn, others, queue>>

-----------------------------------------------------------------------------
(* The provider runners.  A process is spawned before the slot is bound, a *)
(* native turn is bound first and started afterwards.                      *)

Spawn(r) ==
    /\ pc[r] = "task" /\ ~Native(r) /\ r \notin cancelled
    /\ alive' = alive \cup {r} /\ Go(r, "spawned")
    /\ UNCHANGED <<lock, slot, stopped, runner, thread, given, events, others, queue>>

(* A runner that cannot start releases its own slot and finishes its run,  *)
(* in this order: the chat is free before the event is written.            *)
SpawnFails(r) ==
    /\ pc[r] = "task" /\ ~Native(r) /\ r \notin cancelled
    /\ Release(r) /\ Go(r, IF MayRelease(r) THEN "closing" ELSE "exit")
    /\ UNCHANGED <<lock, stopped, runner, alive, thread, given, events, others, queue>>

(* bind_active_turn *)
CanBind(r) == Busy /\ cur.run = r /\ act.run \in {NoRun, r}
StopSeen(r) == stopReq \/ r \in stopped

BindActive(r) ==
    /\ act' = [rec |-> r, run |-> r, stop |-> StopSeen(r), trans |-> NoRun]
    /\ stopReq' = (stopReq /\ ~StopSeen(r))
    /\ stopped' = IF StopSeen(r) THEN stopped \cup {r} ELSE stopped
    /\ UNCHANGED cur

BindProcess(r) ==
    /\ pc[r] = "spawned" /\ r \notin cancelled
    /\ IF CanBind(r)
       THEN BindActive(r) /\ Go(r, "bound") /\ UNCHANGED alive
       ELSE /\ alive' = alive \ {r} /\ Go(r, "exit") /\ UNCHANGED <<slot, stopped>>
    /\ UNCHANGED <<lock, runner, thread, given, events, others, queue>>

(* The prompt is written to the process, or the process is terminated      *)
(* because bind_active_turn saw a Stop.                                    *)
FeedProcess(r) ==
    /\ pc[r] = "bound" /\ ~Native(r) /\ r \notin cancelled
    /\ IF r \in stopped THEN alive' = alive \ {r} /\ UNCHANGED given
       ELSE given' = given \cup {<<r, thread>>} /\ UNCHANGED alive
    /\ Go(r, "stream")
    /\ UNCHANGED <<lock, slot, stopped, runner, thread, events, others, queue>>

(* End of output, an idle or protocol kill, or the death a Stop caused:    *)
(* the process is terminated and its ACTIVE record is taken down.          *)
ProcessEnds(r) ==
    /\ pc[r] = "stream" /\ ~Native(r)
    /\ alive' = alive \ {r} /\ ClearActive(r) /\ Go(r, "drain")
    /\ UNCHANGED <<lock, stopped, runner, thread, given, events, others, queue>>

(* codex exec: a resumed thread that produced nothing is replaced and the  *)
(* same run is tried once more on the new one, unless it was stopped.      *)
ExecRollover(r) ==
    /\ pc[r] = "drain" /\ how[r] = "exec" /\ r \notin stopped /\ r \notin cancelled
    /\ <<r, thread>> \in given /\ Owns(r)
    /\ thread' = thread + 1 /\ how' = [how EXCEPT ![r] = "exec_retry"] /\ Go(r, "task")
    /\ UNCHANGED <<lock, slot, stopped, names, host, prev, cancelled, alive, given,
                   events, others, queue>>

(* OpenCode: the provider session of a turn that was stopped or failed is  *)
(* never resumed.                                                          *)
OpencodeQuarantine(r) ==
    /\ pc[r] = "drain" /\ how[r] = "opencode" /\ <<r, thread>> \in given
    /\ thread' = thread + 1
    /\ UNCHANGED <<lock, slot, stopped, pc, runner, alive, given, events, others, queue>>

(* Claude SDK and Codex app-server bind before anything is sent. *)
BindNative(r) ==
    /\ pc[r] = "task" /\ Native(r) /\ r \notin cancelled
    /\ IF CanBind(r)
       THEN BindActive(r) /\ Go(r, IF StopSeen(r) THEN "drain" ELSE "bound")
       ELSE Go(r, "exit") /\ UNCHANGED <<slot, stopped>>
    /\ UNCHANGED <<lock, runner, alive, thread, given, events, others, queue>>

(* activate_initial_supervisor / active_owned before turn/start *)
StillWanted(r) == act.rec = r /\ act.run = r /\ ~act.stop

StartNative(r) ==
    /\ pc[r] = "bound" /\ Native(r) /\ r \notin cancelled
    /\ IF StillWanted(r)
       THEN /\ given' = given \cup {<<r, thread>>} /\ alive' = alive \cup {r}
            /\ Go(r, "stream") /\ UNCHANGED stopped
       ELSE /\ stopped' = IF Owns(r) THEN stopped \cup {r} ELSE stopped
            /\ Go(r, IF Owns(r) THEN "drain" ELSE "exit") /\ UNCHANGED <<given, alive>>
    /\ UNCHANGED <<lock, slot, runner, thread, events, others, queue>>

StartNativeFails(r) ==
    /\ pc[r] = "bound" /\ Native(r) /\ r \notin cancelled /\ Go(r, "drain")
    /\ UNCHANGED <<lock, slot, stopped, runner, alive, thread, given, events, others,
                   queue>>

(* What runs at the provider on behalf of runner r. *)
Hosted(r) == {x \in Runs : host[x] = r}
(* Claude's process is retired; an interrupt of Codex may fail, and its    *)
(* turn then goes on.                                                      *)
GivenUp(r) == {alive \ Hosted(r)} \cup IF how[r] = "app" THEN {alive} ELSE {}

(* A native turn completes, fails, falls silent or was interrupted.  Its   *)
(* record stays in ACTIVE until the finalizer releases the slot.           *)
NativeEnds(r) ==
    /\ pc[r] = "stream" /\ Native(r) /\ alive' \in GivenUp(r) /\ Go(r, "drain")
    /\ UNCHANGED <<lock, slot, stopped, runner, thread, given, events, others, queue>>

(* Before the app-server accepted the turn, codex falls back to codex exec. *)
AppFallsBack(r) ==
    /\ pc[r] = "bound" /\ how[r] = "app" /\ r \notin cancelled \cup stopped
    /\ how' = [how EXCEPT ![r] = "exec"] /\ ClearActive(r)
    /\ Go(r, IF act.run = r THEN "task" ELSE "exit")
    /\ UNCHANGED <<lock, stopped, names, host, prev, cancelled, alive, thread, given,
                   events, others, queue>>

-----------------------------------------------------------------------------
(* Native steering: the runner of a live turn hands the slot to the queued *)
(* row.  Claude interrupts the running turn first, Codex adds to it.       *)

SteerOpen(r, c) ==
    /\ Steering /\ pc[r] = "stream" /\ Native(r) /\ r \notin cancelled
    /\ act.rec = r /\ ~act.stop /\ row = "ready" /\ Fresh(c)
    /\ act' = [act EXCEPT !.trans = c] /\ row' = "claimed"
    /\ pc' = [pc EXCEPT ![r] = "steering", ![c] = "steered"]
    /\ how' = [how EXCEPT ![c] = how[r]] /\ host' = [host EXCEPT ![c] = r]
    /\ born' = [born EXCEPT ![c] = born[r]]
    /\ alive' = IF how[r] = "sdk" THEN alive \ Hosted(r) ELSE alive
    /\ UNCHANGED <<lock, cur, stopReq, stopped, names, prev, cancelled, thread, given,
                   events, stop, del, used, wake>>

Delivered(c) == \E p \in given : p[1] = c

(* Nothing reached the provider: the row goes back, and Claude, whose turn *)
(* was interrupted for it, ends.                                           *)
SteerAbort(r) ==
    /\ pc[r] = "steering" /\ act.rec = r /\ ~Delivered(act.trans) /\ r \notin cancelled
    /\ act' = [act EXCEPT !.trans = NoRun] /\ row' = "ready"
    /\ pc' = [pc EXCEPT ![r] = IF how[r] = "sdk" THEN "drain" ELSE "stream",
                        ![act.trans] = "none"]
    /\ how' = [how EXCEPT ![act.trans] = "none"]
    /\ host' = [host EXCEPT ![act.trans] = NoRun]
    /\ UNCHANGED <<lock, cur, stopReq, stopped, names, prev, cancelled, alive, thread,
                   given, events, others, wake>>

SteerDeliver(r) ==
    /\ pc[r] = "steering" /\ ~Delivered(act.trans) /\ r \notin cancelled
    /\ act.rec = r /\ ~act.stop
    /\ given' = given \cup {<<act.trans, thread>>}
    /\ alive' = (alive \ Hosted(r)) \cup {act.trans}
    /\ UNCHANGED <<lock, slot, stopped, pc, runner, thread, events, others, queue>>

(* A broken handover ends Claude's turn.  Codex is interrupted and its     *)
(* stream is read on, until the provider says that the turn is over.       *)
Breaks(r) == alive' \in GivenUp(r) /\ Go(r, IF how[r] = "sdk" THEN "drain" ELSE "stream")

(* The provider may have taken the message, the handover cannot be         *)
(* completed: the row is held and never sent again.                        *)
SteerUncertain(r) ==
    /\ pc[r] = "steering" /\ act.rec = r /\ Delivered(act.trans) /\ r \notin cancelled
    /\ act' = [act EXCEPT !.trans = NoRun] /\ row' = "held" /\ Breaks(r)
    /\ UNCHANGED <<lock, cur, stopReq, stopped, runner, thread, given, events, others,
                   wake>>

(* Fault: the record is renamed, the chat's current turn is not. *)
SteerCommitHalf(r) ==
    /\ pc[r] = "steering" /\ act.rec = r /\ Delivered(act.trans) /\ r \notin cancelled
    /\ act' = [act EXCEPT !.run = act.trans]
    /\ names' = [names EXCEPT ![r] = act.trans] /\ prev' = [prev EXCEPT ![r] = names[r]]
    /\ stopped' = IF act.stop THEN stopped \cup {act.trans} ELSE stopped
    /\ Go(r, "handing") /\ row' = "none"
    /\ UNCHANGED <<lock, cur, stopReq, how, host, cancelled, alive, thread, given, events,
                   others, wake>>

SteerCommit(r) ==
    /\ pc[r] = "steering" /\ act.rec = r /\ Delivered(act.trans) /\ r \notin cancelled
    /\ act' = [act EXCEPT !.run = act.trans]
    /\ cur' = [cur EXCEPT !.run = act.trans]
    /\ names' = [names EXCEPT ![r] = act.trans] /\ prev' = [prev EXCEPT ![r] = names[r]]
    /\ stopped' = IF act.stop THEN stopped \cup {act.trans} ELSE stopped
    /\ Go(r, "handing") /\ row' = "none"
    /\ UNCHANGED <<lock, stopReq, how, host, cancelled, alive, thread, given, events,
                   others, wake>>

(* The predecessor of a handover that was named and is not written yet. *)
LeftOpen(r) == IF pc[r] = "handing" THEN {prev[r]} ELSE {}

CloseLeftOpen(r) ==
    ended' = [x \in Runs |-> IF x \in LeftOpen(r) THEN ended[x] + 1 ELSE ended[x]]

(* Claude writes the predecessor's terminal event on its own, ... *)
SteerClosePrevious(r) ==
    /\ pc[r] = "handing" /\ how[r] = "sdk" /\ r \notin cancelled
    /\ CloseLeftOpen(r) /\ Go(r, "opening")
    /\ UNCHANGED <<lock, slot, stopped, runner, alive, thread, given, started, torn,
                   others, queue>>

(* ... Codex in the durable batch that opens the successor.  A Stop seen   *)
(* during the handover interrupts the successor.                           *)
SteerOpenNext(r) ==
    /\ pc[r] = (IF how[r] = "sdk" THEN "opening" ELSE "handing") /\ r \notin cancelled
    /\ CloseLeftOpen(r) /\ started' = started \cup {names[r]}
    /\ act' = IF act.rec = r THEN [act EXCEPT !.trans = NoRun] ELSE act
    /\ stopped' = stopped \ {prev[r]}
    /\ alive' \in IF names[r] \in stopped THEN {alive, alive \ Hosted(r)} ELSE {alive}
    /\ Go(r, "stream")
    /\ UNCHANGED <<lock, cur, stopReq, runner, thread, given, torn, others, queue>>

(* The events cannot be written (retire_accepted_transition): the runner   *)
(* goes by the successor's name, the predecessor is never closed.          *)
SteerEventsFail(r) ==
    /\ pc[r] \in {"handing", "opening"} /\ r \notin cancelled
    /\ torn' = torn \cup LeftOpen(r) /\ Breaks(r)
    /\ act' = IF act.rec = r THEN [act EXCEPT !.trans = NoRun] ELSE act
    /\ UNCHANGED <<lock, cur, stopReq, stopped, runner, thread, given, started, ended,
                   others, queue>>

-----------------------------------------------------------------------------
(* How a runner's task ends. *)

(* A claimed row whose message, the newest of the runner, was given to the *)
(* provider is held, never sent again; it is also held when the runner     *)
(* does not know.                                                          *)
Unclaimed(r) ==
    IF \E p \in given : p[1] \in Hosted(r) /\ \A x \in Hosted(r) : x <= p[1]
    THEN {"held"} ELSE {"held", "ready"}

(* A cancelled task unwinds.  A process dies in the finally block; the     *)
(* Claude runner retires its process and still finalizes its own run; the  *)
(* Codex runner only detaches, and a native turn may go on without it.     *)
Unwind(r) ==
    /\ r \in cancelled
    /\ \/ /\ how[r] = "sdk" /\ pc[r] \in {"bound", "stream", "steering", "handing", "opening"}
          /\ stopped' = stopped \cup {names[r]} /\ Go(r, "drain")
          /\ cancelled' = cancelled \ {r} /\ UNCHANGED slot
          /\ alive' = alive \ Hosted(r)
       \/ /\ how[r] # "sdk" \/ pc[r] \in {"task", "drain"}
          /\ pc[r] \in {"task", "spawned", "bound", "stream", "steering", "handing", "drain"}
          /\ Go(r, "exit") /\ UNCHANGED <<stopped, cancelled>>
          /\ IF Native(r) THEN UNCHANGED slot ELSE ClearActive(r)
          /\ \/ alive' = alive \ Hosted(r)
             \/ how[r] = "app" /\ alive' = alive
    /\ torn' = torn \cup LeftOpen(r)
    /\ row' \in IF pc[r] = "steering" /\ row = "claimed" THEN Unclaimed(r) ELSE {row}
    /\ UNCHANGED <<lock, how, names, host, prev, thread, given, started, ended, others,
                   wake>>

(* finalize_owned_turn_finished / finalize_sdk_run: release, and only the  *)
(* run that did release its slot writes the terminal event.                *)
FinalizeRelease(r) ==
    /\ pc[r] = "drain" /\ r \notin cancelled
    /\ Release(names[r]) /\ Go(r, IF MayRelease(names[r]) THEN "closing" ELSE "exit")
    /\ UNCHANGED <<lock, stopped, runner, alive, thread, given, events, others, queue>>

FinalizeEvent(r) ==
    /\ pc[r] = "closing" /\ Terminal(names[r]) /\ Go(r, "exit")
    /\ stopped' = stopped \ {names[r]} /\ wake' = TRUE
    /\ UNCHANGED <<lock, slot, runner, alive, thread, given, started, torn, others, row>>

(* supervise_provider_turn_task / reconcile_provider_task_exit *)
ReconcileExit(r) ==
    /\ pc[r] = "exit" /\ Go(r, "done") /\ Release(names[r])
    /\ IF MayRelease(names[r]) /\ ended[names[r]] = 0 THEN Terminal(names[r]) ELSE UNCHANGED ended
    /\ wake' = (wake \/ MayRelease(names[r]))
    /\ stopped' = stopped \ {names[r], r}
    /\ UNCHANGED <<lock, runner, alive, thread, given, started, torn, others, row>>

-----------------------------------------------------------------------------
(* The explicit Stop: stop_turn_endpoint, run_explicit_stop_operation,     *)
(* stop_turn.  Its teardown does not hold the lifecycle lock; a fence      *)
(* keeps new turns out until it has ended.                                 *)

(* HARD_TERMINALIZABLE_TURN_TRANSPORTS *)
HardTransports == {"print", "exec", "exec_retry", "sdk", "app"}

(* A turn bound in ACTIVE is marked, and remembered by its record. *)
StopMark ==
    /\ act' = [act EXCEPT !.stop = TRUE] /\ stopped' = stopped \cup {act.run}
    /\ UNCHANGED stopReq
    /\ stop' = [pc |-> "interrupt", rec |-> act.rec, run |-> act.run, adm |-> cur.adm]

StopBegin ==
    /\ lock = "free" /\ del = "no" /\ stop = NoStop /\ used.stops < MaxStops
    /\ used' = [used EXCEPT !.stops = @ + 1]
    /\ \/ act # NoAct /\ StopMark
       \/ /\ act = NoAct /\ Busy /\ stopReq' = TRUE /\ UNCHANGED <<act, stopped>>
          /\ stop' = [pc |-> "await", rec |-> NoRun, run |-> cur.run, adm |-> cur.adm]
       \/ /\ ~Busy /\ UNCHANGED <<act, stopReq, stopped>>
          /\ stop' = [pc |-> "done", rec |-> NoRun, run |-> NoRun, adm |-> NoRun]
    /\ row' \in IF row = "ready" THEN {"held", "ready"} ELSE {row}
    /\ UNCHANGED <<born, lock, cur, pc, runner, alive, thread, given, events, del, wake>>

StopGoes(where) == stop' = [stop EXCEPT !.pc = where]
StopHardens(r) == stop' = [pc |-> "hard", rec |-> stop.rec, run |-> r, adm |-> stop.adm]

(* Busy and not bound: the turn binds and is stopped as any other, it is   *)
(* gone, or another turn has the chat already.                             *)
StopAwaitBound ==
    /\ stop.pc = "await" /\ cur.adm = stop.adm /\ act # NoAct /\ StopMark
    /\ UNCHANGED <<lock, cur, pc, runner, alive, thread, given, events, del, born, used, queue>>

StopAwaitGone ==
    /\ stop.pc = "await" /\ cur.adm # stop.adm /\ StopGoes("done")
    /\ UNCHANGED <<lock, slot, stopped, pc, runner, alive, thread, given, events, del,
                   born, used, queue>>

(* The confirmation timeout: every task of the chat is cancelled. *)
StopAwaitTimeout ==
    /\ stop.pc = "await" /\ cur.adm = stop.adm /\ act = NoAct /\ Tasks # {}
    /\ stopped' = stopped \cup {cur.run} /\ cancelled' = cancelled \cup Tasks
    /\ StopHardens(cur.run)
    /\ UNCHANGED <<lock, slot, pc, how, names, host, prev, alive, thread, given, events,
                   del, born, used, queue>>

(* A process is killed; a native interrupt may be refused or time out. *)
StopInterrupt ==
    /\ stop.pc = "interrupt" /\ StopGoes("confirm")
    /\ alive' \in IF Native(stop.rec) THEN {alive, alive \ Hosted(stop.rec)}
                  ELSE {alive \ {stop.run}}
    /\ UNCHANGED <<lock, slot, stopped, pc, runner, thread, given, events, del, born, used,
                   queue>>

StopConfirmed ==
    /\ stop.pc = "confirm" /\ act.rec # stop.rec /\ StopGoes("done")
    /\ UNCHANGED <<lock, slot, stopped, pc, runner, alive, thread, given, events, del,
                   born, used, queue>>

(* Neither the handover nor the turn ended in time. *)
StopTimeout ==
    /\ stop.pc = "confirm" /\ act.rec = stop.rec
    /\ IF how[stop.rec] \in HardTransports
       THEN /\ StopHardens(act.run)
            /\ stopped' = stopped \cup {act.run}
            /\ cancelled' = cancelled \cup Tasks
       ELSE StopGoes("done") /\ UNCHANGED <<stopped, cancelled>>
    /\ UNCHANGED <<lock, slot, pc, how, names, host, prev, alive, thread, given, events,
                   del, born, used, queue>>

(* hard_terminalize_active_stop: ACTIVE is active; otherwise by run id. *)
StopStillOwns ==
    IF stop.rec # NoRun THEN act.rec = stop.rec ELSE MayRelease(stop.run)

(* The thread or session that may still run the turn is given up. *)
StopAbandons ==
    IF how[host[stop.run]] \in {"app", "opencode"} THEN thread + 1 ELSE thread

StopCloses == stop.run \in started /\ ended[stop.run] = 0

(* After at most a second the Stop takes the slot itself: Claude's process *)
(* is evicted, a Codex thread that may still run the turn is abandoned, an *)
(* OpenCode session is reset.                                              *)
StopRelease ==
    /\ stop.pc = "hard" /\ StopStillOwns
    /\ ClearSlot /\ StopGoes(IF StopCloses THEN "closing" ELSE "done")
    /\ alive' = IF how[host[stop.run]] = "sdk" THEN alive \ Hosted(host[stop.run]) ELSE alive
    /\ thread' = StopAbandons
    /\ UNCHANGED <<lock, stopped, pc, runner, given, events, del, born, used, queue>>

StopReleaseLost ==
    /\ stop.pc = "hard" /\ ~StopStillOwns /\ StopGoes("done")
    /\ stopped' = IF Tasks \cap cancelled = {} THEN stopped \ {stop.run} ELSE stopped
    /\ UNCHANGED <<lock, slot, pc, runner, alive, thread, given, events, del, born, used, queue>>

StopEvent ==
    /\ stop.pc = "closing" /\ Terminal(stop.run) /\ StopGoes("done")
    /\ stopped' = IF Tasks \cap cancelled = {} THEN stopped \ {stop.run} ELSE stopped
    /\ UNCHANGED <<lock, slot, pc, runner, alive, thread, given, started, torn, del, born, used,
                   queue>>

(* Fault: the queue is not woken when the fence goes. *)
StopDoneSilently ==
    /\ stop.pc = "done" /\ lock = "free" /\ stop' = NoStop
    /\ UNCHANGED <<lock, slot, stopped, pc, runner, alive, thread, given, events, del,
                   born, used, queue>>

(* The fence is lifted under the lifecycle lock and the queue is woken. *)
StopDone ==
    /\ stop.pc = "done" /\ lock = "free" /\ stop' = NoStop /\ wake' = TRUE
    /\ UNCHANGED <<lock, slot, stopped, pc, runner, alive, thread, given, events, del,
                   born, used, row>>

(* The user runs a row the Stop held. *)
RunHeld ==
    /\ row = "held" /\ lock = "free" /\ del = "no" /\ ~StopFence
    /\ row' = "ready" /\ wake' = TRUE
    /\ UNCHANGED <<lock, slot, stopped, pc, runner, alive, thread, given, events, others>>

-----------------------------------------------------------------------------
(* Deletion of the chat, under the lifecycle lock from end to end. *)

DeleteAsk ==
    /\ lock = "free" /\ del = "no" /\ ~StopFence /\ used.deletes < MaxDeletes
    /\ used' = [used EXCEPT !.deletes = @ + 1]
    /\ lock' = "delete" /\ del' = "asked"
    /\ IF act # NoAct
       THEN /\ act' = [act EXCEPT !.stop = TRUE] /\ stopped' = stopped \cup {act.run}
            /\ UNCHANGED stopReq
       ELSE stopReq' = Busy /\ UNCHANGED <<act, stopped>>
    /\ UNCHANGED <<born, cur, pc, runner, alive, thread, given, events, stop, queue>>

(* The provider is interrupted, evicted or killed. *)
DeleteInterrupt ==
    /\ del = "asked" /\ del' = "waiting"
    /\ alive' \in IF act = NoAct THEN {alive}
                  ELSE IF how[act.rec] = "app" THEN {alive, alive \ Hosted(act.rec)}
                  ELSE {alive \ Hosted(act.rec)}
    /\ UNCHANGED <<lock, slot, stopped, pc, runner, thread, given, events, stop, born, used,
                   queue>>

(* A Claude runner that does not settle is cancelled once its process is gone. *)
DeleteCancel ==
    /\ del = "waiting" /\ act # NoAct /\ how[act.rec] = "sdk" /\ ~(Tasks \subseteq cancelled)
    /\ alive' = alive \ Hosted(act.rec) /\ cancelled' = cancelled \cup Tasks
    /\ UNCHANGED <<lock, slot, stopped, pc, how, names, host, prev, thread, given, events,
                   others, queue>>

DeleteRefused ==
    /\ del = "waiting" /\ Tasks # {} /\ del' = "no" /\ lock' = "free"
    /\ UNCHANGED <<slot, stopped, pc, runner, alive, thread, given, events, stop, born, used,
                   queue>>

DeleteSettled == Tasks = {}

DeleteDone ==
    /\ del = "waiting" /\ DeleteSettled
    /\ ClearSlot /\ row' = "none" /\ del' = "gone" /\ lock' = "free"
    /\ UNCHANGED <<stopped, pc, runner, alive, thread, given, events, stop, born, used, wake>>

-----------------------------------------------------------------------------
(* A crash and the restart: abandoned_turn_after_restart closes one open   *)
(* run, the one with the latest activity; the queue is rebuilt and woken.  *)

Restart ==
    /\ used.crashes < MaxCrashes /\ del # "gone"
    /\ used' = [used EXCEPT !.crashes = @ + 1]
    /\ LET open == {r \in started : ended[r] = 0} IN
       IF open = {} THEN UNCHANGED <<ended, torn>>
       ELSE \E r \in open : Terminal(r) /\ torn' = torn \cup (open \ {r})
    /\ lock' = "free" /\ cur' = NoTurn /\ act' = NoAct /\ stopReq' = FALSE
    /\ stopped' = {} /\ cancelled' = {} /\ alive' = {} /\ stop' = NoStop /\ del' = "no"
    /\ pc' = [r \in Runs |-> IF pc[r] = "none" THEN "none" ELSE "done"]
    /\ row' = IF row = "claimed" THEN "held" ELSE row
    /\ wake' = TRUE
    /\ UNCHANGED <<born, how, names, host, prev, thread, given, started>>

-----------------------------------------------------------------------------
Admission(r) ==
    \/ PublishRun(r) \/ PersistTurnAcceptance(r) \/ LaunchTask(r)
    \/ SettlePrecommitFailure(r)

(* One runner per transport: what its start and its stream are made of. *)
Starting(r)  == Spawn(r) \/ SpawnFails(r) \/ BindProcess(r) \/ FeedProcess(r)
Finishing(r) == FinalizeRelease(r) \/ FinalizeEvent(r)

ClaudePrintStarts(r)   == how[r] = "print" /\ Starting(r)
ClaudePrintEnds(r)     == how[r] = "print" /\ ProcessEnds(r)
ClaudePrintFinishes(r) == how[r] = "print" /\ Finishing(r)

CodexExecStarts(r)   == how[r] \in {"exec", "exec_retry"} /\ Starting(r)
CodexExecEnds(r)     == how[r] \in {"exec", "exec_retry"} /\ (ProcessEnds(r) \/ ExecRollover(r))
CodexExecFinishes(r) == how[r] \in {"exec", "exec_retry"} /\ Finishing(r)

CursorStarts(r)   == how[r] = "cursor" /\ Starting(r)
CursorEnds(r)     == how[r] = "cursor" /\ ProcessEnds(r)
CursorFinishes(r) == how[r] = "cursor" /\ Finishing(r)

OpencodeStarts(r)   == how[r] = "opencode" /\ Starting(r)
OpencodeEnds(r)     == how[r] = "opencode" /\ (ProcessEnds(r) \/ OpencodeQuarantine(r))
OpencodeFinishes(r) == how[r] = "opencode" /\ Finishing(r)

NativeStarts(r) == BindNative(r) \/ StartNative(r) \/ StartNativeFails(r)
Handover(r) ==
    \/ SteerAbort(r) \/ SteerDeliver(r) \/ SteerUncertain(r) \/ SteerCommit(r)
    \/ SteerClosePrevious(r) \/ SteerOpenNext(r) \/ SteerEventsFail(r)

ClaudeSdkStarts(r)   == how[r] = "sdk" /\ NativeStarts(r)
ClaudeSdkSteers(r)   == how[r] = "sdk" /\ (Handover(r) \/ \E c \in Runs : SteerOpen(r, c))
ClaudeSdkEnds(r)     == how[r] = "sdk" /\ NativeEnds(r)
ClaudeSdkFinishes(r) == how[r] = "sdk" /\ Finishing(r)

CodexAppStarts(r)   == how[r] = "app" /\ (NativeStarts(r) \/ AppFallsBack(r))
CodexAppSteers(r)   == how[r] = "app" /\ (Handover(r) \/ \E c \in Runs : SteerOpen(r, c))
CodexAppEnds(r)     == how[r] = "app" /\ NativeEnds(r)
CodexAppFinishes(r) == how[r] = "app" /\ Finishing(r)

Running(r) ==
    \/ ClaudePrintStarts(r) \/ ClaudePrintEnds(r) \/ ClaudePrintFinishes(r)
    \/ CodexExecStarts(r) \/ CodexExecEnds(r) \/ CodexExecFinishes(r)
    \/ CursorStarts(r) \/ CursorEnds(r) \/ CursorFinishes(r)
    \/ OpencodeStarts(r) \/ OpencodeEnds(r) \/ OpencodeFinishes(r)
    \/ ClaudeSdkStarts(r) \/ ClaudeSdkSteers(r) \/ ClaudeSdkEnds(r) \/ ClaudeSdkFinishes(r)
    \/ CodexAppStarts(r) \/ CodexAppSteers(r) \/ CodexAppEnds(r) \/ CodexAppFinishes(r)

Ending(r) == Unwind(r) \/ ReconcileExit(r)

Stopping ==
    \/ StopAwaitBound \/ StopAwaitGone \/ StopAwaitTimeout \/ StopInterrupt
    \/ StopConfirmed \/ StopTimeout \/ StopRelease \/ StopReleaseLost \/ StopEvent

Deletion == DeleteInterrupt \/ DeleteCancel \/ DeleteRefused \/ DeleteDone

Next ==
    \/ \E r \in Runs, t \in Transports : StartTurn(r, t) \/ Promote(r, t)
    \/ EnqueueTurn \/ PromoteNothing \/ RunHeld
    \/ \E r \in Runs : Admission(r) \/ Running(r) \/ Ending(r)
    \/ StopBegin \/ Stopping \/ StopDone
    \/ DeleteAsk \/ Deletion \/ Restart

Spec == Init /\ [][Next]_vars

-----------------------------------------------------------------------------
(* Correctness. *)

(* The transcript closes a turn at most once, whichever of its runner, the *)
(* supervisor, a hard Stop, a steering handover, a failed admission and    *)
(* the recovery after a crash got there first.                             *)
ClosedOnce == \A r \in Runs : ended[r] <= 1

(* A Stop request made before the turn was bound never outlives that turn: *)
(* the next turn of the chat would be stopped in its place.                *)
StopRequestHasTurn == stopReq => Busy

(* A turn is stopped only by a Stop or a deletion asked after the turn was *)
(* admitted, or after the turn it was steered from: a late Stop never      *)
(* reaches the turn that replaced the one it was meant for.                *)
StopHitsItsTurn == \A r \in stopped : born[r] < Asked

(* Where a runner drives its provider's turn: it has not given it up.      *)
Driving == {"spawned", "bound", "stream", "steering", "handing", "opening"}

(* Two runners never drive turns on one provider session at a time: a      *)
(* successor is not given the session of a turn whose runner still reads   *)
(* it.  (A runner that interrupted its turn in vain gives it up; the turn  *)
(* may then go on beside the next one.)                                    *)
OneTurnPerSession ==
    \A p, q \in given :
        p[2] = q[2] /\ {p[1], q[1]} \subseteq alive
        /\ {pc[host[p[1]]], pc[host[q[1]]]} \subseteq Driving
        => host[p[1]] = host[q[1]]

(* A turn that was marked as stopped before its prompt was sent is never   *)
(* sent: a prompt is given only to a run no Stop has reached.              *)
StoppedNeverSent ==
    [][\A p \in given' \ given : p[1] \notin stopped /\ ~(act.rec = host[p[1]] /\ act.stop)]_vars

(* The slot is taken from a run only by the task of that run, by a Stop or *)
(* a deletion aimed at it, or by a crash: never by the late cleanup of an  *)
(* earlier turn.                                                           *)
SlotNotStolen ==
    [][Busy /\ cur' = NoTurn /\ used' = used =>
          \/ cur.run \in stopped
          \/ \E r \in Runs : pc'[r] # pc[r] /\ (names[r] = cur.run \/ r = cur.adm)
          \/ del' = "gone"]_vars

(* A deleted chat is quiet: no task is left that could give a prompt, or   *)
(* write an event into a transcript that is being removed.                 *)
GoneIsQuiet == [][del = "gone" => UNCHANGED <<started, ended, given>>]_vars

(* When a hard Stop finds that the slot went to somebody else while it     *)
(* waited, the provider turn is over: "A natural terminal notification may *)
(* have won the race with local cancellation", so nothing is left to fence *)
(* off.                                                                    *)
LostReleaseMeansEnded ==
    [][stop.pc = "hard" /\ stop.rec # NoRun /\ ~StopStillOwns /\ stop'.pc = "done"
          => stop.run \notin alive]_vars

(* What a chat promises: SlotContract. *)
Owner == IF cur.run # NoRun THEN cur.run ELSE cur.adm

Abstract == INSTANCE SlotContract
    WITH owner <- Owner, opened <- started, closed <- {r \in Runs : ended[r] > 0}

(* The slot implements its contract: one turn at a time holds the chat,    *)
(* prompts go only to the holder or to the successor it is steered to, and *)
(* the transcript opens and closes every turn at most once.                *)
Contract == Abstract!Contract

-----------------------------------------------------------------------------
(* Fairness: every await in the runners, the Stop and the deletion is      *)
(* bounded by a timeout, a cancelled task unwinds, a dead provider's       *)
(* stream ends and a scheduled promotion runs.  A provider may work on a   *)
(* turn for ever, and users need not do anything.                          *)

StreamEnds(r) == Hosted(r) \cap alive = {} /\ (ProcessEnds(r) \/ NativeEnds(r))

(* The steps of the turn's own task, one after the other.                  *)
OwnSteps(r) ==
    Admission(r) \/ Starting(r) \/ NativeStarts(r) \/ Finishing(r) \/ Ending(r)

Fairness ==
    /\ \A r \in Runs :
          /\ WF_vars(OwnSteps(r)) /\ WF_vars(Handover(r)) /\ WF_vars(StreamEnds(r))
    /\ WF_vars(Stopping) /\ SF_vars(StopDone) /\ WF_vars(Deletion)
    /\ SF_vars(PromoteNothing \/ \E r \in Runs, t \in Transports : Promote(r, t))

FairSpec == Spec /\ Fairness

(* An explicit Stop always ends, and its fence with it. *)
StopEnds == StopFence ~> ~StopFence

(* The turn an explicit Stop found gives the chat back, however its        *)
(* provider behaves: by confirming, by dying or by being cancelled.  (A    *)
(* deletion that is refused makes no such promise.)                        *)
StoppedTurnLeaves ==
    \A r \in Runs : (stop.pc = "interrupt" /\ stop.rec = r) ~> (act.rec # r)

(* Every turn the transcript shows as started is closed in the end once it *)
(* has lost the chat, unless a crash or a broken handover tore it.         *)
LeftTurnCloses ==
    \A r \in Runs : (r \in started /\ r \notin {cur.run, act.run})
        ~> (ended[r] > 0 \/ r \in torn \/ r \in {cur.run, act.run})

(* A row that may start is not forgotten when the chat falls idle: whoever *)
(* held it back wakes the queue.                                           *)
RowStarts ==
    (row = "ready" /\ ~Busy /\ ~StopFence /\ Used # Runs)
        ~> (row # "ready" \/ Busy \/ StopFence)

(* One turn holds the chat, closes once, and is not driven out by a           *)
(* predecessor's late release (release_turn_slot,                             *)
(* finalize_owned_turn_finished).                                             *)
SlotSound ==
  /\ [](TypeOK /\ ClosedOnce /\ OneTurnPerSession)
  /\ SlotNotStolen

(* A Stop hits the turn it was meant for, a stopped prompt is never sent, and *)
(* a deleted chat stays silent (stop_turn, delete_session).                   *)
StopExact ==
  /\ [](StopRequestHasTurn /\ StopHitsItsTurn)
  /\ StoppedNeverSent
  /\ GoneIsQuiet

(* A Stop ends, its turn leaves, its transcript closes and the row that       *)
(* waited starts (run_explicit_stop_operation, start_next_queued_turn).       *)
TurnsSettle ==
  /\ StopEnds
  /\ StoppedTurnLeaves
  /\ LeftTurnCloses
  /\ RowStarts

=============================================================================
