---------------------------- MODULE ServerUpdate ----------------------------
(***************************************************************************)
(* The managed update and restart of one agents server (agent_server.py,   *)
(* update_runner.py).  Three durable records say who may replace the       *)
(* server: the row of the update status file, the restart journal and the  *)
(* maintenance fence of the Team Hub.  The server's own handlers, the      *)
(* waiter of the reservation "when idle", a detached runner per update and *)
(* its installer all read and write them, and any of them may die between  *)
(* two of its steps.                                                       *)
(***************************************************************************)
EXTENDS Integers, FiniteSets

CONSTANTS
  MaxUpdates,   \* bound: updates ever launched
  MaxScheds,    \* bound: reservations ever made
  MaxReqs,      \* bound: restarts ever accepted
  MaxTroubles   \* bound: crashes, failures and timeouts

VARIABLES
  hosted,    \* this server hosts a Team Hub
  row,       \* the update status file
  journal,   \* the restart status file
  fence,     \* the update whose maintenance fence the hub has, 0 for none
  srv,       \* the server process: up or down, its version, what ended it
  disk,      \* the version of the current release
  work,      \* a turn, a mutation or a queued row that blocks an update
  op,        \* the handler that holds SERVER_UPDATE_OPERATION_LOCK
  waiter,    \* server_update_pending_waiter_loop
  cleanup,   \* MANAGED_UPDATE_PROVIDER_QUIESCE_STRAGGLERS
  runner,    \* the detached update_runner of every update
  inst,      \* the install.sh that holds the install lock
  sigs,      \* signal threads of accepted restarts
  used,      \* updates, reservations and requests so far
  troubles

vars == <<hosted, row, journal, fence, srv, disk, work, op, waiter, cleanup, runner, inst, sigs,
          used, troubles>>
files == <<row, journal, fence>>
host == <<runner, inst, disk, hosted>>

Updates == 1 .. MaxUpdates
Scheds == 1 .. MaxScheds
Active == {"starting", "checking", "installing"}
RestartActive == {"accepted", "signaling"}

Rest(phase) == [phase |-> phase, upd |-> 0, sched |-> 0, armed |-> FALSE, young |-> FALSE, pid |-> FALSE]
Pending(s, a) == [Rest("pending") EXCEPT !.sched = s, !.armed = a]
Starting(u, s) == [Rest("starting") EXCEPT !.upd = u, !.sched = s, !.young = TRUE]
Ended(r, phase) == [r EXCEPT !.phase = phase, !.young = FALSE, !.pid = FALSE]

Journal(phase, q, mine) == [phase |-> phase, req |-> q, mine |-> mine, young |-> TRUE]

Free == [pc |-> "free", who |-> "none", idle |-> FALSE, upd |-> 0, sched |-> 0, armed |-> FALSE, err |-> "none"]
Asleep == [pc |-> "idle", first |-> 0, exp |-> 0]
NoInstaller == [pc |-> "none", upd |-> 0]

TypeOK ==
  /\ hosted \in BOOLEAN
  /\ row \in [phase : Active \cup {"rest", "pending", "complete", "failed"}, upd : 0 .. MaxUpdates,
              sched : 0 .. MaxScheds, armed : BOOLEAN, young : BOOLEAN, pid : BOOLEAN]
  /\ journal \in [phase : RestartActive \cup {"idle", "complete", "failed"}, req : 0 .. MaxReqs,
                  mine : BOOLEAN, young : BOOLEAN]
  /\ fence \in 0 .. MaxUpdates
  /\ srv \in [up : BOOLEAN, ver : {"old", "new"}, why : {"none", "install", "restart", "force", "crash"}]
  /\ disk \in {"old", "new"} /\ work \in BOOLEAN
  /\ op.pc \in {"free", "check", "row", "quiesce", "launch", "unfence", "settle", "arm", "accept", "restart"}
  /\ waiter.pc \in {"idle", "advance", "start", "busy", "fail"}
  /\ cleanup \in {"none", "closing", "failed"}
  /\ runner \in [Updates -> {"none", "begin", "checking", "idle", "spawn", "wait", "after", "except", "gone"}]
  /\ inst.pc \in {"none", "run", "ready", "down", "new", "back", "ok", "bad"}
  /\ sigs \subseteq [req : 1 .. MaxReqs, forced : BOOLEAN]

Init ==
  /\ hosted \in BOOLEAN
  /\ row = Rest("rest") /\ journal = [Journal("idle", 0, FALSE) EXCEPT !.young = FALSE] /\ fence = 0
  /\ srv = [up |-> TRUE, ver |-> "old", why |-> "none"] /\ disk = "old"
  /\ work = FALSE /\ op = Free /\ waiter = Asleep /\ cleanup = "none"
  /\ runner = [u \in Updates |-> "none"] /\ inst = NoInstaller /\ sigs = {}
  /\ used = [upd |-> 0, sched |-> 0, req |-> 0] /\ troubles = 0

Trouble == troubles < MaxTroubles /\ troubles' = troubles + 1

-----------------------------------------------------------------------------
(* What the records say.                                                     *)

(* managed_server_update_blocks_work                                         *)
UpdateBlocksWork == row.phase \in Active \/ cleanup # "none"
RestartBlocksWork == journal.phase \in RestartActive
ForcePending == row.phase = "pending" /\ row.armed

(* managed_server_update_admission_blocker                                   *)
AdmissionBlocked == UpdateBlocksWork \/ RestartBlocksWork \/ ForcePending

(* server_update_has_blockers, server_restart_blocker_snapshot_locked: one   *)
(* flag for turns, queued rows, mutations and provider work.                 *)
UpdateBlockers == work
RestartBlockers == work

RunnerAlive(u) == u # 0 /\ runner[u] \notin {"none", "gone"}

(* server_update_is_active: by the recorded process, or by a tmux probe that *)
(* may fail.                                                                 *)
SeenActive(seen) ==
  \/ seen /\ RunnerAlive(row.upd)
  \/ ~seen /\ (~RunnerAlive(row.upd) \/ ~row.pid)

(* Fault: only a runner that recorded its process counts as abandoned. *)
AbandonedByPid == row.phase \in Active /\ ~row.young /\ row.pid /\ SeenActive(FALSE)

Abandoned == row.phase \in Active /\ ~row.young /\ SeenActive(FALSE)

(* Fault: an installation whose fence stands is finalized as well. *)
FinalizeAnyway == fence # 0 => fence = row.upd

(* What finalize_abandoned_server_update checks of the records.              *)
FinalizeSafe ==
  /\ fence # 0 => fence = row.upd
  /\ row.phase = "installing" => fence = 0

(* What it writes, in a server of version ver.                               *)
Finalized(ver) == Ended(row, IF ver = "new" THEN "complete" ELSE "failed")

-----------------------------------------------------------------------------
(* Work, time and the process.                                               *)

ActiveLock == op.pc = "row"      \* the start handler keeps ACTIVE_LOCK from its check to its row

Admit ==
  /\ srv.up /\ ~work /\ ~ActiveLock /\ ~AdmissionBlocked
  /\ work' = TRUE
  /\ UNCHANGED <<files, srv, op, waiter, cleanup, host, sigs, used, troubles>>

Finish ==
  /\ work /\ work' = FALSE
  /\ UNCHANGED <<files, srv, op, waiter, cleanup, host, sigs, used, troubles>>

(* A record leaves its grace period, staleness limit or cooldown.            *)
Age ==
  /\ \/ row.young /\ row' = [row EXCEPT !.young = FALSE] /\ UNCHANGED journal
     \/ journal.young /\ journal.phase # "signaling"
        /\ journal' = [journal EXCEPT !.young = FALSE] /\ UNCHANGED row
  /\ UNCHANGED <<fence, srv, work, op, waiter, cleanup, host, sigs, used, troubles>>

(* Everything that lives in the process goes with it.                        *)
Down(why, j) ==
  /\ srv' = [srv EXCEPT !.up = FALSE, !.why = why]
  /\ journal' = [j EXCEPT !.mine = FALSE]
  /\ work' = FALSE /\ op' = Free /\ waiter' = Asleep /\ cleanup' = "none" /\ sigs' = {}

Crash ==
  /\ srv.up /\ Trouble /\ Down("crash", journal)
  /\ UNCHANGED <<row, fence, host, used>>

(* The machine restarts: runners and installer die as well.                  *)
Reboot ==
  /\ Trouble /\ Down("crash", journal)
  /\ runner' = [u \in Updates |-> IF RunnerAlive(u) THEN "gone" ELSE runner[u]]
  /\ inst' = NoInstaller
  /\ UNCHANGED <<row, fence, disk, hosted, used>>

(* _reconcile_server_update_team_hub_fence raises.                           *)
FenceContested ==
  fence # 0 /\ IF row.phase \in Active THEN fence # row.upd ELSE fence = row.upd

(* reconcile_server_restart_status_after_startup                             *)
Serve ==
  /\ ~srv.up /\ inst.pc \notin {"down", "back"}
  /\ srv' = [up |-> TRUE, ver |-> disk, why |-> "none"]
  /\ journal' = IF RestartBlocksWork THEN Journal("complete", journal.req, FALSE) ELSE journal
  /\ UNCHANGED <<work, op, waiter, cleanup, host, sigs, used>>

(* With reconcile_server_update_status_after_startup, before the server      *)
(* serves.                                                                   *)
Startup ==
  /\ Serve /\ UNCHANGED troubles
  /\ \/ FenceContested /\ UNCHANGED <<row, fence>>
     \/ /\ ~FenceContested /\ row.phase = "pending" /\ fence' = 0
        /\ row' = IF disk = "new" THEN Rest("rest") ELSE row
     \/ ~FenceContested /\ row.phase \notin Active \cup {"pending"} /\ fence' = 0 /\ UNCHANGED row
     \/ ~FenceContested /\ row.phase \in Active /\ ~Abandoned /\ UNCHANGED <<row, fence>>
     \/ ~FenceContested /\ Abandoned /\ ~FinalizeSafe /\ UNCHANGED <<row, fence>>
     \/ ~FenceContested /\ Abandoned /\ FinalizeSafe /\ row' = Finalized(disk) /\ fence' = 0

(* The identity of the hub does not verify, or its fence cannot be cleared:  *)
(* the server serves with the row as it is.                                  *)
StartupUnverified ==
  /\ Serve /\ Trouble
  /\ ~FenceContested /\ Abandoned /\ FinalizeSafe /\ UNCHANGED <<row, fence>>

-----------------------------------------------------------------------------
(* Starting an update.                                                       *)

(* Where the waiter goes after its start: back to sleep, or, when the error  *)
(* was not transient, to the failure of its reservation.                     *)
Return(transient) ==
  waiter' = IF op.who # "waiter" THEN waiter
            ELSE IF transient THEN Asleep ELSE [waiter EXCEPT !.pc = "fail"]

Release(transient) == op' = Free /\ Return(transient)

(* _start_server_update up to the admission locks, with the row r that the   *)
(* previous update leaves: an abandoned one is finalized here.               *)
BeginStart(who, idle) ==
  LET exp == IF who = "waiter" THEN waiter.exp ELSE 0
      busy == row.phase \in Active
      r == IF busy THEN Finalized(srv.ver) ELSE row
      sched == IF r.phase = "pending" THEN r.sched ELSE 0
  IN /\ srv.up /\ op.pc = "free" /\ ~RestartBlocksWork /\ cleanup = "none"
     /\ busy => Abandoned /\ FinalizeSafe
     /\ exp # 0 => sched = exp
     /\ who = "user" /\ sched # 0 => idle
     /\ IF srv.ver = "new"
          THEN /\ row' = Rest("rest") /\ op' = op
               /\ waiter' = IF who = "waiter" THEN Asleep ELSE waiter
          ELSE /\ row' = r
               /\ op' = [Free EXCEPT !.pc = "check", !.who = who, !.idle = idle, !.sched = sched, !.armed = r.armed]
               /\ waiter' = IF who = "waiter" THEN [waiter EXCEPT !.pc = "busy"] ELSE waiter
     /\ fence' = IF busy THEN 0 ELSE fence
     /\ UNCHANGED <<journal, srv, work, cleanup, host, sigs, used, troubles>>

UserStart == used.upd < MaxUpdates /\ \E idle \in BOOLEAN : BeginStart("user", idle)
WaiterStart == waiter.pc = "start" /\ BeginStart("waiter", TRUE)

(* The start that the waiter makes is refused: for now, or for good.         *)
WaiterRefused ==
  /\ srv.up /\ waiter.pc = "start" /\ op.pc = "free"
  /\ \/ /\ RestartBlocksWork \/ cleanup = "closing" \/ (row.phase \in Active /\ ~(Abandoned /\ FinalizeSafe))
           \/ (row.phase = "pending" => row.sched # waiter.exp)
        /\ waiter' = Asleep /\ UNCHANGED troubles
     \/ /\ ~RestartBlocksWork
        /\ \/ (cleanup = "failed" \/ (Abandoned /\ ~FinalizeSafe)) /\ UNCHANGED troubles
           \/ Abandoned /\ FinalizeSafe /\ Trouble
        /\ waiter' = [waiter EXCEPT !.pc = "fail"]
  /\ UNCHANGED <<files, srv, work, op, cleanup, host, sigs, used>>

(* A check before the locks fails: the manifest, tmux, the service cgroup.   *)
StartFails ==
  /\ op.pc = "check" /\ Trouble /\ Release(FALSE)
  /\ UNCHANGED <<files, srv, work, cleanup, host, sigs, used>>

(* Under the admission locks there is work: the update is reserved for later *)
(* or refused.                                                               *)
Reserve ==
  LET s == IF op.sched # 0 THEN op.sched ELSE used.sched + 1
  IN /\ op.pc = "check" /\ UpdateBlockers /\ op.idle /\ s \in Scheds
     /\ row' = Pending(s, op.sched # 0 /\ op.armed)
     /\ used' = [used EXCEPT !.sched = IF op.sched = 0 THEN s ELSE @]
     /\ Release(TRUE)
     /\ UNCHANGED <<journal, fence, srv, work, cleanup, host, sigs, troubles>>

RefuseBusy ==
  /\ op.pc = "check" /\ UpdateBlockers /\ (~op.idle \/ (op.sched = 0 /\ used.sched = MaxScheds)) /\ Release(FALSE)
  /\ UNCHANGED <<files, srv, work, cleanup, host, sigs, used, troubles>>

(* Idle: the hub is fenced for a new update id (prepare_maintenance).        *)
Fence ==
  /\ op.pc = "check" /\ ~UpdateBlockers /\ fence = 0 /\ used.upd < MaxUpdates
  /\ used' = [used EXCEPT !.upd = @ + 1]
  /\ op' = [op EXCEPT !.pc = "row", !.upd = used.upd + 1]
  /\ fence' = IF hosted THEN used.upd + 1 ELSE 0
  /\ UNCHANGED <<row, journal, srv, work, waiter, cleanup, host, sigs, troubles>>

(* No update id is left in this model, or a fence is in the way.             *)
FenceRefused ==
  /\ op.pc = "check" /\ ~UpdateBlockers /\ (fence # 0 \/ used.upd = MaxUpdates) /\ Release(FALSE)
  /\ UNCHANGED <<files, srv, work, cleanup, host, sigs, used, troubles>>

(* The starting row, which fences admission from here on.  When it cannot be *)
(* written the hub's fence goes, unless that fails as well.                  *)
WriteStarting ==
  /\ op.pc = "row"
  /\ \/ /\ row' = Starting(op.upd, op.sched) /\ op' = [op EXCEPT !.pc = "quiesce"]
        /\ UNCHANGED <<fence, waiter, troubles>>
     \/ Trouble /\ fence' \in {0, fence} /\ Release(FALSE) /\ UNCHANGED row
  /\ UNCHANGED <<journal, srv, work, cleanup, host, sigs, used>>

(* quiesce_managed_update_service_cgroup: the providers close, do not close  *)
(* in time, fail to close, or leave a process in the service's cgroup.       *)
Quiesce ==
  /\ op.pc = "quiesce"
  /\ \/ op' = [op EXCEPT !.pc = "launch"] /\ UNCHANGED <<cleanup, troubles>>
     \/ /\ Trouble
        /\ \/ op' = [op EXCEPT !.pc = "unfence", !.err = "timeout"] /\ cleanup' = "closing"
           \/ op' = [op EXCEPT !.pc = "unfence", !.err = "retry"] /\ cleanup' \in {"none", "failed"}
  /\ UNCHANGED <<files, srv, work, waiter, host, sigs, used>>

(* A detached tmux session runs the runner; the command may also time out    *)
(* although the session was made.                                            *)
Launch ==
  /\ op.pc = "launch"
  /\ \/ runner' = [runner EXCEPT ![op.upd] = "begin"] /\ Release(TRUE) /\ UNCHANGED troubles
     \/ /\ Trouble /\ op' = [op EXCEPT !.pc = "unfence", !.err = "hard"] /\ UNCHANGED waiter
        /\ runner' \in {runner, [runner EXCEPT ![op.upd] = "begin"]}
  /\ UNCHANGED <<files, srv, work, cleanup, inst, disk, hosted, sigs, used>>

(* fail_runner_launch: first the fence, then the row.  A fence that cannot   *)
(* be cleared leaves the row starting.                                       *)
Unfence ==
  /\ op.pc = "unfence"
  /\ \/ op' = [op EXCEPT !.pc = "settle"] /\ UNCHANGED <<waiter, troubles>>
        /\ fence' = IF fence = op.upd THEN 0 ELSE fence
     \/ hosted /\ Trouble /\ Release(op.err = "timeout") /\ UNCHANGED fence
  /\ UNCHANGED <<row, journal, srv, work, cleanup, host, sigs, used>>

(* restore_pending_server_update_after_provider_quiesce_timeout gives the    *)
(* reservation back if the row is still the one of this start.               *)
Restorable == row.phase = "starting" /\ row.upd = op.upd /\ row.sched = op.sched

Settle ==
  /\ op.pc = "settle"
  /\ row' = CASE op.err = "timeout" /\ op.sched # 0 -> IF Restorable THEN Pending(op.sched, op.armed) ELSE row
              [] op.err = "hard" -> Ended(row, "failed")
              [] OTHER -> Rest("rest")
  /\ Release(op.err = "timeout")
  /\ UNCHANGED <<journal, fence, srv, work, cleanup, host, sigs, used, troubles>>

(* A provider that closed late settles; a failed one keeps the fence up.     *)
CleanupEnds ==
  /\ srv.up /\ cleanup = "closing"
  /\ \/ cleanup' = "none" /\ UNCHANGED troubles
     \/ cleanup' = "failed" /\ Trouble
  /\ UNCHANGED <<files, srv, work, op, waiter, host, sigs, used>>

-----------------------------------------------------------------------------
(* The reservation and its waiter.                                           *)

WaiterLooks ==
  /\ srv.up /\ waiter.pc = "idle" /\ row.phase = "pending"
  /\ waiter' = [Asleep EXCEPT !.pc = "advance", !.first = row.sched]
  /\ UNCHANGED <<files, srv, work, op, cleanup, host, sigs, used, troubles>>

(* advance_pending_server_update_once reads the row again, under the lock    *)
(* that it then gives back.                                                  *)
WaiterAdvances ==
  /\ srv.up /\ waiter.pc = "advance" /\ op.pc = "free"
  /\ waiter' = IF row.phase = "pending" THEN [waiter EXCEPT !.pc = "start", !.exp = row.sched] ELSE Asleep
  /\ UNCHANGED <<files, srv, work, op, cleanup, host, sigs, used, troubles>>

(* fail_pending_server_update, for the reservation that the loop first saw.  *)
WaiterFails ==
  /\ srv.up /\ waiter.pc = "fail" /\ op.pc = "free"
  /\ row' = IF row.phase = "pending" /\ row.sched = waiter.first THEN Rest("rest") ELSE row
  /\ waiter' = Asleep
  /\ UNCHANGED <<journal, fence, srv, work, op, cleanup, host, sigs, used, troubles>>

Cancelable == row.phase = "pending" /\ ~row.armed

Cancel ==
  /\ srv.up /\ op.pc = "free" /\ cleanup # "failed" /\ Cancelable
  /\ row' = Rest("rest")
  /\ UNCHANGED <<journal, fence, srv, work, op, waiter, cleanup, host, sigs, used, troubles>>

(* server_update_status finalizes what the runner abandoned.                 *)
Poll ==
  /\ srv.up /\ op.pc = "free" /\ cleanup # "failed" /\ Abandoned /\ FinalizeSafe
  /\ row' = Finalized(srv.ver) /\ fence' = 0
  /\ UNCHANGED <<journal, srv, work, op, waiter, cleanup, host, sigs, used, troubles>>

(* check_server_update: a new look at the releases forgets how the previous  *)
(* update ended, unless it failed.                                           *)
CheckRelease ==
  LET r == IF row.phase \in Active THEN Finalized(srv.ver) ELSE row
  IN /\ srv.up /\ op.pc = "free" /\ ~RestartBlocksWork /\ cleanup # "failed" /\ row.phase # "pending"
     /\ row.phase \in Active => Abandoned /\ FinalizeSafe
     /\ row' = IF r.phase = "failed" THEN r ELSE Rest("rest")
     /\ fence' = IF row.phase \in Active THEN 0 ELSE fence
     /\ UNCHANGED <<journal, srv, work, op, waiter, cleanup, host, sigs, used, troubles>>

-----------------------------------------------------------------------------
(* Restarts.                                                                 *)

(* _restart_server_endpoint_impl: refused during another restart, in its     *)
(* cooldown and during an update; checked again under the admission locks.   *)
CoolingDown == journal.phase \in {"complete", "failed"} /\ journal.young

AskRestart ==
  /\ srv.up /\ op.pc = "free" /\ ~RestartBlocksWork /\ ~CoolingDown /\ ~UpdateBlocksWork /\ used.req < MaxReqs
  /\ op' = [Free EXCEPT !.pc = "restart", !.who = "restart"]
  /\ UNCHANGED <<files, srv, work, waiter, cleanup, host, sigs, used, troubles>>

RestartSafe == ~RestartBlocksWork /\ ~UpdateBlocksWork /\ ~RestartBlockers

Accepted(forced) ==
  /\ used' = [used EXCEPT !.req = @ + 1]
  /\ sigs' = sigs \cup {[req |-> used.req + 1, forced |-> forced]}

AcceptRestart ==
  /\ op.pc = "restart" /\ RestartSafe /\ used.req < MaxReqs
  /\ journal' = Journal("accepted", used.req + 1, TRUE) /\ Accepted(FALSE) /\ op' = Free
  /\ UNCHANGED <<row, fence, srv, work, waiter, cleanup, host, troubles>>

RefuseRestart ==
  /\ op.pc = "restart" /\ (~RestartSafe \/ used.req = MaxReqs) /\ op' = Free
  /\ UNCHANGED <<files, srv, work, waiter, cleanup, host, sigs, used, troubles>>

(* accept_forced_server_restart.  Bound to a reservation it needs the lock   *)
(* and that exact reservation, and arms it; an unbound one goes on without   *)
(* the lock when it cannot have it.                                          *)
AskForced ==
  /\ srv.up /\ op.pc = "free" /\ used.req < MaxReqs
  /\ \/ row.phase = "pending" /\ ~row.armed /\ op' = [Free EXCEPT !.pc = "arm", !.who = "force", !.sched = row.sched]
     \/ op' = [Free EXCEPT !.pc = "accept", !.who = "force"]
  /\ UNCHANGED <<files, srv, work, waiter, cleanup, host, sigs, used, troubles>>

Arm ==
  /\ op.pc = "arm" /\ op' = [op EXCEPT !.pc = "accept"]
  /\ row' = [row EXCEPT !.armed = TRUE]
  /\ UNCHANGED <<journal, fence, srv, work, waiter, cleanup, host, sigs, used, troubles>>

(* The journal is written, or the restart goes on without it.                *)
AcceptForced ==
  /\ srv.up /\ used.req < MaxReqs /\ Accepted(TRUE)
  /\ \/ op.pc = "accept" /\ op' = Free
     \/ op.pc \notin {"free", "accept", "arm"} /\ UNCHANGED op
  /\ \/ journal' = Journal("accepted", used.req + 1, TRUE) /\ UNCHANGED troubles
     \/ Trouble /\ UNCHANGED journal
  /\ UNCHANGED <<row, fence, srv, work, waiter, cleanup, host>>

ForcedSpent == /\ op.pc = "accept" /\ used.req = MaxReqs /\ op' = Free
               /\ UNCHANGED <<files, srv, work, waiter, cleanup, host, sigs, used, troubles>>

(* signal_managed_server_restart fires only for the journal it was started   *)
(* for; signal_forced_server_restart in any case.                            *)
SignalValid(q) == q.forced \/ (journal.req = q.req /\ journal.phase = "accepted" /\ journal.mine)

Signal ==
  \E q \in sigs :
    /\ SignalValid(q)
    /\ Down(IF q.forced THEN "force" ELSE "restart", Journal("signaling", q.req, TRUE))
    /\ UNCHANGED <<row, fence, host, used, troubles>>

SignalDropped ==
  \E q \in sigs :
    /\ \/ ~SignalValid(q) /\ UNCHANGED <<journal, troubles>>
       \/ SignalValid(q) /\ ~q.forced /\ Trouble /\ journal' = Journal("failed", q.req, TRUE)
    /\ sigs' = sigs \ {q}
    /\ UNCHANGED <<row, fence, srv, work, op, waiter, cleanup, host, used>>

(* reconcile_stale_server_restart_acceptance                                 *)
Stale ==
  /\ srv.up /\ journal.phase = "accepted" /\ journal.mine /\ ~journal.young
  /\ journal' = Journal("failed", journal.req, TRUE)
  /\ UNCHANGED <<row, fence, srv, work, op, waiter, cleanup, host, sigs, used, troubles>>

-----------------------------------------------------------------------------
(* The detached runner.  update_status writes only while the row is still    *)
(* the one of its update and active.                                         *)

Owns(u) == row.upd = u /\ row.phase \in Active
serverSide == <<journal, srv, work, op, waiter, cleanup, sigs, used, hosted, disk>>

Step(u, from, to, phase) ==
  /\ runner[u] = from
  /\ \/ /\ Owns(u) /\ runner' = [runner EXCEPT ![u] = to]
        /\ row' = [row EXCEPT !.phase = phase, !.young = TRUE, !.pid = TRUE]
     \/ ~Owns(u) /\ runner' = [runner EXCEPT ![u] = "gone"] /\ UNCHANGED row
  /\ UNCHANGED <<fence, serverSide, troubles>>

Check(u) == Step(u, "begin", "checking", "checking") /\ UNCHANGED inst

(* The download takes longer than the cleanup after a launch that timed out. *)
Downloaded(u) == ~(op.upd = u /\ op.err = "hard")

(* wait_for_server_idle, between two writes of the row.                      *)
WaitIdle(u) == srv.up /\ ~work /\ Downloaded(u) /\ Step(u, "checking", "idle", "checking") /\ UNCHANGED inst

Busy(u) ==
  /\ runner[u] = "checking" /\ srv.up /\ work /\ runner' = [runner EXCEPT ![u] = "except"]
  /\ UNCHANGED <<row, fence, serverSide, inst, troubles>>

Install(u) == Step(u, "idle", "spawn", "installing") /\ UNCHANGED inst

(* run_installer; a second install.sh does not get the install lock and      *)
(* gives its fence back.                                                     *)
Spawn(u) ==
  \/ inst.pc = "none" /\ Step(u, "spawn", "wait", "installing")
     /\ inst' = IF Owns(u) THEN [pc |-> "run", upd |-> u] ELSE inst
  \/ /\ inst.pc # "none" /\ runner[u] = "spawn" /\ runner' = [runner EXCEPT ![u] = "except"]
     /\ fence' = IF fence = u THEN 0 ELSE fence
     /\ UNCHANGED <<row, inst, serverSide, troubles>>

Collect(u) ==
  /\ runner[u] = "wait" /\ inst.upd = u /\ inst.pc \in {"ok", "bad"}
  /\ runner' = [runner EXCEPT ![u] = IF inst.pc = "ok" THEN "after" ELSE "except"]
  /\ inst' = NoInstaller
  /\ UNCHANGED <<row, fence, serverSide, troubles>>

(* The new server answers with the expected identities.                      *)
Complete(u) ==
  /\ runner[u] = "after" /\ srv.up /\ runner' = [runner EXCEPT ![u] = "gone"]
  /\ row' = IF Owns(u) THEN Ended(row, "complete") ELSE row
  /\ UNCHANGED <<fence, serverSide, inst, troubles>>

RunnerError(u) ==
  /\ runner[u] \in {"begin", "checking", "after"} /\ Trouble
  /\ runner' = [runner EXCEPT ![u] = "except"]
  /\ UNCHANGED <<row, fence, serverSide, inst>>

(* main's exception handler: before the installation it gives the fence      *)
(* back, after it a fence that is still there keeps the row active.          *)
Handle(u) ==
  /\ runner[u] = "except" /\ runner' = [runner EXCEPT ![u] = "gone"]
  /\ \/ ~Owns(u) /\ UNCHANGED <<row, fence, troubles>>
     \/ /\ Owns(u) /\ row.phase # "installing" /\ UNCHANGED troubles
        /\ row' = Ended(row, "failed") /\ fence' = IF fence = u THEN 0 ELSE fence
     \/ Owns(u) /\ row.phase # "installing" /\ fence = u /\ Trouble /\ UNCHANGED <<row, fence>>
     \/ /\ Owns(u) /\ row.phase = "installing" /\ UNCHANGED <<fence, troubles>>
        /\ row' = IF fence = u THEN row ELSE Ended(row, "failed")
  /\ UNCHANGED <<serverSide, inst>>

RunnerDies(u) ==
  /\ RunnerAlive(u) /\ Trouble /\ runner' = [runner EXCEPT ![u] = "gone"]
  /\ UNCHANGED <<row, fence, serverSide, inst>>

-----------------------------------------------------------------------------
(* The installer, as far as the server sees it (its own recovery is the      *)
(* subject of ActivationTransaction).                                        *)

Installer(from, to) == inst.pc = from /\ inst' = [inst EXCEPT !.pc = to] /\ UNCHANGED <<row, runner, hosted, used, troubles>>
Serving == <<journal, srv, work, op, waiter, cleanup, sigs>>
FenceGone == fence' = IF fence = inst.upd THEN 0 ELSE fence

(* verify_team_hub_operation_fence, or early_operation_cleanup.              *)
TakeOver == /\ hosted => fence = inst.upd
            /\ Installer("run", "ready") /\ UNCHANGED <<fence, disk, Serving>>

GiveUp == \E p \in {"run", "ready"} : Installer(p, "bad") /\ FenceGone /\ UNCHANGED <<disk, Serving>>

StopService ==
  /\ Installer("ready", "down") /\ UNCHANGED <<fence, disk>>
  /\ IF srv.up THEN Down("install", journal) ELSE UNCHANGED Serving

Swap == Installer("down", "new") /\ disk' = "new" /\ UNCHANGED <<fence, Serving>>

Commit == srv.up /\ Installer("new", "ok") /\ FenceGone /\ UNCHANGED <<disk, Serving>>

(* restore_previous_release, or the changes before the candidate.            *)
TakeBack ==
  \E p \in {"down", "new"} :
    /\ Installer(p, "back") /\ disk' = "old" /\ UNCHANGED fence
    /\ IF srv.up THEN Down("install", journal) ELSE UNCHANGED Serving

BackUp ==
  /\ UNCHANGED <<disk, Serving>>
  /\ Installer("back", "bad") /\ (FenceGone \/ UNCHANGED fence)

(* Nobody waits for the installer of a dead runner.                          *)
Reaped ==
  /\ inst.pc \in {"ok", "bad"} /\ ~RunnerAlive(inst.upd) /\ inst' = NoInstaller
  /\ UNCHANGED <<files, serverSide, runner, troubles>>

-----------------------------------------------------------------------------
StartSteps == \/ Reserve \/ RefuseBusy \/ Fence \/ FenceRefused \/ WriteStarting \/ Quiesce \/ Launch
              \/ Unfence \/ Settle
WaiterSteps == WaiterLooks \/ WaiterAdvances \/ WaiterStart \/ WaiterRefused \/ WaiterFails
RestartSteps == AcceptRestart \/ RefuseRestart \/ Arm \/ AcceptForced \/ ForcedSpent
RunnerSteps(u) == Check(u) \/ WaitIdle(u) \/ Busy(u) \/ Install(u) \/ Spawn(u) \/ Collect(u) \/ Complete(u) \/ Handle(u)
InstallerSteps == TakeOver \/ GiveUp \/ StopService \/ Swap \/ Commit \/ TakeBack \/ BackUp \/ Reaped

Next ==
  \/ Admit \/ Finish \/ Age \/ Crash \/ Reboot \/ Startup \/ StartupUnverified
  \/ UserStart \/ StartFails \/ StartSteps \/ CleanupEnds \/ WaiterSteps \/ Cancel \/ Poll \/ CheckRelease
  \/ AskRestart \/ AskForced \/ RestartSteps \/ Signal \/ SignalDropped \/ Stale
  \/ (\E u \in Updates : RunnerSteps(u) \/ RunnerError(u) \/ RunnerDies(u))
  \/ InstallerSteps

Spec == Init /\ [][Next]_vars

(* The service manager restarts the server, its tasks, threads, runners and  *)
(* installers go on, time passes, a turn ends, and a desktop asks for the    *)
(* status of an update it follows.                                           *)
Fairness ==
  /\ WF_vars(StartSteps) /\ WF_vars(WaiterSteps) /\ WF_vars(RestartSteps) /\ WF_vars(Startup)
  /\ WF_vars(Age) /\ WF_vars(Poll) /\ WF_vars(Finish) /\ WF_vars(CleanupEnds)
  /\ WF_vars(Signal \/ SignalDropped) /\ WF_vars(Stale) /\ WF_vars(InstallerSteps)
  /\ \A u \in Updates : WF_vars(RunnerSteps(u))

FairSpec == Spec /\ Fairness

-----------------------------------------------------------------------------
(* The installer of a runner that died, on a server without a hub: nothing   *)
(* tells the server that it is still at work.                                *)
Stray == inst.pc # "none" /\ ~hosted /\ runner[inst.upd] = "gone"

(* Neither an installer that is not stray nor a cooperative restart ends work *)
(* in progress.                                                              *)
NothingInterrupted ==
  [][srv.up /\ ~srv'.up /\ srv'.why \in {"install", "restart"} /\ work => Stray]_vars

(* While the service is in an installer's hands, the row is the active row   *)
(* of that installer's update and the hub has its fence: no work is admitted *)
(* by a server that starts meanwhile. A stray one is excepted.               *)
InstallerGuarded ==
  inst.pc \in {"down", "new", "back"} /\ ~Stray =>
    row.phase = "installing" /\ row.upd = inst.upd /\ (hosted => fence = inst.upd)

(* In a server that is up, a fenced hub has an update that will release it,  *)
(* or was fenced for a start that could not write its row: nothing runs      *)
(* under that fence, and the next start of the server releases it.           *)
FenceOwned ==
  srv.up /\ fence # 0 =>
    \/ op.pc = "row" /\ op.upd = fence
    \/ row.phase \in Active /\ row.upd = fence
    \/ runner[fence] = "none" /\ inst.upd # fence /\ row.phase \notin Active

(* A reservation that was cancelled, failed or used up does not come back,   *)
(* and an armed one stays armed.                                             *)
ReservationExact ==
  [][/\ row'.sched # 0 /\ row'.sched # row.sched => row'.sched > used.sched
     /\ row'.phase = "starting" /\ row.phase # "starting" /\ row'.sched # 0 => row.phase = "pending" /\ row.sched = row'.sched
     /\ ForcePending /\ row'.phase = "pending" => row'.armed]_vars

(* A row becomes complete only on the new release, and an installer that may *)
(* still go back has not been reported complete.                             *)
CompleteMeansInstalled ==
  [][/\ row.phase # "complete" /\ row'.phase = "complete" => disk = "new"
     /\ row.phase = "complete" /\ disk = "new" => disk' = "new" \/ Stray]_vars

(* A confirmed forced update is carried out or given up: the work that it    *)
(* keeps out is not kept out for ever.                                       *)
ArmedSettles == ForcePending ~> ~ForcePending

(* So is a restart.                                                          *)
RestartSettles == RestartBlocksWork ~> ~RestartBlocksWork

(* An update that has not reached its installation gets there or ends, even  *)
(* when its server or its runner dies.                                       *)
StartSettles == row.phase \in {"starting", "checking"} ~> row.phase \notin {"starting", "checking"} \/ cleanup = "failed"

(* Whatever dies when, no work is interrupted, the installer acts only under *)
(* its own row and fence, and the reservation is used once; a stray installer *)
(* is outside of this, and so is the fence of a failed start until the next  *)
(* (_start_server_update, update_status, finalize_abandoned_server_update).  *)
UpdateSound ==
  /\ [](TypeOK /\ InstallerGuarded /\ FenceOwned)
  /\ NothingInterrupted
  /\ ReservationExact
  /\ CompleteMeansInstalled

(* Nothing that fences work off waits for ever: a forced update, an accepted *)
(* restart, an update before its installation                                *)
(* (server_update_pending_waiter_loop, signal_managed_server_restart,        *)
(* server_update_status).                                                    *)
UpdateSettles ==
  /\ ArmedSettles
  /\ RestartSettles
  /\ StartSettles

=============================================================================
