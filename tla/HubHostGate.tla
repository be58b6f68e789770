----------------------------- MODULE HubHostGate -----------------------------
(***************************************************************************)
(* The doors of the hosted Team Hub.  Requests come through the mounted    *)
(* application, through the mTLS listener of paired servers, and from the  *)
(* server's own agents; an update, a restart, a shutdown, a demotion and a *)
(* change of the listener's endpoint close the doors, wait until every     *)
(* admitted request has ended, do their work and open them again, each     *)
(* without knowing of the others.                                          *)
(***************************************************************************)
EXTENDS Integers, FiniteSets

CONSTANTS
  Web, Peers, Agents,   \* the requests of each lane
  Kinds,                \* the closing operations that may be asked for
  MaxTasks,             \* how many of them
  MaxMoves              \* changes of the listener's endpoint

VARIABLES
  door,      \* the mounted application accepts requests
  gate,      \* peer admission: open, closed for all, and the closure epoch
  req,       \* request -> where it is, and the endpoint it came through
  net,       \* the listener: live, and the number of its endpoint
  host,      \* the Hub's store, its peer attachment, its runtime lease
  fence,     \* the maintenance fence is on disk
  snap,      \* a snapshot was taken, with no fence, that no later write may miss
  task,      \* the closing operation under way
  move,      \* the endpoint change under way
  late,      \* a write was committed after such a snapshot
  closing,   \* the secure peer runtime shuts down
  count

vars == <<door, gate, req, net, host, fence, snap, task, move, late, closing, count>>

Lanes == Web \cup Peers \cup Agents
Out == [at |-> "out", via |-> 0]
NoTask == [k |-> "none", pc |-> "none", abort |-> FALSE]
NoMove == [pc |-> "none", epoch |-> 0, was |-> FALSE]

Init ==
  /\ door = TRUE
  /\ gate = [open |-> TRUE, closed |-> FALSE, epoch |-> 0]
  /\ req = [r \in Lanes |-> Out]
  /\ net = [live |-> TRUE, ep |-> 1]
  /\ host = [store |-> TRUE, attached |-> TRUE, lease |-> TRUE]
  /\ fence = FALSE /\ snap = FALSE /\ late = FALSE /\ closing = FALSE
  /\ task = NoTask /\ move = NoMove
  /\ count = [tasks |-> 0, moves |-> 0]

InFlight(lane) == \E r \in lane : req[r].at \in {"in", "ready"}
Leave(r) == req' = [req EXCEPT ![r] = Out]
Move(r, at) == req' = [req EXCEPT ![r] = [at |-> at, via |-> @.via]]
(* The runtime's guard: an endpoint change holds it from the moment it     *)
(* stops the old listener until it has the new one.                        *)
GuardFree == move.pc # "stop"
rest == <<door, gate, net, host, fence, snap, task, move, closing, count>>

-----------------------------------------------------------------------------
(* Requests.                                                               *)

(* The server's middleware refuses unsafe requests to the mounted Hub      *)
(* while an update or a restart has its locks.                             *)
WebEnter(r) ==
  /\ r \in Web /\ req[r] = Out /\ door /\ host.store
  /\ task.k \notin {"update", "restart"}
  /\ Move(r, "in")
  /\ UNCHANGED <<rest, late>>

(* The fence is read without its lock, and the write follows later.        *)
WebCheck(r) ==
  /\ r \in Web /\ req[r].at = "in"
  /\ IF fence THEN Leave(r) ELSE Move(r, "ready")
  /\ UNCHANGED <<rest, late>>

Written == late' = (late \/ snap \/ fence)

WebWrite(r) ==
  /\ r \in Web /\ req[r].at = "ready"
  /\ Leave(r) /\ Written
  /\ UNCHANGED rest

Connect(r) ==
  /\ r \in Peers /\ req[r] = Out /\ net.live /\ GuardFree
  /\ req' = [req EXCEPT ![r] = [at |-> "worker", via |-> net.ep]]
  /\ UNCHANGED <<rest, late>>

(* A heartbeat only needs the guard; anything else must be admitted.       *)
Heartbeat(r) ==
  /\ r \in Peers /\ req[r].at = "worker" /\ GuardFree
  /\ Leave(r)
  /\ UNCHANGED <<rest, late>>

PeerEnter(r) ==
  /\ r \in Peers /\ req[r].at = "worker"
  /\ IF gate.open THEN Move(r, "in") ELSE Leave(r)
  /\ UNCHANGED <<rest, late>>

AgentEnter(r) ==
  /\ r \in Agents /\ req[r] = Out /\ ~gate.closed /\ ~closing
  /\ Move(r, "in")
  /\ UNCHANGED <<rest, late>>

(* A write commits under the control lock, or sees the fence and fails.    *)
Forward(r) ==
  /\ r \in Peers \cup Agents /\ req[r].at = "in" /\ GuardFree
  /\ Leave(r)
  /\ late' = (late \/ (host.attached /\ ~fence /\ snap))
  /\ UNCHANGED rest

-----------------------------------------------------------------------------
(* The closing operations.                                                 *)

Goto(pc) == task' = [task EXCEPT !.pc = pc]
TaskAt(k, pc) == task.k \in k /\ task.pc = pc
Shut == gate' = [open |-> FALSE, closed |-> TRUE, epoch |-> gate.epoch + 1]

(* A demotion refuses while an update or a restart is active; a shutdown   *)
(* asks for nothing.  Nobody asks first for a fence that was left behind.  *)
Begin(k) ==
  /\ task = NoTask /\ count.tasks < MaxTasks /\ host.store /\ ~closing
  /\ k \in {"update", "restart"} => \A r \in Web : req[r] = Out
  /\ task' = [k |-> k, pc |-> "drain", abort |-> FALSE]
  /\ count' = [count EXCEPT !.tasks = @ + 1]
  /\ Shut
  /\ UNCHANGED <<door, req, net, host, fence, snap, move, late, closing>>

(* Fault: the local agents' work is not waited for.                        *)
DrainedPeersOnly == ~InFlight(Peers)
Drained == ~InFlight(Peers \cup Agents)

CloseDoor ==
  /\ task.pc = "drain" /\ Drained
  /\ IF task.abort THEN Goto("reopen") /\ UNCHANGED door ELSE Goto("drainWeb") /\ door' = FALSE
  /\ UNCHANGED <<gate, req, net, host, fence, snap, move, late, closing, count>>

(* The caller goes away or its patience ends: the closing thread is        *)
(* waited for, and the doors open again.                                   *)
Abandon ==
  /\ task.pc \in {"drain", "drainWeb"} /\ ~task.abort
  /\ task' = [task EXCEPT !.abort = TRUE,
                          !.pc = IF task.pc = "drain" THEN "drain"
                                 ELSE IF task.k = "shutdown" THEN "stopped" ELSE "reopen"]
  /\ UNCHANGED <<door, gate, req, net, host, fence, snap, move, late, closing, count>>

(* The copy, and for an update its fence, in one lease of the control lock. *)
(* A shutdown that finds a fence there only drains.                        *)
Snapshot ==
  /\ task.pc = "drainWeb" /\ ~InFlight(Web) /\ task.k # "demote"
  /\ task.k \in {"update", "shutdown"} => ~fence
  /\ snap' = (task.k # "update") /\ fence' = (fence \/ task.k = "update")
  /\ Goto(IF task.k = "shutdown" THEN "stopped" ELSE "held")
  /\ UNCHANGED <<door, gate, req, net, host, move, late, closing, count>>

NoSnapshot ==
  /\ task.pc = "drainWeb" /\ ~InFlight(Web) /\ task.k # "demote"
  /\ Goto(IF task.k = "shutdown" THEN "stopped" ELSE "reopen")
  /\ task.k = "update" => ~fence
  /\ UNCHANGED <<door, gate, req, net, host, fence, snap, move, late, closing, count>>

(* The preparation of an update fails and finds a fence afterwards, its    *)
(* own or an older one: both doors stay closed.                            *)
FenceLeft ==
  /\ TaskAt({"update"}, "drainWeb") /\ ~InFlight(Web)
  /\ fence' = TRUE /\ task' = NoTask
  /\ UNCHANGED <<door, gate, req, net, host, snap, move, late, closing, count>>

(* The update goes on behind its fence, or is given up and the fence       *)
(* cleared, or left when that fails: the caller opens the doors in each    *)
(* case.  A restart only wanted the copy, and lets reads in until the      *)
(* process ends.                                                           *)
Release(cleared) ==
  /\ task.pc = "held"
  /\ fence' = (fence /\ ~(cleared /\ task.k = "update"))
  /\ snap' = FALSE
  /\ Goto("reopen")
  /\ UNCHANGED <<door, gate, req, net, host, move, late, closing, count>>

(* The update has ended: its runner or the finalizer clears its fence.     *)
LiftFence ==
  /\ fence /\ door /\ task.k \in {"none", "shutdown"}
  /\ fence' = FALSE
  /\ UNCHANGED <<door, gate, req, net, host, snap, task, move, late, closing, count>>

(* Peer admission opens before the door does.                              *)
Ready == host.attached /\ ~closing
Reopen ==
  /\ task.pc = "reopen" /\ GuardFree /\ task.k # "shutdown"
  /\ gate' = [open |-> Ready /\ net.live, closed |-> ~Ready, epoch |-> gate.epoch + 1]
  /\ door' = FALSE
  /\ Goto("openDoor")
  /\ UNCHANGED <<req, net, host, fence, snap, move, late, closing, count>>

OpenDoor ==
  /\ task.pc = "openDoor"
  /\ door' = host.store
  /\ task' = NoTask
  /\ UNCHANGED <<gate, req, net, host, fence, snap, move, late, closing, count>>

(* Under a fence the cancelled drain leaves the door as it was.            *)
ShutdownAborted ==
  /\ TaskAt({"shutdown"}, "reopen")
  /\ door' \in {FALSE, fence /\ door}
  /\ Goto("stopped")
  /\ UNCHANGED <<gate, req, net, host, fence, snap, move, late, closing, count>>

(* However the drain of a shutdown ended, the lease is released.           *)
ReleaseLease ==
  /\ TaskAt({"shutdown"}, "stopped") /\ host.lease
  /\ host' = [host EXCEPT !.lease = FALSE]
  /\ UNCHANGED <<door, gate, req, net, fence, snap, task, move, late, closing, count>>

(* A demotion closes and drains once more while it holds the outbound      *)
(* guard, then takes the listener and the attachment away.                 *)
DetachClose ==
  /\ TaskAt({"demote"}, "drainWeb") /\ ~InFlight(Web)
  /\ Shut /\ Goto("detach")
  /\ UNCHANGED <<door, req, net, host, fence, snap, move, late, closing, count>>

Detach(ok) ==
  /\ TaskAt({"demote"}, "detach") /\ Drained /\ GuardFree
  /\ IF ok /\ (net.live => \A r \in Peers : req[r].at # "worker")
       THEN /\ net' = [net EXCEPT !.live = FALSE]
            /\ host' = [host EXCEPT !.attached = FALSE]
            /\ Goto("drop")
       ELSE Goto("reopen") /\ UNCHANGED <<net, host>>
  /\ UNCHANGED <<door, gate, req, fence, snap, move, late, closing, count>>

Drop ==
  /\ TaskAt({"demote"}, "drop")
  /\ host' = [host EXCEPT !.store = FALSE, !.lease = FALSE]
  /\ door' = FALSE
  /\ task' = NoTask
  /\ UNCHANGED <<gate, req, net, fence, snap, move, late, closing, count>>

(* A new Host role attaches a new store; a closure that came in between    *)
(* would stand.                                                            *)
Attach ==
  /\ task = NoTask /\ ~host.store /\ ~fence /\ GuardFree
  /\ host' = [store |-> TRUE, attached |-> TRUE, lease |-> TRUE]
  /\ net' = [net EXCEPT !.live = TRUE]
  /\ gate' = [gate EXCEPT !.closed = FALSE, !.open = TRUE]
  /\ door' = TRUE
  /\ UNCHANGED <<req, fence, snap, task, move, late, closing, count>>

(* The peer runtime shuts down after the Hub, or when the Hub's shutdown   *)
(* has outlived its phase.                                                 *)
RuntimeShutdown ==
  /\ task.k = "shutdown" /\ ~closing
  /\ closing' = TRUE
  /\ Shut
  /\ UNCHANGED <<door, req, net, host, fence, snap, task, move, late, count>>

-----------------------------------------------------------------------------
(* A change of the listener's endpoint.                                    *)

MoveAsked ==
  /\ move = NoMove /\ count.moves < MaxMoves /\ host.attached
  /\ move' = [pc |-> "drain", epoch |-> gate.epoch + 1, was |-> gate.closed]
  /\ count' = [count EXCEPT !.moves = @ + 1]
  /\ Shut
  /\ UNCHANGED <<door, req, net, host, fence, snap, task, late, closing>>

MoveStop ==
  /\ move.pc = "drain" /\ Drained
  /\ move' = [move EXCEPT !.pc = "stop"]
  /\ UNCHANGED <<door, gate, req, net, host, fence, snap, task, late, closing, count>>

(* Only a gate that this change closed, and nobody since, is its to open.  *)
MayReopen == ~move.was /\ gate.epoch = move.epoch
(* Fault: the change opens whatever gate it finds when it is done.         *)
ReopenedAnyway(live) == [open |-> Ready /\ live, closed |-> ~Ready, epoch |-> gate.epoch + 1]
Reopened(live) ==
  IF MayReopen THEN [open |-> Ready /\ live, closed |-> ~Ready, epoch |-> gate.epoch + 1] ELSE gate

(* The old listener has no worker left: the new one, or none, is in place. *)
Moved(live) ==
  /\ move.pc = "stop" /\ host.attached /\ \A r \in Peers : req[r].at = "out"
  /\ net' = [live |-> live, ep |-> net.ep + 1]
  /\ gate' = Reopened(live)
  /\ move' = NoMove
  /\ UNCHANGED <<door, req, host, fence, snap, task, late, closing, count>>

(* A worker did not end in time, the new address is not there or the Hub   *)
(* was detached: the old listener comes back, or none.                     *)
MoveFailed(live) ==
  /\ move.pc = "stop" /\ (live => host.attached /\ net.live)
  /\ net' = [net EXCEPT !.live = live]
  /\ gate' = Reopened(live)
  /\ move' = NoMove
  /\ UNCHANGED <<door, req, host, fence, snap, task, late, closing, count>>

-----------------------------------------------------------------------------
Requests ==
  \E r \in Lanes : WebEnter(r) \/ WebCheck(r) \/ WebWrite(r) \/ Connect(r) \/ Heartbeat(r)
                   \/ PeerEnter(r) \/ AgentEnter(r) \/ Forward(r)
Closings ==
  \/ \E k \in Kinds : Begin(k)
  \/ CloseDoor \/ Abandon \/ Snapshot \/ NoSnapshot \/ FenceLeft \/ LiftFence
  \/ Reopen \/ OpenDoor \/ ShutdownAborted \/ ReleaseLease \/ RuntimeShutdown
  \/ DetachClose \/ Drop \/ Attach
  \/ \E ok \in BOOLEAN : Release(ok) \/ Detach(ok)
Moves == MoveAsked \/ MoveStop \/ \E live \in BOOLEAN : Moved(live) \/ MoveFailed(live)

Next == Requests \/ Closings \/ Moves

Spec == Init /\ [][Next]_vars

-----------------------------------------------------------------------------
(* No write is committed after a snapshot that is to hold everything: not  *)
(* behind the fence of an update, and not after the last one of a          *)
(* shutdown, whoever opens and closes the doors meanwhile.                 *)
SnapshotComplete == ~late

(* The lease is never released under a request of a paired server or of an *)
(* agent, and under one of the mounted application only by a shutdown      *)
(* whose drain ran out of patience.                                        *)
LeaseCovers ==
  ~host.lease => /\ ~InFlight(Peers \cup Agents)
                 /\ ~task.abort => ~InFlight(Web)

(* When a change of the endpoint has returned, nothing that came through   *)
(* the previous endpoint is still being served.                            *)
OldEndpointQuiet ==
  move = NoMove => \A r \in Peers : req[r].at \in {"worker", "in"} => req[r].via = net.ep

(* At rest the doors of the Hub and of the local agents are both open, or  *)
(* both closed behind a fence that the preparation of an update left.      *)
DoorsOpenAtRest ==
  task = NoTask /\ move = NoMove /\ host.store
    => \/ door /\ ~gate.closed
       \/ fence /\ ~door /\ gate.closed

(* Closing the doors means what the snapshot, the released lease and the   *)
(* moved endpoint rely on, and no closure outlives its reason              *)
(* (_close_and_drain, _close_host_admission, reopen_host_admission).       *)
HostDoorsSound == SnapshotComplete /\ LeaseCovers /\ OldEndpointQuiet /\ DoorsOpenAtRest
=============================================================================
