------------------------------- MODULE HostProofs -------------------------------
(***************************************************************************)
(* That a server's change of its Team Network role (HubHostRole), the      *)
(* doors of the Hub it hosts (HubHostGate) and the Hub's attachment files  *)
(* (HubAttachments) keep what is claimed of them, for every set of names,  *)
(* requests and uploads and every number of role changes, closings,        *)
(* endpoint moves, chunks, faults and crashes.  They share no state.       *)
(***************************************************************************)
EXTENDS HubHost, TLAPS

(* The requests of the lanes are different requests.                       *)
LanesApart == Web \cap Peers = {} /\ Web \cap Agents = {} /\ Peers \cap Agents = {}

Stages == {"none", "drain", "drainWeb", "held", "reopen", "openDoor", "stopped", "detach", "drop"}

GateTyped ==
  /\ door \in BOOLEAN /\ fence \in BOOLEAN /\ late \in BOOLEAN /\ closing \in BOOLEAN
  /\ gate \in [open : BOOLEAN, closed : BOOLEAN, epoch : Nat]
  /\ req \in [Gate!Lanes -> [at : {"out", "worker", "in", "ready"}, via : Nat]]
  /\ net \in [live : BOOLEAN, ep : Nat]
  /\ host \in [store : BOOLEAN, attached : BOOLEAN, lease : BOOLEAN]
  /\ snap \in BOOLEAN
  /\ task \in [k : Kinds \cup {"none"}, pc : Stages, abort : BOOLEAN]
  /\ move \in [pc : {"none", "drain", "stop"}, epoch : Nat, was : BOOLEAN]

Ranks ==
  /\ task.pc = "none" => task = Gate!NoTask
  /\ move.pc = "none" => move = Gate!NoMove
  /\ move.epoch <= gate.epoch

(* The store and the attachment are given up together, and the lease with  *)
(* them or at the end of a shutdown.                                       *)
HostShape ==
  /\ host.lease # host.store => host.store /\ task.pc = "stopped"
  /\ task.pc = "drop" => ~host.attached
  /\ task.pc # "drop" => host.attached = host.store
  /\ task.pc # "none" => host.store
  /\ closing => task.k = "shutdown"
  /\ task.pc = "stopped" => task.k = "shutdown"
  /\ task.pc \in {"held", "openDoor"} => task.k # "shutdown"
  /\ task.pc = "reopen" /\ task.k = "shutdown" => task.abort
  /\ task.pc \in {"drainWeb", "held", "detach", "drop"} => ~task.abort

DoorShape ==
  /\ door => host.store
  /\ task.pc \in {"drainWeb", "held", "detach", "drop", "openDoor"} => ~door
  /\ task.pc = "stopped" /\ ~task.abort => ~door

(* While a closing operation is at work, or there is no Hub, the gate is   *)
(* closed and no change of the endpoint may open it; with the door open it *)
(* is open or such a change will open it; and a door that stays closed has *)
(* a fence behind it, and a gate that stays closed too.                    *)
Shutting == task.pc \notin {"none", "openDoor"} \/ ~host.store
GateShape ==
  /\ gate.open => ~gate.closed
  /\ Shutting => gate.closed /\ (move.pc # "none" => ~Gate!MayReopen)
  /\ (task.pc = "none" /\ door) \/ task.pc = "openDoor" =>
       ~gate.closed \/ (move.pc # "none" /\ Gate!MayReopen)
  /\ task.pc = "none" /\ host.store /\ ~door =>
       fence /\ gate.closed /\ (move.pc # "none" => ~Gate!MayReopen)

(* What has been waited for stays away.                                    *)
Quiet ==
  /\ task.pc \in {"drainWeb", "held", "stopped", "detach", "drop", "reopen"} => ~Gate!InFlight(Peers \cup Agents)
  /\ task.pc \in {"held", "detach", "drop"} => ~Gate!InFlight(Web)
  /\ task.pc = "stopped" /\ ~task.abort => ~Gate!InFlight(Web)
  /\ ~host.store => ~Gate!InFlight(Gate!Lanes)

(* Nothing is committed behind a snapshot or a fence.                      *)
Kept ==
  /\ ~late
  /\ snap => task.pc \in {"held", "stopped"} /\ ~task.abort
  /\ fence => \A r \in Web : req[r].at # "ready"

Endpoint == \A r \in Peers : req[r].at \in {"worker", "in"} => req[r].via = net.ep

GateInv == GateTyped /\ Ranks /\ HostShape /\ DoorShape /\ GateShape /\ Quiet /\ Kept /\ Endpoint

(* The lanes are apart, and the invariant holds. *)
Lawful == LanesApart /\ GateInv

USE DEF Gate!NoTask, Gate!NoMove, Gate!Out, Gate!Lanes, Stages

LEMMA WebEnterKept ==
  ASSUME Lawful, NEW r \in Gate!Lanes, Gate!WebEnter(r)
  PROVE  GateInv'
<1>1. GateTyped'
  BY DEF Lawful, GateInv, GateTyped, Gate!WebEnter, Gate!Move, Gate!rest
<1>2. Ranks'
  BY DEF Lawful, GateInv, GateTyped, Ranks, Gate!WebEnter, Gate!Move, Gate!rest
<1>3. HostShape'
  BY DEF Lawful, GateInv, GateTyped, Ranks, HostShape, Gate!WebEnter, Gate!Move, Gate!rest
<1>4. DoorShape'
  BY DEF Lawful, GateInv, GateTyped, Ranks, HostShape, DoorShape, Gate!WebEnter, Gate!Move, Gate!rest
<1>5. GateShape'
  BY DEF Lawful, GateInv, GateTyped, Ranks, HostShape, DoorShape, GateShape, Shutting,
         Gate!MayReopen,
         Gate!WebEnter, Gate!Move, Gate!rest
<1>6. Quiet'
  <2>1. /\ r \in Web /\ door /\ host.store /\ host' = host /\ task' = task
        /\ \A q \in Gate!Lanes : q # r => req'[q] = req[q]
    BY DEF Gate!WebEnter, Gate!Move, Gate!rest, Lawful, GateInv, GateTyped
  <2>2. r \notin Peers \cup Agents
    BY <2>1 DEF Lawful, LanesApart
  <2>3. task.pc \notin {"held", "detach", "drop"} /\ (task.pc = "stopped" => task.abort)
    BY <2>1 DEF Lawful, GateInv, DoorShape
  <2>4. Gate!InFlight(Peers \cup Agents)' => Gate!InFlight(Peers \cup Agents)
    BY <2>1, <2>2 DEF Gate!InFlight
  <2>5. QED
    BY <2>1, <2>3, <2>4 DEF Lawful, GateInv, Quiet
<1>7. Kept'
  BY DEF Lawful, GateInv, GateTyped, Ranks, HostShape, DoorShape, GateShape, Shutting,
         Quiet, Kept, Gate!InFlight, Gate!WebEnter, Gate!Move, Gate!rest
<1>8. Endpoint'
  BY DEF Lawful, LanesApart, GateInv, GateTyped, Endpoint, Gate!WebEnter, Gate!Move, Gate!rest
<1> QED BY <1>1, <1>2, <1>3, <1>4, <1>5, <1>6, <1>7, <1>8 DEF GateInv

LEMMA WebCheckKept ==
  ASSUME Lawful, NEW r \in Gate!Lanes, Gate!WebCheck(r)
  PROVE  GateInv'
<1>1. GateTyped'
  BY DEF Lawful, GateInv, GateTyped, Gate!WebCheck, Gate!Move, Gate!Leave, Gate!rest
<1>2. Ranks'
  BY DEF Lawful, GateInv, GateTyped, Ranks, Gate!WebCheck, Gate!Move, Gate!Leave, Gate!rest
<1>3. HostShape'
  BY DEF Lawful, GateInv, GateTyped, Ranks, HostShape, Gate!WebCheck, Gate!Move, Gate!Leave, Gate!rest
<1>4. DoorShape'
  BY DEF Lawful, GateInv, GateTyped, Ranks, HostShape, DoorShape, Gate!WebCheck, Gate!Move, Gate!Leave,
         Gate!rest
<1>5. GateShape'
  BY DEF Lawful, GateInv, GateTyped, Ranks, HostShape, DoorShape, GateShape, Shutting,
         Gate!MayReopen,
         Gate!WebCheck, Gate!Move, Gate!Leave, Gate!rest
<1>6. Quiet'
  BY DEF Lawful, GateInv, GateTyped, Ranks, HostShape, DoorShape, GateShape, Shutting,
         Quiet, Gate!InFlight, Gate!WebCheck, Gate!Move, Gate!Leave, Gate!rest
<1>7. Kept'
  BY DEF Lawful, GateInv, GateTyped, Ranks, HostShape, DoorShape, GateShape, Shutting,
         Quiet, Kept, Gate!InFlight, Gate!WebCheck, Gate!Move, Gate!Leave, Gate!rest
<1>8. Endpoint'
  BY DEF Lawful, GateInv, GateTyped, Endpoint, Gate!WebCheck, Gate!Move, Gate!Leave, Gate!rest
<1> QED BY <1>1, <1>2, <1>3, <1>4, <1>5, <1>6, <1>7, <1>8 DEF GateInv

LEMMA WebWriteKept ==
  ASSUME Lawful, NEW r \in Gate!Lanes, Gate!WebWrite(r)
  PROVE  GateInv'
<1>1. GateTyped'
  BY DEF Lawful, GateInv, GateTyped, Gate!WebWrite, Gate!Leave, Gate!Written, Gate!rest
<1>2. Ranks'
  BY DEF Lawful, GateInv, GateTyped, Ranks, Gate!WebWrite, Gate!Leave, Gate!Written, Gate!rest
<1>3. HostShape'
  BY DEF Lawful, GateInv, GateTyped, Ranks, HostShape, Gate!WebWrite, Gate!Leave, Gate!Written, Gate!rest
<1>4. DoorShape'
  BY DEF Lawful, GateInv, GateTyped, Ranks, HostShape, DoorShape, Gate!WebWrite, Gate!Leave,
         Gate!Written, Gate!rest
<1>5. GateShape'
  BY DEF Lawful, GateInv, GateTyped, Ranks, HostShape, DoorShape, GateShape, Shutting,
         Gate!MayReopen,
         Gate!WebWrite, Gate!Leave, Gate!Written, Gate!rest
<1>6. Quiet'
  BY DEF Lawful, GateInv, GateTyped, Ranks, HostShape, DoorShape, GateShape, Shutting,
         Quiet, Gate!InFlight, Gate!WebWrite, Gate!Leave, Gate!Written, Gate!rest
<1>7. Kept'
  BY DEF Lawful, GateInv, GateTyped, Ranks, HostShape, DoorShape, GateShape, Shutting,
         Quiet, Kept, Gate!InFlight, Gate!WebWrite, Gate!Leave, Gate!Written, Gate!rest
<1>8. Endpoint'
  BY DEF Lawful, GateInv, GateTyped, Endpoint, Gate!WebWrite, Gate!Leave, Gate!Written, Gate!rest
<1> QED BY <1>1, <1>2, <1>3, <1>4, <1>5, <1>6, <1>7, <1>8 DEF GateInv

LEMMA ConnectKept ==
  ASSUME Lawful, NEW r \in Gate!Lanes, Gate!Connect(r)
  PROVE  GateInv'
<1>1. GateTyped'
  BY DEF Lawful, GateInv, GateTyped, Gate!Connect, Gate!rest, Gate!GuardFree
<1>2. Ranks'
  BY DEF Lawful, GateInv, GateTyped, Ranks, Gate!Connect, Gate!rest, Gate!GuardFree
<1>3. HostShape'
  BY DEF Lawful, GateInv, GateTyped, Ranks, HostShape, Gate!Connect, Gate!rest, Gate!GuardFree
<1>4. DoorShape'
  BY DEF Lawful, GateInv, GateTyped, Ranks, HostShape, DoorShape, Gate!Connect, Gate!rest, Gate!GuardFree
<1>5. GateShape'
  BY DEF Lawful, GateInv, GateTyped, Ranks, HostShape, DoorShape, GateShape, Shutting,
         Gate!MayReopen,
         Gate!Connect, Gate!rest, Gate!GuardFree
<1>6. Quiet'
  BY DEF Lawful, GateInv, GateTyped, Ranks, HostShape, DoorShape, GateShape, Shutting,
         Quiet, Gate!InFlight, Gate!Connect, Gate!rest, Gate!GuardFree
<1>7. Kept'
  BY DEF Lawful, GateInv, GateTyped, Ranks, HostShape, DoorShape, GateShape, Shutting,
         Quiet, Kept, Gate!InFlight, Gate!Connect, Gate!rest, Gate!GuardFree
<1>8. Endpoint'
  BY DEF Lawful, GateInv, GateTyped, Endpoint, Gate!Connect, Gate!rest, Gate!GuardFree
<1> QED BY <1>1, <1>2, <1>3, <1>4, <1>5, <1>6, <1>7, <1>8 DEF GateInv

LEMMA HeartbeatKept ==
  ASSUME Lawful, NEW r \in Gate!Lanes, Gate!Heartbeat(r)
  PROVE  GateInv'
<1>1. GateTyped'
  BY DEF Lawful, GateInv, GateTyped, Gate!Heartbeat, Gate!Leave, Gate!rest
<1>2. Ranks'
  BY DEF Lawful, GateInv, GateTyped, Ranks, Gate!Heartbeat, Gate!Leave, Gate!rest
<1>3. HostShape'
  BY DEF Lawful, GateInv, GateTyped, Ranks, HostShape, Gate!Heartbeat, Gate!Leave, Gate!rest
<1>4. DoorShape'
  BY DEF Lawful, GateInv, GateTyped, Ranks, HostShape, DoorShape, Gate!Heartbeat, Gate!Leave, Gate!rest
<1>5. GateShape'
  BY DEF Lawful, GateInv, GateTyped, Ranks, HostShape, DoorShape, GateShape, Shutting,
         Gate!MayReopen,
         Gate!Heartbeat, Gate!Leave, Gate!rest
<1>6. Quiet'
  BY DEF Lawful, GateInv, GateTyped, Ranks, HostShape, DoorShape, GateShape, Shutting,
         Quiet, Gate!InFlight, Gate!Heartbeat, Gate!Leave, Gate!rest
<1>7. Kept'
  BY DEF Lawful, GateInv, GateTyped, Ranks, HostShape, DoorShape, GateShape, Shutting,
         Quiet, Kept, Gate!InFlight, Gate!Heartbeat, Gate!Leave, Gate!rest
<1>8. Endpoint'
  BY DEF Lawful, GateInv, GateTyped, Endpoint, Gate!Heartbeat, Gate!Leave, Gate!rest
<1> QED BY <1>1, <1>2, <1>3, <1>4, <1>5, <1>6, <1>7, <1>8 DEF GateInv

LEMMA PeerEnterKept ==
  ASSUME Lawful, NEW r \in Gate!Lanes, Gate!PeerEnter(r)
  PROVE  GateInv'
<1>1. GateTyped'
  BY DEF Lawful, GateInv, GateTyped, Gate!PeerEnter, Gate!Move, Gate!Leave, Gate!rest
<1>2. Ranks'
  BY DEF Lawful, GateInv, GateTyped, Ranks, Gate!PeerEnter, Gate!Move, Gate!Leave, Gate!rest
<1>3. HostShape'
  BY DEF Lawful, GateInv, GateTyped, Ranks, HostShape, Gate!PeerEnter, Gate!Move, Gate!Leave, Gate!rest
<1>4. DoorShape'
  BY DEF Lawful, GateInv, GateTyped, Ranks, HostShape, DoorShape, Gate!PeerEnter, Gate!Move, Gate!Leave,
         Gate!rest
<1>5. GateShape'
  BY DEF Lawful, GateInv, GateTyped, Ranks, HostShape, DoorShape, GateShape, Shutting,
         Gate!MayReopen,
         Gate!PeerEnter, Gate!Move, Gate!Leave, Gate!rest
<1>6. Quiet'
  BY DEF Lawful, GateInv, GateTyped, Ranks, HostShape, DoorShape, GateShape, Shutting,
         Quiet, Gate!InFlight, Gate!PeerEnter, Gate!Move, Gate!Leave, Gate!rest
<1>7. Kept'
  BY DEF Lawful, GateInv, GateTyped, Ranks, HostShape, DoorShape, GateShape, Shutting,
         Quiet, Kept, Gate!InFlight, Gate!PeerEnter, Gate!Move, Gate!Leave, Gate!rest
<1>8. Endpoint'
  BY DEF Lawful, GateInv, GateTyped, Endpoint, Gate!PeerEnter, Gate!Move, Gate!Leave, Gate!rest
<1> QED BY <1>1, <1>2, <1>3, <1>4, <1>5, <1>6, <1>7, <1>8 DEF GateInv

LEMMA AgentEnterKept ==
  ASSUME Lawful, NEW r \in Gate!Lanes, Gate!AgentEnter(r)
  PROVE  GateInv'
<1>1. GateTyped'
  BY DEF Lawful, GateInv, GateTyped, Gate!AgentEnter, Gate!Move, Gate!rest
<1>2. Ranks'
  BY DEF Lawful, GateInv, GateTyped, Ranks, Gate!AgentEnter, Gate!Move, Gate!rest
<1>3. HostShape'
  BY DEF Lawful, GateInv, GateTyped, Ranks, HostShape, Gate!AgentEnter, Gate!Move, Gate!rest
<1>4. DoorShape'
  BY DEF Lawful, GateInv, GateTyped, Ranks, HostShape, DoorShape, Gate!AgentEnter, Gate!Move, Gate!rest
<1>5. GateShape'
  BY DEF Lawful, GateInv, GateTyped, Ranks, HostShape, DoorShape, GateShape, Shutting,
         Gate!MayReopen,
         Gate!AgentEnter, Gate!Move, Gate!rest
<1>6. Quiet'
  BY DEF Lawful, GateInv, GateTyped, Ranks, HostShape, DoorShape, GateShape, Shutting,
         Quiet, Gate!InFlight, Gate!AgentEnter, Gate!Move, Gate!rest
<1>7. Kept'
  BY DEF Lawful, GateInv, GateTyped, Ranks, HostShape, DoorShape, GateShape, Shutting,
         Quiet, Kept, Gate!InFlight, Gate!AgentEnter, Gate!Move, Gate!rest
<1>8. Endpoint'
  BY DEF Lawful, LanesApart, GateInv, GateTyped, Endpoint, Gate!AgentEnter, Gate!Move, Gate!rest
<1> QED BY <1>1, <1>2, <1>3, <1>4, <1>5, <1>6, <1>7, <1>8 DEF GateInv

LEMMA ForwardKept ==
  ASSUME Lawful, NEW r \in Gate!Lanes, Gate!Forward(r)
  PROVE  GateInv'
<1>1. GateTyped'
  BY DEF Lawful, GateInv, GateTyped, Gate!Forward, Gate!Leave, Gate!rest
<1>2. Ranks'
  BY DEF Lawful, GateInv, GateTyped, Ranks, Gate!Forward, Gate!Leave, Gate!rest
<1>3. HostShape'
  BY DEF Lawful, GateInv, GateTyped, Ranks, HostShape, Gate!Forward, Gate!Leave, Gate!rest
<1>4. DoorShape'
  BY DEF Lawful, GateInv, GateTyped, Ranks, HostShape, DoorShape, Gate!Forward, Gate!Leave, Gate!rest
<1>5. GateShape'
  BY DEF Lawful, GateInv, GateTyped, Ranks, HostShape, DoorShape, GateShape, Shutting,
         Gate!MayReopen,
         Gate!Forward, Gate!Leave, Gate!rest
<1>6. Quiet'
  BY DEF Lawful, GateInv, GateTyped, Ranks, HostShape, DoorShape, GateShape, Shutting,
         Quiet, Gate!InFlight, Gate!Forward, Gate!Leave, Gate!rest
<1>7. Kept'
  BY DEF Lawful, GateInv, GateTyped, Ranks, HostShape, DoorShape, GateShape, Shutting,
         Quiet, Kept, Gate!InFlight, Gate!Forward, Gate!Leave, Gate!rest
<1>8. Endpoint'
  BY DEF Lawful, GateInv, GateTyped, Endpoint, Gate!Forward, Gate!Leave, Gate!rest
<1> QED BY <1>1, <1>2, <1>3, <1>4, <1>5, <1>6, <1>7, <1>8 DEF GateInv

LEMMA BeginKept ==
  ASSUME Lawful, NEW k \in Kinds, Gate!Begin(k)
  PROVE  GateInv'
<1>1. GateTyped'
  BY DEF Lawful, GateInv, GateTyped, Gate!Begin, Gate!Shut
<1>2. Ranks'
  BY DEF Lawful, GateInv, GateTyped, Ranks, Gate!Begin, Gate!Shut
<1>3. HostShape'
  BY DEF Lawful, GateInv, GateTyped, Ranks, HostShape, Gate!Begin, Gate!Shut
<1>4. DoorShape'
  BY DEF Lawful, GateInv, GateTyped, Ranks, HostShape, DoorShape, Gate!Begin, Gate!Shut
<1>5. GateShape'
  BY DEF Lawful, GateInv, GateTyped, Ranks, HostShape, DoorShape, GateShape, Shutting,
         Gate!MayReopen,
         Gate!Begin, Gate!Shut
<1>6. Quiet'
  BY DEF Lawful, GateInv, GateTyped, Ranks, HostShape, DoorShape, GateShape, Shutting,
         Quiet, Gate!InFlight, Gate!Begin, Gate!Shut
<1>7. Kept'
  BY DEF Lawful, GateInv, GateTyped, Ranks, HostShape, DoorShape, GateShape, Shutting,
         Quiet, Kept, Gate!InFlight, Gate!Begin, Gate!Shut
<1>8. Endpoint'
  BY DEF Lawful, GateInv, GateTyped, Endpoint, Gate!Begin, Gate!Shut
<1> QED BY <1>1, <1>2, <1>3, <1>4, <1>5, <1>6, <1>7, <1>8 DEF GateInv

LEMMA CloseDoorKept ==
  ASSUME Lawful, Gate!CloseDoor
  PROVE  GateInv'
<1>1. GateTyped'
  <2>1. door' \in BOOLEAN
    <3>1. door' = door \/ door' = FALSE
      BY DEF Gate!CloseDoor
    <3>2. QED
      BY <3>1 DEF Lawful, GateInv, GateTyped
  <2>2. task' \in [k : Kinds \cup {"none"}, pc : Stages, abort : BOOLEAN]
    BY DEF Lawful, GateInv, GateTyped, Gate!CloseDoor, Gate!Drained, Gate!Goto
  <2>3. /\ fence' = fence /\ late' = late /\ closing' = closing /\ req' = req /\ snap' = snap /\ move' = move
        /\ gate' \in [open : BOOLEAN, closed : BOOLEAN, epoch : Nat]
        /\ net' \in [live : BOOLEAN, ep : Nat]
        /\ host' \in [store : BOOLEAN, attached : BOOLEAN, lease : BOOLEAN]
    BY DEF Lawful, GateInv, GateTyped, Gate!CloseDoor, Gate!Drained, Gate!Goto
  <2>4. QED
    BY <2>1, <2>2, <2>3 DEF Lawful, GateInv, GateTyped
<1>2. Ranks'
  BY DEF Lawful, GateInv, GateTyped, Ranks, Gate!CloseDoor, Gate!Drained, Gate!Goto
<1>3. HostShape'
  BY DEF Lawful, GateInv, GateTyped, Ranks, HostShape, Gate!CloseDoor, Gate!Drained, Gate!Goto
<1>4. DoorShape'
  BY DEF Lawful, GateInv, GateTyped, Ranks, HostShape, DoorShape, Gate!CloseDoor, Gate!Drained, Gate!Goto
<1>5. GateShape'
  BY DEF Lawful, GateInv, GateTyped, Ranks, HostShape, DoorShape, GateShape, Shutting,
         Gate!MayReopen,
         Gate!CloseDoor, Gate!Drained, Gate!Goto
<1>6. Quiet'
  BY DEF Lawful, GateInv, GateTyped, Ranks, HostShape, DoorShape, GateShape, Shutting,
         Quiet, Gate!InFlight, Gate!CloseDoor, Gate!Drained, Gate!Goto
<1>7. Kept'
  BY DEF Lawful, GateInv, GateTyped, Ranks, HostShape, DoorShape, GateShape, Shutting,
         Quiet, Kept, Gate!InFlight, Gate!CloseDoor, Gate!Drained, Gate!Goto
<1>8. Endpoint'
  BY DEF Lawful, GateInv, GateTyped, Endpoint, Gate!CloseDoor, Gate!Drained, Gate!Goto
<1> QED BY <1>1, <1>2, <1>3, <1>4, <1>5, <1>6, <1>7, <1>8 DEF GateInv

LEMMA AbandonKept ==
  ASSUME Lawful, Gate!Abandon
  PROVE  GateInv'
<1>1. GateTyped'
  <2>1. door' \in BOOLEAN
    BY DEF Gate!Abandon, Lawful, GateInv, GateTyped
  <2>2. task' \in [k : Kinds \cup {"none"}, pc : Stages, abort : BOOLEAN]
    BY DEF Lawful, GateInv, GateTyped, Gate!Abandon
  <2>3. /\ fence' = fence /\ late' = late /\ closing' = closing /\ req' = req /\ snap' = snap /\ move' = move
        /\ gate' \in [open : BOOLEAN, closed : BOOLEAN, epoch : Nat]
        /\ net' \in [live : BOOLEAN, ep : Nat]
        /\ host' \in [store : BOOLEAN, attached : BOOLEAN, lease : BOOLEAN]
    BY DEF Lawful, GateInv, GateTyped, Gate!Abandon
  <2>4. QED
    BY <2>1, <2>2, <2>3 DEF Lawful, GateInv, GateTyped
<1>2. Ranks'
  BY DEF Lawful, GateInv, GateTyped, Ranks, Gate!Abandon
<1>3. HostShape'
  BY DEF Lawful, GateInv, GateTyped, Ranks, HostShape, Gate!Abandon
<1>4. DoorShape'
  <2>1. task.pc \in {"drain", "drainWeb"}
    BY DEF Gate!Abandon
  <2>2. task'.pc = IF task.pc = "drain" THEN "drain" ELSE IF task.k = "shutdown" THEN "stopped" ELSE "reopen"
    BY DEF Gate!Abandon, Lawful, GateInv, GateTyped
  <2>3. /\ task.pc = "drain" => task'.pc = "drain"
        /\ task.pc = "drainWeb" => task'.pc \in {"stopped", "reopen"}
    BY <2>2
  <2>4. door' = door /\ host' = host /\ req' = req
    BY DEF Gate!Abandon
  <2>5. QED
    BY <2>1, <2>3, <2>4 DEF Lawful, GateInv, GateTyped, Ranks, HostShape, DoorShape
<1>5. GateShape'
  BY DEF Lawful, GateInv, GateTyped, Ranks, HostShape, DoorShape, GateShape, Shutting,
         Gate!MayReopen,
         Gate!Abandon
<1>6. Quiet'
  <2>1. task.pc \in {"drain", "drainWeb"}
    BY DEF Gate!Abandon
  <2>2. task'.pc = IF task.pc = "drain" THEN "drain" ELSE IF task.k = "shutdown" THEN "stopped" ELSE "reopen"
    BY DEF Gate!Abandon, Lawful, GateInv, GateTyped
  <2>3. /\ task.pc = "drain" => task'.pc = "drain"
        /\ task.pc = "drainWeb" => task'.pc \in {"stopped", "reopen"}
    BY <2>2
  <2>4. door' = door /\ host' = host /\ req' = req /\ task'.abort
    BY DEF Gate!Abandon, Lawful, GateInv, GateTyped
  <2>5. QED
    BY <2>1, <2>3, <2>4 DEF Lawful, GateInv, GateTyped, Ranks, HostShape, DoorShape, Quiet, Gate!InFlight
<1>7. Kept'
  BY DEF Lawful, GateInv, GateTyped, Ranks, HostShape, DoorShape, GateShape, Shutting,
         Quiet, Kept, Gate!InFlight, Gate!Abandon
<1>8. Endpoint'
  BY DEF Lawful, GateInv, GateTyped, Endpoint, Gate!Abandon
<1> QED BY <1>1, <1>2, <1>3, <1>4, <1>5, <1>6, <1>7, <1>8 DEF GateInv

LEMMA SnapshotKept ==
  ASSUME Lawful, Gate!Snapshot
  PROVE  GateInv'
<1>1. GateTyped'
  BY DEF Lawful, GateInv, GateTyped, Gate!Snapshot, Gate!Goto
<1>2. Ranks'
  BY DEF Lawful, GateInv, GateTyped, Ranks, Gate!Snapshot, Gate!Goto
<1>3. HostShape'
  BY DEF Lawful, GateInv, GateTyped, Ranks, HostShape, Gate!Snapshot, Gate!Goto
<1>4. DoorShape'
  BY DEF Lawful, GateInv, GateTyped, Ranks, HostShape, DoorShape, Gate!Snapshot, Gate!Goto
<1>5. GateShape'
  BY DEF Lawful, GateInv, GateTyped, Ranks, HostShape, DoorShape, GateShape, Shutting,
         Gate!MayReopen, Gate!Snapshot, Gate!Goto
<1>6. Quiet'
  BY DEF Lawful, GateInv, GateTyped, Ranks, HostShape, DoorShape, GateShape, Shutting, Quiet,
         Gate!InFlight, Gate!Snapshot, Gate!Goto
<1>7. Kept'
  BY DEF Lawful, GateInv, GateTyped, Ranks, HostShape, DoorShape, GateShape, Shutting, Quiet,
         Gate!InFlight, Kept, Gate!Snapshot, Gate!Goto
<1>8. Endpoint'
  BY DEF Lawful, GateInv, GateTyped, Endpoint, Gate!Snapshot, Gate!Goto
<1> QED BY <1>1, <1>2, <1>3, <1>4, <1>5, <1>6, <1>7, <1>8 DEF GateInv

LEMMA NoSnapshotKept ==
  ASSUME Lawful, Gate!NoSnapshot
  PROVE  GateInv'
<1>1. GateTyped'
  BY DEF Lawful, GateInv, GateTyped, Gate!NoSnapshot, Gate!Goto
<1>2. Ranks'
  BY DEF Lawful, GateInv, GateTyped, Ranks, Gate!NoSnapshot, Gate!Goto
<1>3. HostShape'
  BY DEF Lawful, GateInv, GateTyped, Ranks, HostShape, Gate!NoSnapshot, Gate!Goto
<1>4. DoorShape'
  BY DEF Lawful, GateInv, GateTyped, Ranks, HostShape, DoorShape, Gate!NoSnapshot, Gate!Goto
<1>5. GateShape'
  BY DEF Lawful, GateInv, GateTyped, Ranks, HostShape, DoorShape, GateShape, Shutting,
         Gate!MayReopen, Gate!NoSnapshot, Gate!Goto
<1>6. Quiet'
  BY DEF Lawful, GateInv, GateTyped, Ranks, HostShape, DoorShape, GateShape, Shutting, Quiet,
         Gate!InFlight, Gate!NoSnapshot, Gate!Goto
<1>7. Kept'
  BY DEF Lawful, GateInv, GateTyped, Ranks, HostShape, DoorShape, GateShape, Shutting, Quiet,
         Gate!InFlight, Kept, Gate!NoSnapshot, Gate!Goto
<1>8. Endpoint'
  BY DEF Lawful, GateInv, GateTyped, Endpoint, Gate!NoSnapshot, Gate!Goto
<1> QED BY <1>1, <1>2, <1>3, <1>4, <1>5, <1>6, <1>7, <1>8 DEF GateInv

LEMMA FenceLeftKept ==
  ASSUME Lawful, Gate!FenceLeft
  PROVE  GateInv'
<1>1. GateTyped'
  BY DEF Lawful, GateInv, GateTyped, Gate!FenceLeft, Gate!TaskAt
<1>2. Ranks'
  BY DEF Lawful, GateInv, GateTyped, Ranks, Gate!FenceLeft, Gate!TaskAt
<1>3. HostShape'
  BY DEF Lawful, GateInv, GateTyped, Ranks, HostShape, Gate!FenceLeft, Gate!TaskAt
<1>4. DoorShape'
  BY DEF Lawful, GateInv, GateTyped, Ranks, HostShape, DoorShape, Gate!FenceLeft, Gate!TaskAt
<1>5. GateShape'
  BY DEF Lawful, GateInv, GateTyped, Ranks, HostShape, DoorShape, GateShape, Shutting,
         Gate!MayReopen, Gate!FenceLeft, Gate!TaskAt
<1>6. Quiet'
  BY DEF Lawful, GateInv, GateTyped, Ranks, HostShape, DoorShape, GateShape, Shutting, Quiet,
         Gate!InFlight, Gate!FenceLeft, Gate!TaskAt
<1>7. Kept'
  BY DEF Lawful, GateInv, GateTyped, Ranks, HostShape, DoorShape, GateShape, Shutting, Quiet,
         Gate!InFlight, Kept, Gate!FenceLeft, Gate!TaskAt
<1>8. Endpoint'
  BY DEF Lawful, GateInv, GateTyped, Endpoint, Gate!FenceLeft, Gate!TaskAt
<1> QED BY <1>1, <1>2, <1>3, <1>4, <1>5, <1>6, <1>7, <1>8 DEF GateInv

LEMMA ReleaseKept ==
  ASSUME Lawful, NEW cleared \in BOOLEAN, Gate!Release(cleared)
  PROVE  GateInv'
<1>1. GateTyped'
  <2>1. fence' \in BOOLEAN /\ snap' \in BOOLEAN
    BY DEF Gate!Release
  <2>2. task' \in [k : Kinds \cup {"none"}, pc : Stages, abort : BOOLEAN]
    BY DEF Lawful, GateInv, GateTyped, Gate!Release, Gate!Goto
  <2>3. UNCHANGED <<door, gate, req, net, host, move, late, closing>>
    BY DEF Gate!Release
  <2>4. QED
    BY <2>1, <2>2, <2>3 DEF Lawful, GateInv, GateTyped
<1>2. Ranks'
  BY DEF Lawful, GateInv, GateTyped, Ranks, Gate!Release, Gate!Goto
<1>3. HostShape'
  BY DEF Lawful, GateInv, GateTyped, Ranks, HostShape, Gate!Release, Gate!Goto
<1>4. DoorShape'
  BY DEF Lawful, GateInv, GateTyped, Ranks, HostShape, DoorShape, Gate!Release, Gate!Goto
<1>5. GateShape'
  BY DEF Lawful, GateInv, GateTyped, Ranks, HostShape, DoorShape, GateShape, Shutting,
         Gate!MayReopen, Gate!Release, Gate!Goto
<1>6. Quiet'
  BY DEF Lawful, GateInv, GateTyped, Ranks, HostShape, DoorShape, GateShape, Shutting, Quiet,
         Gate!InFlight, Gate!Release, Gate!Goto
<1>7. Kept'
  BY DEF Lawful, GateInv, GateTyped, Ranks, HostShape, DoorShape, GateShape, Shutting, Quiet,
         Gate!InFlight, Kept, Gate!Release, Gate!Goto
<1>8. Endpoint'
  BY DEF Lawful, GateInv, GateTyped, Endpoint, Gate!Release, Gate!Goto
<1> QED BY <1>1, <1>2, <1>3, <1>4, <1>5, <1>6, <1>7, <1>8 DEF GateInv

LEMMA LiftFenceKept ==
  ASSUME Lawful, Gate!LiftFence
  PROVE  GateInv'
<1>1. GateTyped'
  <2>1. fence' \in BOOLEAN
    BY DEF Gate!LiftFence
  <2>2. UNCHANGED <<door, gate, req, net, host, snap, task, move, late, closing>>
    BY DEF Gate!LiftFence
  <2>3. QED
    BY <2>1, <2>2 DEF Lawful, GateInv, GateTyped
<1>2. Ranks'
  BY DEF Lawful, GateInv, GateTyped, Ranks, Gate!LiftFence
<1>3. HostShape'
  BY DEF Lawful, GateInv, GateTyped, Ranks, HostShape, Gate!LiftFence
<1>4. DoorShape'
  BY DEF Lawful, GateInv, GateTyped, Ranks, HostShape, DoorShape, Gate!LiftFence
<1>5. GateShape'
  BY DEF Lawful, GateInv, GateTyped, Ranks, HostShape, DoorShape, GateShape, Shutting,
         Gate!MayReopen, Gate!LiftFence
<1>6. Quiet'
  BY DEF Lawful, GateInv, GateTyped, Ranks, HostShape, DoorShape, GateShape, Shutting, Quiet,
         Gate!InFlight, Gate!LiftFence
<1>7. Kept'
  BY DEF Lawful, GateInv, GateTyped, Ranks, HostShape, DoorShape, GateShape, Shutting, Quiet,
         Gate!InFlight, Kept, Gate!LiftFence
<1>8. Endpoint'
  BY DEF Lawful, GateInv, GateTyped, Endpoint, Gate!LiftFence
<1> QED BY <1>1, <1>2, <1>3, <1>4, <1>5, <1>6, <1>7, <1>8 DEF GateInv

LEMMA ReopenKept ==
  ASSUME Lawful, Gate!Reopen
  PROVE  GateInv'
<1>1. GateTyped'
  <2>1. door' \in BOOLEAN
    BY DEF Gate!Reopen
  <2>2. task' \in [k : Kinds \cup {"none"}, pc : Stages, abort : BOOLEAN]
    BY DEF Lawful, GateInv, GateTyped, Gate!Reopen, Gate!Ready, Gate!Goto
  <2>3. /\ fence' = fence /\ late' = late /\ closing' = closing /\ req' = req /\ snap' = snap /\ move' = move
        /\ gate' \in [open : BOOLEAN, closed : BOOLEAN, epoch : Nat]
        /\ net' \in [live : BOOLEAN, ep : Nat]
        /\ host' \in [store : BOOLEAN, attached : BOOLEAN, lease : BOOLEAN]
    BY DEF Lawful, GateInv, GateTyped, Gate!Reopen, Gate!Ready, Gate!Goto
  <2>4. QED
    BY <2>1, <2>2, <2>3 DEF Lawful, GateInv, GateTyped
<1>2. Ranks'
  BY DEF Lawful, GateInv, GateTyped, Ranks, Gate!Reopen, Gate!Ready, Gate!Goto, Gate!GuardFree
<1>3. HostShape'
  BY DEF Lawful, GateInv, GateTyped, Ranks, HostShape, Gate!Reopen, Gate!Ready, Gate!Goto, Gate!GuardFree
<1>4. DoorShape'
  BY DEF Lawful, GateInv, GateTyped, Ranks, HostShape, DoorShape, Gate!Reopen, Gate!Ready, Gate!Goto,
         Gate!GuardFree
<1>5. GateShape'
  BY DEF Lawful, GateInv, GateTyped, Ranks, HostShape, DoorShape, GateShape, Shutting,
         Gate!MayReopen,
         Gate!Reopen, Gate!Ready, Gate!Goto, Gate!GuardFree
<1>6. Quiet'
  BY DEF Lawful, GateInv, GateTyped, Ranks, HostShape, DoorShape, GateShape, Shutting,
         Quiet, Gate!InFlight, Gate!Reopen, Gate!Ready, Gate!Goto, Gate!GuardFree
<1>7. Kept'
  BY DEF Lawful, GateInv, GateTyped, Ranks, HostShape, DoorShape, GateShape, Shutting,
         Quiet, Kept, Gate!InFlight, Gate!Reopen, Gate!Ready, Gate!Goto, Gate!GuardFree
<1>8. Endpoint'
  BY DEF Lawful, GateInv, GateTyped, Endpoint, Gate!Reopen, Gate!Ready, Gate!Goto, Gate!GuardFree
<1> QED BY <1>1, <1>2, <1>3, <1>4, <1>5, <1>6, <1>7, <1>8 DEF GateInv

LEMMA OpenDoorKept ==
  ASSUME Lawful, Gate!OpenDoor
  PROVE  GateInv'
<1>1. GateTyped'
  <2>1. door' \in BOOLEAN
    BY DEF Gate!OpenDoor, Lawful, GateInv, GateTyped
  <2>2. task' \in [k : Kinds \cup {"none"}, pc : Stages, abort : BOOLEAN]
    <3>1. task' = [k |-> "none", pc |-> "none", abort |-> FALSE]
      BY DEF Gate!OpenDoor
    <3>2. FALSE \in BOOLEAN /\ "none" \in Kinds \cup {"none"} /\ "none" \in Stages
      OBVIOUS
    <3>3. QED
      BY <3>1, <3>2
  <2>3. /\ fence' = fence /\ late' = late /\ closing' = closing /\ req' = req /\ snap' = snap /\ move' = move
        /\ gate' = gate /\ net' = net
    BY DEF Gate!OpenDoor
  <2>4. host' \in [store : BOOLEAN, attached : BOOLEAN, lease : BOOLEAN]
    BY DEF Lawful, GateInv, GateTyped, Gate!OpenDoor
  <2>5. QED
    BY <2>1, <2>2, <2>3, <2>4 DEF Lawful, GateInv, GateTyped
<1>2. Ranks'
  BY DEF Lawful, GateInv, GateTyped, Ranks, Gate!OpenDoor
<1>3. HostShape'
  BY DEF Lawful, GateInv, GateTyped, Ranks, HostShape, Gate!OpenDoor
<1>4. DoorShape'
  BY DEF Lawful, GateInv, GateTyped, Ranks, HostShape, DoorShape, Gate!OpenDoor
<1>5. GateShape'
  BY DEF Lawful, GateInv, GateTyped, Ranks, HostShape, DoorShape, GateShape, Shutting,
         Gate!MayReopen,
         Gate!OpenDoor
<1>6. Quiet'
  BY DEF Lawful, GateInv, GateTyped, Ranks, HostShape, DoorShape, GateShape, Shutting,
         Quiet, Gate!InFlight, Gate!OpenDoor
<1>7. Kept'
  BY DEF Lawful, GateInv, GateTyped, Ranks, HostShape, DoorShape, GateShape, Shutting,
         Quiet, Kept, Gate!InFlight, Gate!OpenDoor
<1>8. Endpoint'
  BY DEF Lawful, GateInv, GateTyped, Endpoint, Gate!OpenDoor
<1> QED BY <1>1, <1>2, <1>3, <1>4, <1>5, <1>6, <1>7, <1>8 DEF GateInv

LEMMA ShutdownAbortedKept ==
  ASSUME Lawful, Gate!ShutdownAborted
  PROVE  GateInv'
<1>1. GateTyped'
  <2>1. door' \in BOOLEAN
    <3>1. door' = FALSE \/ door' = (fence /\ door)
      BY DEF Gate!ShutdownAborted
    <3>2. QED
      BY <3>1 DEF Lawful, GateInv, GateTyped
  <2>2. task' \in [k : Kinds \cup {"none"}, pc : Stages, abort : BOOLEAN]
    BY DEF Lawful, GateInv, GateTyped, Gate!ShutdownAborted, Gate!TaskAt, Gate!Goto
  <2>3. /\ fence' = fence /\ late' = late /\ closing' = closing /\ req' = req /\ snap' = snap /\ move' = move
        /\ gate' \in [open : BOOLEAN, closed : BOOLEAN, epoch : Nat]
        /\ net' \in [live : BOOLEAN, ep : Nat]
        /\ host' \in [store : BOOLEAN, attached : BOOLEAN, lease : BOOLEAN]
    BY DEF Lawful, GateInv, GateTyped, Gate!ShutdownAborted, Gate!TaskAt, Gate!Goto
  <2>4. QED
    BY <2>1, <2>2, <2>3 DEF Lawful, GateInv, GateTyped
<1>2. Ranks'
  BY DEF Lawful, GateInv, GateTyped, Ranks, Gate!ShutdownAborted, Gate!TaskAt, Gate!Goto
<1>3. HostShape'
  BY DEF Lawful, GateInv, GateTyped, Ranks, HostShape, Gate!ShutdownAborted, Gate!TaskAt, Gate!Goto
<1>4. DoorShape'
  BY DEF Lawful, GateInv, GateTyped, Ranks, HostShape, DoorShape, Gate!ShutdownAborted, Gate!TaskAt,
         Gate!Goto
<1>5. GateShape'
  BY DEF Lawful, GateInv, GateTyped, Ranks, HostShape, DoorShape, GateShape, Shutting,
         Gate!MayReopen,
         Gate!ShutdownAborted, Gate!TaskAt, Gate!Goto
<1>6. Quiet'
  BY DEF Lawful, GateInv, GateTyped, Ranks, HostShape, DoorShape, GateShape, Shutting,
         Quiet, Gate!InFlight, Gate!ShutdownAborted, Gate!TaskAt, Gate!Goto
<1>7. Kept'
  BY DEF Lawful, GateInv, GateTyped, Ranks, HostShape, DoorShape, GateShape, Shutting,
         Quiet, Kept, Gate!InFlight, Gate!ShutdownAborted, Gate!TaskAt, Gate!Goto
<1>8. Endpoint'
  BY DEF Lawful, GateInv, GateTyped, Endpoint, Gate!ShutdownAborted, Gate!TaskAt, Gate!Goto
<1> QED BY <1>1, <1>2, <1>3, <1>4, <1>5, <1>6, <1>7, <1>8 DEF GateInv

LEMMA ReleaseLeaseKept ==
  ASSUME Lawful, Gate!ReleaseLease
  PROVE  GateInv'
<1>1. GateTyped'
  <2>1. host' \in [store : BOOLEAN, attached : BOOLEAN, lease : BOOLEAN]
    BY DEF Lawful, GateInv, GateTyped, Gate!ReleaseLease
  <2>2. UNCHANGED <<door, gate, req, net, fence, snap, task, move, late, closing>>
    BY DEF Gate!ReleaseLease
  <2>3. QED
    BY <2>1, <2>2 DEF Lawful, GateInv, GateTyped
<1>2. Ranks'
  BY DEF Lawful, GateInv, GateTyped, Ranks, Gate!ReleaseLease, Gate!TaskAt
<1>3. HostShape'
  BY DEF Lawful, GateInv, GateTyped, Ranks, HostShape, Gate!ReleaseLease, Gate!TaskAt
<1>4. DoorShape'
  BY DEF Lawful, GateInv, GateTyped, Ranks, HostShape, DoorShape, Gate!ReleaseLease, Gate!TaskAt
<1>5. GateShape'
  BY DEF Lawful, GateInv, GateTyped, Ranks, HostShape, DoorShape, GateShape, Shutting,
         Gate!MayReopen, Gate!ReleaseLease, Gate!TaskAt
<1>6. Quiet'
  BY DEF Lawful, GateInv, GateTyped, Ranks, HostShape, DoorShape, GateShape, Shutting, Quiet,
         Gate!InFlight, Gate!ReleaseLease, Gate!TaskAt
<1>7. Kept'
  BY DEF Lawful, GateInv, GateTyped, Ranks, HostShape, DoorShape, GateShape, Shutting, Quiet,
         Gate!InFlight, Kept, Gate!ReleaseLease, Gate!TaskAt
<1>8. Endpoint'
  BY DEF Lawful, GateInv, GateTyped, Endpoint, Gate!ReleaseLease, Gate!TaskAt
<1> QED BY <1>1, <1>2, <1>3, <1>4, <1>5, <1>6, <1>7, <1>8 DEF GateInv

LEMMA DetachCloseKept ==
  ASSUME Lawful, Gate!DetachClose
  PROVE  GateInv'
<1>1. GateTyped'
  BY DEF Lawful, GateInv, GateTyped, Gate!DetachClose, Gate!TaskAt, Gate!Goto, Gate!Shut
<1>2. Ranks'
  BY DEF Lawful, GateInv, GateTyped, Ranks, Gate!DetachClose, Gate!TaskAt, Gate!Goto, Gate!Shut
<1>3. HostShape'
  BY DEF Lawful, GateInv, GateTyped, Ranks, HostShape, Gate!DetachClose, Gate!TaskAt, Gate!Goto, Gate!Shut
<1>4. DoorShape'
  BY DEF Lawful, GateInv, GateTyped, Ranks, HostShape, DoorShape, Gate!DetachClose, Gate!TaskAt,
         Gate!Goto, Gate!Shut
<1>5. GateShape'
  BY DEF Lawful, GateInv, GateTyped, Ranks, HostShape, DoorShape, GateShape, Shutting,
         Gate!MayReopen,
         Gate!DetachClose, Gate!TaskAt, Gate!Goto, Gate!Shut
<1>6. Quiet'
  BY DEF Lawful, GateInv, GateTyped, Ranks, HostShape, DoorShape, GateShape, Shutting,
         Quiet, Gate!InFlight, Gate!DetachClose, Gate!TaskAt, Gate!Goto, Gate!Shut
<1>7. Kept'
  BY DEF Lawful, GateInv, GateTyped, Ranks, HostShape, DoorShape, GateShape, Shutting,
         Quiet, Kept, Gate!InFlight, Gate!DetachClose, Gate!TaskAt, Gate!Goto, Gate!Shut
<1>8. Endpoint'
  BY DEF Lawful, GateInv, GateTyped, Endpoint, Gate!DetachClose, Gate!TaskAt, Gate!Goto, Gate!Shut
<1> QED BY <1>1, <1>2, <1>3, <1>4, <1>5, <1>6, <1>7, <1>8 DEF GateInv

LEMMA DetachKept ==
  ASSUME Lawful, NEW ok \in BOOLEAN, Gate!Detach(ok)
  PROVE  GateInv'
<1>1. GateTyped'
  <2>1. door' \in BOOLEAN
    BY DEF Gate!Detach, Lawful, GateInv, GateTyped
  <2>2. task' \in [k : Kinds \cup {"none"}, pc : Stages, abort : BOOLEAN]
    BY DEF Lawful, GateInv, GateTyped, Gate!Detach, Gate!TaskAt, Gate!Goto
  <2>3. /\ fence' = fence /\ late' = late /\ closing' = closing /\ req' = req /\ snap' = snap /\ move' = move
        /\ gate' \in [open : BOOLEAN, closed : BOOLEAN, epoch : Nat]
        /\ net' \in [live : BOOLEAN, ep : Nat]
        /\ host' \in [store : BOOLEAN, attached : BOOLEAN, lease : BOOLEAN]
    BY DEF Lawful, GateInv, GateTyped, Gate!Detach, Gate!TaskAt, Gate!Goto
  <2>4. QED
    BY <2>1, <2>2, <2>3 DEF Lawful, GateInv, GateTyped
<1>2. Ranks'
  BY DEF Lawful, GateInv, GateTyped, Ranks, Gate!Detach, Gate!TaskAt, Gate!Goto, Gate!Drained, Gate!GuardFree
<1>3. HostShape'
  BY DEF Lawful, GateInv, GateTyped, Ranks, HostShape, Gate!Detach, Gate!TaskAt, Gate!Goto, Gate!Drained,
         Gate!GuardFree
<1>4. DoorShape'
  BY DEF Lawful, GateInv, GateTyped, Ranks, HostShape, DoorShape, Gate!Detach, Gate!TaskAt, Gate!Goto,
         Gate!Drained, Gate!GuardFree
<1>5. GateShape'
  BY DEF Lawful, GateInv, GateTyped, Ranks, HostShape, DoorShape, GateShape, Shutting,
         Gate!MayReopen,
         Gate!Detach, Gate!TaskAt, Gate!Goto, Gate!Drained, Gate!GuardFree
<1>6. Quiet'
  BY DEF Lawful, GateInv, GateTyped, Ranks, HostShape, DoorShape, GateShape, Shutting,
         Quiet, Gate!InFlight, Gate!Detach, Gate!TaskAt, Gate!Goto, Gate!Drained, Gate!GuardFree
<1>7. Kept'
  BY DEF Lawful, GateInv, GateTyped, Ranks, HostShape, DoorShape, GateShape, Shutting,
         Quiet, Kept, Gate!InFlight, Gate!Detach, Gate!TaskAt, Gate!Goto, Gate!Drained, Gate!GuardFree
<1>8. Endpoint'
  BY DEF Lawful, GateInv, GateTyped, Endpoint, Gate!Detach, Gate!TaskAt, Gate!Goto, Gate!Drained, Gate!GuardFree
<1> QED BY <1>1, <1>2, <1>3, <1>4, <1>5, <1>6, <1>7, <1>8 DEF GateInv

LEMMA DropKept ==
  ASSUME Lawful, Gate!Drop
  PROVE  GateInv'
<1>1. GateTyped'
  <2>1. door' \in BOOLEAN
    BY DEF Gate!Drop
  <2>2. task' \in [k : Kinds \cup {"none"}, pc : Stages, abort : BOOLEAN]
    <3>1. task' = [k |-> "none", pc |-> "none", abort |-> FALSE]
      BY DEF Gate!Drop
    <3>2. FALSE \in BOOLEAN /\ "none" \in Kinds \cup {"none"} /\ "none" \in Stages
      OBVIOUS
    <3>3. QED
      BY <3>1, <3>2
  <2>3. /\ fence' = fence /\ late' = late /\ closing' = closing /\ req' = req /\ snap' = snap /\ move' = move
        /\ gate' = gate /\ net' = net
    BY DEF Gate!Drop
  <2>4. host' \in [store : BOOLEAN, attached : BOOLEAN, lease : BOOLEAN]
    BY DEF Lawful, GateInv, GateTyped, Gate!Drop, Gate!TaskAt
  <2>5. QED
    BY <2>1, <2>2, <2>3, <2>4 DEF Lawful, GateInv, GateTyped
<1>2. Ranks'
  BY DEF Lawful, GateInv, GateTyped, Ranks, Gate!Drop, Gate!TaskAt
<1>3. HostShape'
  BY DEF Lawful, GateInv, GateTyped, Ranks, HostShape, Gate!Drop, Gate!TaskAt
<1>4. DoorShape'
  BY DEF Lawful, GateInv, GateTyped, Ranks, HostShape, DoorShape, Gate!Drop, Gate!TaskAt
<1>5. GateShape'
  BY DEF Lawful, GateInv, GateTyped, Ranks, HostShape, DoorShape, GateShape, Shutting,
         Gate!MayReopen,
         Gate!Drop, Gate!TaskAt
<1>6. Quiet'
  BY DEF Lawful, GateInv, GateTyped, Ranks, HostShape, DoorShape, GateShape, Shutting,
         Quiet, Gate!InFlight, Gate!Drop, Gate!TaskAt
<1>7. Kept'
  BY DEF Lawful, GateInv, GateTyped, Ranks, HostShape, DoorShape, GateShape, Shutting,
         Quiet, Kept, Gate!InFlight, Gate!Drop, Gate!TaskAt
<1>8. Endpoint'
  BY DEF Lawful, GateInv, GateTyped, Endpoint, Gate!Drop, Gate!TaskAt
<1> QED BY <1>1, <1>2, <1>3, <1>4, <1>5, <1>6, <1>7, <1>8 DEF GateInv

LEMMA AttachKept ==
  ASSUME Lawful, Gate!Attach
  PROVE  GateInv'
<1>1. GateTyped'
  BY DEF Lawful, GateInv, GateTyped, Gate!Attach, Gate!GuardFree
<1>2. Ranks'
  BY DEF Lawful, GateInv, GateTyped, Ranks, Gate!Attach, Gate!GuardFree
<1>3. HostShape'
  BY DEF Lawful, GateInv, GateTyped, Ranks, HostShape, Gate!Attach, Gate!GuardFree
<1>4. DoorShape'
  BY DEF Lawful, GateInv, GateTyped, Ranks, HostShape, DoorShape, Gate!Attach, Gate!GuardFree
<1>5. GateShape'
  BY DEF Lawful, GateInv, GateTyped, Ranks, HostShape, DoorShape, GateShape, Shutting,
         Gate!MayReopen,
         Gate!Attach, Gate!GuardFree
<1>6. Quiet'
  BY DEF Lawful, GateInv, GateTyped, Ranks, HostShape, DoorShape, GateShape, Shutting,
         Quiet, Gate!InFlight, Gate!Attach, Gate!GuardFree
<1>7. Kept'
  BY DEF Lawful, GateInv, GateTyped, Ranks, HostShape, DoorShape, GateShape, Shutting,
         Quiet, Kept, Gate!InFlight, Gate!Attach, Gate!GuardFree
<1>8. Endpoint'
  BY DEF Lawful, GateInv, GateTyped, Endpoint, Gate!Attach, Gate!GuardFree
<1> QED BY <1>1, <1>2, <1>3, <1>4, <1>5, <1>6, <1>7, <1>8 DEF GateInv

LEMMA RuntimeShutdownKept ==
  ASSUME Lawful, Gate!RuntimeShutdown
  PROVE  GateInv'
<1>1. GateTyped'
  BY DEF Lawful, GateInv, GateTyped, Gate!RuntimeShutdown, Gate!TaskAt, Gate!Shut
<1>2. Ranks'
  BY DEF Lawful, GateInv, GateTyped, Ranks, Gate!RuntimeShutdown, Gate!TaskAt, Gate!Shut
<1>3. HostShape'
  BY DEF Lawful, GateInv, GateTyped, Ranks, HostShape, Gate!RuntimeShutdown, Gate!TaskAt, Gate!Shut
<1>4. DoorShape'
  BY DEF Lawful, GateInv, GateTyped, Ranks, HostShape, DoorShape, Gate!RuntimeShutdown, Gate!TaskAt,
         Gate!Shut
<1>5. GateShape'
  BY DEF Lawful, GateInv, GateTyped, Ranks, HostShape, DoorShape, GateShape, Shutting,
         Gate!MayReopen,
         Gate!RuntimeShutdown, Gate!TaskAt, Gate!Shut
<1>6. Quiet'
  BY DEF Lawful, GateInv, GateTyped, Ranks, HostShape, DoorShape, GateShape, Shutting,
         Quiet, Gate!InFlight, Gate!RuntimeShutdown, Gate!TaskAt, Gate!Shut
<1>7. Kept'
  BY DEF Lawful, GateInv, GateTyped, Ranks, HostShape, DoorShape, GateShape, Shutting,
         Quiet, Kept, Gate!InFlight, Gate!RuntimeShutdown, Gate!TaskAt, Gate!Shut
<1>8. Endpoint'
  BY DEF Lawful, GateInv, GateTyped, Endpoint, Gate!RuntimeShutdown, Gate!TaskAt, Gate!Shut
<1> QED BY <1>1, <1>2, <1>3, <1>4, <1>5, <1>6, <1>7, <1>8 DEF GateInv

LEMMA MoveAskedKept ==
  ASSUME Lawful, Gate!MoveAsked
  PROVE  GateInv'
<1>1. GateTyped'
  BY DEF Lawful, GateInv, GateTyped, Gate!MoveAsked, Gate!Shut
<1>2. Ranks'
  BY DEF Lawful, GateInv, GateTyped, Ranks, Gate!MoveAsked, Gate!Shut
<1>3. HostShape'
  BY DEF Lawful, GateInv, GateTyped, Ranks, HostShape, Gate!MoveAsked, Gate!Shut
<1>4. DoorShape'
  BY DEF Lawful, GateInv, GateTyped, Ranks, HostShape, DoorShape, Gate!MoveAsked, Gate!Shut
<1>5. GateShape'
  BY DEF Lawful, GateInv, GateTyped, Ranks, HostShape, DoorShape, GateShape, Shutting,
         Gate!MayReopen,
         Gate!MoveAsked, Gate!Shut
<1>6. Quiet'
  BY DEF Lawful, GateInv, GateTyped, Ranks, HostShape, DoorShape, GateShape, Shutting,
         Quiet, Gate!InFlight, Gate!MoveAsked, Gate!Shut
<1>7. Kept'
  BY DEF Lawful, GateInv, GateTyped, Ranks, HostShape, DoorShape, GateShape, Shutting,
         Quiet, Kept, Gate!InFlight, Gate!MoveAsked, Gate!Shut
<1>8. Endpoint'
  BY DEF Lawful, GateInv, GateTyped, Endpoint, Gate!MoveAsked, Gate!Shut
<1> QED BY <1>1, <1>2, <1>3, <1>4, <1>5, <1>6, <1>7, <1>8 DEF GateInv

LEMMA MoveStopKept ==
  ASSUME Lawful, Gate!MoveStop
  PROVE  GateInv'
<1>1. GateTyped'
  BY DEF Lawful, GateInv, GateTyped, Gate!MoveStop
<1>2. Ranks'
  BY DEF Lawful, GateInv, GateTyped, Ranks, Gate!MoveStop
<1>3. HostShape'
  BY DEF Lawful, GateInv, GateTyped, Ranks, HostShape, Gate!MoveStop
<1>4. DoorShape'
  BY DEF Lawful, GateInv, GateTyped, Ranks, HostShape, DoorShape, Gate!MoveStop
<1>5. GateShape'
  BY DEF Lawful, GateInv, GateTyped, Ranks, HostShape, DoorShape, GateShape, Shutting,
         Gate!MayReopen,
         Gate!MoveStop
<1>6. Quiet'
  BY DEF Lawful, GateInv, GateTyped, Ranks, HostShape, DoorShape, GateShape, Shutting,
         Quiet, Gate!InFlight, Gate!MoveStop
<1>7. Kept'
  BY DEF Lawful, GateInv, GateTyped, Ranks, HostShape, DoorShape, GateShape, Shutting,
         Quiet, Kept, Gate!InFlight, Gate!MoveStop
<1>8. Endpoint'
  BY DEF Lawful, GateInv, GateTyped, Endpoint, Gate!MoveStop
<1> QED BY <1>1, <1>2, <1>3, <1>4, <1>5, <1>6, <1>7, <1>8 DEF GateInv

LEMMA MovedKept ==
  ASSUME Lawful, NEW live \in BOOLEAN, Gate!Moved(live)
  PROVE  GateInv'
<1>1. GateTyped'
  BY DEF Lawful, GateInv, GateTyped, Gate!Moved, Gate!Reopened, Gate!Ready
<1>2. Ranks'
  BY DEF Lawful, GateInv, GateTyped, Ranks, Gate!Moved, Gate!Reopened, Gate!Ready
<1>3. HostShape'
  BY DEF Lawful, GateInv, GateTyped, Ranks, HostShape, Gate!Moved, Gate!Reopened, Gate!Ready
<1>4. DoorShape'
  BY DEF Lawful, GateInv, GateTyped, Ranks, HostShape, DoorShape, Gate!Moved, Gate!Reopened, Gate!Ready
<1>5. GateShape'
  <2>1. move.pc # "none" /\ move'.pc = "none"
    BY DEF Gate!Moved
  <2>2. /\ task' = task /\ host' = host /\ door' = door /\ fence' = fence
        /\ gate' = Gate!Reopened(live)
    BY DEF Gate!Moved
  <2>3. CASE Gate!MayReopen
    <3>1. ~Shutting /\ gate'.closed = ~Gate!Ready /\ gate'.open = (Gate!Ready /\ live)
      BY <2>1, <2>2, <2>3 DEF Lawful, GateInv, GateTyped, GateShape, Gate!Reopened
    <3>2. ~(task.pc = "none" /\ host.store /\ ~door)
      BY <2>1, <2>3 DEF Lawful, GateInv, GateShape
    <3>3. Gate!Ready
      BY <3>1 DEF Lawful, GateInv, Ranks, HostShape, Shutting, Gate!Ready
    <3>4. QED
      BY <2>1, <2>2, <3>1, <3>2, <3>3 DEF GateShape, Shutting
  <2>4. CASE ~Gate!MayReopen
    <3>1. gate' = gate
      BY <2>2, <2>4 DEF Gate!Reopened
    <3>2. QED
      BY <2>1, <2>2, <2>4, <3>1 DEF Lawful, GateInv, GateShape, Shutting
  <2>5. QED
    BY <2>3, <2>4
<1>6. Quiet'
  BY DEF Lawful, GateInv, GateTyped, Ranks, HostShape, DoorShape, GateShape, Shutting,
         Quiet, Gate!InFlight, Gate!Moved, Gate!Reopened, Gate!Ready
<1>7. Kept'
  BY DEF Lawful, GateInv, GateTyped, Ranks, HostShape, DoorShape, GateShape, Shutting,
         Quiet, Kept, Gate!InFlight, Gate!Moved, Gate!Reopened, Gate!Ready
<1>8. Endpoint'
  BY DEF Lawful, GateInv, GateTyped, Endpoint, Gate!Moved, Gate!Reopened, Gate!Ready
<1> QED BY <1>1, <1>2, <1>3, <1>4, <1>5, <1>6, <1>7, <1>8 DEF GateInv

LEMMA MoveFailedKept ==
  ASSUME Lawful, NEW live \in BOOLEAN, Gate!MoveFailed(live)
  PROVE  GateInv'
<1>1. GateTyped'
  BY DEF Lawful, GateInv, GateTyped, Gate!MoveFailed, Gate!Reopened, Gate!Ready
<1>2. Ranks'
  BY DEF Lawful, GateInv, GateTyped, Ranks, Gate!MoveFailed, Gate!Reopened, Gate!Ready
<1>3. HostShape'
  BY DEF Lawful, GateInv, GateTyped, Ranks, HostShape, Gate!MoveFailed, Gate!Reopened, Gate!Ready
<1>4. DoorShape'
  BY DEF Lawful, GateInv, GateTyped, Ranks, HostShape, DoorShape, Gate!MoveFailed, Gate!Reopened,
         Gate!Ready
<1>5. GateShape'
  <2>1. move.pc # "none" /\ move'.pc = "none"
    BY DEF Gate!MoveFailed
  <2>2. /\ task' = task /\ host' = host /\ door' = door /\ fence' = fence
        /\ gate' = Gate!Reopened(live)
    BY DEF Gate!MoveFailed
  <2>3. CASE Gate!MayReopen
    <3>1. ~Shutting /\ gate'.closed = ~Gate!Ready /\ gate'.open = (Gate!Ready /\ live)
      BY <2>1, <2>2, <2>3 DEF Lawful, GateInv, GateTyped, GateShape, Gate!Reopened
    <3>2. ~(task.pc = "none" /\ host.store /\ ~door)
      BY <2>1, <2>3 DEF Lawful, GateInv, GateShape
    <3>3. Gate!Ready
      BY <3>1 DEF Lawful, GateInv, Ranks, HostShape, Shutting, Gate!Ready
    <3>4. QED
      BY <2>1, <2>2, <3>1, <3>2, <3>3 DEF GateShape, Shutting
  <2>4. CASE ~Gate!MayReopen
    <3>1. gate' = gate
      BY <2>2, <2>4 DEF Gate!Reopened
    <3>2. QED
      BY <2>1, <2>2, <2>4, <3>1 DEF Lawful, GateInv, GateShape, Shutting
  <2>5. QED
    BY <2>3, <2>4
<1>6. Quiet'
  BY DEF Lawful, GateInv, GateTyped, Ranks, HostShape, DoorShape, GateShape, Shutting,
         Quiet, Gate!InFlight, Gate!MoveFailed, Gate!Reopened, Gate!Ready
<1>7. Kept'
  BY DEF Lawful, GateInv, GateTyped, Ranks, HostShape, DoorShape, GateShape, Shutting,
         Quiet, Kept, Gate!InFlight, Gate!MoveFailed, Gate!Reopened, Gate!Ready
<1>8. Endpoint'
  BY DEF Lawful, GateInv, GateTyped, Endpoint, Gate!MoveFailed, Gate!Reopened, Gate!Ready
<1> QED BY <1>1, <1>2, <1>3, <1>4, <1>5, <1>6, <1>7, <1>8 DEF GateInv

LEMMA GateStart ==
  ASSUME LanesApart, Gate!Init
  PROVE  GateInv
<1>1. GateTyped
  BY DEF Gate!Init, GateTyped
<1>2. Ranks /\ HostShape /\ DoorShape /\ GateShape /\ Kept /\ Endpoint
  BY DEF Gate!Init, Ranks, HostShape, DoorShape, GateShape, Shutting, Kept, Endpoint
<1>3. Quiet
  BY DEF Gate!Init, Quiet, Gate!InFlight
<1>4. QED
  BY <1>1, <1>2, <1>3 DEF GateInv

LEMMA GateStep ==
  ASSUME Lawful, [Gate!Next]_(Gate!vars)
  PROVE  GateInv'
<1>1. CASE UNCHANGED Gate!vars
  BY <1>1 DEF Gate!vars, Lawful, GateInv, GateTyped, Ranks, HostShape, DoorShape, GateShape, Shutting,
         Gate!MayReopen, Quiet, Kept, Endpoint, Gate!InFlight
<1>2. CASE Gate!Requests
  <2>1. PICK r \in Gate!Lanes : Gate!WebEnter(r) \/ Gate!WebCheck(r) \/ Gate!WebWrite(r) \/ Gate!Connect(r) \/ Gate!Heartbeat(r)
                           \/ Gate!PeerEnter(r) \/ Gate!AgentEnter(r) \/ Gate!Forward(r)
    BY <1>2 DEF Gate!Requests
  <2>2. QED
    BY <2>1, WebEnterKept, WebCheckKept, WebWriteKept, ConnectKept, HeartbeatKept, PeerEnterKept,
       AgentEnterKept, ForwardKept
<1>3. CASE Gate!Closings
  <2>1. CASE \E k \in Kinds : Gate!Begin(k)
    BY <2>1, BeginKept
  <2>2. CASE \E ok \in BOOLEAN : Gate!Release(ok) \/ Gate!Detach(ok)
    BY <2>2, ReleaseKept, DetachKept
  <2>3. CASE Gate!CloseDoor \/ Gate!Abandon \/ Gate!Snapshot \/ Gate!NoSnapshot \/ Gate!FenceLeft
             \/ Gate!LiftFence
    BY <2>3, CloseDoorKept, AbandonKept, SnapshotKept, NoSnapshotKept, FenceLeftKept, LiftFenceKept
  <2>5. CASE Gate!Reopen \/ Gate!OpenDoor \/ Gate!ShutdownAborted \/ Gate!ReleaseLease \/ Gate!RuntimeShutdown
             \/ Gate!DetachClose \/ Gate!Drop \/ Gate!Attach
    BY <2>5, ReopenKept, OpenDoorKept, ShutdownAbortedKept, ReleaseLeaseKept, RuntimeShutdownKept,
       DetachCloseKept, DropKept, AttachKept
  <2>4. QED
    BY <1>3, <2>1, <2>2, <2>3, <2>5 DEF Gate!Closings
<1>4. CASE Gate!Moves
  BY <1>4, MoveAskedKept, MoveStopKept, MovedKept, MoveFailedKept DEF Gate!Moves
<1>5. QED
  BY <1>1, <1>2, <1>3, <1>4 DEF Gate!Next

LEMMA GateSound ==
  ASSUME GateInv
  PROVE  Gate!HostDoorsSound
<1>1. Gate!SnapshotComplete
  BY DEF GateInv, Kept, Gate!SnapshotComplete
<1>2. Gate!LeaseCovers
  BY DEF GateInv, HostShape, Quiet, Gate!InFlight, Gate!LeaseCovers
<1>3. Gate!OldEndpointQuiet
  BY DEF GateInv, Endpoint, Gate!OldEndpointQuiet
<1>4. Gate!DoorsOpenAtRest
  BY DEF GateInv, DoorShape, GateShape, Shutting, Gate!DoorsOpenAtRest
<1>5. QED
  BY <1>1, <1>2, <1>3, <1>4 DEF Gate!HostDoorsSound

(* Closing the hosted Hub's doors means what its users rely on, for any    *)
(* set of requests, closing operations and endpoint changes: no write is   *)
(* missing from a snapshot; the lease is not released under a request,     *)
(* except one of the mounted application when the drain of a shutdown ran  *)
(* out of patience; nothing of a replaced endpoint is served; and the only *)
(* closure left behind has a fence behind it                               *)
(* (_close_and_drain, _close_host_admission, reopen_host_admission,        *)
(* ManagedTeamHubHost.shutdown).                                           *)
THEOREM DoorsStaySound ==
  ASSUME LanesApart
  PROVE  Gate!Spec => []Gate!HostDoorsSound
<1>1. Gate!Init => GateInv
  BY GateStart
<1>2. GateInv /\ [Gate!Next]_(Gate!vars) => GateInv'
  BY GateStep DEF Lawful
<1>3. GateInv => Gate!HostDoorsSound
  BY GateSound
<1>4. QED
  BY <1>1, <1>2, <1>3, PTL DEF Gate!Spec

-----------------------------------------------------------------------------
(* The types. *)
Steps == {Role!None, "decide", "recover", "configure", "inspect", "prepare", "adopt", "authorize",
          "journal", "pause", "open", "commit", "unfence", "accept", "complete", "undoName",
          "undoConfig", "undoPause", "undone", "rollback", "acknowledge", "rolled", "stuck",
          "settle", "peerName", "persist", "drain", "undemote", "resume"}

Cfg == [role : {"member", "host"}, name : TeamNames]
Hub == [files : {Role!None, "partial", "whole"}, fence : {Role!None, "unclaimed", "adopted"},
        spent : BOOLEAN, auth : BOOLEAN, receipt : {Role!None, "named", "unnamed"}]
Run == [up : BOOLEAN, mode : {"member", "host"}, store : BOOLEAN, accepting : BOOLEAN,
        attached : BOOLEAN, fenced : BOOLEAN, peer : TeamNames \cup {Role!None}, live : TeamNames \cup {Role!None}]
Op == [k : {Role!None, "enable", "disable", "rename", "remain", "start"}, pc : Steps, n : TeamNames \cup {Role!None},
       was : TeamNames \cup {Role!None}, react : BOOLEAN, adopted : BOOLEAN, saved : TeamNames \cup {Role!None},
       paused : BOOLEAN, opened : BOOLEAN]
Count == [asks : Nat, faults : Nat, crashes : Nat]

RoleTyped ==
  /\ cfg \in Cfg /\ roleHub \in Hub /\ run \in Run /\ op \in Op /\ roleCount \in Count
  /\ member \in {Role!None, "active", "paused"}
  /\ roleJournal \in BOOLEAN /\ served \in BOOLEAN /\ undone \in BOOLEAN

(* Which request is at which step.                                         *)
Turning == {"configure", "inspect", "prepare", "adopt", "authorize", "journal", "pause", "open"}
Hosting == {"commit", "unfence", "accept"}
TakingBack == {"undoName", "undoConfig", "undoPause", "undone"}
Repairing == {"recover", "rollback", "acknowledge", "rolled", "stuck", "settle"}

Control ==
  /\ op.pc = Role!None => op = Role!Idle
  /\ ~run.up => op = Role!Idle /\ run = Role!Down
  /\ op.pc \in Turning \cup Hosting \cup TakingBack \cup {"complete"} => op.k = "enable"
  /\ op.pc = "decide" => op.k \in {"enable", "disable"}
  /\ op.pc \in Repairing => op.k \in {"enable", "disable", "start"}
  /\ op.pc = "peerName" => op.k = "rename"
  /\ op.pc = "persist" => op.k \in {"rename", "disable", "remain"}
  /\ op.pc \in {"drain", "undemote"} => op.k = "disable"
  /\ op.pc = "resume" => op.k \in {"disable", "remain"}
  /\ op.k \notin {Role!None, "start"} => op.n \in TeamNames
  /\ op.pc \in {"unfence", "drain", "undemote", "resume"} => op.saved \in TeamNames

(* What the process is at each step.                                       *)
Modes ==
  /\ run.accepting => run.store
  /\ run.store => run.mode = "host"
  /\ op.pc \in Turning \cup TakingBack \cup {"rollback", "acknowledge", "rolled", "resume"} =>
       run.mode = "member"
  /\ op.pc = "persist" /\ op.k = "remain" => run.mode = "member"
  /\ op.pc \in Hosting \cup {"complete", "settle", "peerName", "drain", "undemote"} => run.mode = "host"
  /\ op.pc = "persist" /\ op.k # "remain" => run.mode = "host"
  /\ op.pc \in Hosting => op.opened /\ run.store

(* A membership that is active has no Hub that serves beside it.           *)
Alone ==
  /\ run.accepting => member # "active"
  /\ op.pc \in {"open"} \cup Hosting => member # "active"

(* A fence stands before every acknowledged write.                         *)
Unserved ==
  /\ ~undone
  /\ roleHub.fence # Role!None => ~served
  /\ op.pc = "adopt" => roleHub.fence # Role!None

(* What holds however many steps fail. *)
RoleBase == RoleTyped /\ Control /\ Modes /\ Alone /\ Unserved

-----------------------------------------------------------------------------
(* The configuration says what the process is. *)
Agreed == cfg.role = run.mode /\ cfg.name = run.peer /\ cfg.name = run.live

(* What the configuration, the process and the request say at each step.   *)
Naming ==
  /\ run.up /\ op.pc \in (Turning \ {"open"}) \cup Repairing
                        \cup {Role!None, "decide", "complete", "undoPause", "undone", "peerName"} => Agreed
  /\ op.pc = "persist" /\ op.k # "rename" => Agreed
  /\ op.pc = "resume" /\ op.k = "disable" => Agreed
  /\ op.pc \in (Turning \ {"open"}) \cup {"decide", "peerName"} => op.was = run.peer
  /\ op.pc = "persist" /\ op.k # "rename" => op.was = run.peer
  /\ op.pc \in Repairing /\ op.k # "start" /\ ~op.react => op.was = run.peer
  /\ op.pc = "persist" /\ op.k = "rename" =>
       cfg.role = "host" /\ cfg.name = op.was /\ run.live = op.was /\ run.peer = op.n
  /\ op.pc = "resume" /\ op.k = "remain" => /\ cfg.role = "member" /\ cfg.name = op.n /\ run.peer = op.n
                                            /\ op.saved = op.was
  /\ op.pc = "resume" /\ op.k = "remain" => run.live = op.was
  /\ op.pc = "resume" /\ op.k = "disable" => run.peer = op.n
  /\ op.pc \in {"drain", "undemote"} => /\ cfg.role = "member" /\ cfg.name = op.n /\ run.peer = op.n
                                        /\ run.live = op.saved
  /\ op.pc \in {"open", "commit"} =>
       cfg.role = "member" /\ cfg.name = op.was /\ run.live = op.was /\ run.peer = op.n
  /\ op.pc = "unfence" =>
       cfg.role = "host" /\ cfg.name = op.n /\ run.live = op.was /\ run.peer = op.n /\ op.saved = op.was
  /\ op.pc = "accept" => cfg.role = "host" /\ cfg.name = op.n /\ run.peer = op.n

(* What an undo knows: the configuration was saved only if the step after it *)
(* failed, and that failure was the request's last.                          *)
Unsaved ==
  /\ op.pc \in Turning \cup {"decide", "commit"} => op.saved = Role!None
  /\ op.pc \in {"undoName", "undoConfig"} => run.live = op.was
  /\ op.pc = "undoConfig" => run.peer = op.was
  /\ op.pc \in {"undoName", "undoConfig"} /\ op.saved = Role!None => cfg.role = "member" /\ cfg.name = op.was
  /\ op.pc \in {"undoName", "undoConfig"} /\ op.saved # Role!None =>
       cfg.role = "host" /\ op.saved = op.was /\ op.react /\ roleHub.fence = "adopted"
       /\ roleCount.faults >= MaxFaults
  /\ op.pc = "undemote" => roleCount.faults >= MaxFaults

(* What the files of the Hub say of each other.                            *)
Files ==
  /\ roleHub.fence # Role!None => roleHub.files = "whole"
  /\ roleHub.receipt = "named" =>
       roleJournal /\ roleHub.fence = Role!None /\ ~roleHub.spent /\ ~roleHub.auth
  /\ cfg.role = "host" => Role!MayOpen
  /\ cfg.role = "host" /\ roleHub.fence # Role!None => roleJournal
  /\ roleJournal /\ cfg.role = "member" => Role!Consumed \/ roleHub.fence = "adopted"
                                              \/ roleHub.receipt = "named"

(* How far a reactivation has come at each step.                           *)
Reactivation ==
  /\ op.pc \in {"decide", "configure", "inspect", "prepare", "adopt", "authorize", "journal",
               "peerName", "persist", "drain", "undemote", "resume"} => ~roleJournal
  /\ op.pc = "prepare" => roleHub.files = "whole"
  /\ op.pc = "prepare" => op.react
  /\ op.pc \in {"adopt", "authorize", "journal"} => op.react
  /\ op.pc \in {"authorize", "journal"} => roleHub.fence = "adopted"
  /\ op.pc = "journal" => roleHub.auth
  /\ op.pc \in {"pause", "open", "commit", "unfence"} /\ op.react =>
       roleJournal /\ roleHub.fence = "adopted" /\ roleHub.auth
  /\ op.pc \in {"pause", "open", "commit"} /\ ~op.react => roleHub.fence = Role!None
  /\ op.pc = "unfence" => op.react
  /\ op.pc = "commit" => Role!MayOpen
  /\ op.pc \in {"accept", "complete"} => roleHub.fence = Role!None
  /\ op.pc \in {"drain", "undemote"} => Role!MayOpen /\ roleHub.fence = Role!None
  /\ op.pc \in Turning \cup Hosting \cup TakingBack \cup {"complete", "rolled"} => roleHub.receipt # "named"

(* What holds when no request meets two failures. *)
RoleRest == Naming /\ Unsaved /\ Files /\ Reactivation
RoleInv == RoleBase /\ RoleRest

(* No request and no start meets more than one failing step: the undo of a  *)
(* failed step does not fail too.                                           *)
OneFault == Role!None \notin TeamNames /\ MaxFaults \in Nat /\ MaxFaults <= 1

USE DEF Role!None, Role!Idle, Role!Down, Steps, Turning, Hosting, TakingBack, Repairing, Role!At, Role!Goto, Role!Switching, Role!Closed,
        Role!disk, Role!ghost

(* A step that raised: a Hub that was opened is closed again. *)
Fell ==
  /\ op' = [op EXCEPT !.pc = "undoName"]
  /\ run' \in Run /\ run'.mode = "member" /\ ~run'.store /\ ~run'.accepting
  /\ run'.up = run.up /\ run'.peer = run.peer /\ run'.live = run.live

LEMMA FailedFacts ==
  ASSUME RoleTyped, Modes, op.pc \in Turning \cup Hosting, Role!Failed
  PROVE  Fell
<1>1. CASE op.opened
  BY <1>1 DEF Role!Failed, Fell, Role!Closed, RoleTyped, Run
<1>2. CASE ~op.opened
  BY <1>2 DEF Role!Failed, Fell, RoleTyped, Run, Modes
<1>3. QED
  BY <1>1, <1>2

LEMMA AttemptFacts ==
  ASSUME RoleTyped, NEW ok \in BOOLEAN, Role!Attempt(ok)
  PROVE  /\ roleCount' \in Count
         /\ ok => roleCount' = roleCount
         /\ ~ok => roleCount'.faults = roleCount.faults + 1 /\ roleCount.faults < MaxFaults
BY DEF RoleTyped, Count, Role!Attempt

LEMMA NameFacts ==
  ASSUME RoleTyped
  PROVE  /\ cfg.name \in TeamNames
         /\ run.peer \in TeamNames \cup {Role!None} /\ run.live \in TeamNames \cup {Role!None}
         /\ op.n \in TeamNames \cup {Role!None} /\ op.was \in TeamNames \cup {Role!None} /\ op.saved \in TeamNames \cup {Role!None}
BY DEF RoleTyped, Cfg, Run, Op

LEMMA CountFacts ==
  ASSUME RoleTyped
  PROVE  /\ [asks |-> roleCount.asks + 1, faults |-> 0, crashes |-> roleCount.crashes] \in Count
         /\ [asks |-> roleCount.asks, faults |-> 0, crashes |-> roleCount.crashes + 1] \in Count
<1>1. roleCount.asks \in Nat /\ roleCount.crashes \in Nat
  BY DEF RoleTyped, Count
<1>2. roleCount.asks + 1 \in Nat /\ roleCount.crashes + 1 \in Nat
  BY <1>1
<1>3. QED
  BY <1>1, <1>2 DEF Count
LEMMA AskBase ==
  ASSUME RoleBase, NEW k \in {"enable", "disable"}, NEW n \in TeamNames, Role!Ask(k, n)
  PROVE  RoleBase'
<1> DEFINE A1 == roleJournal
                 /\ op' = [Role!Idle EXCEPT !.k = k, !.n = n, !.was = run.peer, !.pc = "recover"]
           A2 == ~roleJournal
                 /\ op' = [Role!Idle EXCEPT !.k = k, !.n = n, !.was = run.peer, !.pc = "decide"]
<1>a. op = Role!Idle /\ run.up /\ run' = run /\ cfg' = cfg /\ roleHub' = roleHub /\ member' = member
      /\ roleJournal' = roleJournal /\ served' = served /\ undone' = undone
      /\ roleCount' = [asks |-> roleCount.asks + 1, faults |-> 0, crashes |-> roleCount.crashes]
  BY DEF RoleBase, Control, Role!Ask
<1>b. A1 \/ A2
  BY DEF RoleBase, RoleTyped, Control, Role!Ask
<1>1. RoleTyped'
  <2>a. cfg' \in Cfg /\ roleHub' \in Hub /\ run' \in Run /\ member' \in {Role!None, "active", "paused"}
        /\ roleJournal' \in BOOLEAN /\ served' \in BOOLEAN /\ undone' \in BOOLEAN
    BY <1>a DEF RoleBase, RoleTyped
  <2>1. CASE A1
    <3>1. op' \in Op
      BY <1>a, <2>1, NameFacts DEF RoleBase, RoleTyped, Control, Op
    <3>2. roleCount' \in Count
      BY <1>a, <2>1, CountFacts DEF RoleBase, RoleTyped, Control
    <3>3. QED
      BY <2>a, <3>1, <3>2 DEF RoleTyped
  <2>2. CASE A2
    <3>1. op' \in Op
      BY <1>a, <2>2, NameFacts DEF RoleBase, RoleTyped, Control, Op
    <3>2. roleCount' \in Count
      BY <1>a, <2>2, CountFacts DEF RoleBase, RoleTyped, Control
    <3>3. QED
      BY <2>a, <3>1, <3>2 DEF RoleTyped
  <2> QED
    BY <1>b, <2>1, <2>2
<1>2. Control'
  <2>1. CASE A1
    BY <1>a, <2>1 DEF RoleBase, RoleTyped, Control, Cfg, Hub, Run, Op, Count
  <2>2. CASE A2
    BY <1>a, <2>2 DEF RoleBase, RoleTyped, Control, Cfg, Hub, Run, Op, Count
  <2> QED
    BY <1>b, <2>1, <2>2
<1>3. Modes'
  <2>1. CASE A1
    BY <1>a, <2>1 DEF RoleBase, RoleTyped, Control, Modes, Cfg, Hub, Run, Op, Count
  <2>2. CASE A2
    BY <1>a, <2>2 DEF RoleBase, RoleTyped, Control, Modes, Cfg, Hub, Run, Op, Count
  <2> QED
    BY <1>b, <2>1, <2>2
<1>4. Alone'
  <2>1. CASE A1
    BY <1>a, <2>1 DEF RoleBase, RoleTyped, Control, Modes, Alone, Cfg, Hub, Run, Op, Count
  <2>2. CASE A2
    BY <1>a, <2>2 DEF RoleBase, RoleTyped, Control, Modes, Alone, Cfg, Hub, Run, Op, Count
  <2> QED
    BY <1>b, <2>1, <2>2
<1>5. Unserved'
  <2>1. CASE A1
    BY <1>a, <2>1 DEF RoleBase, RoleTyped, Control, Unserved, Cfg, Hub, Run, Op, Count
  <2>2. CASE A2
    BY <1>a, <2>2 DEF RoleBase, RoleTyped, Control, Unserved, Cfg, Hub, Run, Op, Count
  <2> QED
    BY <1>b, <2>1, <2>2
<1> QED BY <1>1, <1>2, <1>3, <1>4, <1>5 DEF RoleBase

LEMMA AskRest ==
  ASSUME OneFault, RoleInv, NEW k \in {"enable", "disable"}, NEW n \in TeamNames, Role!Ask(k, n)
  PROVE  RoleRest'
<1> DEFINE A1 == roleJournal
                 /\ op' = [Role!Idle EXCEPT !.k = k, !.n = n, !.was = run.peer, !.pc = "recover"]
           A2 == ~roleJournal
                 /\ op' = [Role!Idle EXCEPT !.k = k, !.n = n, !.was = run.peer, !.pc = "decide"]
<1>a. op = Role!Idle /\ run.up /\ run' = run /\ cfg' = cfg /\ roleHub' = roleHub /\ member' = member
      /\ roleJournal' = roleJournal /\ served' = served /\ undone' = undone
      /\ roleCount' = [asks |-> roleCount.asks + 1, faults |-> 0, crashes |-> roleCount.crashes]
  BY DEF RoleInv, RoleBase, RoleRest, Control, Role!Ask
<1>b. A1 \/ A2
  BY DEF RoleInv, RoleBase, RoleRest, RoleTyped, Control, Role!Ask
<1>1. Naming'
  <2>1. CASE A1
    BY <1>a, <2>1 DEF RoleInv, RoleBase, RoleRest, RoleTyped, Control, Modes, Naming, Unsaved,
           Agreed, Cfg, Hub, Run, Op, Count
  <2>2. CASE A2
    BY <1>a, <2>2 DEF RoleInv, RoleBase, RoleRest, RoleTyped, Control, Modes, Naming, Unsaved,
           Agreed, Cfg, Hub, Run, Op, Count
  <2> QED
    BY <1>b, <2>1, <2>2
<1>2. Unsaved'
  <2>1. CASE A1
    BY <1>a, <2>1 DEF RoleInv, RoleBase, RoleRest, RoleTyped, Control, Modes, Naming, Unsaved,
           Reactivation, Agreed, Cfg, Hub, Run, Op, Count
  <2>2. CASE A2
    BY <1>a, <2>2 DEF RoleInv, RoleBase, RoleRest, RoleTyped, Control, Modes, Naming, Unsaved,
           Reactivation, Agreed, Cfg, Hub, Run, Op, Count
  <2> QED
    BY <1>b, <2>1, <2>2
<1>3. Files'
  <2>1. CASE A1
    BY <1>a, <2>1 DEF RoleInv, RoleBase, RoleRest, RoleTyped, Control, Modes, Unserved, Naming,
           Unsaved, Files, Reactivation, Agreed, Role!MayOpen, Role!Consumed, Cfg, Hub, Run, Op, Count
  <2>2. CASE A2
    BY <1>a, <2>2 DEF RoleInv, RoleBase, RoleRest, RoleTyped, Control, Modes, Unserved, Naming,
           Unsaved, Files, Reactivation, Agreed, Role!MayOpen, Role!Consumed, Cfg, Hub, Run, Op, Count
  <2> QED
    BY <1>b, <2>1, <2>2
<1>4. Reactivation'
  <2>1. CASE A1
    BY <1>a, <2>1 DEF RoleInv, RoleBase, RoleRest, RoleTyped, Control, Modes, Naming, Files,
           Reactivation, Agreed, Role!MayOpen, Cfg, Hub, Run, Op, Count
  <2>2. CASE A2
    BY <1>a, <2>2 DEF RoleInv, RoleBase, RoleRest, RoleTyped, Control, Modes, Naming, Files,
           Reactivation, Agreed, Role!MayOpen, Cfg, Hub, Run, Op, Count
  <2> QED
    BY <1>b, <2>1, <2>2
<1> QED BY <1>1, <1>2, <1>3, <1>4 DEF RoleRest

LEMMA DecideBase ==
  ASSUME RoleBase, Role!Decide
  PROVE  RoleBase'
<1> DEFINE A1 == op.k = "enable" /\ run.mode = "host"
                 /\ op' = [op EXCEPT !.k = "rename", !.pc = "peerName"] /\ roleJournal' = roleJournal
           A2 == op.k = "enable" /\ run.mode = "member" /\ op' = [op EXCEPT !.pc = "configure"]
                 /\ roleJournal' = FALSE
           A3 == op.k = "disable" /\ run.mode = "member"
                 /\ op' = [op EXCEPT !.k = "remain", !.pc = "persist"] /\ roleJournal' = roleJournal
           A4 == op.k = "disable" /\ run.mode = "host" /\ op' = [op EXCEPT !.pc = "persist"]
                 /\ roleJournal' = roleJournal
<1>a. op.pc = "decide" /\ run.up /\ cfg' = cfg /\ roleHub' = roleHub /\ member' = member /\ run' = run
      /\ served' = served /\ undone' = undone /\ roleCount' = roleCount
  BY DEF RoleBase, Control, Role!Decide
<1>b. A1 \/ A2 \/ A3 \/ A4
  BY DEF RoleBase, RoleTyped, Control, Role!Decide
<1>1. RoleTyped'
  <2>a. cfg' \in Cfg /\ roleHub' \in Hub /\ run' \in Run /\ roleCount' \in Count
        /\ member' \in {Role!None, "active", "paused"} /\ served' \in BOOLEAN /\ undone' \in BOOLEAN
    BY <1>a DEF RoleBase, RoleTyped
  <2>1. CASE A1
    <3>1. op' \in Op
      BY <1>a, <2>1, NameFacts DEF RoleBase, RoleTyped, Control, Op
    <3>2. roleJournal' \in BOOLEAN
      BY <1>a, <2>1 DEF RoleBase, RoleTyped, Control
    <3>3. QED
      BY <2>a, <3>1, <3>2 DEF RoleTyped
  <2>2. CASE A2
    <3>1. op' \in Op
      BY <1>a, <2>2, NameFacts DEF RoleBase, RoleTyped, Control, Op
    <3>2. roleJournal' \in BOOLEAN
      BY <1>a, <2>2 DEF RoleBase, RoleTyped, Control
    <3>3. QED
      BY <2>a, <3>1, <3>2 DEF RoleTyped
  <2>3. CASE A3
    <3>1. op' \in Op
      BY <1>a, <2>3, NameFacts DEF RoleBase, RoleTyped, Control, Op
    <3>2. roleJournal' \in BOOLEAN
      BY <1>a, <2>3 DEF RoleBase, RoleTyped, Control
    <3>3. QED
      BY <2>a, <3>1, <3>2 DEF RoleTyped
  <2>4. CASE A4
    <3>1. op' \in Op
      BY <1>a, <2>4, NameFacts DEF RoleBase, RoleTyped, Control, Op
    <3>2. roleJournal' \in BOOLEAN
      BY <1>a, <2>4 DEF RoleBase, RoleTyped, Control
    <3>3. QED
      BY <2>a, <3>1, <3>2 DEF RoleTyped
  <2> QED
    BY <1>b, <2>1, <2>2, <2>3, <2>4
<1>2. Control'
  <2>1. CASE A1
    BY <1>a, <2>1 DEF RoleBase, RoleTyped, Control, Cfg, Hub, Run, Op, Count
  <2>2. CASE A2
    BY <1>a, <2>2 DEF RoleBase, RoleTyped, Control, Cfg, Hub, Run, Op, Count
  <2>3. CASE A3
    BY <1>a, <2>3 DEF RoleBase, RoleTyped, Control, Cfg, Hub, Run, Op, Count
  <2>4. CASE A4
    BY <1>a, <2>4 DEF RoleBase, RoleTyped, Control, Cfg, Hub, Run, Op, Count
  <2> QED
    BY <1>b, <2>1, <2>2, <2>3, <2>4
<1>3. Modes'
  <2>1. CASE A1
    BY <1>a, <2>1 DEF RoleBase, RoleTyped, Control, Modes, Cfg, Hub, Run, Op, Count
  <2>2. CASE A2
    BY <1>a, <2>2 DEF RoleBase, RoleTyped, Control, Modes, Cfg, Hub, Run, Op, Count
  <2>3. CASE A3
    BY <1>a, <2>3 DEF RoleBase, RoleTyped, Control, Modes, Cfg, Hub, Run, Op, Count
  <2>4. CASE A4
    BY <1>a, <2>4 DEF RoleBase, RoleTyped, Control, Modes, Cfg, Hub, Run, Op, Count
  <2> QED
    BY <1>b, <2>1, <2>2, <2>3, <2>4
<1>4. Alone'
  <2>1. CASE A1
    BY <1>a, <2>1 DEF RoleBase, RoleTyped, Control, Modes, Alone, Cfg, Hub, Run, Op, Count
  <2>2. CASE A2
    BY <1>a, <2>2 DEF RoleBase, RoleTyped, Control, Modes, Alone, Cfg, Hub, Run, Op, Count
  <2>3. CASE A3
    BY <1>a, <2>3 DEF RoleBase, RoleTyped, Control, Modes, Alone, Cfg, Hub, Run, Op, Count
  <2>4. CASE A4
    BY <1>a, <2>4 DEF RoleBase, RoleTyped, Control, Modes, Alone, Cfg, Hub, Run, Op, Count
  <2> QED
    BY <1>b, <2>1, <2>2, <2>3, <2>4
<1>5. Unserved'
  <2>1. CASE A1
    BY <1>a, <2>1 DEF RoleBase, RoleTyped, Control, Unserved, Cfg, Hub, Run, Op, Count
  <2>2. CASE A2
    BY <1>a, <2>2 DEF RoleBase, RoleTyped, Control, Unserved, Cfg, Hub, Run, Op, Count
  <2>3. CASE A3
    BY <1>a, <2>3 DEF RoleBase, RoleTyped, Control, Unserved, Cfg, Hub, Run, Op, Count
  <2>4. CASE A4
    BY <1>a, <2>4 DEF RoleBase, RoleTyped, Control, Unserved, Cfg, Hub, Run, Op, Count
  <2> QED
    BY <1>b, <2>1, <2>2, <2>3, <2>4
<1> QED BY <1>1, <1>2, <1>3, <1>4, <1>5 DEF RoleBase

LEMMA DecideRest ==
  ASSUME OneFault, RoleInv, Role!Decide
  PROVE  RoleRest'
<1> DEFINE A1 == op.k = "enable" /\ run.mode = "host"
                 /\ op' = [op EXCEPT !.k = "rename", !.pc = "peerName"] /\ roleJournal' = roleJournal
           A2 == op.k = "enable" /\ run.mode = "member" /\ op' = [op EXCEPT !.pc = "configure"]
                 /\ roleJournal' = FALSE
           A3 == op.k = "disable" /\ run.mode = "member"
                 /\ op' = [op EXCEPT !.k = "remain", !.pc = "persist"] /\ roleJournal' = roleJournal
           A4 == op.k = "disable" /\ run.mode = "host" /\ op' = [op EXCEPT !.pc = "persist"]
                 /\ roleJournal' = roleJournal
<1>a. op.pc = "decide" /\ run.up /\ cfg' = cfg /\ roleHub' = roleHub /\ member' = member /\ run' = run
      /\ served' = served /\ undone' = undone /\ roleCount' = roleCount
  BY DEF RoleInv, RoleBase, RoleRest, Control, Role!Decide
<1>b. A1 \/ A2 \/ A3 \/ A4
  BY DEF RoleInv, RoleBase, RoleRest, RoleTyped, Control, Role!Decide
<1>1. Naming'
  <2>1. CASE A1
    BY <1>a, <2>1 DEF RoleInv, RoleBase, RoleRest, RoleTyped, Control, Modes, Naming, Unsaved,
           Agreed, Cfg, Hub, Run, Op, Count
  <2>2. CASE A2
    BY <1>a, <2>2 DEF RoleInv, RoleBase, RoleRest, RoleTyped, Control, Modes, Naming, Unsaved,
           Agreed, Cfg, Hub, Run, Op, Count
  <2>3. CASE A3
    BY <1>a, <2>3 DEF RoleInv, RoleBase, RoleRest, RoleTyped, Control, Modes, Naming, Unsaved,
           Agreed, Cfg, Hub, Run, Op, Count
  <2>4. CASE A4
    BY <1>a, <2>4 DEF RoleInv, RoleBase, RoleRest, RoleTyped, Control, Modes, Naming, Unsaved,
           Agreed, Cfg, Hub, Run, Op, Count
  <2> QED
    BY <1>b, <2>1, <2>2, <2>3, <2>4
<1>2. Unsaved'
  <2>1. CASE A1
    BY <1>a, <2>1 DEF RoleInv, RoleBase, RoleRest, RoleTyped, Control, Modes, Naming, Unsaved,
           Reactivation, Agreed, Cfg, Hub, Run, Op, Count
  <2>2. CASE A2
    BY <1>a, <2>2 DEF RoleInv, RoleBase, RoleRest, RoleTyped, Control, Modes, Naming, Unsaved,
           Reactivation, Agreed, Cfg, Hub, Run, Op, Count
  <2>3. CASE A3
    BY <1>a, <2>3 DEF RoleInv, RoleBase, RoleRest, RoleTyped, Control, Modes, Naming, Unsaved,
           Reactivation, Agreed, Cfg, Hub, Run, Op, Count
  <2>4. CASE A4
    BY <1>a, <2>4 DEF RoleInv, RoleBase, RoleRest, RoleTyped, Control, Modes, Naming, Unsaved,
           Reactivation, Agreed, Cfg, Hub, Run, Op, Count
  <2> QED
    BY <1>b, <2>1, <2>2, <2>3, <2>4
<1>3. Files'
  <2>1. CASE A1
    BY <1>a, <2>1 DEF RoleInv, RoleBase, RoleRest, RoleTyped, Control, Modes, Unserved, Naming,
           Unsaved, Files, Reactivation, Agreed, Role!MayOpen, Role!Consumed, Cfg, Hub, Run, Op, Count
  <2>2. CASE A2
    BY <1>a, <2>2 DEF RoleInv, RoleBase, RoleRest, RoleTyped, Control, Modes, Unserved, Naming,
           Unsaved, Files, Reactivation, Agreed, Role!MayOpen, Role!Consumed, Cfg, Hub, Run, Op, Count
  <2>3. CASE A3
    BY <1>a, <2>3 DEF RoleInv, RoleBase, RoleRest, RoleTyped, Control, Modes, Unserved, Naming,
           Unsaved, Files, Reactivation, Agreed, Role!MayOpen, Role!Consumed, Cfg, Hub, Run, Op, Count
  <2>4. CASE A4
    BY <1>a, <2>4 DEF RoleInv, RoleBase, RoleRest, RoleTyped, Control, Modes, Unserved, Naming,
           Unsaved, Files, Reactivation, Agreed, Role!MayOpen, Role!Consumed, Cfg, Hub, Run, Op, Count
  <2> QED
    BY <1>b, <2>1, <2>2, <2>3, <2>4
<1>4. Reactivation'
  <2>1. CASE A1
    BY <1>a, <2>1 DEF RoleInv, RoleBase, RoleRest, RoleTyped, Control, Modes, Naming, Files,
           Reactivation, Agreed, Role!MayOpen, Cfg, Hub, Run, Op, Count
  <2>2. CASE A2
    BY <1>a, <2>2 DEF RoleInv, RoleBase, RoleRest, RoleTyped, Control, Modes, Naming, Files,
           Reactivation, Agreed, Role!MayOpen, Cfg, Hub, Run, Op, Count
  <2>3. CASE A3
    BY <1>a, <2>3 DEF RoleInv, RoleBase, RoleRest, RoleTyped, Control, Modes, Naming, Files,
           Reactivation, Agreed, Role!MayOpen, Cfg, Hub, Run, Op, Count
  <2>4. CASE A4
    BY <1>a, <2>4 DEF RoleInv, RoleBase, RoleRest, RoleTyped, Control, Modes, Naming, Files,
           Reactivation, Agreed, Role!MayOpen, Cfg, Hub, Run, Op, Count
  <2> QED
    BY <1>b, <2>1, <2>2, <2>3, <2>4
<1> QED BY <1>1, <1>2, <1>3, <1>4 DEF RoleRest

LEMMA ConfigureBase ==
  ASSUME RoleBase, NEW ok \in BOOLEAN, Role!Configure(ok)
  PROVE  RoleBase'
<1> DEFINE A1 == op' = [op EXCEPT !.pc = "inspect"] /\ run' = run /\ roleCount' \in Count
           A2 == Fell /\ roleCount' \in Count
<1>a. op.pc = "configure" /\ run.up /\ cfg' = cfg /\ roleHub' = roleHub /\ member' = member
      /\ roleJournal' = roleJournal /\ served' = served /\ undone' = undone
  BY DEF RoleBase, Control, Role!Configure
<1>b. A1 \/ A2
  <2>1. op.pc \in Turning \cup Hosting /\ RoleTyped /\ Modes
    BY <1>a DEF RoleBase
  <2>2. CASE ~(ok)
    <3>1. Role!Failed
      BY <2>2 DEF Role!Configure
    <3>2. Fell
      BY <2>1, <3>1, FailedFacts
    <3>3. QED
      BY <2>1, <2>2, <3>2, AttemptFacts DEF RoleTyped, Role!Configure
  <2>3. CASE ok
    BY <2>1, <2>3, AttemptFacts DEF RoleTyped, Role!Configure
  <2>4. QED
    BY <2>2, <2>3
<1>1. RoleTyped'
  <2>a. cfg' \in Cfg /\ roleHub' \in Hub /\ member' \in {Role!None, "active", "paused"}
        /\ roleJournal' \in BOOLEAN /\ served' \in BOOLEAN /\ undone' \in BOOLEAN
    BY <1>a DEF RoleBase, RoleTyped
  <2>1. CASE A1
    <3>1. op' \in Op
      BY <1>a, <2>1, NameFacts DEF RoleBase, RoleTyped, Control, Op
    <3>2. run' \in Run /\ roleCount' \in Count
      BY <1>a, <2>1 DEF RoleBase, RoleTyped, Control
    <3>3. QED
      BY <2>a, <3>1, <3>2 DEF RoleTyped
  <2>2. CASE A2
    <3>1. op' \in Op
      BY <1>a, <2>2, NameFacts DEF RoleBase, RoleTyped, Control, Fell, Op
    <3>2. run' \in Run /\ roleCount' \in Count
      BY <1>a, <2>2 DEF RoleBase, RoleTyped, Control, Fell
    <3>3. QED
      BY <2>a, <3>1, <3>2 DEF RoleTyped
  <2> QED
    BY <1>b, <2>1, <2>2
<1>2. Control'
  <2>1. CASE A1
    BY <1>a, <2>1 DEF RoleBase, RoleTyped, Control, Cfg, Hub, Run, Op, Count
  <2>2. CASE A2
    BY <1>a, <2>2 DEF RoleBase, RoleTyped, Control, Fell, Cfg, Hub, Run, Op, Count
  <2> QED
    BY <1>b, <2>1, <2>2
<1>3. Modes'
  <2>1. CASE A1
    BY <1>a, <2>1 DEF RoleBase, RoleTyped, Control, Modes, Cfg, Hub, Run, Op, Count
  <2>2. CASE A2
    BY <1>a, <2>2 DEF RoleBase, RoleTyped, Control, Modes, Fell, Cfg, Hub, Run, Op, Count
  <2> QED
    BY <1>b, <2>1, <2>2
<1>4. Alone'
  <2>1. CASE A1
    BY <1>a, <2>1 DEF RoleBase, RoleTyped, Control, Modes, Alone, Cfg, Hub, Run, Op, Count
  <2>2. CASE A2
    BY <1>a, <2>2 DEF RoleBase, RoleTyped, Control, Modes, Alone, Fell, Cfg, Hub, Run, Op, Count
  <2> QED
    BY <1>b, <2>1, <2>2
<1>5. Unserved'
  <2>1. CASE A1
    BY <1>a, <2>1 DEF RoleBase, RoleTyped, Control, Unserved, Cfg, Hub, Run, Op, Count
  <2>2. CASE A2
    BY <1>a, <2>2 DEF RoleBase, RoleTyped, Control, Unserved, Fell, Cfg, Hub, Run, Op, Count
  <2> QED
    BY <1>b, <2>1, <2>2
<1> QED BY <1>1, <1>2, <1>3, <1>4, <1>5 DEF RoleBase

LEMMA ConfigureRest ==
  ASSUME OneFault, RoleInv, NEW ok \in BOOLEAN, Role!Configure(ok)
  PROVE  RoleRest'
<1> DEFINE A1 == op' = [op EXCEPT !.pc = "inspect"] /\ run' = run /\ roleCount' \in Count
           A2 == Fell /\ roleCount' \in Count
<1>a. op.pc = "configure" /\ run.up /\ cfg' = cfg /\ roleHub' = roleHub /\ member' = member
      /\ roleJournal' = roleJournal /\ served' = served /\ undone' = undone
  BY DEF RoleInv, RoleBase, RoleRest, Control, Role!Configure
<1>b. A1 \/ A2
  <2>1. op.pc \in Turning \cup Hosting /\ RoleTyped /\ Modes
    BY <1>a DEF RoleInv, RoleBase, RoleRest
  <2>2. CASE ~(ok)
    <3>1. Role!Failed
      BY <2>2 DEF Role!Configure
    <3>2. Fell
      BY <2>1, <3>1, FailedFacts
    <3>3. QED
      BY <2>1, <2>2, <3>2, AttemptFacts DEF RoleTyped, Role!Configure
  <2>3. CASE ok
    BY <2>1, <2>3, AttemptFacts DEF RoleTyped, Role!Configure
  <2>4. QED
    BY <2>2, <2>3
<1>1. Naming'
  <2>1. CASE A1
    BY <1>a, <2>1 DEF RoleInv, RoleBase, RoleRest, RoleTyped, Control, Modes, Naming, Unsaved,
           Agreed, Cfg, Hub, Run, Op, Count
  <2>2. CASE A2
    BY <1>a, <2>2 DEF RoleInv, RoleBase, RoleRest, RoleTyped, Control, Modes, Naming, Unsaved,
           Agreed, Fell, Cfg, Hub, Run, Op, Count
  <2> QED
    BY <1>b, <2>1, <2>2
<1>2. Unsaved'
  <2>1. CASE A1
    BY <1>a, <2>1 DEF RoleInv, RoleBase, RoleRest, RoleTyped, Control, Modes, Naming, Unsaved,
           Reactivation, Agreed, Cfg, Hub, Run, Op, Count
  <2>2. CASE A2
    BY <1>a, <2>2 DEF RoleInv, RoleBase, RoleRest, RoleTyped, Control, Modes, Naming, Unsaved,
           Reactivation, Agreed, Fell, Cfg, Hub, Run, Op, Count
  <2> QED
    BY <1>b, <2>1, <2>2
<1>3. Files'
  <2>1. CASE A1
    BY <1>a, <2>1 DEF RoleInv, RoleBase, RoleRest, RoleTyped, Control, Modes, Unserved, Naming,
           Unsaved, Files, Reactivation, Agreed, Role!MayOpen, Role!Consumed, Cfg, Hub, Run, Op, Count
  <2>2. CASE A2
    BY <1>a, <2>2 DEF RoleInv, RoleBase, RoleRest, RoleTyped, Control, Modes, Unserved, Naming,
           Unsaved, Files, Reactivation, Agreed, Role!MayOpen, Role!Consumed, Fell, Cfg, Hub, Run, Op,
           Count
  <2> QED
    BY <1>b, <2>1, <2>2
<1>4. Reactivation'
  <2>1. CASE A1
    BY <1>a, <2>1 DEF RoleInv, RoleBase, RoleRest, RoleTyped, Control, Modes, Naming, Files,
           Reactivation, Agreed, Role!MayOpen, Cfg, Hub, Run, Op, Count
  <2>2. CASE A2
    BY <1>a, <2>2 DEF RoleInv, RoleBase, RoleRest, RoleTyped, Control, Modes, Naming, Files,
           Reactivation, Agreed, Role!MayOpen, Fell, Cfg, Hub, Run, Op, Count
  <2> QED
    BY <1>b, <2>1, <2>2
<1> QED BY <1>1, <1>2, <1>3, <1>4 DEF RoleRest

LEMMA InspectBase ==
  ASSUME RoleBase, Role!Inspect
  PROVE  RoleBase'
<1>1. RoleTyped'
  <2>1. cfg' \in Cfg
    BY DEF RoleBase, RoleTyped, Cfg, Control, Role!Inspect
  <2>2. roleHub' \in Hub
    <3>a. roleHub.files \in {Role!None, "partial", "whole"}
      BY DEF RoleBase, RoleTyped, Hub
    <3>1. PICK f \in {Role!None, "partial", "whole"} : roleHub' = [roleHub EXCEPT !.files = f]
      <4>1. roleHub' = [roleHub EXCEPT !.files = IF roleHub.files = "partial" THEN Role!None ELSE roleHub.files]
        BY DEF Role!Inspect
      <4>2. (IF roleHub.files = "partial" THEN Role!None ELSE roleHub.files) \in {Role!None, "partial", "whole"}
        BY <3>a
      <4>3. QED
        BY <4>1, <4>2
    <3>2. roleHub \in Hub
      BY DEF RoleBase, RoleTyped
    <3>3. QED
      BY <3>1, <3>2 DEF Hub
  <2>3. run' \in Run
    BY DEF RoleBase, RoleTyped, Run, Control, Role!Inspect
  <2>4. op' \in Op
    <3>1. PICK p \in Steps, b \in BOOLEAN : op' = [op EXCEPT !.react = b, !.pc = p]
      BY DEF Role!Inspect
    <3> HIDE DEF Steps
    <3>2. QED
      BY <3>1 DEF RoleBase, RoleTyped, Op
  <2>5. roleCount' \in Count
    BY DEF RoleBase, RoleTyped, Count, Role!Inspect
  <2>6. member' \in {Role!None, "active", "paused"} /\ roleJournal' \in BOOLEAN
        /\ served' \in BOOLEAN /\ undone' \in BOOLEAN
    BY DEF RoleBase, RoleTyped, Role!Inspect
  <2>7. QED
    BY <2>1, <2>2, <2>3, <2>4, <2>5, <2>6 DEF RoleTyped
<1>2. Control'
  BY DEF RoleBase, RoleTyped, Control, Cfg, Hub, Run, Op, Count, Role!Inspect
<1>3. Modes'
  BY DEF RoleBase, RoleTyped, Control, Modes, Cfg, Hub, Run, Op, Count, Role!Inspect
<1>4. Alone'
  BY DEF RoleBase, RoleTyped, Control, Modes, Alone, Cfg, Hub, Run, Op, Count, Role!Inspect
<1>5. Unserved'
  BY DEF RoleBase, RoleTyped, Control, Unserved, Cfg, Hub, Run, Op, Count, Role!Inspect
<1> QED BY <1>1, <1>2, <1>3, <1>4, <1>5 DEF RoleBase

LEMMA InspectRest ==
  ASSUME OneFault, RoleInv, Role!Inspect
  PROVE  RoleRest'
<1>1. Naming'
  BY DEF RoleInv, RoleBase, RoleRest, RoleTyped, Control, Modes, Naming, Unsaved, Agreed, Cfg,
         Hub, Run, Op, Count, Role!Inspect
<1>2. Unsaved'
  BY DEF RoleInv, RoleBase, RoleRest, RoleTyped, Control, Modes, Naming, Unsaved, Reactivation,
         Agreed, Cfg, Hub, Run, Op, Count, Role!Inspect
<1>3. Files'
  BY DEF RoleInv, RoleBase, RoleRest, RoleTyped, Control, Modes, Unserved, Naming, Unsaved,
         Files, Reactivation, Agreed, Role!MayOpen, Role!Consumed, Cfg, Hub, Run, Op, Count, Role!Inspect
<1>4. Reactivation'
  BY DEF RoleInv, RoleBase, RoleRest, RoleTyped, Control, Modes, Naming, Files, Reactivation,
         Agreed, Role!MayOpen, Cfg, Hub, Run, Op, Count, Role!Inspect
<1> QED BY <1>1, <1>2, <1>3, <1>4 DEF RoleRest

LEMMA PrepareBase ==
  ASSUME RoleBase, NEW ok \in BOOLEAN, Role!Prepare(ok)
  PROVE  RoleBase'
<1> DEFINE A1 == roleHub' = [roleHub EXCEPT !.fence = IF roleHub.fence = "adopted" THEN "adopted" ELSE "unclaimed",
                                             !.spent = FALSE]
                 /\ served' = (served /\ roleHub.fence = "adopted")
                 /\ op' = [op EXCEPT !.pc = "adopt"] /\ run' = run /\ roleCount' \in Count
           A2 == roleHub' = roleHub /\ served' = served
                 /\ op' = [op EXCEPT !.react = FALSE, !.pc = "undoName"] /\ run' = run
                 /\ roleCount' \in Count
<1>a. op.pc = "prepare" /\ run.up /\ cfg' = cfg /\ member' = member /\ roleJournal' = roleJournal
      /\ undone' = undone
  BY DEF RoleBase, Control, Role!Prepare
<1>b. A1 \/ A2
  BY AttemptFacts DEF RoleBase, RoleTyped, Control, Role!Prepare
<1>1. RoleTyped'
  <2>a. cfg' \in Cfg /\ member' \in {Role!None, "active", "paused"} /\ roleJournal' \in BOOLEAN
        /\ undone' \in BOOLEAN
    BY <1>a DEF RoleBase, RoleTyped
  <2>1. CASE A1
    <3>1. roleHub' \in Hub
      BY <1>a, <2>1 DEF RoleBase, RoleTyped, Control, Hub
    <3>2. op' \in Op
      BY <1>a, <2>1, NameFacts DEF RoleBase, RoleTyped, Control, Op
    <3>3. run' \in Run /\ roleCount' \in Count /\ served' \in BOOLEAN
      BY <1>a, <2>1 DEF RoleBase, RoleTyped, Control
    <3>4. QED
      BY <2>a, <3>1, <3>2, <3>3 DEF RoleTyped
  <2>2. CASE A2
    <3>1. op' \in Op
      BY <1>a, <2>2, NameFacts DEF RoleBase, RoleTyped, Control, Op
    <3>2. roleHub' \in Hub /\ run' \in Run /\ roleCount' \in Count /\ served' \in BOOLEAN
      BY <1>a, <2>2 DEF RoleBase, RoleTyped, Control
    <3>3. QED
      BY <2>a, <3>1, <3>2 DEF RoleTyped
  <2> QED
    BY <1>b, <2>1, <2>2
<1>2. Control'
  <2>1. CASE A1
    BY <1>a, <2>1 DEF RoleBase, RoleTyped, Control, Cfg, Hub, Run, Op, Count
  <2>2. CASE A2
    BY <1>a, <2>2 DEF RoleBase, RoleTyped, Control, Cfg, Hub, Run, Op, Count
  <2> QED
    BY <1>b, <2>1, <2>2
<1>3. Modes'
  <2>1. CASE A1
    BY <1>a, <2>1 DEF RoleBase, RoleTyped, Control, Modes, Cfg, Hub, Run, Op, Count
  <2>2. CASE A2
    BY <1>a, <2>2 DEF RoleBase, RoleTyped, Control, Modes, Cfg, Hub, Run, Op, Count
  <2> QED
    BY <1>b, <2>1, <2>2
<1>4. Alone'
  <2>1. CASE A1
    BY <1>a, <2>1 DEF RoleBase, RoleTyped, Control, Modes, Alone, Cfg, Hub, Run, Op, Count
  <2>2. CASE A2
    BY <1>a, <2>2 DEF RoleBase, RoleTyped, Control, Modes, Alone, Cfg, Hub, Run, Op, Count
  <2> QED
    BY <1>b, <2>1, <2>2
<1>5. Unserved'
  <2>1. CASE A1
    BY <1>a, <2>1 DEF RoleBase, RoleTyped, Control, Unserved, Cfg, Hub, Run, Op, Count
  <2>2. CASE A2
    BY <1>a, <2>2 DEF RoleBase, RoleTyped, Control, Unserved, Cfg, Hub, Run, Op, Count
  <2> QED
    BY <1>b, <2>1, <2>2
<1> QED BY <1>1, <1>2, <1>3, <1>4, <1>5 DEF RoleBase

LEMMA PrepareRest ==
  ASSUME OneFault, RoleInv, NEW ok \in BOOLEAN, Role!Prepare(ok)
  PROVE  RoleRest'
<1> DEFINE A1 == roleHub' = [roleHub EXCEPT !.fence = IF roleHub.fence = "adopted" THEN "adopted" ELSE "unclaimed",
                                             !.spent = FALSE]
                 /\ served' = (served /\ roleHub.fence = "adopted")
                 /\ op' = [op EXCEPT !.pc = "adopt"] /\ run' = run /\ roleCount' \in Count
           A2 == roleHub' = roleHub /\ served' = served
                 /\ op' = [op EXCEPT !.react = FALSE, !.pc = "undoName"] /\ run' = run
                 /\ roleCount' \in Count
<1>a. op.pc = "prepare" /\ run.up /\ cfg' = cfg /\ member' = member /\ roleJournal' = roleJournal
      /\ undone' = undone
  BY DEF RoleInv, RoleBase, RoleRest, Control, Role!Prepare
<1>b. A1 \/ A2
  BY AttemptFacts DEF RoleInv, RoleBase, RoleRest, RoleTyped, Control, Role!Prepare
<1>1. Naming'
  <2>1. CASE A1
    BY <1>a, <2>1 DEF RoleInv, RoleBase, RoleRest, RoleTyped, Control, Modes, Naming, Unsaved,
           Agreed, Cfg, Hub, Run, Op, Count
  <2>2. CASE A2
    BY <1>a, <2>2 DEF RoleInv, RoleBase, RoleRest, RoleTyped, Control, Modes, Naming, Unsaved,
           Agreed, Cfg, Hub, Run, Op, Count
  <2> QED
    BY <1>b, <2>1, <2>2
<1>2. Unsaved'
  <2>1. CASE A1
    BY <1>a, <2>1 DEF RoleInv, RoleBase, RoleRest, RoleTyped, Control, Modes, Naming, Unsaved,
           Reactivation, Agreed, Cfg, Hub, Run, Op, Count
  <2>2. CASE A2
    BY <1>a, <2>2 DEF RoleInv, RoleBase, RoleRest, RoleTyped, Control, Modes, Naming, Unsaved,
           Reactivation, Agreed, Cfg, Hub, Run, Op, Count
  <2> QED
    BY <1>b, <2>1, <2>2
<1>3. Files'
  <2>1. CASE A1
    BY <1>a, <2>1 DEF RoleInv, RoleBase, RoleRest, RoleTyped, Control, Modes, Unserved, Naming,
           Unsaved, Files, Reactivation, Agreed, Role!MayOpen, Role!Consumed, Cfg, Hub, Run, Op, Count
  <2>2. CASE A2
    BY <1>a, <2>2 DEF RoleInv, RoleBase, RoleRest, RoleTyped, Control, Modes, Unserved, Naming,
           Unsaved, Files, Reactivation, Agreed, Role!MayOpen, Role!Consumed, Cfg, Hub, Run, Op, Count
  <2> QED
    BY <1>b, <2>1, <2>2
<1>4. Reactivation'
  <2>1. CASE A1
    BY <1>a, <2>1 DEF RoleInv, RoleBase, RoleRest, RoleTyped, Control, Modes, Naming, Files,
           Reactivation, Agreed, Role!MayOpen, Cfg, Hub, Run, Op, Count
  <2>2. CASE A2
    BY <1>a, <2>2 DEF RoleInv, RoleBase, RoleRest, RoleTyped, Control, Modes, Naming, Files,
           Reactivation, Agreed, Role!MayOpen, Cfg, Hub, Run, Op, Count
  <2> QED
    BY <1>b, <2>1, <2>2
<1> QED BY <1>1, <1>2, <1>3, <1>4 DEF RoleRest

LEMMA AdoptBase ==
  ASSUME RoleBase, NEW ok \in BOOLEAN, Role!Adopt(ok)
  PROVE  RoleBase'
<1> DEFINE A1 == roleHub' = [roleHub EXCEPT !.fence = "adopted"]
                 /\ op' = [op EXCEPT !.adopted = TRUE, !.pc = "authorize"] /\ run' = run
                 /\ roleCount' \in Count
           A2 == roleHub' = [roleHub EXCEPT !.fence = "adopted"] /\ Fell /\ roleCount' \in Count
           A3 == roleHub' = [roleHub EXCEPT !.fence = roleHub.fence] /\ Fell /\ roleCount' \in Count
<1>a. op.pc = "adopt" /\ run.up /\ cfg' = cfg /\ member' = member /\ roleJournal' = roleJournal
      /\ served' = served /\ undone' = undone
  BY DEF RoleBase, Control, Role!Adopt
<1>b. A1 \/ A2 \/ A3
  <2>1. op.pc \in Turning \cup Hosting /\ RoleTyped /\ Modes
    BY <1>a DEF RoleBase
  <2>2. CASE ~(ok)
    <3>1. Role!Failed
      BY <2>2 DEF Role!Adopt
    <3>2. Fell
      BY <2>1, <3>1, FailedFacts
    <3>3. QED
      BY <2>1, <2>2, <3>2, AttemptFacts DEF RoleTyped, Role!Adopt, Role!Either
  <2>3. CASE ok
    BY <2>1, <2>3, AttemptFacts DEF RoleTyped, Role!Adopt, Role!Either
  <2>4. QED
    BY <2>2, <2>3
<1>1. RoleTyped'
  <2>a. cfg' \in Cfg /\ member' \in {Role!None, "active", "paused"} /\ roleJournal' \in BOOLEAN
        /\ served' \in BOOLEAN /\ undone' \in BOOLEAN
    BY <1>a DEF RoleBase, RoleTyped
  <2>1. CASE A1
    <3>1. roleHub' \in Hub
      BY <1>a, <2>1 DEF RoleBase, RoleTyped, Control, Hub
    <3>2. op' \in Op
      BY <1>a, <2>1, NameFacts DEF RoleBase, RoleTyped, Control, Op
    <3>3. run' \in Run /\ roleCount' \in Count
      BY <1>a, <2>1 DEF RoleBase, RoleTyped, Control
    <3>4. QED
      BY <2>a, <3>1, <3>2, <3>3 DEF RoleTyped
  <2>2. CASE A2
    <3>1. roleHub' \in Hub
      BY <1>a, <2>2 DEF RoleBase, RoleTyped, Control, Fell, Hub
    <3>2. op' \in Op
      BY <1>a, <2>2, NameFacts DEF RoleBase, RoleTyped, Control, Fell, Op
    <3>3. run' \in Run /\ roleCount' \in Count
      BY <1>a, <2>2 DEF RoleBase, RoleTyped, Control, Fell
    <3>4. QED
      BY <2>a, <3>1, <3>2, <3>3 DEF RoleTyped
  <2>3. CASE A3
    <3>1. roleHub' \in Hub
      BY <1>a, <2>3 DEF RoleBase, RoleTyped, Control, Fell, Hub
    <3>2. op' \in Op
      BY <1>a, <2>3, NameFacts DEF RoleBase, RoleTyped, Control, Fell, Op
    <3>3. run' \in Run /\ roleCount' \in Count
      BY <1>a, <2>3 DEF RoleBase, RoleTyped, Control, Fell
    <3>4. QED
      BY <2>a, <3>1, <3>2, <3>3 DEF RoleTyped
  <2> QED
    BY <1>b, <2>1, <2>2, <2>3
<1>2. Control'
  <2>1. CASE A1
    BY <1>a, <2>1 DEF RoleBase, RoleTyped, Control, Cfg, Hub, Run, Op, Count
  <2>2. CASE A2
    BY <1>a, <2>2 DEF RoleBase, RoleTyped, Control, Fell, Cfg, Hub, Run, Op, Count
  <2>3. CASE A3
    BY <1>a, <2>3 DEF RoleBase, RoleTyped, Control, Fell, Cfg, Hub, Run, Op, Count
  <2> QED
    BY <1>b, <2>1, <2>2, <2>3
<1>3. Modes'
  <2>1. CASE A1
    BY <1>a, <2>1 DEF RoleBase, RoleTyped, Control, Modes, Cfg, Hub, Run, Op, Count
  <2>2. CASE A2
    BY <1>a, <2>2 DEF RoleBase, RoleTyped, Control, Modes, Fell, Cfg, Hub, Run, Op, Count
  <2>3. CASE A3
    BY <1>a, <2>3 DEF RoleBase, RoleTyped, Control, Modes, Fell, Cfg, Hub, Run, Op, Count
  <2> QED
    BY <1>b, <2>1, <2>2, <2>3
<1>4. Alone'
  <2>1. CASE A1
    BY <1>a, <2>1 DEF RoleBase, RoleTyped, Control, Modes, Alone, Cfg, Hub, Run, Op, Count
  <2>2. CASE A2
    BY <1>a, <2>2 DEF RoleBase, RoleTyped, Control, Modes, Alone, Fell, Cfg, Hub, Run, Op, Count
  <2>3. CASE A3
    BY <1>a, <2>3 DEF RoleBase, RoleTyped, Control, Modes, Alone, Fell, Cfg, Hub, Run, Op, Count
  <2> QED
    BY <1>b, <2>1, <2>2, <2>3
<1>5. Unserved'
  <2>1. CASE A1
    BY <1>a, <2>1 DEF RoleBase, RoleTyped, Control, Unserved, Cfg, Hub, Run, Op, Count
  <2>2. CASE A2
    BY <1>a, <2>2 DEF RoleBase, RoleTyped, Control, Unserved, Fell, Cfg, Hub, Run, Op, Count
  <2>3. CASE A3
    BY <1>a, <2>3 DEF RoleBase, RoleTyped, Control, Unserved, Fell, Cfg, Hub, Run, Op, Count
  <2> QED
    BY <1>b, <2>1, <2>2, <2>3
<1> QED BY <1>1, <1>2, <1>3, <1>4, <1>5 DEF RoleBase

LEMMA AdoptRest ==
  ASSUME OneFault, RoleInv, NEW ok \in BOOLEAN, Role!Adopt(ok)
  PROVE  RoleRest'
<1> DEFINE A1 == roleHub' = [roleHub EXCEPT !.fence = "adopted"]
                 /\ op' = [op EXCEPT !.adopted = TRUE, !.pc = "authorize"] /\ run' = run
                 /\ roleCount' \in Count
           A2 == roleHub' = [roleHub EXCEPT !.fence = "adopted"] /\ Fell /\ roleCount' \in Count
           A3 == roleHub' = [roleHub EXCEPT !.fence = roleHub.fence] /\ Fell /\ roleCount' \in Count
<1>a. op.pc = "adopt" /\ run.up /\ cfg' = cfg /\ member' = member /\ roleJournal' = roleJournal
      /\ served' = served /\ undone' = undone
  BY DEF RoleInv, RoleBase, RoleRest, Control, Role!Adopt
<1>b. A1 \/ A2 \/ A3
  <2>1. op.pc \in Turning \cup Hosting /\ RoleTyped /\ Modes
    BY <1>a DEF RoleInv, RoleBase, RoleRest
  <2>2. CASE ~(ok)
    <3>1. Role!Failed
      BY <2>2 DEF Role!Adopt
    <3>2. Fell
      BY <2>1, <3>1, FailedFacts
    <3>3. QED
      BY <2>1, <2>2, <3>2, AttemptFacts DEF RoleTyped, Role!Adopt, Role!Either
  <2>3. CASE ok
    BY <2>1, <2>3, AttemptFacts DEF RoleTyped, Role!Adopt, Role!Either
  <2>4. QED
    BY <2>2, <2>3
<1>1. Naming'
  <2>1. CASE A1
    BY <1>a, <2>1 DEF RoleInv, RoleBase, RoleRest, RoleTyped, Control, Modes, Naming, Unsaved,
           Agreed, Cfg, Hub, Run, Op, Count
  <2>2. CASE A2
    BY <1>a, <2>2 DEF RoleInv, RoleBase, RoleRest, RoleTyped, Control, Modes, Naming, Unsaved,
           Agreed, Fell, Cfg, Hub, Run, Op, Count
  <2>3. CASE A3
    BY <1>a, <2>3 DEF RoleInv, RoleBase, RoleRest, RoleTyped, Control, Modes, Naming, Unsaved,
           Agreed, Fell, Cfg, Hub, Run, Op, Count
  <2> QED
    BY <1>b, <2>1, <2>2, <2>3
<1>2. Unsaved'
  <2>1. CASE A1
    BY <1>a, <2>1 DEF RoleInv, RoleBase, RoleRest, RoleTyped, Control, Modes, Naming, Unsaved,
           Reactivation, Agreed, Cfg, Hub, Run, Op, Count
  <2>2. CASE A2
    BY <1>a, <2>2 DEF RoleInv, RoleBase, RoleRest, RoleTyped, Control, Modes, Naming, Unsaved,
           Reactivation, Agreed, Fell, Cfg, Hub, Run, Op, Count
  <2>3. CASE A3
    BY <1>a, <2>3 DEF RoleInv, RoleBase, RoleRest, RoleTyped, Control, Modes, Naming, Unsaved,
           Reactivation, Agreed, Fell, Cfg, Hub, Run, Op, Count
  <2> QED
    BY <1>b, <2>1, <2>2, <2>3
<1>3. Files'
  <2>1. CASE A1
    BY <1>a, <2>1 DEF RoleInv, RoleBase, RoleRest, RoleTyped, Control, Modes, Unserved, Naming,
           Unsaved, Files, Reactivation, Agreed, Role!MayOpen, Role!Consumed, Cfg, Hub, Run, Op, Count
  <2>2. CASE A2
    BY <1>a, <2>2 DEF RoleInv, RoleBase, RoleRest, RoleTyped, Control, Modes, Unserved, Naming,
           Unsaved, Files, Reactivation, Agreed, Role!MayOpen, Role!Consumed, Fell, Cfg, Hub, Run, Op,
           Count
  <2>3. CASE A3
    BY <1>a, <2>3 DEF RoleInv, RoleBase, RoleRest, RoleTyped, Control, Modes, Unserved, Naming,
           Unsaved, Files, Reactivation, Agreed, Role!MayOpen, Role!Consumed, Fell, Cfg, Hub, Run, Op,
           Count
  <2> QED
    BY <1>b, <2>1, <2>2, <2>3
<1>4. Reactivation'
  <2>1. CASE A1
    BY <1>a, <2>1 DEF RoleInv, RoleBase, RoleRest, RoleTyped, Control, Modes, Naming, Files,
           Reactivation, Agreed, Role!MayOpen, Cfg, Hub, Run, Op, Count
  <2>2. CASE A2
    BY <1>a, <2>2 DEF RoleInv, RoleBase, RoleRest, RoleTyped, Control, Modes, Naming, Files,
           Reactivation, Agreed, Role!MayOpen, Fell, Cfg, Hub, Run, Op, Count
  <2>3. CASE A3
    BY <1>a, <2>3 DEF RoleInv, RoleBase, RoleRest, RoleTyped, Control, Modes, Naming, Files,
           Reactivation, Agreed, Role!MayOpen, Fell, Cfg, Hub, Run, Op, Count
  <2> QED
    BY <1>b, <2>1, <2>2, <2>3
<1> QED BY <1>1, <1>2, <1>3, <1>4 DEF RoleRest

LEMMA AuthorizeBase ==
  ASSUME RoleBase, NEW ok \in BOOLEAN, Role!Authorize(ok)
  PROVE  RoleBase'
<1> DEFINE A1 == roleHub' = [roleHub EXCEPT !.auth = TRUE] /\ op' = [op EXCEPT !.pc = "journal"]
                 /\ run' = run /\ roleCount' \in Count
           A2 == roleHub' = [roleHub EXCEPT !.auth = TRUE] /\ Fell /\ roleCount' \in Count
           A3 == roleHub' = [roleHub EXCEPT !.auth = roleHub.auth] /\ Fell /\ roleCount' \in Count
<1>a. op.pc = "authorize" /\ run.up /\ cfg' = cfg /\ member' = member /\ roleJournal' = roleJournal
      /\ served' = served /\ undone' = undone
  BY DEF RoleBase, Control, Role!Authorize
<1>b. A1 \/ A2 \/ A3
  <2>1. op.pc \in Turning \cup Hosting /\ RoleTyped /\ Modes
    BY <1>a DEF RoleBase
  <2>2. CASE ~(ok)
    <3>1. Role!Failed
      BY <2>2 DEF Role!Authorize
    <3>2. Fell
      BY <2>1, <3>1, FailedFacts
    <3>3. QED
      BY <2>1, <2>2, <3>2, AttemptFacts DEF RoleTyped, Role!Authorize, Role!Either
  <2>3. CASE ok
    BY <2>1, <2>3, AttemptFacts DEF RoleTyped, Role!Authorize, Role!Either
  <2>4. QED
    BY <2>2, <2>3
<1>1. RoleTyped'
  <2>a. cfg' \in Cfg /\ member' \in {Role!None, "active", "paused"} /\ roleJournal' \in BOOLEAN
        /\ served' \in BOOLEAN /\ undone' \in BOOLEAN
    BY <1>a DEF RoleBase, RoleTyped
  <2>1. CASE A1
    <3>1. roleHub' \in Hub
      BY <1>a, <2>1 DEF RoleBase, RoleTyped, Control, Hub
    <3>2. op' \in Op
      BY <1>a, <2>1, NameFacts DEF RoleBase, RoleTyped, Control, Op
    <3>3. run' \in Run /\ roleCount' \in Count
      BY <1>a, <2>1 DEF RoleBase, RoleTyped, Control
    <3>4. QED
      BY <2>a, <3>1, <3>2, <3>3 DEF RoleTyped
  <2>2. CASE A2
    <3>1. roleHub' \in Hub
      BY <1>a, <2>2 DEF RoleBase, RoleTyped, Control, Fell, Hub
    <3>2. op' \in Op
      BY <1>a, <2>2, NameFacts DEF RoleBase, RoleTyped, Control, Fell, Op
    <3>3. run' \in Run /\ roleCount' \in Count
      BY <1>a, <2>2 DEF RoleBase, RoleTyped, Control, Fell
    <3>4. QED
      BY <2>a, <3>1, <3>2, <3>3 DEF RoleTyped
  <2>3. CASE A3
    <3>1. roleHub' \in Hub
      BY <1>a, <2>3 DEF RoleBase, RoleTyped, Control, Fell, Hub
    <3>2. op' \in Op
      BY <1>a, <2>3, NameFacts DEF RoleBase, RoleTyped, Control, Fell, Op
    <3>3. run' \in Run /\ roleCount' \in Count
      BY <1>a, <2>3 DEF RoleBase, RoleTyped, Control, Fell
    <3>4. QED
      BY <2>a, <3>1, <3>2, <3>3 DEF RoleTyped
  <2> QED
    BY <1>b, <2>1, <2>2, <2>3
<1>2. Control'
  <2>1. CASE A1
    BY <1>a, <2>1 DEF RoleBase, RoleTyped, Control, Cfg, Hub, Run, Op, Count
  <2>2. CASE A2
    BY <1>a, <2>2 DEF RoleBase, RoleTyped, Control, Fell, Cfg, Hub, Run, Op, Count
  <2>3. CASE A3
    BY <1>a, <2>3 DEF RoleBase, RoleTyped, Control, Fell, Cfg, Hub, Run, Op, Count
  <2> QED
    BY <1>b, <2>1, <2>2, <2>3
<1>3. Modes'
  <2>1. CASE A1
    BY <1>a, <2>1 DEF RoleBase, RoleTyped, Control, Modes, Cfg, Hub, Run, Op, Count
  <2>2. CASE A2
    BY <1>a, <2>2 DEF RoleBase, RoleTyped, Control, Modes, Fell, Cfg, Hub, Run, Op, Count
  <2>3. CASE A3
    BY <1>a, <2>3 DEF RoleBase, RoleTyped, Control, Modes, Fell, Cfg, Hub, Run, Op, Count
  <2> QED
    BY <1>b, <2>1, <2>2, <2>3
<1>4. Alone'
  <2>1. CASE A1
    BY <1>a, <2>1 DEF RoleBase, RoleTyped, Control, Modes, Alone, Cfg, Hub, Run, Op, Count
  <2>2. CASE A2
    BY <1>a, <2>2 DEF RoleBase, RoleTyped, Control, Modes, Alone, Fell, Cfg, Hub, Run, Op, Count
  <2>3. CASE A3
    BY <1>a, <2>3 DEF RoleBase, RoleTyped, Control, Modes, Alone, Fell, Cfg, Hub, Run, Op, Count
  <2> QED
    BY <1>b, <2>1, <2>2, <2>3
<1>5. Unserved'
  <2>1. CASE A1
    BY <1>a, <2>1 DEF RoleBase, RoleTyped, Control, Unserved, Cfg, Hub, Run, Op, Count
  <2>2. CASE A2
    BY <1>a, <2>2 DEF RoleBase, RoleTyped, Control, Unserved, Fell, Cfg, Hub, Run, Op, Count
  <2>3. CASE A3
    BY <1>a, <2>3 DEF RoleBase, RoleTyped, Control, Unserved, Fell, Cfg, Hub, Run, Op, Count
  <2> QED
    BY <1>b, <2>1, <2>2, <2>3
<1> QED BY <1>1, <1>2, <1>3, <1>4, <1>5 DEF RoleBase

LEMMA AuthorizeRest ==
  ASSUME OneFault, RoleInv, NEW ok \in BOOLEAN, Role!Authorize(ok)
  PROVE  RoleRest'
<1> DEFINE A1 == roleHub' = [roleHub EXCEPT !.auth = TRUE] /\ op' = [op EXCEPT !.pc = "journal"]
                 /\ run' = run /\ roleCount' \in Count
           A2 == roleHub' = [roleHub EXCEPT !.auth = TRUE] /\ Fell /\ roleCount' \in Count
           A3 == roleHub' = [roleHub EXCEPT !.auth = roleHub.auth] /\ Fell /\ roleCount' \in Count
<1>a. op.pc = "authorize" /\ run.up /\ cfg' = cfg /\ member' = member /\ roleJournal' = roleJournal
      /\ served' = served /\ undone' = undone
  BY DEF RoleInv, RoleBase, RoleRest, Control, Role!Authorize
<1>b. A1 \/ A2 \/ A3
  <2>1. op.pc \in Turning \cup Hosting /\ RoleTyped /\ Modes
    BY <1>a DEF RoleInv, RoleBase, RoleRest
  <2>2. CASE ~(ok)
    <3>1. Role!Failed
      BY <2>2 DEF Role!Authorize
    <3>2. Fell
      BY <2>1, <3>1, FailedFacts
    <3>3. QED
      BY <2>1, <2>2, <3>2, AttemptFacts DEF RoleTyped, Role!Authorize, Role!Either
  <2>3. CASE ok
    BY <2>1, <2>3, AttemptFacts DEF RoleTyped, Role!Authorize, Role!Either
  <2>4. QED
    BY <2>2, <2>3
<1>1. Naming'
  <2>1. CASE A1
    BY <1>a, <2>1 DEF RoleInv, RoleBase, RoleRest, RoleTyped, Control, Modes, Naming, Unsaved,
           Agreed, Cfg, Hub, Run, Op, Count
  <2>2. CASE A2
    BY <1>a, <2>2 DEF RoleInv, RoleBase, RoleRest, RoleTyped, Control, Modes, Naming, Unsaved,
           Agreed, Fell, Cfg, Hub, Run, Op, Count
  <2>3. CASE A3
    BY <1>a, <2>3 DEF RoleInv, RoleBase, RoleRest, RoleTyped, Control, Modes, Naming, Unsaved,
           Agreed, Fell, Cfg, Hub, Run, Op, Count
  <2> QED
    BY <1>b, <2>1, <2>2, <2>3
<1>2. Unsaved'
  <2>1. CASE A1
    BY <1>a, <2>1 DEF RoleInv, RoleBase, RoleRest, RoleTyped, Control, Modes, Naming, Unsaved,
           Reactivation, Agreed, Cfg, Hub, Run, Op, Count
  <2>2. CASE A2
    BY <1>a, <2>2 DEF RoleInv, RoleBase, RoleRest, RoleTyped, Control, Modes, Naming, Unsaved,
           Reactivation, Agreed, Fell, Cfg, Hub, Run, Op, Count
  <2>3. CASE A3
    BY <1>a, <2>3 DEF RoleInv, RoleBase, RoleRest, RoleTyped, Control, Modes, Naming, Unsaved,
           Reactivation, Agreed, Fell, Cfg, Hub, Run, Op, Count
  <2> QED
    BY <1>b, <2>1, <2>2, <2>3
<1>3. Files'
  <2>1. CASE A1
    BY <1>a, <2>1 DEF RoleInv, RoleBase, RoleRest, RoleTyped, Control, Modes, Unserved, Naming,
           Unsaved, Files, Reactivation, Agreed, Role!MayOpen, Role!Consumed, Cfg, Hub, Run, Op, Count
  <2>2. CASE A2
    BY <1>a, <2>2 DEF RoleInv, RoleBase, RoleRest, RoleTyped, Control, Modes, Unserved, Naming,
           Unsaved, Files, Reactivation, Agreed, Role!MayOpen, Role!Consumed, Fell, Cfg, Hub, Run, Op,
           Count
  <2>3. CASE A3
    BY <1>a, <2>3 DEF RoleInv, RoleBase, RoleRest, RoleTyped, Control, Modes, Unserved, Naming,
           Unsaved, Files, Reactivation, Agreed, Role!MayOpen, Role!Consumed, Fell, Cfg, Hub, Run, Op,
           Count
  <2> QED
    BY <1>b, <2>1, <2>2, <2>3
<1>4. Reactivation'
  <2>1. CASE A1
    BY <1>a, <2>1 DEF RoleInv, RoleBase, RoleRest, RoleTyped, Control, Modes, Naming, Files,
           Reactivation, Agreed, Role!MayOpen, Cfg, Hub, Run, Op, Count
  <2>2. CASE A2
    BY <1>a, <2>2 DEF RoleInv, RoleBase, RoleRest, RoleTyped, Control, Modes, Naming, Files,
           Reactivation, Agreed, Role!MayOpen, Fell, Cfg, Hub, Run, Op, Count
  <2>3. CASE A3
    BY <1>a, <2>3 DEF RoleInv, RoleBase, RoleRest, RoleTyped, Control, Modes, Naming, Files,
           Reactivation, Agreed, Role!MayOpen, Fell, Cfg, Hub, Run, Op, Count
  <2> QED
    BY <1>b, <2>1, <2>2, <2>3
<1> QED BY <1>1, <1>2, <1>3, <1>4 DEF RoleRest

LEMMA WriteJournalBase ==
  ASSUME RoleBase, NEW ok \in BOOLEAN, Role!WriteJournal(ok)
  PROVE  RoleBase'
<1> DEFINE A1 == roleJournal' = TRUE /\ op' = [op EXCEPT !.pc = "pause"] /\ run' = run
                 /\ roleCount' \in Count
           A2 == roleJournal' = FALSE /\ Fell /\ roleCount' \in Count
<1>a. op.pc = "journal" /\ run.up /\ cfg' = cfg /\ roleHub' = roleHub /\ member' = member
      /\ served' = served /\ undone' = undone
  BY DEF RoleBase, Control, Role!WriteJournal
<1>b. A1 \/ A2
  <2>1. op.pc \in Turning \cup Hosting /\ RoleTyped /\ Modes
    BY <1>a DEF RoleBase
  <2>2. CASE ~(ok)
    <3>1. Role!Failed
      BY <2>2 DEF Role!WriteJournal
    <3>2. Fell
      BY <2>1, <3>1, FailedFacts
    <3>3. QED
      BY <2>1, <2>2, <3>2, AttemptFacts DEF RoleTyped, Role!WriteJournal
  <2>3. CASE ok
    BY <2>1, <2>3, AttemptFacts DEF RoleTyped, Role!WriteJournal
  <2>4. QED
    BY <2>2, <2>3
<1>1. RoleTyped'
  <2>a. cfg' \in Cfg /\ roleHub' \in Hub /\ member' \in {Role!None, "active", "paused"}
        /\ served' \in BOOLEAN /\ undone' \in BOOLEAN
    BY <1>a DEF RoleBase, RoleTyped
  <2>1. CASE A1
    <3>1. op' \in Op
      BY <1>a, <2>1, NameFacts DEF RoleBase, RoleTyped, Control, Op
    <3>2. run' \in Run /\ roleCount' \in Count /\ roleJournal' \in BOOLEAN
      BY <1>a, <2>1 DEF RoleBase, RoleTyped, Control
    <3>3. QED
      BY <2>a, <3>1, <3>2 DEF RoleTyped
  <2>2. CASE A2
    <3>1. op' \in Op
      BY <1>a, <2>2, NameFacts DEF RoleBase, RoleTyped, Control, Fell, Op
    <3>2. run' \in Run /\ roleCount' \in Count /\ roleJournal' \in BOOLEAN
      BY <1>a, <2>2 DEF RoleBase, RoleTyped, Control, Fell
    <3>3. QED
      BY <2>a, <3>1, <3>2 DEF RoleTyped
  <2> QED
    BY <1>b, <2>1, <2>2
<1>2. Control'
  <2>1. CASE A1
    BY <1>a, <2>1 DEF RoleBase, RoleTyped, Control, Cfg, Hub, Run, Op, Count
  <2>2. CASE A2
    BY <1>a, <2>2 DEF RoleBase, RoleTyped, Control, Fell, Cfg, Hub, Run, Op, Count
  <2> QED
    BY <1>b, <2>1, <2>2
<1>3. Modes'
  <2>1. CASE A1
    BY <1>a, <2>1 DEF RoleBase, RoleTyped, Control, Modes, Cfg, Hub, Run, Op, Count
  <2>2. CASE A2
    BY <1>a, <2>2 DEF RoleBase, RoleTyped, Control, Modes, Fell, Cfg, Hub, Run, Op, Count
  <2> QED
    BY <1>b, <2>1, <2>2
<1>4. Alone'
  <2>1. CASE A1
    BY <1>a, <2>1 DEF RoleBase, RoleTyped, Control, Modes, Alone, Cfg, Hub, Run, Op, Count
  <2>2. CASE A2
    BY <1>a, <2>2 DEF RoleBase, RoleTyped, Control, Modes, Alone, Fell, Cfg, Hub, Run, Op, Count
  <2> QED
    BY <1>b, <2>1, <2>2
<1>5. Unserved'
  <2>1. CASE A1
    BY <1>a, <2>1 DEF RoleBase, RoleTyped, Control, Unserved, Cfg, Hub, Run, Op, Count
  <2>2. CASE A2
    BY <1>a, <2>2 DEF RoleBase, RoleTyped, Control, Unserved, Fell, Cfg, Hub, Run, Op, Count
  <2> QED
    BY <1>b, <2>1, <2>2
<1> QED BY <1>1, <1>2, <1>3, <1>4, <1>5 DEF RoleBase

LEMMA WriteJournalRest ==
  ASSUME OneFault, RoleInv, NEW ok \in BOOLEAN, Role!WriteJournal(ok)
  PROVE  RoleRest'
<1> DEFINE A1 == roleJournal' = TRUE /\ op' = [op EXCEPT !.pc = "pause"] /\ run' = run
                 /\ roleCount' \in Count
           A2 == roleJournal' = FALSE /\ Fell /\ roleCount' \in Count
<1>a. op.pc = "journal" /\ run.up /\ cfg' = cfg /\ roleHub' = roleHub /\ member' = member
      /\ served' = served /\ undone' = undone
  BY DEF RoleInv, RoleBase, RoleRest, Control, Role!WriteJournal
<1>b. A1 \/ A2
  <2>1. op.pc \in Turning \cup Hosting /\ RoleTyped /\ Modes
    BY <1>a DEF RoleInv, RoleBase, RoleRest
  <2>2. CASE ~(ok)
    <3>1. Role!Failed
      BY <2>2 DEF Role!WriteJournal
    <3>2. Fell
      BY <2>1, <3>1, FailedFacts
    <3>3. QED
      BY <2>1, <2>2, <3>2, AttemptFacts DEF RoleTyped, Role!WriteJournal
  <2>3. CASE ok
    BY <2>1, <2>3, AttemptFacts DEF RoleTyped, Role!WriteJournal
  <2>4. QED
    BY <2>2, <2>3
<1>1. Naming'
  <2>1. CASE A1
    BY <1>a, <2>1 DEF RoleInv, RoleBase, RoleRest, RoleTyped, Control, Modes, Naming, Unsaved,
           Agreed, Cfg, Hub, Run, Op, Count
  <2>2. CASE A2
    BY <1>a, <2>2 DEF RoleInv, RoleBase, RoleRest, RoleTyped, Control, Modes, Naming, Unsaved,
           Agreed, Fell, Cfg, Hub, Run, Op, Count
  <2> QED
    BY <1>b, <2>1, <2>2
<1>2. Unsaved'
  <2>1. CASE A1
    BY <1>a, <2>1 DEF RoleInv, RoleBase, RoleRest, RoleTyped, Control, Modes, Naming, Unsaved,
           Reactivation, Agreed, Cfg, Hub, Run, Op, Count
  <2>2. CASE A2
    BY <1>a, <2>2 DEF RoleInv, RoleBase, RoleRest, RoleTyped, Control, Modes, Naming, Unsaved,
           Reactivation, Agreed, Fell, Cfg, Hub, Run, Op, Count
  <2> QED
    BY <1>b, <2>1, <2>2
<1>3. Files'
  <2>1. CASE A1
    BY <1>a, <2>1 DEF RoleInv, RoleBase, RoleRest, RoleTyped, Control, Modes, Unserved, Naming,
           Unsaved, Files, Reactivation, Agreed, Role!MayOpen, Role!Consumed, Cfg, Hub, Run, Op, Count
  <2>2. CASE A2
    BY <1>a, <2>2 DEF RoleInv, RoleBase, RoleRest, RoleTyped, Control, Modes, Unserved, Naming,
           Unsaved, Files, Reactivation, Agreed, Role!MayOpen, Role!Consumed, Fell, Cfg, Hub, Run, Op,
           Count
  <2> QED
    BY <1>b, <2>1, <2>2
<1>4. Reactivation'
  <2>1. CASE A1
    BY <1>a, <2>1 DEF RoleInv, RoleBase, RoleRest, RoleTyped, Control, Modes, Naming, Files,
           Reactivation, Agreed, Role!MayOpen, Cfg, Hub, Run, Op, Count
  <2>2. CASE A2
    BY <1>a, <2>2 DEF RoleInv, RoleBase, RoleRest, RoleTyped, Control, Modes, Naming, Files,
           Reactivation, Agreed, Role!MayOpen, Fell, Cfg, Hub, Run, Op, Count
  <2> QED
    BY <1>b, <2>1, <2>2
<1> QED BY <1>1, <1>2, <1>3, <1>4 DEF RoleRest

LEMMA PauseBase ==
  ASSUME RoleBase, NEW ok \in BOOLEAN, Role!Pause(ok)
  PROVE  RoleBase'
<1> DEFINE A1 == member' = Role!Paused(member) /\ op' = [op EXCEPT !.paused = TRUE, !.pc = "open"]
                 /\ run' = [run EXCEPT !.peer = op.n] /\ roleCount' \in Count
           A2 == member' = member /\ Fell /\ roleCount' \in Count
<1>a. op.pc = "pause" /\ run.up /\ cfg' = cfg /\ roleHub' = roleHub /\ roleJournal' = roleJournal
      /\ served' = served /\ undone' = undone
  BY DEF RoleBase, Control, Role!Pause
<1>b. A1 \/ A2
  <2>1. op.pc \in Turning \cup Hosting /\ RoleTyped /\ Modes
    BY <1>a DEF RoleBase
  <2>2. CASE ~(ok)
    <3>1. Role!Failed
      BY <2>2 DEF Role!Pause
    <3>2. Fell
      BY <2>1, <3>1, FailedFacts
    <3>3. QED
      BY <2>1, <2>2, <3>2, AttemptFacts DEF RoleTyped, Role!Pause
  <2>3. CASE ok
    BY <2>1, <2>3, AttemptFacts DEF RoleTyped, Role!Pause
  <2>4. QED
    BY <2>2, <2>3
<1>1. RoleTyped'
  <2>a. cfg' \in Cfg /\ roleHub' \in Hub /\ roleJournal' \in BOOLEAN /\ served' \in BOOLEAN
        /\ undone' \in BOOLEAN
    BY <1>a DEF RoleBase, RoleTyped
  <2>1. CASE A1
    <3>1. run' \in Run
      BY <1>a, <2>1, NameFacts DEF RoleBase, RoleTyped, Control, Role!Paused, Run
    <3>2. op' \in Op
      BY <1>a, <2>1, NameFacts DEF RoleBase, RoleTyped, Control, Role!Paused, Op
    <3>3. roleCount' \in Count /\ member' \in {Role!None, "active", "paused"}
      BY <1>a, <2>1 DEF RoleBase, RoleTyped, Control, Role!Paused
    <3>4. QED
      BY <2>a, <3>1, <3>2, <3>3 DEF RoleTyped
  <2>2. CASE A2
    <3>1. op' \in Op
      BY <1>a, <2>2, NameFacts DEF RoleBase, RoleTyped, Control, Fell, Role!Paused, Op
    <3>2. run' \in Run /\ roleCount' \in Count /\ member' \in {Role!None, "active", "paused"}
      BY <1>a, <2>2 DEF RoleBase, RoleTyped, Control, Fell, Role!Paused
    <3>3. QED
      BY <2>a, <3>1, <3>2 DEF RoleTyped
  <2> QED
    BY <1>b, <2>1, <2>2
<1>2. Control'
  <2>1. CASE A1
    BY <1>a, <2>1 DEF RoleBase, RoleTyped, Control, Cfg, Hub, Run, Op, Count, Role!Paused
  <2>2. CASE A2
    BY <1>a, <2>2 DEF RoleBase, RoleTyped, Control, Fell, Cfg, Hub, Run, Op, Count, Role!Paused
  <2> QED
    BY <1>b, <2>1, <2>2
<1>3. Modes'
  <2>1. CASE A1
    BY <1>a, <2>1 DEF RoleBase, RoleTyped, Control, Modes, Cfg, Hub, Run, Op, Count, Role!Paused
  <2>2. CASE A2
    BY <1>a, <2>2 DEF RoleBase, RoleTyped, Control, Modes, Fell, Cfg, Hub, Run, Op, Count,
           Role!Paused
  <2> QED
    BY <1>b, <2>1, <2>2
<1>4. Alone'
  <2>1. CASE A1
    BY <1>a, <2>1 DEF RoleBase, RoleTyped, Control, Modes, Alone, Cfg, Hub, Run, Op, Count,
           Role!Paused
  <2>2. CASE A2
    BY <1>a, <2>2 DEF RoleBase, RoleTyped, Control, Modes, Alone, Fell, Cfg, Hub, Run, Op,
           Count, Role!Paused
  <2> QED
    BY <1>b, <2>1, <2>2
<1>5. Unserved'
  <2>1. CASE A1
    BY <1>a, <2>1 DEF RoleBase, RoleTyped, Control, Unserved, Cfg, Hub, Run, Op, Count, Role!Paused
  <2>2. CASE A2
    BY <1>a, <2>2 DEF RoleBase, RoleTyped, Control, Unserved, Fell, Cfg, Hub, Run, Op, Count,
           Role!Paused
  <2> QED
    BY <1>b, <2>1, <2>2
<1> QED BY <1>1, <1>2, <1>3, <1>4, <1>5 DEF RoleBase

LEMMA PauseRest ==
  ASSUME OneFault, RoleInv, NEW ok \in BOOLEAN, Role!Pause(ok)
  PROVE  RoleRest'
<1> DEFINE A1 == member' = Role!Paused(member) /\ op' = [op EXCEPT !.paused = TRUE, !.pc = "open"]
                 /\ run' = [run EXCEPT !.peer = op.n] /\ roleCount' \in Count
           A2 == member' = member /\ Fell /\ roleCount' \in Count
<1>a. op.pc = "pause" /\ run.up /\ cfg' = cfg /\ roleHub' = roleHub /\ roleJournal' = roleJournal
      /\ served' = served /\ undone' = undone
  BY DEF RoleInv, RoleBase, RoleRest, Control, Role!Pause
<1>b. A1 \/ A2
  <2>1. op.pc \in Turning \cup Hosting /\ RoleTyped /\ Modes
    BY <1>a DEF RoleInv, RoleBase, RoleRest
  <2>2. CASE ~(ok)
    <3>1. Role!Failed
      BY <2>2 DEF Role!Pause
    <3>2. Fell
      BY <2>1, <3>1, FailedFacts
    <3>3. QED
      BY <2>1, <2>2, <3>2, AttemptFacts DEF RoleTyped, Role!Pause
  <2>3. CASE ok
    BY <2>1, <2>3, AttemptFacts DEF RoleTyped, Role!Pause
  <2>4. QED
    BY <2>2, <2>3
<1>1. Naming'
  <2>1. CASE A1
    BY <1>a, <2>1 DEF RoleInv, RoleBase, RoleRest, RoleTyped, Control, Modes, Naming, Unsaved,
           Agreed, Cfg, Hub, Run, Op, Count, Role!Paused
  <2>2. CASE A2
    BY <1>a, <2>2 DEF RoleInv, RoleBase, RoleRest, RoleTyped, Control, Modes, Naming, Unsaved,
           Agreed, Fell, Cfg, Hub, Run, Op, Count, Role!Paused
  <2> QED
    BY <1>b, <2>1, <2>2
<1>2. Unsaved'
  <2>1. CASE A1
    BY <1>a, <2>1 DEF RoleInv, RoleBase, RoleRest, RoleTyped, Control, Modes, Naming, Unsaved,
           Reactivation, Agreed, Cfg, Hub, Run, Op, Count, Role!Paused
  <2>2. CASE A2
    BY <1>a, <2>2 DEF RoleInv, RoleBase, RoleRest, RoleTyped, Control, Modes, Naming, Unsaved,
           Reactivation, Agreed, Fell, Cfg, Hub, Run, Op, Count, Role!Paused
  <2> QED
    BY <1>b, <2>1, <2>2
<1>3. Files'
  <2>1. CASE A1
    BY <1>a, <2>1 DEF RoleInv, RoleBase, RoleRest, RoleTyped, Control, Modes, Unserved, Naming,
           Unsaved, Files, Reactivation, Agreed, Role!MayOpen, Role!Consumed, Cfg, Hub, Run, Op, Count,
           Role!Paused
  <2>2. CASE A2
    BY <1>a, <2>2 DEF RoleInv, RoleBase, RoleRest, RoleTyped, Control, Modes, Unserved, Naming,
           Unsaved, Files, Reactivation, Agreed, Role!MayOpen, Role!Consumed, Fell, Cfg, Hub, Run, Op,
           Count, Role!Paused
  <2> QED
    BY <1>b, <2>1, <2>2
<1>4. Reactivation'
  <2>1. CASE A1
    BY <1>a, <2>1 DEF RoleInv, RoleBase, RoleRest, RoleTyped, Control, Modes, Naming, Files,
           Reactivation, Agreed, Role!MayOpen, Cfg, Hub, Run, Op, Count, Role!Paused
  <2>2. CASE A2
    BY <1>a, <2>2 DEF RoleInv, RoleBase, RoleRest, RoleTyped, Control, Modes, Naming, Files,
           Reactivation, Agreed, Role!MayOpen, Fell, Cfg, Hub, Run, Op, Count, Role!Paused
  <2> QED
    BY <1>b, <2>1, <2>2
<1> QED BY <1>1, <1>2, <1>3, <1>4 DEF RoleRest

LEMMA OpenBase ==
  ASSUME RoleBase, NEW ok \in BOOLEAN, Role!Open(ok)
  PROVE  RoleBase'
<1> DEFINE A1 == Role!MayOpen /\ roleHub' = [roleHub EXCEPT !.files = "whole"]
                 /\ run' = [run EXCEPT !.mode = "host", !.store = TRUE, !.accepting = FALSE, !.fenced = (roleHub.fence # Role!None)]
                 /\ op' = [op EXCEPT !.opened = TRUE, !.pc = "commit"] /\ roleCount' \in Count
           A2 == roleHub.files = Role!None /\ roleHub' = [roleHub EXCEPT !.files = "partial"] /\ Fell
                 /\ roleCount' \in Count
           A3 == roleHub' = [roleHub EXCEPT !.files = roleHub.files] /\ Fell /\ roleCount' \in Count
<1>a. op.pc = "open" /\ run.up /\ cfg' = cfg /\ member' = member /\ roleJournal' = roleJournal
      /\ served' = served /\ undone' = undone
  BY DEF RoleBase, Control, Role!Open
<1>b. A1 \/ A2 \/ A3
  <2>1. op.pc \in Turning \cup Hosting /\ RoleTyped /\ Modes
    BY <1>a DEF RoleBase
  <2>2. CASE ~(ok /\ Role!MayOpen)
    <3>1. Role!Failed
      BY <2>2 DEF Role!Open
    <3>2. Fell
      BY <2>1, <3>1, FailedFacts
    <3>3. QED
      BY <2>1, <2>2, <3>2, AttemptFacts DEF RoleTyped, Role!Open, Role!MayOpen, Role!Opened
  <2>3. CASE ok /\ Role!MayOpen
    BY <2>1, <2>3, AttemptFacts DEF RoleTyped, Role!Open, Role!MayOpen, Role!Opened
  <2>4. QED
    BY <2>2, <2>3
<1>1. RoleTyped'
  <2>a. cfg' \in Cfg /\ member' \in {Role!None, "active", "paused"} /\ roleJournal' \in BOOLEAN
        /\ served' \in BOOLEAN /\ undone' \in BOOLEAN
    BY <1>a DEF RoleBase, RoleTyped
  <2>1. CASE A1
    <3>1. roleHub' \in Hub
      BY <1>a, <2>1 DEF RoleBase, RoleTyped, Control, Hub
    <3>2. run' \in Run
      BY <1>a, <2>1, NameFacts DEF RoleBase, RoleTyped, Control, Run
    <3>3. op' \in Op
      BY <1>a, <2>1, NameFacts DEF RoleBase, RoleTyped, Control, Op
    <3>4. roleCount' \in Count
      BY <1>a, <2>1 DEF RoleBase, RoleTyped, Control
    <3>5. QED
      BY <2>a, <3>1, <3>2, <3>3, <3>4 DEF RoleTyped
  <2>2. CASE A2
    <3>1. roleHub' \in Hub
      BY <1>a, <2>2 DEF RoleBase, RoleTyped, Control, Fell, Hub
    <3>2. op' \in Op
      BY <1>a, <2>2, NameFacts DEF RoleBase, RoleTyped, Control, Fell, Op
    <3>3. run' \in Run /\ roleCount' \in Count
      BY <1>a, <2>2 DEF RoleBase, RoleTyped, Control, Fell
    <3>4. QED
      BY <2>a, <3>1, <3>2, <3>3 DEF RoleTyped
  <2>3. CASE A3
    <3>1. roleHub' \in Hub
      BY <1>a, <2>3 DEF RoleBase, RoleTyped, Control, Fell, Hub
    <3>2. op' \in Op
      BY <1>a, <2>3, NameFacts DEF RoleBase, RoleTyped, Control, Fell, Op
    <3>3. run' \in Run /\ roleCount' \in Count
      BY <1>a, <2>3 DEF RoleBase, RoleTyped, Control, Fell
    <3>4. QED
      BY <2>a, <3>1, <3>2, <3>3 DEF RoleTyped
  <2> QED
    BY <1>b, <2>1, <2>2, <2>3
<1>2. Control'
  <2>1. CASE A1
    BY <1>a, <2>1 DEF RoleBase, RoleTyped, Control, Cfg, Hub, Run, Op, Count
  <2>2. CASE A2
    BY <1>a, <2>2 DEF RoleBase, RoleTyped, Control, Fell, Cfg, Hub, Run, Op, Count
  <2>3. CASE A3
    BY <1>a, <2>3 DEF RoleBase, RoleTyped, Control, Fell, Cfg, Hub, Run, Op, Count
  <2> QED
    BY <1>b, <2>1, <2>2, <2>3
<1>3. Modes'
  <2>1. CASE A1
    BY <1>a, <2>1 DEF RoleBase, RoleTyped, Control, Modes, Cfg, Hub, Run, Op, Count
  <2>2. CASE A2
    BY <1>a, <2>2 DEF RoleBase, RoleTyped, Control, Modes, Fell, Cfg, Hub, Run, Op, Count
  <2>3. CASE A3
    BY <1>a, <2>3 DEF RoleBase, RoleTyped, Control, Modes, Fell, Cfg, Hub, Run, Op, Count
  <2> QED
    BY <1>b, <2>1, <2>2, <2>3
<1>4. Alone'
  <2>1. CASE A1
    BY <1>a, <2>1 DEF RoleBase, RoleTyped, Control, Modes, Alone, Cfg, Hub, Run, Op, Count
  <2>2. CASE A2
    BY <1>a, <2>2 DEF RoleBase, RoleTyped, Control, Modes, Alone, Fell, Cfg, Hub, Run, Op, Count
  <2>3. CASE A3
    BY <1>a, <2>3 DEF RoleBase, RoleTyped, Control, Modes, Alone, Fell, Cfg, Hub, Run, Op, Count
  <2> QED
    BY <1>b, <2>1, <2>2, <2>3
<1>5. Unserved'
  <2>1. CASE A1
    BY <1>a, <2>1 DEF RoleBase, RoleTyped, Control, Unserved, Cfg, Hub, Run, Op, Count
  <2>2. CASE A2
    BY <1>a, <2>2 DEF RoleBase, RoleTyped, Control, Unserved, Fell, Cfg, Hub, Run, Op, Count
  <2>3. CASE A3
    BY <1>a, <2>3 DEF RoleBase, RoleTyped, Control, Unserved, Fell, Cfg, Hub, Run, Op, Count
  <2> QED
    BY <1>b, <2>1, <2>2, <2>3
<1> QED BY <1>1, <1>2, <1>3, <1>4, <1>5 DEF RoleBase

LEMMA OpenRest ==
  ASSUME OneFault, RoleInv, NEW ok \in BOOLEAN, Role!Open(ok)
  PROVE  RoleRest'
<1> DEFINE A1 == Role!MayOpen /\ roleHub' = [roleHub EXCEPT !.files = "whole"]
                 /\ run' = [run EXCEPT !.mode = "host", !.store = TRUE, !.accepting = FALSE, !.fenced = (roleHub.fence # Role!None)]
                 /\ op' = [op EXCEPT !.opened = TRUE, !.pc = "commit"] /\ roleCount' \in Count
           A2 == roleHub.files = Role!None /\ roleHub' = [roleHub EXCEPT !.files = "partial"] /\ Fell
                 /\ roleCount' \in Count
           A3 == roleHub' = [roleHub EXCEPT !.files = roleHub.files] /\ Fell /\ roleCount' \in Count
<1>a. op.pc = "open" /\ run.up /\ cfg' = cfg /\ member' = member /\ roleJournal' = roleJournal
      /\ served' = served /\ undone' = undone
  BY DEF RoleInv, RoleBase, RoleRest, Control, Role!Open
<1>b. A1 \/ A2 \/ A3
  <2>1. op.pc \in Turning \cup Hosting /\ RoleTyped /\ Modes
    BY <1>a DEF RoleInv, RoleBase, RoleRest
  <2>2. CASE ~(ok /\ Role!MayOpen)
    <3>1. Role!Failed
      BY <2>2 DEF Role!Open
    <3>2. Fell
      BY <2>1, <3>1, FailedFacts
    <3>3. QED
      BY <2>1, <2>2, <3>2, AttemptFacts DEF RoleTyped, Role!Open, Role!MayOpen, Role!Opened
  <2>3. CASE ok /\ Role!MayOpen
    BY <2>1, <2>3, AttemptFacts DEF RoleTyped, Role!Open, Role!MayOpen, Role!Opened
  <2>4. QED
    BY <2>2, <2>3
<1>1. Naming'
  <2>1. CASE A1
    BY <1>a, <2>1 DEF RoleInv, RoleBase, RoleRest, RoleTyped, Control, Modes, Naming, Unsaved,
           Agreed, Cfg, Hub, Run, Op, Count
  <2>2. CASE A2
    BY <1>a, <2>2 DEF RoleInv, RoleBase, RoleRest, RoleTyped, Control, Modes, Naming, Unsaved,
           Agreed, Fell, Cfg, Hub, Run, Op, Count
  <2>3. CASE A3
    BY <1>a, <2>3 DEF RoleInv, RoleBase, RoleRest, RoleTyped, Control, Modes, Naming, Unsaved,
           Agreed, Fell, Cfg, Hub, Run, Op, Count
  <2> QED
    BY <1>b, <2>1, <2>2, <2>3
<1>2. Unsaved'
  <2>1. CASE A1
    BY <1>a, <2>1 DEF RoleInv, RoleBase, RoleRest, RoleTyped, Control, Modes, Naming, Unsaved,
           Reactivation, Agreed, Cfg, Hub, Run, Op, Count
  <2>2. CASE A2
    BY <1>a, <2>2 DEF RoleInv, RoleBase, RoleRest, RoleTyped, Control, Modes, Naming, Unsaved,
           Reactivation, Agreed, Fell, Cfg, Hub, Run, Op, Count
  <2>3. CASE A3
    BY <1>a, <2>3 DEF RoleInv, RoleBase, RoleRest, RoleTyped, Control, Modes, Naming, Unsaved,
           Reactivation, Agreed, Fell, Cfg, Hub, Run, Op, Count
  <2> QED
    BY <1>b, <2>1, <2>2, <2>3
<1>3. Files'
  <2>1. CASE A1
    BY <1>a, <2>1 DEF RoleInv, RoleBase, RoleRest, RoleTyped, Control, Modes, Unserved, Naming,
           Unsaved, Files, Reactivation, Agreed, Role!MayOpen, Role!Consumed, Cfg, Hub, Run, Op, Count
  <2>2. CASE A2
    BY <1>a, <2>2 DEF RoleInv, RoleBase, RoleRest, RoleTyped, Control, Modes, Unserved, Naming,
           Unsaved, Files, Reactivation, Agreed, Role!MayOpen, Role!Consumed, Fell, Cfg, Hub, Run, Op,
           Count
  <2>3. CASE A3
    BY <1>a, <2>3 DEF RoleInv, RoleBase, RoleRest, RoleTyped, Control, Modes, Unserved, Naming,
           Unsaved, Files, Reactivation, Agreed, Role!MayOpen, Role!Consumed, Fell, Cfg, Hub, Run, Op,
           Count
  <2> QED
    BY <1>b, <2>1, <2>2, <2>3
<1>4. Reactivation'
  <2>1. CASE A1
    BY <1>a, <2>1 DEF RoleInv, RoleBase, RoleRest, RoleTyped, Control, Modes, Naming, Files,
           Reactivation, Agreed, Role!MayOpen, Cfg, Hub, Run, Op, Count
  <2>2. CASE A2
    BY <1>a, <2>2 DEF RoleInv, RoleBase, RoleRest, RoleTyped, Control, Modes, Naming, Files,
           Reactivation, Agreed, Role!MayOpen, Fell, Cfg, Hub, Run, Op, Count
  <2>3. CASE A3
    BY <1>a, <2>3 DEF RoleInv, RoleBase, RoleRest, RoleTyped, Control, Modes, Naming, Files,
           Reactivation, Agreed, Role!MayOpen, Fell, Cfg, Hub, Run, Op, Count
  <2> QED
    BY <1>b, <2>1, <2>2, <2>3
<1> QED BY <1>1, <1>2, <1>3, <1>4 DEF RoleRest

LEMMA CommitBase ==
  ASSUME RoleBase, NEW ok \in BOOLEAN, Role!Commit(ok)
  PROVE  RoleBase'
<1> DEFINE A1 == op.react /\ cfg' = [role |-> "host", name |-> op.n]
                 /\ op' = [op EXCEPT !.saved = cfg.name, !.pc = "unfence"] /\ run' = run
                 /\ roleCount' \in Count
           A2 == ~op.react /\ cfg' = [role |-> "host", name |-> op.n]
                 /\ op' = [op EXCEPT !.saved = cfg.name, !.pc = "accept"] /\ run' = run
                 /\ roleCount' \in Count
           A3 == cfg' = cfg /\ Fell /\ roleCount' \in Count
<1>a. op.pc = "commit" /\ run.up /\ roleHub' = roleHub /\ member' = member /\ roleJournal' = roleJournal
      /\ served' = served /\ undone' = undone
  BY DEF RoleBase, Control, Role!Commit
<1>b. A1 \/ A2 \/ A3
  <2>1. op.pc \in Turning \cup Hosting /\ RoleTyped /\ Modes
    BY <1>a DEF RoleBase
  <2>2. CASE ~(ok)
    <3>1. Role!Failed
      BY <2>2 DEF Role!Commit
    <3>2. Fell
      BY <2>1, <3>1, FailedFacts
    <3>3. QED
      BY <2>1, <2>2, <3>2, AttemptFacts DEF RoleTyped, Role!Commit
  <2>3. CASE ok
    BY <2>1, <2>3, AttemptFacts DEF RoleTyped, Role!Commit
  <2>4. QED
    BY <2>2, <2>3
<1>1. RoleTyped'
  <2>a. roleHub' \in Hub /\ member' \in {Role!None, "active", "paused"} /\ roleJournal' \in BOOLEAN
        /\ served' \in BOOLEAN /\ undone' \in BOOLEAN
    BY <1>a DEF RoleBase, RoleTyped
  <2>1. CASE A1
    <3>1. cfg' \in Cfg
      BY <1>a, <2>1, NameFacts DEF RoleBase, RoleTyped, Control, Cfg
    <3>2. op' \in Op
      BY <1>a, <2>1, NameFacts DEF RoleBase, RoleTyped, Control, Op
    <3>3. run' \in Run /\ roleCount' \in Count
      BY <1>a, <2>1 DEF RoleBase, RoleTyped, Control
    <3>4. QED
      BY <2>a, <3>1, <3>2, <3>3 DEF RoleTyped
  <2>2. CASE A2
    <3>1. cfg' \in Cfg
      BY <1>a, <2>2, NameFacts DEF RoleBase, RoleTyped, Control, Cfg
    <3>2. op' \in Op
      BY <1>a, <2>2, NameFacts DEF RoleBase, RoleTyped, Control, Op
    <3>3. run' \in Run /\ roleCount' \in Count
      BY <1>a, <2>2 DEF RoleBase, RoleTyped, Control
    <3>4. QED
      BY <2>a, <3>1, <3>2, <3>3 DEF RoleTyped
  <2>3. CASE A3
    <3>1. op' \in Op
      BY <1>a, <2>3, NameFacts DEF RoleBase, RoleTyped, Control, Fell, Op
    <3>2. cfg' \in Cfg /\ run' \in Run /\ roleCount' \in Count
      BY <1>a, <2>3 DEF RoleBase, RoleTyped, Control, Fell
    <3>3. QED
      BY <2>a, <3>1, <3>2 DEF RoleTyped
  <2> QED
    BY <1>b, <2>1, <2>2, <2>3
<1>2. Control'
  <2>1. CASE A1
    BY <1>a, <2>1 DEF RoleBase, RoleTyped, Control, Cfg, Hub, Run, Op, Count
  <2>2. CASE A2
    BY <1>a, <2>2 DEF RoleBase, RoleTyped, Control, Cfg, Hub, Run, Op, Count
  <2>3. CASE A3
    BY <1>a, <2>3 DEF RoleBase, RoleTyped, Control, Fell, Cfg, Hub, Run, Op, Count
  <2> QED
    BY <1>b, <2>1, <2>2, <2>3
<1>3. Modes'
  <2>1. CASE A1
    BY <1>a, <2>1 DEF RoleBase, RoleTyped, Control, Modes, Cfg, Hub, Run, Op, Count
  <2>2. CASE A2
    BY <1>a, <2>2 DEF RoleBase, RoleTyped, Control, Modes, Cfg, Hub, Run, Op, Count
  <2>3. CASE A3
    BY <1>a, <2>3 DEF RoleBase, RoleTyped, Control, Modes, Fell, Cfg, Hub, Run, Op, Count
  <2> QED
    BY <1>b, <2>1, <2>2, <2>3
<1>4. Alone'
  <2>1. CASE A1
    BY <1>a, <2>1 DEF RoleBase, RoleTyped, Control, Modes, Alone, Cfg, Hub, Run, Op, Count
  <2>2. CASE A2
    BY <1>a, <2>2 DEF RoleBase, RoleTyped, Control, Modes, Alone, Cfg, Hub, Run, Op, Count
  <2>3. CASE A3
    BY <1>a, <2>3 DEF RoleBase, RoleTyped, Control, Modes, Alone, Fell, Cfg, Hub, Run, Op, Count
  <2> QED
    BY <1>b, <2>1, <2>2, <2>3
<1>5. Unserved'
  <2>1. CASE A1
    BY <1>a, <2>1 DEF RoleBase, RoleTyped, Control, Unserved, Cfg, Hub, Run, Op, Count
  <2>2. CASE A2
    BY <1>a, <2>2 DEF RoleBase, RoleTyped, Control, Unserved, Cfg, Hub, Run, Op, Count
  <2>3. CASE A3
    BY <1>a, <2>3 DEF RoleBase, RoleTyped, Control, Unserved, Fell, Cfg, Hub, Run, Op, Count
  <2> QED
    BY <1>b, <2>1, <2>2, <2>3
<1> QED BY <1>1, <1>2, <1>3, <1>4, <1>5 DEF RoleBase

LEMMA CommitRest ==
  ASSUME OneFault, RoleInv, NEW ok \in BOOLEAN, Role!Commit(ok)
  PROVE  RoleRest'
<1> DEFINE A1 == op.react /\ cfg' = [role |-> "host", name |-> op.n]
                 /\ op' = [op EXCEPT !.saved = cfg.name, !.pc = "unfence"] /\ run' = run
                 /\ roleCount' \in Count
           A2 == ~op.react /\ cfg' = [role |-> "host", name |-> op.n]
                 /\ op' = [op EXCEPT !.saved = cfg.name, !.pc = "accept"] /\ run' = run
                 /\ roleCount' \in Count
           A3 == cfg' = cfg /\ Fell /\ roleCount' \in Count
<1>a. op.pc = "commit" /\ run.up /\ roleHub' = roleHub /\ member' = member /\ roleJournal' = roleJournal
      /\ served' = served /\ undone' = undone
  BY DEF RoleInv, RoleBase, RoleRest, Control, Role!Commit
<1>b. A1 \/ A2 \/ A3
  <2>1. op.pc \in Turning \cup Hosting /\ RoleTyped /\ Modes
    BY <1>a DEF RoleInv, RoleBase, RoleRest
  <2>2. CASE ~(ok)
    <3>1. Role!Failed
      BY <2>2 DEF Role!Commit
    <3>2. Fell
      BY <2>1, <3>1, FailedFacts
    <3>3. QED
      BY <2>1, <2>2, <3>2, AttemptFacts DEF RoleTyped, Role!Commit
  <2>3. CASE ok
    BY <2>1, <2>3, AttemptFacts DEF RoleTyped, Role!Commit
  <2>4. QED
    BY <2>2, <2>3
<1>1. Naming'
  <2>1. CASE A1
    BY <1>a, <2>1 DEF RoleInv, RoleBase, RoleRest, RoleTyped, Control, Modes, Naming, Unsaved,
           Agreed, Cfg, Hub, Run, Op, Count
  <2>2. CASE A2
    BY <1>a, <2>2 DEF RoleInv, RoleBase, RoleRest, RoleTyped, Control, Modes, Naming, Unsaved,
           Agreed, Cfg, Hub, Run, Op, Count
  <2>3. CASE A3
    BY <1>a, <2>3 DEF RoleInv, RoleBase, RoleRest, RoleTyped, Control, Modes, Naming, Unsaved,
           Agreed, Fell, Cfg, Hub, Run, Op, Count
  <2> QED
    BY <1>b, <2>1, <2>2, <2>3
<1>2. Unsaved'
  <2>1. CASE A1
    BY <1>a, <2>1 DEF RoleInv, RoleBase, RoleRest, RoleTyped, Control, Modes, Naming, Unsaved,
           Reactivation, Agreed, OneFault, Cfg, Hub, Run, Op, Count
  <2>2. CASE A2
    BY <1>a, <2>2 DEF RoleInv, RoleBase, RoleRest, RoleTyped, Control, Modes, Naming, Unsaved,
           Reactivation, Agreed, OneFault, Cfg, Hub, Run, Op, Count
  <2>3. CASE A3
    BY <1>a, <2>3 DEF RoleInv, RoleBase, RoleRest, RoleTyped, Control, Modes, Naming, Unsaved,
           Reactivation, Agreed, OneFault, Fell, Cfg, Hub, Run, Op, Count
  <2> QED
    BY <1>b, <2>1, <2>2, <2>3
<1>3. Files'
  <2>1. CASE A1
    BY <1>a, <2>1 DEF RoleInv, RoleBase, RoleRest, RoleTyped, Control, Modes, Unserved, Naming,
           Unsaved, Files, Reactivation, Agreed, Role!MayOpen, Role!Consumed, Cfg, Hub, Run, Op, Count
  <2>2. CASE A2
    BY <1>a, <2>2 DEF RoleInv, RoleBase, RoleRest, RoleTyped, Control, Modes, Unserved, Naming,
           Unsaved, Files, Reactivation, Agreed, Role!MayOpen, Role!Consumed, Cfg, Hub, Run, Op, Count
  <2>3. CASE A3
    BY <1>a, <2>3 DEF RoleInv, RoleBase, RoleRest, RoleTyped, Control, Modes, Unserved, Naming,
           Unsaved, Files, Reactivation, Agreed, Role!MayOpen, Role!Consumed, Fell, Cfg, Hub, Run, Op,
           Count
  <2> QED
    BY <1>b, <2>1, <2>2, <2>3
<1>4. Reactivation'
  <2>1. CASE A1
    BY <1>a, <2>1 DEF RoleInv, RoleBase, RoleRest, RoleTyped, Control, Modes, Naming, Files,
           Reactivation, Agreed, Role!MayOpen, Cfg, Hub, Run, Op, Count
  <2>2. CASE A2
    BY <1>a, <2>2 DEF RoleInv, RoleBase, RoleRest, RoleTyped, Control, Modes, Naming, Files,
           Reactivation, Agreed, Role!MayOpen, Cfg, Hub, Run, Op, Count
  <2>3. CASE A3
    BY <1>a, <2>3 DEF RoleInv, RoleBase, RoleRest, RoleTyped, Control, Modes, Naming, Files,
           Reactivation, Agreed, Role!MayOpen, Fell, Cfg, Hub, Run, Op, Count
  <2> QED
    BY <1>b, <2>1, <2>2, <2>3
<1> QED BY <1>1, <1>2, <1>3, <1>4 DEF RoleRest

LEMMA UnfenceBase ==
  ASSUME RoleBase, NEW ok \in BOOLEAN, NEW also \in BOOLEAN, Role!Unfence(ok, also)
  PROVE  RoleBase'
<1> DEFINE A1 == roleHub' = [roleHub EXCEPT !.fence = Role!None, !.spent = ~also]
                 /\ op' = [op EXCEPT !.pc = "accept"] /\ run' = run /\ roleCount' \in Count
           A2 == roleHub' = roleHub /\ Fell /\ roleCount' \in Count /\ roleCount'.faults = roleCount.faults + 1
<1>a. op.pc = "unfence" /\ run.up /\ cfg' = cfg /\ member' = member /\ roleJournal' = roleJournal
      /\ served' = served /\ undone' = undone
  BY DEF RoleBase, Control, Role!Unfence
<1>b. A1 \/ A2
  <2>1. op.pc \in Turning \cup Hosting /\ RoleTyped /\ Modes
    BY <1>a DEF RoleBase
  <2>2. CASE ~(ok)
    <3>1. Role!Failed
      BY <2>2 DEF Role!Unfence
    <3>2. Fell
      BY <2>1, <3>1, FailedFacts
    <3>3. QED
      BY <2>1, <2>2, <3>2, AttemptFacts DEF RoleTyped, Role!Unfence
  <2>3. CASE ok
    BY <2>1, <2>3, AttemptFacts DEF RoleTyped, Role!Unfence
  <2>4. QED
    BY <2>2, <2>3
<1>1. RoleTyped'
  <2>a. cfg' \in Cfg /\ member' \in {Role!None, "active", "paused"} /\ roleJournal' \in BOOLEAN
        /\ served' \in BOOLEAN /\ undone' \in BOOLEAN
    BY <1>a DEF RoleBase, RoleTyped
  <2>1. CASE A1
    <3>1. roleHub' \in Hub
      BY <1>a, <2>1 DEF RoleBase, RoleTyped, Control, Hub
    <3>2. op' \in Op
      BY <1>a, <2>1, NameFacts DEF RoleBase, RoleTyped, Control, Op
    <3>3. run' \in Run /\ roleCount' \in Count
      BY <1>a, <2>1 DEF RoleBase, RoleTyped, Control
    <3>4. QED
      BY <2>a, <3>1, <3>2, <3>3 DEF RoleTyped
  <2>2. CASE A2
    <3>1. op' \in Op
      BY <1>a, <2>2, NameFacts DEF RoleBase, RoleTyped, Control, Fell, Op
    <3>2. roleHub' \in Hub /\ run' \in Run /\ roleCount' \in Count
      BY <1>a, <2>2 DEF RoleBase, RoleTyped, Control, Fell
    <3>3. QED
      BY <2>a, <3>1, <3>2 DEF RoleTyped
  <2> QED
    BY <1>b, <2>1, <2>2
<1>2. Control'
  <2>1. CASE A1
    BY <1>a, <2>1 DEF RoleBase, RoleTyped, Control, Cfg, Hub, Run, Op, Count
  <2>2. CASE A2
    BY <1>a, <2>2 DEF RoleBase, RoleTyped, Control, Fell, Cfg, Hub, Run, Op, Count
  <2> QED
    BY <1>b, <2>1, <2>2
<1>3. Modes'
  <2>1. CASE A1
    BY <1>a, <2>1 DEF RoleBase, RoleTyped, Control, Modes, Cfg, Hub, Run, Op, Count
  <2>2. CASE A2
    BY <1>a, <2>2 DEF RoleBase, RoleTyped, Control, Modes, Fell, Cfg, Hub, Run, Op, Count
  <2> QED
    BY <1>b, <2>1, <2>2
<1>4. Alone'
  <2>1. CASE A1
    BY <1>a, <2>1 DEF RoleBase, RoleTyped, Control, Modes, Alone, Cfg, Hub, Run, Op, Count
  <2>2. CASE A2
    BY <1>a, <2>2 DEF RoleBase, RoleTyped, Control, Modes, Alone, Fell, Cfg, Hub, Run, Op, Count
  <2> QED
    BY <1>b, <2>1, <2>2
<1>5. Unserved'
  <2>1. CASE A1
    BY <1>a, <2>1 DEF RoleBase, RoleTyped, Control, Unserved, Cfg, Hub, Run, Op, Count
  <2>2. CASE A2
    BY <1>a, <2>2 DEF RoleBase, RoleTyped, Control, Unserved, Fell, Cfg, Hub, Run, Op, Count
  <2> QED
    BY <1>b, <2>1, <2>2
<1> QED BY <1>1, <1>2, <1>3, <1>4, <1>5 DEF RoleBase

LEMMA UnfenceRest ==
  ASSUME OneFault, RoleInv, NEW ok \in BOOLEAN, NEW also \in BOOLEAN, Role!Unfence(ok, also)
  PROVE  RoleRest'
<1> DEFINE A1 == roleHub' = [roleHub EXCEPT !.fence = Role!None, !.spent = ~also]
                 /\ op' = [op EXCEPT !.pc = "accept"] /\ run' = run /\ roleCount' \in Count
           A2 == roleHub' = roleHub /\ Fell /\ roleCount' \in Count /\ roleCount'.faults = roleCount.faults + 1
<1>a. op.pc = "unfence" /\ run.up /\ cfg' = cfg /\ member' = member /\ roleJournal' = roleJournal
      /\ served' = served /\ undone' = undone
  BY DEF RoleInv, RoleBase, RoleRest, Control, Role!Unfence
<1>b. A1 \/ A2
  <2>1. op.pc \in Turning \cup Hosting /\ RoleTyped /\ Modes
    BY <1>a DEF RoleInv, RoleBase, RoleRest
  <2>2. CASE ~(ok)
    <3>1. Role!Failed
      BY <2>2 DEF Role!Unfence
    <3>2. Fell
      BY <2>1, <3>1, FailedFacts
    <3>3. QED
      BY <2>1, <2>2, <3>2, AttemptFacts DEF RoleTyped, Role!Unfence
  <2>3. CASE ok
    BY <2>1, <2>3, AttemptFacts DEF RoleTyped, Role!Unfence
  <2>4. QED
    BY <2>2, <2>3
<1>1. Naming'
  <2>1. CASE A1
    BY <1>a, <2>1 DEF RoleInv, RoleBase, RoleRest, RoleTyped, Control, Modes, Naming, Unsaved,
           Agreed, OneFault, Cfg, Hub, Run, Op, Count
  <2>2. CASE A2
    BY <1>a, <2>2 DEF RoleInv, RoleBase, RoleRest, RoleTyped, Control, Modes, Naming, Unsaved,
           Agreed, OneFault, Fell, Cfg, Hub, Run, Op, Count
  <2> QED
    BY <1>b, <2>1, <2>2
<1>2. Unsaved'
  <2>1. CASE A1
    BY <1>a, <2>1 DEF RoleInv, RoleBase, RoleRest, RoleTyped, Control, Unsaved, Op
  <2>2. CASE A2
    <3>1. roleCount'.faults >= MaxFaults
      BY <2>2 DEF RoleInv, RoleBase, RoleTyped, Count, OneFault
    <3>2. op'.pc = "undoName" /\ op'.was = op.was /\ op'.saved = op.was /\ op'.react = op.react
      BY <1>a, <2>2 DEF RoleInv, RoleBase, RoleRest, RoleTyped, Op, Fell, Naming
    <3>3. run'.live = op.was /\ op.react /\ roleHub'.fence = "adopted" /\ cfg'.role = "host"
      BY <1>a, <2>2 DEF RoleInv, RoleRest, Fell, Naming, Reactivation
    <3>4. op.saved \in TeamNames /\ op.saved = op.was
      BY <1>a DEF RoleInv, RoleBase, RoleRest, Control, Naming
    <3>5. QED
      BY <3>1, <3>2, <3>3, <3>4 DEF Unsaved, OneFault
  <2> QED
    BY <1>b, <2>1, <2>2
<1>3. Files'
  <2>1. CASE A1
    BY <1>a, <2>1 DEF RoleInv, RoleBase, RoleRest, RoleTyped, Control, Modes, Unserved, Naming,
           Unsaved, Files, Reactivation, Agreed, Role!MayOpen, Role!Consumed, Cfg, Hub, Run, Op, Count
  <2>2. CASE A2
    BY <1>a, <2>2 DEF RoleInv, RoleBase, RoleRest, RoleTyped, Control, Modes, Unserved, Naming,
           Unsaved, Files, Reactivation, Agreed, Role!MayOpen, Role!Consumed, Fell, Cfg, Hub, Run, Op,
           Count
  <2> QED
    BY <1>b, <2>1, <2>2
<1>4. Reactivation'
  <2>1. CASE A1
    BY <1>a, <2>1 DEF RoleInv, RoleBase, RoleRest, RoleTyped, Control, Modes, Naming, Files,
           Reactivation, Agreed, Role!MayOpen, Cfg, Hub, Run, Op, Count
  <2>2. CASE A2
    BY <1>a, <2>2 DEF RoleInv, RoleBase, RoleRest, RoleTyped, Control, Modes, Naming, Files,
           Reactivation, Agreed, Role!MayOpen, Fell, Cfg, Hub, Run, Op, Count
  <2> QED
    BY <1>b, <2>1, <2>2
<1> QED BY <1>1, <1>2, <1>3, <1>4 DEF RoleRest

LEMMA AcceptBase ==
  ASSUME RoleBase, NEW ok \in BOOLEAN, NEW also \in BOOLEAN, Role!Accept(ok, also)
  PROVE  RoleBase'
<1> DEFINE A1 == ok
                 /\ run' = [run EXCEPT !.attached = TRUE, !.accepting = TRUE, !.fenced = FALSE, !.live = op.n]
                 /\ roleHub' = [roleHub EXCEPT !.auth = roleHub.auth /\ ~also]
                 /\ op' = [op EXCEPT !.pc = "complete"]
           A2 == ~ok
                 /\ run' = [run EXCEPT !.attached = FALSE, !.accepting = TRUE, !.fenced = run.fenced, !.live = op.n]
                 /\ roleHub' = [roleHub EXCEPT !.auth = roleHub.auth /\ ~also]
                 /\ op' = [op EXCEPT !.pc = "complete"]
<1>a. op.pc = "accept" /\ run.up /\ cfg' = cfg /\ member' = member /\ roleJournal' = roleJournal
      /\ roleCount' = roleCount /\ served' = served /\ undone' = undone
  BY DEF RoleBase, Control, Role!Accept, Run
<1>b. A1 \/ A2
  BY DEF RoleBase, RoleTyped, Control, Role!Accept, Run
<1>1. RoleTyped'
  <2>a. cfg' \in Cfg /\ roleCount' \in Count /\ member' \in {Role!None, "active", "paused"}
        /\ roleJournal' \in BOOLEAN /\ served' \in BOOLEAN /\ undone' \in BOOLEAN
    BY <1>a DEF RoleBase, RoleTyped
  <2>1. CASE A1
    <3>1. roleHub' \in Hub
      BY <1>a, <2>1 DEF RoleBase, RoleTyped, Control, Hub
    <3>2. run' \in Run
      BY <1>a, <2>1, NameFacts DEF RoleBase, RoleTyped, Control, Run
    <3>3. op' \in Op
      BY <1>a, <2>1, NameFacts DEF RoleBase, RoleTyped, Control, Op
    <3>4. QED
      BY <2>a, <3>1, <3>2, <3>3 DEF RoleTyped
  <2>2. CASE A2
    <3>1. roleHub' \in Hub
      BY <1>a, <2>2 DEF RoleBase, RoleTyped, Control, Hub
    <3>2. run' \in Run
      BY <1>a, <2>2, NameFacts DEF RoleBase, RoleTyped, Control, Run
    <3>3. op' \in Op
      BY <1>a, <2>2, NameFacts DEF RoleBase, RoleTyped, Control, Op
    <3>4. QED
      BY <2>a, <3>1, <3>2, <3>3 DEF RoleTyped
  <2> QED
    BY <1>b, <2>1, <2>2
<1>2. Control'
  <2>1. CASE A1
    BY <1>a, <2>1 DEF RoleBase, RoleTyped, Control, Cfg, Hub, Run, Op, Count
  <2>2. CASE A2
    BY <1>a, <2>2 DEF RoleBase, RoleTyped, Control, Cfg, Hub, Run, Op, Count
  <2> QED
    BY <1>b, <2>1, <2>2
<1>3. Modes'
  <2>1. CASE A1
    BY <1>a, <2>1 DEF RoleBase, RoleTyped, Control, Modes, Cfg, Hub, Run, Op, Count
  <2>2. CASE A2
    BY <1>a, <2>2 DEF RoleBase, RoleTyped, Control, Modes, Cfg, Hub, Run, Op, Count
  <2> QED
    BY <1>b, <2>1, <2>2
<1>4. Alone'
  <2>1. CASE A1
    BY <1>a, <2>1 DEF RoleBase, RoleTyped, Control, Modes, Alone, Cfg, Hub, Run, Op, Count
  <2>2. CASE A2
    BY <1>a, <2>2 DEF RoleBase, RoleTyped, Control, Modes, Alone, Cfg, Hub, Run, Op, Count
  <2> QED
    BY <1>b, <2>1, <2>2
<1>5. Unserved'
  <2>1. CASE A1
    BY <1>a, <2>1 DEF RoleBase, RoleTyped, Control, Unserved, Cfg, Hub, Run, Op, Count
  <2>2. CASE A2
    BY <1>a, <2>2 DEF RoleBase, RoleTyped, Control, Unserved, Cfg, Hub, Run, Op, Count
  <2> QED
    BY <1>b, <2>1, <2>2
<1> QED BY <1>1, <1>2, <1>3, <1>4, <1>5 DEF RoleBase

LEMMA AcceptRest ==
  ASSUME OneFault, RoleInv, NEW ok \in BOOLEAN, NEW also \in BOOLEAN, Role!Accept(ok, also)
  PROVE  RoleRest'
<1> DEFINE A1 == ok
                 /\ run' = [run EXCEPT !.attached = TRUE, !.accepting = TRUE, !.fenced = FALSE, !.live = op.n]
                 /\ roleHub' = [roleHub EXCEPT !.auth = roleHub.auth /\ ~also]
                 /\ op' = [op EXCEPT !.pc = "complete"]
           A2 == ~ok
                 /\ run' = [run EXCEPT !.attached = FALSE, !.accepting = TRUE, !.fenced = run.fenced, !.live = op.n]
                 /\ roleHub' = [roleHub EXCEPT !.auth = roleHub.auth /\ ~also]
                 /\ op' = [op EXCEPT !.pc = "complete"]
<1>a. op.pc = "accept" /\ run.up /\ cfg' = cfg /\ member' = member /\ roleJournal' = roleJournal
      /\ roleCount' = roleCount /\ served' = served /\ undone' = undone
  BY DEF RoleInv, RoleBase, RoleRest, Control, Role!Accept, Run
<1>b. A1 \/ A2
  BY DEF RoleInv, RoleBase, RoleRest, RoleTyped, Control, Role!Accept, Run
<1>1. Naming'
  <2>1. CASE A1
    BY <1>a, <2>1 DEF RoleInv, RoleBase, RoleRest, RoleTyped, Control, Modes, Naming, Unsaved,
           Agreed, Cfg, Hub, Run, Op, Count
  <2>2. CASE A2
    BY <1>a, <2>2 DEF RoleInv, RoleBase, RoleRest, RoleTyped, Control, Modes, Naming, Unsaved,
           Agreed, Cfg, Hub, Run, Op, Count
  <2> QED
    BY <1>b, <2>1, <2>2
<1>2. Unsaved'
  <2>1. CASE A1
    BY <1>a, <2>1 DEF RoleInv, RoleBase, RoleRest, RoleTyped, Control, Modes, Naming, Unsaved,
           Reactivation, Agreed, Cfg, Hub, Run, Op, Count
  <2>2. CASE A2
    BY <1>a, <2>2 DEF RoleInv, RoleBase, RoleRest, RoleTyped, Control, Modes, Naming, Unsaved,
           Reactivation, Agreed, Cfg, Hub, Run, Op, Count
  <2> QED
    BY <1>b, <2>1, <2>2
<1>3. Files'
  <2>1. CASE A1
    BY <1>a, <2>1 DEF RoleInv, RoleBase, RoleRest, RoleTyped, Control, Modes, Unserved, Naming,
           Unsaved, Files, Reactivation, Agreed, Role!MayOpen, Role!Consumed, Cfg, Hub, Run, Op, Count
  <2>2. CASE A2
    BY <1>a, <2>2 DEF RoleInv, RoleBase, RoleRest, RoleTyped, Control, Modes, Unserved, Naming,
           Unsaved, Files, Reactivation, Agreed, Role!MayOpen, Role!Consumed, Cfg, Hub, Run, Op, Count
  <2> QED
    BY <1>b, <2>1, <2>2
<1>4. Reactivation'
  <2>1. CASE A1
    BY <1>a, <2>1 DEF RoleInv, RoleBase, RoleRest, RoleTyped, Control, Modes, Naming, Files,
           Reactivation, Agreed, Role!MayOpen, Cfg, Hub, Run, Op, Count
  <2>2. CASE A2
    BY <1>a, <2>2 DEF RoleInv, RoleBase, RoleRest, RoleTyped, Control, Modes, Naming, Files,
           Reactivation, Agreed, Role!MayOpen, Cfg, Hub, Run, Op, Count
  <2> QED
    BY <1>b, <2>1, <2>2
<1> QED BY <1>1, <1>2, <1>3, <1>4 DEF RoleRest

LEMMA CompleteBase ==
  ASSUME RoleBase, NEW ok \in BOOLEAN, Role!Complete(ok)
  PROVE  RoleBase'
<1> DEFINE A1 == op' = Role!Idle /\ roleJournal' = FALSE /\ roleCount' \in Count
           A2 == op' = Role!Idle /\ roleJournal' = roleJournal /\ roleCount' \in Count
<1>a. op.pc = "complete" /\ run.up /\ cfg' = cfg /\ roleHub' = roleHub /\ member' = member /\ run' = run
      /\ served' = served /\ undone' = undone
  BY DEF RoleBase, Control, Role!Complete
<1>b. A1 \/ A2
  BY AttemptFacts DEF RoleBase, RoleTyped, Control, Role!Complete, Role!End
<1>1. RoleTyped'
  <2>a. cfg' \in Cfg /\ roleHub' \in Hub /\ run' \in Run /\ member' \in {Role!None, "active", "paused"}
        /\ served' \in BOOLEAN /\ undone' \in BOOLEAN
    BY <1>a DEF RoleBase, RoleTyped
  <2>1. CASE A1
    <3>1. op' \in Op
      BY <1>a, <2>1, NameFacts DEF RoleBase, RoleTyped, Control, Op
    <3>2. roleCount' \in Count /\ roleJournal' \in BOOLEAN
      BY <1>a, <2>1 DEF RoleBase, RoleTyped, Control
    <3>3. QED
      BY <2>a, <3>1, <3>2 DEF RoleTyped
  <2>2. CASE A2
    <3>1. op' \in Op
      BY <1>a, <2>2, NameFacts DEF RoleBase, RoleTyped, Control, Op
    <3>2. roleCount' \in Count /\ roleJournal' \in BOOLEAN
      BY <1>a, <2>2 DEF RoleBase, RoleTyped, Control
    <3>3. QED
      BY <2>a, <3>1, <3>2 DEF RoleTyped
  <2> QED
    BY <1>b, <2>1, <2>2
<1>2. Control'
  <2>1. CASE A1
    BY <1>a, <2>1 DEF RoleBase, RoleTyped, Control, Cfg, Hub, Run, Op, Count
  <2>2. CASE A2
    BY <1>a, <2>2 DEF RoleBase, RoleTyped, Control, Cfg, Hub, Run, Op, Count
  <2> QED
    BY <1>b, <2>1, <2>2
<1>3. Modes'
  <2>1. CASE A1
    BY <1>a, <2>1 DEF RoleBase, RoleTyped, Control, Modes, Cfg, Hub, Run, Op, Count
  <2>2. CASE A2
    BY <1>a, <2>2 DEF RoleBase, RoleTyped, Control, Modes, Cfg, Hub, Run, Op, Count
  <2> QED
    BY <1>b, <2>1, <2>2
<1>4. Alone'
  <2>1. CASE A1
    BY <1>a, <2>1 DEF RoleBase, RoleTyped, Control, Modes, Alone, Cfg, Hub, Run, Op, Count
  <2>2. CASE A2
    BY <1>a, <2>2 DEF RoleBase, RoleTyped, Control, Modes, Alone, Cfg, Hub, Run, Op, Count
  <2> QED
    BY <1>b, <2>1, <2>2
<1>5. Unserved'
  <2>1. CASE A1
    BY <1>a, <2>1 DEF RoleBase, RoleTyped, Control, Unserved, Cfg, Hub, Run, Op, Count
  <2>2. CASE A2
    BY <1>a, <2>2 DEF RoleBase, RoleTyped, Control, Unserved, Cfg, Hub, Run, Op, Count
  <2> QED
    BY <1>b, <2>1, <2>2
<1> QED BY <1>1, <1>2, <1>3, <1>4, <1>5 DEF RoleBase

LEMMA CompleteRest ==
  ASSUME OneFault, RoleInv, NEW ok \in BOOLEAN, Role!Complete(ok)
  PROVE  RoleRest'
<1> DEFINE A1 == op' = Role!Idle /\ roleJournal' = FALSE /\ roleCount' \in Count
           A2 == op' = Role!Idle /\ roleJournal' = roleJournal /\ roleCount' \in Count
<1>a. op.pc = "complete" /\ run.up /\ cfg' = cfg /\ roleHub' = roleHub /\ member' = member /\ run' = run
      /\ served' = served /\ undone' = undone
  BY DEF RoleInv, RoleBase, RoleRest, Control, Role!Complete
<1>b. A1 \/ A2
  BY AttemptFacts DEF RoleInv, RoleBase, RoleRest, RoleTyped, Control, Role!Complete, Role!End
<1>1. Naming'
  <2>1. CASE A1
    BY <1>a, <2>1 DEF RoleInv, RoleBase, RoleRest, RoleTyped, Control, Modes, Naming, Unsaved,
           Agreed, Cfg, Hub, Run, Op, Count
  <2>2. CASE A2
    BY <1>a, <2>2 DEF RoleInv, RoleBase, RoleRest, RoleTyped, Control, Modes, Naming, Unsaved,
           Agreed, Cfg, Hub, Run, Op, Count
  <2> QED
    BY <1>b, <2>1, <2>2
<1>2. Unsaved'
  <2>1. CASE A1
    BY <1>a, <2>1 DEF RoleInv, RoleBase, RoleRest, RoleTyped, Control, Modes, Naming, Unsaved,
           Reactivation, Agreed, Cfg, Hub, Run, Op, Count
  <2>2. CASE A2
    BY <1>a, <2>2 DEF RoleInv, RoleBase, RoleRest, RoleTyped, Control, Modes, Naming, Unsaved,
           Reactivation, Agreed, Cfg, Hub, Run, Op, Count
  <2> QED
    BY <1>b, <2>1, <2>2
<1>3. Files'
  <2>1. CASE A1
    BY <1>a, <2>1 DEF RoleInv, RoleBase, RoleRest, RoleTyped, Control, Modes, Unserved, Naming,
           Unsaved, Files, Reactivation, Agreed, Role!MayOpen, Role!Consumed, Cfg, Hub, Run, Op, Count
  <2>2. CASE A2
    BY <1>a, <2>2 DEF RoleInv, RoleBase, RoleRest, RoleTyped, Control, Modes, Unserved, Naming,
           Unsaved, Files, Reactivation, Agreed, Role!MayOpen, Role!Consumed, Cfg, Hub, Run, Op, Count
  <2> QED
    BY <1>b, <2>1, <2>2
<1>4. Reactivation'
  <2>1. CASE A1
    BY <1>a, <2>1 DEF RoleInv, RoleBase, RoleRest, RoleTyped, Control, Modes, Naming, Files,
           Reactivation, Agreed, Role!MayOpen, Cfg, Hub, Run, Op, Count
  <2>2. CASE A2
    BY <1>a, <2>2 DEF RoleInv, RoleBase, RoleRest, RoleTyped, Control, Modes, Naming, Files,
           Reactivation, Agreed, Role!MayOpen, Cfg, Hub, Run, Op, Count
  <2> QED
    BY <1>b, <2>1, <2>2
<1> QED BY <1>1, <1>2, <1>3, <1>4 DEF RoleRest

LEMMA UndoNameBase ==
  ASSUME RoleBase, Role!UndoName
  PROVE  RoleBase'
<1>1. RoleTyped'
  BY DEF RoleBase, RoleTyped, Cfg, Hub, Run, Op, Count, Role!UndoName
<1>2. Control'
  BY DEF RoleBase, RoleTyped, Control, Cfg, Hub, Run, Op, Count, Role!UndoName
<1>3. Modes'
  BY DEF RoleBase, RoleTyped, Control, Modes, Cfg, Hub, Run, Op, Count, Role!UndoName
<1>4. Alone'
  BY DEF RoleBase, RoleTyped, Control, Modes, Alone, Cfg, Hub, Run, Op, Count, Role!UndoName
<1>5. Unserved'
  BY DEF RoleBase, RoleTyped, Control, Unserved, Cfg, Hub, Run, Op, Count, Role!UndoName
<1> QED BY <1>1, <1>2, <1>3, <1>4, <1>5 DEF RoleBase

LEMMA UndoNameRest ==
  ASSUME OneFault, RoleInv, Role!UndoName
  PROVE  RoleRest'
<1>1. Naming'
  BY DEF RoleInv, RoleBase, RoleRest, RoleTyped, Control, Modes, Naming, Unsaved, Agreed, Cfg,
         Hub, Run, Op, Count, Role!UndoName
<1>2. Unsaved'
  BY DEF RoleInv, RoleBase, RoleRest, RoleTyped, Control, Modes, Naming, Unsaved, Reactivation,
         Agreed, Cfg, Hub, Run, Op, Count, Role!UndoName
<1>3. Files'
  BY DEF RoleInv, RoleBase, RoleRest, RoleTyped, Control, Modes, Unserved, Naming, Unsaved,
         Files, Reactivation, Agreed, Role!MayOpen, Role!Consumed, Cfg, Hub, Run, Op, Count, Role!UndoName
<1>4. Reactivation'
  BY DEF RoleInv, RoleBase, RoleRest, RoleTyped, Control, Modes, Naming, Files, Reactivation,
         Agreed, Role!MayOpen, Cfg, Hub, Run, Op, Count, Role!UndoName
<1> QED BY <1>1, <1>2, <1>3, <1>4 DEF RoleRest

LEMMA UndoConfigBase ==
  ASSUME RoleBase, NEW ok \in BOOLEAN, Role!UndoConfig(ok)
  PROVE  RoleBase'
<1> DEFINE A1 == op.saved # Role!None /\ cfg' = [role |-> "member", name |-> op.saved]
                 /\ roleCount' \in Count
           A2 == op.saved = Role!None /\ cfg' = cfg /\ roleCount' \in Count
           A3 == op.saved # Role!None /\ cfg' = cfg /\ roleCount' \in Count /\ roleCount.faults < MaxFaults
<1>a. op.pc = "undoConfig" /\ run.up /\ roleHub' = roleHub /\ member' = member /\ roleJournal' = roleJournal
      /\ run' = run /\ op' = [op EXCEPT !.pc = "undoPause"] /\ served' = served
      /\ undone' = undone
  BY DEF RoleBase, Control, Role!UndoConfig
<1>b. A1 \/ A2 \/ A3
  BY AttemptFacts DEF RoleBase, RoleTyped, Control, Role!UndoConfig
<1>1. RoleTyped'
  <2>a. roleHub' \in Hub /\ run' \in Run /\ member' \in {Role!None, "active", "paused"}
        /\ roleJournal' \in BOOLEAN /\ served' \in BOOLEAN /\ undone' \in BOOLEAN
    BY <1>a DEF RoleBase, RoleTyped
  <2>1. CASE A1
    <3>1. cfg' \in Cfg
      BY <1>a, <2>1, NameFacts DEF RoleBase, RoleTyped, Control, Cfg
    <3>2. op' \in Op
      BY <1>a, <2>1, NameFacts DEF RoleBase, RoleTyped, Control, Op
    <3>3. roleCount' \in Count
      BY <1>a, <2>1 DEF RoleBase, RoleTyped, Control
    <3>4. QED
      BY <2>a, <3>1, <3>2, <3>3 DEF RoleTyped
  <2>2. CASE A2
    <3>1. op' \in Op
      BY <1>a, <2>2, NameFacts DEF RoleBase, RoleTyped, Control, Op
    <3>2. cfg' \in Cfg /\ roleCount' \in Count
      BY <1>a, <2>2 DEF RoleBase, RoleTyped, Control
    <3>3. QED
      BY <2>a, <3>1, <3>2 DEF RoleTyped
  <2>3. CASE A3
    <3>1. op' \in Op
      BY <1>a, <2>3, NameFacts DEF RoleBase, RoleTyped, Control, Op
    <3>2. cfg' \in Cfg /\ roleCount' \in Count
      BY <1>a, <2>3 DEF RoleBase, RoleTyped, Control
    <3>3. QED
      BY <2>a, <3>1, <3>2 DEF RoleTyped
  <2> QED
    BY <1>b, <2>1, <2>2, <2>3
<1>2. Control'
  <2>1. CASE A1
    BY <1>a, <2>1 DEF RoleBase, RoleTyped, Control, Cfg, Hub, Run, Op, Count
  <2>2. CASE A2
    BY <1>a, <2>2 DEF RoleBase, RoleTyped, Control, Cfg, Hub, Run, Op, Count
  <2>3. CASE A3
    BY <1>a, <2>3 DEF RoleBase, RoleTyped, Control, Cfg, Hub, Run, Op, Count
  <2> QED
    BY <1>b, <2>1, <2>2, <2>3
<1>3. Modes'
  <2>1. CASE A1
    BY <1>a, <2>1 DEF RoleBase, RoleTyped, Control, Modes, Cfg, Hub, Run, Op, Count
  <2>2. CASE A2
    BY <1>a, <2>2 DEF RoleBase, RoleTyped, Control, Modes, Cfg, Hub, Run, Op, Count
  <2>3. CASE A3
    BY <1>a, <2>3 DEF RoleBase, RoleTyped, Control, Modes, Cfg, Hub, Run, Op, Count
  <2> QED
    BY <1>b, <2>1, <2>2, <2>3
<1>4. Alone'
  <2>1. CASE A1
    BY <1>a, <2>1 DEF RoleBase, RoleTyped, Control, Modes, Alone, Cfg, Hub, Run, Op, Count
  <2>2. CASE A2
    BY <1>a, <2>2 DEF RoleBase, RoleTyped, Control, Modes, Alone, Cfg, Hub, Run, Op, Count
  <2>3. CASE A3
    BY <1>a, <2>3 DEF RoleBase, RoleTyped, Control, Modes, Alone, Cfg, Hub, Run, Op, Count
  <2> QED
    BY <1>b, <2>1, <2>2, <2>3
<1>5. Unserved'
  <2>1. CASE A1
    BY <1>a, <2>1 DEF RoleBase, RoleTyped, Control, Unserved, Cfg, Hub, Run, Op, Count
  <2>2. CASE A2
    BY <1>a, <2>2 DEF RoleBase, RoleTyped, Control, Unserved, Cfg, Hub, Run, Op, Count
  <2>3. CASE A3
    BY <1>a, <2>3 DEF RoleBase, RoleTyped, Control, Unserved, Cfg, Hub, Run, Op, Count
  <2> QED
    BY <1>b, <2>1, <2>2, <2>3
<1> QED BY <1>1, <1>2, <1>3, <1>4, <1>5 DEF RoleBase

LEMMA UndoConfigRest ==
  ASSUME OneFault, RoleInv, NEW ok \in BOOLEAN, Role!UndoConfig(ok)
  PROVE  RoleRest'
<1> DEFINE A1 == op.saved # Role!None /\ cfg' = [role |-> "member", name |-> op.saved]
                 /\ roleCount' \in Count
           A2 == op.saved = Role!None /\ cfg' = cfg /\ roleCount' \in Count
           A3 == op.saved # Role!None /\ cfg' = cfg /\ roleCount' \in Count /\ roleCount.faults < MaxFaults
<1>a. op.pc = "undoConfig" /\ run.up /\ roleHub' = roleHub /\ member' = member /\ roleJournal' = roleJournal
      /\ run' = run /\ op' = [op EXCEPT !.pc = "undoPause"] /\ served' = served
      /\ undone' = undone
  BY DEF RoleInv, RoleBase, RoleRest, Control, Role!UndoConfig
<1>b. A1 \/ A2 \/ A3
  BY AttemptFacts DEF RoleInv, RoleBase, RoleRest, RoleTyped, Control, Role!UndoConfig
<1>1. Naming'
  <2>1. CASE A1
    BY <1>a, <2>1 DEF RoleInv, RoleBase, RoleRest, RoleTyped, Control, Modes, Naming, Unsaved,
           Agreed, OneFault, Cfg, Hub, Run, Op, Count
  <2>2. CASE A2
    BY <1>a, <2>2 DEF RoleInv, RoleBase, RoleRest, RoleTyped, Control, Modes, Naming, Unsaved,
           Agreed, OneFault, Cfg, Hub, Run, Op, Count
  <2>3. CASE A3
    BY <1>a, <2>3 DEF RoleInv, RoleBase, RoleRest, RoleTyped, Control, Modes, Naming, Unsaved,
           Agreed, OneFault, Cfg, Hub, Run, Op, Count
  <2> QED
    BY <1>b, <2>1, <2>2, <2>3
<1>2. Unsaved'
  <2>1. CASE A1
    BY <1>a, <2>1 DEF RoleInv, RoleBase, RoleRest, RoleTyped, Control, Modes, Naming, Unsaved,
           Reactivation, Agreed, OneFault, Cfg, Hub, Run, Op, Count
  <2>2. CASE A2
    BY <1>a, <2>2 DEF RoleInv, RoleBase, RoleRest, RoleTyped, Control, Modes, Naming, Unsaved,
           Reactivation, Agreed, OneFault, Cfg, Hub, Run, Op, Count
  <2>3. CASE A3
    BY <1>a, <2>3 DEF RoleInv, RoleBase, RoleRest, RoleTyped, Control, Modes, Naming, Unsaved,
           Reactivation, Agreed, OneFault, Cfg, Hub, Run, Op, Count
  <2> QED
    BY <1>b, <2>1, <2>2, <2>3
<1>3. Files'
  <2>1. CASE A1
    BY <1>a, <2>1 DEF RoleInv, RoleBase, RoleRest, RoleTyped, Control, Modes, Unserved, Naming,
           Unsaved, Files, Reactivation, Agreed, Role!MayOpen, Role!Consumed, OneFault, Cfg, Hub, Run, Op,
           Count
  <2>2. CASE A2
    BY <1>a, <2>2 DEF RoleInv, RoleBase, RoleRest, RoleTyped, Control, Modes, Unserved, Naming,
           Unsaved, Files, Reactivation, Agreed, Role!MayOpen, Role!Consumed, OneFault, Cfg, Hub, Run, Op,
           Count
  <2>3. CASE A3
    BY <1>a, <2>3 DEF RoleInv, RoleBase, RoleRest, RoleTyped, Control, Modes, Unserved, Naming,
           Unsaved, Files, Reactivation, Agreed, Role!MayOpen, Role!Consumed, OneFault, Cfg, Hub, Run, Op,
           Count
  <2> QED
    BY <1>b, <2>1, <2>2, <2>3
<1>4. Reactivation'
  <2>1. CASE A1
    BY <1>a, <2>1 DEF RoleInv, RoleBase, RoleRest, RoleTyped, Control, Modes, Naming, Files,
           Reactivation, Agreed, Role!MayOpen, Cfg, Hub, Run, Op, Count
  <2>2. CASE A2
    BY <1>a, <2>2 DEF RoleInv, RoleBase, RoleRest, RoleTyped, Control, Modes, Naming, Files,
           Reactivation, Agreed, Role!MayOpen, Cfg, Hub, Run, Op, Count
  <2>3. CASE A3
    BY <1>a, <2>3 DEF RoleInv, RoleBase, RoleRest, RoleTyped, Control, Modes, Naming, Files,
           Reactivation, Agreed, Role!MayOpen, Cfg, Hub, Run, Op, Count
  <2> QED
    BY <1>b, <2>1, <2>2, <2>3
<1> QED BY <1>1, <1>2, <1>3, <1>4 DEF RoleRest

LEMMA UndoPauseBase ==
  ASSUME RoleBase, NEW ok \in BOOLEAN, Role!UndoPause(ok)
  PROVE  RoleBase'
<1>1. RoleTyped'
  <2>1. cfg' \in Cfg
    BY DEF RoleBase, RoleTyped, Cfg, Control, Role!UndoPause, Role!Resumed
  <2>2. roleHub' \in Hub
    BY DEF RoleBase, RoleTyped, Hub, Control, Role!UndoPause, Role!Resumed
  <2>3. run' \in Run
    BY DEF RoleBase, RoleTyped, Run, Control, Role!UndoPause, Role!Resumed
  <2>4. op' \in Op
    BY DEF RoleBase, RoleTyped, Op, Control, Role!UndoPause, Role!Resumed
  <2>5. roleCount' \in Count
    BY AttemptFacts DEF RoleBase, RoleTyped, Role!UndoPause
  <2>6. member' \in {Role!None, "active", "paused"} /\ roleJournal' \in BOOLEAN
        /\ served' \in BOOLEAN /\ undone' \in BOOLEAN
    BY DEF RoleBase, RoleTyped, Role!UndoPause, Role!Resumed
  <2>7. QED
    BY <2>1, <2>2, <2>3, <2>4, <2>5, <2>6 DEF RoleTyped
<1>2. Control'
  BY DEF RoleBase, RoleTyped, Control, Cfg, Hub, Run, Op, Count, Role!UndoPause, Role!Resumed, Role!Attempt
<1>3. Modes'
  BY DEF RoleBase, RoleTyped, Control, Modes, Cfg, Hub, Run, Op, Count, Role!UndoPause, Role!Resumed,
         Role!Attempt
<1>4. Alone'
  BY DEF RoleBase, RoleTyped, Control, Modes, Alone, Cfg, Hub, Run, Op, Count, Role!UndoPause,
         Role!Resumed, Role!Attempt
<1>5. Unserved'
  BY DEF RoleBase, RoleTyped, Control, Unserved, Cfg, Hub, Run, Op, Count, Role!UndoPause, Role!Resumed,
         Role!Attempt
<1> QED BY <1>1, <1>2, <1>3, <1>4, <1>5 DEF RoleBase

LEMMA UndoPauseRest ==
  ASSUME OneFault, RoleInv, NEW ok \in BOOLEAN, Role!UndoPause(ok)
  PROVE  RoleRest'
<1>1. Naming'
  BY DEF RoleInv, RoleBase, RoleRest, RoleTyped, Control, Modes, Naming, Unsaved, Agreed, Cfg,
         Hub, Run, Op, Count, Role!UndoPause, Role!Resumed, Role!Attempt
<1>2. Unsaved'
  BY DEF RoleInv, RoleBase, RoleRest, RoleTyped, Control, Modes, Naming, Unsaved, Reactivation,
         Agreed, Cfg, Hub, Run, Op, Count, Role!UndoPause, Role!Resumed, Role!Attempt
<1>3. Files'
  BY DEF RoleInv, RoleBase, RoleRest, RoleTyped, Control, Modes, Unserved, Naming, Unsaved,
         Files, Reactivation, Agreed, Role!MayOpen, Role!Consumed, Cfg, Hub, Run, Op, Count, Role!UndoPause,
         Role!Resumed, Role!Attempt
<1>4. Reactivation'
  BY DEF RoleInv, RoleBase, RoleRest, RoleTyped, Control, Modes, Naming, Files, Reactivation,
         Agreed, Role!MayOpen, Cfg, Hub, Run, Op, Count, Role!UndoPause, Role!Resumed, Role!Attempt
<1> QED BY <1>1, <1>2, <1>3, <1>4 DEF RoleRest

LEMMA UndoneBase ==
  ASSUME RoleBase, Role!Undone
  PROVE  RoleBase'
<1>1. RoleTyped'
  BY DEF RoleBase, RoleTyped, Cfg, Hub, Run, Op, Count, Role!Undone, Role!End
<1>2. Control'
  BY DEF RoleBase, RoleTyped, Control, Cfg, Hub, Run, Op, Count, Role!Undone, Role!End
<1>3. Modes'
  BY DEF RoleBase, RoleTyped, Control, Modes, Cfg, Hub, Run, Op, Count, Role!Undone, Role!End
<1>4. Alone'
  BY DEF RoleBase, RoleTyped, Control, Modes, Alone, Cfg, Hub, Run, Op, Count, Role!Undone, Role!End
<1>5. Unserved'
  BY DEF RoleBase, RoleTyped, Control, Unserved, Cfg, Hub, Run, Op, Count, Role!Undone, Role!End
<1> QED BY <1>1, <1>2, <1>3, <1>4, <1>5 DEF RoleBase

LEMMA UndoneRest ==
  ASSUME OneFault, RoleInv, Role!Undone
  PROVE  RoleRest'
<1>1. Naming'
  BY DEF RoleInv, RoleBase, RoleRest, RoleTyped, Control, Modes, Naming, Unsaved, Agreed, Cfg,
         Hub, Run, Op, Count, Role!Undone, Role!End
<1>2. Unsaved'
  BY DEF RoleInv, RoleBase, RoleRest, RoleTyped, Control, Modes, Naming, Unsaved, Reactivation,
         Agreed, Cfg, Hub, Run, Op, Count, Role!Undone, Role!End
<1>3. Files'
  BY DEF RoleInv, RoleBase, RoleRest, RoleTyped, Control, Modes, Unserved, Naming, Unsaved,
         Files, Reactivation, Agreed, Role!MayOpen, Role!Consumed, Cfg, Hub, Run, Op, Count, Role!Undone, Role!End
<1>4. Reactivation'
  BY DEF RoleInv, RoleBase, RoleRest, RoleTyped, Control, Modes, Naming, Files, Reactivation,
         Agreed, Role!MayOpen, Cfg, Hub, Run, Op, Count, Role!Undone, Role!End
<1> QED BY <1>1, <1>2, <1>3, <1>4 DEF RoleRest

LEMMA RecoverStartBase ==
  ASSUME RoleBase, Role!RecoverStart
  PROVE  RoleBase'
<1>1. RoleTyped'
  <2>1. cfg' \in Cfg
    BY DEF RoleBase, RoleTyped, Cfg, Control, Role!RecoverStart
  <2>2. roleHub' \in Hub
    BY DEF RoleBase, RoleTyped, Hub, Control, Role!RecoverStart
  <2>3. run' \in Run
    BY DEF RoleBase, RoleTyped, Run, Control, Role!RecoverStart
  <2>4. op' \in Op
    <3>1. PICK p \in Steps : op' = [op EXCEPT !.adopted = TRUE, !.pc = p]
      BY DEF Role!RecoverStart
    <3> HIDE DEF Steps
    <3>2. QED
      BY <3>1 DEF RoleBase, RoleTyped, Op
  <2>5. roleCount' \in Count
    BY DEF RoleBase, RoleTyped, Count, Role!RecoverStart
  <2>6. member' \in {Role!None, "active", "paused"} /\ roleJournal' \in BOOLEAN
        /\ served' \in BOOLEAN /\ undone' \in BOOLEAN
    BY DEF RoleBase, RoleTyped, Role!RecoverStart
  <2>7. QED
    BY <2>1, <2>2, <2>3, <2>4, <2>5, <2>6 DEF RoleTyped
<1>2. Control'
  BY DEF RoleBase, RoleTyped, Control, Cfg, Hub, Run, Op, Count, Role!RecoverStart
<1>3. Modes'
  BY DEF RoleBase, RoleTyped, Control, Modes, Cfg, Hub, Run, Op, Count, Role!RecoverStart
<1>4. Alone'
  BY DEF RoleBase, RoleTyped, Control, Modes, Alone, Cfg, Hub, Run, Op, Count, Role!RecoverStart
<1>5. Unserved'
  BY DEF RoleBase, RoleTyped, Control, Unserved, Cfg, Hub, Run, Op, Count, Role!RecoverStart
<1> QED BY <1>1, <1>2, <1>3, <1>4, <1>5 DEF RoleBase

LEMMA RecoverStartRest ==
  ASSUME OneFault, RoleInv, Role!RecoverStart
  PROVE  RoleRest'
<1>1. Naming'
  BY DEF RoleInv, RoleBase, RoleRest, RoleTyped, Control, Modes, Naming, Unsaved, Agreed, Cfg,
         Hub, Run, Op, Count, Role!RecoverStart
<1>2. Unsaved'
  BY DEF RoleInv, RoleBase, RoleRest, RoleTyped, Control, Modes, Naming, Unsaved, Reactivation,
         Agreed, Cfg, Hub, Run, Op, Count, Role!RecoverStart
<1>3. Files'
  BY DEF RoleInv, RoleBase, RoleRest, RoleTyped, Control, Modes, Unserved, Naming, Unsaved,
         Files, Reactivation, Agreed, Role!MayOpen, Role!Consumed, Cfg, Hub, Run, Op, Count, Role!RecoverStart
<1>4. Reactivation'
  BY DEF RoleInv, RoleBase, RoleRest, RoleTyped, Control, Modes, Naming, Files, Reactivation,
         Agreed, Role!MayOpen, Cfg, Hub, Run, Op, Count, Role!RecoverStart
<1> QED BY <1>1, <1>2, <1>3, <1>4 DEF RoleRest

LEMMA RestoreBase ==
  ASSUME RoleBase, NEW ok \in BOOLEAN, Role!Restore(ok)
  PROVE  RoleBase'
<1>1. RoleTyped'
  <2>1. cfg' \in Cfg
    BY DEF RoleBase, RoleTyped, Cfg, Control, Role!Restore
  <2>2. roleHub' \in Hub
    BY DEF RoleBase, RoleTyped, Hub, Control, Role!Restore
  <2>3. run' \in Run
    BY DEF RoleBase, RoleTyped, Run, Control, Role!Restore
  <2>4. op' \in Op
    BY DEF RoleBase, RoleTyped, Op, Control, Role!Restore
  <2>5. roleCount' \in Count
    BY AttemptFacts DEF RoleBase, RoleTyped, Role!Restore
  <2>6. member' \in {Role!None, "active", "paused"} /\ roleJournal' \in BOOLEAN
        /\ served' \in BOOLEAN /\ undone' \in BOOLEAN
    BY DEF RoleBase, RoleTyped, Role!Restore
  <2>7. QED
    BY <2>1, <2>2, <2>3, <2>4, <2>5, <2>6 DEF RoleTyped
<1>2. Control'
  BY DEF RoleBase, RoleTyped, Control, Cfg, Hub, Run, Op, Count, Role!Restore, Role!Attempt
<1>3. Modes'
  BY DEF RoleBase, RoleTyped, Control, Modes, Cfg, Hub, Run, Op, Count, Role!Restore, Role!Attempt
<1>4. Alone'
  BY DEF RoleBase, RoleTyped, Control, Modes, Alone, Cfg, Hub, Run, Op, Count, Role!Restore, Role!Attempt
<1>5. Unserved'
  BY DEF RoleBase, RoleTyped, Control, Unserved, Cfg, Hub, Run, Op, Count, Role!Restore, Role!Attempt
<1> QED BY <1>1, <1>2, <1>3, <1>4, <1>5 DEF RoleBase

LEMMA RestoreRest ==
  ASSUME OneFault, RoleInv, NEW ok \in BOOLEAN, Role!Restore(ok)
  PROVE  RoleRest'
<1>1. Naming'
  BY DEF RoleInv, RoleBase, RoleRest, RoleTyped, Control, Modes, Naming, Unsaved, Agreed, Cfg,
         Hub, Run, Op, Count, Role!Restore, Role!Attempt
<1>2. Unsaved'
  BY DEF RoleInv, RoleBase, RoleRest, RoleTyped, Control, Modes, Naming, Unsaved, Reactivation,
         Agreed, Cfg, Hub, Run, Op, Count, Role!Restore, Role!Attempt
<1>3. Files'
  BY DEF RoleInv, RoleBase, RoleRest, RoleTyped, Control, Modes, Unserved, Naming, Unsaved,
         Files, Reactivation, Agreed, Role!MayOpen, Role!Consumed, Cfg, Hub, Run, Op, Count, Role!Restore,
         Role!Attempt
<1>4. Reactivation'
  BY DEF RoleInv, RoleBase, RoleRest, RoleTyped, Control, Modes, Naming, Files, Reactivation,
         Agreed, Role!MayOpen, Cfg, Hub, Run, Op, Count, Role!Restore, Role!Attempt
<1> QED BY <1>1, <1>2, <1>3, <1>4 DEF RoleRest

LEMMA AcknowledgeBase ==
  ASSUME RoleBase, NEW ok \in BOOLEAN, Role!Acknowledge(ok)
  PROVE  RoleBase'
<1> DEFINE A1 == roleHub' = [roleHub EXCEPT !.receipt = Role!None] /\ op' = [op EXCEPT !.pc = "rolled"]
                 /\ roleCount' \in Count
           A2 == roleHub' = [roleHub EXCEPT !.receipt = Role!None] /\ op' = [op EXCEPT !.pc = "stuck"]
                 /\ roleCount' \in Count
           A3 == roleHub' = [roleHub EXCEPT !.receipt = roleHub.receipt] /\ op' = [op EXCEPT !.pc = "stuck"]
                 /\ roleCount' \in Count
<1>a. op.pc = "acknowledge" /\ run.up /\ cfg' = cfg /\ member' = member /\ roleJournal' = roleJournal
      /\ run' = run /\ served' = served /\ undone' = undone
  BY DEF RoleBase, Control, Role!Acknowledge, Hub
<1>b. A1 \/ A2 \/ A3
  BY AttemptFacts DEF RoleBase, RoleTyped, Control, Role!Acknowledge, Role!Either, Hub
<1>1. RoleTyped'
  <2>a. cfg' \in Cfg /\ run' \in Run /\ member' \in {Role!None, "active", "paused"}
        /\ roleJournal' \in BOOLEAN /\ served' \in BOOLEAN /\ undone' \in BOOLEAN
    BY <1>a DEF RoleBase, RoleTyped
  <2>1. CASE A1
    <3>1. roleHub' \in Hub
      BY <1>a, <2>1 DEF RoleBase, RoleTyped, Control, Hub
    <3>2. op' \in Op
      BY <1>a, <2>1, NameFacts DEF RoleBase, RoleTyped, Control, Op
    <3>3. roleCount' \in Count
      BY <1>a, <2>1 DEF RoleBase, RoleTyped, Control
    <3>4. QED
      BY <2>a, <3>1, <3>2, <3>3 DEF RoleTyped
  <2>2. CASE A2
    <3>1. roleHub' \in Hub
      BY <1>a, <2>2 DEF RoleBase, RoleTyped, Control, Hub
    <3>2. op' \in Op
      BY <1>a, <2>2, NameFacts DEF RoleBase, RoleTyped, Control, Op
    <3>3. roleCount' \in Count
      BY <1>a, <2>2 DEF RoleBase, RoleTyped, Control
    <3>4. QED
      BY <2>a, <3>1, <3>2, <3>3 DEF RoleTyped
  <2>3. CASE A3
    <3>1. roleHub' \in Hub
      BY <1>a, <2>3 DEF RoleBase, RoleTyped, Control, Hub
    <3>2. op' \in Op
      BY <1>a, <2>3, NameFacts DEF RoleBase, RoleTyped, Control, Op
    <3>3. roleCount' \in Count
      BY <1>a, <2>3 DEF RoleBase, RoleTyped, Control
    <3>4. QED
      BY <2>a, <3>1, <3>2, <3>3 DEF RoleTyped
  <2> QED
    BY <1>b, <2>1, <2>2, <2>3
<1>2. Control'
  <2>1. CASE A1
    BY <1>a, <2>1 DEF RoleBase, RoleTyped, Control, Cfg, Hub, Run, Op, Count
  <2>2. CASE A2
    BY <1>a, <2>2 DEF RoleBase, RoleTyped, Control, Cfg, Hub, Run, Op, Count
  <2>3. CASE A3
    BY <1>a, <2>3 DEF RoleBase, RoleTyped, Control, Cfg, Hub, Run, Op, Count
  <2> QED
    BY <1>b, <2>1, <2>2, <2>3
<1>3. Modes'
  <2>1. CASE A1
    BY <1>a, <2>1 DEF RoleBase, RoleTyped, Control, Modes, Cfg, Hub, Run, Op, Count
  <2>2. CASE A2
    BY <1>a, <2>2 DEF RoleBase, RoleTyped, Control, Modes, Cfg, Hub, Run, Op, Count
  <2>3. CASE A3
    BY <1>a, <2>3 DEF RoleBase, RoleTyped, Control, Modes, Cfg, Hub, Run, Op, Count
  <2> QED
    BY <1>b, <2>1, <2>2, <2>3
<1>4. Alone'
  <2>1. CASE A1
    BY <1>a, <2>1 DEF RoleBase, RoleTyped, Control, Modes, Alone, Cfg, Hub, Run, Op, Count
  <2>2. CASE A2
    BY <1>a, <2>2 DEF RoleBase, RoleTyped, Control, Modes, Alone, Cfg, Hub, Run, Op, Count
  <2>3. CASE A3
    BY <1>a, <2>3 DEF RoleBase, RoleTyped, Control, Modes, Alone, Cfg, Hub, Run, Op, Count
  <2> QED
    BY <1>b, <2>1, <2>2, <2>3
<1>5. Unserved'
  <2>1. CASE A1
    BY <1>a, <2>1 DEF RoleBase, RoleTyped, Control, Unserved, Cfg, Hub, Run, Op, Count
  <2>2. CASE A2
    BY <1>a, <2>2 DEF RoleBase, RoleTyped, Control, Unserved, Cfg, Hub, Run, Op, Count
  <2>3. CASE A3
    BY <1>a, <2>3 DEF RoleBase, RoleTyped, Control, Unserved, Cfg, Hub, Run, Op, Count
  <2> QED
    BY <1>b, <2>1, <2>2, <2>3
<1> QED BY <1>1, <1>2, <1>3, <1>4, <1>5 DEF RoleBase

LEMMA AcknowledgeRest ==
  ASSUME OneFault, RoleInv, NEW ok \in BOOLEAN, Role!Acknowledge(ok)
  PROVE  RoleRest'
<1> DEFINE A1 == roleHub' = [roleHub EXCEPT !.receipt = Role!None] /\ op' = [op EXCEPT !.pc = "rolled"]
                 /\ roleCount' \in Count
           A2 == roleHub' = [roleHub EXCEPT !.receipt = Role!None] /\ op' = [op EXCEPT !.pc = "stuck"]
                 /\ roleCount' \in Count
           A3 == roleHub' = [roleHub EXCEPT !.receipt = roleHub.receipt] /\ op' = [op EXCEPT !.pc = "stuck"]
                 /\ roleCount' \in Count
<1>a. op.pc = "acknowledge" /\ run.up /\ cfg' = cfg /\ member' = member /\ roleJournal' = roleJournal
      /\ run' = run /\ served' = served /\ undone' = undone
  BY DEF RoleInv, RoleBase, RoleRest, Control, Role!Acknowledge, Hub
<1>b. A1 \/ A2 \/ A3
  BY AttemptFacts DEF RoleInv, RoleBase, RoleRest, RoleTyped, Control, Role!Acknowledge, Role!Either, Hub
<1>1. Naming'
  <2>1. CASE A1
    BY <1>a, <2>1 DEF RoleInv, RoleBase, RoleRest, RoleTyped, Control, Modes, Naming, Unsaved,
           Agreed, Cfg, Hub, Run, Op, Count
  <2>2. CASE A2
    BY <1>a, <2>2 DEF RoleInv, RoleBase, RoleRest, RoleTyped, Control, Modes, Naming, Unsaved,
           Agreed, Cfg, Hub, Run, Op, Count
  <2>3. CASE A3
    BY <1>a, <2>3 DEF RoleInv, RoleBase, RoleRest, RoleTyped, Control, Modes, Naming, Unsaved,
           Agreed, Cfg, Hub, Run, Op, Count
  <2> QED
    BY <1>b, <2>1, <2>2, <2>3
<1>2. Unsaved'
  <2>1. CASE A1
    BY <1>a, <2>1 DEF RoleInv, RoleBase, RoleRest, RoleTyped, Control, Modes, Naming, Unsaved,
           Reactivation, Agreed, Cfg, Hub, Run, Op, Count
  <2>2. CASE A2
    BY <1>a, <2>2 DEF RoleInv, RoleBase, RoleRest, RoleTyped, Control, Modes, Naming, Unsaved,
           Reactivation, Agreed, Cfg, Hub, Run, Op, Count
  <2>3. CASE A3
    BY <1>a, <2>3 DEF RoleInv, RoleBase, RoleRest, RoleTyped, Control, Modes, Naming, Unsaved,
           Reactivation, Agreed, Cfg, Hub, Run, Op, Count
  <2> QED
    BY <1>b, <2>1, <2>2, <2>3
<1>3. Files'
  <2>1. CASE A1
    BY <1>a, <2>1 DEF RoleInv, RoleBase, RoleRest, RoleTyped, Control, Modes, Unserved, Naming,
           Unsaved, Files, Reactivation, Agreed, Role!MayOpen, Role!Consumed, Cfg, Hub, Run, Op, Count
  <2>2. CASE A2
    BY <1>a, <2>2 DEF RoleInv, RoleBase, RoleRest, RoleTyped, Control, Modes, Unserved, Naming,
           Unsaved, Files, Reactivation, Agreed, Role!MayOpen, Role!Consumed, Cfg, Hub, Run, Op, Count
  <2>3. CASE A3
    BY <1>a, <2>3 DEF RoleInv, RoleBase, RoleRest, RoleTyped, Control, Modes, Unserved, Naming,
           Unsaved, Files, Reactivation, Agreed, Role!MayOpen, Role!Consumed, Cfg, Hub, Run, Op, Count
  <2> QED
    BY <1>b, <2>1, <2>2, <2>3
<1>4. Reactivation'
  <2>1. CASE A1
    BY <1>a, <2>1 DEF RoleInv, RoleBase, RoleRest, RoleTyped, Control, Modes, Naming, Files,
           Reactivation, Agreed, Role!MayOpen, Cfg, Hub, Run, Op, Count
  <2>2. CASE A2
    BY <1>a, <2>2 DEF RoleInv, RoleBase, RoleRest, RoleTyped, Control, Modes, Naming, Files,
           Reactivation, Agreed, Role!MayOpen, Cfg, Hub, Run, Op, Count
  <2>3. CASE A3
    BY <1>a, <2>3 DEF RoleInv, RoleBase, RoleRest, RoleTyped, Control, Modes, Naming, Files,
           Reactivation, Agreed, Role!MayOpen, Cfg, Hub, Run, Op, Count
  <2> QED
    BY <1>b, <2>1, <2>2, <2>3
<1> QED BY <1>1, <1>2, <1>3, <1>4 DEF RoleRest

LEMMA AbortBase ==
  ASSUME RoleBase, NEW ok \in BOOLEAN, Role!Abort(ok)
  PROVE  RoleBase'
<1>1. RoleTyped'
  <2>1. cfg' \in Cfg
    BY DEF RoleBase, RoleTyped, Cfg, Control, Role!Abort
  <2>2. roleHub' \in Hub
    BY DEF RoleBase, RoleTyped, Hub, Control, Role!Abort
  <2>3. run' \in Run
    BY DEF RoleBase, RoleTyped, Run, Control, Role!Abort
  <2>4. op' \in Op
    BY DEF RoleBase, RoleTyped, Op, Control, Role!Abort
  <2>5. roleCount' \in Count
    BY AttemptFacts DEF RoleBase, RoleTyped, Role!Abort
  <2>6. member' \in {Role!None, "active", "paused"} /\ roleJournal' \in BOOLEAN
        /\ served' \in BOOLEAN /\ undone' \in BOOLEAN
    BY DEF RoleBase, RoleTyped, Role!Abort
  <2>7. QED
    BY <2>1, <2>2, <2>3, <2>4, <2>5, <2>6 DEF RoleTyped
<1>2. Control'
  BY DEF RoleBase, RoleTyped, Control, Cfg, Hub, Run, Op, Count, Role!Abort, Role!Attempt
<1>3. Modes'
  BY DEF RoleBase, RoleTyped, Control, Modes, Cfg, Hub, Run, Op, Count, Role!Abort, Role!Attempt
<1>4. Alone'
  BY DEF RoleBase, RoleTyped, Control, Modes, Alone, Cfg, Hub, Run, Op, Count, Role!Abort, Role!Attempt
<1>5. Unserved'
  BY DEF RoleBase, RoleTyped, Control, Unserved, Cfg, Hub, Run, Op, Count, Role!Abort, Role!Attempt
<1> QED BY <1>1, <1>2, <1>3, <1>4, <1>5 DEF RoleBase

LEMMA AbortRest ==
  ASSUME OneFault, RoleInv, NEW ok \in BOOLEAN, Role!Abort(ok)
  PROVE  RoleRest'
<1>1. Naming'
  BY DEF RoleInv, RoleBase, RoleRest, RoleTyped, Control, Modes, Naming, Unsaved, Agreed, Cfg,
         Hub, Run, Op, Count, Role!Abort, Role!Attempt
<1>2. Unsaved'
  BY DEF RoleInv, RoleBase, RoleRest, RoleTyped, Control, Modes, Naming, Unsaved, Reactivation,
         Agreed, Cfg, Hub, Run, Op, Count, Role!Abort, Role!Attempt
<1>3. Files'
  BY DEF RoleInv, RoleBase, RoleRest, RoleTyped, Control, Modes, Unserved, Naming, Unsaved,
         Files, Reactivation, Agreed, Role!MayOpen, Role!Consumed, Cfg, Hub, Run, Op, Count, Role!Abort,
         Role!Attempt
<1>4. Reactivation'
  BY DEF RoleInv, RoleBase, RoleRest, RoleTyped, Control, Modes, Naming, Files, Reactivation,
         Agreed, Role!MayOpen, Cfg, Hub, Run, Op, Count, Role!Abort, Role!Attempt
<1> QED BY <1>1, <1>2, <1>3, <1>4 DEF RoleRest

LEMMA NothingLeftBase ==
  ASSUME RoleBase, Role!NothingLeft
  PROVE  RoleBase'
<1>1. RoleTyped'
  BY DEF RoleBase, RoleTyped, Cfg, Hub, Run, Op, Count, Role!NothingLeft
<1>2. Control'
  BY DEF RoleBase, RoleTyped, Control, Cfg, Hub, Run, Op, Count, Role!NothingLeft
<1>3. Modes'
  BY DEF RoleBase, RoleTyped, Control, Modes, Cfg, Hub, Run, Op, Count, Role!NothingLeft
<1>4. Alone'
  BY DEF RoleBase, RoleTyped, Control, Modes, Alone, Cfg, Hub, Run, Op, Count, Role!NothingLeft
<1>5. Unserved'
  BY DEF RoleBase, RoleTyped, Control, Unserved, Cfg, Hub, Run, Op, Count, Role!NothingLeft
<1> QED BY <1>1, <1>2, <1>3, <1>4, <1>5 DEF RoleBase

LEMMA NothingLeftRest ==
  ASSUME OneFault, RoleInv, Role!NothingLeft
  PROVE  RoleRest'
<1>1. Naming'
  BY DEF RoleInv, RoleBase, RoleRest, RoleTyped, Control, Modes, Naming, Unsaved, Agreed, Cfg,
         Hub, Run, Op, Count, Role!NothingLeft
<1>2. Unsaved'
  BY DEF RoleInv, RoleBase, RoleRest, RoleTyped, Control, Modes, Naming, Unsaved, Reactivation,
         Agreed, Cfg, Hub, Run, Op, Count, Role!NothingLeft
<1>3. Files'
  BY DEF RoleInv, RoleBase, RoleRest, RoleTyped, Control, Modes, Unserved, Naming, Unsaved,
         Files, Reactivation, Agreed, Role!MayOpen, Role!Consumed, Cfg, Hub, Run, Op, Count, Role!NothingLeft
<1>4. Reactivation'
  BY DEF RoleInv, RoleBase, RoleRest, RoleTyped, Control, Modes, Naming, Files, Reactivation,
         Agreed, Role!MayOpen, Role!Consumed, Cfg, Hub, Run, Op, Count, Role!NothingLeft
<1> QED BY <1>1, <1>2, <1>3, <1>4 DEF RoleRest

LEMMA RolledBase ==
  ASSUME RoleBase, Role!Rolled
  PROVE  RoleBase'
<1>1. RoleTyped'
  <2>1. cfg' \in Cfg
    BY DEF RoleBase, RoleTyped, Cfg, Control, Role!Rolled, Role!Continue
  <2>2. roleHub' \in Hub
    BY DEF RoleBase, RoleTyped, Hub, Control, Role!Rolled, Role!Continue
  <2>3. run' \in Run
    BY DEF RoleBase, RoleTyped, Run, Control, Role!Rolled, Role!Continue
  <2>4. op' \in Op
    <3>1. CASE op' = Role!Idle
      BY <3>1 DEF Op
    <3>2. CASE op' = [Role!Idle EXCEPT !.k = op.k, !.n = op.n, !.was = op.was, !.pc = "decide"]
      <4>1. op.k \in {Role!None, "enable", "disable", "rename", "remain", "start"}
        BY DEF RoleBase, RoleTyped, Op
      <4>2. op.n \in TeamNames \cup {Role!None} /\ op.was \in TeamNames \cup {Role!None}
        BY NameFacts DEF RoleBase
      <4>3. QED
        BY <3>2, <4>1, <4>2 DEF Op
    <3>3. QED
      BY <3>1, <3>2 DEF Role!Rolled, Role!Continue
  <2>5. roleCount' \in Count
    BY DEF RoleBase, RoleTyped, Count, Role!Rolled, Role!Continue
  <2>6. member' \in {Role!None, "active", "paused"} /\ roleJournal' \in BOOLEAN
        /\ served' \in BOOLEAN /\ undone' \in BOOLEAN
    BY DEF RoleBase, RoleTyped, Role!Rolled, Role!Continue
  <2>7. QED
    BY <2>1, <2>2, <2>3, <2>4, <2>5, <2>6 DEF RoleTyped
<1>2. Control'
  BY DEF RoleBase, RoleTyped, Control, Cfg, Hub, Run, Op, Count, Role!Rolled, Role!Continue
<1>3. Modes'
  BY DEF RoleBase, RoleTyped, Control, Modes, Cfg, Hub, Run, Op, Count, Role!Rolled, Role!Continue
<1>4. Alone'
  BY DEF RoleBase, RoleTyped, Control, Modes, Alone, Cfg, Hub, Run, Op, Count, Role!Rolled, Role!Continue
<1>5. Unserved'
  BY DEF RoleBase, RoleTyped, Control, Unserved, Cfg, Hub, Run, Op, Count, Role!Rolled, Role!Continue
<1> QED BY <1>1, <1>2, <1>3, <1>4, <1>5 DEF RoleBase

LEMMA RolledRest ==
  ASSUME OneFault, RoleInv, Role!Rolled
  PROVE  RoleRest'
<1>1. Naming'
  BY DEF RoleInv, RoleBase, RoleRest, RoleTyped, Control, Modes, Naming, Unsaved, Agreed, Cfg,
         Hub, Run, Op, Count, Role!Rolled, Role!Continue
<1>2. Unsaved'
  BY DEF RoleInv, RoleBase, RoleRest, RoleTyped, Control, Modes, Naming, Unsaved, Reactivation,
         Agreed, Cfg, Hub, Run, Op, Count, Role!Rolled, Role!Continue
<1>3. Files'
  BY DEF RoleInv, RoleBase, RoleRest, RoleTyped, Control, Modes, Unserved, Naming, Unsaved,
         Files, Reactivation, Agreed, Role!MayOpen, Role!Consumed, Cfg, Hub, Run, Op, Count, Role!Rolled,
         Role!Continue
<1>4. Reactivation'
  BY DEF RoleInv, RoleBase, RoleRest, RoleTyped, Control, Modes, Naming, Files, Reactivation,
         Agreed, Role!MayOpen, Cfg, Hub, Run, Op, Count, Role!Rolled, Role!Continue
<1> QED BY <1>1, <1>2, <1>3, <1>4 DEF RoleRest

LEMMA StuckBase ==
  ASSUME RoleBase, Role!Stuck
  PROVE  RoleBase'
<1>1. RoleTyped'
  BY DEF RoleBase, RoleTyped, Cfg, Hub, Run, Op, Count, Role!Stuck
<1>2. Control'
  BY DEF RoleBase, RoleTyped, Control, Cfg, Hub, Run, Op, Count, Role!Stuck
<1>3. Modes'
  BY DEF RoleBase, RoleTyped, Control, Modes, Cfg, Hub, Run, Op, Count, Role!Stuck
<1>4. Alone'
  BY DEF RoleBase, RoleTyped, Control, Modes, Alone, Cfg, Hub, Run, Op, Count, Role!Stuck
<1>5. Unserved'
  BY DEF RoleBase, RoleTyped, Control, Unserved, Cfg, Hub, Run, Op, Count, Role!Stuck
<1> QED BY <1>1, <1>2, <1>3, <1>4, <1>5 DEF RoleBase

LEMMA StuckRest ==
  ASSUME OneFault, RoleInv, Role!Stuck
  PROVE  RoleRest'
<1>1. Naming'
  BY DEF RoleInv, RoleBase, RoleRest, RoleTyped, Control, Modes, Naming, Unsaved, Agreed, Cfg,
         Hub, Run, Op, Count, Role!Stuck
<1>2. Unsaved'
  BY DEF RoleInv, RoleBase, RoleRest, RoleTyped, Control, Modes, Naming, Unsaved, Reactivation,
         Agreed, Cfg, Hub, Run, Op, Count, Role!Stuck
<1>3. Files'
  BY DEF RoleInv, RoleBase, RoleRest, RoleTyped, Control, Modes, Unserved, Naming, Unsaved,
         Files, Reactivation, Agreed, Role!MayOpen, Role!Consumed, Cfg, Hub, Run, Op, Count, Role!Stuck
<1>4. Reactivation'
  BY DEF RoleInv, RoleBase, RoleRest, RoleTyped, Control, Modes, Naming, Files, Reactivation,
         Agreed, Role!MayOpen, Cfg, Hub, Run, Op, Count, Role!Stuck
<1> QED BY <1>1, <1>2, <1>3, <1>4 DEF RoleRest

LEMMA SettleHostBase ==
  ASSUME RoleBase, NEW ok \in BOOLEAN, NEW also \in BOOLEAN, Role!SettleHost(ok, also)
  PROVE  RoleBase'
<1> DEFINE A1 == run.accepting /\ roleHub' = [roleHub EXCEPT !.fence = Role!None, !.auth = FALSE]
                 /\ run' = [run EXCEPT !.attached = run.attached \/ also, !.fenced = run.fenced /\ ~also]
                 /\ roleJournal' = FALSE /\ op' = Role!Idle /\ roleCount' \in Count
           A2 == run.accepting /\ op.k # "start" /\ ~op.react
                 /\ roleHub' = [roleHub EXCEPT !.fence = Role!None, !.auth = FALSE]
                 /\ run' = [run EXCEPT !.attached = run.attached \/ also, !.fenced = run.fenced /\ ~also]
                 /\ roleJournal' = FALSE
                 /\ op' = [Role!Idle EXCEPT !.k = op.k, !.n = op.n, !.was = op.was, !.pc = "decide"]
                 /\ roleCount' \in Count
           A3 == roleHub' = roleHub /\ run' = run /\ roleJournal' = roleJournal
                 /\ op' = [op EXCEPT !.pc = "stuck"] /\ roleCount' \in Count
           A4 == roleHub' = [roleHub EXCEPT !.fence = Role!None] /\ run' = run /\ roleJournal' = roleJournal
                 /\ op' = [op EXCEPT !.pc = "stuck"] /\ roleCount' \in Count
<1>a. op.pc = "settle" /\ run.up /\ cfg' = cfg /\ member' = member /\ served' = served
      /\ undone' = undone
  BY DEF RoleBase, Control, Role!SettleHost
<1>b. A1 \/ A2 \/ A3 \/ A4
  <2>1. CASE ok /\ run.accepting
    <3>1. Role!Attempt(ok) /\ roleHub' = [roleHub EXCEPT !.fence = Role!None, !.auth = FALSE]
          /\ run' = [run EXCEPT !.attached = run.attached \/ also, !.fenced = run.fenced /\ ~also]
          /\ roleJournal' = FALSE /\ Role!Continue
      BY <2>1 DEF Role!SettleHost
    <3>2. QED
      BY <2>1, <3>1, AttemptFacts DEF RoleBase, Role!Continue
  <2>2. CASE ~(ok /\ run.accepting)
    <3>1. PICK f \in {roleHub.fence, Role!None} : roleHub' = [roleHub EXCEPT !.fence = f]
      BY <2>2 DEF Role!SettleHost
    <3>2. Role!Attempt(ok) /\ run' = run /\ roleJournal' = roleJournal /\ op' = [op EXCEPT !.pc = "stuck"]
      BY <2>2 DEF Role!SettleHost
    <3>3. roleCount' \in Count
      BY <3>2, AttemptFacts DEF RoleBase
    <3>4. roleHub' = roleHub \/ roleHub' = [roleHub EXCEPT !.fence = Role!None]
      BY <3>1 DEF RoleBase, RoleTyped, Hub
    <3>5. QED
      BY <3>2, <3>3, <3>4
  <2> QED
    BY <2>1, <2>2
<1>1. RoleTyped'
  <2>a. cfg' \in Cfg /\ member' \in {Role!None, "active", "paused"} /\ served' \in BOOLEAN
        /\ undone' \in BOOLEAN
    BY <1>a DEF RoleBase, RoleTyped
  <2>1. CASE A1
    <3>1. roleHub' \in Hub
      BY <1>a, <2>1 DEF RoleBase, RoleTyped, Control, Hub
    <3>2. run' \in Run
      BY <1>a, <2>1, NameFacts DEF RoleBase, RoleTyped, Control, Run
    <3>3. op' \in Op
      BY <1>a, <2>1, NameFacts DEF RoleBase, RoleTyped, Control, Op
    <3>4. roleCount' \in Count /\ roleJournal' \in BOOLEAN
      BY <1>a, <2>1 DEF RoleBase, RoleTyped, Control
    <3>5. QED
      BY <2>a, <3>1, <3>2, <3>3, <3>4 DEF RoleTyped
  <2>2. CASE A2
    <3>1. roleHub' \in Hub
      BY <1>a, <2>2 DEF RoleBase, RoleTyped, Control, Hub
    <3>2. run' \in Run
      BY <1>a, <2>2, NameFacts DEF RoleBase, RoleTyped, Control, Run
    <3>3. op' \in Op
      BY <1>a, <2>2, NameFacts DEF RoleBase, RoleTyped, Control, Op
    <3>4. roleCount' \in Count /\ roleJournal' \in BOOLEAN
      BY <1>a, <2>2 DEF RoleBase, RoleTyped, Control
    <3>5. QED
      BY <2>a, <3>1, <3>2, <3>3, <3>4 DEF RoleTyped
  <2>3. CASE A3
    <3>1. op' \in Op
      BY <1>a, <2>3, NameFacts DEF RoleBase, RoleTyped, Control, Op
    <3>2. roleHub' \in Hub /\ run' \in Run /\ roleCount' \in Count /\ roleJournal' \in BOOLEAN
      BY <1>a, <2>3 DEF RoleBase, RoleTyped, Control
    <3>3. QED
      BY <2>a, <3>1, <3>2 DEF RoleTyped
  <2>4. CASE A4
    <3>1. op' \in Op
      BY <1>a, <2>4, NameFacts DEF RoleBase, RoleTyped, Control, Op
    <3>2. roleHub' \in Hub
      BY <1>a, <2>4 DEF RoleBase, RoleTyped, Hub
    <3>4. run' \in Run /\ roleCount' \in Count /\ roleJournal' \in BOOLEAN
      BY <1>a, <2>4 DEF RoleBase, RoleTyped, Control
    <3>3. QED
      BY <2>a, <3>1, <3>2, <3>4 DEF RoleTyped
  <2> QED
    BY <1>b, <2>1, <2>2, <2>3, <2>4
<1>2. Control'
  <2>1. CASE A1
    BY <1>a, <2>1 DEF RoleBase, RoleTyped, Control, Cfg, Hub, Run, Op, Count
  <2>2. CASE A2
    BY <1>a, <2>2 DEF RoleBase, RoleTyped, Control, Cfg, Hub, Run, Op, Count
  <2>3. CASE A3
    BY <1>a, <2>3 DEF RoleBase, RoleTyped, Control, Cfg, Hub, Run, Op, Count
  <2>4. CASE A4
    BY <1>a, <2>4 DEF RoleBase, RoleTyped, Control, Cfg, Hub, Run, Op, Count
  <2> QED
    BY <1>b, <2>1, <2>2, <2>3, <2>4
<1>3. Modes'
  <2>1. CASE A1
    BY <1>a, <2>1 DEF RoleBase, RoleTyped, Control, Modes, Cfg, Hub, Run, Op, Count
  <2>2. CASE A2
    BY <1>a, <2>2 DEF RoleBase, RoleTyped, Control, Modes, Cfg, Hub, Run, Op, Count
  <2>3. CASE A3
    BY <1>a, <2>3 DEF RoleBase, RoleTyped, Control, Modes, Cfg, Hub, Run, Op, Count
  <2>4. CASE A4
    BY <1>a, <2>4 DEF RoleBase, RoleTyped, Control, Modes, Cfg, Hub, Run, Op, Count
  <2> QED
    BY <1>b, <2>1, <2>2, <2>3, <2>4
<1>4. Alone'
  <2>1. CASE A1
    BY <1>a, <2>1 DEF RoleBase, RoleTyped, Control, Modes, Alone, Cfg, Hub, Run, Op, Count
  <2>2. CASE A2
    BY <1>a, <2>2 DEF RoleBase, RoleTyped, Control, Modes, Alone, Cfg, Hub, Run, Op, Count
  <2>3. CASE A3
    BY <1>a, <2>3 DEF RoleBase, RoleTyped, Control, Modes, Alone, Cfg, Hub, Run, Op, Count
  <2>4. CASE A4
    BY <1>a, <2>4 DEF RoleBase, RoleTyped, Control, Modes, Alone, Cfg, Hub, Run, Op, Count
  <2> QED
    BY <1>b, <2>1, <2>2, <2>3, <2>4
<1>5. Unserved'
  <2>1. CASE A1
    BY <1>a, <2>1 DEF RoleBase, RoleTyped, Control, Unserved, Cfg, Hub, Run, Op, Count
  <2>2. CASE A2
    BY <1>a, <2>2 DEF RoleBase, RoleTyped, Control, Unserved, Cfg, Hub, Run, Op, Count
  <2>3. CASE A3
    BY <1>a, <2>3 DEF RoleBase, RoleTyped, Control, Unserved, Cfg, Hub, Run, Op, Count
  <2>4. CASE A4
    BY <1>a, <2>4 DEF RoleBase, RoleTyped, Control, Unserved, Cfg, Hub, Run, Op, Count
  <2> QED
    BY <1>b, <2>1, <2>2, <2>3, <2>4
<1> QED BY <1>1, <1>2, <1>3, <1>4, <1>5 DEF RoleBase

LEMMA SettleHostRest ==
  ASSUME OneFault, RoleInv, NEW ok \in BOOLEAN, NEW also \in BOOLEAN, Role!SettleHost(ok, also)
  PROVE  RoleRest'
<1> DEFINE A1 == run.accepting /\ roleHub' = [roleHub EXCEPT !.fence = Role!None, !.auth = FALSE]
                 /\ run' = [run EXCEPT !.attached = run.attached \/ also, !.fenced = run.fenced /\ ~also]
                 /\ roleJournal' = FALSE /\ op' = Role!Idle /\ roleCount' \in Count
           A2 == run.accepting /\ op.k # "start" /\ ~op.react
                 /\ roleHub' = [roleHub EXCEPT !.fence = Role!None, !.auth = FALSE]
                 /\ run' = [run EXCEPT !.attached = run.attached \/ also, !.fenced = run.fenced /\ ~also]
                 /\ roleJournal' = FALSE
                 /\ op' = [Role!Idle EXCEPT !.k = op.k, !.n = op.n, !.was = op.was, !.pc = "decide"]
                 /\ roleCount' \in Count
           A3 == roleHub' = roleHub /\ run' = run /\ roleJournal' = roleJournal
                 /\ op' = [op EXCEPT !.pc = "stuck"] /\ roleCount' \in Count
           A4 == roleHub' = [roleHub EXCEPT !.fence = Role!None] /\ run' = run /\ roleJournal' = roleJournal
                 /\ op' = [op EXCEPT !.pc = "stuck"] /\ roleCount' \in Count
<1>a. op.pc = "settle" /\ run.up /\ cfg' = cfg /\ member' = member /\ served' = served
      /\ undone' = undone
  BY DEF RoleInv, RoleBase, RoleRest, Control, Role!SettleHost
<1>b. A1 \/ A2 \/ A3 \/ A4
  <2>1. CASE ok /\ run.accepting
    <3>1. Role!Attempt(ok) /\ roleHub' = [roleHub EXCEPT !.fence = Role!None, !.auth = FALSE]
          /\ run' = [run EXCEPT !.attached = run.attached \/ also, !.fenced = run.fenced /\ ~also]
          /\ roleJournal' = FALSE /\ Role!Continue
      BY <2>1 DEF Role!SettleHost
    <3>2. QED
      BY <2>1, <3>1, AttemptFacts DEF RoleInv, RoleBase, Role!Continue
  <2>2. CASE ~(ok /\ run.accepting)
    <3>1. PICK f \in {roleHub.fence, Role!None} : roleHub' = [roleHub EXCEPT !.fence = f]
      BY <2>2 DEF Role!SettleHost
    <3>2. Role!Attempt(ok) /\ run' = run /\ roleJournal' = roleJournal /\ op' = [op EXCEPT !.pc = "stuck"]
      BY <2>2 DEF Role!SettleHost
    <3>3. roleCount' \in Count
      BY <3>2, AttemptFacts DEF RoleInv, RoleBase
    <3>4. roleHub' = roleHub \/ roleHub' = [roleHub EXCEPT !.fence = Role!None]
      BY <3>1 DEF RoleInv, RoleBase, RoleTyped, Hub
    <3>5. QED
      BY <3>2, <3>3, <3>4
  <2> QED
    BY <2>1, <2>2
<1>1. Naming'
  <2>1. CASE A1
    BY <1>a, <2>1 DEF RoleInv, RoleBase, RoleRest, RoleTyped, Control, Modes, Naming, Unsaved,
           Agreed, Cfg, Hub, Run, Op, Count
  <2>2. CASE A2
    BY <1>a, <2>2 DEF RoleInv, RoleBase, RoleRest, RoleTyped, Control, Modes, Naming, Unsaved,
           Agreed, Cfg, Hub, Run, Op, Count
  <2>3. CASE A3
    BY <1>a, <2>3 DEF RoleInv, RoleBase, RoleRest, RoleTyped, Control, Modes, Naming, Unsaved,
           Agreed, Cfg, Hub, Run, Op, Count
  <2>4. CASE A4
    BY <1>a, <2>4 DEF RoleInv, RoleBase, RoleRest, RoleTyped, Control, Modes, Naming, Unsaved,
           Agreed, Cfg, Hub, Run, Op, Count
  <2> QED
    BY <1>b, <2>1, <2>2, <2>3, <2>4
<1>2. Unsaved'
  <2>1. CASE A1
    BY <1>a, <2>1 DEF RoleInv, RoleBase, RoleRest, RoleTyped, Control, Modes, Naming, Unsaved,
           Reactivation, Agreed, Cfg, Hub, Run, Op, Count
  <2>2. CASE A2
    BY <1>a, <2>2 DEF RoleInv, RoleBase, RoleRest, RoleTyped, Control, Modes, Naming, Unsaved,
           Reactivation, Agreed, Cfg, Hub, Run, Op, Count
  <2>3. CASE A3
    BY <1>a, <2>3 DEF RoleInv, RoleBase, RoleRest, RoleTyped, Control, Modes, Naming, Unsaved,
           Reactivation, Agreed, Cfg, Hub, Run, Op, Count
  <2>4. CASE A4
    BY <1>a, <2>4 DEF RoleInv, RoleBase, RoleRest, RoleTyped, Control, Modes, Naming, Unsaved,
           Reactivation, Agreed, Cfg, Hub, Run, Op, Count
  <2> QED
    BY <1>b, <2>1, <2>2, <2>3, <2>4
<1>3. Files'
  <2>1. CASE A1
    BY <1>a, <2>1 DEF RoleInv, RoleBase, RoleRest, RoleTyped, Control, Modes, Unserved, Naming,
           Unsaved, Files, Reactivation, Agreed, Role!MayOpen, Role!Consumed, Cfg, Hub, Run, Op, Count
  <2>2. CASE A2
    BY <1>a, <2>2 DEF RoleInv, RoleBase, RoleRest, RoleTyped, Control, Modes, Unserved, Naming,
           Unsaved, Files, Reactivation, Agreed, Role!MayOpen, Role!Consumed, Cfg, Hub, Run, Op, Count
  <2>3. CASE A3
    BY <1>a, <2>3 DEF RoleInv, RoleBase, RoleRest, RoleTyped, Control, Modes, Unserved, Naming,
           Unsaved, Files, Reactivation, Agreed, Role!MayOpen, Role!Consumed, Cfg, Hub, Run, Op, Count
  <2>4. CASE A4
    BY <1>a, <2>4 DEF RoleInv, RoleBase, RoleRest, RoleTyped, Control, Modes, Unserved, Naming,
           Unsaved, Files, Reactivation, Agreed, Role!MayOpen, Role!Consumed, Cfg, Hub, Run, Op, Count
  <2> QED
    BY <1>b, <2>1, <2>2, <2>3, <2>4
<1>4. Reactivation'
  <2>1. CASE A1
    BY <1>a, <2>1 DEF RoleInv, RoleBase, RoleRest, RoleTyped, Control, Modes, Naming, Files,
           Reactivation, Agreed, Role!MayOpen, Cfg, Hub, Run, Op, Count
  <2>2. CASE A2
    BY <1>a, <2>2 DEF RoleInv, RoleBase, RoleRest, RoleTyped, Control, Modes, Naming, Files,
           Reactivation, Agreed, Role!MayOpen, Cfg, Hub, Run, Op, Count
  <2>3. CASE A3
    BY <1>a, <2>3 DEF RoleInv, RoleBase, RoleRest, RoleTyped, Control, Modes, Naming, Files,
           Reactivation, Agreed, Role!MayOpen, Cfg, Hub, Run, Op, Count
  <2>4. CASE A4
    BY <1>a, <2>4 DEF RoleInv, RoleBase, RoleRest, RoleTyped, Control, Modes, Naming, Files,
           Reactivation, Agreed, Role!MayOpen, Cfg, Hub, Run, Op, Count
  <2> QED
    BY <1>b, <2>1, <2>2, <2>3, <2>4
<1> QED BY <1>1, <1>2, <1>3, <1>4 DEF RoleRest

LEMMA PeerNameBase ==
  ASSUME RoleBase, Role!PeerName
  PROVE  RoleBase'
<1>1. RoleTyped'
  BY DEF RoleBase, RoleTyped, Cfg, Hub, Run, Op, Count, Role!PeerName
<1>2. Control'
  BY DEF RoleBase, RoleTyped, Control, Cfg, Hub, Run, Op, Count, Role!PeerName
<1>3. Modes'
  BY DEF RoleBase, RoleTyped, Control, Modes, Cfg, Hub, Run, Op, Count, Role!PeerName
<1>4. Alone'
  BY DEF RoleBase, RoleTyped, Control, Modes, Alone, Cfg, Hub, Run, Op, Count, Role!PeerName
<1>5. Unserved'
  BY DEF RoleBase, RoleTyped, Control, Unserved, Cfg, Hub, Run, Op, Count, Role!PeerName
<1> QED BY <1>1, <1>2, <1>3, <1>4, <1>5 DEF RoleBase

LEMMA PeerNameRest ==
  ASSUME OneFault, RoleInv, Role!PeerName
  PROVE  RoleRest'
<1>1. Naming'
  BY DEF RoleInv, RoleBase, RoleRest, RoleTyped, Control, Modes, Naming, Unsaved, Agreed, Cfg,
         Hub, Run, Op, Count, Role!PeerName
<1>2. Unsaved'
  BY DEF RoleInv, RoleBase, RoleRest, RoleTyped, Control, Modes, Naming, Unsaved, Reactivation,
         Agreed, Cfg, Hub, Run, Op, Count, Role!PeerName
<1>3. Files'
  BY DEF RoleInv, RoleBase, RoleRest, RoleTyped, Control, Modes, Unserved, Naming, Unsaved,
         Files, Reactivation, Agreed, Role!MayOpen, Role!Consumed, Cfg, Hub, Run, Op, Count, Role!PeerName
<1>4. Reactivation'
  BY DEF RoleInv, RoleBase, RoleRest, RoleTyped, Control, Modes, Naming, Files, Reactivation,
         Agreed, Role!MayOpen, Cfg, Hub, Run, Op, Count, Role!PeerName
<1> QED BY <1>1, <1>2, <1>3, <1>4 DEF RoleRest

LEMMA PersistNameBase ==
  ASSUME RoleBase, NEW ok \in BOOLEAN, Role!PersistName(ok)
  PROVE  RoleBase'
<1> DEFINE A1 == cfg' = [role |-> "host", name |-> op.n] /\ run' = [run EXCEPT !.live = op.n]
                 /\ roleCount' \in Count
           A2 == cfg' = cfg /\ run' = [run EXCEPT !.peer = op.was] /\ roleCount' \in Count
<1>a. op.pc = "persist" /\ op.k = "rename" /\ run.up /\ roleHub' = roleHub /\ member' = member
      /\ op' = Role!Idle /\ roleJournal' = roleJournal /\ served' = served /\ undone' = undone
  BY DEF RoleBase, Control, Role!PersistName, Role!End, RoleTyped
<1>b. A1 \/ A2
  BY AttemptFacts DEF RoleBase, RoleTyped, Control, Role!PersistName, Role!End
<1>1. RoleTyped'
  <2>a. roleHub' \in Hub /\ member' \in {Role!None, "active", "paused"} /\ roleJournal' \in BOOLEAN
        /\ served' \in BOOLEAN /\ undone' \in BOOLEAN
    BY <1>a DEF RoleBase, RoleTyped
  <2>1. CASE A1
    <3>1. cfg' \in Cfg
      BY <1>a, <2>1, NameFacts DEF RoleBase, RoleTyped, Control, Cfg
    <3>2. run' \in Run
      BY <1>a, <2>1, NameFacts DEF RoleBase, RoleTyped, Control, Run
    <3>3. op' \in Op
      BY <1>a, <2>1, NameFacts DEF RoleBase, RoleTyped, Control, Op
    <3>4. roleCount' \in Count
      BY <1>a, <2>1 DEF RoleBase, RoleTyped, Control
    <3>5. QED
      BY <2>a, <3>1, <3>2, <3>3, <3>4 DEF RoleTyped
  <2>2. CASE A2
    <3>1. run' \in Run
      BY <1>a, <2>2, NameFacts DEF RoleBase, RoleTyped, Control, Run
    <3>2. op' \in Op
      BY <1>a, <2>2, NameFacts DEF RoleBase, RoleTyped, Control, Op
    <3>3. cfg' \in Cfg /\ roleCount' \in Count
      BY <1>a, <2>2 DEF RoleBase, RoleTyped, Control
    <3>4. QED
      BY <2>a, <3>1, <3>2, <3>3 DEF RoleTyped
  <2> QED
    BY <1>b, <2>1, <2>2
<1>2. Control'
  <2>1. CASE A1
    BY <1>a, <2>1 DEF RoleBase, RoleTyped, Control, Cfg, Hub, Run, Op, Count
  <2>2. CASE A2
    BY <1>a, <2>2 DEF RoleBase, RoleTyped, Control, Cfg, Hub, Run, Op, Count
  <2> QED
    BY <1>b, <2>1, <2>2
<1>3. Modes'
  <2>1. CASE A1
    BY <1>a, <2>1 DEF RoleBase, RoleTyped, Control, Modes, Cfg, Hub, Run, Op, Count
  <2>2. CASE A2
    BY <1>a, <2>2 DEF RoleBase, RoleTyped, Control, Modes, Cfg, Hub, Run, Op, Count
  <2> QED
    BY <1>b, <2>1, <2>2
<1>4. Alone'
  <2>1. CASE A1
    BY <1>a, <2>1 DEF RoleBase, RoleTyped, Control, Modes, Alone, Cfg, Hub, Run, Op, Count
  <2>2. CASE A2
    BY <1>a, <2>2 DEF RoleBase, RoleTyped, Control, Modes, Alone, Cfg, Hub, Run, Op, Count
  <2> QED
    BY <1>b, <2>1, <2>2
<1>5. Unserved'
  <2>1. CASE A1
    BY <1>a, <2>1 DEF RoleBase, RoleTyped, Control, Unserved, Cfg, Hub, Run, Op, Count
  <2>2. CASE A2
    BY <1>a, <2>2 DEF RoleBase, RoleTyped, Control, Unserved, Cfg, Hub, Run, Op, Count
  <2> QED
    BY <1>b, <2>1, <2>2
<1> QED BY <1>1, <1>2, <1>3, <1>4, <1>5 DEF RoleBase

LEMMA PersistNameRest ==
  ASSUME OneFault, RoleInv, NEW ok \in BOOLEAN, Role!PersistName(ok)
  PROVE  RoleRest'
<1> DEFINE A1 == cfg' = [role |-> "host", name |-> op.n] /\ run' = [run EXCEPT !.live = op.n]
                 /\ roleCount' \in Count
           A2 == cfg' = cfg /\ run' = [run EXCEPT !.peer = op.was] /\ roleCount' \in Count
<1>a. op.pc = "persist" /\ op.k = "rename" /\ run.up /\ roleHub' = roleHub /\ member' = member
      /\ op' = Role!Idle /\ roleJournal' = roleJournal /\ served' = served /\ undone' = undone
  BY DEF RoleInv, RoleBase, RoleRest, Control, Role!PersistName, Role!End, RoleTyped
<1>b. A1 \/ A2
  BY AttemptFacts DEF RoleInv, RoleBase, RoleRest, RoleTyped, Control, Role!PersistName, Role!End
<1>1. Naming'
  <2>1. CASE A1
    BY <1>a, <2>1 DEF RoleInv, RoleBase, RoleRest, RoleTyped, Control, Modes, Naming, Unsaved,
           Agreed, Cfg, Hub, Run, Op, Count
  <2>2. CASE A2
    BY <1>a, <2>2 DEF RoleInv, RoleBase, RoleRest, RoleTyped, Control, Modes, Naming, Unsaved,
           Agreed, Cfg, Hub, Run, Op, Count
  <2> QED
    BY <1>b, <2>1, <2>2
<1>2. Unsaved'
  <2>1. CASE A1
    BY <1>a, <2>1 DEF RoleInv, RoleBase, RoleRest, RoleTyped, Control, Modes, Naming, Unsaved,
           Reactivation, Agreed, Cfg, Hub, Run, Op, Count
  <2>2. CASE A2
    BY <1>a, <2>2 DEF RoleInv, RoleBase, RoleRest, RoleTyped, Control, Modes, Naming, Unsaved,
           Reactivation, Agreed, Cfg, Hub, Run, Op, Count
  <2> QED
    BY <1>b, <2>1, <2>2
<1>3. Files'
  <2>1. CASE A1
    BY <1>a, <2>1 DEF RoleInv, RoleBase, RoleRest, RoleTyped, Control, Modes, Unserved, Naming,
           Unsaved, Files, Reactivation, Agreed, Role!MayOpen, Role!Consumed, Cfg, Hub, Run, Op, Count
  <2>2. CASE A2
    BY <1>a, <2>2 DEF RoleInv, RoleBase, RoleRest, RoleTyped, Control, Modes, Unserved, Naming,
           Unsaved, Files, Reactivation, Agreed, Role!MayOpen, Role!Consumed, Cfg, Hub, Run, Op, Count
  <2> QED
    BY <1>b, <2>1, <2>2
<1>4. Reactivation'
  <2>1. CASE A1
    BY <1>a, <2>1 DEF RoleInv, RoleBase, RoleRest, RoleTyped, Control, Modes, Naming, Files,
           Reactivation, Agreed, Role!MayOpen, Cfg, Hub, Run, Op, Count
  <2>2. CASE A2
    BY <1>a, <2>2 DEF RoleInv, RoleBase, RoleRest, RoleTyped, Control, Modes, Naming, Files,
           Reactivation, Agreed, Role!MayOpen, Cfg, Hub, Run, Op, Count
  <2> QED
    BY <1>b, <2>1, <2>2
<1> QED BY <1>1, <1>2, <1>3, <1>4 DEF RoleRest

LEMMA PersistMemberBase ==
  ASSUME RoleBase, NEW ok \in BOOLEAN, Role!PersistMember(ok)
  PROVE  RoleBase'
<1> DEFINE A1 == op.k = "remain" /\ cfg' = [role |-> "member", name |-> op.n]
                 /\ run' = [run EXCEPT !.peer = op.n]
                 /\ op' = [op EXCEPT !.saved = cfg.name, !.pc = "resume"] /\ roleCount' \in Count
           A2 == op.k = "disable" /\ cfg' = [role |-> "member", name |-> op.n]
                 /\ run' = [run EXCEPT !.peer = op.n]
                 /\ op' = [op EXCEPT !.saved = cfg.name, !.pc = "drain"] /\ roleCount' \in Count
           A3 == cfg' = cfg /\ run' = run /\ op' = Role!Idle /\ roleCount' \in Count
<1>a. op.pc = "persist" /\ op.k \in {"disable", "remain"} /\ run.up /\ roleHub' = roleHub
      /\ member' = member /\ roleJournal' = roleJournal /\ served' = served /\ undone' = undone
  BY DEF RoleBase, Control, Role!PersistMember
<1>b. A1 \/ A2 \/ A3
  BY AttemptFacts DEF RoleBase, RoleTyped, Control, Role!PersistMember
<1>1. RoleTyped'
  <2>a. roleHub' \in Hub /\ member' \in {Role!None, "active", "paused"} /\ roleJournal' \in BOOLEAN
        /\ served' \in BOOLEAN /\ undone' \in BOOLEAN
    BY <1>a DEF RoleBase, RoleTyped
  <2>1. CASE A1
    <3>1. cfg' \in Cfg
      BY <1>a, <2>1, NameFacts DEF RoleBase, RoleTyped, Control, Cfg
    <3>2. run' \in Run
      BY <1>a, <2>1, NameFacts DEF RoleBase, RoleTyped, Control, Run
    <3>3. op' \in Op
      BY <1>a, <2>1, NameFacts DEF RoleBase, RoleTyped, Control, Op
    <3>4. roleCount' \in Count
      BY <1>a, <2>1 DEF RoleBase, RoleTyped, Control
    <3>5. QED
      BY <2>a, <3>1, <3>2, <3>3, <3>4 DEF RoleTyped
  <2>2. CASE A2
    <3>1. cfg' \in Cfg
      BY <1>a, <2>2, NameFacts DEF RoleBase, RoleTyped, Control, Cfg
    <3>2. run' \in Run
      BY <1>a, <2>2, NameFacts DEF RoleBase, RoleTyped, Control, Run
    <3>3. op' \in Op
      BY <1>a, <2>2, NameFacts DEF RoleBase, RoleTyped, Control, Op
    <3>4. roleCount' \in Count
      BY <1>a, <2>2 DEF RoleBase, RoleTyped, Control
    <3>5. QED
      BY <2>a, <3>1, <3>2, <3>3, <3>4 DEF RoleTyped
  <2>3. CASE A3
    <3>1. op' \in Op
      BY <1>a, <2>3, NameFacts DEF RoleBase, RoleTyped, Control, Op
    <3>2. cfg' \in Cfg /\ run' \in Run /\ roleCount' \in Count
      BY <1>a, <2>3 DEF RoleBase, RoleTyped, Control
    <3>3. QED
      BY <2>a, <3>1, <3>2 DEF RoleTyped
  <2> QED
    BY <1>b, <2>1, <2>2, <2>3
<1>2. Control'
  <2>1. CASE A1
    BY <1>a, <2>1 DEF RoleBase, RoleTyped, Control, Cfg, Hub, Run, Op, Count
  <2>2. CASE A2
    BY <1>a, <2>2 DEF RoleBase, RoleTyped, Control, Cfg, Hub, Run, Op, Count
  <2>3. CASE A3
    BY <1>a, <2>3 DEF RoleBase, RoleTyped, Control, Cfg, Hub, Run, Op, Count
  <2> QED
    BY <1>b, <2>1, <2>2, <2>3
<1>3. Modes'
  <2>1. CASE A1
    BY <1>a, <2>1 DEF RoleBase, RoleTyped, Control, Modes, Cfg, Hub, Run, Op, Count
  <2>2. CASE A2
    BY <1>a, <2>2 DEF RoleBase, RoleTyped, Control, Modes, Cfg, Hub, Run, Op, Count
  <2>3. CASE A3
    BY <1>a, <2>3 DEF RoleBase, RoleTyped, Control, Modes, Cfg, Hub, Run, Op, Count
  <2> QED
    BY <1>b, <2>1, <2>2, <2>3
<1>4. Alone'
  <2>1. CASE A1
    BY <1>a, <2>1 DEF RoleBase, RoleTyped, Control, Modes, Alone, Cfg, Hub, Run, Op, Count
  <2>2. CASE A2
    BY <1>a, <2>2 DEF RoleBase, RoleTyped, Control, Modes, Alone, Cfg, Hub, Run, Op, Count
  <2>3. CASE A3
    BY <1>a, <2>3 DEF RoleBase, RoleTyped, Control, Modes, Alone, Cfg, Hub, Run, Op, Count
  <2> QED
    BY <1>b, <2>1, <2>2, <2>3
<1>5. Unserved'
  <2>1. CASE A1
    BY <1>a, <2>1 DEF RoleBase, RoleTyped, Control, Unserved, Cfg, Hub, Run, Op, Count
  <2>2. CASE A2
    BY <1>a, <2>2 DEF RoleBase, RoleTyped, Control, Unserved, Cfg, Hub, Run, Op, Count
  <2>3. CASE A3
    BY <1>a, <2>3 DEF RoleBase, RoleTyped, Control, Unserved, Cfg, Hub, Run, Op, Count
  <2> QED
    BY <1>b, <2>1, <2>2, <2>3
<1> QED BY <1>1, <1>2, <1>3, <1>4, <1>5 DEF RoleBase

LEMMA PersistMemberRest ==
  ASSUME OneFault, RoleInv, NEW ok \in BOOLEAN, Role!PersistMember(ok)
  PROVE  RoleRest'
<1> DEFINE A1 == op.k = "remain" /\ cfg' = [role |-> "member", name |-> op.n]
                 /\ run' = [run EXCEPT !.peer = op.n]
                 /\ op' = [op EXCEPT !.saved = cfg.name, !.pc = "resume"] /\ roleCount' \in Count
           A2 == op.k = "disable" /\ cfg' = [role |-> "member", name |-> op.n]
                 /\ run' = [run EXCEPT !.peer = op.n]
                 /\ op' = [op EXCEPT !.saved = cfg.name, !.pc = "drain"] /\ roleCount' \in Count
           A3 == cfg' = cfg /\ run' = run /\ op' = Role!Idle /\ roleCount' \in Count
<1>a. op.pc = "persist" /\ op.k \in {"disable", "remain"} /\ run.up /\ roleHub' = roleHub
      /\ member' = member /\ roleJournal' = roleJournal /\ served' = served /\ undone' = undone
  BY DEF RoleInv, RoleBase, RoleRest, Control, Role!PersistMember
<1>b. A1 \/ A2 \/ A3
  BY AttemptFacts DEF RoleInv, RoleBase, RoleRest, RoleTyped, Control, Role!PersistMember
<1>1. Naming'
  <2>1. CASE A1
    BY <1>a, <2>1 DEF RoleInv, RoleBase, RoleRest, RoleTyped, Control, Modes, Naming, Unsaved,
           Agreed, Cfg, Hub, Run, Op, Count
  <2>2. CASE A2
    BY <1>a, <2>2 DEF RoleInv, RoleBase, RoleRest, RoleTyped, Control, Modes, Naming, Unsaved,
           Agreed, Cfg, Hub, Run, Op, Count
  <2>3. CASE A3
    BY <1>a, <2>3 DEF RoleInv, RoleBase, RoleRest, RoleTyped, Control, Modes, Naming, Unsaved,
           Agreed, Cfg, Hub, Run, Op, Count
  <2> QED
    BY <1>b, <2>1, <2>2, <2>3
<1>2. Unsaved'
  <2>1. CASE A1
    BY <1>a, <2>1 DEF RoleInv, RoleBase, RoleRest, RoleTyped, Control, Modes, Naming, Unsaved,
           Reactivation, Agreed, Cfg, Hub, Run, Op, Count
  <2>2. CASE A2
    BY <1>a, <2>2 DEF RoleInv, RoleBase, RoleRest, RoleTyped, Control, Modes, Naming, Unsaved,
           Reactivation, Agreed, Cfg, Hub, Run, Op, Count
  <2>3. CASE A3
    BY <1>a, <2>3 DEF RoleInv, RoleBase, RoleRest, RoleTyped, Control, Modes, Naming, Unsaved,
           Reactivation, Agreed, Cfg, Hub, Run, Op, Count
  <2> QED
    BY <1>b, <2>1, <2>2, <2>3
<1>3. Files'
  <2>1. CASE A1
    BY <1>a, <2>1 DEF RoleInv, RoleBase, RoleRest, RoleTyped, Control, Modes, Unserved, Naming,
           Unsaved, Files, Reactivation, Agreed, Role!MayOpen, Role!Consumed, Cfg, Hub, Run, Op, Count
  <2>2. CASE A2
    BY <1>a, <2>2 DEF RoleInv, RoleBase, RoleRest, RoleTyped, Control, Modes, Unserved, Naming,
           Unsaved, Files, Reactivation, Agreed, Role!MayOpen, Role!Consumed, Cfg, Hub, Run, Op, Count
  <2>3. CASE A3
    BY <1>a, <2>3 DEF RoleInv, RoleBase, RoleRest, RoleTyped, Control, Modes, Unserved, Naming,
           Unsaved, Files, Reactivation, Agreed, Role!MayOpen, Role!Consumed, Cfg, Hub, Run, Op, Count
  <2> QED
    BY <1>b, <2>1, <2>2, <2>3
<1>4. Reactivation'
  <2>1. CASE A1
    BY <1>a, <2>1 DEF RoleInv, RoleBase, RoleRest, RoleTyped, Control, Modes, Naming, Files,
           Reactivation, Agreed, Role!MayOpen, Cfg, Hub, Run, Op, Count
  <2>2. CASE A2
    BY <1>a, <2>2 DEF RoleInv, RoleBase, RoleRest, RoleTyped, Control, Modes, Naming, Files,
           Reactivation, Agreed, Role!MayOpen, Cfg, Hub, Run, Op, Count
  <2>3. CASE A3
    BY <1>a, <2>3 DEF RoleInv, RoleBase, RoleRest, RoleTyped, Control, Modes, Naming, Files,
           Reactivation, Agreed, Role!MayOpen, Cfg, Hub, Run, Op, Count
  <2> QED
    BY <1>b, <2>1, <2>2, <2>3
<1> QED BY <1>1, <1>2, <1>3, <1>4 DEF RoleRest

LEMMA DemoteBase ==
  ASSUME RoleBase, NEW ok \in BOOLEAN, Role!Demote(ok)
  PROVE  RoleBase'
<1> DEFINE A1 == op' = [op EXCEPT !.pc = "resume"] /\ run' = [Role!Closed EXCEPT !.live = op.n]
                 /\ roleCount' \in Count
           A2 == op' = [op EXCEPT !.pc = "undemote"] /\ run' = run /\ roleCount' \in Count
                 /\ roleCount'.faults = roleCount.faults + 1
<1>a. op.pc = "drain" /\ op.k = "disable" /\ run.up /\ cfg' = cfg /\ roleHub' = roleHub
      /\ member' = member /\ roleJournal' = roleJournal /\ served' = served /\ undone' = undone
  BY DEF RoleBase, Control, Role!Demote
<1>b. A1 \/ A2
  BY AttemptFacts DEF RoleBase, RoleTyped, Control, Role!Demote
<1>1. RoleTyped'
  <2>a. cfg' \in Cfg /\ roleHub' \in Hub /\ member' \in {Role!None, "active", "paused"}
        /\ roleJournal' \in BOOLEAN /\ served' \in BOOLEAN /\ undone' \in BOOLEAN
    BY <1>a DEF RoleBase, RoleTyped
  <2>1. CASE A1
    <3>1. run' \in Run
      BY <1>a, <2>1, NameFacts DEF RoleBase, RoleTyped, Control, Run
    <3>2. op' \in Op
      BY <1>a, <2>1, NameFacts DEF RoleBase, RoleTyped, Control, Op
    <3>3. roleCount' \in Count
      BY <1>a, <2>1 DEF RoleBase, RoleTyped, Control
    <3>4. QED
      BY <2>a, <3>1, <3>2, <3>3 DEF RoleTyped
  <2>2. CASE A2
    <3>1. op' \in Op
      BY <1>a, <2>2, NameFacts DEF RoleBase, RoleTyped, Control, Op
    <3>2. run' \in Run /\ roleCount' \in Count
      BY <1>a, <2>2 DEF RoleBase, RoleTyped, Control
    <3>3. QED
      BY <2>a, <3>1, <3>2 DEF RoleTyped
  <2> QED
    BY <1>b, <2>1, <2>2
<1>2. Control'
  <2>1. CASE A1
    BY <1>a, <2>1 DEF RoleBase, RoleTyped, Control, Cfg, Hub, Run, Op, Count
  <2>2. CASE A2
    BY <1>a, <2>2 DEF RoleBase, RoleTyped, Control, Cfg, Hub, Run, Op, Count
  <2> QED
    BY <1>b, <2>1, <2>2
<1>3. Modes'
  <2>1. CASE A1
    BY <1>a, <2>1 DEF RoleBase, RoleTyped, Control, Modes, Cfg, Hub, Run, Op, Count
  <2>2. CASE A2
    BY <1>a, <2>2 DEF RoleBase, RoleTyped, Control, Modes, Cfg, Hub, Run, Op, Count
  <2> QED
    BY <1>b, <2>1, <2>2
<1>4. Alone'
  <2>1. CASE A1
    BY <1>a, <2>1 DEF RoleBase, RoleTyped, Control, Modes, Alone, Cfg, Hub, Run, Op, Count
  <2>2. CASE A2
    BY <1>a, <2>2 DEF RoleBase, RoleTyped, Control, Modes, Alone, Cfg, Hub, Run, Op, Count
  <2> QED
    BY <1>b, <2>1, <2>2
<1>5. Unserved'
  <2>1. CASE A1
    BY <1>a, <2>1 DEF RoleBase, RoleTyped, Control, Unserved, Cfg, Hub, Run, Op, Count
  <2>2. CASE A2
    BY <1>a, <2>2 DEF RoleBase, RoleTyped, Control, Unserved, Cfg, Hub, Run, Op, Count
  <2> QED
    BY <1>b, <2>1, <2>2
<1> QED BY <1>1, <1>2, <1>3, <1>4, <1>5 DEF RoleBase

LEMMA DemoteRest ==
  ASSUME OneFault, RoleInv, NEW ok \in BOOLEAN, Role!Demote(ok)
  PROVE  RoleRest'
<1> DEFINE A1 == op' = [op EXCEPT !.pc = "resume"] /\ run' = [Role!Closed EXCEPT !.live = op.n]
                 /\ roleCount' \in Count
           A2 == op' = [op EXCEPT !.pc = "undemote"] /\ run' = run /\ roleCount' \in Count
                 /\ roleCount'.faults = roleCount.faults + 1
<1>a. op.pc = "drain" /\ op.k = "disable" /\ run.up /\ cfg' = cfg /\ roleHub' = roleHub
      /\ member' = member /\ roleJournal' = roleJournal /\ served' = served /\ undone' = undone
  BY DEF RoleInv, RoleBase, RoleRest, Control, Role!Demote
<1>b. A1 \/ A2
  BY AttemptFacts DEF RoleInv, RoleBase, RoleRest, RoleTyped, Control, Role!Demote
<1>1. Naming'
  <2>1. CASE A1
    BY <1>a, <2>1 DEF RoleInv, RoleBase, RoleRest, RoleTyped, Control, Modes, Naming, Unsaved,
           Agreed, Cfg, Hub, Run, Op, Count
  <2>2. CASE A2
    BY <1>a, <2>2 DEF RoleInv, RoleBase, RoleRest, RoleTyped, Control, Modes, Naming, Unsaved,
           Agreed, Cfg, Hub, Run, Op, Count
  <2> QED
    BY <1>b, <2>1, <2>2
<1>2. Unsaved'
  <2>1. CASE A1
    BY <1>a, <2>1 DEF RoleInv, RoleBase, RoleRest, RoleTyped, Control, Modes, Naming, Unsaved,
           Reactivation, Agreed, OneFault, Cfg, Hub, Run, Op, Count
  <2>2. CASE A2
    BY <1>a, <2>2 DEF RoleInv, RoleBase, RoleRest, RoleTyped, Control, Modes, Naming, Unsaved,
           Reactivation, Agreed, OneFault, Cfg, Hub, Run, Op, Count
  <2> QED
    BY <1>b, <2>1, <2>2
<1>3. Files'
  <2>1. CASE A1
    BY <1>a, <2>1 DEF RoleInv, RoleBase, RoleRest, RoleTyped, Control, Modes, Unserved, Naming,
           Unsaved, Files, Reactivation, Agreed, Role!MayOpen, Role!Consumed, Cfg, Hub, Run, Op, Count
  <2>2. CASE A2
    BY <1>a, <2>2 DEF RoleInv, RoleBase, RoleRest, RoleTyped, Control, Modes, Unserved, Naming,
           Unsaved, Files, Reactivation, Agreed, Role!MayOpen, Role!Consumed, Cfg, Hub, Run, Op, Count
  <2> QED
    BY <1>b, <2>1, <2>2
<1>4. Reactivation'
  <2>1. CASE A1
    BY <1>a, <2>1 DEF RoleInv, RoleBase, RoleRest, RoleTyped, Control, Modes, Naming, Files,
           Reactivation, Agreed, Role!MayOpen, Cfg, Hub, Run, Op, Count
  <2>2. CASE A2
    BY <1>a, <2>2 DEF RoleInv, RoleBase, RoleRest, RoleTyped, Control, Modes, Naming, Files,
           Reactivation, Agreed, Role!MayOpen, Cfg, Hub, Run, Op, Count
  <2> QED
    BY <1>b, <2>1, <2>2
<1> QED BY <1>1, <1>2, <1>3, <1>4 DEF RoleRest

LEMMA UndemoteBase ==
  ASSUME RoleBase, NEW ok \in BOOLEAN, Role!Undemote(ok)
  PROVE  RoleBase'
<1> DEFINE A1 == cfg' = [role |-> "host", name |-> op.saved]
                 /\ run' = [run EXCEPT !.peer = run.live] /\ roleCount' \in Count
           A2 == cfg' = cfg /\ run' = run /\ roleCount' \in Count /\ roleCount.faults < MaxFaults
<1>a. op.pc = "undemote" /\ run.up /\ op' = Role!Idle /\ roleHub' = roleHub /\ member' = member
      /\ roleJournal' = roleJournal /\ served' = served /\ undone' = undone
  BY DEF RoleBase, Control, Role!Undemote
<1>b. A1 \/ A2
  BY AttemptFacts DEF RoleBase, RoleTyped, Control, Role!Undemote
<1>1. RoleTyped'
  <2>a. roleHub' \in Hub /\ member' \in {Role!None, "active", "paused"} /\ roleJournal' \in BOOLEAN
        /\ served' \in BOOLEAN /\ undone' \in BOOLEAN
    BY <1>a DEF RoleBase, RoleTyped
  <2>1. CASE A1
    <3>1. cfg' \in Cfg
      BY <1>a, <2>1, NameFacts DEF RoleBase, RoleTyped, Control, Cfg
    <3>2. run' \in Run
      BY <1>a, <2>1, NameFacts DEF RoleBase, RoleTyped, Control, Run
    <3>3. op' \in Op
      BY <1>a, <2>1, NameFacts DEF RoleBase, RoleTyped, Control, Op
    <3>4. roleCount' \in Count
      BY <1>a, <2>1 DEF RoleBase, RoleTyped, Control
    <3>5. QED
      BY <2>a, <3>1, <3>2, <3>3, <3>4 DEF RoleTyped
  <2>2. CASE A2
    <3>1. op' \in Op
      BY <1>a, <2>2, NameFacts DEF RoleBase, RoleTyped, Control, Op
    <3>2. cfg' \in Cfg /\ run' \in Run /\ roleCount' \in Count
      BY <1>a, <2>2 DEF RoleBase, RoleTyped, Control
    <3>3. QED
      BY <2>a, <3>1, <3>2 DEF RoleTyped
  <2> QED
    BY <1>b, <2>1, <2>2
<1>2. Control'
  <2>1. CASE A1
    BY <1>a, <2>1 DEF RoleBase, RoleTyped, Control, Cfg, Hub, Run, Op, Count
  <2>2. CASE A2
    BY <1>a, <2>2 DEF RoleBase, RoleTyped, Control, Cfg, Hub, Run, Op, Count
  <2> QED
    BY <1>b, <2>1, <2>2
<1>3. Modes'
  <2>1. CASE A1
    BY <1>a, <2>1 DEF RoleBase, RoleTyped, Control, Modes, Cfg, Hub, Run, Op, Count
  <2>2. CASE A2
    BY <1>a, <2>2 DEF RoleBase, RoleTyped, Control, Modes, Cfg, Hub, Run, Op, Count
  <2> QED
    BY <1>b, <2>1, <2>2
<1>4. Alone'
  <2>1. CASE A1
    BY <1>a, <2>1 DEF RoleBase, RoleTyped, Control, Modes, Alone, Cfg, Hub, Run, Op, Count
  <2>2. CASE A2
    BY <1>a, <2>2 DEF RoleBase, RoleTyped, Control, Modes, Alone, Cfg, Hub, Run, Op, Count
  <2> QED
    BY <1>b, <2>1, <2>2
<1>5. Unserved'
  <2>1. CASE A1
    BY <1>a, <2>1 DEF RoleBase, RoleTyped, Control, Unserved, Cfg, Hub, Run, Op, Count
  <2>2. CASE A2
    BY <1>a, <2>2 DEF RoleBase, RoleTyped, Control, Unserved, Cfg, Hub, Run, Op, Count
  <2> QED
    BY <1>b, <2>1, <2>2
<1> QED BY <1>1, <1>2, <1>3, <1>4, <1>5 DEF RoleBase

LEMMA UndemoteRest ==
  ASSUME OneFault, RoleInv, NEW ok \in BOOLEAN, Role!Undemote(ok)
  PROVE  RoleRest'
<1> DEFINE A1 == cfg' = [role |-> "host", name |-> op.saved]
                 /\ run' = [run EXCEPT !.peer = run.live] /\ roleCount' \in Count
           A2 == cfg' = cfg /\ run' = run /\ roleCount' \in Count /\ roleCount.faults < MaxFaults
<1>a. op.pc = "undemote" /\ run.up /\ op' = Role!Idle /\ roleHub' = roleHub /\ member' = member
      /\ roleJournal' = roleJournal /\ served' = served /\ undone' = undone
  BY DEF RoleInv, RoleBase, RoleRest, Control, Role!Undemote
<1>b. A1 \/ A2
  BY AttemptFacts DEF RoleInv, RoleBase, RoleRest, RoleTyped, Control, Role!Undemote
<1>1. Naming'
  <2>1. CASE A1
    BY <1>a, <2>1 DEF RoleInv, RoleBase, RoleRest, RoleTyped, Control, Modes, Naming, Unsaved,
           Agreed, OneFault, Cfg, Hub, Run, Op, Count
  <2>2. CASE A2
    BY <1>a, <2>2 DEF RoleInv, RoleBase, RoleRest, RoleTyped, Control, Modes, Naming, Unsaved,
           Agreed, OneFault, Cfg, Hub, Run, Op, Count
  <2> QED
    BY <1>b, <2>1, <2>2
<1>2. Unsaved'
  <2>1. CASE A1
    BY <1>a, <2>1 DEF RoleInv, RoleBase, RoleRest, RoleTyped, Control, Modes, Naming, Unsaved,
           Reactivation, Agreed, Cfg, Hub, Run, Op, Count
  <2>2. CASE A2
    BY <1>a, <2>2 DEF RoleInv, RoleBase, RoleRest, RoleTyped, Control, Modes, Naming, Unsaved,
           Reactivation, Agreed, Cfg, Hub, Run, Op, Count
  <2> QED
    BY <1>b, <2>1, <2>2
<1>3. Files'
  <2>1. CASE A1
    BY <1>a, <2>1 DEF RoleInv, RoleBase, RoleRest, RoleTyped, Control, Modes, Unserved, Naming,
           Unsaved, Files, Reactivation, Agreed, Role!MayOpen, Role!Consumed, Cfg, Hub, Run, Op, Count
  <2>2. CASE A2
    BY <1>a, <2>2 DEF RoleInv, RoleBase, RoleRest, RoleTyped, Control, Modes, Unserved, Naming,
           Unsaved, Files, Reactivation, Agreed, Role!MayOpen, Role!Consumed, Cfg, Hub, Run, Op, Count
  <2> QED
    BY <1>b, <2>1, <2>2
<1>4. Reactivation'
  <2>1. CASE A1
    BY <1>a, <2>1 DEF RoleInv, RoleBase, RoleRest, RoleTyped, Control, Modes, Naming, Files,
           Reactivation, Agreed, Role!MayOpen, Cfg, Hub, Run, Op, Count
  <2>2. CASE A2
    BY <1>a, <2>2 DEF RoleInv, RoleBase, RoleRest, RoleTyped, Control, Modes, Naming, Files,
           Reactivation, Agreed, Role!MayOpen, Cfg, Hub, Run, Op, Count
  <2> QED
    BY <1>b, <2>1, <2>2
<1> QED BY <1>1, <1>2, <1>3, <1>4 DEF RoleRest

LEMMA ResumeMemberBase ==
  ASSUME RoleBase, NEW ok \in BOOLEAN, Role!ResumeMember(ok)
  PROVE  RoleBase'
<1> DEFINE A1 == member' = Role!Resumed(member) /\ cfg' = cfg /\ run' = [run EXCEPT !.live = op.n]
                 /\ roleJournal' = FALSE /\ roleCount' \in Count
           A2 == op.k = "disable" /\ member' = member /\ cfg' = cfg /\ run' = run
                 /\ roleJournal' = FALSE /\ roleCount' \in Count
           A3 == op.k = "remain" /\ member' \in {member, Role!Resumed(member)}
                 /\ cfg' = [role |-> "member", name |-> op.saved]
                 /\ run' = [run EXCEPT !.peer = op.was] /\ roleJournal' = roleJournal
                 /\ roleCount' \in Count
<1>a. op.pc = "resume" /\ op.k \in {"disable", "remain"} /\ run.up /\ roleHub' = roleHub /\ op' = Role!Idle
      /\ served' = served /\ undone' = undone
  BY DEF RoleBase, Control, Role!ResumeMember, Role!End
<1>b. A1 \/ A2 \/ A3
  BY AttemptFacts DEF RoleBase, RoleTyped, Control, Role!ResumeMember, Role!End, Role!Resumed
<1>1. RoleTyped'
  <2>a. roleHub' \in Hub /\ served' \in BOOLEAN /\ undone' \in BOOLEAN
    BY <1>a DEF RoleBase, RoleTyped
  <2>1. CASE A1
    <3>1. run' \in Run
      BY <1>a, <2>1, NameFacts DEF RoleBase, RoleTyped, Control, Role!Resumed, Run
    <3>2. op' \in Op
      BY <1>a, <2>1, NameFacts DEF RoleBase, RoleTyped, Control, Role!Resumed, Op
    <3>3. cfg' \in Cfg /\ roleCount' \in Count /\ member' \in {Role!None, "active", "paused"}
          /\ roleJournal' \in BOOLEAN
      BY <1>a, <2>1 DEF RoleBase, RoleTyped, Control, Role!Resumed
    <3>4. QED
      BY <2>a, <3>1, <3>2, <3>3 DEF RoleTyped
  <2>2. CASE A2
    <3>1. op' \in Op
      BY <1>a, <2>2, NameFacts DEF RoleBase, RoleTyped, Control, Role!Resumed, Op
    <3>2. cfg' \in Cfg /\ run' \in Run /\ roleCount' \in Count
          /\ member' \in {Role!None, "active", "paused"} /\ roleJournal' \in BOOLEAN
      BY <1>a, <2>2 DEF RoleBase, RoleTyped, Control, Role!Resumed
    <3>3. QED
      BY <2>a, <3>1, <3>2 DEF RoleTyped
  <2>3. CASE A3
    <3>1. cfg' \in Cfg
      BY <1>a, <2>3, NameFacts DEF RoleBase, RoleTyped, Control, Role!Resumed, Cfg
    <3>2. run' \in Run
      BY <1>a, <2>3, NameFacts DEF RoleBase, RoleTyped, Control, Role!Resumed, Run
    <3>3. op' \in Op
      BY <1>a, <2>3, NameFacts DEF RoleBase, RoleTyped, Control, Role!Resumed, Op
    <3>4. roleCount' \in Count /\ member' \in {Role!None, "active", "paused"} /\ roleJournal' \in BOOLEAN
      BY <1>a, <2>3 DEF RoleBase, RoleTyped, Control, Role!Resumed
    <3>5. QED
      BY <2>a, <3>1, <3>2, <3>3, <3>4 DEF RoleTyped
  <2> QED
    BY <1>b, <2>1, <2>2, <2>3
<1>2. Control'
  <2>1. CASE A1
    BY <1>a, <2>1 DEF RoleBase, RoleTyped, Control, Cfg, Hub, Run, Op, Count, Role!Resumed
  <2>2. CASE A2
    BY <1>a, <2>2 DEF RoleBase, RoleTyped, Control, Cfg, Hub, Run, Op, Count, Role!Resumed
  <2>3. CASE A3
    BY <1>a, <2>3 DEF RoleBase, RoleTyped, Control, Cfg, Hub, Run, Op, Count, Role!Resumed
  <2> QED
    BY <1>b, <2>1, <2>2, <2>3
<1>3. Modes'
  <2>1. CASE A1
    BY <1>a, <2>1 DEF RoleBase, RoleTyped, Control, Modes, Cfg, Hub, Run, Op, Count, Role!Resumed
  <2>2. CASE A2
    BY <1>a, <2>2 DEF RoleBase, RoleTyped, Control, Modes, Cfg, Hub, Run, Op, Count, Role!Resumed
  <2>3. CASE A3
    BY <1>a, <2>3 DEF RoleBase, RoleTyped, Control, Modes, Cfg, Hub, Run, Op, Count, Role!Resumed
  <2> QED
    BY <1>b, <2>1, <2>2, <2>3
<1>4. Alone'
  <2>1. CASE A1
    BY <1>a, <2>1 DEF RoleBase, RoleTyped, Control, Modes, Alone, Cfg, Hub, Run, Op, Count,
           Role!Resumed
  <2>2. CASE A2
    BY <1>a, <2>2 DEF RoleBase, RoleTyped, Control, Modes, Alone, Cfg, Hub, Run, Op, Count,
           Role!Resumed
  <2>3. CASE A3
    BY <1>a, <2>3 DEF RoleBase, RoleTyped, Control, Modes, Alone, Cfg, Hub, Run, Op, Count,
           Role!Resumed
  <2> QED
    BY <1>b, <2>1, <2>2, <2>3
<1>5. Unserved'
  <2>1. CASE A1
    BY <1>a, <2>1 DEF RoleBase, RoleTyped, Control, Unserved, Cfg, Hub, Run, Op, Count, Role!Resumed
  <2>2. CASE A2
    BY <1>a, <2>2 DEF RoleBase, RoleTyped, Control, Unserved, Cfg, Hub, Run, Op, Count, Role!Resumed
  <2>3. CASE A3
    BY <1>a, <2>3 DEF RoleBase, RoleTyped, Control, Unserved, Cfg, Hub, Run, Op, Count, Role!Resumed
  <2> QED
    BY <1>b, <2>1, <2>2, <2>3
<1> QED BY <1>1, <1>2, <1>3, <1>4, <1>5 DEF RoleBase

LEMMA ResumeMemberRest ==
  ASSUME OneFault, RoleInv, NEW ok \in BOOLEAN, Role!ResumeMember(ok)
  PROVE  RoleRest'
<1> DEFINE A1 == member' = Role!Resumed(member) /\ cfg' = cfg /\ run' = [run EXCEPT !.live = op.n]
                 /\ roleJournal' = FALSE /\ roleCount' \in Count
           A2 == op.k = "disable" /\ member' = member /\ cfg' = cfg /\ run' = run
                 /\ roleJournal' = FALSE /\ roleCount' \in Count
           A3 == op.k = "remain" /\ member' \in {member, Role!Resumed(member)}
                 /\ cfg' = [role |-> "member", name |-> op.saved]
                 /\ run' = [run EXCEPT !.peer = op.was] /\ roleJournal' = roleJournal
                 /\ roleCount' \in Count
<1>a. op.pc = "resume" /\ op.k \in {"disable", "remain"} /\ run.up /\ roleHub' = roleHub /\ op' = Role!Idle
      /\ served' = served /\ undone' = undone
  BY DEF RoleInv, RoleBase, RoleRest, Control, Role!ResumeMember, Role!End
<1>b. A1 \/ A2 \/ A3
  BY AttemptFacts DEF RoleInv, RoleBase, RoleRest, RoleTyped, Control, Role!ResumeMember, Role!End,
         Role!Resumed
<1>1. Naming'
  <2>1. CASE A1
    BY <1>a, <2>1 DEF RoleInv, RoleBase, RoleRest, RoleTyped, Control, Modes, Naming, Unsaved,
           Agreed, Cfg, Hub, Run, Op, Count, Role!Resumed
  <2>2. CASE A2
    BY <1>a, <2>2 DEF RoleInv, RoleBase, RoleRest, RoleTyped, Control, Modes, Naming, Unsaved,
           Agreed, Cfg, Hub, Run, Op, Count, Role!Resumed
  <2>3. CASE A3
    BY <1>a, <2>3 DEF RoleInv, RoleBase, RoleRest, RoleTyped, Control, Modes, Naming, Unsaved,
           Agreed, Cfg, Hub, Run, Op, Count, Role!Resumed
  <2> QED
    BY <1>b, <2>1, <2>2, <2>3
<1>2. Unsaved'
  <2>1. CASE A1
    BY <1>a, <2>1 DEF RoleInv, RoleBase, RoleRest, RoleTyped, Control, Modes, Naming, Unsaved,
           Reactivation, Agreed, Cfg, Hub, Run, Op, Count, Role!Resumed
  <2>2. CASE A2
    BY <1>a, <2>2 DEF RoleInv, RoleBase, RoleRest, RoleTyped, Control, Modes, Naming, Unsaved,
           Reactivation, Agreed, Cfg, Hub, Run, Op, Count, Role!Resumed
  <2>3. CASE A3
    BY <1>a, <2>3 DEF RoleInv, RoleBase, RoleRest, RoleTyped, Control, Modes, Naming, Unsaved,
           Reactivation, Agreed, Cfg, Hub, Run, Op, Count, Role!Resumed
  <2> QED
    BY <1>b, <2>1, <2>2, <2>3
<1>3. Files'
  <2>1. CASE A1
    BY <1>a, <2>1 DEF RoleInv, RoleBase, RoleRest, RoleTyped, Control, Modes, Unserved, Naming,
           Unsaved, Files, Reactivation, Agreed, Role!MayOpen, Role!Consumed, Cfg, Hub, Run, Op, Count,
           Role!Resumed
  <2>2. CASE A2
    BY <1>a, <2>2 DEF RoleInv, RoleBase, RoleRest, RoleTyped, Control, Modes, Unserved, Naming,
           Unsaved, Files, Reactivation, Agreed, Role!MayOpen, Role!Consumed, Cfg, Hub, Run, Op, Count,
           Role!Resumed
  <2>3. CASE A3
    BY <1>a, <2>3 DEF RoleInv, RoleBase, RoleRest, RoleTyped, Control, Modes, Unserved, Naming,
           Unsaved, Files, Reactivation, Agreed, Role!MayOpen, Role!Consumed, Cfg, Hub, Run, Op, Count,
           Role!Resumed
  <2> QED
    BY <1>b, <2>1, <2>2, <2>3
<1>4. Reactivation'
  <2>1. CASE A1
    BY <1>a, <2>1 DEF RoleInv, RoleBase, RoleRest, RoleTyped, Control, Modes, Naming, Files,
           Reactivation, Agreed, Role!MayOpen, Cfg, Hub, Run, Op, Count, Role!Resumed
  <2>2. CASE A2
    BY <1>a, <2>2 DEF RoleInv, RoleBase, RoleRest, RoleTyped, Control, Modes, Naming, Files,
           Reactivation, Agreed, Role!MayOpen, Cfg, Hub, Run, Op, Count, Role!Resumed
  <2>3. CASE A3
    BY <1>a, <2>3 DEF RoleInv, RoleBase, RoleRest, RoleTyped, Control, Modes, Naming, Files,
           Reactivation, Agreed, Role!MayOpen, Cfg, Hub, Run, Op, Count, Role!Resumed
  <2> QED
    BY <1>b, <2>1, <2>2, <2>3
<1> QED BY <1>1, <1>2, <1>3, <1>4 DEF RoleRest

LEMMA HubWriteBase ==
  ASSUME RoleBase, Role!HubWrite
  PROVE  RoleBase'
<1>1. RoleTyped'
  BY DEF RoleBase, RoleTyped, Cfg, Hub, Run, Op, Count, Role!HubWrite
<1>2. Control'
  BY DEF RoleBase, RoleTyped, Control, Cfg, Hub, Run, Op, Count, Role!HubWrite
<1>3. Modes'
  BY DEF RoleBase, RoleTyped, Control, Modes, Cfg, Hub, Run, Op, Count, Role!HubWrite
<1>4. Alone'
  BY DEF RoleBase, RoleTyped, Control, Modes, Alone, Cfg, Hub, Run, Op, Count, Role!HubWrite
<1>5. Unserved'
  BY DEF RoleBase, RoleTyped, Control, Unserved, Cfg, Hub, Run, Op, Count, Role!HubWrite
<1> QED BY <1>1, <1>2, <1>3, <1>4, <1>5 DEF RoleBase

LEMMA HubWriteRest ==
  ASSUME OneFault, RoleInv, Role!HubWrite
  PROVE  RoleRest'
<1>1. Naming'
  BY DEF RoleInv, RoleBase, RoleRest, RoleTyped, Control, Modes, Naming, Unsaved, Agreed, Cfg,
         Hub, Run, Op, Count, Role!HubWrite
<1>2. Unsaved'
  BY DEF RoleInv, RoleBase, RoleRest, RoleTyped, Control, Modes, Naming, Unsaved, Reactivation,
         Agreed, Cfg, Hub, Run, Op, Count, Role!HubWrite
<1>3. Files'
  BY DEF RoleInv, RoleBase, RoleRest, RoleTyped, Control, Modes, Unserved, Naming, Unsaved,
         Files, Reactivation, Agreed, Role!MayOpen, Role!Consumed, Cfg, Hub, Run, Op, Count, Role!HubWrite
<1>4. Reactivation'
  BY DEF RoleInv, RoleBase, RoleRest, RoleTyped, Control, Modes, Naming, Files, Reactivation,
         Agreed, Role!MayOpen, Cfg, Hub, Run, Op, Count, Role!HubWrite
<1> QED BY <1>1, <1>2, <1>3, <1>4 DEF RoleRest

LEMMA PollAttachBase ==
  ASSUME RoleBase, Role!PollAttach
  PROVE  RoleBase'
<1>1. RoleTyped'
  <2>1. cfg' \in Cfg
    BY DEF RoleBase, RoleTyped, Cfg, Control, Role!PollAttach
  <2>2. roleHub' \in Hub
    BY DEF RoleBase, RoleTyped, Hub, Control, Role!PollAttach
  <2>3. run' \in Run
    BY DEF RoleBase, RoleTyped, Run, Control, Role!PollAttach
  <2>4. op' \in Op
    BY DEF RoleBase, RoleTyped, Op, Control, Role!PollAttach
  <2>5. roleCount' \in Count
    BY DEF RoleBase, RoleTyped, Count, Role!PollAttach
  <2>6. member' \in {Role!None, "active", "paused"} /\ roleJournal' \in BOOLEAN
        /\ served' \in BOOLEAN /\ undone' \in BOOLEAN
    BY DEF RoleBase, RoleTyped, Role!PollAttach
  <2>7. QED
    BY <2>1, <2>2, <2>3, <2>4, <2>5, <2>6 DEF RoleTyped
<1>2. Control'
  BY DEF RoleBase, RoleTyped, Control, Cfg, Hub, Run, Op, Count, Role!PollAttach
<1>3. Modes'
  BY DEF RoleBase, RoleTyped, Control, Modes, Cfg, Hub, Run, Op, Count, Role!PollAttach
<1>4. Alone'
  BY DEF RoleBase, RoleTyped, Control, Modes, Alone, Cfg, Hub, Run, Op, Count, Role!PollAttach
<1>5. Unserved'
  BY DEF RoleBase, RoleTyped, Control, Unserved, Cfg, Hub, Run, Op, Count, Role!PollAttach
<1> QED BY <1>1, <1>2, <1>3, <1>4, <1>5 DEF RoleBase

LEMMA PollAttachRest ==
  ASSUME OneFault, RoleInv, Role!PollAttach
  PROVE  RoleRest'
<1>1. Naming'
  BY DEF RoleInv, RoleBase, RoleRest, RoleTyped, Control, Modes, Naming, Unsaved, Agreed, Cfg,
         Hub, Run, Op, Count, Role!PollAttach
<1>2. Unsaved'
  BY DEF RoleInv, RoleBase, RoleRest, RoleTyped, Control, Modes, Naming, Unsaved, Reactivation,
         Agreed, Cfg, Hub, Run, Op, Count, Role!PollAttach
<1>3. Files'
  BY DEF RoleInv, RoleBase, RoleRest, RoleTyped, Control, Modes, Unserved, Naming, Unsaved,
         Files, Reactivation, Agreed, Role!MayOpen, Role!Consumed, Cfg, Hub, Run, Op, Count, Role!PollAttach
<1>4. Reactivation'
  BY DEF RoleInv, RoleBase, RoleRest, RoleTyped, Control, Modes, Naming, Files, Reactivation,
         Agreed, Role!MayOpen, Cfg, Hub, Run, Op, Count, Role!PollAttach
<1> QED BY <1>1, <1>2, <1>3, <1>4 DEF RoleRest

LEMMA CrashBase ==
  ASSUME RoleBase, Role!Crash
  PROVE  RoleBase'
<1>1. RoleTyped'
  <2>1. run' \in Run /\ op' \in Op
    BY DEF Role!Crash, Run, Op
  <2>2. roleCount' \in Count
    BY CountFacts DEF RoleBase, Role!Crash
  <2>3. QED
    BY <2>1, <2>2 DEF RoleBase, RoleTyped, Role!Crash
<1>2. Control'
  BY DEF RoleBase, RoleTyped, Control, Cfg, Hub, Run, Op, Count, Role!Crash
<1>3. Modes'
  BY DEF RoleBase, RoleTyped, Control, Modes, Cfg, Hub, Run, Op, Count, Role!Crash
<1>4. Alone'
  BY DEF RoleBase, RoleTyped, Control, Modes, Alone, Cfg, Hub, Run, Op, Count, Role!Crash
<1>5. Unserved'
  BY DEF RoleBase, RoleTyped, Control, Unserved, Cfg, Hub, Run, Op, Count, Role!Crash
<1> QED BY <1>1, <1>2, <1>3, <1>4, <1>5 DEF RoleBase

LEMMA CrashRest ==
  ASSUME OneFault, RoleInv, Role!Crash
  PROVE  RoleRest'
<1>1. Naming'
  BY DEF RoleInv, RoleBase, RoleRest, RoleTyped, Control, Modes, Naming, Unsaved, Agreed, Cfg,
         Hub, Run, Op, Count, Role!Crash
<1>2. Unsaved'
  BY DEF RoleInv, RoleBase, RoleRest, RoleTyped, Control, Modes, Naming, Unsaved, Reactivation,
         Agreed, Cfg, Hub, Run, Op, Count, Role!Crash
<1>3. Files'
  BY DEF RoleInv, RoleBase, RoleRest, RoleTyped, Control, Modes, Unserved, Naming, Unsaved,
         Files, Reactivation, Agreed, Role!MayOpen, Role!Consumed, Cfg, Hub, Run, Op, Count, Role!Crash
<1>4. Reactivation'
  BY DEF RoleInv, RoleBase, RoleRest, RoleTyped, Control, Modes, Naming, Files, Reactivation,
         Agreed, Role!MayOpen, Cfg, Hub, Run, Op, Count, Role!Crash
<1> QED BY <1>1, <1>2, <1>3, <1>4 DEF RoleRest

LEMMA StartBase ==
  ASSUME RoleBase, NEW ok \in BOOLEAN, NEW also \in BOOLEAN, Role!Start(ok, also)
  PROVE  RoleBase'
<1>1. RoleTyped'
  <2> DEFINE opens == cfg.role = "host" /\ ok /\ Role!MayOpen
  <2>1. cfg' \in Cfg
    BY DEF RoleBase, RoleTyped, Role!Start
  <2>2. roleHub' \in Hub
    BY DEF RoleBase, RoleTyped, Hub, Role!Start
  <2>3. run' \in Run
    <3>1. cfg.role \in {"member", "host"} /\ cfg.name \in TeamNames
      BY DEF RoleBase, RoleTyped, Cfg
    <3>2. PICK o \in BOOLEAN, a \in BOOLEAN, f \in BOOLEAN :
            run' = [up |-> TRUE, mode |-> cfg.role, store |-> o, accepting |-> o, attached |-> a, fenced |-> f,
                    peer |-> cfg.name, live |-> cfg.name]
      BY DEF Role!Start
    <3>3. QED
      BY <3>1, <3>2 DEF Run
  <2>4. op' \in Op
    <3>1. CASE roleJournal
      <4>1. op' = [Role!Idle EXCEPT !.k = "start", !.pc = "recover"]
        BY <3>1 DEF Role!Start
      <4>2. QED
        BY <4>1 DEF Op
    <3>2. CASE ~roleJournal
      <4>1. op' = Role!Idle
        BY <3>2 DEF Role!Start
      <4>2. QED
        BY <4>1 DEF Op
    <3>3. QED
      BY <3>1, <3>2
  <2>5. roleCount' \in Count
    BY AttemptFacts DEF RoleBase, RoleTyped, Role!Start
  <2>6. member' \in {Role!None, "active", "paused"} /\ roleJournal' \in BOOLEAN /\ served' \in BOOLEAN /\ undone' \in BOOLEAN
    BY DEF RoleBase, RoleTyped, Role!Start, Role!Paused, Role!Resumed
  <2>7. QED
    BY <2>1, <2>2, <2>3, <2>4, <2>5, <2>6 DEF RoleTyped
<1>2. Control'
  BY DEF RoleBase, RoleTyped, Control, Cfg, Hub, Run, Op, Count, Role!Start, Role!MayOpen, Role!Paused,
         Role!Resumed, Role!Attempt
<1>3. Modes'
  BY DEF RoleBase, RoleTyped, Control, Modes, Cfg, Hub, Run, Op, Count, Role!Start, Role!MayOpen, Role!Paused,
         Role!Resumed, Role!Attempt
<1>4. Alone'
  BY DEF RoleBase, RoleTyped, Control, Modes, Alone, Cfg, Hub, Run, Op, Count, Role!Start, Role!MayOpen,
         Role!Paused, Role!Resumed, Role!Attempt
<1>5. Unserved'
  BY DEF RoleBase, RoleTyped, Control, Unserved, Cfg, Hub, Run, Op, Count, Role!Start, Role!MayOpen,
         Role!Paused, Role!Resumed, Role!Attempt
<1> QED BY <1>1, <1>2, <1>3, <1>4, <1>5 DEF RoleBase

LEMMA StartRest ==
  ASSUME OneFault, RoleInv, NEW ok \in BOOLEAN, NEW also \in BOOLEAN, Role!Start(ok, also)
  PROVE  RoleRest'
<1>1. Naming'
  BY DEF RoleInv, RoleBase, RoleRest, RoleTyped, Control, Modes, Naming, Unsaved, Agreed, Cfg,
         Hub, Run, Op, Count, Role!Start, Role!MayOpen, Role!Paused, Role!Resumed, Role!Attempt
<1>2. Unsaved'
  BY DEF RoleInv, RoleBase, RoleRest, RoleTyped, Control, Modes, Naming, Unsaved, Reactivation,
         Agreed, Cfg, Hub, Run, Op, Count, Role!Start, Role!MayOpen, Role!Paused, Role!Resumed, Role!Attempt
<1>3. Files'
  BY DEF RoleInv, RoleBase, RoleRest, RoleTyped, Control, Modes, Unserved, Naming, Unsaved,
         Files, Reactivation, Agreed, Role!MayOpen, Role!Consumed, Cfg, Hub, Run, Op, Count, Role!Start,
         Role!Paused, Role!Resumed, Role!Attempt
<1>4. Reactivation'
  BY DEF RoleInv, RoleBase, RoleRest, RoleTyped, Control, Modes, Naming, Files, Reactivation,
         Agreed, Role!MayOpen, Cfg, Hub, Run, Op, Count, Role!Start, Role!Paused, Role!Resumed, Role!Attempt
<1> QED BY <1>1, <1>2, <1>3, <1>4 DEF RoleRest

LEMMA BaseStep ==
  ASSUME RoleBase, [Role!Next]_(Role!vars)
  PROVE  RoleBase'
<1>1. CASE UNCHANGED Role!vars
  BY <1>1 DEF RoleBase, RoleTyped, Control, Modes, Alone, Unserved, Role!vars
<1>2. CASE Role!Decide \/ Role!Inspect \/ Role!UndoName \/ Role!Undone \/ Role!RecoverStart \/ Role!NothingLeft \/ Role!Rolled \/ Role!Stuck
               \/ Role!PeerName \/ Role!HubWrite \/ Role!PollAttach \/ Role!Crash
  BY <1>2, DecideBase, InspectBase, UndoNameBase, UndoneBase, RecoverStartBase, NothingLeftBase,
     RolledBase, StuckBase, PeerNameBase, HubWriteBase, PollAttachBase, CrashBase
<1>3. CASE \E k \in {"enable", "disable"}, n \in TeamNames : Role!Ask(k, n)
  BY <1>3, AskBase
<1>4. ASSUME NEW ok \in BOOLEAN,
             Role!Configure(ok) \/ Role!Prepare(ok) \/ Role!Adopt(ok) \/ Role!Authorize(ok) \/ Role!WriteJournal(ok) \/ Role!Pause(ok)
             \/ Role!Open(ok) \/ Role!Commit(ok) \/ Role!Complete(ok) \/ Role!UndoConfig(ok) \/ Role!UndoPause(ok) \/ Role!Restore(ok)
             \/ Role!Acknowledge(ok) \/ Role!Abort(ok) \/ Role!PersistName(ok) \/ Role!PersistMember(ok) \/ Role!Demote(ok) \/ Role!Undemote(ok)
             \/ Role!ResumeMember(ok)
      PROVE  RoleBase'
  BY <1>4, ConfigureBase, PrepareBase, AdoptBase, AuthorizeBase, WriteJournalBase, PauseBase,
     OpenBase, CommitBase, CompleteBase, UndoConfigBase, UndoPauseBase, RestoreBase,
     AcknowledgeBase, AbortBase, PersistNameBase, PersistMemberBase, DemoteBase, UndemoteBase,
     ResumeMemberBase
<1>5. ASSUME NEW ok \in BOOLEAN, NEW also \in BOOLEAN,
             Role!Unfence(ok, also) \/ Role!Accept(ok, also) \/ Role!SettleHost(ok, also) \/ Role!Start(ok, also)
      PROVE  RoleBase'
  BY <1>5, UnfenceBase, AcceptBase, SettleHostBase, StartBase
<1>6. QED
  BY <1>1, <1>2, <1>3, <1>4, <1>5 DEF Role!Next

LEMMA RestStep ==
  ASSUME OneFault, RoleInv, [Role!Next]_(Role!vars)
  PROVE  RoleRest'
<1>1. CASE UNCHANGED Role!vars
  BY <1>1 DEF RoleInv, RoleBase, RoleRest, Naming, Unsaved, Files, Reactivation, Agreed,
         Role!MayOpen, Role!Consumed, Role!vars
<1>2. CASE Role!Decide \/ Role!Inspect \/ Role!UndoName \/ Role!Undone \/ Role!RecoverStart \/ Role!NothingLeft \/ Role!Rolled \/ Role!Stuck
               \/ Role!PeerName \/ Role!HubWrite \/ Role!PollAttach \/ Role!Crash
  BY <1>2, DecideRest, InspectRest, UndoNameRest, UndoneRest, RecoverStartRest, NothingLeftRest,
     RolledRest, StuckRest, PeerNameRest, HubWriteRest, PollAttachRest, CrashRest
<1>3. CASE \E k \in {"enable", "disable"}, n \in TeamNames : Role!Ask(k, n)
  BY <1>3, AskRest
<1>4. ASSUME NEW ok \in BOOLEAN,
             Role!Configure(ok) \/ Role!Prepare(ok) \/ Role!Adopt(ok) \/ Role!Authorize(ok) \/ Role!WriteJournal(ok) \/ Role!Pause(ok)
             \/ Role!Open(ok) \/ Role!Commit(ok) \/ Role!Complete(ok) \/ Role!UndoConfig(ok) \/ Role!UndoPause(ok) \/ Role!Restore(ok)
             \/ Role!Acknowledge(ok) \/ Role!Abort(ok) \/ Role!PersistName(ok) \/ Role!PersistMember(ok) \/ Role!Demote(ok) \/ Role!Undemote(ok)
             \/ Role!ResumeMember(ok)
      PROVE  RoleRest'
  BY <1>4, ConfigureRest, PrepareRest, AdoptRest, AuthorizeRest, WriteJournalRest, PauseRest,
     OpenRest, CommitRest, CompleteRest, UndoConfigRest, UndoPauseRest, RestoreRest,
     AcknowledgeRest, AbortRest, PersistNameRest, PersistMemberRest, DemoteRest, UndemoteRest,
     ResumeMemberRest
<1>5. ASSUME NEW ok \in BOOLEAN, NEW also \in BOOLEAN,
             Role!Unfence(ok, also) \/ Role!Accept(ok, also) \/ Role!SettleHost(ok, also) \/ Role!Start(ok, also)
      PROVE  RoleRest'
  BY <1>5, UnfenceRest, AcceptRest, SettleHostRest, StartRest
<1>6. QED
  BY <1>1, <1>2, <1>3, <1>4, <1>5 DEF Role!Next

LEMMA RoleStart ==
  ASSUME Role!Init
  PROVE  RoleBase
<1> SUFFICES ASSUME NEW n \in TeamNames, NEW files \in {Role!None, "whole"}, NEW m \in {Role!None, "active"},
                    cfg = [role |-> "member", name |-> n],
                    roleHub = [files |-> files, fence |-> Role!None, spent |-> FALSE, auth |-> FALSE,
                               receipt |-> Role!None],
                    member = m, roleJournal = FALSE,
                    run = [Role!Down EXCEPT !.up = TRUE, !.peer = n, !.live = n],
                    op = Role!Idle, served = FALSE, undone = FALSE,
                    roleCount = [asks |-> 0, faults |-> 0, crashes |-> 0]
             PROVE  RoleBase
  BY Zenon DEF Role!Init
<1>1. RoleTyped
  <2>1. cfg \in Cfg /\ roleHub \in Hub
    BY DEF Cfg, Hub
  <2>2. run \in Run
    BY DEF Run
  <2>3. op \in Op /\ roleCount \in Count
    BY DEF Op, Count
  <2>4. QED
    BY <2>1, <2>2, <2>3 DEF RoleTyped
<1>2. Control /\ Modes /\ Alone /\ Unserved
  BY DEF Control, Modes, Alone, Unserved
<1>3. QED
  BY <1>1, <1>2 DEF RoleBase

LEMMA RoleStartRest ==
  ASSUME Role!Init
  PROVE  RoleRest
BY DEF Role!Init, RoleRest, Naming, Unsaved, Files, Reactivation, Agreed, Role!MayOpen, Role!Consumed

LEMMA RoleSound ==
  ASSUME RoleInv
  PROVE  Role!HostRoleSound
<1>1. Role!OneRole /\ Role!AcknowledgedStands
  BY DEF RoleInv, RoleBase, Alone, Unserved, Role!OneRole, Role!AcknowledgedStands
<1>2. Role!RolesAgree
  BY DEF RoleInv, RoleRest, Naming, Agreed, Role!RolesAgree
<1>3. Role!NoWedge
  <2>1. run.up /\ op = Role!Idle => Agreed
    BY DEF RoleInv, RoleRest, Naming
  <2>2. cfg.role \in {"member", "host"} /\ run.mode \in {"member", "host"}
    BY DEF RoleInv, RoleBase, RoleTyped, Cfg, Run
  <2>3. run.accepting => run.store /\ run.mode = "host"
    BY DEF RoleInv, RoleBase, Modes
  <2>4. cfg.role = "host" => Role!MayOpen
    BY DEF RoleInv, RoleRest, Files
  <2>5. run.up /\ op = Role!Idle /\ roleJournal => Role!Recoverable \/ roleHub.receipt = "unnamed"
    <3> SUFFICES ASSUME run.up, op = Role!Idle, roleJournal
                 PROVE  Role!Recoverable \/ roleHub.receipt = "unnamed"
      OBVIOUS
    <3>1. CASE run.mode = "host"
      BY <2>1, <2>4, <3>1 DEF Agreed, Role!Recoverable
    <3>2. CASE run.mode = "member"
      <4>1. Role!Consumed \/ roleHub.fence = "adopted" \/ roleHub.receipt = "named"
        BY <2>1, <3>2 DEF RoleInv, RoleRest, Files, Agreed
      <4>2. roleHub.receipt \in {Role!None, "named", "unnamed"}
        BY DEF RoleInv, RoleBase, RoleTyped, Hub
      <4>3. QED
        BY <3>2, <4>1, <4>2 DEF Role!Recoverable
    <3>3. QED
      BY <2>2, <3>1, <3>2
  <2>6. run.up /\ op = Role!Idle /\ run.accepting /\ roleHub.fence # Role!None => roleJournal
    BY <2>1, <2>3 DEF RoleInv, RoleRest, Files, Agreed
  <2>7. roleHub.receipt = "named" => roleJournal
    BY DEF RoleInv, RoleRest, Files
  <2>8. QED
    BY <2>4, <2>5, <2>6, <2>7 DEF Role!NoWedge
<1>4. QED
  BY <1>1, <1>2, <1>3 DEF Role!HostRoleSound

(* However many steps of a role change fail and whenever the process dies,  *)
(* the local Hub and a membership elsewhere are never served side by side,  *)
(* and no write that the Hub acknowledged is taken back                     *)
(* (_activate_team_hub_host_sync, _rollback_team_hub_reactivation_sync).    *)
THEOREM RoleChangesAreSafe == Role!Spec => [](Role!OneRole /\ Role!AcknowledgedStands)
<1>1. Role!Init => RoleBase
  BY RoleStart
<1>2. RoleBase /\ [Role!Next]_(Role!vars) => RoleBase'
  BY BaseStep
<1>3. RoleBase => Role!OneRole /\ Role!AcknowledgedStands
  BY DEF RoleBase, Alone, Unserved, Role!OneRole, Role!AcknowledgedStands
<1>4. QED
  BY <1>1, <1>2, <1>3, PTL DEF Role!Spec

LEMMA RoleHolds ==
  ASSUME OneFault
  PROVE  Role!Spec => []Role!HostRoleSound
<1>1. Role!Init => RoleInv
  BY RoleStart, RoleStartRest DEF RoleInv
<1>2. RoleInv /\ [Role!Next]_(Role!vars) => RoleInv'
  BY BaseStep, RestStep DEF RoleInv
<1>3. RoleInv => Role!HostRoleSound
  BY RoleSound
<1>4. QED
  BY <1>1, <1>2, <1>3, PTL DEF Role!Spec

-----------------------------------------------------------------------------
(* Every upload declares a content, and a file has at least one chunk.     *)
Declared == BlobOf \in [Uploads -> Blobs] /\ Size \in Nat \ {0} /\ NoLetter \notin Letters

(* What is bound is ready, and what is uploading lacks a chunk.            *)
RowsTrue ==
  \A u \in Uploads : /\ Att!Bound(u) => row[u] = "ready"
                     /\ row[u] = "uploading" => got[u] < Size

(* The collector works off committed tombstones for a declaration that is  *)
(* not there yet, and what it has done is gone or in use.                  *)
DrainTrue ==
  attLease.op = "drain" =>
    /\ row[attLease.u] = "none" /\ attLease.todo \subseteq queue
    /\ \A u \in Uploads : Att!StagingKey(u) \in attLease.done => staged[u] = Att!Absent \/ u \in Att!Rows
    /\ \A b \in Blobs : Att!ContentKey(b) \in attLease.done => ~blob[b] \/ Att!Referenced(b)

(* A chunk that is staged is the next one of its row; what is published is *)
(* there.                                                                  *)
WriteTrue ==
  \A u \in Uploads :
    /\ attLease = Att!Writing(u, "staged") => row[u] = "uploading" /\ staged[u] = got[u] + 1
    /\ attLease = Att!Writing(u, "published") => row[u] = "uploading" /\ blob[BlobOf[u]]

AttInv == Att!TypeOK /\ Att!ReadyHasBytes /\ Att!NothingLeaked /\ RowsTrue /\ DrainTrue /\ WriteTrue

(* What a step may not do.                                                 *)
BoundKept == \A u \in Uploads : Att!Bound(u) => row'[u] = "ready" /\ owner'[u] = owner[u] /\ blob'[BlobOf[u]]
NewExact ==
  \A b \in Blobs : ~blob[b] /\ blob'[b] => \E u \in Uploads : BlobOf[u] = b /\ staged[u] = Size /\ bad[u] = {}
AttKept == AttInv' /\ BoundKept /\ NewExact

LEMMA LeaseShape ==
  ASSUME Att!TypeOK
  PROVE  /\ attLease = Att!Free \/ (\E u \in Uploads : attLease \in {Att!Writing(u, "staged"), Att!Writing(u, "published")})
            \/ attLease \in [op : {"drain"}, u : Uploads, todo : SUBSET Att!Keys, done : SUBSET Att!Keys]
         /\ attLease.op = "drain" => attLease \in [op : {"drain"}, u : Uploads, todo : SUBSET Att!Keys, done : SUBSET Att!Keys]
         /\ attLease.op = "drain" => attLease # Att!Free /\ \A u \in Uploads : attLease # Att!Writing(u, "staged") /\ attLease # Att!Writing(u, "published")
         /\ attLease = Att!Free => attLease.op # "drain" /\ \A u \in Uploads : attLease # Att!Writing(u, "staged") /\ attLease # Att!Writing(u, "published")
         /\ \A u \in Uploads, s \in {"staged", "published"} : attLease = Att!Writing(u, s) => attLease.op = s /\ attLease.u = u
  BY DEF Att!TypeOK, Att!Free, Att!Writing

LEMMA LeaseKinds ==
  /\ \A u, s : s \in {"staged", "published"} => Att!Writing(u, s) # Att!Free /\ Att!Writing(u, s).op = s /\ Att!Writing(u, s).u = u
  /\ \A u, todo, done : /\ Att!Draining(u, todo, done) # Att!Free /\ Att!Draining(u, todo, done).op = "drain"
                        /\ Att!Draining(u, todo, done).u = u /\ Att!Draining(u, todo, done).todo = todo
                        /\ Att!Draining(u, todo, done).done = done
  /\ \A u, todo, done, v, s : s \in {"staged", "published"} => Att!Draining(u, todo, done) # Att!Writing(v, s)
  /\ Att!Free.op = "free"
  BY DEF Att!Free, Att!Writing, Att!Draining

LEMMA KeyShape ==
  /\ \A u \in Uploads : Att!StagingKey(u) \in Att!Keys /\ Att!StagingKey(u).kind = "staging" /\ Att!StagingKey(u).key = u
  /\ \A b \in Blobs : Att!ContentKey(b) \in Att!Keys /\ Att!ContentKey(b).kind = "content" /\ Att!ContentKey(b).key = b
  /\ \A k \in Att!Keys : (k.kind = "staging" /\ k.key \in Uploads /\ k = Att!StagingKey(k.key))
                     \/ (k.kind = "content" /\ k.key \in Blobs /\ k = Att!ContentKey(k.key))
  /\ \A u \in Uploads, b \in Blobs : Att!StagingKey(u) # Att!ContentKey(b)
<1>1. \A u : Att!StagingKey(u).kind = "staging" /\ Att!StagingKey(u).key = u
  BY DEF Att!StagingKey
<1>2. \A b : Att!ContentKey(b).kind = "content" /\ Att!ContentKey(b).key = b
  BY DEF Att!ContentKey
<1>3. \A k \in Att!Keys : (\E u \in Uploads : k = Att!StagingKey(u)) \/ (\E b \in Blobs : k = Att!ContentKey(b))
  BY DEF Att!Keys
<1>4. /\ \A u \in Uploads : Att!StagingKey(u) \in Att!Keys
      /\ \A b \in Blobs : Att!ContentKey(b) \in Att!Keys
  BY DEF Att!Keys
<1>5. QED
  BY <1>1, <1>2, <1>3, <1>4

LEMMA DrainEffect ==
  ASSUME Declared, Att!TypeOK, NEW k \in Att!Keys, Att!Drain(k)
  PROVE  /\ row' = row /\ got' = got /\ expired' = expired /\ owner' = owner /\ queue' = queue
         /\ attLease' = Att!Draining(attLease.u, attLease.todo \ {k}, attLease.done \cup {k})
         /\ \A u \in Uploads : staged'[u] = IF Att!StagingKey(u) = k /\ u \notin Att!Rows THEN Att!Absent ELSE staged[u]
         /\ \A b \in Blobs : blob'[b] <=> blob[b] /\ (Att!ContentKey(b) = k => Att!Referenced(b))
<1>0. staged \in [Uploads -> Att!Absent..Size] /\ blob \in [Blobs -> BOOLEAN]
  BY DEF Att!TypeOK
<1>1. /\ row' = row /\ got' = got /\ expired' = expired /\ owner' = owner /\ queue' = queue
      /\ attLease' = Att!Draining(attLease.u, attLease.todo \ {k}, attLease.done \cup {k})
  BY DEF Att!Drain, Att!rowVars
<1>2. CASE k.kind = "staging"
  <2>0. PICK x \in Uploads : x = k.key /\ k = Att!StagingKey(x)
    BY <1>2, KeyShape
  <2>1. \A u \in Uploads : Att!StagingKey(u) = k <=> u = x
    BY <2>0, KeyShape
  <2>2. \A b \in Blobs : Att!ContentKey(b) # k
    BY <2>0, KeyShape
  <2>3. blob' = blob /\ staged' = IF x \in Att!Rows THEN staged ELSE [staged EXCEPT ![x] = Att!Absent]
    BY <1>2, <2>0 DEF Att!Drain, Att!Protected, Att!Unlinked, Att!fileVars
  <2>4. \A u \in Uploads : staged'[u] = IF u = x /\ u \notin Att!Rows THEN Att!Absent ELSE staged[u]
    BY <1>0, <2>3
  <2>5. QED
    BY <1>1, <2>1, <2>2, <2>3, <2>4
<1>3. CASE k.kind # "staging"
  <2>0. PICK x \in Blobs : x = k.key /\ k = Att!ContentKey(x)
    BY <1>3, KeyShape
  <2>1. \A b \in Blobs : Att!ContentKey(b) = k <=> b = x
    BY <2>0, KeyShape
  <2>2. \A u \in Uploads : Att!StagingKey(u) # k
    BY <2>0, KeyShape
  <2>3. staged' = staged /\ blob' = IF Att!Referenced(x) THEN blob ELSE [blob EXCEPT ![x] = FALSE]
    BY <1>3, <2>0 DEF Att!Drain, Att!Protected, Att!Unlinked, Att!fileVars
  <2>4. \A b \in Blobs : blob'[b] <=> blob[b] /\ (b = x => Att!Referenced(b))
    <3>1. CASE Att!Referenced(x)
      BY <2>3, <3>1
    <3>2. CASE ~Att!Referenced(x)
      BY <1>0, <2>3, <3>2
    <3>3. QED
      BY <3>1, <3>2
  <2>5. QED
    BY <1>1, <2>1, <2>2, <2>3, <2>4
<1>4. QED
  BY <1>2, <1>3

LEMMA PurgeKept ==
  ASSUME Declared, AttInv, NEW u \in Uploads, Att!Purge(u)
  PROVE  AttKept
<1>0. Att!TypeOK /\ Att!ReadyHasBytes /\ Att!NothingLeaked /\ RowsTrue /\ DrainTrue /\ WriteTrue
  BY DEF AttInv
<1>1. Att!TypeOK'
  <2>1. row' \in [Uploads -> {"none", "asked", "uploading", "ready", "failed", "gone"}]
    BY <1>0 DEF Att!TypeOK, Att!Purge
  <2>2. queue' \subseteq Att!Keys
    BY <1>0, KeyShape DEF Att!TypeOK, Att!Purge, Att!Stale, Att!Orphans, Att!Rows
  <2>3. attLease' \in [op : {"drain"}, u : Uploads, todo : SUBSET Att!Keys, done : SUBSET Att!Keys]
    BY <2>2 DEF Att!Purge, Att!Draining
  <2>4. QED
    BY <1>0, <2>1, <2>2, <2>3 DEF Att!TypeOK, Att!Purge, Att!fileVars
<1>2. Att!ReadyHasBytes'
  BY <1>0, LeaseShape, KeyShape DEF Att!Purge, Att!Stale, Att!Orphans, Att!Draining, Declared, Att!rowVars, Att!fileVars, Att!Absent, Att!TypeOK, Att!ReadyHasBytes, RowsTrue, WriteTrue, Att!Referenced, Att!Bound
<1>3. Att!NothingLeaked'
  <2>1. /\ staged' = staged /\ blob' = blob
        /\ queue' = queue \cup {Att!StagingKey(v) : v \in Att!Stale} \cup {Att!ContentKey(b) : b \in Att!Orphans(Att!Stale)}
        /\ \A v \in Uploads : row'[v] = IF v \in Att!Stale THEN "gone" ELSE row[v]
    BY <1>0 DEF Att!TypeOK, Att!Purge, Att!fileVars
  <2>2. Att!Stale \subseteq Att!Rows /\ Att!Rows \subseteq Uploads
    BY DEF Att!Stale, Att!Rows
  <2>3. ASSUME NEW v \in Uploads, staged'[v] # Att!Absent
        PROVE  v \in Att!Rows' \/ Att!StagingKey(v) \in queue'
    BY <1>0, <2>1, <2>2, <2>3 DEF Att!NothingLeaked, Att!Rows
  <2>4. ASSUME NEW b \in Blobs, blob'[b]
        PROVE  (\E v \in Att!Rows' : BlobOf[v] = b) \/ Att!ContentKey(b) \in queue'
    <3>1. CASE Att!ContentKey(b) \in queue
      BY <2>1, <3>1
    <3>2. CASE \E v \in Att!Rows \ Att!Stale : BlobOf[v] = b
      BY <2>1, <2>2, <3>2 DEF Att!Rows
    <3>3. CASE ~(\E v \in Att!Rows \ Att!Stale : BlobOf[v] = b) /\ \E v \in Att!Stale : BlobOf[v] = b
      <4>1. b \in Att!Orphans(Att!Stale)
        BY <2>2, <3>3 DEF Att!Orphans, Att!Rows
      <4>2. QED
        BY <2>1, <4>1
    <3>4. QED
      BY <1>0, <2>1, <2>2, <2>4, <3>1, <3>2, <3>3 DEF Att!NothingLeaked
  <2>5. QED
    BY <2>3, <2>4 DEF Att!NothingLeaked
<1>4. RowsTrue'
  BY <1>0, LeaseShape, KeyShape DEF Att!Purge, Att!Stale, Att!Orphans, Att!Draining, Declared, Att!rowVars, Att!fileVars, Att!Absent, Att!TypeOK, RowsTrue, DrainTrue, WriteTrue, Att!Bound
<1>5. DrainTrue'
  BY <1>0, LeaseShape, KeyShape DEF Att!Purge, Att!Stale, Att!Orphans, Att!Draining, Declared, Att!rowVars, Att!fileVars, Att!Absent, Att!TypeOK, DrainTrue, Att!Rows, Att!Referenced
<1>6. WriteTrue'
  BY <1>0, LeaseKinds DEF Att!Purge, Att!Stale, Att!Orphans, Declared, Att!rowVars, Att!fileVars, Att!Absent, Att!TypeOK, WriteTrue, RowsTrue
<1>7. BoundKept
  BY <1>0, LeaseShape, KeyShape DEF Att!Purge, Att!Stale, Att!Orphans, Att!Draining, Declared, Att!rowVars, Att!fileVars, Att!Absent, Att!TypeOK, RowsTrue, DrainTrue, WriteTrue, Att!ReadyHasBytes, BoundKept, Att!Bound, Att!Referenced
<1>8. NewExact
  BY <1>0, LeaseShape, KeyShape DEF Att!Purge, Att!Stale, Att!Orphans, Att!Draining, Declared, Att!rowVars, Att!fileVars, Att!Absent, Att!TypeOK, WriteTrue, NewExact
<1>9. QED
  BY <1>1, <1>2, <1>3, <1>4, <1>5, <1>6, <1>7, <1>8 DEF AttKept, AttInv

LEMMA DrainKept ==
  ASSUME Declared, AttInv, NEW k \in Att!Keys, Att!Drain(k)
  PROVE  AttKept
<1>0. Att!TypeOK /\ Att!ReadyHasBytes /\ Att!NothingLeaked /\ RowsTrue /\ DrainTrue /\ WriteTrue
  BY DEF AttInv
<1>1. Att!TypeOK'
  <2>1. attLease \in [op : {"drain"}, u : Uploads, todo : SUBSET Att!Keys, done : SUBSET Att!Keys]
    BY <1>0, LeaseShape DEF Att!Drain
  <2>2. attLease' \in [op : {"drain"}, u : Uploads, todo : SUBSET Att!Keys, done : SUBSET Att!Keys]
    BY <2>1 DEF Att!Drain, Att!Draining
  <2>3. staged' \in [Uploads -> Att!Absent..Size] /\ bad' \in [Uploads -> SUBSET (1..Size)] /\ blob' \in [Blobs -> BOOLEAN]
    <3>1. CASE Att!Protected(k)
      BY <1>0, <3>1 DEF Att!Drain, Att!fileVars, Att!TypeOK
    <3>2. CASE ~Att!Protected(k) /\ k.kind = "staging"
      <4>0. PICK x \in Uploads : x = k.key
        BY <3>2, KeyShape
      <4>1. staged' = [staged EXCEPT ![x] = Att!Absent] /\ bad' = [bad EXCEPT ![x] = {}] /\ blob' = blob
        BY <3>2, <4>0 DEF Att!Drain, Att!Unlinked
      <4>2. Att!Absent \in Att!Absent..Size
        BY DEF Att!Absent, Declared
      <4>3. staged' \in [Uploads -> Att!Absent..Size]
        BY <1>0, <4>1, <4>2 DEF Att!TypeOK
      <4>4. bad' \in [Uploads -> SUBSET (1..Size)]
        BY <1>0, <4>1 DEF Att!TypeOK
      <4>5. QED
        BY <1>0, <4>1, <4>3, <4>4 DEF Att!TypeOK
    <3>3. CASE ~Att!Protected(k) /\ k.kind # "staging"
      <4>0. PICK x \in Blobs : x = k.key
        BY <3>3, KeyShape
      <4>1. blob' = [blob EXCEPT ![x] = FALSE] /\ staged' = staged /\ bad' = bad
        BY <3>3, <4>0 DEF Att!Drain, Att!Unlinked
      <4>2. QED
        BY <1>0, <4>1 DEF Att!TypeOK
    <3>4. QED
      BY <3>1, <3>2, <3>3
  <2>4. QED
    <3>1. row' = row /\ got' = got /\ expired' = expired /\ owner' = owner /\ queue' = queue /\ sent' = sent
      BY DEF Att!Drain, Att!rowVars
    <3>2. QED
      BY <1>0, <2>2, <2>3, <3>1 DEF Att!TypeOK
<1>2. Att!ReadyHasBytes'
  BY <1>0, LeaseShape, KeyShape DEF Att!Drain, Att!Draining, Att!Protected, Att!Unlinked, Declared, Att!rowVars, Att!fileVars, Att!Absent, Att!TypeOK, Att!ReadyHasBytes, RowsTrue, WriteTrue, Att!Referenced, Att!Bound
<1>3. Att!NothingLeaked'
  <2>1. /\ Att!Rows' = Att!Rows /\ queue' = queue
        /\ \A u \in Uploads : staged'[u] # Att!Absent => staged[u] # Att!Absent
        /\ \A b \in Blobs : blob'[b] => blob[b]
    BY <1>0, DrainEffect DEF Att!Rows
  <2>2. QED
    BY <1>0, <2>1 DEF Att!NothingLeaked
<1>4. RowsTrue'
  BY <1>0, LeaseShape, KeyShape DEF Att!Drain, Att!Draining, Att!Protected, Att!Unlinked, Declared, Att!rowVars, Att!fileVars, Att!Absent, Att!TypeOK, RowsTrue, DrainTrue, WriteTrue, Att!Bound
<1>5. DrainTrue'
  <2>0. attLease \in [op : {"drain"}, u : Uploads, todo : SUBSET Att!Keys, done : SUBSET Att!Keys]
    BY <1>0, LeaseShape DEF Att!Drain
  <2>1. /\ row'[attLease'.u] = "none" /\ attLease'.todo \subseteq queue' /\ attLease'.done = attLease.done \cup {k}
    <3>1. row' = row /\ queue' = queue /\ attLease' = Att!Draining(attLease.u, attLease.todo \ {k}, attLease.done \cup {k})
      BY <1>0, DrainEffect
    <3>2. attLease'.u = attLease.u /\ attLease'.todo = attLease.todo \ {k} /\ attLease'.done = attLease.done \cup {k}
      BY <3>1 DEF Att!Draining
    <3>3. row[attLease.u] = "none" /\ attLease.todo \subseteq queue
      BY <1>0 DEF Att!Drain, DrainTrue
    <3>4. QED
      BY <3>1, <3>2, <3>3
  <2>2. Att!Rows' = Att!Rows /\ \A b \in Blobs : Att!Referenced(b)' <=> Att!Referenced(b)
    BY <1>0, DrainEffect DEF Att!Rows, Att!Referenced
  <2>3. ASSUME NEW u \in Uploads, Att!StagingKey(u) \in attLease'.done
        PROVE  staged'[u] = Att!Absent \/ u \in Att!Rows'
    BY <1>0, <2>0, <2>1, <2>2, <2>3, DrainEffect DEF DrainTrue
  <2>4. ASSUME NEW b \in Blobs, Att!ContentKey(b) \in attLease'.done
        PROVE  ~blob'[b] \/ Att!Referenced(b)'
    BY <1>0, <2>0, <2>1, <2>2, <2>4, DrainEffect DEF DrainTrue
  <2>5. QED
    BY <2>1, <2>3, <2>4 DEF DrainTrue
<1>6. WriteTrue'
  BY <1>0, LeaseKinds DEF Att!Drain, Att!Protected, Att!Unlinked, Declared, Att!rowVars, Att!fileVars, Att!Absent, Att!TypeOK, WriteTrue, RowsTrue
<1>7. BoundKept
  BY <1>0, LeaseShape, KeyShape DEF Att!Drain, Att!Draining, Att!Protected, Att!Unlinked, Declared, Att!rowVars, Att!fileVars, Att!Absent, Att!TypeOK, RowsTrue, DrainTrue, WriteTrue, Att!ReadyHasBytes, BoundKept, Att!Bound, Att!Referenced
<1>8. NewExact
  BY <1>0, LeaseShape, KeyShape DEF Att!Drain, Att!Draining, Att!Protected, Att!Unlinked, Declared, Att!rowVars, Att!fileVars, Att!Absent, Att!TypeOK, WriteTrue, NewExact
<1>9. QED
  BY <1>1, <1>2, <1>3, <1>4, <1>5, <1>6, <1>7, <1>8 DEF AttKept, AttInv

LEMMA DrainFailsKept ==
  ASSUME Declared, AttInv, NEW k \in Att!Keys, Att!DrainFails(k)
  PROVE  AttKept
<1>0. Att!TypeOK /\ Att!ReadyHasBytes /\ Att!NothingLeaked /\ RowsTrue /\ DrainTrue /\ WriteTrue
  BY DEF AttInv
<1>1. Att!TypeOK'
  BY <1>0, LeaseShape, KeyShape DEF Att!DrainFails, Att!Draining, Att!Fault, Att!Protected, Declared, Att!rowVars, Att!fileVars, Att!Absent, Att!TypeOK
<1>2. Att!ReadyHasBytes'
  BY <1>0, LeaseShape, KeyShape DEF Att!DrainFails, Att!Draining, Att!Fault, Att!Protected, Declared, Att!rowVars, Att!fileVars, Att!Absent, Att!TypeOK, Att!ReadyHasBytes, RowsTrue, WriteTrue, Att!Referenced, Att!Bound
<1>3. Att!NothingLeaked'
  BY <1>0, LeaseShape, KeyShape DEF Att!DrainFails, Att!Draining, Att!Fault, Att!Protected, Declared, Att!rowVars, Att!fileVars, Att!Absent, Att!TypeOK, Att!NothingLeaked, RowsTrue, DrainTrue, WriteTrue, Att!Rows, Att!Referenced
<1>4. RowsTrue'
  BY <1>0, LeaseShape, KeyShape DEF Att!DrainFails, Att!Draining, Att!Fault, Att!Protected, Declared, Att!rowVars, Att!fileVars, Att!Absent, Att!TypeOK, RowsTrue, DrainTrue, WriteTrue, Att!Bound
<1>5. DrainTrue'
  BY <1>0, LeaseShape, KeyShape DEF Att!DrainFails, Att!Draining, Att!Fault, Att!Protected, Declared, Att!rowVars, Att!fileVars, Att!Absent, Att!TypeOK, DrainTrue, Att!Rows, Att!Referenced
<1>6. WriteTrue'
  BY <1>0, LeaseKinds DEF Att!DrainFails, Att!Fault, Att!Protected, Declared, Att!rowVars, Att!fileVars, Att!Absent, Att!TypeOK, WriteTrue, RowsTrue
<1>7. BoundKept
  BY <1>0, LeaseShape, KeyShape DEF Att!DrainFails, Att!Draining, Att!Fault, Att!Protected, Declared, Att!rowVars, Att!fileVars, Att!Absent, Att!TypeOK, RowsTrue, DrainTrue, WriteTrue, Att!ReadyHasBytes, BoundKept, Att!Bound, Att!Referenced
<1>8. NewExact
  BY <1>0, LeaseShape, KeyShape DEF Att!DrainFails, Att!Draining, Att!Fault, Att!Protected, Declared, Att!rowVars, Att!fileVars, Att!Absent, Att!TypeOK, WriteTrue, NewExact
<1>9. QED
  BY <1>1, <1>2, <1>3, <1>4, <1>5, <1>6, <1>7, <1>8 DEF AttKept, AttInv

LEMMA DrainCommitKept ==
  ASSUME Declared, AttInv, Att!DrainCommit
  PROVE  AttKept
<1>0. Att!TypeOK /\ Att!ReadyHasBytes /\ Att!NothingLeaked /\ RowsTrue /\ DrainTrue /\ WriteTrue
  BY DEF AttInv
<1>1. Att!TypeOK'
  BY <1>0, LeaseShape, KeyShape DEF Att!DrainCommit, Att!Free, Declared, Att!rowVars, Att!fileVars, Att!Absent, Att!TypeOK
<1>2. Att!ReadyHasBytes'
  BY <1>0, LeaseShape, KeyShape DEF Att!DrainCommit, Att!Free, Declared, Att!rowVars, Att!fileVars, Att!Absent, Att!TypeOK, Att!ReadyHasBytes, RowsTrue, WriteTrue, Att!Referenced, Att!Bound
<1>3. Att!NothingLeaked'
  BY <1>0, LeaseShape, KeyShape DEF Att!DrainCommit, Att!Free, Declared, Att!rowVars, Att!fileVars, Att!Absent, Att!TypeOK, Att!NothingLeaked, RowsTrue, DrainTrue, WriteTrue, Att!Rows, Att!Referenced
<1>4. RowsTrue'
  BY <1>0, LeaseShape, KeyShape DEF Att!DrainCommit, Att!Free, Declared, Att!rowVars, Att!fileVars, Att!Absent, Att!TypeOK, RowsTrue, DrainTrue, WriteTrue, Att!Bound
<1>5. DrainTrue'
  BY <1>0, LeaseShape, KeyShape DEF Att!DrainCommit, Att!Free, Declared, Att!rowVars, Att!fileVars, Att!Absent, Att!TypeOK, DrainTrue, Att!Rows, Att!Referenced
<1>6. WriteTrue'
  BY <1>0, LeaseKinds DEF Att!DrainCommit, Declared, Att!rowVars, Att!fileVars, Att!Absent, Att!TypeOK, WriteTrue, RowsTrue
<1>7. BoundKept
  BY <1>0, LeaseShape, KeyShape DEF Att!DrainCommit, Att!Free, Declared, Att!rowVars, Att!fileVars, Att!Absent, Att!TypeOK, RowsTrue, DrainTrue, WriteTrue, Att!ReadyHasBytes, BoundKept, Att!Bound, Att!Referenced
<1>8. NewExact
  BY <1>0, LeaseShape, KeyShape DEF Att!DrainCommit, Att!Free, Declared, Att!rowVars, Att!fileVars, Att!Absent, Att!TypeOK, WriteTrue, NewExact
<1>9. QED
  BY <1>1, <1>2, <1>3, <1>4, <1>5, <1>6, <1>7, <1>8 DEF AttKept, AttInv

LEMMA DeclareKept ==
  ASSUME Declared, AttInv, NEW u \in Uploads, Att!Declare(u)
  PROVE  AttKept
<1>0. Att!TypeOK /\ Att!ReadyHasBytes /\ Att!NothingLeaked /\ RowsTrue /\ DrainTrue /\ WriteTrue
  BY DEF AttInv
<1>1. Att!TypeOK'
  BY <1>0, LeaseShape, KeyShape DEF Att!Declare, Att!Stored, Declared, Att!rowVars, Att!fileVars, Att!Absent, Att!TypeOK
<1>2. Att!ReadyHasBytes'
  BY <1>0, LeaseShape, KeyShape DEF Att!Declare, Att!Stored, Declared, Att!rowVars, Att!fileVars, Att!Absent, Att!TypeOK, Att!ReadyHasBytes, RowsTrue, WriteTrue, Att!Referenced, Att!Bound
<1>3. Att!NothingLeaked'
  BY <1>0, LeaseShape, KeyShape DEF Att!Declare, Att!Stored, Declared, Att!rowVars, Att!fileVars, Att!Absent, Att!TypeOK, Att!NothingLeaked, RowsTrue, DrainTrue, WriteTrue, Att!Rows, Att!Referenced
<1>4. RowsTrue'
  BY <1>0, LeaseShape, KeyShape DEF Att!Declare, Att!Stored, Declared, Att!rowVars, Att!fileVars, Att!Absent, Att!TypeOK, RowsTrue, DrainTrue, WriteTrue, Att!Bound
<1>5. DrainTrue'
  BY <1>0, LeaseShape, KeyShape DEF Att!Declare, Att!Stored, Declared, Att!rowVars, Att!fileVars, Att!Absent, Att!TypeOK, DrainTrue, Att!Rows, Att!Referenced
<1>6. WriteTrue'
  BY <1>0, LeaseKinds DEF Att!Declare, Att!Stored, Declared, Att!rowVars, Att!fileVars, Att!Absent, Att!TypeOK, WriteTrue, RowsTrue
<1>7. BoundKept
  BY <1>0, LeaseShape, KeyShape DEF Att!Declare, Att!Stored, Declared, Att!rowVars, Att!fileVars, Att!Absent, Att!TypeOK, RowsTrue, DrainTrue, WriteTrue, Att!ReadyHasBytes, BoundKept, Att!Bound, Att!Referenced
<1>8. NewExact
  BY <1>0, LeaseShape, KeyShape DEF Att!Declare, Att!Stored, Declared, Att!rowVars, Att!fileVars, Att!Absent, Att!TypeOK, WriteTrue, NewExact
<1>9. QED
  BY <1>1, <1>2, <1>3, <1>4, <1>5, <1>6, <1>7, <1>8 DEF AttKept, AttInv

LEMMA RefusedKept ==
  ASSUME Declared, AttInv, NEW u \in Uploads, Att!DeclareRefused(u)
  PROVE  AttKept
<1>0. Att!TypeOK /\ Att!ReadyHasBytes /\ Att!NothingLeaked /\ RowsTrue /\ DrainTrue /\ WriteTrue
  BY DEF AttInv
<1>1. Att!TypeOK'
  BY <1>0, LeaseShape, KeyShape DEF Att!DeclareRefused, Att!Counted, Declared, Att!rowVars, Att!fileVars, Att!Absent, Att!TypeOK
<1>2. Att!ReadyHasBytes'
  BY <1>0, LeaseShape, KeyShape DEF Att!DeclareRefused, Att!Counted, Declared, Att!rowVars, Att!fileVars, Att!Absent, Att!TypeOK, Att!ReadyHasBytes, RowsTrue, WriteTrue, Att!Referenced, Att!Bound
<1>3. Att!NothingLeaked'
  BY <1>0, LeaseShape, KeyShape DEF Att!DeclareRefused, Att!Counted, Declared, Att!rowVars, Att!fileVars, Att!Absent, Att!TypeOK, Att!NothingLeaked, RowsTrue, DrainTrue, WriteTrue, Att!Rows, Att!Referenced
<1>4. RowsTrue'
  BY <1>0, LeaseShape, KeyShape DEF Att!DeclareRefused, Att!Counted, Declared, Att!rowVars, Att!fileVars, Att!Absent, Att!TypeOK, RowsTrue, DrainTrue, WriteTrue, Att!Bound
<1>5. DrainTrue'
  BY <1>0, LeaseShape, KeyShape DEF Att!DeclareRefused, Att!Counted, Declared, Att!rowVars, Att!fileVars, Att!Absent, Att!TypeOK, DrainTrue, Att!Rows, Att!Referenced
<1>6. WriteTrue'
  BY <1>0, LeaseKinds DEF Att!DeclareRefused, Att!Counted, Declared, Att!rowVars, Att!fileVars, Att!Absent, Att!TypeOK, WriteTrue, RowsTrue
<1>7. BoundKept
  BY <1>0, LeaseShape, KeyShape DEF Att!DeclareRefused, Att!Counted, Declared, Att!rowVars, Att!fileVars, Att!Absent, Att!TypeOK, RowsTrue, DrainTrue, WriteTrue, Att!ReadyHasBytes, BoundKept, Att!Bound, Att!Referenced
<1>8. NewExact
  BY <1>0, LeaseShape, KeyShape DEF Att!DeclareRefused, Att!Counted, Declared, Att!rowVars, Att!fileVars, Att!Absent, Att!TypeOK, WriteTrue, NewExact
<1>9. QED
  BY <1>1, <1>2, <1>3, <1>4, <1>5, <1>6, <1>7, <1>8 DEF AttKept, AttInv

LEMMA ReplayKept ==
  ASSUME Declared, AttInv, NEW u \in Uploads, Att!WriteReplay(u)
  PROVE  AttKept
<1>0. Att!TypeOK /\ Att!ReadyHasBytes /\ Att!NothingLeaked /\ RowsTrue /\ DrainTrue /\ WriteTrue
  BY DEF AttInv
<1>1. Att!TypeOK'
  BY <1>0, LeaseShape, KeyShape DEF Att!WriteReplay, Att!Published, Att!MarkReady, Att!Final, Declared, Att!rowVars, Att!fileVars, Att!Absent, Att!TypeOK
<1>2. Att!ReadyHasBytes'
  BY <1>0, LeaseShape, KeyShape DEF Att!WriteReplay, Att!Published, Att!MarkReady, Att!Final, Declared, Att!rowVars, Att!fileVars, Att!Absent, Att!TypeOK, Att!ReadyHasBytes, RowsTrue, WriteTrue, Att!Referenced, Att!Bound
<1>3. Att!NothingLeaked'
  BY <1>0, LeaseShape, KeyShape DEF Att!WriteReplay, Att!Published, Att!MarkReady, Att!Final, Declared, Att!rowVars, Att!fileVars, Att!Absent, Att!TypeOK, Att!NothingLeaked, RowsTrue, DrainTrue, WriteTrue, Att!Rows, Att!Referenced
<1>4. RowsTrue'
  BY <1>0, LeaseShape, KeyShape DEF Att!WriteReplay, Att!Published, Att!MarkReady, Att!Final, Declared, Att!rowVars, Att!fileVars, Att!Absent, Att!TypeOK, RowsTrue, DrainTrue, WriteTrue, Att!Bound
<1>5. DrainTrue'
  BY <1>0, LeaseShape, KeyShape DEF Att!WriteReplay, Att!Published, Att!MarkReady, Att!Final, Declared, Att!rowVars, Att!fileVars, Att!Absent, Att!TypeOK, DrainTrue, Att!Rows, Att!Referenced
<1>6. WriteTrue'
  BY <1>0, LeaseKinds DEF Att!WriteReplay, Att!Published, Att!MarkReady, Att!Final, Declared, Att!rowVars, Att!fileVars, Att!Absent, Att!TypeOK, WriteTrue, RowsTrue
<1>7. BoundKept
  BY <1>0, LeaseShape, KeyShape DEF Att!WriteReplay, Att!Published, Att!MarkReady, Att!Final, Declared, Att!rowVars, Att!fileVars, Att!Absent, Att!TypeOK, RowsTrue, DrainTrue, WriteTrue, Att!ReadyHasBytes, BoundKept, Att!Bound, Att!Referenced
<1>8. NewExact
  BY <1>0, LeaseShape, KeyShape DEF Att!WriteReplay, Att!Published, Att!MarkReady, Att!Final, Declared, Att!rowVars, Att!fileVars, Att!Absent, Att!TypeOK, WriteTrue, NewExact
<1>9. QED
  BY <1>1, <1>2, <1>3, <1>4, <1>5, <1>6, <1>7, <1>8 DEF AttKept, AttInv

LEMMA ChunkKept ==
  ASSUME Declared, AttInv, NEW u \in Uploads, Att!WriteChunk(u)
  PROVE  AttKept
<1>0. Att!TypeOK /\ Att!ReadyHasBytes /\ Att!NothingLeaked /\ RowsTrue /\ DrainTrue /\ WriteTrue
  BY DEF AttInv
<1>1. Att!TypeOK'
  <2>1. got[u] \in 0..Size /\ got[u] < Size /\ Size \in Nat
    BY <1>0 DEF Att!TypeOK, RowsTrue, Att!WriteChunk, Declared
  <2>2. staged' \in [Uploads -> Att!Absent..Size]
    BY <1>0, <2>1 DEF Att!TypeOK, Att!WriteChunk, Att!Appended, Att!Absent
  <2>3. bad' \in [Uploads -> SUBSET (1..Size)]
    <3>1. PICK wrong \in BOOLEAN : bad' = [bad EXCEPT ![u] = {c \in @ : c <= got[u]} \cup (IF wrong THEN {got[u] + 1} ELSE {})]
      BY DEF Att!WriteChunk
    <3>2. {c \in bad[u] : c <= got[u]} \cup (IF wrong THEN {got[u] + 1} ELSE {}) \in SUBSET (1..Size)
      BY <1>0, <2>1 DEF Att!TypeOK
    <3>3. QED
      BY <1>0, <3>1, <3>2 DEF Att!TypeOK
  <2>4. attLease' \in {Att!Writing(v, s) : v \in Uploads, s \in {"staged", "published"}}
    BY DEF Att!WriteChunk
  <2>5. QED
    BY <1>0, <2>2, <2>3, <2>4 DEF Att!TypeOK, Att!WriteChunk, Att!rowVars
<1>2. Att!ReadyHasBytes'
  BY <1>0, LeaseShape, KeyShape DEF Att!WriteChunk, Att!Published, Att!Final, Att!Appendable, Att!Appended, Att!Fault, Att!Writing, Declared, Att!rowVars, Att!fileVars, Att!Absent, Att!TypeOK, Att!ReadyHasBytes, RowsTrue, WriteTrue, Att!Referenced, Att!Bound
<1>3. Att!NothingLeaked'
  BY <1>0, LeaseShape, KeyShape DEF Att!WriteChunk, Att!Published, Att!Final, Att!Appendable, Att!Appended, Att!Fault, Att!Writing, Declared, Att!rowVars, Att!fileVars, Att!Absent, Att!TypeOK, Att!NothingLeaked, RowsTrue, DrainTrue, WriteTrue, Att!Rows, Att!Referenced
<1>4. RowsTrue'
  BY <1>0, LeaseShape, KeyShape DEF Att!WriteChunk, Att!Published, Att!Final, Att!Appendable, Att!Appended, Att!Fault, Att!Writing, Declared, Att!rowVars, Att!fileVars, Att!Absent, Att!TypeOK, RowsTrue, DrainTrue, WriteTrue, Att!Bound
<1>5. DrainTrue'
  BY <1>0, LeaseShape, KeyShape DEF Att!WriteChunk, Att!Published, Att!Final, Att!Appendable, Att!Appended, Att!Fault, Att!Writing, Declared, Att!rowVars, Att!fileVars, Att!Absent, Att!TypeOK, DrainTrue, Att!Rows, Att!Referenced
<1>6. WriteTrue'
  BY <1>0, LeaseKinds DEF Att!WriteChunk, Att!Published, Att!Final, Att!Appendable, Att!Appended, Att!Fault, Declared, Att!rowVars, Att!fileVars, Att!Absent, Att!TypeOK, WriteTrue, RowsTrue
<1>7. BoundKept
  BY <1>0, LeaseShape, KeyShape DEF Att!WriteChunk, Att!Published, Att!Final, Att!Appendable, Att!Appended, Att!Fault, Att!Writing, Declared, Att!rowVars, Att!fileVars, Att!Absent, Att!TypeOK, RowsTrue, DrainTrue, WriteTrue, Att!ReadyHasBytes, BoundKept, Att!Bound, Att!Referenced
<1>8. NewExact
  BY <1>0, LeaseShape, KeyShape DEF Att!WriteChunk, Att!Published, Att!Final, Att!Appendable, Att!Appended, Att!Fault, Att!Writing, Declared, Att!rowVars, Att!fileVars, Att!Absent, Att!TypeOK, WriteTrue, NewExact
<1>9. QED
  BY <1>1, <1>2, <1>3, <1>4, <1>5, <1>6, <1>7, <1>8 DEF AttKept, AttInv

LEMMA FailsKept ==
  ASSUME Declared, AttInv, NEW u \in Uploads, Att!WriteFails(u)
  PROVE  AttKept
<1>0. Att!TypeOK /\ Att!ReadyHasBytes /\ Att!NothingLeaked /\ RowsTrue /\ DrainTrue /\ WriteTrue
  BY DEF AttInv
<1>1. Att!TypeOK'
  BY <1>0, LeaseShape, KeyShape DEF Att!WriteFails, Att!MarkFailed, Declared, Att!rowVars, Att!fileVars, Att!Absent, Att!TypeOK
<1>2. Att!ReadyHasBytes'
  BY <1>0, LeaseShape, KeyShape DEF Att!WriteFails, Att!MarkFailed, Declared, Att!rowVars, Att!fileVars, Att!Absent, Att!TypeOK, Att!ReadyHasBytes, RowsTrue, WriteTrue, Att!Referenced, Att!Bound
<1>3. Att!NothingLeaked'
  BY <1>0, LeaseShape, KeyShape DEF Att!WriteFails, Att!MarkFailed, Declared, Att!rowVars, Att!fileVars, Att!Absent, Att!TypeOK, Att!NothingLeaked, RowsTrue, DrainTrue, WriteTrue, Att!Rows, Att!Referenced
<1>4. RowsTrue'
  BY <1>0, LeaseShape, KeyShape DEF Att!WriteFails, Att!MarkFailed, Declared, Att!rowVars, Att!fileVars, Att!Absent, Att!TypeOK, RowsTrue, DrainTrue, WriteTrue, Att!Bound
<1>5. DrainTrue'
  BY <1>0, LeaseShape, KeyShape DEF Att!WriteFails, Att!MarkFailed, Declared, Att!rowVars, Att!fileVars, Att!Absent, Att!TypeOK, DrainTrue, Att!Rows, Att!Referenced
<1>6. WriteTrue'
  BY <1>0, LeaseKinds DEF Att!WriteFails, Att!MarkFailed, Declared, Att!rowVars, Att!fileVars, Att!Absent, Att!TypeOK, WriteTrue, RowsTrue
<1>7. BoundKept
  BY <1>0, LeaseShape, KeyShape DEF Att!WriteFails, Att!MarkFailed, Declared, Att!rowVars, Att!fileVars, Att!Absent, Att!TypeOK, RowsTrue, DrainTrue, WriteTrue, Att!ReadyHasBytes, BoundKept, Att!Bound, Att!Referenced
<1>8. NewExact
  BY <1>0, LeaseShape, KeyShape DEF Att!WriteFails, Att!MarkFailed, Declared, Att!rowVars, Att!fileVars, Att!Absent, Att!TypeOK, WriteTrue, NewExact
<1>9. QED
  BY <1>1, <1>2, <1>3, <1>4, <1>5, <1>6, <1>7, <1>8 DEF AttKept, AttInv

LEMMA CommitKept ==
  ASSUME Declared, AttInv, NEW u \in Uploads, Att!WriteCommit(u)
  PROVE  AttKept
<1>0. Att!TypeOK /\ Att!ReadyHasBytes /\ Att!NothingLeaked /\ RowsTrue /\ DrainTrue /\ WriteTrue
  BY DEF AttInv
<1>1. Att!TypeOK'
  <2>1. got' \in [Uploads -> 0..Size]
    BY <1>0 DEF Att!TypeOK, RowsTrue, WriteTrue, Att!WriteCommit, Att!Final, Declared
  <2>2. QED
    BY <1>0, <2>1 DEF Att!TypeOK, Att!WriteCommit, Att!fileVars
<1>2. Att!ReadyHasBytes'
  BY <1>0, LeaseShape, KeyShape DEF Att!WriteCommit, Att!Final, Att!Free, Declared, Att!rowVars, Att!fileVars, Att!Absent, Att!TypeOK, Att!ReadyHasBytes, RowsTrue, WriteTrue, Att!Referenced, Att!Bound
<1>3. Att!NothingLeaked'
  BY <1>0, LeaseShape, KeyShape DEF Att!WriteCommit, Att!Final, Att!Free, Declared, Att!rowVars, Att!fileVars, Att!Absent, Att!TypeOK, Att!NothingLeaked, RowsTrue, DrainTrue, WriteTrue, Att!Rows, Att!Referenced
<1>4. RowsTrue'
  BY <1>0, LeaseShape, KeyShape DEF Att!WriteCommit, Att!Final, Att!Free, Declared, Att!rowVars, Att!fileVars, Att!Absent, Att!TypeOK, RowsTrue, DrainTrue, WriteTrue, Att!Bound
<1>5. DrainTrue'
  BY <1>0, LeaseShape, KeyShape DEF Att!WriteCommit, Att!Final, Att!Free, Declared, Att!rowVars, Att!fileVars, Att!Absent, Att!TypeOK, DrainTrue, Att!Rows, Att!Referenced
<1>6. WriteTrue'
  BY <1>0, LeaseKinds DEF Att!WriteCommit, Att!Final, Declared, Att!rowVars, Att!fileVars, Att!Absent, Att!TypeOK, WriteTrue, RowsTrue
<1>7. BoundKept
  BY <1>0, LeaseShape, KeyShape DEF Att!WriteCommit, Att!Final, Att!Free, Declared, Att!rowVars, Att!fileVars, Att!Absent, Att!TypeOK, RowsTrue, DrainTrue, WriteTrue, Att!ReadyHasBytes, BoundKept, Att!Bound, Att!Referenced
<1>8. NewExact
  BY <1>0, LeaseShape, KeyShape DEF Att!WriteCommit, Att!Final, Att!Free, Declared, Att!rowVars, Att!fileVars, Att!Absent, Att!TypeOK, WriteTrue, NewExact
<1>9. QED
  BY <1>1, <1>2, <1>3, <1>4, <1>5, <1>6, <1>7, <1>8 DEF AttKept, AttInv

LEMMA MismatchKept ==
  ASSUME Declared, AttInv, NEW u \in Uploads, Att!WriteMismatch(u)
  PROVE  AttKept
<1>0. Att!TypeOK /\ Att!ReadyHasBytes /\ Att!NothingLeaked /\ RowsTrue /\ DrainTrue /\ WriteTrue
  BY DEF AttInv
<1>1. Att!TypeOK'
  BY <1>0, LeaseShape, KeyShape DEF Att!WriteMismatch, Att!Final, Att!MarkFailed, Att!Free, Declared, Att!rowVars, Att!fileVars, Att!Absent, Att!TypeOK
<1>2. Att!ReadyHasBytes'
  BY <1>0, LeaseShape, KeyShape DEF Att!WriteMismatch, Att!Final, Att!MarkFailed, Att!Free, Declared, Att!rowVars, Att!fileVars, Att!Absent, Att!TypeOK, Att!ReadyHasBytes, RowsTrue, WriteTrue, Att!Referenced, Att!Bound
<1>3. Att!NothingLeaked'
  BY <1>0, LeaseShape, KeyShape DEF Att!WriteMismatch, Att!Final, Att!MarkFailed, Att!Free, Declared, Att!rowVars, Att!fileVars, Att!Absent, Att!TypeOK, Att!NothingLeaked, RowsTrue, DrainTrue, WriteTrue, Att!Rows, Att!Referenced
<1>4. RowsTrue'
  BY <1>0, LeaseShape, KeyShape DEF Att!WriteMismatch, Att!Final, Att!MarkFailed, Att!Free, Declared, Att!rowVars, Att!fileVars, Att!Absent, Att!TypeOK, RowsTrue, DrainTrue, WriteTrue, Att!Bound
<1>5. DrainTrue'
  BY <1>0, LeaseShape, KeyShape DEF Att!WriteMismatch, Att!Final, Att!MarkFailed, Att!Free, Declared, Att!rowVars, Att!fileVars, Att!Absent, Att!TypeOK, DrainTrue, Att!Rows, Att!Referenced
<1>6. WriteTrue'
  BY <1>0, LeaseKinds DEF Att!WriteMismatch, Att!Final, Att!MarkFailed, Declared, Att!rowVars, Att!fileVars, Att!Absent, Att!TypeOK, WriteTrue, RowsTrue
<1>7. BoundKept
  BY <1>0, LeaseShape, KeyShape DEF Att!WriteMismatch, Att!Final, Att!MarkFailed, Att!Free, Declared, Att!rowVars, Att!fileVars, Att!Absent, Att!TypeOK, RowsTrue, DrainTrue, WriteTrue, Att!ReadyHasBytes, BoundKept, Att!Bound, Att!Referenced
<1>8. NewExact
  BY <1>0, LeaseShape, KeyShape DEF Att!WriteMismatch, Att!Final, Att!MarkFailed, Att!Free, Declared, Att!rowVars, Att!fileVars, Att!Absent, Att!TypeOK, WriteTrue, NewExact
<1>9. QED
  BY <1>1, <1>2, <1>3, <1>4, <1>5, <1>6, <1>7, <1>8 DEF AttKept, AttInv

LEMMA PublishKept ==
  ASSUME Declared, AttInv, NEW u \in Uploads, Att!WritePublish(u)
  PROVE  AttKept
<1>0. Att!TypeOK /\ Att!ReadyHasBytes /\ Att!NothingLeaked /\ RowsTrue /\ DrainTrue /\ WriteTrue
  BY DEF AttInv
<1>1. Att!TypeOK'
  BY <1>0, LeaseShape, KeyShape DEF Att!WritePublish, Att!Final, Att!Verified, Att!Writing, Declared, Att!rowVars, Att!fileVars, Att!Absent, Att!TypeOK
<1>2. Att!ReadyHasBytes'
  BY <1>0, LeaseShape, KeyShape DEF Att!WritePublish, Att!Final, Att!Verified, Att!Writing, Declared, Att!rowVars, Att!fileVars, Att!Absent, Att!TypeOK, Att!ReadyHasBytes, RowsTrue, WriteTrue, Att!Referenced, Att!Bound
<1>3. Att!NothingLeaked'
  BY <1>0, LeaseShape, KeyShape DEF Att!WritePublish, Att!Final, Att!Verified, Att!Writing, Declared, Att!rowVars, Att!fileVars, Att!Absent, Att!TypeOK, Att!NothingLeaked, RowsTrue, DrainTrue, WriteTrue, Att!Rows, Att!Referenced
<1>4. RowsTrue'
  BY <1>0, LeaseShape, KeyShape DEF Att!WritePublish, Att!Final, Att!Verified, Att!Writing, Declared, Att!rowVars, Att!fileVars, Att!Absent, Att!TypeOK, RowsTrue, DrainTrue, WriteTrue, Att!Bound
<1>5. DrainTrue'
  BY <1>0, LeaseShape, KeyShape DEF Att!WritePublish, Att!Final, Att!Verified, Att!Writing, Declared, Att!rowVars, Att!fileVars, Att!Absent, Att!TypeOK, DrainTrue, Att!Rows, Att!Referenced
<1>6. WriteTrue'
  BY <1>0, LeaseKinds DEF Att!WritePublish, Att!Final, Att!Verified, Declared, Att!rowVars, Att!fileVars, Att!Absent, Att!TypeOK, WriteTrue, RowsTrue
<1>7. BoundKept
  BY <1>0, LeaseShape, KeyShape DEF Att!WritePublish, Att!Final, Att!Verified, Att!Writing, Declared, Att!rowVars, Att!fileVars, Att!Absent, Att!TypeOK, RowsTrue, DrainTrue, WriteTrue, Att!ReadyHasBytes, BoundKept, Att!Bound, Att!Referenced
<1>8. NewExact
  BY <1>0, LeaseShape, KeyShape DEF Att!WritePublish, Att!Final, Att!Verified, Att!Writing, Declared, Att!rowVars, Att!fileVars, Att!Absent, Att!TypeOK, WriteTrue, NewExact
<1>9. QED
  BY <1>1, <1>2, <1>3, <1>4, <1>5, <1>6, <1>7, <1>8 DEF AttKept, AttInv

LEMMA ReadyKept ==
  ASSUME Declared, AttInv, NEW u \in Uploads, Att!WriteReady(u)
  PROVE  AttKept
<1>0. Att!TypeOK /\ Att!ReadyHasBytes /\ Att!NothingLeaked /\ RowsTrue /\ DrainTrue /\ WriteTrue
  BY DEF AttInv
<1>1. Att!TypeOK'
  BY <1>0, LeaseShape, KeyShape DEF Att!WriteReady, Att!MarkReady, Att!Free, Declared, Att!rowVars, Att!fileVars, Att!Absent, Att!TypeOK
<1>2. Att!ReadyHasBytes'
  BY <1>0, LeaseShape, KeyShape DEF Att!WriteReady, Att!MarkReady, Att!Free, Declared, Att!rowVars, Att!fileVars, Att!Absent, Att!TypeOK, Att!ReadyHasBytes, RowsTrue, WriteTrue, Att!Referenced, Att!Bound
<1>3. Att!NothingLeaked'
  BY <1>0, LeaseShape, KeyShape DEF Att!WriteReady, Att!MarkReady, Att!Free, Declared, Att!rowVars, Att!fileVars, Att!Absent, Att!TypeOK, Att!NothingLeaked, RowsTrue, DrainTrue, WriteTrue, Att!Rows, Att!Referenced
<1>4. RowsTrue'
  BY <1>0, LeaseShape, KeyShape DEF Att!WriteReady, Att!MarkReady, Att!Free, Declared, Att!rowVars, Att!fileVars, Att!Absent, Att!TypeOK, RowsTrue, DrainTrue, WriteTrue, Att!Bound
<1>5. DrainTrue'
  BY <1>0, LeaseShape, KeyShape DEF Att!WriteReady, Att!MarkReady, Att!Free, Declared, Att!rowVars, Att!fileVars, Att!Absent, Att!TypeOK, DrainTrue, Att!Rows, Att!Referenced
<1>6. WriteTrue'
  BY <1>0, LeaseKinds DEF Att!WriteReady, Att!MarkReady, Declared, Att!rowVars, Att!fileVars, Att!Absent, Att!TypeOK, WriteTrue, RowsTrue
<1>7. BoundKept
  BY <1>0, LeaseShape, KeyShape DEF Att!WriteReady, Att!MarkReady, Att!Free, Declared, Att!rowVars, Att!fileVars, Att!Absent, Att!TypeOK, RowsTrue, DrainTrue, WriteTrue, Att!ReadyHasBytes, BoundKept, Att!Bound, Att!Referenced
<1>8. NewExact
  BY <1>0, LeaseShape, KeyShape DEF Att!WriteReady, Att!MarkReady, Att!Free, Declared, Att!rowVars, Att!fileVars, Att!Absent, Att!TypeOK, WriteTrue, NewExact
<1>9. QED
  BY <1>1, <1>2, <1>3, <1>4, <1>5, <1>6, <1>7, <1>8 DEF AttKept, AttInv

LEMMA LostKept ==
  ASSUME Declared, AttInv, Att!Lost
  PROVE  AttKept
<1>0. Att!TypeOK /\ Att!ReadyHasBytes /\ Att!NothingLeaked /\ RowsTrue /\ DrainTrue /\ WriteTrue
  BY DEF AttInv
<1>1. Att!TypeOK'
  BY <1>0, LeaseShape, KeyShape DEF Att!Lost, Att!Fault, Att!Free, Declared, Att!rowVars, Att!fileVars, Att!Absent, Att!TypeOK
<1>2. Att!ReadyHasBytes'
  BY <1>0, LeaseShape, KeyShape DEF Att!Lost, Att!Fault, Att!Free, Declared, Att!rowVars, Att!fileVars, Att!Absent, Att!TypeOK, Att!ReadyHasBytes, RowsTrue, WriteTrue, Att!Referenced, Att!Bound
<1>3. Att!NothingLeaked'
  BY <1>0, LeaseShape, KeyShape DEF Att!Lost, Att!Fault, Att!Free, Declared, Att!rowVars, Att!fileVars, Att!Absent, Att!TypeOK, Att!NothingLeaked, RowsTrue, DrainTrue, WriteTrue, Att!Rows, Att!Referenced
<1>4. RowsTrue'
  BY <1>0, LeaseShape, KeyShape DEF Att!Lost, Att!Fault, Att!Free, Declared, Att!rowVars, Att!fileVars, Att!Absent, Att!TypeOK, RowsTrue, DrainTrue, WriteTrue, Att!Bound
<1>5. DrainTrue'
  BY <1>0, LeaseShape, KeyShape DEF Att!Lost, Att!Fault, Att!Free, Declared, Att!rowVars, Att!fileVars, Att!Absent, Att!TypeOK, DrainTrue, Att!Rows, Att!Referenced
<1>6. WriteTrue'
  BY <1>0, LeaseKinds DEF Att!Lost, Att!Fault, Declared, Att!rowVars, Att!fileVars, Att!Absent, Att!TypeOK, WriteTrue, RowsTrue
<1>7. BoundKept
  BY <1>0, LeaseShape, KeyShape DEF Att!Lost, Att!Fault, Att!Free, Declared, Att!rowVars, Att!fileVars, Att!Absent, Att!TypeOK, RowsTrue, DrainTrue, WriteTrue, Att!ReadyHasBytes, BoundKept, Att!Bound, Att!Referenced
<1>8. NewExact
  BY <1>0, LeaseShape, KeyShape DEF Att!Lost, Att!Fault, Att!Free, Declared, Att!rowVars, Att!fileVars, Att!Absent, Att!TypeOK, WriteTrue, NewExact
<1>9. QED
  BY <1>1, <1>2, <1>3, <1>4, <1>5, <1>6, <1>7, <1>8 DEF AttKept, AttInv

LEMMA SendKept ==
  ASSUME Declared, AttInv, NEW m \in Letters, Att!SendMessage(m)
  PROVE  AttKept
<1>0. Att!TypeOK /\ Att!ReadyHasBytes /\ Att!NothingLeaked /\ RowsTrue /\ DrainTrue /\ WriteTrue
  BY DEF AttInv
<1>1. Att!TypeOK'
  BY <1>0, LeaseShape, KeyShape DEF Att!SendMessage, Att!Attachable, Declared, Att!rowVars, Att!fileVars, Att!Absent, Att!TypeOK
<1>2. Att!ReadyHasBytes'
  BY <1>0, LeaseShape, KeyShape DEF Att!SendMessage, Att!Attachable, Declared, Att!rowVars, Att!fileVars, Att!Absent, Att!TypeOK, Att!ReadyHasBytes, RowsTrue, WriteTrue, Att!Referenced, Att!Bound
<1>3. Att!NothingLeaked'
  BY <1>0, LeaseShape, KeyShape DEF Att!SendMessage, Att!Attachable, Declared, Att!rowVars, Att!fileVars, Att!Absent, Att!TypeOK, Att!NothingLeaked, RowsTrue, DrainTrue, WriteTrue, Att!Rows, Att!Referenced
<1>4. RowsTrue'
  BY <1>0, LeaseShape, KeyShape DEF Att!SendMessage, Att!Attachable, Declared, Att!rowVars, Att!fileVars, Att!Absent, Att!TypeOK, RowsTrue, DrainTrue, WriteTrue, Att!Bound
<1>5. DrainTrue'
  BY <1>0, LeaseShape, KeyShape DEF Att!SendMessage, Att!Attachable, Declared, Att!rowVars, Att!fileVars, Att!Absent, Att!TypeOK, DrainTrue, Att!Rows, Att!Referenced
<1>6. WriteTrue'
  BY <1>0, LeaseKinds DEF Att!SendMessage, Att!Attachable, Declared, Att!rowVars, Att!fileVars, Att!Absent, Att!TypeOK, WriteTrue, RowsTrue
<1>7. BoundKept
  BY <1>0, LeaseShape, KeyShape DEF Att!SendMessage, Att!Attachable, Declared, Att!rowVars, Att!fileVars, Att!Absent, Att!TypeOK, RowsTrue, DrainTrue, WriteTrue, Att!ReadyHasBytes, BoundKept, Att!Bound, Att!Referenced
<1>8. NewExact
  BY <1>0, LeaseShape, KeyShape DEF Att!SendMessage, Att!Attachable, Declared, Att!rowVars, Att!fileVars, Att!Absent, Att!TypeOK, WriteTrue, NewExact
<1>9. QED
  BY <1>1, <1>2, <1>3, <1>4, <1>5, <1>6, <1>7, <1>8 DEF AttKept, AttInv

LEMMA DeleteKept ==
  ASSUME Declared, AttInv, NEW m \in Letters, Att!DeleteMessage(m)
  PROVE  AttKept
<1>0. Att!TypeOK /\ Att!ReadyHasBytes /\ Att!NothingLeaked /\ RowsTrue /\ DrainTrue /\ WriteTrue
  BY DEF AttInv
<1>1. Att!TypeOK'
  BY <1>0, LeaseShape, KeyShape DEF Att!DeleteMessage, Att!Bound, Declared, Att!rowVars, Att!fileVars, Att!Absent, Att!TypeOK
<1>2. Att!ReadyHasBytes'
  BY <1>0, LeaseShape, KeyShape DEF Att!DeleteMessage, Att!Bound, Declared, Att!rowVars, Att!fileVars, Att!Absent, Att!TypeOK, Att!ReadyHasBytes, RowsTrue, WriteTrue, Att!Referenced, Att!Bound
<1>3. Att!NothingLeaked'
  BY <1>0, LeaseShape, KeyShape DEF Att!DeleteMessage, Att!Bound, Declared, Att!rowVars, Att!fileVars, Att!Absent, Att!TypeOK, Att!NothingLeaked, RowsTrue, DrainTrue, WriteTrue, Att!Rows, Att!Referenced
<1>4. RowsTrue'
  BY <1>0, LeaseShape, KeyShape DEF Att!DeleteMessage, Att!Bound, Declared, Att!rowVars, Att!fileVars, Att!Absent, Att!TypeOK, RowsTrue, DrainTrue, WriteTrue, Att!Bound
<1>5. DrainTrue'
  BY <1>0, LeaseShape, KeyShape DEF Att!DeleteMessage, Att!Bound, Declared, Att!rowVars, Att!fileVars, Att!Absent, Att!TypeOK, DrainTrue, Att!Rows, Att!Referenced
<1>6. WriteTrue'
  BY <1>0, LeaseKinds DEF Att!DeleteMessage, Att!Bound, Declared, Att!rowVars, Att!fileVars, Att!Absent, Att!TypeOK, WriteTrue, RowsTrue
<1>7. BoundKept
  BY <1>0, LeaseShape, KeyShape DEF Att!DeleteMessage, Att!Bound, Declared, Att!rowVars, Att!fileVars, Att!Absent, Att!TypeOK, RowsTrue, DrainTrue, WriteTrue, Att!ReadyHasBytes, BoundKept, Att!Bound, Att!Referenced
<1>8. NewExact
  BY <1>0, LeaseShape, KeyShape DEF Att!DeleteMessage, Att!Bound, Declared, Att!rowVars, Att!fileVars, Att!Absent, Att!TypeOK, WriteTrue, NewExact
<1>9. QED
  BY <1>1, <1>2, <1>3, <1>4, <1>5, <1>6, <1>7, <1>8 DEF AttKept, AttInv

LEMMA ExpireKept ==
  ASSUME Declared, AttInv, NEW u \in Uploads, Att!Expire(u)
  PROVE  AttKept
<1>0. Att!TypeOK /\ Att!ReadyHasBytes /\ Att!NothingLeaked /\ RowsTrue /\ DrainTrue /\ WriteTrue
  BY DEF AttInv
<1>1. Att!TypeOK'
  BY <1>0, LeaseShape, KeyShape DEF Att!Expire, Att!Rows, Declared, Att!rowVars, Att!fileVars, Att!Absent, Att!TypeOK
<1>2. Att!ReadyHasBytes'
  BY <1>0, LeaseShape, KeyShape DEF Att!Expire, Att!Rows, Declared, Att!rowVars, Att!fileVars, Att!Absent, Att!TypeOK, Att!ReadyHasBytes, RowsTrue, WriteTrue, Att!Referenced, Att!Bound
<1>3. Att!NothingLeaked'
  BY <1>0, LeaseShape, KeyShape DEF Att!Expire, Att!Rows, Declared, Att!rowVars, Att!fileVars, Att!Absent, Att!TypeOK, Att!NothingLeaked, RowsTrue, DrainTrue, WriteTrue, Att!Rows, Att!Referenced
<1>4. RowsTrue'
  BY <1>0, LeaseShape, KeyShape DEF Att!Expire, Att!Rows, Declared, Att!rowVars, Att!fileVars, Att!Absent, Att!TypeOK, RowsTrue, DrainTrue, WriteTrue, Att!Bound
<1>5. DrainTrue'
  BY <1>0, LeaseShape, KeyShape DEF Att!Expire, Att!Rows, Declared, Att!rowVars, Att!fileVars, Att!Absent, Att!TypeOK, DrainTrue, Att!Rows, Att!Referenced
<1>6. WriteTrue'
  BY <1>0, LeaseKinds DEF Att!Expire, Att!Rows, Declared, Att!rowVars, Att!fileVars, Att!Absent, Att!TypeOK, WriteTrue, RowsTrue
<1>7. BoundKept
  BY <1>0, LeaseShape, KeyShape DEF Att!Expire, Att!Rows, Declared, Att!rowVars, Att!fileVars, Att!Absent, Att!TypeOK, RowsTrue, DrainTrue, WriteTrue, Att!ReadyHasBytes, BoundKept, Att!Bound, Att!Referenced
<1>8. NewExact
  BY <1>0, LeaseShape, KeyShape DEF Att!Expire, Att!Rows, Declared, Att!rowVars, Att!fileVars, Att!Absent, Att!TypeOK, WriteTrue, NewExact
<1>9. QED
  BY <1>1, <1>2, <1>3, <1>4, <1>5, <1>6, <1>7, <1>8 DEF AttKept, AttInv

LEMMA AttStart ==
  ASSUME Declared, Att!Init
  PROVE  AttInv
<1>1. Att!TypeOK
  BY DEF Declared, Att!Init, Att!TypeOK, Att!Absent
<1>2. Att!ReadyHasBytes /\ Att!NothingLeaked /\ RowsTrue
  BY DEF Att!Init, Att!ReadyHasBytes, Att!NothingLeaked, RowsTrue, Att!Bound, Att!Absent
<1>3. DrainTrue /\ WriteTrue
  BY LeaseKinds DEF Att!Init, DrainTrue, WriteTrue
<1>4. QED
  BY <1>1, <1>2, <1>3 DEF AttInv

LEMMA AttStep ==
  ASSUME Declared, AttInv, [Att!Next]_(Att!vars)
  PROVE  AttInv' /\ BoundKept /\ NewExact
<1>1. CASE UNCHANGED Att!vars
  <2>1. row' = row /\ got' = got /\ expired' = expired /\ owner' = owner /\ staged' = staged /\ bad' = bad
        /\ blob' = blob /\ queue' = queue /\ attLease' = attLease /\ sent' = sent
    BY <1>1 DEF Att!vars
  <2>2. AttInv'
    BY <2>1 DEF AttInv, Att!TypeOK, Att!ReadyHasBytes, Att!NothingLeaked, RowsTrue, DrainTrue, WriteTrue, Att!Rows, Att!Bound, Att!Referenced
  <2>3. BoundKept /\ NewExact
    BY <2>1 DEF AttInv, Att!ReadyHasBytes, RowsTrue, BoundKept, NewExact
  <2>4. QED
    BY <2>2, <2>3
<1>2. CASE Att!Collect \/ Att!Lost
  BY <1>2, DrainCommitKept, DrainKept, LostKept DEF Att!Collect, AttKept
<1>3. CASE \E k \in Att!Keys : Att!DrainFails(k)
  BY <1>3, DrainFailsKept DEF AttKept
<1>4. CASE \E u \in Uploads : Att!Purge(u) \/ Att!Declare(u) \/ Att!DeclareRefused(u) \/ Att!Write(u) \/ Att!Expire(u)
  <2>1. PICK u \in Uploads : Att!Purge(u) \/ Att!Declare(u) \/ Att!DeclareRefused(u) \/ Att!Write(u) \/ Att!Expire(u)
    BY <1>4
  <2>2. CASE Att!Write(u)
    BY <2>2, ReplayKept, ChunkKept, FailsKept, CommitKept, MismatchKept, PublishKept, ReadyKept DEF Att!Write, AttKept
  <2>3. QED
    BY <2>1, <2>2, PurgeKept, DeclareKept, RefusedKept, ExpireKept DEF AttKept
<1>5. CASE \E m \in Letters : Att!SendMessage(m) \/ Att!DeleteMessage(m)
  BY <1>5, SendKept, DeleteKept DEF AttKept
<1>6. QED
  BY <1>1, <1>2, <1>3, <1>4, <1>5 DEF Att!Next

(* A ready attachment can be read and no file is forgotten, what a message *)
(* bound stays bound and on disk, and no wrong byte becomes content, for   *)
(* any uploads, contents, messages and quota and any number of crashes     *)
(* (write_team_attachment_chunk, purge_expired_team_attachments).          *)
THEOREM BlobsStaySound ==
  ASSUME Declared
  PROVE  Att!Spec => BlobsSound
<1>1. Att!Init => AttInv
  BY AttStart
<1>2. AttInv /\ [Att!Next]_(Att!vars) => AttInv'
  BY AttStep
<1>3. AttInv => Att!TypeOK /\ Att!ReadyHasBytes /\ Att!NothingLeaked
  BY DEF AttInv
<1>4. AttInv /\ [Att!Next]_(Att!vars) => [BoundKept]_(Att!vars)
  BY AttStep
<1>5. AttInv /\ [Att!Next]_(Att!vars) => [NewExact]_(Att!vars)
  BY AttStep
<1>6. Att!Spec => [](Att!TypeOK /\ Att!ReadyHasBytes /\ Att!NothingLeaked)
  BY <1>1, <1>2, <1>3, PTL DEF Att!Spec
<1>7. Att!Spec => Att!BoundForGood
  <2>1. Att!Spec => [][BoundKept]_(Att!vars)
    BY <1>1, <1>2, <1>4, PTL DEF Att!Spec
  <2>2. QED
    BY <2>1 DEF Att!BoundForGood, BoundKept
<1>8. Att!Spec => Att!ContentExact
  <2>1. Att!Spec => [][NewExact]_(Att!vars)
    BY <1>1, <1>2, <1>5, PTL DEF Att!Spec
  <2>2. QED
    BY <2>1 DEF Att!ContentExact, NewExact
<1>9. QED
  BY <1>6, <1>7, <1>8 DEF BlobsSound, Att!BlobsSound

-----------------------------------------------------------------------------
(* The host process of the Hub is sound at every moment, when no request    *)
(* meets two failing steps (_activate_team_hub_host_sync, its undo and its  *)
(* recovery, _close_and_drain and reopen_host_admission).                   *)
THEOREM HostStaysSound ==
  ASSUME OneFault, LanesApart
  PROVE  Role!Spec /\ Gate!Spec => []HostSound
<1>1. Role!Spec => []Role!HostRoleSound
  BY RoleHolds
<1>2. Gate!Spec => []Gate!HostDoorsSound
  BY DoorsStaySound
<1>3. Role!HostRoleSound /\ Gate!HostDoorsSound => HostSound
  BY DEF HostSound
<1>4. QED
  BY <1>1, <1>2, <1>3, PTL
=============================================================================
