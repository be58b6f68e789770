---------------------------- MODULE MCHubStorage ----------------------------
(***************************************************************************)
(* The files of the team hub and of its host, model-checked in one run: the *)
(* server that hosts the hub (HubHost), with its maintenance commands       *)
(* (HubMaintenance), its change of role (HubHostRole), the doors it closes  *)
(* for maintenance (HubHostGate) and its attachment store (HubAttachments). *)
(* They share no state: a behaviour is one of one of them, the others rest  *)
(* in their initial states, so that the state spaces add up instead of      *)
(* multiplying. Every upload declares the same content, so that rows share a*)
(* file.                                                                    *)
(***************************************************************************)
EXTENDS HubHost, TLC

CONSTANTS u1, u2, u3, b1, m1, n1, n2, w1, p1, a1

VARIABLE part       \* the component that moves

OneBlob == [u \in {u1, u2, u3} |-> b1]

attachmentsVars == <<row, got, expired, owner, staged, bad, blob, queue, attLease, sent, faults>>
maintenanceVars == <<root, snaps, rebase, receipt, journal, staging, handoff, pend, auth, hub, ctl, crashes>>
roleVars == <<cfg, roleHub, member, roleJournal, phase, run, op, served, undone, roleCount>>
gateVars == <<door, gate, req, net, host, fence, snap, task, move, late, closing, gateCount>>
allVars == <<attachmentsVars, maintenanceVars, roleVars, gateVars, part>>

AllInit ==
  /\ part \in {"attachments", "maintenance", "role", "gate"}
  /\ Att!Init
  /\ Init /\ (part # "maintenance" => root["wal"] = "none")
  /\ Role!Init /\ (part # "role" => cfg.name = n1 /\ roleHub.files = "none" /\ member = "none")
  /\ Gate!Init

AttachmentsOnly == UNCHANGED <<maintenanceVars, roleVars, gateVars, part>>
MaintenanceOnly == UNCHANGED <<attachmentsVars, roleVars, gateVars, part>>
RoleOnly == UNCHANGED <<attachmentsVars, maintenanceVars, gateVars, part>>
GateOnly == UNCHANGED <<attachmentsVars, maintenanceVars, roleVars, part>>

AllNext ==
  \/ part = "attachments" /\ Att!Next /\ AttachmentsOnly
  \/ part = "maintenance" /\ Next /\ MaintenanceOnly
  \/ part = "role" /\ Role!Next /\ RoleOnly
  \/ part = "gate" /\ Gate!Next /\ GateOnly

AllSpec == AllInit /\ [][AllNext]_allVars

(* A fairness condition of each component: since part never changes, fairness  *)
(* of the disjunction is fairness of that component's action in its behaviours. *)
Weak1 ==
  \/ part = "maintenance" /\ Recover /\ MaintenanceOnly
Weak2 ==
  \/ part = "maintenance" /\ Work /\ MaintenanceOnly
Weak3 ==
  \/ part = "maintenance" /\ Ask /\ MaintenanceOnly

AllFairSpec ==
  /\ AllSpec
  /\ WF_allVars(Weak1) /\ WF_allVars(Weak2) /\ WF_allVars(Weak3)

-----------------------------------------------------------------------------
=============================================================================
