------------------------------- MODULE HubHost -------------------------------
(***************************************************************************)
(* The server that hosts a team hub, from its four parts: the maintenance  *)
(* commands over the hub's files (HubMaintenance, extended), its change of *)
(* Team Network role (HubHostRole), the doors it closes for maintenance    *)
(* (HubHostGate) and the files of the team's attachments (HubAttachments). *)
(* Each part abstracts what it needs of the others, so they share no       *)
(* variable.                                                               *)
(***************************************************************************)
EXTENDS HubMaintenance

CONSTANTS
  TeamNames, MaxAsks, MaxFaults, MaxDeaths,          \* of the role
  Web, Peers, Agents, Kinds, MaxTasks, MaxMoves,     \* of the doors
  Uploads, Blobs, BlobOf, Size, Quota, Letters, NoLetter, MaxFileFaults   \* of the attachments

VARIABLES cfg, roleHub, member, roleJournal, phase, run, op, served, undone, roleCount
VARIABLES door, gate, req, net, host, fence, snap, task, move, late, closing, gateCount
VARIABLES row, got, expired, owner, staged, bad, blob, queue, attLease, sent, faults

Role == INSTANCE HubHostRole WITH
          hub <- roleHub, journal <- roleJournal, count <- roleCount,
          Names <- TeamNames, MaxCrashes <- MaxDeaths

Gate == INSTANCE HubHostGate WITH count <- gateCount

Att == INSTANCE HubAttachments WITH
         late <- expired, part <- staged, lease <- attLease, MaxFaults <- MaxFileFaults

(* A switch of the Host role leaves one role, no undone write and settings  *)
(* that agree, and what an interrupted one left can be finished, unless its *)
(* undo was cut off before it acknowledged a receipt that no journal names. *)
(* The doors that every closing operation of the hosted Hub shares close    *)
(* and open as its snapshot, its lease and its endpoint need, but for the   *)
(* lease of a shutdown whose drain ran out of patience                      *)
(* (_activate_team_hub_host_sync, _close_and_drain, reopen_host_admission). *)
HostSound == Role!HostRoleSound /\ Gate!HostDoorsSound

(* A ready attachment has exactly its bytes, a bound one stays, and no file   *)
(* is forgotten (write_team_attachment_chunk,                                 *)
(* purge_expired_team_attachments).                                           *)
BlobsSound == Att!BlobsSound

=============================================================================
