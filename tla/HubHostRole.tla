----------------------------- MODULE HubHostRole -----------------------------
(***************************************************************************)
(* The role of a server in its Team Network: Member, or Host of the local  *)
(* Team Hub.  A live switch touches the configuration file, the preserved  *)
(* Hub (fence, handoff, startup authority, restore receipt), the saved     *)
(* membership and the control journal one durable step at a time; any step *)
(* can fail and the process can die after each.  What it leaves is undone  *)
(* or finished by the failing call, by the next start or by the next       *)
(* request.  HubMaintenance models the inside of the Hub's own steps.      *)
(***************************************************************************)
EXTENDS Integers, FiniteSets

CONSTANTS
  Names,       \* the display names a request can carry
  MaxAsks,     \* role changes that are asked for
  MaxFaults,   \* steps that raise in one request, or in one start
  MaxCrashes   \* processes that die

VARIABLES
  cfg,         \* config.env: role and name
  hub,         \* the Hub on disk: its files, fence, handoff, authority, receipt
  member,      \* the saved membership: none, active, or paused by the Host role
  journal,     \* the control journal holds a live reactivation
  phase,       \* the control journal's phase
  run,         \* the process: mode, open store, admission, attachment, names
  op,          \* the role change that holds the control lock
  served,      \* the Hub has acknowledged a write since its last snapshot
  undone,      \* such a write was taken back
  count        \* asks and crashes so far, and faults of this request

vars == <<cfg, hub, member, journal, phase, run, op, served, undone, count>>
disk == <<cfg, hub, member, journal, phase>>
ghost == <<served, undone>>

None == "none"
Idle == [k |-> None, pc |-> None, n |-> None, was |-> None, react |-> FALSE, adopted |-> FALSE,
         saved |-> None, paused |-> FALSE, opened |-> FALSE]
Down == [up |-> FALSE, mode |-> "member", store |-> FALSE, accepting |-> FALSE,
         attached |-> FALSE, fenced |-> FALSE, peer |-> None, live |-> None]

Init ==
  \E n \in Names, files \in {None, "whole"}, m \in {None, "active"} :
    /\ cfg = [role |-> "member", name |-> n]
    /\ hub = [files |-> files, fence |-> None, spent |-> FALSE, auth |-> FALSE, receipt |-> None]
    /\ member = m
    /\ journal = FALSE /\ phase = "idle"
    /\ run = [Down EXCEPT !.up = TRUE, !.peer = n, !.live = n]
    /\ op = Idle /\ served = FALSE /\ undone = FALSE
    /\ count = [asks |-> 0, faults |-> 0, crashes |-> 0]

At(k, pc) == run.up /\ op.k \in k /\ op.pc = pc
Goto(pc) == op' = [op EXCEPT !.pc = pc]
(* A step that may raise: ok says whether it did not.                      *)
Attempt(ok) ==
  /\ ok \/ count.faults < MaxFaults
  /\ count' = IF ok THEN count ELSE [count EXCEPT !.faults = @ + 1]
(* Whether the file change of a raising step happened all the same.        *)
Either(ok, new, old) == IF ok THEN {new} ELSE {new, old}

Switching == {"enable"}
(* What every failure of the activation comes to: a Hub this call opened   *)
(* is closed again, and the undo starts.                                   *)
Closed == [run EXCEPT !.mode = "member", !.store = FALSE, !.accepting = FALSE,
                      !.attached = FALSE, !.fenced = FALSE]
Failed ==
  /\ op' = [op EXCEPT !.pc = "undoName"]
  /\ run' = IF op.opened THEN Closed ELSE run

-----------------------------------------------------------------------------
(* A request, and the journal of an earlier one that comes first.          *)

Ask(k, n) ==
  /\ run.up /\ op = Idle /\ count.asks < MaxAsks
  /\ count' = [asks |-> count.asks + 1, faults |-> 0, crashes |-> count.crashes]
  /\ op' = [Idle EXCEPT !.k = k, !.n = n, !.was = run.peer, !.pc = IF journal THEN "recover" ELSE "decide"]
  /\ UNCHANGED <<disk, run, ghost>>

Decide ==
  /\ At({"enable", "disable"}, "decide")
  /\ \/ /\ op.k = "enable" /\ run.mode = "host" /\ op' = [op EXCEPT !.k = "rename", !.pc = "peerName"]
        /\ UNCHANGED <<journal, phase>>
     \/ /\ op.k = "enable" /\ run.mode = "member" /\ Goto("configure")
        /\ phase' = "starting" /\ journal' = FALSE
     \/ /\ op.k = "disable" /\ run.mode = "member" /\ op' = [op EXCEPT !.k = "remain", !.pc = "persist"]
        /\ UNCHANGED <<journal, phase>>
     \/ /\ op.k = "disable" /\ run.mode = "host" /\ Goto("persist")
        /\ UNCHANGED <<journal, phase>>
  /\ UNCHANGED <<cfg, hub, member, run, ghost, count>>

End(p, keeps) ==
  /\ op' = Idle
  /\ phase' = p
  /\ journal' = (journal /\ keeps)

-----------------------------------------------------------------------------
(* Member to Host.                                                         *)

Configure(ok) ==
  /\ At(Switching, "configure") /\ Attempt(ok)
  /\ IF ok THEN Goto("inspect") /\ UNCHANGED run ELSE Failed
  /\ UNCHANGED <<disk, ghost>>

(* What an interrupted first creation left is moved aside.                 *)
Inspect ==
  /\ At(Switching, "inspect")
  /\ hub' = [hub EXCEPT !.files = IF @ = "partial" THEN None ELSE @]
  /\ op' = [op EXCEPT !.react = (hub.files = "whole"),
                      !.pc = IF hub.files = "whole" THEN "prepare" ELSE "pause"]
  /\ UNCHANGED <<cfg, member, journal, phase, run, ghost, count>>

(* Snapshot, fence and unclaimed handoff; an adopted fence is resumed.     *)
(* Nobody looks for a receipt before the Hub is opened.                    *)
Prepare(ok) ==
  /\ At(Switching, "prepare") /\ Attempt(ok)
  /\ IF ok
       THEN /\ hub' = [hub EXCEPT !.fence = IF @ = "adopted" THEN @ ELSE "unclaimed", !.spent = FALSE]
            /\ served' = (served /\ hub.fence = "adopted")
            /\ Goto("adopt") /\ UNCHANGED run
       ELSE op' = [op EXCEPT !.react = FALSE, !.pc = "undoName"] /\ UNCHANGED <<hub, served, run>>
  /\ UNCHANGED <<cfg, member, journal, phase, undone>>

Adopt(ok) ==
  /\ At(Switching, "adopt") /\ Attempt(ok)
  /\ \E f \in Either(ok, "adopted", hub.fence) : hub' = [hub EXCEPT !.fence = f]
  /\ IF ok THEN op' = [op EXCEPT !.adopted = TRUE, !.pc = "authorize"] /\ UNCHANGED run ELSE Failed
  /\ UNCHANGED <<cfg, member, journal, phase, ghost>>

Authorize(ok) ==
  /\ At(Switching, "authorize") /\ Attempt(ok)
  /\ \E a \in Either(ok, TRUE, hub.auth) : hub' = [hub EXCEPT !.auth = a]
  /\ IF ok THEN Goto("journal") /\ UNCHANGED run ELSE Failed
  /\ UNCHANGED <<cfg, member, journal, phase, ghost>>

WriteJournal(ok) ==
  /\ At(Switching, "journal") /\ Attempt(ok)
  /\ journal' = ok
  /\ IF ok THEN Goto("pause") /\ UNCHANGED run ELSE Failed
  /\ UNCHANGED <<cfg, hub, member, phase, ghost>>

Paused(m) == IF m = "active" THEN "paused" ELSE m
Resumed(m) == IF m = "paused" THEN "active" ELSE m

(* Fault: the membership is paused only once the Hub accepts work.         *)
PauseLate(ok) ==
  /\ At(Switching, "pause") /\ Attempt(ok)
  /\ op' = [op EXCEPT !.paused = TRUE, !.pc = "open"]
  /\ run' = [run EXCEPT !.peer = op.n]
  /\ UNCHANGED <<disk, ghost>>
Pause(ok) ==
  /\ At(Switching, "pause") /\ Attempt(ok)
  /\ IF ok THEN /\ member' = Paused(member)
                /\ op' = [op EXCEPT !.paused = TRUE, !.pc = "open"]
                /\ run' = [run EXCEPT !.peer = op.n]
     ELSE Failed /\ UNCHANGED member
  /\ UNCHANGED <<cfg, hub, journal, phase, ghost>>

(* The Hub opens behind a closed door; a fence needs its exact authority.  *)
MayOpen == hub.receipt = None /\ hub.files # "partial" /\ (hub.fence = None \/ (hub.fence = "adopted" /\ hub.auth))
Opened(holding) ==
  [run EXCEPT !.mode = "host", !.store = TRUE, !.accepting = ~holding, !.fenced = (hub.fence # None)]
Open(ok) ==
  /\ At(Switching, "open") /\ Attempt(ok)
  /\ IF ok /\ MayOpen
       THEN /\ hub' = [hub EXCEPT !.files = "whole"]
            /\ run' = Opened(TRUE)
            /\ op' = [op EXCEPT !.opened = TRUE, !.pc = "commit"]
       ELSE /\ \E f \in IF hub.files = None THEN {None, "partial"} ELSE {hub.files} : hub' = [hub EXCEPT !.files = f]
            /\ Failed
  /\ UNCHANGED <<cfg, member, journal, phase, ghost>>

Commit(ok) ==
  /\ At(Switching, "commit") /\ Attempt(ok)
  /\ IF ok THEN /\ cfg' = [role |-> "host", name |-> op.n]
                /\ op' = [op EXCEPT !.saved = cfg.name, !.pc = IF op.react THEN "unfence" ELSE "accept"]
                /\ UNCHANGED run
     ELSE Failed /\ UNCHANGED cfg
  /\ UNCHANGED <<hub, member, journal, phase, ghost>>

(* The fence goes: from here the snapshot can no longer be restored.       *)
Unfence(ok, tidy) ==
  /\ At(Switching, "unfence") /\ Attempt(ok) /\ (ok \/ tidy)
  /\ hub' = IF ok THEN [hub EXCEPT !.fence = None, !.spent = ~tidy] ELSE hub
  /\ IF ok THEN Goto("accept") /\ UNCHANGED run ELSE Failed
  /\ UNCHANGED <<cfg, member, journal, phase, ghost>>

(* The peer side attaches, or waits for a retry; the door opens.           *)
Accept(attaches, clears) ==
  /\ At(Switching, "accept")
  /\ run' = [run EXCEPT !.attached = attaches, !.accepting = TRUE,
                        !.fenced = @ /\ ~attaches, !.live = op.n]
  /\ hub' = [hub EXCEPT !.auth = @ /\ ~clears]
  /\ Goto("complete")
  /\ UNCHANGED <<cfg, member, journal, phase, ghost, count>>

(* Creating the first network may still fail; the role stands.             *)
Complete(ok) ==
  /\ At(Switching, "complete") /\ Attempt(ok)
  /\ IF ok THEN End("complete", FALSE) ELSE End(phase, TRUE)
  /\ UNCHANGED <<cfg, hub, member, run, ghost>>

-----------------------------------------------------------------------------
(* The undo of a failed activation, in the order of the code.              *)

UndoName ==
  /\ At(Switching, "undoName")
  /\ run' = [run EXCEPT !.peer = op.was]
  /\ Goto("undoConfig")
  /\ UNCHANGED <<disk, ghost, count>>

UndoConfig(ok) ==
  /\ At(Switching, "undoConfig") /\ (op.saved = None => ok) /\ Attempt(ok)
  /\ cfg' = IF ok /\ op.saved # None THEN [role |-> "member", name |-> op.saved] ELSE cfg
  /\ op' = [op EXCEPT !.pc = "undoPause"]
  /\ UNCHANGED <<hub, member, journal, phase, run, ghost>>

UndoPause(ok) ==
  /\ At(Switching, "undoPause") /\ (op.paused \/ ok) /\ Attempt(ok)
  /\ member' = IF ok /\ op.paused THEN Resumed(member) ELSE member
  /\ op' = [op EXCEPT !.pc = IF op.react THEN "rollback" ELSE "undone"]
  /\ UNCHANGED <<cfg, hub, journal, phase, run, ghost>>

Undone ==
  /\ At(Switching, "undone")
  /\ End("failed", FALSE)
  /\ UNCHANGED <<cfg, hub, member, run, ghost, count>>

-----------------------------------------------------------------------------
(* The rollback of a reactivation, and the recovery of a journalled one.   *)

(* No file is left that could still restore the old generation.            *)
Consumed == hub.fence = None /\ ~hub.spent /\ ~hub.auth /\ hub.receipt = None

RecoverStart ==
  /\ At({"enable", "disable", "start"}, "recover")
  /\ op' = [op EXCEPT !.adopted = TRUE,
                      !.pc = IF run.mode # "host" THEN "rollback" ELSE IF run.store THEN "settle" ELSE "stuck"]
  /\ UNCHANGED <<disk, run, ghost, count>>

(* The restore needs the adopted fence and no receipt of another           *)
(* reactivation, or is done and has its receipt.  A receipt is "named" when *)
(* the journal names its reactivation, "unnamed" when the journal was not  *)
(* written.                                                                *)
Restore(ok) ==
  LET restores == ok /\ hub.fence = "adopted" /\ hub.receipt = None
  IN /\ op.pc = "rollback" /\ run.up /\ op.adopted /\ ~Consumed /\ Attempt(ok)
     /\ hub' = [hub EXCEPT !.auth = FALSE, !.fence = IF restores THEN None ELSE @,
                           !.spent = @ /\ ~restores,
                           !.receipt = IF ~restores THEN @ ELSE IF journal THEN "named" ELSE "unnamed"]
     /\ undone' = (undone \/ (restores /\ served))
     /\ served' = (served /\ ~restores)
     /\ Goto(IF restores \/ (ok /\ hub.receipt = "named") THEN "acknowledge" ELSE "stuck")
     /\ UNCHANGED <<cfg, member, journal, phase, run>>

Acknowledge(ok) ==
  /\ op.pc = "acknowledge" /\ run.up /\ Attempt(ok)
  /\ \E r \in Either(ok, None, hub.receipt) : hub' = [hub EXCEPT !.receipt = r]
  /\ Goto(IF ok THEN "rolled" ELSE "stuck")
  /\ UNCHANGED <<cfg, member, journal, phase, run, ghost>>

(* A fence nobody adopted is simply taken down.                            *)
Abort(ok) ==
  /\ op.pc = "rollback" /\ run.up /\ ~op.adopted /\ ~Consumed /\ Attempt(ok)
  /\ hub' = [hub EXCEPT !.fence = IF ok /\ @ = "unclaimed" THEN None ELSE @]
  /\ Goto(IF ok /\ hub.fence = "unclaimed" THEN "rolled" ELSE "stuck")
  /\ UNCHANGED <<cfg, member, journal, phase, run, ghost>>

NothingLeft ==
  /\ op.pc = "rollback" /\ run.up /\ Consumed
  /\ Goto("rolled")
  /\ UNCHANGED <<disk, run, ghost, count>>

(* What recovery is for: the start, a request that may now go on, or the   *)
(* undo of this very request.                                              *)
Continue == op' = IF op.k = "start" \/ op.react THEN Idle ELSE [Idle EXCEPT !.k = op.k, !.n = op.n, !.was = op.was, !.pc = "decide"]

Rolled ==
  /\ op.pc = "rolled" /\ run.up
  /\ journal' = FALSE /\ phase' = "failed"
  /\ Continue
  /\ UNCHANGED <<cfg, hub, member, run, ghost, count>>

(* The journal stays, the only authority that can still recover.           *)
Stuck ==
  /\ op.pc = "stuck" /\ run.up
  /\ op' = Idle /\ phase' = IF op.k = "start" \/ op.react THEN "failed" ELSE phase
  /\ UNCHANGED <<cfg, hub, member, journal, run, ghost, count>>

(* A Host that came back: the fence goes, and then the Hub is looked at.   *)
SettleHost(ok, attaches) ==
  /\ op.pc = "settle" /\ run.up /\ Attempt(ok)
  /\ IF ok /\ run.accepting
       THEN /\ hub' = [hub EXCEPT !.fence = None, !.auth = FALSE]
            /\ run' = [run EXCEPT !.attached = @ \/ attaches, !.fenced = @ /\ ~attaches]
            /\ journal' = FALSE /\ phase' = "complete"
            /\ Continue
       ELSE /\ \E f \in {hub.fence, None} : hub' = [hub EXCEPT !.fence = f]
            /\ Goto("stuck")
            /\ UNCHANGED <<run, journal, phase>>
  /\ UNCHANGED <<cfg, member, ghost>>

-----------------------------------------------------------------------------
(* Renaming the Host; the Hub's own name and the peer name go back when    *)
(* the configuration cannot be written.                                    *)

PeerName ==
  /\ At({"rename"}, "peerName")
  /\ run' = [run EXCEPT !.peer = op.n]
  /\ Goto("persist")
  /\ UNCHANGED <<disk, ghost, count>>

PersistName(ok) ==
  /\ At({"rename"}, "persist") /\ Attempt(ok)
  /\ IF ok /\ run.store
       THEN /\ cfg' = [role |-> "host", name |-> op.n]
            /\ run' = [run EXCEPT !.live = op.n]
            /\ End("complete", TRUE)
       ELSE /\ run' = [run EXCEPT !.peer = op.was]
            /\ End(phase, TRUE) /\ UNCHANGED cfg
  /\ UNCHANGED <<hub, member, ghost>>

-----------------------------------------------------------------------------
(* Host to Member: the configuration first, then the drain and the detach. *)

PersistMember(ok) ==
  /\ At({"disable", "remain"}, "persist") /\ Attempt(ok)
  /\ IF ok THEN /\ cfg' = [role |-> "member", name |-> op.n]
                /\ run' = [run EXCEPT !.peer = op.n]
                /\ op' = [op EXCEPT !.saved = cfg.name, !.pc = IF op.k = "remain" THEN "resume" ELSE "drain"]
     ELSE op' = Idle /\ UNCHANGED <<cfg, run>>
  /\ UNCHANGED <<hub, member, journal, phase, ghost>>

(* A failed drain or detach opens the door again and takes the role back.  *)
Demote(ok) ==
  /\ At({"disable"}, "drain") /\ Attempt(ok)
  /\ IF ok THEN Goto("resume") /\ run' = [Closed EXCEPT !.live = op.n]
     ELSE Goto("undemote") /\ UNCHANGED run
  /\ UNCHANGED <<disk, ghost>>

(* It fails, or is passed over because the caller was cancelled.           *)
Undemote(ok) ==
  /\ At({"disable"}, "undemote") /\ Attempt(ok)
  /\ IF ok THEN /\ cfg' = [role |-> "host", name |-> op.saved]
                /\ run' = [run EXCEPT !.peer = run.live]
     ELSE UNCHANGED <<cfg, run>>
  /\ op' = Idle
  /\ UNCHANGED <<hub, member, journal, phase, ghost>>

(* The saved membership resumes; a Member that stays one takes its         *)
(* settings back when it cannot.                                           *)
ResumeMember(ok) ==
  /\ At({"disable", "remain"}, "resume") /\ Attempt(ok)
  /\ IF ok THEN /\ member' = Resumed(member)
                /\ run' = [run EXCEPT !.live = op.n]
                /\ End("complete", FALSE) /\ UNCHANGED cfg
     ELSE IF op.k = "disable" THEN End("failed", FALSE) /\ UNCHANGED <<cfg, run, member>>
             ELSE /\ cfg' = [role |-> "member", name |-> op.saved]
                  /\ run' = [run EXCEPT !.peer = op.was]
                  /\ member' \in {member, Resumed(member)}
                  /\ End(phase, TRUE)
  /\ UNCHANGED <<hub, ghost>>

-----------------------------------------------------------------------------
(* The process: work, health polls, death and the next start.              *)

HubWrite ==
  /\ run.up /\ run.accepting /\ hub.fence = None
  /\ served' = TRUE
  /\ UNCHANGED <<disk, run, op, undone, count>>

(* Health polling attaches the peer side once the fence is gone.           *)
PollAttach ==
  /\ run.up /\ run.store /\ ~run.attached /\ hub.fence = None
  /\ run' = [run EXCEPT !.attached = TRUE, !.fenced = FALSE]
  /\ UNCHANGED <<disk, op, ghost, count>>

Crash ==
  /\ run.up /\ count.crashes < MaxCrashes
  /\ count' = [asks |-> count.asks, faults |-> 0, crashes |-> count.crashes + 1]
  /\ run' = Down /\ op' = Idle
  /\ UNCHANGED <<disk, ghost>>

(* The mode is the configured one; a Host pauses the membership first and  *)
(* does not open when it cannot, a Member resumes it.                      *)
Start(moves, attaches) ==
  LET hosts == cfg.role = "host"
      opens == hosts /\ moves /\ MayOpen
  IN /\ ~run.up /\ Attempt(moves)
     /\ member' = IF ~moves THEN member ELSE IF hosts THEN Paused(member) ELSE Resumed(member)
     /\ hub' = [hub EXCEPT !.files = IF opens THEN "whole" ELSE @,
                           !.auth = @ /\ ~(opens /\ hub.fence = None)]
     /\ run' = [Down EXCEPT !.up = TRUE, !.mode = cfg.role, !.store = opens, !.accepting = opens,
                            !.fenced = opens /\ hub.fence # None,
                            !.attached = opens /\ hub.fence = None /\ attaches,
                            !.peer = cfg.name, !.live = cfg.name]
     /\ op' = IF journal THEN [Idle EXCEPT !.k = "start", !.pc = "recover"] ELSE Idle
     /\ UNCHANGED <<cfg, journal, phase, ghost>>

Next ==
  \/ \E k \in {"enable", "disable"}, n \in Names : Ask(k, n)
  \/ Decide \/ Inspect \/ UndoName \/ Undone \/ RecoverStart \/ NothingLeft \/ Rolled \/ Stuck
  \/ PeerName \/ HubWrite \/ PollAttach \/ Crash
  \/ \E ok \in BOOLEAN :
       \/ Configure(ok) \/ Prepare(ok) \/ Adopt(ok) \/ Authorize(ok) \/ WriteJournal(ok)
       \/ Pause(ok) \/ Open(ok) \/ Commit(ok) \/ Complete(ok)
       \/ UndoConfig(ok) \/ UndoPause(ok) \/ Restore(ok) \/ Acknowledge(ok) \/ Abort(ok)
       \/ PersistName(ok) \/ PersistMember(ok) \/ Demote(ok) \/ Undemote(ok) \/ ResumeMember(ok)
       \/ \E also \in BOOLEAN : Unfence(ok, also) \/ Accept(ok, also) \/ SettleHost(ok, also) \/ Start(ok, also)

Spec == Init /\ [][Next]_vars

-----------------------------------------------------------------------------
(* One role at a time: while the local Hub serves, the saved membership in *)
(* another network is not active.                                          *)
OneRole == run.accepting => member # "active"

(* Undoing an activation never takes back a write the Hub acknowledged.    *)
AcknowledgedStands == ~undone

(* At rest, a journalled reactivation has what its recovery asks for, a    *)
(* configured Host can open its Hub at the next start, a fence left before *)
(* a serving Hub is known to the journal that takes it down, and so is a   *)
(* receipt to the journal that acknowledges it.  The exception is the      *)
(* unnamed receipt: the undo of a reactivation that failed before its      *)
(* journal was written, cut off before it acknowledged.  No start and no   *)
(* request ends it, the next reactivation is journalled and then neither   *)
(* opens nor rolls back.                                                   *)
Recoverable ==
  IF run.mode = "host" THEN run.store \/ MayOpen
  ELSE Consumed \/ hub.receipt = "named" \/ (hub.fence = "adopted" /\ hub.receipt = None)
NoWedge ==
  /\ run.up /\ op = Idle /\ journal => Recoverable \/ hub.receipt = "unnamed"
  /\ cfg.role = "host" => MayOpen
  /\ run.up /\ op = Idle /\ run.accepting /\ hub.fence # None => journal
  /\ run.up /\ op = Idle /\ hub.receipt = "named" => journal

(* At rest the configuration says what the process is, with one name.      *)
RolesAgree ==
  run.up /\ op = Idle => cfg.role = run.mode /\ cfg.name = run.peer /\ cfg.name = run.live

(* A switch of role is all or nothing for the reader of every file: one    *)
(* role at a time, no acknowledged write undone, what an interrupted one   *)
(* left can be finished from its journal, and settings that say what the   *)
(* process is (_activate_team_hub_host_sync and its undo).                 *)
HostRoleSound == OneRole /\ AcknowledgedStands /\ NoWedge /\ RolesAgree
=============================================================================
