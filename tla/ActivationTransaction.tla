------------------------ MODULE ActivationTransaction ------------------------
(***************************************************************************)
(* The in-place update of an installation: the journal kept by             *)
(* src/activation_transaction.py, the installer that drives it             *)
(* (src/install.sh) and the service manager, which restarts the service    *)
(* through the `current' link whenever it likes.                           *)
(*                                                                         *)
(* Every rename, link replacement, configuration replacement and manifest  *)
(* replacement is an action of its own: the installer, or the machine, may *)
(* die between any two.  After a crash the next installer loads the        *)
(* journal and settles it.                                                 *)
(***************************************************************************)
CONSTANTS
    Layouts,     \* what is installed before: see Plan
    Handoffs     \* how the Team Hub is handed over: plain, guard, operation

ASSUME ActivationAssumption ==
    /\ Layouts \subseteq {"first", "upgrade", "reinstall", "legacy", "retained"}
    /\ Handoffs \subseteq {"plain", "guard", "operation"}

VARIABLES
    plan,      \* what begin captured of the installation
    phase,     \* the manifest's phase; "none": no transaction directory
    from,      \* the manifest's rollback_from
    desired,   \* desired_env and desired_service
    seen,      \* observed_env_sha256 and observed_service_sha256
    where,     \* the path of each release
    current,   \* the target of the current link
    previous,  \* the target of the previous link
    conf,      \* the environment file and the service file
    draft,     \* the .source staging file of each
    secured,   \* the .publication staging file of each
    unit,      \* the service manager's unit
    pc,        \* the installer: idle, forward, settle or restoring
    op,        \* its step within the phase
    known,     \* ACTIVATION_TRANSACTION_PHASE, the phase the shell believes in
    origin,    \* ACTIVATION_ROLLBACK_FROM
    own,       \* this installer began the transaction
    calm       \* nothing fails any more

manifest == <<phase, from, desired, seen>>
files    == <<where, current, previous>>
staging  == <<conf, draft, secured>>
shell    == <<pc, op, known, origin, own>>
vars     == <<plan, manifest, files, staging, unit, shell, calm>>

Kinds    == {"env", "service"}
Contents == {"none", "orig", "a", "b"}
Releases == {"old", "cand", "kept"}
Paths    == {"old", "new", "kept", "quarantine", "current", "stage", "parked"}

-----------------------------------------------------------------------------
(* The journal's phases. *)

Reversible == {"prepared", "guarded", "linking", "linked", "stopping", "stopped",
               "fencing", "fenced", "authorizing", "authority",
               "candidate-starting", "candidate-healthy"}
Committing == {"committing", "committed"}
RolledBack == {"rolled-back", "rollback-healthy"}
Phases     == Reversible \cup Committing \cup {"rolling-back"} \cup RolledBack

Forward ==
    {<<"prepared", "guarded">>, <<"prepared", "linking">>, <<"guarded", "linking">>,
     <<"linking", "linked">>, <<"linked", "stopping">>, <<"linked", "candidate-starting">>,
     <<"stopping", "stopped">>, <<"stopped", "fencing">>, <<"stopped", "fenced">>,
     <<"stopped", "authorizing">>, <<"fencing", "fenced">>, <<"fenced", "authorizing">>,
     <<"authorizing", "authority">>, <<"authority", "candidate-starting">>,
     <<"candidate-starting", "candidate-healthy">>, <<"candidate-healthy", "committing">>,
     <<"committing", "committed">>, <<"rolling-back", "rolled-back">>,
     <<"rolled-back", "rollback-healthy">>}

(* Fault: a rollback may start after the commit boundary. *)
CanFollowBack(p, q) ==
    <<p, q>> \in Forward \/ (p \in Reversible \cup {"committing"} /\ q = "rolling-back")

CanFollow(p, q) == <<p, q>> \in Forward \/ (p \in Reversible /\ q = "rolling-back")

-----------------------------------------------------------------------------
(* The disk. *)

(* The installation before the update.  "reinstall" replaces the current   *)
(* version, "legacy" a current directory; in "retained" the version to be  *)
(* installed is still there as the previous release.                       *)
Plan(layout) ==
    [source   |-> CASE layout = "first" -> "none" [] layout = "reinstall" -> "new"
                    [] layout = "legacy" -> "current" [] OTHER -> "old",
     target   |-> CASE layout = "first" -> "none"
                    [] layout \in {"reinstall", "legacy"} -> "quarantine" [] OTHER -> "old",
     current  |-> CASE layout = "first" -> "none" [] layout = "reinstall" -> "new"
                    [] layout = "legacy" -> "dir" [] OTHER -> "old",
     previous |-> CASE layout = "first" -> "none" [] layout = "retained" -> "new"
                    [] OTHER -> "kept"]

Free(p) == \A r \in Releases : where[r] # p

(* _link_state: a legacy installation has a directory in the link's place. *)
CurrentState == IF where["old"] = "current" THEN "dir" ELSE current

CurrentPath == IF CurrentState = "dir" THEN "current" ELSE current

(* The release a process started through `current' would run. *)
Resolved ==
    IF CurrentPath = "none" \/ Free(CurrentPath) THEN "none"
    ELSE CHOOSE r \in Releases : where[r] = CurrentPath

OriginalCurrent ==
    CurrentState = plan.current /\ (plan.current = "none" \/ Resolved = "old")
CandidateCurrent(lost) ==
    CurrentState = "new" /\ (where["cand"] = "new" \/ (lost /\ Free("new")))
OriginalPrevious ==
    previous = plan.previous /\ (previous = "none" \/ where["kept"] = previous)
CandidatePrevious ==
    IF plan.target = "none" THEN OriginalPrevious
    ELSE previous = plan.target /\ where["old"] = plan.target

CurrentValid(p, lost) ==
    CASE p \in {"prepared", "guarded"} \cup RolledBack -> OriginalCurrent
      [] p \in {"linking", "rolling-back"} ->
           \/ OriginalCurrent \/ CandidateCurrent(lost) \/ CurrentState = "none"
           \/ CurrentState = "new" /\ Free("new")
      [] OTHER -> CandidateCurrent(lost)

PreviousValid(p) ==
    CASE p \in {"prepared", "guarded"} \cup RolledBack -> OriginalPrevious
      [] p \in {"linking", "rolling-back"} ->
           \/ OriginalPrevious \/ CandidatePrevious \/ previous = "none"
           \/ /\ p = "rolling-back" /\ plan.target # "none"
              /\ previous = plan.target /\ where["old"] = plan.source
      [] OTHER -> CandidatePrevious

ConfigsValid(p, wanted, history) ==
    CASE p \in {"linked", "fenced", "authorizing", "authority", "rolling-back"} ->
           \A k \in Kinds : conf[k] \in history[k]
      [] p \in {"candidate-starting", "candidate-healthy"} \cup Committing ->
           \A k \in Kinds : wanted[k] # "none" /\ conf[k] = wanted[k]
      [] OTHER -> \A k \in Kinds : conf[k] = plan.conf[k]

(* _validate_invocation: the disk is what phase p allows.  lost: the       *)
(* candidate may be gone.                                                  *)
Valid(p, lost) ==
    /\ plan.source # "none" => where["old"] \in {plan.source, plan.target}
    /\ lost \/ where["cand"] \in {"stage", "new", "parked"}
    /\ CurrentValid(p, lost) /\ PreviousValid(p) /\ ConfigsValid(p, desired, seen)

-----------------------------------------------------------------------------
Ops == {"ready", "old", "cand", "previous", "current", "activated",
        "journal", "secure", "unlink", "publish",
        "stopped", "started", "ensured", "suppress", "stop", "undo old",
        "undo current", "undo previous", "undo staging", "undo env", "undo service",
        "undone", "enable", "start", "verified"}

TypeOK ==
    /\ phase \in Phases \cup {"none"} /\ known \in Phases \cup {"none"}
    /\ from \in Reversible \cup {"none"} /\ origin \in Phases \cup {"none"}
    /\ desired \in [Kinds -> Contents] /\ seen \in [Kinds -> SUBSET Contents]
    /\ where \in [Releases -> Paths \cup {"gone"}]
    /\ \A r, s \in Releases : where[r] = where[s] => r = s \/ where[r] = "gone"
    /\ current \in Paths \cup {"none"} /\ previous \in Paths \cup {"none"}
    /\ conf \in [Kinds -> Contents] /\ draft \in [Kinds -> Contents]
    /\ secured \in [Kinds -> Contents]
    /\ unit \in [enabled : BOOLEAN, wanted : BOOLEAN, running : {"none", "old", "cand"}]
    /\ pc \in {"idle", "forward", "settle", "restoring"} /\ op \in Ops
    /\ own \in BOOLEAN /\ calm \in BOOLEAN

None == [k \in Kinds |-> "none"]

(* What the installer captures of the service before the update. *)
ServiceState ==
    IF conf["service"] = "none" THEN "absent"
    ELSE IF unit.wanted THEN "running" ELSE "stopped"

Init ==
    \E layout \in Layouts, handoff \in Handoffs, running, enabled \in BOOLEAN :
      LET first == layout = "first"
          base  == Plan(layout)
      IN
      /\ handoff = "operation" => layout \notin {"first", "legacy"}
      /\ first => ~running /\ ~enabled
      /\ conf = [k \in Kinds |-> IF first THEN "none" ELSE "orig"]
      /\ unit = [enabled |-> enabled, wanted |-> running,
                 running |-> IF running THEN "old" ELSE "none"]
      /\ plan = [source |-> base.source, target |-> base.target,
                 current |-> base.current, previous |-> base.previous, conf |-> conf,
                 handoff |-> handoff, service |-> ServiceState, enabled |-> enabled]
      /\ where = [r \in Releases |->
                    CASE r = "cand" \/ first -> "gone" [] r = "old" -> base.source
                      [] OTHER -> base.previous]
      /\ current = (IF layout = "legacy" THEN "none" ELSE base.current)
      /\ previous = base.previous
      /\ draft = None /\ secured = None
      /\ phase = "none" /\ from = "none" /\ desired = None /\ seen = [k \in Kinds |-> {}]
      /\ pc = "idle" /\ op = "ready" /\ known = "none" /\ origin = "none" /\ own = FALSE
      /\ calm = FALSE

-----------------------------------------------------------------------------
(* The installer as a process. *)

(* begin: the installation is captured and the manifest published. *)
Capture ==
    /\ pc = "idle" /\ phase = "none" /\ where["cand"] = "gone"
    /\ OriginalCurrent /\ OriginalPrevious
    /\ plan' = [plan EXCEPT !.service = ServiceState, !.enabled = unit.enabled]
    /\ phase' = "prepared" /\ from' = "none" /\ desired' = None
    /\ seen' = [k \in Kinds |-> {conf[k]}]
    /\ UNCHANGED <<current, previous, staging, unit, calm>>

(* A fresh candidate is staged and the transaction begun. *)
Begin ==
    /\ Capture
    /\ where' = [where EXCEPT !["cand"] = "stage"]
    /\ pc' = "forward" /\ op' = "ready" /\ known' = "prepared" /\ origin' = "none"
    /\ own' = TRUE

(* The transaction is begun and the shell does not learn its name: the     *)
(* EXIT trap removes the stage and settles nothing.                        *)
BeginFails == ~calm /\ Capture /\ UNCHANGED <<where, shell>>

(* The next installer finds the transaction and settles it. *)
Load ==
    /\ pc = "idle" /\ phase # "none" /\ Valid(phase, TRUE)
    /\ pc' = "settle" /\ op' = "ready" /\ known' = phase /\ origin' = from /\ own' = FALSE
    /\ UNCHANGED <<plan, manifest, files, staging, unit, calm>>

(* The installer ends; one that began the transaction removes its stage.   *)
Exit ==
    /\ pc' = "idle" /\ op' = "ready" /\ known' = "none" /\ origin' = "none" /\ own' = FALSE
    /\ where' = [where EXCEPT !["cand"] = IF own /\ @ = "stage" THEN "gone" ELSE @]

(* A failed step: on the way forward the EXIT trap settles once. *)
GiveUp ==
    IF pc = "forward"
    THEN pc' = "settle" /\ op' = "ready" /\ UNCHANGED <<known, origin, own, where>>
    ELSE Exit

StepFails ==
    /\ pc # "idle" /\ ~calm /\ GiveUp
    /\ UNCHANGED <<plan, manifest, current, previous, staging, unit, calm>>

Crash ==
    /\ pc # "idle" /\ ~calm
    /\ pc' = "idle" /\ op' = "ready" /\ known' = "none" /\ origin' = "none" /\ own' = FALSE
    /\ UNCHANGED <<plan, manifest, files, staging, unit, calm>>

(* The machine restarts: only an enabled unit comes back. *)
Reboot ==
    /\ ~calm
    /\ pc' = "idle" /\ op' = "ready" /\ known' = "none" /\ origin' = "none" /\ own' = FALSE
    /\ unit' = [unit EXCEPT !.wanted = unit.enabled, !.running = "none"]
    /\ UNCHANGED <<plan, manifest, files, staging, calm>>

(* Restart=always: the unit runs whatever `current' resolves to. *)
ManagerRestart ==
    /\ unit.wanted /\ unit' = [unit EXCEPT !.running = Resolved]
    /\ UNCHANGED <<plan, manifest, files, staging, shell, calm>>

Calm ==
    /\ ~calm /\ calm' = TRUE
    /\ UNCHANGED <<plan, manifest, files, staging, unit, shell>>

(* Fault: a rollback, too, needs the candidate. *)
RecordAcceptedWhole(q) ==
    (phase = q \/ CanFollow(phase, q)) /\ Valid(phase, FALSE) /\ Valid(q, FALSE)

(* record: the transition is checked against the manifest and the disk.    *)
RecordAccepted(q) ==
    LET lost == q \in {"rolling-back"} \cup RolledBack IN
    (phase = q \/ CanFollow(phase, q)) /\ Valid(phase, lost) /\ Valid(q, lost)

ReplaceManifest(q) ==
    phase' = q /\ from' = (IF q = "rolling-back" /\ phase # q THEN phase ELSE from)

Record(q) ==
    /\ RecordAccepted(q) /\ ReplaceManifest(q)
    /\ known' = q
    /\ UNCHANGED <<plan, desired, seen, files, staging, unit, own, calm>>

(* The manifest is replaced and the caller sees a failure, or the request  *)
(* is refused.                                                             *)
RecordFails(q) ==
    /\ \/ RecordAccepted(q) /\ ~calm /\ ReplaceManifest(q)
       \/ ~RecordAccepted(q) /\ UNCHANGED <<phase, from>>
    /\ GiveUp
    /\ UNCHANGED <<plan, desired, seen, current, previous, staging, unit, calm>>

-----------------------------------------------------------------------------
(* The way forward. *)

Published(k) == desired[k] # "none" /\ conf[k] = desired[k]

(* The phase the installer records next, when its work in the present one  *)
(* is done.                                                                *)
NextPhase ==
    CASE known = "prepared" /\ plan.handoff = "guard" -> "guarded"
      [] known \in {"prepared", "guarded"} -> "linking"
      [] known = "linking" /\ op = "activated" -> "linked"
      [] known = "linked" /\ plan.handoff # "plain" -> "stopping"
      [] known = "stopping" /\ op = "stopped" -> "stopped"
      [] known = "stopped" -> "fencing"
      [] known = "fencing" -> "fenced"
      [] known = "fenced" /\ op = "ready" /\ Published("env") -> "authorizing"
      [] known = "authorizing" -> "authority"
      [] known \in {"linked", "authority"} /\ op = "ready" /\ Published("service")
           -> "candidate-starting"
      [] known = "candidate-starting" /\ op = "started" /\ unit.running = "cand"
           -> "candidate-healthy"
      [] known = "candidate-healthy" -> "committing"
      [] OTHER -> "none"

Advance ==
    /\ pc = "forward" /\ NextPhase # "none" /\ Record(NextPhase)
    /\ op' = (IF known' = "linking" THEN "old" ELSE "ready")
    /\ UNCHANGED <<pc, origin>>

AdvanceFails == pc = "forward" /\ NextPhase # "none" /\ RecordFails(NextPhase)

(* activate_files, one rename or link replacement at a time. *)
Activate(o) == pc = "forward" /\ known = "linking" /\ op = o

ActivateOld ==
    /\ Activate("old") /\ Valid("linking", FALSE)
    /\ where' = (IF plan.source # plan.target THEN [where EXCEPT !["old"] = plan.target]
                 ELSE where)
    /\ op' = "cand"
    /\ UNCHANGED <<plan, manifest, current, previous, staging, unit, pc, known, origin,
                   own, calm>>

ActivateCandidate ==
    /\ Activate("cand") /\ Free("new")
    /\ where' = [where EXCEPT !["cand"] = "new"]
    /\ op' = "previous"
    /\ UNCHANGED <<plan, manifest, current, previous, staging, unit, pc, known, origin,
                   own, calm>>

(* "activation candidate destination changed" *)
ActivateRefused ==
    /\ Activate("cand") /\ ~Free("new") /\ GiveUp
    /\ UNCHANGED <<plan, manifest, current, previous, staging, unit, calm>>

ActivatePrevious ==
    /\ Activate("previous")
    /\ previous' = (IF plan.target = "none" THEN previous ELSE plan.target)
    /\ op' = "current"
    /\ UNCHANGED <<plan, manifest, where, current, staging, unit, pc, known, origin, own,
                   calm>>

ActivateCurrent ==
    /\ Activate("current")
    /\ current' = "new" /\ op' = "activated"
    /\ UNCHANGED <<plan, manifest, where, previous, staging, unit, pc, known, origin, own,
                   calm>>

(* stop_service in the cold hand-off, restart_service for the candidate. *)
StopForHandoff ==
    /\ pc = "forward" /\ known = "stopping" /\ op = "ready"
    /\ unit' = [unit EXCEPT !.wanted = FALSE, !.running = "none"]
    /\ op' = "stopped"
    /\ UNCHANGED <<plan, manifest, files, staging, pc, known, origin, own, calm>>

StartCandidate ==
    /\ pc = "forward" /\ known = "candidate-starting" /\ op = "ready"
    /\ unit' = [enabled |-> TRUE, wanted |-> TRUE, running |-> Resolved]
    /\ op' = "started"
    /\ UNCHANGED <<plan, manifest, files, staging, pc, known, origin, own, calm>>

(* wait_for_release_health times out. *)
CandidateUnhealthy ==
    /\ pc = "forward" /\ known = "candidate-starting" /\ op = "started" /\ GiveUp
    /\ UNCHANGED <<plan, manifest, current, previous, staging, unit, calm>>

-----------------------------------------------------------------------------
(* write_runtime_env and write_service_files, and the replace_config they  *)
(* call: intent first, then the file.                                      *)

Configuring == known = "authority" \/ (known = "linked" /\ plan.handoff = "plain")

(* The environment is written once, and again when the port is taken.      *)
NewContent(k) ==
    CASE k = "env" /\ desired[k] = "none" /\ (known = "fenced" \/ Configuring) -> "a"
      [] k = "env" /\ desired[k] = "a" /\ Configuring /\ desired["service"] = "none" -> "b"
      [] k = "service" /\ desired[k] = "none" /\ Configuring /\ Published("env") -> "a"
      [] OTHER -> "none"

(* The file being written is the one that is staged. *)
Writing(k, o) ==
    pc = "forward" /\ op = o /\ (draft[k] # "none" \/ secured[k] # "none")

Write(k, o, next) ==
    /\ Writing(k, o) /\ op' = next
    /\ UNCHANGED <<plan, phase, from, files, unit, pc, known, origin, own, calm>>

WriteDraft(k) ==
    /\ pc = "forward" /\ op = "ready" /\ NewContent(k) # "none"
    /\ draft' = [draft EXCEPT ![k] = NewContent(k)] /\ op' = "journal"
    /\ UNCHANGED <<plan, manifest, files, conf, secured, unit, pc, known, origin, own,
                   calm>>

JournalIntent(k) ==
    /\ Valid(phase, FALSE)
    /\ desired' = [desired EXCEPT ![k] = draft[k]]
    /\ seen' = [seen EXCEPT ![k] = @ \cup {draft[k]}]
    /\ Write(k, "journal", "secure")
    /\ UNCHANGED staging

SecureDraft(k) ==
    /\ secured' = [secured EXCEPT ![k] = draft[k]]
    /\ Write(k, "secure", "unlink")
    /\ UNCHANGED <<desired, seen, conf, draft>>

UnlinkDraft(k) ==
    /\ draft' = [draft EXCEPT ![k] = "none"]
    /\ Write(k, "unlink", "publish")
    /\ UNCHANGED <<desired, seen, conf, secured>>

Publish(k) ==
    /\ conf' = [conf EXCEPT ![k] = secured[k]]
    /\ secured' = [secured EXCEPT ![k] = "none"]
    /\ Write(k, "publish", "ready")
    /\ UNCHANGED <<desired, seen, draft>>

(* The rename fails: the staged file gets its first name back. *)
PublishFails(k) ==
    /\ Writing(k, "publish") /\ ~calm /\ GiveUp
    /\ draft' = [draft EXCEPT ![k] = secured[k]]
    /\ secured' = [secured EXCEPT ![k] = "none"]
    /\ UNCHANGED <<plan, manifest, current, previous, conf, unit, calm>>

-----------------------------------------------------------------------------
(* complete_activation_commit, on the way forward or when settling. *)

Commits == pc \in {"forward", "settle"} /\ known \in Committing

EnsureCandidate ==
    /\ Commits /\ op = "ready"
    /\ unit' = (IF unit.running = "cand" THEN unit
                ELSE [enabled |-> TRUE, wanted |-> TRUE, running |-> Resolved])
    /\ op' = "ensured"
    /\ UNCHANGED <<plan, manifest, files, staging, pc, known, origin, own, calm>>

(* Only a candidate in final health is recorded as committed. *)
FinalHealth == op = "ensured" /\ unit.running = "cand"

CommitRecorded ==
    /\ Commits /\ known = "committing" /\ FinalHealth /\ Record("committed")
    /\ UNCHANGED <<pc, op, origin>>

CommitFails == Commits /\ known = "committing" /\ FinalHealth /\ RecordFails("committed")

(* finish: the transaction directory is renamed away, and with it a parked *)
(* candidate.                                                              *)
Retire ==
    /\ \A k \in Kinds : secured[k] \in {"none", desired[k]}
    /\ draft' = None /\ secured' = None
    /\ phase' = "none" /\ from' = "none"
    /\ pc' = "idle" /\ op' = "ready" /\ known' = "none" /\ origin' = "none" /\ own' = FALSE
    /\ where' = [where EXCEPT !["cand"] = IF @ = "parked" THEN "gone" ELSE @]
    /\ UNCHANGED <<plan, desired, seen, current, previous, conf, unit, calm>>

FinishCommit ==
    /\ Commits /\ known = "committed" /\ FinalHealth
    /\ Valid(phase, FALSE) /\ phase = "committed" /\ Retire

-----------------------------------------------------------------------------
(* restore_previous_release_transaction: the way back. *)

RollsBack == pc = "settle" /\ known \notin Committing \cup {"rollback-healthy"}

(* The phase the rollback started from, as far as this shell knows. *)
Origin == IF origin # "none" THEN origin ELSE known

(* Past these phases the service manager may run the candidate. *)
NeedsExclusion ==
    \/ Origin \in {"candidate-starting", "candidate-healthy"}
    \/ Origin \notin {"prepared", "guarded"} /\ plan.service # "absent"

EnterRollback ==
    /\ RollsBack
    /\ IF known = "rolling-back"
       THEN UNCHANGED <<plan, manifest, files, staging, unit, known, own, calm>>
       ELSE Record("rolling-back")
    /\ origin' = Origin /\ pc' = "restoring"
    /\ op' = (IF NeedsExclusion THEN "suppress" ELSE "undo old")

RollbackFails == RollsBack /\ known # "rolling-back" /\ RecordFails("rolling-back")

Restoring(o, next) ==
    /\ pc = "restoring" /\ op = o /\ op' = next
    /\ UNCHANGED <<plan, manifest, pc, known, origin, own, calm>>

(* suppress_service_autostart_for_rollback, then stop_service. *)
Suppress ==
    /\ Restoring("suppress", "stop")
    /\ unit' = [unit EXCEPT !.enabled = FALSE]
    /\ UNCHANGED <<files, staging>>

StopForRollback ==
    /\ Restoring("stop", "undo old")
    /\ unit' = [unit EXCEPT !.wanted = FALSE, !.running = "none"]
    /\ UNCHANGED <<files, staging>>

(* restore_files.  What stands in the old release's place, a link or the   *)
(* candidate, is moved away first.                                         *)
OldMoved == plan.source # plan.target /\ where["old"] = plan.target

ClearOldPlace ==
    /\ OldMoved /\ Valid("rolling-back", TRUE)
    /\ \/ plan.source = "current" /\ current # "none"
          /\ current' = "none" /\ UNCHANGED where
       \/ where["cand"] = plan.source
          /\ where' = [where EXCEPT !["cand"] = "parked"] /\ UNCHANGED current
    /\ Restoring("undo old", "undo old")
    /\ UNCHANGED <<previous, staging, unit>>

UndoOld ==
    /\ Valid("rolling-back", TRUE)
    /\ OldMoved => Free(plan.source) /\ (plan.source = "current" => current = "none")
    /\ where' = (IF OldMoved THEN [where EXCEPT !["old"] = plan.source] ELSE where)
    /\ Restoring("undo old", "undo current")
    /\ UNCHANGED <<current, previous, staging, unit>>

UndoCurrent ==
    /\ current' = (IF plan.current = "dir" THEN "none" ELSE plan.current)
    /\ Restoring("undo current", "undo previous")
    /\ UNCHANGED <<where, previous, staging, unit>>

UndoPrevious ==
    /\ previous' = plan.previous
    /\ Restoring("undo previous", "undo staging")
    /\ UNCHANGED <<where, current, staging, unit>>

(* _cleanup_config_staging *)
UndoStaging ==
    /\ \A k \in Kinds : secured[k] \in {"none", desired[k]}
    /\ draft' = None /\ secured' = None
    /\ Restoring("undo staging", "undo env")
    /\ UNCHANGED <<files, conf, unit>>

UndoConfig(k) ==
    /\ conf' = [conf EXCEPT ![k] = plan.conf[k]]
    /\ IF k = "env" THEN Restoring("undo env", "undo service")
       ELSE Restoring("undo service", "undone")
    /\ UNCHANGED <<files, draft, secured, unit>>

RollbackRecorded ==
    /\ pc = "restoring" /\ op = "undone" /\ Record("rolled-back")
    /\ op' = (IF NeedsExclusion THEN "enable" ELSE "verified")
    /\ UNCHANGED <<pc, origin>>

RollbackRecordFails == pc = "restoring" /\ op = "undone" /\ RecordFails("rolled-back")

(* Fault: the service is enabled whatever it was before. *)
RestoreEnabledAlways ==
    /\ Restoring("enable", "start")
    /\ unit' = [unit EXCEPT !.enabled = TRUE]
    /\ UNCHANGED <<files, staging>>

(* restore_prior_service_state *)
RestoreEnabled ==
    /\ Restoring("enable", "start")
    /\ unit' = [unit EXCEPT !.enabled = plan.enabled]
    /\ UNCHANGED <<files, staging>>

RestoreRunning ==
    /\ Restoring("start", "verified")
    /\ unit' = [unit EXCEPT !.wanted = (plan.service = "running"),
                            !.running = IF plan.service = "running" THEN Resolved ELSE "none"]
    /\ UNCHANGED <<files, staging>>

HealthyRecorded ==
    /\ pc = "restoring" /\ op = "verified" /\ known = "rolled-back"
    /\ Record("rollback-healthy")
    /\ UNCHANGED <<pc, op, origin>>

HealthyRecordFails ==
    /\ pc = "restoring" /\ op = "verified" /\ known = "rolled-back"
    /\ RecordFails("rollback-healthy")

FinishesRollback ==
    pc \in {"settle", "restoring"} /\ known = "rollback-healthy" /\ phase = known

ParkCandidate ==
    /\ FinishesRollback /\ Valid(phase, TRUE) /\ where["cand"] \in {"stage", "new"}
    /\ where' = [where EXCEPT !["cand"] = "parked"]
    /\ UNCHANGED <<plan, manifest, current, previous, staging, unit, shell, calm>>

FinishRollback ==
    /\ FinishesRollback /\ Valid(phase, TRUE) /\ where["cand"] \in {"parked", "gone"}
    /\ Retire

-----------------------------------------------------------------------------
Installer ==
    \/ Begin \/ Load \/ Advance \/ ActivateOld \/ ActivateCandidate \/ ActivateRefused
    \/ ActivatePrevious \/ ActivateCurrent \/ StopForHandoff \/ StartCandidate
    \/ \E k \in Kinds : \/ WriteDraft(k) \/ JournalIntent(k) \/ SecureDraft(k)
                        \/ UnlinkDraft(k) \/ Publish(k) \/ UndoConfig(k)
    \/ EnsureCandidate \/ CommitRecorded \/ FinishCommit
    \/ EnterRollback \/ Suppress \/ StopForRollback \/ ClearOldPlace \/ UndoOld
    \/ UndoCurrent \/ UndoPrevious \/ UndoStaging \/ RollbackRecorded
    \/ RestoreEnabled \/ RestoreRunning \/ HealthyRecorded \/ ParkCandidate
    \/ FinishRollback

Failures ==
    \/ BeginFails \/ AdvanceFails \/ CandidateUnhealthy \/ StepFails \/ Crash \/ Reboot
    \/ \E k \in Kinds : PublishFails(k)
    \/ CommitFails \/ RollbackFails \/ RollbackRecordFails \/ HealthyRecordFails

Next == Installer \/ Failures \/ ManagerRestart \/ Calm

(* The installer runs on, the operator starts it again while a transaction *)
(* is pending, and failures come to an end.  A refused request fails the   *)
(* installer.                                                              *)
Fairness ==
    /\ WF_vars(Installer) /\ WF_vars(RollbackFails) /\ WF_vars(AdvanceFails)
    /\ WF_vars(RollbackRecordFails) /\ WF_vars(HealthyRecordFails) /\ WF_vars(CommitFails)
    /\ WF_vars(CandidateUnhealthy) /\ WF_vars(Calm)

Spec == Init /\ [][Next]_vars
FairSpec == Spec /\ Fairness

-----------------------------------------------------------------------------
(* Correctness. *)

(* Every state a crash can leave behind passes load's validation: a        *)
(* pending transaction can always be read again.                           *)
LoadAccepts == phase # "none" => Valid(phase, TRUE)

(* With no transaction pending the installation is exactly the one before  *)
(* the update or exactly the candidate's: releases, links, both            *)
(* configuration files, nothing staged, and the unit's enablement.         *)
Original ==
    /\ plan.source # "none" => where["old"] = plan.source
    /\ where["cand"] = "gone" /\ OriginalCurrent /\ OriginalPrevious
    /\ conf = plan.conf /\ unit.enabled = plan.enabled
Updated ==
    /\ CandidateCurrent(FALSE) /\ CandidatePrevious
    /\ \A k \in Kinds : conf[k] \in {"a", "b"}
    /\ unit.enabled
SettledExact ==
    phase = "none" => (Original \/ Updated) /\ draft = None /\ secured = None

(* restore_files changes a link, the old release's place or a              *)
(* configuration file only while no service process runs and the manager   *)
(* will start none.                                                        *)
Restored == <<where["old"], current, previous, conf>>
RestoreExclusive ==
    [][(phase = "rolling-back" /\ Restored' # Restored)
         => ~unit.wanted /\ unit.running = "none"]_vars

(* The old release is never started on a candidate's configuration, by the *)
(* installer or by the service manager, whatever is restarted half-way     *)
(* through a rollback.                                                     *)
OldOnOldConfig ==
    [][(unit.running # "old" /\ unit'.running = "old") => conf = plan.conf]_vars

(* Past the commit boundary nothing is taken back, even by a shell that    *)
(* was never told the boundary was passed.                                 *)
Kept == <<Restored, where["cand"]>>
CommitIsFinal ==
    [][(phase \in Committing) => (phase' \in Committing \cup {"none"} /\ Kept' = Kept)]_vars

(* A transaction that failed or was interrupted is settled, or at least    *)
(* taken back on disk, once failures cease.                                *)
TakenBackOrDone == phase # "none" ~> phase \in {"none", "rolled-back"}

(* It is settled: no journal stays behind, as the retry of a rollback      *)
(* (recover_pending_activation_transaction) promises.                      *)
AlwaysSettles == phase # "none" ~> phase = "none"

(* Whatever a crash left, the journal still loads, a settled activation is    *)
(* exactly the old or the new release, and no two restores or wrong pairs of  *)
(* release and configuration run (_validate_invocation, restore_files,        *)
(* install.sh).                                                               *)
RecoverySound ==
  /\ [](TypeOK /\ LoadAccepts /\ SettledExact)
  /\ RestoreExclusive
  /\ OldOnOldConfig

=============================================================================
