--------------------------- MODULE ActivationProofs ---------------------------
(***************************************************************************)
(* Past its commit boundary an activation is never taken back, for every   *)
(* set of layouts and hand-offs.                                           *)
(***************************************************************************)
EXTENDS ActivationTransaction, TLAPS

WriteOps == {"journal", "secure", "unlink", "publish"}
BackPhases == {"rolling-back"} \cup RolledBack

(* What the shell believes.  Going forward it knows the phase.  When it    *)
(* settles, the journal may be one record ahead of it, but only of a       *)
(* record of the way forward.  When it restores, the journal is on the way *)
(* back.                                                                   *)
Belief ==
    /\ pc \in {"idle", "forward", "settle", "restoring"}
    /\ pc = "forward" => known \in Reversible \cup Committing /\ phase = known
    /\ pc = "settle" => \/ phase = known
                        \/ /\ known \in Reversible \cup {"committing"}
                           /\ <<known, phase>> \in Forward
    /\ pc = "restoring" => known \in BackPhases /\ phase = known

(* A configuration file is being written only in the phases that allow it. *)
WritesEarly ==
    pc = "forward" /\ op \in WriteOps => known \in {"linked", "fenced", "authority"}

(* A committed candidate is in its place, so no clean-up of a stage or of  *)
(* a parked candidate can reach it.                                        *)
InPlace ==
    /\ DOMAIN where = Releases
    /\ phase \in Committing => where["cand"] = "new"

CommitInv == Belief /\ WritesEarly /\ InPlace

(* What a step must keep: CommitInv, and everything that was committed. *)
Final ==
    phase \in Committing => phase' \in Committing \cup {"none"} /\ Kept' = Kept
Preserved == CommitInv' /\ Final

-----------------------------------------------------------------------------
(* Lemmas about record. *)

(* A record is granted only along the journal's transitions. *)
LEMMA RecordFollows ==
    ASSUME NEW q, RecordAccepted(q)
    PROVE  q = phase \/ CanFollow(phase, q)
BY DEF RecordAccepted

(* record validates the disk for a committing phase: the candidate is in   *)
(* its place.                                                              *)
LEMMA CommitsInPlace ==
    ASSUME NEW q \in Committing, RecordAccepted(q)
    PROVE  where["cand"] = "new"
<1> DEFINE lost == q \in {"rolling-back"} \cup RolledBack
<1>1. ~lost
  BY DEF Committing, RolledBack
<1>2. Valid(q, lost)
  BY DEF RecordAccepted
<1>3. CurrentValid(q, lost)
  BY <1>2 DEF Valid
<1> HIDE DEF lost
<1>4. CandidateCurrent(lost)
  BY <1>3 DEF CurrentValid, Committing, RolledBack
<1> QED
  BY <1>1, <1>4 DEF CandidateCurrent

(* The way forward leads to phases of the way forward. *)
LEMMA ForwardPhases ==
    ASSUME NextPhase # "none"
    PROVE  /\ NextPhase \in Reversible \cup Committing
           /\ known \notin Committing
BY DEF NextPhase, Reversible, Committing

-----------------------------------------------------------------------------
(* The steps, by what they touch. *)

(* Exit removes no more than a stage. *)
LEMMA ExitKeeps ==
    ASSUME InPlace, Exit, UNCHANGED <<current, previous, conf>>
    PROVE  /\ DOMAIN where' = Releases
           /\ where["cand"] = "new" => where'["cand"] = "new"
           /\ where["cand"] = "new" => Kept' = Kept
           /\ pc' = "idle"
BY DEF InPlace, Exit, Kept, Restored, Releases

(* Giving up: the journal is where it was, or one record ahead. *)
LEMMA GiveUpPreserves ==
    ASSUME CommitInv, pc # "idle", GiveUp,
           UNCHANGED <<current, previous, conf>>,
           phase \in Committing => phase' \in Committing,
           phase' \in Committing => where["cand"] = "new",
           pc = "forward" => phase' = phase \/ <<known, phase'>> \in Forward
    PROVE  Preserved
<1>1. CASE pc = "forward"
  <2>1. /\ pc' = "settle" /\ op' = "ready"
        /\ UNCHANGED <<known, where>>
    BY <1>1 DEF GiveUp
  <2>2. Belief'
    <3>1. known \in Reversible \cup Committing /\ phase = known
      BY <1>1 DEF CommitInv, Belief
    <3>2. phase' = known \/ <<known, phase'>> \in Forward
      BY <1>1, <3>1
    <3>3. <<known, phase'>> \in Forward => known # "committed"
      BY DEF Forward
    <3>4. known \in Reversible \cup {"committing"} \/ known = "committed"
      BY <3>1 DEF Committing
    <3> QED
      BY <2>1, <3>2, <3>3, <3>4 DEF Belief
  <2>3. WritesEarly'
    BY <2>1 DEF WritesEarly
  <2>4. InPlace' /\ Final
    BY <2>1 DEF CommitInv, InPlace, Final, Kept, Restored
  <2> QED
    BY <2>2, <2>3, <2>4 DEF Preserved, CommitInv
<1>2. CASE pc # "forward"
  <2>1. Exit
    BY <1>2 DEF GiveUp
  <2>2. /\ DOMAIN where' = Releases
        /\ where["cand"] = "new" => where'["cand"] = "new"
        /\ where["cand"] = "new" => Kept' = Kept
        /\ pc' = "idle"
    BY <2>1, ExitKeeps DEF CommitInv
  <2>3. InPlace' /\ Final
    BY <2>2 DEF InPlace, Final, CommitInv
  <2>4. Belief' /\ WritesEarly'
    BY <2>2 DEF Belief, WritesEarly
  <2> QED
    BY <2>3, <2>4 DEF Preserved, CommitInv
<1> QED
  BY <1>1, <1>2

(* A refused record, or one whose success the shell does not learn: a      *)
(* committing journal is never taken back.                                 *)
LEMMA RecordFailsPreserves ==
    ASSUME CommitInv, pc # "idle", NEW q, RecordFails(q),
           pc = "forward" => q # "rolling-back"
    PROVE  Preserved
<1>1. GiveUp /\ UNCHANGED <<current, previous, conf>>
  BY DEF RecordFails, staging
<1>2. CASE RecordAccepted(q) /\ phase' = q
  <2>1. q = phase \/ CanFollow(phase, q)
    BY <1>2, RecordFollows
  <2>2. phase \in Committing => phase' \in Committing
    BY <1>2, <2>1 DEF CanFollow, Forward, Committing, Reversible
  <2>3. phase' \in Committing => where["cand"] = "new"
    BY <1>2, CommitsInPlace
  <2>4. pc = "forward" => phase' = phase \/ <<known, phase'>> \in Forward
    BY <1>2, <2>1 DEF CanFollow, CommitInv, Belief
  <2> QED
    BY <1>1, <2>2, <2>3, <2>4, GiveUpPreserves
<1>3. CASE UNCHANGED phase
  BY <1>1, <1>3, GiveUpPreserves DEF CommitInv, InPlace
<1> QED
  BY <1>2, <1>3 DEF RecordFails, ReplaceManifest

(* A granted record. *)
LEMMA RecordPreserves ==
    ASSUME CommitInv, NEW q, Record(q), pc' \in {"forward", "settle", "restoring"},
           q = "rolling-back" => pc' = "restoring",
           pc' = "forward" => q \in Reversible \cup Committing /\ op' \notin WriteOps,
           pc' = "restoring" => q \in BackPhases
    PROVE  Preserved
<1>1. /\ RecordAccepted(q) /\ phase' = q /\ known' = q
      /\ UNCHANGED <<where, current, previous, conf>>
  BY DEF Record, ReplaceManifest, files, staging
<1>2. q = phase \/ CanFollow(phase, q)
  BY <1>1, RecordFollows
<1>3. q \in Committing => where["cand"] = "new"
  BY <1>1, CommitsInPlace
<1>4. Belief' /\ WritesEarly'
  BY <1>1 DEF Belief, WritesEarly
<1>5. InPlace'
  BY <1>1, <1>3 DEF InPlace, CommitInv
<1>6. Final
  <2>1. phase \in Committing => q \in Committing
    BY <1>2 DEF CanFollow, Forward, Committing, Reversible
  <2> QED
    BY <1>1, <2>1 DEF Final, Kept, Restored
<1> QED
  BY <1>4, <1>5, <1>6 DEF Preserved, CommitInv

(* A step that leaves the journal, the shell's belief and the disk alone. *)
LEMMA IdlePreserves ==
    ASSUME CommitInv, UNCHANGED <<phase, where, current, previous, conf>>,
           \/ UNCHANGED <<pc, known, op>>
           \/ UNCHANGED <<pc, known>> /\ op' \notin WriteOps
           \/ pc' = "idle"
    PROVE  Preserved
<1>1. Belief' /\ WritesEarly'
  BY DEF CommitInv, Belief, WritesEarly
<1>2. InPlace' /\ Final
  BY DEF CommitInv, InPlace, Final, Kept, Restored
<1> QED
  BY <1>1, <1>2 DEF Preserved, CommitInv

(* A step of the way forward or of the way back that changes the disk: the *)
(* journal is not committing.                                              *)
LEMMA DiskPreserves ==
    ASSUME CommitInv, UNCHANGED <<phase, pc, known>>, DOMAIN where' = Releases,
           phase \notin Committing,
           op' \notin WriteOps \/ known \in {"linked", "fenced", "authority"}
    PROVE  Preserved
<1>1. Belief' /\ WritesEarly'
  BY DEF CommitInv, Belief, WritesEarly
<1>2. InPlace' /\ Final
  BY DEF CommitInv, InPlace, Final
<1> QED
  BY <1>1, <1>2 DEF Preserved, CommitInv

(* finish: the transaction is over. *)
LEMMA RetirePreserves ==
    ASSUME CommitInv, Retire
    PROVE  Preserved
<1>1. /\ phase' = "none" /\ pc' = "idle"
      /\ UNCHANGED <<current, previous, conf>>
      /\ where' = [where EXCEPT !["cand"] = IF @ = "parked" THEN "gone" ELSE @]
  BY DEF Retire
<1>2. DOMAIN where' = Releases
  BY <1>1 DEF CommitInv, InPlace
<1>3. where["cand"] = "new" => where'["cand"] = where["cand"] /\ where'["old"] = where["old"]
  BY <1>1 DEF CommitInv, InPlace, Releases
<1>4. Belief' /\ WritesEarly'
  BY <1>1 DEF Belief, WritesEarly
<1>5. InPlace'
  BY <1>1, <1>2 DEF InPlace, Committing
<1>6. Final
  BY <1>1, <1>3 DEF Final, Kept, Restored, CommitInv, InPlace
<1> QED
  BY <1>4, <1>5, <1>6 DEF Preserved, CommitInv

-----------------------------------------------------------------------------
(* The steps, one by one. *)

(* A step that goes forward is a record, a change of the disk before the   *)
(* commit boundary, or a failure.                                          *)
LEMMA ForwardStep ==
    ASSUME CommitInv,
           \/ Advance \/ AdvanceFails \/ ActivateOld \/ ActivateCandidate
           \/ ActivateRefused \/ ActivatePrevious \/ ActivateCurrent
           \/ StopForHandoff \/ StartCandidate \/ CandidateUnhealthy
    PROVE  Preserved
<1> USE DEF manifest, files, staging, shell
<1>1. CASE Advance
  <2>1. /\ NextPhase \in Reversible \cup Committing /\ Record(NextPhase)
        /\ pc' = "forward" /\ op' \notin WriteOps
    BY <1>1, ForwardPhases DEF Advance, WriteOps
  <2>2. NextPhase # "rolling-back"
    BY <2>1 DEF Reversible, Committing
  <2> QED
    BY <2>1, <2>2, RecordPreserves
<1>2. CASE AdvanceFails
  <2>1. /\ NextPhase \in Reversible \cup Committing /\ RecordFails(NextPhase)
        /\ pc = "forward"
    BY <1>2, ForwardPhases DEF AdvanceFails
  <2>2. NextPhase # "rolling-back"
    BY <2>1 DEF Reversible, Committing
  <2> QED
    BY <2>1, <2>2, RecordFailsPreserves
<1>3. CASE \/ ActivateOld \/ ActivateCandidate \/ ActivatePrevious \/ ActivateCurrent
  <2>1. pc = "forward" /\ known = "linking" /\ UNCHANGED <<phase, pc, known>>
    BY <1>3 DEF ActivateOld, ActivateCandidate, ActivatePrevious, ActivateCurrent, Activate
  <2>2. phase \notin Committing
    BY <2>1 DEF CommitInv, Belief, Committing
  <2>3. DOMAIN where' = Releases
    BY <1>3 DEF ActivateOld, ActivateCandidate, ActivatePrevious, ActivateCurrent,
                CommitInv, InPlace
  <2>4. op' \notin WriteOps
    BY <1>3 DEF ActivateOld, ActivateCandidate, ActivatePrevious, ActivateCurrent, WriteOps
  <2> QED
    BY <2>1, <2>2, <2>3, <2>4, DiskPreserves
<1>4. CASE StopForHandoff \/ StartCandidate
  BY <1>4, IdlePreserves DEF StopForHandoff, StartCandidate, WriteOps
<1>5. CASE ActivateRefused \/ CandidateUnhealthy
  <2>1. /\ pc = "forward" /\ GiveUp
        /\ UNCHANGED <<current, previous, conf, phase>>
    BY <1>5 DEF ActivateRefused, CandidateUnhealthy, Activate
  <2> QED
    BY <2>1, GiveUpPreserves DEF CommitInv, InPlace
<1> QED
  BY <1>1, <1>2, <1>3, <1>4, <1>5

(* A configuration file is written before the candidate starts. *)
LEMMA ConfigStep ==
    ASSUME CommitInv, NEW k \in Kinds,
           \/ WriteDraft(k) \/ JournalIntent(k) \/ SecureDraft(k) \/ UnlinkDraft(k)
           \/ Publish(k) \/ PublishFails(k)
    PROVE  Preserved
<1> USE DEF manifest, files, staging, shell
<1>1. CASE WriteDraft(k)
  <2>1. pc = "forward" /\ known \in {"linked", "fenced", "authority"}
    BY <1>1 DEF WriteDraft, NewContent, Configuring
  <2>2. phase \notin Committing
    BY <2>1 DEF CommitInv, Belief, Committing
  <2>3. UNCHANGED <<phase, pc, known>> /\ DOMAIN where' = Releases
    BY <1>1 DEF WriteDraft, CommitInv, InPlace
  <2> QED
    BY <2>1, <2>2, <2>3, DiskPreserves
<1>2. CASE JournalIntent(k) \/ SecureDraft(k) \/ UnlinkDraft(k) \/ Publish(k)
  <2>1. pc = "forward" /\ op \in WriteOps /\ UNCHANGED <<phase, pc, known, where>>
    BY <1>2 DEF JournalIntent, SecureDraft, UnlinkDraft, Publish, Write, Writing, WriteOps
  <2>2. known \in {"linked", "fenced", "authority"}
    BY <2>1 DEF CommitInv, WritesEarly
  <2>3. phase \notin Committing
    BY <2>1, <2>2 DEF CommitInv, Belief, Committing
  <2>4. DOMAIN where' = Releases
    BY <2>1 DEF CommitInv, InPlace
  <2> QED
    BY <2>1, <2>2, <2>3, <2>4, DiskPreserves
<1>3. CASE PublishFails(k)
  <2>1. /\ pc = "forward" /\ GiveUp
        /\ UNCHANGED <<current, previous, conf, phase>>
    BY <1>3 DEF PublishFails, Writing
  <2> QED
    BY <2>1, GiveUpPreserves DEF CommitInv, InPlace
<1> QED
  BY <1>1, <1>2, <1>3

(* complete_activation_commit keeps what it commits. *)
LEMMA CommitStep ==
    ASSUME CommitInv,
           EnsureCandidate \/ CommitRecorded \/ CommitFails \/ FinishCommit
    PROVE  Preserved
<1> USE DEF manifest, files, staging, shell
<1>1. CASE EnsureCandidate
  BY <1>1, IdlePreserves DEF EnsureCandidate, WriteOps
<1>2. CASE CommitRecorded
  <2>1. /\ Record("committed") /\ pc' \in {"forward", "settle"}
        /\ op' = "ensured"
    BY <1>2 DEF CommitRecorded, Commits, FinalHealth
  <2> QED
    BY <2>1, RecordPreserves DEF Committing, WriteOps
<1>3. CASE CommitFails
  BY <1>3, RecordFailsPreserves DEF CommitFails, Commits
<1>4. CASE FinishCommit
  BY <1>4, RetirePreserves DEF FinishCommit
<1> QED
  BY <1>1, <1>2, <1>3, <1>4

(* A rollback begins only where the journal still allows it: a shell that  *)
(* missed the record of the commit boundary is refused.                    *)
LEMMA EnterRollbackStep ==
    ASSUME CommitInv, EnterRollback \/ RollbackFails
    PROVE  Preserved
<1> USE DEF manifest, files, staging, shell
<1>1. CASE EnterRollback /\ known = "rolling-back"
  <2>1. /\ pc = "settle" /\ pc' = "restoring"
        /\ UNCHANGED <<phase, known, where>>
    BY <1>1 DEF EnterRollback, RollsBack
  <2>2. phase = "rolling-back"
    BY <1>1, <2>1 DEF CommitInv, Belief, Reversible
  <2>3. Belief' /\ WritesEarly'
    BY <1>1, <2>1, <2>2 DEF Belief, WritesEarly, BackPhases
  <2>4. InPlace' /\ Final
    BY <2>1, <2>2 DEF CommitInv, InPlace, Final, Committing
  <2> QED
    BY <2>3, <2>4 DEF Preserved, CommitInv
<1>2. CASE EnterRollback /\ known # "rolling-back"
  <2>1. Record("rolling-back") /\ pc' = "restoring"
    BY <1>2 DEF EnterRollback
  <2> QED
    BY <2>1, RecordPreserves DEF BackPhases
<1>3. CASE RollbackFails
  BY <1>3, RecordFailsPreserves DEF RollbackFails, RollsBack
<1> QED
  BY <1>1, <1>2, <1>3

(* The way back works on a journal that is rolling back. *)
LEMMA RestoreStep ==
    ASSUME CommitInv,
           \/ Suppress \/ StopForRollback \/ ClearOldPlace \/ UndoOld \/ UndoCurrent
           \/ UndoPrevious \/ UndoStaging \/ (\E k \in Kinds : UndoConfig(k))
           \/ RollbackRecorded \/ RollbackRecordFails \/ RestoreEnabled \/ RestoreRunning
           \/ HealthyRecorded \/ HealthyRecordFails \/ ParkCandidate \/ FinishRollback
    PROVE  Preserved
<1> USE DEF manifest, files, staging, shell
<1>1. CASE Suppress \/ StopForRollback \/ RestoreEnabled \/ RestoreRunning
  BY <1>1, IdlePreserves DEF Suppress, StopForRollback, RestoreEnabled, RestoreRunning,
                             Restoring, WriteOps
<1>2. CASE \/ ClearOldPlace \/ UndoOld \/ UndoCurrent \/ UndoPrevious \/ UndoStaging
           \/ \E k \in Kinds : UndoConfig(k)
  <2>1. /\ pc = "restoring" /\ UNCHANGED <<phase, pc, known>> /\ op' \notin WriteOps
    BY <1>2 DEF ClearOldPlace, UndoOld, UndoCurrent, UndoPrevious, UndoStaging, UndoConfig,
                Restoring, WriteOps
  <2>2. phase \notin Committing
    BY <2>1 DEF CommitInv, Belief, BackPhases, RolledBack, Committing
  <2>3. DOMAIN where' = Releases
    BY <1>2 DEF ClearOldPlace, UndoOld, UndoCurrent, UndoPrevious, UndoStaging, UndoConfig,
                CommitInv, InPlace
  <2> QED
    BY <2>1, <2>2, <2>3, DiskPreserves
<1>3. CASE RollbackRecorded
  <2>1. Record("rolled-back") /\ pc' = "restoring"
    BY <1>3 DEF RollbackRecorded
  <2> QED
    BY <2>1, RecordPreserves DEF BackPhases, RolledBack
<1>4. CASE HealthyRecorded
  <2>1. Record("rollback-healthy") /\ pc' = "restoring"
    BY <1>4 DEF HealthyRecorded
  <2> QED
    BY <2>1, RecordPreserves DEF BackPhases, RolledBack
<1>5. CASE RollbackRecordFails
  BY <1>5, RecordFailsPreserves DEF RollbackRecordFails
<1>6. CASE HealthyRecordFails
  BY <1>6, RecordFailsPreserves DEF HealthyRecordFails
<1>7. CASE ParkCandidate
  <2>1. /\ phase = "rollback-healthy" /\ pc # "forward" /\ UNCHANGED <<phase, pc, known, op>>
        /\ where' = [where EXCEPT !["cand"] = "parked"]
    BY <1>7 DEF ParkCandidate, FinishesRollback
  <2>2. Belief' /\ WritesEarly'
    BY <2>1 DEF CommitInv, Belief, WritesEarly
  <2>3. InPlace' /\ Final
    BY <2>1 DEF CommitInv, InPlace, Final, Committing
  <2> QED
    BY <2>2, <2>3 DEF Preserved, CommitInv
<1>8. CASE FinishRollback
  BY <1>8, RetirePreserves DEF FinishRollback
<1> QED
  BY <1>1, <1>2, <1>3, <1>4, <1>5, <1>6, <1>7, <1>8

(* An installer begins, loads a journal, fails, dies; the machine or the   *)
(* service restarts.                                                       *)
LEMMA ProcessStep ==
    ASSUME CommitInv,
           \/ Begin \/ BeginFails \/ Load \/ StepFails \/ Crash \/ Reboot
           \/ ManagerRestart \/ Calm \/ UNCHANGED vars
    PROVE  Preserved
<1> USE DEF manifest, files, staging, shell
<1>1. CASE Begin \/ BeginFails
  <2>1. /\ phase = "none" /\ phase' = "prepared" /\ DOMAIN where' = Releases
    BY <1>1 DEF Begin, BeginFails, Capture, CommitInv, InPlace
  <2>2. \/ pc' = "idle"
        \/ pc' = "forward" /\ op' = "ready" /\ known' = "prepared"
    BY <1>1 DEF Begin, BeginFails, Capture
  <2>3. Belief' /\ WritesEarly'
    BY <2>1, <2>2 DEF Belief, WritesEarly, Reversible, WriteOps
  <2>4. InPlace' /\ Final
    BY <2>1 DEF InPlace, Final, Committing
  <2> QED
    BY <2>3, <2>4 DEF Preserved, CommitInv
<1>2. CASE Load
  <2>1. /\ pc' = "settle" /\ known' = phase
        /\ UNCHANGED <<phase, where, current, previous, conf>>
    BY <1>2 DEF Load
  <2>2. Belief' /\ WritesEarly'
    BY <2>1 DEF Belief, WritesEarly
  <2>3. InPlace' /\ Final
    BY <2>1 DEF CommitInv, InPlace, Final, Kept, Restored
  <2> QED
    BY <2>2, <2>3 DEF Preserved, CommitInv
<1>3. CASE StepFails
  <2>1. /\ pc # "idle" /\ GiveUp
        /\ UNCHANGED <<current, previous, conf, phase>>
    BY <1>3 DEF StepFails
  <2> QED
    BY <2>1, GiveUpPreserves DEF CommitInv, InPlace
<1>4. CASE Crash \/ Reboot \/ ManagerRestart \/ Calm \/ UNCHANGED vars
  BY <1>4, IdlePreserves DEF Crash, Reboot, ManagerRestart, Calm, vars
<1> QED
  BY <1>1, <1>2, <1>3, <1>4

-----------------------------------------------------------------------------
(* No transaction is pending at first. *)
LEMMA CommitInvInit == Init => CommitInv
BY DEF Init, CommitInv, Belief, WritesEarly, InPlace, Committing

(* Every step keeps the invariant and whatever is committed. *)
LEMMA CommitInvNext ==
    ASSUME CommitInv, [Next]_vars
    PROVE  Preserved
<1>1. CASE Installer
  <2>1. CASE \E k \in Kinds : \/ WriteDraft(k) \/ JournalIntent(k) \/ SecureDraft(k)
                              \/ UnlinkDraft(k) \/ Publish(k)
    BY <2>1, ConfigStep
  <2>2. CASE ~\E k \in Kinds : \/ WriteDraft(k) \/ JournalIntent(k) \/ SecureDraft(k)
                               \/ UnlinkDraft(k) \/ Publish(k)
    BY <1>1, <2>2, ForwardStep, CommitStep, EnterRollbackStep, RestoreStep, ProcessStep
       DEF Installer
  <2> QED
    BY <2>1, <2>2
<1>2. CASE Failures
  BY <1>2, ForwardStep, ConfigStep, CommitStep, EnterRollbackStep, RestoreStep, ProcessStep
     DEF Failures
<1>3. CASE ManagerRestart \/ Calm \/ UNCHANGED vars
  BY <1>3, ProcessStep
<1> QED
  BY <1>1, <1>2, <1>3 DEF Next

(* Past the commit boundary (the record of "committing" in                 *)
(* activation_transaction.py) no release moves and no link or              *)
(* configuration file changes until the journal is retired, whatever       *)
(* fails, crashes or is restarted, and also for a shell that was told the  *)
(* record failed.                                                          *)
THEOREM CommitNeverTakenBack == Spec => CommitIsFinal
<1>1. CommitInv /\ [Next]_vars => CommitInv' /\ Final
  BY CommitInvNext DEF Preserved
<1> QED
  BY <1>1, CommitInvInit, PTL DEF Spec, CommitIsFinal, Final
=============================================================================
