---------------------------- MODULE JobScheduler ----------------------------
(***************************************************************************)
(* The scheduled jobs of one chat (JobStore, agent_server.py): the registry *)
(* in memory and its file, the scheduler loop, "Run now" requests, edits,   *)
(* archiving, the idle-update reservation that parks automatic jobs, and a  *)
(* restart that finds occurrences admitted but not yet recorded.            *)
(*                                                                          *)
(* Times: an occurrence is a number that is never reused; `when` says where *)
(* next_run_at lies: "future" (the occurrence itself is ahead), "deferred"  *)
(* (the occurrence has passed, its retry is ahead), "due". A revision is a  *)
(* number no holder of an old revision has.                                 *)
(***************************************************************************)
EXTENDS Integers, FiniteSets

CONSTANTS
  Jobs,        \* the jobs of the chat
  Once,        \* those that do not recur
  Limit,       \* max_runs of the others
  MaxOcc,      \* occurrences a job's schedule has (an UNTIL rule ends)
  MaxDefers,   \* JOB_RUNTIME_UNAVAILABLE_MAX_DEFERS
  MaxEdits,    \* bound: user operations on the registry and the chat
  MaxTroubles  \* bound: failed saves, failed starts, crashes, other turns

VARIABLES
  mem,        \* self.jobs
  disk,       \* JOBS_FILE
  chat,       \* STORE.sessions of the chat, durable: "open", "archived", "deleted"
  life,       \* who holds session_lifecycle_lock
  busy,       \* the chat has a running turn
  upd,        \* schedule id of the pending update-when-idle reservation, or 0
  due,        \* the scheduler's due list: job, _revision, occurrence (0: manual)
  run,        \* the two dispatchers: the scheduler and a "Run now" request
  journal,    \* turn_started events that can still match a stored revision
  edits, troubles,
  wanted,     \* ghost: the jobs whose user wants them enabled
  started,    \* ghost: occurrences (and 0: the manual request) already started
  again       \* ghost: one of them was started a second time

vars == <<mem, disk, chat, life, busy, upd, due, run, journal, edits, troubles, wanted, started, again>>

Dispatchers == {"scheduler", "request"}
Occurrences == 0 .. MaxOcc
Revisions == 1 .. 4 * Cardinality(Jobs) + 8
Schedules == 1 .. 2 * Cardinality(Jobs) + 1

NoJob == [live |-> FALSE, on |-> FALSE, occ |-> 0, when |-> "none", last |-> 0, runs |-> 0,
          manual |-> FALSE, told |-> FALSE, defers |-> 0, park |-> 0, exact |-> FALSE, rev |-> 0]
Idle == [pc |-> "idle", job |-> CHOOSE j \in Jobs : TRUE, dueRev |-> 0, rev |-> 0, occ |-> 0, manual |-> FALSE]

(* Every operator below works on a whole registry, as save does.              *)
TypeOK ==
  /\ {mem, disk} \subseteq [Jobs -> [live : BOOLEAN, on : BOOLEAN, occ : Occurrences,
        when : {"none", "future", "deferred", "due"}, last : Occurrences, runs : 0 .. Limit,
        manual : BOOLEAN, told : BOOLEAN, defers : 0 .. MaxDefers, park : {0} \cup Schedules,
        exact : BOOLEAN, rev : {0} \cup Revisions]]
  /\ chat \in {"open", "archived", "deleted"} /\ life \in {"free", "archive"} \cup Dispatchers
  /\ busy \in BOOLEAN /\ upd \in {0} \cup Schedules
  /\ due \subseteq [job : Jobs, rev : {0} \cup Revisions, occ : Occurrences]
  /\ run \in [Dispatchers -> [pc : {"idle", "check", "claim", "start", "turn", "inside", "mark"},
        job : Jobs, dueRev : {0} \cup Revisions, rev : {0} \cup Revisions, occ : Occurrences, manual : BOOLEAN]]
  /\ journal \subseteq [job : Jobs, rev : Revisions, occ : Occurrences, manual : BOOLEAN]
  /\ edits \in 0 .. MaxEdits /\ troubles \in 0 .. MaxTroubles
  /\ wanted \subseteq Jobs /\ started \subseteq Jobs \X Occurrences /\ again \in BOOLEAN
  /\ \A j \in Jobs : mem[j].on => mem[j].live /\ mem[j].occ > 0 /\ mem[j].when # "none"

-----------------------------------------------------------------------------
(* new_job_revision: unlike any revision somebody still holds.                 *)
Held ==
  {mem[j].rev : j \in Jobs} \cup {disk[j].rev : j \in Jobs} \cup {d.rev : d \in due}
    \cup {run[p].dueRev : p \in Dispatchers} \cup {run[p].rev : p \in Dispatchers} \cup {e.rev : e \in journal}
Fresh(taken) == CHOOSE r \in Revisions \ taken : \A q \in Revisions \ taken : r <= q

Revised(J, j, job) == [J EXCEPT ![j] = [job EXCEPT !.rev = Fresh(Held \cup {J[i].rev : i \in Jobs})]]
Unparked(job) == [job EXCEPT !.park = 0, !.exact = FALSE]
Cleared(job) == [Unparked(job) EXCEPT !.defers = 0]
NoManual(job) == [job EXCEPT !.manual = FALSE, !.told = FALSE]
Off(job) == [job EXCEPT !.on = FALSE, !.occ = 0, !.when = "none"]

(* next_job_occurrence: the first one after now, or none is left.              *)
NextOccurrence(job) ==
  IF job.last < MaxOcc
  THEN [job EXCEPT !.last = @ + 1, !.occ = job.last + 1, !.when = "future", !.on = TRUE]
  ELSE Off(job)

LimitReached(j, job) == j \notin Once /\ job.runs >= Limit
Recurring(j, job) == j \notin Once /\ job.runs < Limit

(* save: the snapshot of every job replaces the file, or the write fails and   *)
(* the mutator decides what memory keeps.                                      *)
Saved(J) == mem' = J /\ disk' = J /\ UNCHANGED troubles
SaveFails(J) == troubles < MaxTroubles /\ troubles' = troubles + 1 /\ mem' = J /\ UNCHANGED disk
Save(J) == Saved(J) \/ SaveFails(J)
SaveOrRestore(J) == Saved(J) \/ SaveFails(mem)

(* Only events of a stored revision can be matched later.                      *)
Trimmed(J) == {e \in J : \E j \in Jobs : e.rev \in {mem'[j].rev, disk'[j].rev}}
Trim == journal' = Trimmed(journal)

-----------------------------------------------------------------------------
(* pause_for_session: memory stays paused when the file cannot be written.     *)
Paused(J, fresh) ==
  [j \in Jobs |-> IF J[j].live /\ (J[j].on \/ J[j].manual)
                  THEN [NoManual(Cleared(Off(J[j]))) EXCEPT !.rev = fresh] ELSE J[j]]
PauseAll == Paused(mem, Fresh(Held))
PauseForSession == IF PauseAll = mem THEN UNCHANGED <<mem, disk, troubles>> ELSE Save(PauseAll)

(* pause_for_chat_reference_repair, of the dispatched revision only.           *)
PauseForRepair(j, rev) ==
  IF mem[j].live /\ mem[j].rev = rev
  THEN Save(Revised(mem, j, NoManual(Cleared(Off(mem[j])))))
  ELSE UNCHANGED <<mem, disk, troubles>>

(* delete_for_session: a failed removal is taken back.                         *)
DeleteForSession == SaveOrRestore([j \in Jobs |-> NoJob])

(* mark_ran: a manual run leaves a future occurrence alone; an automatic one   *)
(* moves on from the occurrence it was admitted for, whatever else was edited. *)
Ran(J, j, manual, rev, occ) ==
  LET old == J[j]
      counted == [old EXCEPT !.runs = IF @ < Limit THEN @ + 1 ELSE @,
                             !.manual = IF manual THEN FALSE ELSE @, !.told = IF manual THEN FALSE ELSE @]
      advance == old.rev = rev \/ (~manual /\ old.occ = occ)
      ahead == manual /\ old.on /\ old.when = "future" /\ Recurring(j, counted)
      moved ==
        IF ahead THEN counted
        ELSE IF advance /\ old.on /\ Recurring(j, counted) THEN NextOccurrence(counted)
        ELSE IF LimitReached(j, counted) \/ (advance /\ (~old.on \/ ~Recurring(j, counted))) THEN Off(counted)
        ELSE counted
  IN  Revised(J, j, Cleared(moved))

MarkRan(j, manual, rev, occ) ==
  IF mem[j].live THEN Save(Ran(mem, j, manual, rev, occ)) ELSE UNCHANGED <<mem, disk, troubles>>

(* defer: the occurrence of the due snapshot, retried later. id is the         *)
(* schedule of the update that parks it, or 0.                                 *)
Deferred(j, id) ==
  Revised(mem, j, [(IF id = 0 THEN Unparked(mem[j]) ELSE [mem[j] EXCEPT !.park = id, !.exact = TRUE])
                    EXCEPT !.when = "deferred"])
Defer(j, rev, occ, id) ==
  IF mem[j].live /\ mem[j].on /\ mem[j].rev = rev /\ mem[j].occ = occ
  THEN Save(Deferred(j, id)) ELSE UNCHANGED <<mem, disk, troubles>>

(* defer_for_pending_server_update: parks only while that update is pending.   *)
DeferForUpdate(j, rev, occ) ==
  IF upd # 0 THEN Defer(j, rev, occ, upd) ELSE UNCHANGED <<mem, disk, troubles>>

(* resume_update_parked: ends every park but the one of the schedule `live`.   *)
Resumed(J, live) ==
  [j \in Jobs |->
     IF J[j].park \in {0, live} THEN J[j]
     ELSE [Unparked(J[j]) EXCEPT !.when = IF J[j].exact /\ J[j].on THEN "due" ELSE @,
                                 !.rev = Fresh(Held)]]

(* _record_manual_run_deferred: a new reason is a new revision.                *)
Told(j) ==
  IF mem[j].live /\ mem[j].manual /\ ~mem[j].told
  THEN Revised(mem, j, [mem[j] EXCEPT !.told = TRUE, !.exact = FALSE]) ELSE mem
RecordManualDeferred(j) == IF Told(j) = mem THEN UNCHANGED <<mem, disk, troubles>> ELSE Save(Told(j))

(* _clear_failed_manual_run                                                    *)
ClearFailedManual(j) ==
  IF mem[j].live /\ mem[j].manual
  THEN Save(Revised(mem, j, [NoManual(mem[j]) EXCEPT !.exact = FALSE]))
  ELSE UNCHANGED <<mem, disk, troubles>>

-----------------------------------------------------------------------------
Init ==
  /\ mem = [j \in Jobs |-> NoJob] /\ disk = mem
  /\ chat = "open" /\ life = "free" /\ busy = FALSE /\ upd = 0
  /\ due = {} /\ run = [p \in Dispatchers |-> Idle] /\ journal = {}
  /\ edits = 0 /\ troubles = 0 /\ wanted = {} /\ started = {} /\ again = FALSE

User == edits < MaxEdits /\ edits' = edits + 1

(* create: under the chat's lifecycle lock; a failed save removes it again.    *)
Create(j) ==
  /\ User /\ life = "free" /\ chat = "open" /\ ~mem[j].live /\ mem[j].last = 0
  /\ SaveOrRestore(Revised(mem, j, NextOccurrence([NoJob EXCEPT !.live = TRUE])))
  /\ wanted' = IF mem'[j].live THEN wanted \cup {j} ELSE wanted
  /\ Trim
  /\ UNCHANGED <<chat, life, busy, upd, due, run, started, again>>

(* update: any edit is a new revision; in an archived chat it disables.        *)
Edited(j, how) ==
  LET on == how = "on" \/ (how \in {"text", "time"} /\ mem[j].on /\ chat = "open")
      base == Cleared(mem[j])
      kept == IF ~on \/ LimitReached(j, base) THEN Off(base)
              ELSE IF how = "text" THEN base ELSE NextOccurrence(base)
  IN  Revised(mem, j, kept)

Update(j, how) ==
  /\ User /\ life = "free" /\ mem[j].live /\ chat # "deleted" /\ (how = "on" => chat = "open")
  /\ SaveOrRestore(Edited(j, how))
  /\ wanted' = IF mem' = mem THEN wanted ELSE IF mem'[j].on THEN wanted \cup {j} ELSE wanted \ {j}
  /\ Trim
  /\ UNCHANGED <<chat, life, busy, upd, due, run, started, again>>

(* delete: a failed save puts the job back.                                    *)
Delete(j) ==
  /\ User /\ life = "free" /\ mem[j].live
  /\ SaveOrRestore([mem EXCEPT ![j] = [NoJob EXCEPT !.last = mem[j].last]])
  /\ Trim
  /\ UNCHANGED <<chat, life, busy, upd, due, run, wanted, started, again>>

(* update_session, archived = TRUE: the session is durable first, then its     *)
(* jobs pause, all under the lifecycle lock.                                   *)
Archive ==
  /\ User /\ life = "free" /\ chat = "open"
  /\ chat' = "archived" /\ life' = "archive" /\ wanted' = {}
  /\ UNCHANGED <<mem, disk, busy, upd, due, run, journal, troubles, started, again>>

ArchivePause ==
  /\ life = "archive" /\ life' = "free"
  /\ PauseForSession /\ Trim
  /\ UNCHANGED <<chat, busy, upd, due, run, edits, wanted, started, again>>

(* update_session, archived = FALSE: the pause is written out first, changed   *)
(* or not; without that write the chat stays archived.                         *)
Unarchive ==
  /\ User /\ life = "free" /\ chat = "archived"
  /\ Save(PauseAll) /\ Trim
  /\ chat' = IF disk' = mem' THEN "open" ELSE "archived"
  /\ UNCHANGED <<life, busy, upd, due, run, wanted, started, again>>

(* The chat is deleted, its jobs with it; the tombstone is durable first.      *)
DeleteChat ==
  /\ User /\ life = "free" /\ ~busy /\ chat # "deleted"
  /\ chat' = "deleted" /\ wanted' = {}
  /\ DeleteForSession /\ Trim
  /\ UNCHANGED <<life, busy, upd, due, run, started, again>>

(* request_manual_run: pending is durable before anything is dispatched.       *)
RequestManual(j) ==
  /\ User /\ mem[j].live /\ chat = "open" /\ run["request"].pc = "idle"
  /\ IF mem[j].manual THEN UNCHANGED <<mem, disk, troubles>>
     ELSE Save(Revised(mem, j, [mem[j] EXCEPT !.manual = TRUE, !.told = FALSE, !.exact = FALSE]))
  /\ started' = IF mem[j].manual THEN started ELSE started \ {<<j, 0>>}
  /\ run' = IF mem[j].manual \/ disk' = mem'
            THEN [run EXCEPT !["request"] = [Idle EXCEPT !.pc = "claim", !.job = j, !.manual = TRUE]] ELSE run
  /\ Trim
  /\ UNCHANGED <<chat, life, busy, upd, due, wanted, again>>

-----------------------------------------------------------------------------
(* Time passes: an occurrence or a retry becomes due.                          *)
Tick(j) ==
  /\ mem[j].on /\ mem[j].when \in {"future", "deferred"}
  /\ mem' = [mem EXCEPT ![j].when = "due"]
  /\ disk' = [disk EXCEPT ![j].when = IF disk[j].occ = mem[j].occ /\ @ # "none" THEN "due" ELSE @]
  /\ UNCHANGED <<chat, life, busy, upd, due, run, journal, edits, troubles, wanted, started, again>>

(* Another turn of the chat, and the end of any.                               *)
OtherTurn ==
  /\ troubles < MaxTroubles /\ troubles' = troubles + 1
  /\ ~busy /\ life = "free" /\ chat = "open" /\ busy' = TRUE
  /\ UNCHANGED <<mem, disk, chat, life, upd, due, run, journal, edits, wanted, started, again>>

TurnEnds ==
  /\ busy /\ busy' = FALSE
  /\ UNCHANGED <<mem, disk, chat, life, upd, due, run, journal, edits, troubles, wanted, started, again>>

(* An idle update is reserved; its runner fails it without telling the jobs;   *)
(* the user cancels it; a client reads its status.                             *)
UpdateReserve ==
  /\ User /\ upd = 0
  /\ upd' = CHOOSE s \in Schedules : \A j \in Jobs : s \notin {mem[j].park, disk[j].park}
  /\ UNCHANGED <<mem, disk, chat, life, busy, due, run, journal, troubles, wanted, started, again>>

UpdateFails ==
  /\ upd # 0 /\ upd' = 0
  /\ UNCHANGED <<mem, disk, chat, life, busy, due, run, journal, edits, troubles, wanted, started, again>>

ResumeParked(live) ==
  IF Resumed(mem, live) = mem THEN UNCHANGED <<mem, disk, troubles>> ELSE Save(Resumed(mem, live))

UpdateCancel ==
  /\ upd # 0 /\ upd' = 0
  /\ ResumeParked(0) /\ Trim
  /\ UNCHANGED <<chat, life, busy, due, run, edits, wanted, started, again>>

PollUpdate ==
  /\ Resumed(mem, upd) # mem
  /\ ResumeParked(upd) /\ Trim
  /\ UNCHANGED <<chat, life, busy, upd, due, run, edits, wanted, started, again>>

-----------------------------------------------------------------------------

(* One round of the scheduler loop starts from a snapshot of what is due.      *)
IsDue(j) == mem[j].live /\ (mem[j].manual \/ (mem[j].on /\ mem[j].when = "due"))
CollectDue ==
  /\ due = {} /\ run["scheduler"].pc = "idle" /\ \E j \in Jobs : IsDue(j)
  /\ due' = {[job |-> j, rev |-> mem[j].rev, occ |-> IF mem[j].manual THEN 0 ELSE mem[j].occ] : j \in {i \in Jobs : IsDue(i)}}
  /\ UNCHANGED <<mem, disk, chat, life, busy, upd, run, journal, edits, troubles, wanted, started, again>>

(* The next entry: gone, of a deleted chat, of an archived chat, or to check.  *)
TakeDue(d) ==
  /\ run["scheduler"].pc = "idle" /\ d \in due /\ due' = due \ {d}
  /\ IF mem[d.job].live /\ chat = "open"
     THEN /\ run' = [run EXCEPT !["scheduler"] = [Idle EXCEPT !.pc = "check", !.job = d.job, !.dueRev = d.rev,
                                                             !.occ = d.occ, !.manual = mem[d.job].manual]]
          /\ UNCHANGED <<mem, disk, troubles, journal>>
     ELSE /\ UNCHANGED run
          /\ IF ~mem[d.job].live THEN UNCHANGED <<mem, disk, troubles>>
             ELSE IF chat = "deleted" THEN DeleteForSession ELSE PauseForSession
          /\ Trim
  /\ UNCHANGED <<chat, life, busy, upd, edits, wanted, started, again>>

(* scheduled_job_blocker holds the job back: what it defers depends on what    *)
(* the entry looked like before the wait.                                      *)
Done(p) == run' = [run EXCEPT ![p] = Idle]
Blocked ==
  LET s == run["scheduler"] IN
  /\ s.pc = "check" /\ (busy \/ (upd # 0 /\ ~s.manual))
  /\ IF s.manual THEN RecordManualDeferred(s.job)
     ELSE IF upd # 0 THEN DeferForUpdate(s.job, s.dueRev, s.occ)
     ELSE Defer(s.job, s.dueRev, s.occ, 0)
  /\ Done("scheduler") /\ Trim
  /\ UNCHANGED <<chat, life, busy, upd, due, edits, wanted, started, again>>

(* Not blocked: the entry is read again after the wait, and dropped when its   *)
(* revision moved or it is no longer due.                                      *)
StillDue(s) ==
  /\ mem[s.job].live /\ mem[s.job].rev = s.dueRev
  /\ mem[s.job].manual \/ (mem[s.job].on /\ mem[s.job].when = "due")
Recheck ==
  LET s == run["scheduler"] IN
  /\ s.pc = "check" /\ ~busy /\ (s.manual \/ upd = 0)
  /\ IF StillDue(s) /\ chat = "open"
     THEN /\ run' = [run EXCEPT !["scheduler"].pc = IF mem[s.job].manual THEN "claim" ELSE "start",
                                !["scheduler"].manual = mem[s.job].manual]
          /\ UNCHANGED <<mem, disk, troubles>>
     ELSE /\ Done("scheduler")
          /\ IF ~StillDue(s) THEN UNCHANGED <<mem, disk, troubles>>
             ELSE IF chat = "deleted" THEN DeleteForSession ELSE PauseForSession
  /\ Trim
  /\ UNCHANGED <<chat, life, busy, upd, due, edits, wanted, started, again>>

(* _dispatch_pending_manual_run: one admission at a time per job; a request    *)
(* asks for the blocker itself.                                                *)
InFlight(p, j) == \E q \in Dispatchers \ {p} : run[q].manual /\ run[q].job = j /\ run[q].pc \in {"start", "turn", "inside", "mark"}
Claim(p) ==
  LET r == run[p] IN
  /\ r.pc = "claim"
  /\ IF ~mem[r.job].live \/ ~mem[r.job].manual \/ InFlight(p, r.job)
     THEN Done(p) /\ UNCHANGED <<mem, disk, troubles>>
     ELSE IF chat = "archived" THEN Done(p) /\ PauseForSession
     ELSE IF p = "request" /\ busy THEN Done(p) /\ RecordManualDeferred(r.job)
     ELSE run' = [run EXCEPT ![p].pc = "start"] /\ UNCHANGED <<mem, disk, troubles>>
  /\ Trim
  /\ UNCHANGED <<chat, life, busy, upd, due, edits, wanted, started, again>>

(* _start_job_run: the snapshot that is dispatched, its revision with it.      *)
Snapshot(p) ==
  LET r == run[p] IN
  /\ r.pc = "start"
  /\ IF ~mem[r.job].live THEN Done(p) /\ UNCHANGED <<mem, disk, troubles>>
     ELSE IF chat = "archived" THEN Done(p) /\ PauseForSession
     ELSE /\ run' = [run EXCEPT ![p].pc = "turn", ![p].rev = mem[r.job].rev, ![p].occ = IF r.manual THEN 0 ELSE mem[r.job].occ]
          /\ UNCHANGED <<mem, disk, troubles>>
  /\ Trim
  /\ UNCHANGED <<chat, life, busy, upd, due, edits, wanted, started, again>>

(* start_turn takes the lifecycle lock and checks the chat and the revision.   *)
EnterTurn(p) ==
  LET r == run[p]
      current == mem[r.job].live /\ mem[r.job].rev = r.rev
  IN
  /\ r.pc = "turn" /\ life = "free"
  /\ IF chat = "open" /\ current
     THEN life' = p /\ run' = [run EXCEPT ![p].pc = "inside"] /\ UNCHANGED <<mem, disk, troubles>>
     ELSE /\ UNCHANGED life /\ Done(p)
          /\ IF chat = "archived" THEN PauseForSession
             ELSE IF chat = "open" /\ r.manual THEN RecordManualDeferred(r.job)
             ELSE UNCHANGED <<mem, disk, troubles>>
  /\ Trim
  /\ UNCHANGED <<chat, busy, upd, due, edits, wanted, started, again>>

(* The turn is admitted: turn_started is fsynced with the job's revision and   *)
(* occurrence, and the lock released.                                          *)
Key(r) == IF r.manual \/ r.occ # 0 THEN {<<r.job, r.occ>>} ELSE {}
Admit(p) ==
  LET r == run[p] IN
  /\ r.pc = "inside" /\ ~busy /\ (r.manual \/ upd = 0)
  /\ busy' = TRUE /\ life' = "free"
  /\ run' = [run EXCEPT ![p].pc = "mark"]
  /\ journal' = journal \cup {[job |-> r.job, rev |-> r.rev, occ |-> r.occ, manual |-> r.manual]}
  /\ started' = started \cup Key(r)
  /\ again' = (again \/ Key(r) \cap started # {})
  /\ UNCHANGED <<mem, disk, chat, upd, due, edits, troubles, wanted>>

(* A transient refusal at the gate defers; a pending update parks.             *)
Refused(p) ==
  LET r == run[p] IN
  /\ r.pc = "inside" /\ (busy \/ (upd # 0 /\ ~r.manual))
  /\ life' = "free" /\ Done(p)
  /\ IF r.manual THEN RecordManualDeferred(r.job)
     ELSE IF busy THEN Defer(r.job, r.dueRev, r.occ, 0)
     ELSE DeferForUpdate(r.job, r.dueRev, r.occ)
  /\ Trim
  /\ UNCHANGED <<chat, busy, upd, due, edits, wanted, started, again>>

(* The occurrence failed for good: the schedule moves on under the revision it *)
(* was collected with.                                                         *)
FailAdvance(r) ==
  IF mem[r.job].live /\ mem[r.job].rev = r.dueRev
  THEN Save([mem EXCEPT ![r.job] = Cleared(IF @.on /\ Recurring(r.job, @) THEN NextOccurrence(@) ELSE Off(@))])
  ELSE UNCHANGED <<mem, disk, troubles>>

(* defer_runtime_unavailable: a capped number of retries of one occurrence.    *)
DeferUnavailable(r) ==
  IF ~mem[r.job].live \/ ~mem[r.job].on \/ mem[r.job].rev # r.dueRev \/ mem[r.job].occ # r.occ
  THEN UNCHANGED <<mem, disk, troubles>>
  ELSE IF mem[r.job].defers >= MaxDefers THEN FailAdvance(r)
  ELSE Save(Revised(mem, r.job, [Unparked(mem[r.job]) EXCEPT !.when = "deferred", !.defers = @ + 1]))

(* The provider runtime is unavailable. A manual run stays pending.            *)
Unavailable(p) ==
  LET r == run[p] IN
  /\ r.pc = "inside" /\ ~busy /\ (r.manual => troubles < MaxTroubles)
  /\ life' = "free" /\ Done(p)
  /\ IF r.manual
     THEN troubles' = troubles + 1 /\ mem' = Told(r.job) /\ disk' = IF mem' = mem THEN disk ELSE mem'
     ELSE DeferUnavailable(r)
  /\ Trim
  /\ UNCHANGED <<chat, busy, upd, due, edits, wanted, started, again>>

(* A permanent error, or a saved chat target that must be repaired.            *)
Fails(p) ==
  LET r == run[p] IN
  /\ r.pc = "inside" /\ life' = "free" /\ Done(p)
  /\ IF r.manual THEN ClearFailedManual(r.job) ELSE FailAdvance(r)
  /\ Trim
  /\ UNCHANGED <<chat, busy, upd, due, edits, wanted, started, again>>

NeedsRepair(p) ==
  LET r == run[p] IN
  /\ r.pc = "inside" /\ life' = "free" /\ Done(p)
  /\ PauseForRepair(r.job, r.rev)
  /\ Trim
  /\ UNCHANGED <<chat, busy, upd, due, edits, wanted, started, again>>

(* Bookkeeping after the admission.                                            *)
Mark(p) ==
  LET r == run[p] IN
  /\ r.pc = "mark" /\ Done(p)
  /\ MarkRan(r.job, r.manual, r.rev, r.occ)
  /\ Trim
  /\ UNCHANGED <<chat, life, busy, upd, due, edits, wanted, started, again>>

-----------------------------------------------------------------------------
(* load: an archived chat's jobs are paused whatever the file says.            *)
(* What time has passed stays passed.                                          *)
OnDisk == [j \in Jobs |-> [disk[j] EXCEPT !.last = mem[j].last]]

Load == IF chat = "archived" THEN Paused(OnDisk, Fresh(Held)) ELSE OnDisk

(* durable_scheduled_job_admissions and reconcile_admitted_runs_after_restart: *)
(* an event of the stored revision and occurrence (or of the pending manual    *)
(* run) is recorded now.                                                       *)
Matches(J, j, e) ==
  /\ e.job = j /\ J[j].live /\ e.rev = J[j].rev
  /\ IF e.manual THEN J[j].manual ELSE J[j].occ # 0 /\ e.occ = J[j].occ
(* Fault: nothing is reconciled.                                               *)
ReconciledNever(J) == J

Reconciled(J) ==
  [j \in Jobs |->
    IF \E e \in journal : Matches(J, j, e)
    THEN LET e == CHOOSE e \in journal : Matches(J, j, e) IN Ran(J, j, e.manual, e.rev, e.occ)[j]
    ELSE J[j]]

(* What a restart cannot recognise as started: the file had another revision   *)
(* than the event (a "Run now", a park or an edit came in between, or the file *)
(* was behind), the park of an ended update was still on and its release       *)
(* renews the revision before the events are read, or two starts of one        *)
(* revision were unrecorded and one event is used per job.                     *)
Unrecognised == {<<j, o>> \in started :
  \/ disk[j].park \notin {0, upd}
  \/ ~\E e \in journal : e.job = j /\ e.rev = disk[j].rev /\ e.occ = o /\ e.manual = (o = 0)
  \/ Cardinality({e \in journal : e.job = j /\ e.rev = disk[j].rev}) > 1}

Crash ==
  /\ troubles < MaxTroubles /\ troubles' = troubles + 1
  /\ mem' = Reconciled(Resumed(Load, upd)) /\ disk' = mem'
  /\ run' = [p \in Dispatchers |-> Idle] /\ due' = {} /\ busy' = FALSE /\ life' = "free"
  /\ started' = {<<j, o>> \in started : (IF o = 0 THEN disk[j].manual ELSE o = disk[j].occ) => <<j, o>> \notin Unrecognised}
  /\ Trim
  /\ UNCHANGED <<chat, upd, edits, wanted, again>>

Next ==
  \/ \E j \in Jobs : Create(j) \/ Delete(j) \/ RequestManual(j) \/ Tick(j)
  \/ \E j \in Jobs, how \in {"on", "off", "text", "time"} : Update(j, how)
  \/ Archive \/ ArchivePause \/ Unarchive \/ DeleteChat
  \/ OtherTurn \/ TurnEnds \/ UpdateReserve \/ UpdateFails \/ UpdateCancel \/ PollUpdate
  \/ CollectDue \/ Blocked \/ Recheck \/ \E d \in due : TakeDue(d)
  \/ \E p \in Dispatchers : Claim(p) \/ Snapshot(p) \/ EnterTurn(p) \/ Admit(p) \/ Refused(p)
                              \/ Unavailable(p) \/ Fails(p) \/ NeedsRepair(p) \/ Mark(p)
  \/ Crash

Spec == Init /\ [][Next]_vars

(* The loop, the tasks and the turns go on; updates end; time passes.          *)
FairSpec ==
  /\ Spec
  /\ \A j \in Jobs : WF_vars(Tick(j))
  /\ WF_vars(ArchivePause) /\ WF_vars(TurnEnds) /\ WF_vars(UpdateFails)
  /\ WF_vars(CollectDue) /\ WF_vars(\E d \in due : TakeDue(d)) /\ WF_vars(Blocked \/ Recheck)
  /\ \A p \in Dispatchers : WF_vars(Claim(p) \/ Snapshot(p) \/ EnterTurn(p) \/ Admit(p) \/ Refused(p) \/ Mark(p))

-----------------------------------------------------------------------------
(* An occurrence, or a manual request, starts one turn: not a second one after *)
(* an edit that keeps the occurrence, a deferral, a failed save of the record  *)
(* or a crash before it, when the file names the admitted revision             *)
(* (mark_ran, reconcile_admitted_runs_after_restart).                          *)
StartsOnce == ~again

(* Archiving is a durable pause: no failed save, crash or unarchiving turns a  *)
(* job on again that its user has not (pause_for_session, load, update_session).*)
PauseSurvives == chat = "open" => \A j \in Jobs : mem[j].on => j \in wanted

(* No bookkeeping of another dispatch moves the schedule past an occurrence    *)
(* that lies ahead and was not started: only its user, or a restart, does      *)
(* (mark_ran of a manual run or after an edit, the failure path of the loop).  *)
NotSkipped ==
  [][\A j \in Jobs :
       mem[j].on /\ mem[j].when = "future" /\ mem'[j].on /\ mem'[j].occ # mem[j].occ /\ <<j, mem[j].occ>> \notin started
         => edits' # edits \/ troubles' # troubles]_vars

(* An automatic run is only ever started for an enabled job whose occurrence   *)
(* is due: "never dispatch from the stale due-list snapshot" (comment at       *)
(* agent_server.py:13183, the scheduler loop).                                 *)
StaleNeverRuns ==
  [][\A p \in Dispatchers :
       run[p].pc = "inside" /\ run'[p].pc = "mark" /\ ~run[p].manual
         => mem[run[p].job].on /\ mem[run[p].job].when = "due"]_vars

(* A due occurrence does not stay due: it is started, given up or replaced     *)
(* (the loop, resume_update_parked, the cap on unavailable runtimes).          *)
DueSettles ==
  \A j \in Jobs : \A o \in 1 .. MaxOcc :
    (mem[j].on /\ mem[j].occ = o /\ mem[j].when = "due") ~> ~(mem[j].on /\ mem[j].occ = o)

(* A requested manual run is started or cleared (_dispatch_pending_manual_run).*)
ManualSettles == \A j \in Jobs : mem[j].manual ~> ~mem[j].manual

(* An occurrence starts one turn, none passes unseen, and a pause outlives    *)
(* archives, repairs and restarts (mark_ran,                                  *)
(* reconcile_admitted_runs_after_restart, pause_for_session).                 *)
JobsExact ==
  /\ [](TypeOK /\ StartsOnce /\ PauseSurvives)
  /\ NotSkipped

(* Neither a due occurrence nor a manual request waits for ever               *)
(* (_scheduler_loop_until_failure, _dispatch_pending_manual_run).             *)
JobsSettle ==
  /\ DueSettles
  /\ ManualSettles

=============================================================================
