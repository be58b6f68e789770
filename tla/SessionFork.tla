----------------------------- MODULE SessionFork -----------------------------
(***************************************************************************)
(* The session registry of the server and the operations that add a chat   *)
(* to it and take one away: a fork of a running or an idle chat, the import *)
(* of a local transcript, a chat resumed by its thread, a change of its     *)
(* policy, its deletion.  The registry is one file that one coalescing      *)
(* writer replaces; a fork also owns a thread at the provider, which the    *)
(* cleanup ledger or a hidden staged chat must remember until the fork is   *)
(* published or the thread is deleted.  Every write, every provider call    *)
(* and every request can fail, and the process can die between any two      *)
(* steps.  The chat that is forked is left out: a fork reads it only.       *)
(***************************************************************************)
EXTENDS Integers, FiniteSets

CONSTANTS
  Sids,        \* the identities that new chats get
  Kinds,       \* what is done for each: "fork", "import" or "resume"
  Own,         \* threads that the user began in the provider's own client
  Made,        \* threads that a fork can create
  None,        \* no thread, no chat
  MaxCrashes   \* processes that die

VARIABLES
  mem,         \* STORE.sessions
  disk,        \* sessions.json
  writer,      \* the pending save and its waiters
  lock,        \* the request that holds STORE._lock
  ledger,      \* ABANDONED_FORK_PROVIDER_THREADS
  ledgerDisk,  \* abandoned-fork-threads.json
  provider,    \* the threads that exist at the provider
  made,        \* the threads that forks have created
  index,       \* CODEX_THREAD_SESSION_INDEX: the chat a thread's callbacks go to
  roots,       \* the local files of a chat: none, its directory, its whole timeline
  tomb,        \* DELETED_SESSION_TOMBSTONES
  job,         \* the request that works on a chat
  cleaner,     \* the startup worker over the ledger
  up,          \* the process runs
  safe,        \* threads that the disk has remembered and that the server still answers for
  acked,       \* the policy that the last answered request left
  crashes

vars == <<mem, disk, writer, lock, ledger, ledgerDisk, provider, made, index, roots, tomb, job,
          cleaner, up, safe, acked, crashes>>
store == <<mem, disk, writer, lock>>
threads == <<ledger, ledgerDisk, provider, made, index, safe>>
local == <<roots, tomb, acked>>
process == <<cleaner, up, crashes>>

Threads == Own \cup Made
Absent == [st |-> "none", thread |-> None, bound |-> FALSE, jobs |-> "read"]
Policies == {"read", "full"}
NoJob == [k |-> "none", pc |-> "new", t |-> None, ct |-> None, cc |-> FALSE, res |-> "no", was |-> Absent]
NoWrite == [pending |-> FALSE, durable |-> FALSE, waiters |-> {}]
NoCleaning == [pending |-> {}, at |-> None, resolved |-> {}]

Init ==
  /\ mem = [s \in Sids |-> Absent] /\ disk = mem
  /\ writer = NoWrite /\ lock = None
  /\ ledger = {} /\ ledgerDisk = {}
  /\ provider = Own /\ made = {}
  /\ index = [t \in Threads |-> None]
  /\ roots = [s \in Sids |-> "none"] /\ tomb = {}
  /\ job = [s \in Sids |-> NoJob]
  /\ cleaner = NoCleaning /\ up = TRUE
  /\ safe = {} /\ acked = [s \in Sids |-> "read"] /\ crashes = 0

At(c, pc) == up /\ job[c].pc = pc
Goto(c, pc) == job' = [job EXCEPT ![c].pc = pc, ![c].res = "no"]
End(c, pc) == job' = [job EXCEPT ![c] = [NoJob EXCEPT !.k = job[c].k, !.pc = pc]]
Changed(c, r) == [mem EXCEPT ![c] = r]
Owned(t) == \E s \in Sids : mem[s].st = "open" /\ mem[s].thread = t

-----------------------------------------------------------------------------
(* The writer.                                                              *)

(* save(): mutate under the lock, mark the store dirty, wait for the write  *)
(* that covers the mark.  Marks between two writes share one.               *)
Marked(c, durable) ==
  [writer EXCEPT !.pending = TRUE, !.durable = @ \/ durable, !.waiters = @ \cup c]
Save(c, m, durable, pc) ==
  /\ lock = None
  /\ lock' = c /\ mem' = m /\ writer' = Marked({c}, durable)
  /\ job' = [job EXCEPT ![c].pc = pc, ![c].res = "wait"]
  /\ UNCHANGED disk

(* A change that nobody waits for: metadata of an event, flush=False.       *)
MarkDirty ==
  /\ up /\ ~writer.pending
  /\ writer' = Marked({}, FALSE)
  /\ UNCHANGED <<mem, disk, lock, threads, local, job, process>>

(* _save_worker takes the pending save, encodes the registry as it is and   *)
(* replaces the file, or raises; a durable write can raise after the        *)
(* replacement, when the directory cannot be synced.  Nobody reads the file *)
(* while the process runs, so the snapshot and the replacement are one step;*)
(* a waiter learns of it later, and other saves can come in between.        *)
Write(ok) ==
  /\ up /\ writer.pending
  /\ disk' \in IF ok THEN {mem} ELSE IF writer.durable THEN {disk, mem} ELSE {disk}
  /\ job' = [s \in Sids |-> IF s \in writer.waiters
                            THEN [job[s] EXCEPT !.res = IF ok THEN "ok" ELSE "err"] ELSE job[s]]
  /\ writer' = NoWrite
  /\ UNCHANGED <<mem, lock, threads, local, process>>

(* The answer to a save: the write is done.  It raises when the write       *)
(* failed, and when the request was cancelled while it waited, although     *)
(* the write has then been committed.                                       *)
Saved(c, pc) == At(c, pc) /\ job[c].res = "ok" /\ lock = c
Raised(c, pc) == At(c, pc) /\ job[c].res \in {"ok", "err"} /\ lock = c
Failed(c, pc) == At(c, pc) /\ job[c].res = "err" /\ lock = c

-----------------------------------------------------------------------------
(* The provider's threads and the cleanup ledger.                           *)

Persist(t, ok) ==
  /\ ledger' = ledger \cup {t}
  /\ ledgerDisk' = IF ok THEN ledger \cup {t} ELSE ledgerDisk
  /\ safe' = IF ok THEN safe \cup {t} ELSE safe
Forget(t, ok) ==
  /\ ledger' = IF ok THEN ledger \ {t} ELSE ledger
  /\ ledgerDisk' = IF ok /\ t \in ledger THEN ledger \ {t} ELSE ledgerDisk
(* retire_failed_codex_fork: stop the callbacks, then ask for the deletion. *)
Retire(t, deleted) ==
  /\ index' = [index EXCEPT ![t] = None]
  /\ provider' = IF deleted THEN provider \ {t} ELSE provider
(* retire_or_record_failed_codex_fork: whether the cleanup is now durable.  *)
RetireOrRecord(t, durable) ==
  \/ durable /\ Retire(t, TRUE) /\ (\E ok \in BOOLEAN : Forget(t, ok)) /\ UNCHANGED <<made, safe>>
  \/ Retire(t, FALSE) /\ Persist(t, durable) /\ UNCHANGED made

-----------------------------------------------------------------------------
(* A fork, up to the chat that is staged for it.                            *)

(* A thread/fork that fails: an idle chat is forked by its memory instead,  *)
(* a running one, and a cancelled request, is given up.                     *)
Fallback(c, ct) ==
  \E pc \in {"create", "abort"} :
    job' = [job EXCEPT ![c].pc = IF ct # None THEN "abort" ELSE pc, ![c].t = None, ![c].ct = ct]

ForkAsked(c) ==
  /\ At(c, "new") /\ "fork" \in Kinds[c]
  /\ job' = [job EXCEPT ![c].k = "fork", ![c].pc = "fork"]
  /\ UNCHANGED <<store, threads, local, process>>

(* No thread to fork (another provider, an empty snapshot), or a refusal.   *)
ForkMemory(c) ==
  /\ At(c, "fork") /\ Fallback(c, None)
  /\ UNCHANGED <<store, threads, local, process>>

ForkThread(c, t) ==
  /\ At(c, "fork") /\ t \in Made \ made
  /\ made' = made \cup {t} /\ provider' = provider \cup {t}
  /\ job' = [job EXCEPT ![c].pc = "journal", ![c].t = t]
  /\ UNCHANGED <<store, ledger, ledgerDisk, index, safe, local, process>>

(* The request times out or is cancelled, and the thread is made all the    *)
(* same: the announced child is deleted, or handed on for its journal; one  *)
(* that is never announced stays unknown.                                   *)
ForkLate(c, t) ==
  /\ At(c, "fork") /\ t \in Made \ made /\ made' = made \cup {t}
  /\ \/ UNCHANGED provider /\ Fallback(c, None)
     \/ provider' = provider \cup {t} /\ Fallback(c, None)
     \/ provider' = provider \cup {t} /\ job' = [job EXCEPT ![c].pc = "late", ![c].t = t]
  /\ UNCHANGED <<store, ledger, ledgerDisk, index, safe, local, process>>

(* The thread is written into the ledger before anything else is awaited.   *)
Journal(c) ==
  LET t == job[c].t
  IN /\ At(c, "journal") \/ At(c, "late")
     /\ \/ Persist(t, TRUE) /\ UNCHANGED <<provider, index>>
           /\ IF job[c].pc = "late" THEN Fallback(c, None) ELSE Goto(c, "verify")
        \/ \E durable \in BOOLEAN :        \* the journal failed
             RetireOrRecord(t, durable) /\ Fallback(c, IF durable THEN None ELSE t)
        \/ \E deleted \in BOOLEAN :        \* its provider binding could not be recorded
             /\ Retire(t, deleted) /\ Fallback(c, IF deleted THEN None ELSE t)
             /\ UNCHANGED <<ledger, ledgerDisk, safe>>
     /\ UNCHANGED <<made, store, local, process>>

(* Ancestry, working directory and cutoff of the new thread.                *)
Verify(c) ==
  LET t == job[c].t
  IN /\ At(c, "verify")
     /\ \/ job' = [job EXCEPT ![c].pc = "create", ![c].ct = t] /\ UNCHANGED threads
        \/ (\E durable \in BOOLEAN : RetireOrRecord(t, durable)) /\ Fallback(c, None)
     /\ UNCHANGED <<store, local, process>>

(* SessionStore.create: the chat enters memory and the file before its      *)
(* first event; when either fails a task of its own takes it out again.     *)
Fresh(c) ==
  [Absent EXCEPT !.st = IF job[c].k = "resume" THEN "open" ELSE job[c].k,
                 !.thread = IF job[c].k = "fork" THEN None ELSE job[c].t]
Create(c) ==
  /\ At(c, "create")
  /\ job[c].k = "fork" \/ job[c].t \notin ledger      \* ensure_codex_thread_not_pending_fork_cleanup
  /\ Save(c, Changed(c, Fresh(c)), FALSE, "created")
  /\ roots' = [roots EXCEPT ![c] = "dir"]
  /\ UNCHANGED <<threads, tomb, acked, process>>

CreateRefused(c) ==
  /\ At(c, "create") /\ job[c].k # "fork" /\ job[c].t \in ledger
  /\ End(c, "dead")
  /\ UNCHANGED <<store, threads, local, process>>

Created(c) ==
  /\ Saved(c, "created") /\ lock' = None
  /\ IF job[c].k = "resume" THEN End(c, "done")
     ELSE job' = [job EXCEPT ![c].pc = IF job[c].k = "import" THEN "copy"
                                       ELSE IF job[c].t = None THEN "keep" ELSE "stage",
                             ![c].res = "no", ![c].cc = TRUE]
  /\ UNCHANGED <<mem, disk, writer, threads, local, process>>

CreateFailed(c) ==
  /\ Raised(c, "created") /\ lock' = None
  /\ Goto(c, "uncreate")
  /\ UNCHANGED <<mem, disk, writer, threads, local, process>>

Uncreate(c) ==
  /\ At(c, "uncreate")
  /\ Save(c, Changed(c, Absent), FALSE, "uncreated")
  /\ UNCHANGED <<threads, local, process>>

(* A failed rollback is logged; the files go all the same.                  *)
Uncreated(c) ==
  /\ Raised(c, "uncreated") /\ lock' = None
  /\ roots' = [roots EXCEPT ![c] = "none"]
  /\ IF job[c].k = "fork" THEN Goto(c, "abort") ELSE End(c, "dead")
  /\ UNCHANGED <<mem, disk, writer, threads, tomb, acked, process>>

-----------------------------------------------------------------------------
(* The fork's thread moves from the ledger to the staged chat, and is bound.*)

Stage(c) ==
  /\ At(c, "stage")
  /\ Save(c, Changed(c, [mem[c] EXCEPT !.thread = job[c].t]), FALSE, "staged")
  /\ UNCHANGED <<threads, local, process>>

Staged(c) ==
  /\ Saved(c, "staged") /\ lock' = None /\ Goto(c, "transfer")
  /\ UNCHANGED <<mem, disk, writer, threads, local, process>>

StageFailed(c) ==
  /\ Raised(c, "staged") /\ lock' = None /\ Goto(c, "abort")
  /\ mem' = Changed(c, [mem[c] EXCEPT !.thread = None])
  /\ UNCHANGED <<disk, writer, threads, local, process>>

Transfer(c, ok) ==
  /\ At(c, "transfer")
  /\ Forget(job[c].t, ok)
  /\ Goto(c, IF ok THEN "bind" ELSE "abort")
  /\ UNCHANGED <<provider, made, index, safe, store, local, process>>

(* bind_forked_codex_thread: resume, inject the policy, then                *)
(* save_provider_session, which first checks the ledger's fence.            *)
Bind(c) ==
  /\ At(c, "bind") /\ job[c].t \notin ledger
  /\ Save(c, Changed(c, [mem[c] EXCEPT !.bound = TRUE]), FALSE, "bound")
  /\ UNCHANGED <<threads, local, process>>

BindFailed(c) ==
  /\ At(c, "bind") /\ Goto(c, "unbind")
  /\ UNCHANGED <<store, threads, local, process>>

(* The callbacks of the thread are routed to the chat; the inherited goal   *)
(* is reconciled, which can fail.                                           *)
Bound(c) ==
  /\ Saved(c, "bound") /\ lock' = None
  /\ index' = [index EXCEPT ![job[c].t] = c]
  /\ \E pc \in {"keep", "unbind"} : Goto(c, pc)
  /\ UNCHANGED <<mem, disk, writer, ledger, ledgerDisk, provider, made, safe, local, process>>

(* A failed save is undone; a cancelled one leaves the binding for the      *)
(* cleanup of the request.                                                  *)
BoundFailed(c) ==
  /\ Raised(c, "bound") /\ lock' = None
  /\ Goto(c, IF job[c].res = "ok" THEN "abort" ELSE "unbind")
  /\ UNCHANGED <<mem, disk, writer, threads, local, process>>

(* The staged chat keeps the thread until its retirement is durable.        *)
Unbind(c) ==
  /\ At(c, "unbind")
  /\ Save(c, Changed(c, [mem[c] EXCEPT !.bound = FALSE]), FALSE, "unbound")
  /\ UNCHANGED <<threads, local, process>>

Unbound(c) ==
  /\ Raised(c, "unbound") /\ lock' = None
  /\ \E pc \in {"retire"} \cup (IF job[c].res = "ok" THEN {"abort"} ELSE {}) : Goto(c, pc)
  /\ UNCHANGED <<mem, disk, writer, threads, local, process>>

RetireFork(c) ==
  /\ At(c, "retire")
  /\ \E durable \in BOOLEAN :
       RetireOrRecord(job[c].t, durable) /\ Goto(c, IF durable THEN "clear" ELSE "abort")
  /\ UNCHANGED <<store, local, process>>

Clear(c) ==
  /\ At(c, "clear")
  /\ Save(c, Changed(c, [mem[c] EXCEPT !.thread = None]), FALSE, "cleared")
  /\ UNCHANGED <<threads, local, process>>

Cleared(c) ==
  /\ Saved(c, "cleared") /\ lock' = None
  /\ \E pc \in {"keep", "abort"} :
       job' = [job EXCEPT ![c].pc = pc, ![c].res = "no", ![c].t = None, ![c].ct = None]
  /\ UNCHANGED <<mem, disk, writer, threads, local, process>>

ClearFailed(c) ==
  /\ Raised(c, "cleared") /\ lock' = None /\ Goto(c, "abort")
  /\ mem' = Changed(c, [mem[c] EXCEPT !.thread = job[c].t])
  /\ UNCHANGED <<disk, writer, threads, local, process>>

(* Goal, order among its peers, memory seed and resume point of the child.  *)
Keep(c) ==
  /\ At(c, "keep") /\ Save(c, mem, FALSE, "kept")
  /\ UNCHANGED <<threads, local, process>>

Kept(c) ==
  /\ Raised(c, "kept") /\ lock' = None
  /\ \E pc \in {"abort"} \cup (IF job[c].res = "ok" THEN {"copy"} ELSE {}) : Goto(c, pc)
  /\ UNCHANGED <<mem, disk, writer, threads, local, process>>

(* The timeline is written as one batch that is taken back when it fails.   *)
Appended(c, ok) == IF ok THEN [roots EXCEPT ![c] = "whole"] ELSE roots
CopyHistory(c, ok) ==
  /\ At(c, "copy") /\ job[c].k = "fork"
  /\ roots' = Appended(c, ok)
  /\ Goto(c, IF ok THEN "publish" ELSE "abort")
  /\ UNCHANGED <<store, threads, tomb, acked, process>>

ImportHistory(c, ok) ==
  /\ At(c, "copy") /\ job[c].k = "import"
  /\ roots' = Appended(c, ok)
  /\ Goto(c, IF ok THEN "publish" ELSE "drop")
  /\ UNCHANGED <<store, threads, tomb, acked, process>>

(* The markers go, in one save, and the chat is visible.                    *)
Publish(c) ==
  /\ At(c, "publish")
  /\ Save(c, Changed(c, [mem[c] EXCEPT !.st = "open"]), FALSE, "published")
  /\ UNCHANGED <<threads, local, process>>

Published(c) ==
  /\ Saved(c, "published") /\ lock' = None
  /\ End(c, "done")
  /\ acked' = [acked EXCEPT ![c] = mem[c].jobs]
  /\ UNCHANGED <<mem, disk, writer, threads, roots, tomb, process>>

(* The fork puts its marker back; a failed import is deleted as it is.      *)
PublishFailed(c) ==
  /\ Raised(c, "published") /\ lock' = None
  /\ mem' = IF job[c].k = "fork" THEN Changed(c, [mem[c] EXCEPT !.st = "fork"]) ELSE mem
  /\ Goto(c, IF job[c].k = "fork" THEN "abort" ELSE "drop")
  /\ UNCHANGED <<disk, writer, threads, local, process>>

-----------------------------------------------------------------------------
(* Giving up, deleting, and the other requests.                             *)

(* cleanup_aborted_session_fork: fence the child before the first await.    *)
Abort(c) ==
  /\ At(c, "abort")
  /\ tomb' = IF job[c].cc THEN tomb \cup {c} ELSE tomb
  /\ index' = IF job[c].cc THEN [t \in Threads |-> IF index[t] = c THEN None ELSE index[t]] ELSE index
  /\ job' = [job EXCEPT ![c].pc = "aborted", ![c].t = None]
  /\ UNCHANGED <<store, ledger, ledgerDisk, provider, made, safe, roots, acked, process>>

(* The thread is deleted or recorded; only then the child may go.           *)
AbortRetire(c) ==
  /\ At(c, "aborted")
  /\ \E durable \in BOOLEAN :
       /\ IF job[c].ct = None THEN durable /\ UNCHANGED threads ELSE RetireOrRecord(job[c].ct, durable)
       /\ IF job[c].cc /\ durable THEN End(c, "drop") ELSE End(c, "dead")
  /\ UNCHANGED <<store, local, process>>

(* SessionStore.delete: durable, restored when the write fails, and the     *)
(* files after it.                                                          *)
Drop(c) ==
  /\ At(c, "drop")
  /\ lock = None /\ lock' = c /\ mem' = Changed(c, Absent) /\ writer' = Marked({c}, TRUE)
  /\ job' = [job EXCEPT ![c].pc = "dropping", ![c].res = "wait", ![c].was = mem[c]]
  /\ UNCHANGED <<disk, threads, local, process>>

Dropped(c) ==
  /\ Saved(c, "dropping") /\ lock' = None
  /\ roots' = [roots EXCEPT ![c] = "none"]
  /\ tomb' = IF job[c].k = "delete" THEN tomb \cup {c} ELSE tomb
  /\ End(c, IF job[c].k = "delete" THEN "deleted" ELSE "dead")
  /\ UNCHANGED <<mem, disk, writer, threads, acked, process>>

DropFailed(c) ==
  /\ Failed(c, "dropping")
  /\ mem' = Changed(c, job[c].was) /\ writer' = Marked({c}, TRUE)
  /\ job' = [job EXCEPT ![c].pc = "restoring", ![c].res = "wait", ![c].was = Absent]
  /\ UNCHANGED <<lock, disk, threads, local, process>>

Restored(c) ==
  /\ Raised(c, "restoring") \/ Raised(c, "reverting")
  /\ lock' = None
  /\ End(c, IF job[c].pc = "restoring" /\ job[c].k # "delete" THEN "dead"
            ELSE IF job[c].res = "ok" THEN "done" ELSE "unsure")
  /\ UNCHANGED <<mem, disk, writer, threads, local, process>>

DeleteAsked(c) ==
  /\ At(c, "done") /\ mem[c].st = "open"
  /\ job' = [job EXCEPT ![c].k = "delete", ![c].pc = "drop"]
  /\ index' = [t \in Threads |-> IF index[t] = c THEN None ELSE index[t]]
  /\ safe' = safe \ {mem[c].thread}
  /\ UNCHANGED <<store, ledger, ledgerDisk, provider, made, local, process>>

(* SessionStore.update of provider_jobs_access, the agents' authority.      *)
Patch(c, p) ==
  /\ At(c, "done") /\ mem[c].st = "open" /\ p # mem[c].jobs
  /\ lock = None /\ lock' = c /\ writer' = Marked({c}, FALSE)
  /\ mem' = Changed(c, [mem[c] EXCEPT !.jobs = p])
  /\ job' = [job EXCEPT ![c].pc = "patching", ![c].res = "wait", ![c].was = mem[c]]
  /\ UNCHANGED <<disk, threads, local, process>>

Patched(c) ==
  /\ Saved(c, "patching") /\ lock' = None
  /\ End(c, "done")
  /\ acked' = [acked EXCEPT ![c] = mem[c].jobs]
  /\ UNCHANGED <<mem, disk, writer, threads, roots, tomb, process>>

PatchFailed(c) ==
  /\ Raised(c, "patching")
  /\ mem' = Changed(c, job[c].was) /\ writer' = Marked({c}, TRUE)
  /\ job' = [job EXCEPT ![c].pc = "reverting", ![c].res = "wait", ![c].was = Absent]
  /\ UNCHANGED <<lock, disk, threads, local, process>>

(* A local transcript that no chat has yet, or a thread that the user names.*)
Asked(c, k, t) ==
  /\ At(c, "new") /\ k \in Kinds[c] \ {"fork"} /\ t \in provider
  /\ k = "import" => \A s \in Sids : mem[s].thread # t
  /\ job' = [job EXCEPT ![c].k = k, ![c].pc = "create", ![c].t = t]
  /\ UNCHANGED <<store, threads, local, process>>

-----------------------------------------------------------------------------
(* The startup worker, the death of the process and the next start.         *)

(* A thread that a published chat has by now is left to it.                 *)
CleanCheck(t) ==
  /\ up /\ cleaner.at = None /\ t \in cleaner.pending
  /\ cleaner' = IF Owned(t)
                THEN [cleaner EXCEPT !.pending = @ \ {t}, !.resolved = @ \cup {t}]
                ELSE [cleaner EXCEPT !.pending = @ \ {t}, !.at = t]
  /\ safe' = IF Owned(t) THEN safe \ {t} ELSE safe
  /\ UNCHANGED <<store, ledger, ledgerDisk, provider, made, index, local, job, up, crashes>>

CleanRetire(deleted) ==
  /\ up /\ cleaner.at # None
  /\ Retire(cleaner.at, deleted)
  /\ cleaner' = [cleaner EXCEPT !.at = None,
                                !.resolved = IF deleted THEN @ \cup {cleaner.at} ELSE @]
  /\ UNCHANGED <<store, ledger, ledgerDisk, made, safe, local, job, up, crashes>>

CleanWrite(ok) ==
  /\ up /\ cleaner.at = None /\ cleaner.pending = {} /\ cleaner.resolved # {}
  /\ ledger' = IF ok THEN ledger \ cleaner.resolved ELSE ledger
  /\ ledgerDisk' = IF ok THEN ledger \ cleaner.resolved ELSE ledgerDisk
  /\ cleaner' = [cleaner EXCEPT !.resolved = {}]
  /\ UNCHANGED <<store, provider, made, index, safe, local, job, up, crashes>>

Crash ==
  /\ up /\ crashes < MaxCrashes /\ crashes' = crashes + 1
  /\ up' = FALSE
  /\ mem' = [s \in Sids |-> Absent] /\ writer' = NoWrite /\ lock' = None
  /\ ledger' = {} /\ index' = [t \in Threads |-> None] /\ tomb' = {}
  /\ cleaner' = NoCleaning
  /\ job' = [s \in Sids |-> IF job[s].pc \in {"new", "done", "deleted"} THEN job[s]
                            ELSE [NoJob EXCEPT !.k = job[s].k, !.pc = "dead"]]
  /\ UNCHANGED <<disk, ledgerDisk, provider, made, roots, safe, acked>>

(* SessionStore.load: staged imports go; the thread of a staged fork is     *)
(* recorded in the ledger before the fork goes; the rest is indexed.        *)
Recorded(ok) ==
  LET staged == {disk[s].thread : s \in {x \in Sids : disk[x].st = "fork"}} \ {None}
  IN IF ok THEN ledgerDisk \cup staged ELSE ledgerDisk
(* Fault: a staged fork goes although its thread was not recorded.          *)
GoesAnyway(s, durable) == disk[s].st \in {"import", "fork"}
Goes(s, durable) ==
  \/ disk[s].st = "import"
  \/ disk[s].st = "fork" /\ disk[s].thread \in durable \cup {None}
Load(ok, saved) ==
  LET durable == Recorded(ok)
      kept == [s \in Sids |-> IF Goes(s, durable) THEN Absent ELSE disk[s]]
  IN /\ ~up
     /\ ok \/ Recorded(TRUE) # ledgerDisk
     /\ saved \/ kept # disk
     /\ ledgerDisk' = durable /\ safe' = safe \cup durable
     /\ roots' = [s \in Sids |-> IF Goes(s, durable) THEN "none" ELSE roots[s]]
     /\ up' = saved                                \* a start whose save fails is no start
     /\ disk' = IF saved THEN kept ELSE disk
     /\ mem' = IF saved THEN kept ELSE mem
     /\ ledger' = IF saved THEN durable ELSE ledger
     /\ cleaner' = IF saved THEN [cleaner EXCEPT !.pending = durable] ELSE cleaner
     /\ index' = IF ~saved THEN index
                 ELSE [t \in Threads |-> IF \E s \in Sids : kept[s].thread = t
                                         THEN CHOOSE s \in Sids : kept[s].thread = t ELSE None]
     /\ acked' = [s \in Sids |-> kept[s].jobs]
     /\ UNCHANGED <<writer, lock, provider, made, tomb, job, crashes>>

Request(c) ==
  \/ ForkAsked(c) \/ ForkMemory(c) \/ Journal(c) \/ Verify(c)
  \/ \E t \in Made : ForkThread(c, t) \/ ForkLate(c, t)
  \/ Create(c) \/ CreateRefused(c) \/ Created(c) \/ CreateFailed(c) \/ Uncreate(c) \/ Uncreated(c)
  \/ Stage(c) \/ Staged(c) \/ StageFailed(c) \/ (\E ok \in BOOLEAN : Transfer(c, ok))
  \/ Bind(c) \/ BindFailed(c) \/ Bound(c) \/ BoundFailed(c) \/ Unbind(c) \/ Unbound(c)
  \/ RetireFork(c) \/ Clear(c) \/ Cleared(c) \/ ClearFailed(c) \/ Keep(c) \/ Kept(c)
  \/ (\E ok \in BOOLEAN : CopyHistory(c, ok) \/ ImportHistory(c, ok)) \/ Publish(c) \/ Published(c) \/ PublishFailed(c)
  \/ Abort(c) \/ AbortRetire(c) \/ Drop(c) \/ Dropped(c) \/ DropFailed(c) \/ Restored(c)
  \/ DeleteAsked(c) \/ (\E p \in Policies : Patch(c, p)) \/ Patched(c) \/ PatchFailed(c)
  \/ \E k \in {"import", "resume"}, t \in Threads : Asked(c, k, t)

Next ==
  \/ \E c \in Sids : Request(c)
  \/ MarkDirty \/ \E ok \in BOOLEAN : Write(ok)
  \/ \E t \in Threads : CleanCheck(t)
  \/ \E ok \in BOOLEAN : CleanRetire(ok) \/ CleanWrite(ok)
  \/ Crash \/ \E ok, saved \in BOOLEAN : Load(ok, saved)

Spec == Init /\ [][Next]_vars

-----------------------------------------------------------------------------
(* What must hold.                                                          *)

(* A thread that a fork has recorded on disk, and that still exists, is     *)
(* remembered by the disk at every instant, in the ledger or in a chat.     *)
ForkRemembered == \A t \in safe \cap provider : t \in ledgerDisk \/ \E s \in Sids : disk[s].thread = t

(* A conversation that the user began elsewhere is never deleted.           *)
UserThreadsStand == Own \subseteq provider

(* The startup worker never deletes the thread of a published chat whose    *)
(* own deletion nobody has asked for.                                       *)
CleanerSpares ==
  \A s \in Sids : cleaner.at # None /\ mem[s].st = "open" /\ job[s].k # "delete" =>
    mem[s].thread # cleaner.at

(* A chat that the registry shows, in memory or after any restart, has its  *)
(* whole timeline, and its thread carries its own policy.                   *)
ShownWhole ==
  \A s \in Sids : \A r \in {mem[s], disk[s]} :
    r.st = "open" /\ job[s].k \in {"fork", "import"} =>
      roots[s] = "whole" /\ (job[s].k = "fork" /\ r.thread # None => r.bound)

(* A chat that was answered for stays, with its thread, over every restart, *)
(* until its deletion; a deleted one is gone for good.                      *)
AnswersStand ==
  \A s \in Sids :
    /\ job[s].pc = "done" => disk[s].st = "open" /\ (up => mem[s].st = "open")
    /\ job[s].pc = "deleted" => disk[s].st = "none" /\ mem[s].st = "none" /\ roots[s] = "none"

(* A policy change that was answered with an error has changed nothing.     *)
PolicyHonest == \A s \in Sids : up /\ job[s].pc \in {"done", "unsure"} => mem[s].jobs = acked[s]

(* The callbacks of a thread go to a chat that has it, never to a deleted one. *)
RoutesTrue ==
  \A t \in Threads : index[t] # None => mem[index[t]].thread = t /\ index[t] \notin tomb

SessionsSound ==
  /\ ForkRemembered /\ UserThreadsStand /\ CleanerSpares /\ ShownWhole
  /\ AnswersStand /\ PolicyHonest /\ RoutesTrue
=============================================================================
