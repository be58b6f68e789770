-------------------------- MODULE CrossChatExchange --------------------------
(***************************************************************************)
(* One cross-chat exchange of src/agent_server.py: the durable ledger, the *)
(* queue rows and provider runs that deliver its legs, the live HTTP wait  *)
(* of the asking provider call, and the periodic reconciliation that must  *)
(* repair all of it after a crash or a lost owner.                         *)
(*                                                                         *)
(* The legs alternate between the two chats, so the live delivery of leg l *)
(* goes to the run that wrote leg l - 1: the run leg l - 2 was delivered   *)
(* to, or the source run for leg 2.                                        *)
(***************************************************************************)
EXTENDS ExchangeLedger

CONSTANTS
    LiveCalls,    \* the values of wait_for_response a request may have
    Crashing,     \* the process may crash and restart, any number of times
    Notifying     \* the requester's chat can still be sent a failure notice

ASSUME ExchangeAssumption ==
    LiveCalls \subseteq BOOLEAN /\ Crashing \in BOOLEAN /\ Notifying \in BOOLEAN

VARIABLES
    up,        \* the process runs and the queues have been recovered
    db,        \* the ledger
    journal,   \* legs with a pending turn_queued in the target's events.jsonl
    outcome,   \* the durable turn_finished / turn_stopped of a leg's target run
    owner,     \* who holds the leg in memory: a queue row, a promotion, a run
    submitter, \* legs whose admission fence a submission holds
    recon,     \* what reconcile_cross_chat_exchange_leg has read of one leg
    source,    \* the run that asked is alive
    waiter,    \* the leg whose answer a live HTTP call awaits
    direct,    \* legs delivered to a waiting call rather than as a turn
    handing    \* the committed leg the lease lock holder is about to deliver

vars == <<up, db, journal, outcome, owner, submitter, recon, source, waiter,
          direct, handing>>

NoLeg == -1
Idle  == [leg |-> NoLeg, status |-> "absent", todo |-> "none"]
Owners == {"none", "private", "listed", "bound", "admitted", "running",
           "ended", "answering"}

TypeOK ==
    /\ up \in BOOLEAN /\ source \in BOOLEAN
    /\ db \in Ledgers
    /\ journal \subseteq LegIds /\ submitter \subseteq LegIds /\ direct \subseteq Legs
    /\ outcome \in [LegIds -> {"none", "ok", "failed"}]
    /\ owner \in [LegIds -> Owners]
    /\ recon \in [leg : LegIds \cup {NoLeg}, status : Pending \cup {"absent"},
                  todo : {"none", "lost", "close", "queued", "running", "settle", "resubmit"}]
    /\ waiter \in Legs \cup {NoLeg} /\ handing \in Legs \cup {NoLeg}

Init ==
    /\ up = TRUE /\ db = NewExchange /\ source = TRUE
    /\ journal = {} /\ submitter = {} /\ direct = {}
    /\ outcome = [l \in LegIds |-> "none"] /\ owner = [l \in LegIds |-> "none"]
    /\ recon = Idle /\ waiter = NoLeg /\ handing = NoLeg

(* The run that received leg l, or that asked (leg 0 of the alternation),  *)
(* still runs: it may answer l, and it holds the wait on l + 1.            *)
RunAlive(l) ==
    IF l \in direct THEN (IF l = 2 THEN source ELSE owner[l - 2] = "running")
    ELSE owner[l] = "running"
AskerAlive(l) == IF l = 1 THEN source ELSE RunAlive(l - 1)

(* Fault: a cancellation does not wait for an admission under way. *)
ExchangeUnlockedEarly == handing = NoLeg

(* cross_chat_live_lease_lock and QUEUE_LOCK: what ends an exchange waits  *)
(* for an admission between its compare-and-set and its fsynced event.     *)
ExchangeUnlocked ==
    /\ handing = NoLeg
    /\ \A l \in LegIds : owner[l] \notin {"private", "admitted"}

(* cross_chat_exchange_leg_admission *)
LegUnlocked(l) == l \notin submitter /\ recon.leg # l

Deliverable(l) == l = Notice \/ db.status = "active"

-----------------------------------------------------------------------------
(* The asking chat. *)

Ask(live, expects) ==
    /\ up /\ source /\ db.status = "waiting_request" /\ (live => expects)
    /\ db' = InitialLeg(db, live, expects)
    /\ UNCHANGED <<up, journal, outcome, owner, submitter, recon, source, waiter,
                   direct, handing>>

(* register_or_replay_cross_chat_live_waiter: the lease is downgraded when *)
(* the asking run ended before its waiter was published.                   *)
RegisterWaiter ==
    /\ up /\ db.status = "active" /\ db.lease /\ db.used = 1 /\ waiter = NoLeg
    /\ handing = NoLeg /\ db.leg[1].resp = "open"
    /\ IF source THEN waiter' = 1 /\ UNCHANGED db
                 ELSE db' = Downgrade(db) /\ UNCHANGED waiter
    /\ UNCHANGED <<up, journal, outcome, owner, submitter, recon, source, direct,
                   handing>>

(* _revoke_cross_chat_capability when a run ends: the call it waits in is  *)
(* detached and its exchange falls back to asynchronous delivery.          *)
Detach(alive) ==
    IF waiter # NoLeg /\ ~alive
    THEN waiter' = NoLeg /\ db' = Downgrade(db)
    ELSE UNCHANGED <<waiter, db>>

SourceEnds ==
    /\ up /\ source /\ source' = FALSE /\ handing = NoLeg
    /\ Detach(waiter # 1 /\ ~(waiter = 3 /\ 2 \in direct))
    /\ UNCHANGED <<up, journal, outcome, owner, submitter, recon, direct, handing>>

(* The placeholder of a request that was never sent closes visibly. *)
FailUnsent ==
    /\ up /\ ~source /\ db.status = "waiting_request"
    /\ db' = CloseExchange(db, "failed")
    /\ UNCHANGED <<up, journal, outcome, owner, submitter, recon, source, waiter,
                   direct, handing>>

-----------------------------------------------------------------------------
(* Submission of a registered leg (_submit_cross_chat_exchange_leg_locked).*)

(* A live request is only submitted once its waiter is published, a live   *)
(* answer never: it goes to the waiting call.                              *)
Claim(l) ==
    /\ up /\ LegUnlocked(l) /\ Deliverable(l) /\ db.leg[l].status = "registered"
    /\ owner[l] = "none"
    /\ (l = Notice) \/ ~db.lease \/ (l = 1 /\ waiter = 1)
    /\ db' = SetLeg(db, l, {"registered"}, "submitting")
    /\ submitter' = submitter \cup {l}
    /\ UNCHANGED <<up, journal, outcome, owner, recon, source, waiter, direct,
                   handing>>

(* The target is busy: the queue owner is set before the fsynced event. *)
BindQueue(l) ==
    /\ up /\ l \in submitter /\ owner[l] = "none" /\ db.leg[l].status = "submitting"
    /\ db' = SetLeg(db, l, {"submitting"}, "queued")
    /\ owner' = [owner EXCEPT ![l] = "private"]
    /\ UNCHANGED <<up, journal, outcome, submitter, recon, source, waiter, direct,
                   handing>>

PersistQueued(l) ==
    /\ up /\ owner[l] = "private"
    /\ owner' = [owner EXCEPT ![l] = "listed"]
    /\ journal' = journal \cup {l} /\ submitter' = submitter \ {l}
    /\ UNCHANGED <<up, db, outcome, recon, source, waiter, direct, handing>>

(* settle_claimed_submission_failure: the leg can be submitted again; a    *)
(* notice whose failure is not a deferral ends.                            *)
SettleFailure(l, from) ==
    \/ db' = SetLeg(db, l, from, "registered")
    \/ l = Notice /\ db' = FinishLeg(db, l, "failed", FALSE)

SubmitFails(l) ==
    /\ up
    /\ \/ owner[l] = "private"
       \/ l \in submitter /\ owner[l] = "none"
    /\ SettleFailure(l, {"submitting", IF owner[l] = "private" THEN "queued" ELSE "submitting"})
    /\ owner' = [owner EXCEPT ![l] = "none"]
    /\ submitter' = submitter \ {l}
    /\ UNCHANGED <<up, journal, outcome, recon, source, waiter, direct, handing>>

(* The claim was lost to a cancellation before a target owner existed. *)
SubmitAbandoned(l) ==
    /\ up /\ l \in submitter /\ owner[l] = "none" /\ db.leg[l].status \in Ended
    /\ submitter' = submitter \ {l}
    /\ UNCHANGED <<up, db, journal, outcome, owner, recon, source, waiter, direct,
                   handing>>

(* CURRENT_TURNS gets the run id: a direct start, or a promoted row.  Until *)
(* then a popped row counts as queued, and a deferred one is listed again.  *)
BindRun(l) ==
    /\ up
    /\ \/ l \in submitter /\ owner[l] = "none" /\ db.leg[l].status = "submitting"
       \/ owner[l] = "listed"
    /\ owner' = [owner EXCEPT ![l] = "bound"]
    /\ UNCHANGED <<up, db, journal, outcome, submitter, recon, source, waiter, direct,
                   handing>>

Expected(l) == IF l \in submitter THEN "submitting" ELSE "queued"

Admissible(l) == db.leg[l].status = Expected(l)

(* admit_cross_chat_delivery_run: the running-owner compare-and-set ...    *)
Admit(l) ==
    /\ up /\ owner[l] = "bound" /\ handing = NoLeg /\ Admissible(l)
    /\ db' = SetLeg(db, l, {Expected(l)}, "running")
    /\ owner' = [owner EXCEPT ![l] = "admitted"]
    /\ UNCHANGED <<up, journal, outcome, submitter, recon, source, waiter, direct,
                   handing>>

(* ... is rejected: the row is discarded with its durable removal ...      *)
AdmitRejected(l) ==
    /\ up /\ owner[l] = "bound" /\ handing = NoLeg /\ ~Admissible(l)
    /\ db' = (IF l \in submitter /\ l # Notice THEN db ELSE FinishLeg(db, l, "failed", TRUE))
    /\ owner' = [owner EXCEPT ![l] = "none"]
    /\ journal' = journal \ {l} /\ submitter' = submitter \ {l}
    /\ UNCHANGED <<up, outcome, recon, source, waiter, direct, handing>>

(* ... or followed by the fsynced turn_started and the provider launch ... *)
Launch(l) ==
    /\ up /\ owner[l] = "admitted"
    /\ owner' = [owner EXCEPT ![l] = "running"]
    /\ journal' = journal \ {l} /\ submitter' = submitter \ {l}
    /\ UNCHANGED <<up, db, outcome, recon, source, waiter, direct, handing>>

(* ... or by a failed launch, which ends the leg; a promotion that raised  *)
(* lists its row again.                                                    *)
LaunchFails(l) ==
    /\ up /\ owner[l] = "admitted"
    /\ db' = FinishLeg(db, l, "failed", TRUE)
    /\ \/ owner' = [owner EXCEPT ![l] = "none"] /\ journal' = journal \ {l}
       \/ /\ l \notin submitter
          /\ owner' = [owner EXCEPT ![l] = "listed"] /\ UNCHANGED journal
    /\ submitter' = submitter \ {l}
    /\ UNCHANGED <<up, outcome, recon, source, waiter, direct, handing>>

-----------------------------------------------------------------------------
(* Answers. *)

(* commit_exchange_response without a lease: the next leg is registered. *)
ReplyAsync(l, request) ==
    /\ up /\ ~db.lease /\ handing = NoLeg /\ RunAlive(l) /\ CanCommit(db, l, request)
    /\ db' = CommitResponse(db, l, request, "explicit_committed")
    /\ UNCHANGED <<up, journal, outcome, owner, submitter, recon, source, waiter,
                   direct, handing>>

(* commit_exchange_response finds the exchange overdue: it expires, and    *)
(* the leg is left to reconciliation.                                      *)
ReplyExpired(l) ==
    /\ up /\ handing = NoLeg /\ RunAlive(l) /\ ~db.requested /\ CanCommit(db, l, FALSE)
    /\ db' = CloseExchange(db, "expired")
    /\ UNCHANGED <<up, journal, outcome, owner, submitter, recon, source, waiter,
                   direct, handing>>

(* With a lease the commit and the hand-over to the waiting call share the *)
(* lease lock.                                                             *)
CommitLive(l, request, how) ==
    /\ db.lease /\ handing = NoLeg /\ waiter = l /\ AskerAlive(l)
    /\ CanCommit(db, l, request)
    /\ db' = CommitResponse(db, l, request, how)
    /\ handing' = db.used + 1

ReplyLive(l, request) ==
    /\ up /\ RunAlive(l) /\ CommitLive(l, request, "explicit_committed")
    /\ UNCHANGED <<up, journal, outcome, owner, submitter, recon, source, waiter,
                   direct>>

(* deliver_cross_chat_live_response: the next waiter is installed before   *)
(* the opposite call is released.                                          *)
DeliverLive ==
    /\ up /\ handing # NoLeg
    /\ db' = FinishLeg(db, handing, "delivered", FALSE)
    /\ waiter' = (IF db.leg[handing].expects THEN handing ELSE NoLeg)
    /\ direct' = direct \cup {handing} /\ handing' = NoLeg
    /\ UNCHANGED <<up, journal, outcome, owner, submitter, recon, source>>

(* The caller is gone: the committed answer is delivered as a turn. *)
DeliverLiveFails ==
    /\ up /\ handing # NoLeg
    /\ db' = Downgrade(db) /\ waiter' = NoLeg /\ handing' = NoLeg
    /\ UNCHANGED <<up, journal, outcome, owner, submitter, recon, source, direct>>

(* The target run ends: its terminal event is on disk before finalization. *)
RunEnds(l, o) ==
    /\ up /\ owner[l] = "running" /\ handing = NoLeg
    /\ outcome' = [outcome EXCEPT ![l] = o]
    /\ owner' = [owner EXCEPT ![l] = "ended"]
    /\ Detach(waiter # l + 1 /\ ~(waiter = l + 3 /\ l + 2 \in direct))
    /\ UNCHANGED <<up, journal, submitter, recon, source, direct, handing>>

(* finalize_cross_chat_exchange_run *)
Finalize(l) ==
    /\ up /\ owner[l] = "ended" /\ handing = NoLeg
    /\ db' = (IF outcome[l] = "ok" THEN FinishLeg(db, l, "delivered", FALSE)
              ELSE FinishLeg(db, l, "failed", l # Notice))
    /\ owner' = [owner EXCEPT ![l] =
                    IF outcome[l] = "ok" /\ db'.status = "active" /\ db'.leg[l].resp = "open"
                    THEN "answering" ELSE "none"]
    /\ UNCHANGED <<up, journal, outcome, submitter, recon, source, waiter, direct,
                   handing>>

(* The final text becomes the automatic answer, live or as a turn; the     *)
(* commit is refused when the exchange ended or was answered meanwhile.    *)
AutoAnswer(l) ==
    /\ up /\ owner[l] = "answering" /\ handing = NoLeg
    /\ IF ~CanCommit(db, l, FALSE) THEN UNCHANGED <<db, handing, waiter>>
       ELSE \/ CommitLive(l, FALSE, "automatic_committed") /\ UNCHANGED waiter
            \/ /\ db.lease => ~(waiter = l /\ AskerAlive(l))
               /\ db' = CommitResponse(Downgrade(db), l, FALSE, "automatic_committed")
               /\ waiter' = (IF db.lease THEN NoLeg ELSE waiter)
               /\ UNCHANGED handing
    /\ owner' = [owner EXCEPT ![l] = "none"]
    /\ UNCHANGED <<up, journal, outcome, submitter, recon, source, direct>>

-----------------------------------------------------------------------------
(* Endings from outside. *)

(* cancel_cross_chat_exchange (also for a stopped source run and a revoked *)
(* route), and terminalize_cross_chat_exchanges_for_session.               *)
Cancel(s) ==
    /\ up /\ ExchangeUnlocked /\ db.status \in Open
    /\ db' = CancelExchange(db, s)
    /\ waiter' = NoLeg
    /\ UNCHANGED <<up, journal, outcome, owner, submitter, recon, source, direct,
                   handing>>

(* Expiry in reconcile_cross_chat_exchanges; live exchanges never expire. *)
Expire ==
    /\ up /\ ExchangeUnlocked /\ db.status \in Open /\ ~db.requested
    /\ db' = CloseExchange(IF db.used = 0 THEN db ELSE FinishLeg(db, db.used, "expired", FALSE),
                           "expired")
    /\ UNCHANGED <<up, journal, outcome, owner, submitter, recon, source, waiter,
                   direct, handing>>

(* skip_queued_cross_chat_delivery *)
SkipQueued(l) ==
    /\ up /\ owner[l] = "listed" /\ db.leg[l].status = "queued" /\ ExchangeUnlocked
    /\ l = Notice \/ db.status # "active" \/ l = db.used
    /\ db' = CancelQueuedLeg(db, l)
    /\ owner' = [owner EXCEPT ![l] = "none"] /\ journal' = journal \ {l}
    /\ waiter' = (IF l = Notice THEN waiter ELSE NoLeg)
    /\ UNCHANGED <<up, outcome, submitter, recon, source, direct, handing>>

(* remove_cross_chat_exchange_leg_queue_owner, after the ledger committed. *)
RemoveTerminalRow(l) ==
    /\ up /\ db.leg[l].status \in Ended /\ owner[l] = "listed"
    /\ owner' = [owner EXCEPT ![l] = "none"] /\ journal' = journal \ {l}
    /\ UNCHANGED <<up, db, outcome, submitter, recon, source, waiter, direct, handing>>

(* maybe_deliver_cross_chat_exchange_failure_status: a closed live lease,  *)
(* or a recipient that is gone, only acknowledges the notice.              *)
CreateNotice ==
    /\ up /\ db.status \in {"failed", "expired"} /\ db.used > 0
    /\ db.leg[Notice].status = "absent"
    /\ \/ Notifying /\ ~db.lease /\ db' = CreateStatusLeg(db)
       \/ db' = FinishLeg(CreateStatusLeg(db), Notice, "failed", FALSE)
    /\ UNCHANGED <<up, journal, outcome, owner, submitter, recon, source, waiter,
                   direct, handing>>

-----------------------------------------------------------------------------
(* Reconciliation: at startup and every minute. *)

(* A live lease without a waiter falls back to asynchronous delivery. *)
ReconcileLease ==
    /\ up /\ db.status = "active" /\ db.lease /\ waiter = NoLeg /\ handing = NoLeg
    /\ db' = Downgrade(db)
    /\ UNCHANGED <<up, journal, outcome, owner, submitter, recon, source, waiter,
                   direct, handing>>

(* The active leg ended and the exchange did not, or its answer was lost. *)
ReconcileActive ==
    LET l == db.used IN
    /\ up /\ db.status = "active" /\ handing = NoLeg /\ owner[l] = "none"
    /\ \/ /\ db.leg[l].status = "delivered" /\ db.leg[l].resp = "open"
          /\ db.leg[l].expects /\ outcome[l] # "none"
          /\ owner' = [owner EXCEPT ![l] = "ended"] /\ UNCHANGED db
       \/ /\ db.leg[l].status \in Ended \ {"delivered"}
          /\ db' = CloseExchange(db, db.leg[l].status) /\ UNCHANGED owner
    /\ UNCHANGED <<up, journal, outcome, submitter, recon, source, waiter, direct,
                   handing>>

(* live_cross_chat_exchange_leg_state *)
LiveState(l) ==
    CASE owner[l] = "listed" -> "queued"
      [] owner[l] \in {"bound", "admitted", "running"} -> "running"
      [] OTHER -> "none"

(* What the leg, the exchange and the live owners call for when read. *)
Todo(l) ==
    IF l > 1 /\ db.lease THEN "lost"
    ELSE IF ~Deliverable(l) THEN "close"
    ELSE IF LiveState(l) # "none" THEN LiveState(l)
    ELSE IF db.leg[l].status \in {"queued", "running"} THEN "settle" ELSE "resubmit"

(* reconcile_cross_chat_exchange_leg reads under the leg's fence; until    *)
(* its waiter is published a live request belongs to its own call ...      *)
ReconcileRead(l) ==
    /\ up /\ recon = Idle /\ LegUnlocked(l) /\ db.leg[l].status \in Pending
    /\ ~(l = 1 /\ db.lease /\ waiter # 1 /\ db.leg[l].status \in {"registered", "submitting"})
    /\ recon' = [leg |-> l, status |-> db.leg[l].status, todo |-> Todo(l)]
    /\ UNCHANGED <<up, db, journal, outcome, owner, submitter, source, waiter, direct,
                   handing>>

(* Fault: a leg that lost its owner is not settled. *)
RepairedLeavesOrphan(l, status, todo) ==
    IF todo = "resubmit" THEN SetLeg(db, l, {"submitting"} \cap {status}, "registered")
    ELSE db

(* The ledger after the repair. *)
Repaired(l, status, todo) ==
    CASE todo = "lost" ->
           IF db.leg[l].status \in Pending
           THEN CloseExchange(FinishLeg(db, l, "failed", FALSE), "failed") ELSE db
      [] todo = "close" ->
           IF db.leg[l].status = status
           THEN Write(db, l, "cancelled", "closed", db.status) ELSE db
      [] todo \in {"queued", "running"} ->
           SetLeg(db, l, {status}, todo)
      [] todo = "settle" ->
           IF outcome[l] = "none" THEN FinishLeg(db, l, "failed", TRUE) ELSE db
      [] OTHER -> SetLeg(db, l, {"submitting"} \cap {status}, "registered")

(* ... and applies what it read, whatever happened since: a closed         *)
(* exchange's row is removed, a run that ended is finalized.               *)
ReconcileApply ==
    LET l == recon.leg IN
    /\ up /\ recon # Idle /\ handing = NoLeg
    /\ db' = Repaired(l, recon.status, recon.todo)
    /\ owner' = [owner EXCEPT ![l] =
         CASE recon.todo = "close" /\ recon.status = "queued" /\ @ = "listed" -> "none"
           [] recon.todo = "settle" /\ outcome[l] # "none" /\ @ = "none" -> "ended"
           [] OTHER -> @]
    /\ journal' = (IF recon.todo = "close" /\ recon.status = "queued" /\ owner[l] = "listed"
                   THEN journal \ {l} ELSE journal)
    /\ waiter' = (IF recon.todo = "lost" /\ db'.status # db.status THEN NoLeg ELSE waiter)
    /\ recon' = Idle
    /\ UNCHANGED <<up, outcome, submitter, source, direct, handing>>

-----------------------------------------------------------------------------
Crash ==
    /\ up /\ Crashing
    /\ up' = FALSE /\ source' = FALSE
    /\ owner' = [l \in LegIds |-> "none"] /\ submitter' = {} /\ recon' = Idle
    /\ waiter' = NoLeg /\ handing' = NoLeg
    /\ UNCHANGED <<db, journal, outcome, direct>>

(* bind_recovered_cross_chat_queue_item *)
Recoverable(l) ==
    Deliverable(l) /\ db.leg[l].status \in {"submitting", "queued"}

(* Startup: rows still owed are bound and listed, the others are removed.  *)
(* A lease of the dead process is downgraded.                              *)
Recover ==
    /\ ~up /\ up' = TRUE
    /\ journal' = {l \in journal : Recoverable(l)}
    /\ owner' = [l \in LegIds |-> IF l \in journal' THEN "listed" ELSE "none"]
    /\ db' = [Downgrade(db) EXCEPT !.leg =
                [l \in LegIds |-> IF l \in journal'
                                  THEN [db.leg[l] EXCEPT !.status = "queued"]
                                  ELSE db.leg[l]]]
    /\ UNCHANGED <<outcome, submitter, recon, source, waiter, direct, handing>>

-----------------------------------------------------------------------------
Next ==
    \/ \E live \in LiveCalls, expects \in BOOLEAN : Ask(live, expects)
    \/ RegisterWaiter \/ SourceEnds \/ FailUnsent
    \/ \E l \in LegIds :
         \/ Claim(l) \/ BindQueue(l) \/ PersistQueued(l) \/ SubmitFails(l)
         \/ SubmitAbandoned(l) \/ BindRun(l)
         \/ Admit(l) \/ AdmitRejected(l) \/ Launch(l) \/ LaunchFails(l)
         \/ \E o \in {"ok", "failed"} : RunEnds(l, o)
         \/ Finalize(l) \/ SkipQueued(l) \/ RemoveTerminalRow(l) \/ ReconcileRead(l)
    \/ \E l \in Legs : \/ \E request \in BOOLEAN : ReplyAsync(l, request) \/ ReplyLive(l, request)
                       \/ AutoAnswer(l) \/ ReplyExpired(l)
    \/ DeliverLive \/ DeliverLiveFails
    \/ \E s \in {"cancelled", "failed"} : Cancel(s)
    \/ Expire \/ CreateNotice \/ ReconcileLease \/ ReconcileActive \/ ReconcileApply
    \/ Crash \/ Recover

Spec == Init /\ [][Next]_vars

(* What the runs of the legs do once they are admitted. *)
RunStep ==
    \/ \E l \in LegIds :
         \/ Admit(l) \/ AdmitRejected(l) \/ Launch(l) \/ LaunchFails(l)
         \/ \E o \in {"ok", "failed"} : RunEnds(l, o)
         \/ Finalize(l) \/ RemoveTerminalRow(l) \/ SubmitAbandoned(l)
    \/ \E l \in Legs : AutoAnswer(l)
    \/ DeliverLive \/ DeliverLiveFails

(* The reconcile loop runs every minute, a started handler is carried to   *)
(* its end and provider turns end.  A deferred admission is retried until  *)
(* it succeeds, and the process is in the end left running.                *)
Fairness ==
    /\ WF_vars(Recover) /\ <>[]up
    /\ WF_vars(SourceEnds \/ FailUnsent) /\ WF_vars(RunStep)
    /\ WF_vars(ReconcileLease \/ ReconcileActive \/ CreateNotice)
    /\ SF_vars(ReconcileApply \/ \E l \in LegIds : ReconcileRead(l))
    /\ SF_vars(\E l \in LegIds : Claim(l))
    /\ SF_vars(\E l \in LegIds : PersistQueued(l) \/ BindRun(l))

FairSpec == Spec /\ Fairness

-----------------------------------------------------------------------------
(* The answer to an open request always has a slot in the leg budget:      *)
(* commit_exchange_response reserves two for a follow-up request.          *)
ReplySlotReserved ==
    db.status = "active" /\ db.used > 0 /\ db.leg[db.used].expects => db.used < MaxLegs

(* While an exchange is active, every leg but the last has exactly one     *)
(* committed answer, the next leg, and got through to its target.          *)
ChainCommitted ==
    db.status = "active" =>
        \A l \in 1..(db.used - 1) : /\ db.leg[l].resp \in Committed
                                    /\ db.leg[l].status \in {"running", "delivered"}

(* A completed exchange delivered its last leg, which expected no reply:   *)
(* finish_exchange_leg never completes over an unanswered request.         *)
CompletedMeansAnswered ==
    db.status = "completed" => /\ db.leg[db.used].status = "delivered"
                               /\ ~db.leg[db.used].expects

(* Endings are final, whatever races them: a closed exchange and an ended  *)
(* leg keep their status, and no leg is added to a closed exchange.        *)
EndingsFinal ==
    [][ /\ db.status \in Closed => db'.status = db.status /\ db'.used = db.used
        /\ \A l \in LegIds : db.leg[l].status \in Ended
                                => db'.leg[l].status = db.leg[l].status ]_db

(* A provider run is launched only for a leg whose running owner is in the *)
(* ledger and whose exchange is still active: admission, cancellation and  *)
(* expiry share the lease lock and the queue lock.                         *)
LaunchAuthorized ==
    [][ \A l \in LegIds : owner[l] # "running" /\ owner'[l] = "running"
            => db.leg[l].status = "running" /\ Deliverable(l) ]_owner

(* A leg whose target run finished is not run a second time, not even from *)
(* a queue row recovered after a crash.                                    *)
RunsOnce ==
    [][ \A l \in LegIds : owner'[l] = "running" /\ owner[l] # "running"
            => outcome[l] = "none" ]_owner

(* What the launch compares the leg's status with is what it left there:   *)
(* nobody else moves a leg that a bound run owns, except to end it.        *)
BoundRunAdmissible ==
    \A l \in LegIds : owner[l] = "bound" /\ Deliverable(l) /\ db.leg[l].status \in Pending
                        => Admissible(l)

(* In an exchange that was completed no answered leg is settled as         *)
(* undelivered: the reply is the proof that it was delivered.              *)
AnsweredLegStands ==
    db.status = "completed" => \A l \in Legs : l < db.used => db.leg[l].status # "cancelled"

(* Every exchange comes to an end: it is answered, or it fails visibly. *)
ExchangeEnds == <>(db.status \in Closed)

(* The requester is told of a failure after a leg was sent: it never stays *)
(* failed with a notice that is not settled (both endings are final).      *)
FailureNoticed ==
    []<>(db.status \in {"failed", "expired"} /\ db.used > 0
            => db.leg[Notice].status \in Ended)

(* No queue row stays behind for a leg that ended: a row that a            *)
(* cancellation left in the journal is removed again and again.            *)
RowsRetired == []<>(\A l \in journal : db.leg[l].status \notin Ended)

(* What the ledger says of an exchange is true: completed means answered, a   *)
(* request keeps a leg for its answer, and a committed reply is the one that  *)
(* stands (CrossChatStore).                                                   *)
LedgerSound ==
  /\ TypeOK
  /\ CompletedMeansAnswered
  /\ ReplySlotReserved
  /\ ChainCommitted

(* A leg runs once, only under the authority of an open exchange, and an      *)
(* ending is final (update_exchange_leg, finish_exchange_leg,                 *)
(* cross_chat_exchange_leg_admission).                                        *)
LegsLawful ==
  /\ EndingsFinal
  /\ LaunchAuthorized
  /\ RunsOnce

(* Every exchange ends, its requester learns of a failure and its rows leave  *)
(* the queues (reconcile_cross_chat_exchanges).                               *)
ExchangeSettles ==
  /\ ExchangeEnds
  /\ FailureNoticed
  /\ RowsRetired

=============================================================================
