---------------------------- MODULE ExchangeLedger ----------------------------
(***************************************************************************)
(* The exchange tables of CrossChatStore (src/agent_server.py): one        *)
(* request/reply exchange between two chats and its legs.  Every operator  *)
(* is one SQLite transaction, a function from ledger to ledger.            *)
(*                                                                         *)
(* Leg 0 is the status notice, leg n > 0 the leg with ordinal n.  The leg  *)
(* with the highest ordinal is the exchange's active_leg_id.               *)
(***************************************************************************)
EXTENDS Integers

CONSTANT MaxLegs     \* max_legs of the exchange
ASSUME MaxLegsAssumption == MaxLegs \in Nat /\ MaxLegs >= 2

Notice == 0
Legs   == 1..MaxLegs
LegIds == 0..MaxLegs

Pending == {"registered", "submitting", "queued", "running"}
Ended   == {"delivered", "failed", "cancelled", "expired"}
Open    == {"waiting_request", "active"}
Closed  == {"completed", "failed", "cancelled", "expired"}
Committed == {"explicit_committed", "automatic_committed"}

(* resp: response_state.  lease: live_response_lease.  requested:          *)
(* live_response_requested, which exempts the exchange from expiry.  The   *)
(* queued_id is not kept: it is set whenever the status is queued.         *)
LegRecords == [status : Pending \cup Ended \cup {"absent"},
               resp : Committed \cup {"open", "closed"},
               expects : BOOLEAN]
Ledgers == [status : Open \cup Closed, used : LegIds, lease : BOOLEAN,
            requested : BOOLEAN, leg : [LegIds -> LegRecords]]

Absent == [status |-> "absent", resp |-> "closed", expects |-> FALSE]
NewLeg(expects) ==
    [status |-> "registered", resp |-> "open", expects |-> expects]

(* create_exchange_obligation: the placeholder an @mention reserves. *)
NewExchange ==
    [status |-> "waiting_request", used |-> 0, lease |-> FALSE, requested |-> FALSE,
     leg |-> [l \in LegIds |-> Absent]]

(* create_initial_exchange_leg; a configured route's instruction expects   *)
(* no reply.                                                               *)
InitialLeg(d, live, expects) ==
    [status |-> "active", used |-> 1, lease |-> live, requested |-> live,
     leg |-> [d.leg EXCEPT ![1] = NewLeg(expects)]]

(* The rows a transaction writes: leg l and, with it, the exchange. *)
Write(d, l, s, resp, x) ==
    [status |-> x, used |-> d.used, lease |-> d.lease, requested |-> d.requested,
     leg |-> [d.leg EXCEPT ![l] =
                [status |-> s, resp |-> resp, expects |-> d.leg[l].expects]]]

(* A request needs a slot of its own and one for its answer. *)
BudgetLeft(d, request) == MaxLegs - d.used >= (IF request THEN 2 ELSE 1)

(* commit_exchange_response, the accepted case. *)
CanCommit(d, l, request) ==
    /\ d.status = "active" /\ BudgetLeft(d, request)
    /\ d.leg[l].resp = "open" /\ d.leg[l].status \in {"running", "delivered"}

(* Fault: the inbound leg stays open, so that it can be answered again. *)
CommitResponseTwice(d, l, request, how) ==
    [d EXCEPT !.used = @ + 1, !.leg[d.used + 1] = NewLeg(request)]

CommitResponse(d, l, request, how) ==
    [status |-> d.status, used |-> d.used + 1, lease |-> d.lease, requested |-> d.requested,
     leg |-> [Write(d, l, d.leg[l].status, how, d.status).leg
                EXCEPT ![d.used + 1] = NewLeg(request)]]

(* A committed response outlives the failure of the turn that wrote it. *)
EffectiveStatus(d, l, s, preserve) ==
    IF preserve /\ s = "failed" /\ d.leg[l].resp \in Committed THEN "delivered" ELSE s

(* An open leg that expects no reply is the final answer. *)
Final(d, l, e) == e = "delivered" /\ d.leg[l].resp = "open" /\ ~d.leg[l].expects

(* finish_exchange_leg: the leg ends, and the active exchange with it when *)
(* the leg did not get through or was the final answer.                    *)
FinishLeg(d, l, s, preserve) ==
    LET e     == EffectiveStatus(d, l, s, preserve)
        final == Final(d, l, e)
    IN  IF d.leg[l].status \notin Pending THEN d
        ELSE IF l = Notice \/ d.status # "active"
        THEN Write(d, l, e, d.leg[l].resp, d.status)
        ELSE Write(d, l, e, IF final THEN "closed" ELSE d.leg[l].resp,
                   IF e # "delivered" THEN e ELSE IF final THEN "completed" ELSE "active")

(* update_exchange with expected = waiting_request, active. *)
CloseExchange(d, s) == IF d.status \in Open THEN [d EXCEPT !.status = s] ELSE d

(* cancel_exchange: routing and the latest leg close together. *)
CancelExchange(d, s) ==
    IF d.status \in Open /\ d.used > 0 /\ d.leg[d.used].status \in Pending
    THEN Write(d, d.used, IF d.leg[d.used].status = "running" THEN "running" ELSE s,
               "closed", s)
    ELSE CloseExchange(d, s)

(* cancel_exact_queued_exchange_leg *)
CancelQueuedLeg(d, l) ==
    Write(d, l, "cancelled", "closed",
          IF l # Notice /\ d.status = "active" THEN "cancelled" ELSE d.status)

(* update_exchange_leg: compare-and-set of the status. *)
SetLeg(d, l, expected, s) ==
    IF d.leg[l].status \in expected THEN Write(d, l, s, d.leg[l].resp, d.status) ELSE d

(* downgrade_live_exchange *)
Downgrade(d) == IF d.status = "active" THEN [d EXCEPT !.lease = FALSE] ELSE d

(* create_exchange_status_leg: at most one per exchange. *)
CreateStatusLeg(d) ==
    IF d.leg[Notice].status = "absent"
    THEN Write(d, Notice, "registered", "closed", d.status)
    ELSE d
=============================================================================
