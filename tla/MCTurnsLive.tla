----------------------------- MODULE MCTurnsLive -----------------------------
(***************************************************************************)
(* What must happen in the end to the work of a chat and to the pairing of  *)
(* its server: queued rows (TurnQueue), turns and the Stops that hit them   *)
(* (TurnSlot), and pairings, approvals and revocations (SecurePairing). A   *)
(* behaviour is one of one component, the others rest in their initial      *)
(* states; the fairness of each is that of its module, restricted to its own*)
(* behaviours.                                                              *)
(***************************************************************************)
EXTENDS Integers, FiniteSets, Sequences, TLC

CONSTANTS u1, u2, NoRow

VARIABLES up, queue, runNow, steering, provisional, queuePaused, fenced, promo, force, waiter, slot,
          queueStop, queueWake, retry, log, fresh, launches, burnt, held, queueUsed
VARIABLES hostUp, req, peer, cert, bound, prov, conn, ren, files, active, pairPaused, hosting, cancelling,
          call, mishaps, acts
VARIABLES lock, cur, act, stopReq, stopped, pc, how, names, host, prev, cancelled, alive, thread, given,
          started, ended, torn, slotStop, del, row, slotWake, born, slotUsed
VARIABLE part       \* the component that moves

Queue == INSTANCE TurnQueue WITH
           paused <- queuePaused, stop <- queueStop, wake <- queueWake, used <- queueUsed,
           Users <- {u1, u2}, Deliveries <- {}, NoRow <- NoRow, MaxCrashes <- 1, MaxStops <- 0,
           MaxMoves <- 0, MaxForces <- 1

Pair == INSTANCE SecurePairing WITH
           paused <- pairPaused, MaxPairings <- 1, Durable <- {1}, MaxRenewals <- 1,
           MaxEffort <- 2, MaxMishaps <- 1, MaxActs <- 1

Slot == INSTANCE TurnSlot WITH
           stop <- slotStop, wake <- slotWake, used <- slotUsed, MaxRuns <- 2,
           Transports <- {"exec", "app"}, Steering <- TRUE, MaxStops <- 1, MaxDeletes <- 0,
           MaxCrashes <- 0

queueVars == <<up, queue, runNow, steering, provisional, queuePaused, fenced, promo, force, waiter, slot,
    queueStop, queueWake, retry, log, fresh, launches, burnt, held, queueUsed>>
pairingVars == <<hostUp, req, peer, cert, bound, prov, conn, ren, files, active, pairPaused, hosting, cancelling,
    call, mishaps, acts>>
slotVars == <<lock, cur, act, stopReq, stopped, pc, how, names, host, prev, cancelled, alive, thread, given,
    started, ended, torn, slotStop, del, row, slotWake, born, slotUsed>>
vars == <<queueVars, pairingVars, slotVars, part>>

Init ==
  /\ part \in {"queue", "pairing", "slot"}
  /\ Queue!Init
  /\ Pair!Init
  /\ Slot!Init

QueueOnly == UNCHANGED <<pairingVars, slotVars, part>>
PairingOnly == UNCHANGED <<queueVars, slotVars, part>>
SlotOnly == UNCHANGED <<queueVars, pairingVars, part>>

Next ==
  \/ part = "queue" /\ Queue!Next /\ QueueOnly
  \/ part = "pairing" /\ Pair!Next /\ PairingOnly
  \/ part = "slot" /\ Slot!Next /\ SlotOnly

Spec == Init /\ [][Next]_vars

(* A fairness condition of each component: since part never changes, fairness  *)
(* of the disjunction is fairness of that component's action in its behaviours. *)
Weak1 ==
  \/ part = "queue" /\ Queue!StartTask /\ QueueOnly
  \/ part = "pairing" /\ Pair!HostStart /\ PairingOnly
  \/ part = "slot" /\ Slot!OwnSteps(1) /\ SlotOnly
Weak2 ==
  \/ part = "queue" /\ Queue!RetryTimer /\ QueueOnly
  \/ part = "pairing" /\ Pair!Unbind(1) /\ PairingOnly
  \/ part = "slot" /\ Slot!OwnSteps(2) /\ SlotOnly
Weak3 ==
  \/ part = "queue" /\ Queue!PromoStep /\ QueueOnly
  \/ part = "pairing" /\ Pair!RenewalAges(1) /\ PairingOnly
  \/ part = "slot" /\ Slot!Handover(1) /\ SlotOnly
Weak4 ==
  \/ part = "queue" /\ Queue!ProviderFinish /\ QueueOnly
  \/ part = "pairing" /\ Pair!PairGoesOn /\ PairingOnly
  \/ part = "slot" /\ Slot!Handover(2) /\ SlotOnly
Weak5 ==
  \/ part = "queue" /\ (Queue!StopPause \/ Queue!StopKeepsQueue) /\ QueueOnly
  \/ part = "pairing" /\ Pair!RouteGoesOn /\ PairingOnly
  \/ part = "slot" /\ Slot!StreamEnds(1) /\ SlotOnly
Weak6 ==
  \/ part = "queue" /\ Queue!StopFinish /\ QueueOnly
  \/ part = "pairing" /\ Pair!OwnGoesOn /\ PairingOnly
  \/ part = "slot" /\ Slot!StreamEnds(2) /\ SlotOnly
Weak7 ==
  \/ part = "queue" /\ Queue!SteerStep /\ QueueOnly
  \/ part = "pairing" /\ Pair!Confirm /\ PairingOnly
  \/ part = "slot" /\ Slot!Stopping /\ SlotOnly
Weak8 ==
  \/ part = "queue" /\ Queue!ForceStep /\ QueueOnly
Weak9 ==
  \/ part = "queue" /\ Queue!ReleaseWaiterFence /\ QueueOnly
Weak10 ==
  \/ part = "queue" /\ Queue!ReconcileIdleQueue /\ QueueOnly
Weak11 ==
  \/ part = "queue" /\ Queue!RecoverQueuedTurns /\ QueueOnly
Strong1 ==
  \/ part = "queue" /\ Queue!PopNext /\ QueueOnly
  \/ part = "pairing" /\ Pair!Post(1) /\ PairingOnly
  \/ part = "slot" /\ Slot!StopDone /\ SlotOnly
Strong2 ==
  \/ part = "queue" /\ Queue!Reserve /\ QueueOnly
  \/ part = "pairing" /\ Pair!Health(1, "check") /\ PairingOnly
  \/ part = "slot" /\ (Slot!PromoteNothing \/ \E r \in Slot!Runs, t \in {"exec", "app"} : Slot!Promote(r, t)) /\ SlotOnly
Strong3 ==
  \/ part = "queue" /\ Queue!PersistTurnAcceptance /\ QueueOnly
  \/ part = "pairing" /\ Pair!RenewPost(1) /\ PairingOnly
Strong4 ==
  \/ part = "queue" /\ Queue!Launch /\ QueueOnly
  \/ part = "pairing" /\ Pair!RenewActivate(1) /\ PairingOnly
Strong5 ==
  \/ part = "pairing" /\ Pair!Confirmed /\ PairingOnly

FairSpec ==
  /\ Spec
  /\ WF_vars(Weak1) /\ WF_vars(Weak2) /\ WF_vars(Weak3) /\ WF_vars(Weak4) /\ WF_vars(Weak5)
  /\ WF_vars(Weak6) /\ WF_vars(Weak7) /\ WF_vars(Weak8) /\ WF_vars(Weak9) /\ WF_vars(Weak10)
  /\ WF_vars(Weak11)
  /\ SF_vars(Strong1) /\ SF_vars(Strong2) /\ SF_vars(Strong3) /\ SF_vars(Strong4) /\ SF_vars(Strong5)

-----------------------------------------------------------------------------
(* Every queued row is handed to a provider or taken out, unless a held row   *)
(* stands in the chat (start_next_queued_turn, reconcile_idle_queue_session). *)
QueueDrains == part = "queue" => Queue!QueueDrains

(* A Stop ends, its turn leaves, its transcript closes and the row that       *)
(* waited starts (run_explicit_stop_operation, start_next_queued_turn).       *)
TurnsSettle ==
  /\ (part = "slot" => Slot!StopEnds)
  /\ (part = "slot" => Slot!StoppedTurnLeaves)
  /\ (part = "slot" => Slot!LeftTurnCloses)
  /\ (part = "slot" => Slot!RowStarts)

(* Pairing attempts settle, the bindings of revoked peers go, and a member    *)
(* learns of its revocation (recover_pairing_attempts,                        *)
(* revoke_secure_peer_service, peer_revocation_status).                       *)
PeersSettle ==
  /\ (part = "pairing" => Pair!AttemptsSettle)
  /\ (part = "pairing" => Pair!RevokedUnbound)
  /\ (part = "pairing" => Pair!ClientLearnsRevocation)

==============================================================================
