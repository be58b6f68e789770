----------------------------- MODULE MCTurnQueue -----------------------------
(***************************************************************************)
(* The work of a chat and its record: the queue of its turns (TurnQueue),   *)
(* and the catch-up of its timeline with the transcript of its provider     *)
(* (HistorySync). A behaviour is one of one component, the others rest in   *)
(* their initial states. User messages are interchangeable, and so are the  *)
(* texts of a transcript.                                                   *)
(***************************************************************************)
EXTENDS TurnQueue, TLC

CONSTANTS x1, x2, None

VARIABLES source, gen, timeline, cursor, disk, turn, job, mishaps, troubles
VARIABLE part       \* the component that moves

Sync == INSTANCE HistorySync WITH
           Texts <- {x1, x2}, None <- None, Limit <- 1, MaxSource <- 3, MaxRewrites <- 1,
           MaxTroubles <- 2

queueVars == <<up, queue, runNow, steering, provisional, paused, fenced, promo, force, waiter, slot, stop, wake,
    retry, log, fresh, launches, burnt, held, used>>
syncVars == <<source, gen, timeline, cursor, disk, turn, job, mishaps, troubles>>
allVars == <<queueVars, syncVars, part>>

AllInit ==
  /\ part \in {"queue", "sync"}
  /\ Init
  /\ Sync!Init

QueueOnly == UNCHANGED <<syncVars, part>>
SyncOnly == UNCHANGED <<queueVars, part>>

AllNext ==
  \/ part = "queue" /\ Next /\ QueueOnly
  \/ part = "sync" /\ Sync!Next /\ SyncOnly

AllSpec == AllInit /\ [][AllNext]_allVars

Symmetry == Permutations(Users) \cup Permutations({x1, x2})

-----------------------------------------------------------------------------
(* The catch-up with the provider's transcript passes over no message and     *)
(* never goes back. It repeats none and keeps their order as long as the      *)
(* transcript was not rewritten, no crash cut a batch in two and no cursor    *)
(* save that was reported as failed came back with a restart                  *)
(* (sync_provider_history, committed_history_sync_checkpoint).                *)
HistoryWhole == part = "sync" => Sync!HistoryWhole

==============================================================================
