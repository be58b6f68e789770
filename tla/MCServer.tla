------------------------------ MODULE MCServer ------------------------------
(***************************************************************************)
(* Components of one agents server that share no state with each other,     *)
(* model-checked in one run: the pairing of servers (SecurePairing), the    *)
(* jobs (JobScheduler), the managed update and restart (ServerUpdate) and   *)
(* the two provider transports (CodexTransport, ClaudeTransport). A         *)
(* behaviour is one of one component, the others rest in their initial      *)
(* states, so that the state spaces add up instead of multiplying.          *)
(***************************************************************************)
EXTENDS Integers, FiniteSets, Sequences, TLC

CONSTANT j1

VARIABLES hostUp, req, peer, cert, bound, prov, conn, ren, files, active, paused, hosting, cancelling, call,
          mishaps, acts
VARIABLES mem, jobDisk, chat, life, busy, upd, due, jobRun, jobJournal, edits, jobTroubles, wanted, started,
          again
VARIABLES gen, proc, running, made, by, asked, inbox, pipe, table, own, sent, codexTroubles
VARIABLES cur, evicting, sup, claudeRun, cl, claudeTroubles
VARIABLES hosted, row, updateJournal, fence, srv, updateDisk, work, op, waiter, cleanup, runner, inst, sigs,
          used, updateTroubles
VARIABLE part       \* the component that moves

Pair == INSTANCE SecurePairing WITH
           MaxPairings <- 2, Durable <- {2}, MaxRenewals <- 2, MaxEffort <- 4, MaxMishaps <- 1,
           MaxActs <- 1

Job == INSTANCE JobScheduler WITH
           disk <- jobDisk, run <- jobRun, journal <- jobJournal, troubles <- jobTroubles,
           Jobs <- {j1}, Once <- {}, Limit <- 2, MaxOcc <- 2, MaxDefers <- 1, MaxEdits <- 2,
           MaxTroubles <- 2

Codex == INSTANCE CodexTransport WITH
           troubles <- codexTroubles, MaxOwners <- 2, MaxNative <- 3, MaxGens <- 3,
           MaxTroubles <- 2, MaxPipe <- 2

Claude == INSTANCE ClaudeTransport WITH
           run <- claudeRun, troubles <- claudeTroubles, MaxSups <- 2, MaxClients <- 3,
           MaxRuns <- 2, Slash <- {}, MaxTroubles <- 2

Update == INSTANCE ServerUpdate WITH
           journal <- updateJournal, disk <- updateDisk, troubles <- updateTroubles,
           MaxUpdates <- 2, MaxScheds <- 2, MaxReqs <- 1, MaxTroubles <- 1

pairingVars == <<hostUp, req, peer, cert, bound, prov, conn, ren, files, active, paused, hosting, cancelling, call,
    mishaps, acts>>
jobsVars == <<mem, jobDisk, chat, life, busy, upd, due, jobRun, jobJournal, edits, jobTroubles, wanted, started,
    again>>
codexVars == <<gen, proc, running, made, by, asked, inbox, pipe, table, own, sent, codexTroubles>>
claudeVars == <<cur, evicting, sup, claudeRun, cl, claudeTroubles>>
updateVars == <<hosted, row, updateJournal, fence, srv, updateDisk, work, op, waiter, cleanup, runner, inst, sigs,
    used, updateTroubles>>
vars == <<pairingVars, jobsVars, codexVars, claudeVars, updateVars, part>>

Init ==
  /\ part \in {"pairing", "jobs", "codex", "claude", "update"}
  /\ Pair!Init
  /\ Job!Init
  /\ Codex!Init
  /\ Claude!Init
  /\ Update!Init /\ (part # "update" => ~hosted)

PairingOnly == UNCHANGED <<jobsVars, codexVars, claudeVars, updateVars, part>>
JobsOnly == UNCHANGED <<pairingVars, codexVars, claudeVars, updateVars, part>>
CodexOnly == UNCHANGED <<pairingVars, jobsVars, claudeVars, updateVars, part>>
ClaudeOnly == UNCHANGED <<pairingVars, jobsVars, codexVars, updateVars, part>>
UpdateOnly == UNCHANGED <<pairingVars, jobsVars, codexVars, claudeVars, part>>

Next ==
  \/ part = "pairing" /\ Pair!Next /\ PairingOnly
  \/ part = "jobs" /\ Job!Next /\ JobsOnly
  \/ part = "codex" /\ Codex!Next /\ CodexOnly
  \/ part = "claude" /\ Claude!Next /\ ClaudeOnly
  \/ part = "update" /\ Update!Next /\ UpdateOnly

Spec == Init /\ [][Next]_vars

-----------------------------------------------------------------------------
(* A server has one active peer and a member a certificate its host accepts,  *)
(* with its files; what is revoked or forgotten does not come back            *)
(* (approve_pairing, activate_renewal, cancel_pairing).                       *)
PairingSound ==
  /\ [](part = "pairing" => Pair!TypeOK /\ Pair!CredentialsOnDisk /\ Pair!NeverLockedOut /\ Pair!OneIdentity /\ Pair!ActiveConsistent)
  /\ Pair!ClosedForGood

(* An occurrence starts one turn, none passes unseen, and a pause outlives    *)
(* archives, repairs and restarts (mark_ran,                                  *)
(* reconcile_admitted_runs_after_restart, pause_for_session).                 *)
JobsExact ==
  /\ [](part = "jobs" => Job!TypeOK /\ Job!StartsOnce /\ Job!PauseSurvives)
  /\ Job!NotSkipped

(* A run's input is taken at most once, but for the rollover of a silent      *)
(* resumed thread, its handle follows the native turn, and a run that the     *)
(* code settles leaves no turn of its own to run for nobody (start_turn,      *)
(* _route_notification, reconcile_ambiguous_start).                           *)
RunsDelivered == part = "codex" => Codex!RunsDelivered

(* A run gets its own output and its own failures, its prompt is sent once,   *)
(* and no process runs for nobody (_handle_received, _fail_active,            *)
(* _handle_start).                                                            *)
RunsOwn == part = "claude" => Claude!RunsOwn

(* Whatever dies when, no work is interrupted, the installer acts only under  *)
(* its own row and fence, and the reservation is used once; on a server       *)
(* without a hub the installer of a dead runner is outside of this, and so is *)
(* a fence that its failed start could not lift, until the next start         *)
(* (_start_server_update, update_status, finalize_abandoned_server_update).   *)
UpdateSound ==
  /\ [](part = "update" => Update!TypeOK /\ Update!InstallerGuarded /\ Update!FenceOwned)
  /\ Update!NothingInterrupted
  /\ Update!ReservationExact
  /\ Update!CompleteMeansInstalled

=============================================================================
