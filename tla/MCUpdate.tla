------------------------------ MODULE MCUpdate ------------------------------
(***************************************************************************)
(* The two halves of a managed update for TLC: the server, its runner and  *)
(* the records they share (ServerUpdate) and the transaction in which an   *)
(* installer replaces a release (ActivationTransaction).  A behaviour is   *)
(* one of either; the other rests in an initial state, so that the state   *)
(* spaces add up instead of multiplying.                                   *)
(***************************************************************************)
EXTENDS ActivationTransaction, Integers, TLC

VARIABLES hosted, row, journal, fence, srv, disk, work, handler, waiter, cleanup, runner, inst,
          sigs, used, troubles
VARIABLE part       \* the half that moves

Server == INSTANCE ServerUpdate WITH
            op <- handler, MaxUpdates <- 1, MaxScheds <- 1, MaxReqs <- 1, MaxTroubles <- 1

activationVars == <<plan, phase, from, desired, seen, where, current, previous, conf, draft, secured, unit,
                    pc, op, known, origin, own, calm>>
serverVars == <<hosted, row, journal, fence, srv, disk, work, handler, waiter, cleanup, runner, inst,
                sigs, used, troubles>>
allVars == <<activationVars, serverVars, part>>

BothInit ==
  /\ part \in {"activation", "server"}
  /\ Init /\ (part = "server" => plan.source = "none" /\ plan.handoff = "plain")
  /\ Server!Init /\ (part = "activation" => hosted)

ActivationOnly == UNCHANGED <<serverVars, part>>
ServerOnly == UNCHANGED <<activationVars, part>>

BothNext ==
  \/ part = "activation" /\ Next /\ ActivationOnly
  \/ part = "server" /\ Server!Next /\ ServerOnly

(* A fairness condition of each half: since part never changes, fairness of *)
(* the disjunction is fairness of that half's action in its behaviours.     *)
Weak1 ==
  \/ part = "activation" /\ Installer /\ ActivationOnly
  \/ part = "server" /\ Server!StartSteps /\ ServerOnly
Weak2 ==
  \/ part = "activation" /\ RollbackFails /\ ActivationOnly
  \/ part = "server" /\ Server!WaiterSteps /\ ServerOnly
Weak3 ==
  \/ part = "activation" /\ AdvanceFails /\ ActivationOnly
  \/ part = "server" /\ Server!RestartSteps /\ ServerOnly
Weak4 ==
  \/ part = "activation" /\ RollbackRecordFails /\ ActivationOnly
  \/ part = "server" /\ Server!Startup /\ ServerOnly
Weak5 ==
  \/ part = "activation" /\ HealthyRecordFails /\ ActivationOnly
  \/ part = "server" /\ Server!Age /\ ServerOnly
Weak6 ==
  \/ part = "activation" /\ CommitFails /\ ActivationOnly
  \/ part = "server" /\ Server!Poll /\ ServerOnly
Weak7 ==
  \/ part = "activation" /\ CandidateUnhealthy /\ ActivationOnly
  \/ part = "server" /\ Server!Finish /\ ServerOnly
Weak8 ==
  \/ part = "activation" /\ Calm /\ ActivationOnly
  \/ part = "server" /\ Server!CleanupEnds /\ ServerOnly
Weak9 == part = "server" /\ (Server!Signal \/ Server!SignalDropped) /\ ServerOnly
Weak10 == part = "server" /\ Server!Stale /\ ServerOnly
Weak11 == part = "server" /\ Server!InstallerSteps /\ ServerOnly
Weak12 == part = "server" /\ Server!RunnerSteps(1) /\ ServerOnly

BothSpec ==
  /\ BothInit /\ [][BothNext]_allVars
  /\ WF_allVars(Weak1) /\ WF_allVars(Weak2) /\ WF_allVars(Weak3) /\ WF_allVars(Weak4) /\ WF_allVars(Weak5)
  /\ WF_allVars(Weak6) /\ WF_allVars(Weak7) /\ WF_allVars(Weak8) /\ WF_allVars(Weak9) /\ WF_allVars(Weak10)
  /\ WF_allVars(Weak11) /\ WF_allVars(Weak12)

-----------------------------------------------------------------------------
(* Nothing that fences work off waits for ever: a forced update, an accepted *)
(* restart, an update before its installation                                *)
(* (server_update_pending_waiter_loop, signal_managed_server_restart,        *)
(* server_update_status).                                                    *)
UpdateSettles ==
  /\ Server!ArmedSettles
  /\ Server!RestartSettles
  /\ Server!StartSettles

=============================================================================
