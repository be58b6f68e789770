---------------------------- MODULE MCServerLive ----------------------------
(***************************************************************************)
(* What must happen in the end, for components that share no state: the     *)
(* jobs, the provider transports, the directory and the attachment store of *)
(* the team hub. A behaviour is one of one component, the others rest in    *)
(* their initial states; the fairness of each is that of its module,        *)
(* restricted to its own behaviours.                                        *)
(***************************************************************************)
EXTENDS Integers, FiniteSets, Sequences, TLC

CONSTANTS j1, u1, u2, b1, m1, NoLetter

VARIABLES mem, disk, chat, life, busy, upd, jobDue, jobRun, journal, edits, jobTroubles, wanted, started,
          again
VARIABLES gen, proc, running, made, by, asked, inbox, pipe, table, own, codexSent, codexTroubles
VARIABLES cur, evicting, sup, claudeRun, cl, claudeTroubles
VARIABLES node, binds, beat, heard, draft, letters, list
VARIABLES row, got, late, owner, attPart, bad, blob, queue, lease, attSent, faults
VARIABLE part       \* the component that moves

OneBlob == [u \in {u1, u2} |-> b1]

Job == INSTANCE JobScheduler WITH
           due <- jobDue, run <- jobRun, troubles <- jobTroubles, Jobs <- {j1}, Once <- {},
           Limit <- 2, MaxOcc <- 2, MaxDefers <- 1, MaxEdits <- 2, MaxTroubles <- 1

Codex == INSTANCE CodexTransport WITH
           sent <- codexSent, troubles <- codexTroubles, MaxOwners <- 2, MaxNative <- 2,
           MaxGens <- 2, MaxTroubles <- 1, MaxPipe <- 2

Claude == INSTANCE ClaudeTransport WITH
           run <- claudeRun, troubles <- claudeTroubles, MaxSups <- 2, MaxClients <- 2,
           MaxRuns <- 2, Slash <- {}, MaxTroubles <- 1

Dir == INSTANCE HubDirectory WITH
           Host <- 2, Peers <- {1}, Beating <- {1}, Lease <- 3, WriteEvery <- 2, MaxBinds <- 1,
           MaxLetters <- 0, Limit <- 2

Att == INSTANCE HubAttachments WITH
           part <- attPart, sent <- attSent, Uploads <- {u1, u2}, Blobs <- {b1},
           BlobOf <- OneBlob, Size <- 2, Quota <- 2, Letters <- {m1}, NoLetter <- NoLetter,
           MaxFaults <- 1

jobsVars == <<mem, disk, chat, life, busy, upd, jobDue, jobRun, journal, edits, jobTroubles, wanted, started,
    again>>
codexVars == <<gen, proc, running, made, by, asked, inbox, pipe, table, own, codexSent, codexTroubles>>
claudeVars == <<cur, evicting, sup, claudeRun, cl, claudeTroubles>>
directoryVars == <<node, binds, beat, heard, draft, letters, list>>
attachmentsVars == <<row, got, late, owner, attPart, bad, blob, queue, lease, attSent, faults>>
vars == <<jobsVars, codexVars, claudeVars, directoryVars, attachmentsVars, part>>

Init ==
  /\ part \in {"jobs", "codex", "claude", "directory", "attachments"}
  /\ Job!Init
  /\ Codex!Init
  /\ Claude!Init
  /\ Dir!Init
  /\ Att!Init

JobsOnly == UNCHANGED <<codexVars, claudeVars, directoryVars, attachmentsVars, part>>
CodexOnly == UNCHANGED <<jobsVars, claudeVars, directoryVars, attachmentsVars, part>>
ClaudeOnly == UNCHANGED <<jobsVars, codexVars, directoryVars, attachmentsVars, part>>
DirectoryOnly == UNCHANGED <<jobsVars, codexVars, claudeVars, attachmentsVars, part>>
AttachmentsOnly == UNCHANGED <<jobsVars, codexVars, claudeVars, directoryVars, part>>

Next ==
  \/ part = "jobs" /\ Job!Next /\ JobsOnly
  \/ part = "codex" /\ Codex!Next /\ CodexOnly
  \/ part = "claude" /\ Claude!Next /\ ClaudeOnly
  \/ part = "directory" /\ Dir!Next /\ DirectoryOnly
  \/ part = "attachments" /\ Att!Next /\ AttachmentsOnly

Spec == Init /\ [][Next]_vars

(* A fairness condition of each component: since part never changes, fairness  *)
(* of the disjunction is fairness of that component's action in its behaviours. *)
Weak1 ==
  \/ part = "jobs" /\ Job!Tick(j1) /\ JobsOnly
  \/ part = "codex" /\ Codex!Serve /\ CodexOnly
  \/ part = "claude" /\ Claude!Actor(1) /\ ClaudeOnly
  \/ part = "directory" /\ Dir!Tick /\ DirectoryOnly
  \/ part = "attachments" /\ Att!Collect /\ AttachmentsOnly
Weak2 ==
  \/ part = "jobs" /\ Job!ArchivePause /\ JobsOnly
  \/ part = "codex" /\ Codex!Transport /\ CodexOnly
  \/ part = "claude" /\ Claude!Actor(2) /\ ClaudeOnly
  \/ part = "directory" /\ Dir!Expire /\ DirectoryOnly
Weak3 ==
  \/ part = "jobs" /\ Job!TurnEnds /\ JobsOnly
  \/ part = "codex" /\ Codex!Step(1) /\ CodexOnly
  \/ part = "claude" /\ Claude!Cleanup(1) /\ ClaudeOnly
  \/ part = "directory" /\ Dir!BeatCommit(1) /\ DirectoryOnly
Weak4 ==
  \/ part = "jobs" /\ Job!UpdateFails /\ JobsOnly
  \/ part = "codex" /\ Codex!Step(2) /\ CodexOnly
  \/ part = "claude" /\ Claude!Cleanup(2) /\ ClaudeOnly
Weak5 ==
  \/ part = "jobs" /\ Job!CollectDue /\ JobsOnly
  \/ part = "codex" /\ Codex!Continue(1) /\ CodexOnly
Weak6 ==
  \/ part = "jobs" /\ (\E d \in jobDue : Job!TakeDue(d)) /\ JobsOnly
  \/ part = "codex" /\ Codex!Continue(2) /\ CodexOnly
Weak7 ==
  \/ part = "jobs" /\ (Job!Blocked \/ Job!Recheck) /\ JobsOnly
Weak8 ==
  \/ part = "jobs" /\ (Job!Claim("scheduler") \/ Job!Snapshot("scheduler") \/ Job!EnterTurn("scheduler") \/ Job!Admit("scheduler") \/ Job!Refused("scheduler") \/ Job!Mark("scheduler")) /\ JobsOnly
Weak9 ==
  \/ part = "jobs" /\ (Job!Claim("request") \/ Job!Snapshot("request") \/ Job!EnterTurn("request") \/ Job!Admit("request") \/ Job!Refused("request") \/ Job!Mark("request")) /\ JobsOnly
Strong1 ==
  \/ part = "attachments" /\ Att!Write(u1) /\ AttachmentsOnly
Strong2 ==
  \/ part = "attachments" /\ Att!Write(u2) /\ AttachmentsOnly

FairSpec ==
  /\ Spec
  /\ WF_vars(Weak1) /\ WF_vars(Weak2) /\ WF_vars(Weak3) /\ WF_vars(Weak4) /\ WF_vars(Weak5)
  /\ WF_vars(Weak6) /\ WF_vars(Weak7) /\ WF_vars(Weak8) /\ WF_vars(Weak9)
  /\ SF_vars(Strong1) /\ SF_vars(Strong2)

-----------------------------------------------------------------------------
(* Neither a due occurrence, a manual request, a thread nor a caller is held  *)
(* for ever: occurrences and manual runs settle, every run lets go of its     *)
(* thread, and every start is answered (_scheduler_loop_until_failure,        *)
(* settle_transport_finalizer, _actor_loop).                                  *)
RunsSettle ==
  /\ (part = "jobs" => Job!DueSettles)
  /\ (part = "jobs" => Job!ManualSettles)
  /\ (part = "codex" => Codex!ThreadFreed)
  /\ (part = "claude" => Claude!Answered)

(* A server that stops beating is shown offline, and an upload its client     *)
(* keeps sending becomes ready or fails (expire_secure_peer_leases,           *)
(* write_team_attachment_chunk).                                              *)
HubSettles ==
  /\ (part = "directory" => Dir!GoesOffline)
  /\ (part = "attachments" => Att!UploadSettles)

=============================================================================
