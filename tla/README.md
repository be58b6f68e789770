# TLA+ specifications of AgentsServer

AgentsServer is a self-hosted server that runs coding agents (Claude, Codex,
Cursor, OpenCode) for a user's chats: it keeps the transcripts, admits, queues
and stops turns, lets chats talk to each other and to the chats of other
servers, runs scheduled jobs, hosts a Team Hub and updates itself in place.
This directory holds formal models of the parts of it that are hard to test,
the TLC configurations that check them on small instances, and the TLAPS proofs
of what is known for every instance.

The models are translated from the code under `src/`; `PROJECT.json` maps each
definition to the lines it stands for.  Operators introduced by *Fault: ...* are
deliberately wrong variants of the definition below them: substituting one for
the original must make a property fail, which shows that the property depends
on that piece of code.

    tlc -workers 2 -config MCTurnQueue.cfg MCTurnQueue     # one run
    tlapm TurnQueueProofs.tla                              # one module's proofs

## 1. The system

| Component | State | Operations | Modules |
|---|---|---|---|
| Turn queue (`agent_server.py` 16425-26109) | `QUEUED_TURNS`, `RUN_NOW_TURNS`, `STEERING_SESSIONS` in memory; the queue events of each chat's `events.jsonl` | enqueue, remove, move, promote, defer, discard, pause after Stop, Run Now (by Stop or by native steering), recover | `Queues`, `TurnQueue` |
| Turn slot and Stop (29607-29990, 70978-72640, 91803-93158) | `BUSY_SESSIONS`, `ACTIVE`, `CURRENT_TURNS`, stop operations | reserve, accept, launch, steer, stop softly and hard, release, close the transcript, delete | `SlotContract`, `TurnSlot` |
| Cross-chat exchanges (`CrossChatStore` 14061-16282; 38394-45157, 91207-91640) | SQLite rows of exchanges and legs; live HTTP waiters | ask, submit, admit, reply live or asynchronously, finalize, cancel, expire, skip, notify, reconcile | `ExchangeLedger`, `CrossChatExchange` |
| Jobs (`JobStore` 11421, scheduler 12760-13420) | jobs, occurrences, admitted runs | claim, dispatch, defer, edit, pause, park, reconcile | `JobScheduler` |
| Activation (`activation_transaction.py`, `install.sh`) | a journal directory, two links, releases, two configuration files | begin, activate, configure, commit, roll back, finish | `ActivationTransaction` |
| Managed update (`agent_server.py`, `update_runner.py`) | the update row, the runner's lock and lease, the Hub's fence | ask, drain, launch, install, finalize, clean up | `ServerUpdate` |
| Secure peers (`secure_peer_runtime.py`, `agentsdock_team_hub/secure_peer*.py`) | pairings, credentials, bindings, attachment cache | pair, approve, activate, renew, revoke, change host mode, cache, pin | `SecurePairing`, `TeamCache` |
| Team Hub (`agentsdock_team_hub/`) | SQLite store, files, maintenance directories | enrol, refresh, claim; mail, Bulletin, skills, requests; presence; channels; upload; snapshot, restore, rebase | `HubMail`, `HubAccess`, `HubChannels`, `HubDirectory` (together `HubTeam`); `HubAttachments`, `HubMaintenance` (in `HubHost`) |
| Hub host process (`team_hub_host.py`, `agent_server.py` 81900-83600) | role, configuration, fence, listeners, admission doors | enable, disable, rename, drain, maintain, change endpoint | `HubHostRole`, `HubHostGate` (with `HubMaintenance`: `HubHost`) |
| Mail hints (`mail_hint*.py`, `team_mail_*.py`) | hint rows, upstream feeds, desktop streams | publish, seed, coalesce, subscribe, reconnect | `MailStreams` |
| Provider clients (`codex_app_server.py`, `claude_sdk_client.py`) | request tables, turn streams, supervisors | start, deliver, interrupt, retire, evict | `CodexTransport`, `ClaudeTransport` |
| Sessions (`SessionStore`, `fork_session`, `bulk_import_sessions`, `sync_provider_history`) | the registry in memory and on disk, provider threads, cursor of the catch-up | create, fork, import, publish, delete, clean up; align, append, save | `SessionFork`, `HistorySync` |
| Subscribers, tunnels, mailbox, history repair, side questions, shares, instances | small stores of their own | | not modelled (section 10) |

One asyncio process runs all of the server.  Its state is shared by handlers
that interleave at every `await`; critical sections are `QUEUE_LOCK`, a per-chat
lifecycle lock, a lease lock per exchange, an admission fence per leg, the job
store's lock and the Hub's control lock.  Durability comes from fsynced appends
to `events.jsonl`, from SQLite transactions and from atomic file replacement,
and two of these are never written atomically together.

What is hard: several owners of one row or slot across awaits; memory lost
between an fsync and the step it announces; deliveries whose outcome is unknown;
repairs that compare and set what they read earlier; lost wake-ups and fences
without an owner; steps that fail halfway; installers and machines that die
between two renames.  `PROJECT.json` lists each hazard at its line with the
properties that would catch it.

## 2. How the project is laid out

One module per component, an `MC` module where TLC needs more than the
component's own module, one `.cfg` per run, and `...Proofs` modules for the
theorems.  Bounds are constants named `Max...` and appear in the guards of the
actions they limit; what is not bounded by a constant is finite by itself.

Components that share no state are checked in *sum* runs: `MCTurnQueue`,
`MCChats`, `MCHub`, `MCHubStorage`, `MCServer`, `MCServerLive`, `MCTurnsLive` and
`MCUpdate` instantiate several components beside one another.  Their variable `part` names
the component that runs in a behaviour; the others rest in one fixed initial
state, so a sum has as many states as its components together and not their
product, and each property is checked of the component it is about.  Where a sum
is checked for liveness, `Weak_i` and `Strong_i` collect the fairness of the
component that runs.  A sum extends the component whose theorems are proved, so
that run and theorem are about the same definition: `MCTurnQueue` extends
`TurnQueue`, `MCChats` `CrossChatExchange`, `MCUpdate` `ActivationTransaction`,
`MCHub` `HubTeam` and `MCHubStorage` `HubHost`.  The last two are compositions:
`HubTeam` is `HubMail` beside instances of `HubChannels`, `HubDirectory` and
`HubAccess` and defines `BoardWhole`, `DirectoryTrue` and `AccessSound` of them, `HubHost` is `HubMaintenance`
beside instances of `HubHostRole`, `HubHostGate` and `HubAttachments` and defines
`HostSound` of the first two and `BlobsSound` of the third; `BoardProofs` and
`HostProofs` extend the same compositions.  The properties of the other components carry the
names of the components' own: `CacheSound` of `MCHub` is `CacheSound` of
`TeamCache` in the behaviours in which the cache runs.

`PROJECT.json` maps an operation with the helpers that only it uses in one entry
when their lines lie inside its own; an action that stands for the outside (a
crash, a provider's answer, an edit elsewhere) is marked external.

Each component states one property per question, a conjunction of named parts:

| Property | Module | Its parts |
|---|---|---|
| `SentOnce` | `TurnQueue` | `AtMostOnce`, `ReplayFenced` |
| `JournalExact` | `TurnQueue` | `JournalCoversMemory`, `NoDiskOnlyRow` |
| `HoldHonoured` | `TurnQueue` | `HoldDurable`, `HoldListed`, `HeldNeverLaunched` |
| `LedgerSound`, `LegsLawful` | `CrossChatExchange` | `CompletedMeansAnswered`, `ReplySlotReserved`, `ChainCommitted`; `EndingsFinal`, `LaunchAuthorized`, `RunsOnce` |
| `ExchangeSettles` | `CrossChatExchange` | `ExchangeEnds`, `FailureNoticed`, `RowsRetired` |
| `SlotSound`, `StopExact` | `TurnSlot` | `ClosedOnce`, `OneTurnPerSession`, `SlotNotStolen`; `StopRequestHasTurn`, `StopHitsItsTurn`, `StoppedNeverSent`, `GoneIsQuiet` |
| `SessionsSound` | `SessionFork` | `ForkRemembered`, `UserThreadsStand`, `CleanerSpares`, `ShownWhole`, `AnswersStand`, `PolicyHonest`, `RoutesTrue` |
| `HistoryWhole` | `HistorySync` | `NothingTwice`, `NothingMissed`, `InOrder`, `CursorDurable` |
| `RecoverySound` | `ActivationTransaction` | `LoadAccepts`, `SettledExact`, `RestoreExclusive`, `OldOnOldConfig` |
| `StreamsSound` | `MailStreams` | `IdleIsCurrent`, `NoOrphanFeed`, `WaitersKeepFeed` |
| `AccessSound` | `HubAccess` (`HubTeam`) | `RotationExact`, `OneLiveSession`, `RecoveryExclusive`, `EnrolmentExclusive`, `BootstrapOpen`, `RevokedStaysOut`, `AuthorityAtUse` |
| `MailExact`, `MarksForward` | `HubMail` | `OncePerKey`, `NothingSkipped`, `ReadAgrees`; `NoLostUpdate`, `ReceiptsForward` |
| `DirectoryTrue` | `HubDirectory` (`HubTeam`) | `PresenceBacked`, `RouteKept`, `ListedAll`, `NotDropped` |
| `BoardWhole` | `HubChannels` (`HubTeam`) | `ThreadWhole`, `OneDeletion`, `RateHeld`, `ForwardWhole`, `BackWhole` |
| `BlobsSound` | `HubAttachments` (`HubHost`) | `ReadyHasBytes`, `NothingLeaked`, `BoundForGood`, `ContentExact` |
| `OneGeneration`, `NeverStuck` | `HubMaintenance` | `AllOrNothing`, `StartsSettled`, `ReceiptTruthful`; `RecoveryCanFinish`, `RebaseCanFinish`, `FenceHasSnapshot`, `FenceHasOwner` |
| `HostSound` | `HubHostRole`, `HubHostGate` (`HubHost`) | `OneRole`, `AcknowledgedStands`, `NoWedge`, `RolesAgree`; `SnapshotComplete`, `LeaseCovers`, `OldEndpointQuiet`, `DoorsOpenAtRest` |
| `CacheSound` | `TeamCache` | `CacheBounded`, `LeasesGood`, `PinsExact`, `DirectoryKept`, `ExportsBounded`, `WriterKept` |
| `PairingSound` | `SecurePairing` | `CredentialsOnDisk`, `NeverLockedOut`, `OneIdentity`, `ActiveConsistent`, `ClosedForGood` |
| `JobsExact` | `JobScheduler` | `StartsOnce`, `PauseSurvives`, `NotSkipped` |
| `RunsDelivered` | `CodexTransport` | `HandleFollowsTurn`, `DeliveredOnce`, `NoOrphanTurn` |
| `RunsOwn` | `ClaudeTransport` | `OwnOutput`, `HookOwn`, `FailsForCause`, `NotSentTwice`, `NoOrphan` |

## 3. The runs

| Run | What it shows | Bounds |
|---|---|---|
| `turn_queue` | no message is lost, duplicated, sent twice or started under a Stop hold; the catch-up with a provider's transcript repeats and passes over nothing | two messages and a delivery; one crash, Stop, move and Force Send; a transcript of three messages with two texts, pages of one, one rewrite and two troubles |
| `exchange` | endings are final, an open request has a slot for its answer, runs are authorized and single; a forked or imported chat is whole or taken back with nothing lost | three legs, live and asynchronous, any number of crashes; a fork beside a resumed chat, or two imports, with one crash |
| `exchange_live` | every exchange ends, its failure is noticed, no stale row stays | asynchronous, two legs and a notice, any number of crashes |
| `turn_slot` | nobody takes, stops or closes a turn that is not his; `SlotContract` is implemented | two turns, six transports, one Stop, deletion and crash |
| `update` | the journal can be read again after any interruption, commits are final, every transaction is settled once failures cease; a managed update settles | five layouts, three hand-offs, any number of failures, crashes and reboots; two updates |
| `mail_streams` | no idle stream is behind, feeds belong to their readers, everyone catches up | two desktops, one feed, two entries, one fault |
| `hub` | authority is checked at use, every secret works once, every request takes effect once, listings are whole | below |
| `hub_storage` | ready attachments have their bytes, the directory is one whole generation, recovery is never stuck, the role and the doors of the host agree with its files | below |
| `server` | pairings, jobs, provider runs and updates keep their promises under failures and crashes | below |
| `turns_live` | queued rows drain, a Stop ends and its turn leaves, pairings settle | two messages, a crash and a Force Send; two turns and a Stop; one pairing, an intervention and a mishap |
| `server_live` | jobs, provider starts, presence and uploads settle | as `server` and `hub`, smaller |
| `jobs_stale` | the finding of section 8 | one job, two occurrences, two edits |

Bounds of the sums.  *Hub*: two people and one server, two boots, three
sessions, one mishap, two claims and two grants; four mail requests, each of
which may arrive late or again, two versions; a lease of four ticks with a
renewal every two; three channel messages with pages of one and a rate window
of two; three cached items, three requests and one trouble.  *Hub storage*: three
uploads of one content; two crashes, each between any two file operations; role changes with
two names, two requests, one failing step in each request and each start and two crashes; one request per lane
at the doors, two tasks and two endpoint changes.  *Server*: two pairings or two
renewals; one job with two occurrences, two edits and two troubles; two Codex
owners, three native turns and three generations; two Claude supervisors, three
clients and two runs; two updates and one trouble.

Why they are enough: the hazards are races of two actors about one row, slot,
session or file, so two of each kind and one event of each disturbing kind (two
where the code must survive a crash during recovery) reach every relative
order; retries, deferrals, cancellations and provider runs are unbounded where
the state stays finite.  `TurnQueue` uses symmetry in its safety run (user
messages are interchangeable, and so are the texts of a transcript) and `MCHub` in the two people; no liveness run
does.  Deadlock is not checked: every one of these systems may come to rest.

*Fairness.*  Tasks the event loop has scheduled run: weak fairness of the steps
of promotions, steers, Force Sends, Stops, transports and reconciliations.
Provider turns end, because the server bounds them by timeouts.  Health polls
are made while a client is connected: without them the code promises no progress
of an idle queue, since a cancelled promotion arms no timer.  Strong fairness
stands for *an attempt that can succeed again and again is not refused for
ever*: admissions, launches, claims.  The process is in the end left running
(`<>[]up`) and installers stop failing at some point (`Calm`); without that no
protocol could promise to end.

## 4. Turns

**Turn queue.**  `TurnQueue` models one chat (queues of different chats are
disjoint).  Its state is the queue, the promoted row, the steering fence, the
row flags `_durable`, `_paused_after_stop` and `_native_delivery_fenced`, the
possible owners (promotion task, Force Send request, steering waiter, Stop), the
turn slot, the scheduled and retry tasks, and `log`, the value
`scan_queued_turns_from_events` computes from the journal.  The `Log...`
operators are the reducer's cases, one per event type.  A critical section of
`QUEUE_LOCK` is one action, the fsynced append it awaits included: nobody else
can touch the queue meanwhile, and a crash before or after the fsync is a crash
before or after the action.  What the code does outside the lock is separate
actions: pop, reserve, persist `turn_started`, launch, and their failures.
`launches`, `burnt` and `held` record what the code does not keep.  Texts,
attachments and models are abstracted; editing a queued message is not modelled.

Known limits of the code, stated as definitions of `TurnQueue` that do not hold:
`RunNowPromotable` (a Stop whose hold cannot be written marks the row not
durable; Run Now lifts the hold and not that mark), `DurableRowsJournaled` (a
launch that fails after `turn_started` requeues the row in memory only) and
`FencedRowPlace` (the index a native Force Send remembers is stale once another
row is removed).

**Turn slot.**  `TurnSlot` models who holds `BUSY_SESSIONS`, `ACTIVE` and
`CURRENT_TURNS` of a chat through start, readiness, steering takeover, soft and
hard Stop, release, terminal events, deletion and crash, for six kinds of
provider transport.  `SlotContract` is what `TurnQueue` assumes of a slot; the
property `Contract` says that `TurnSlot` implements it.  `OneTurnPerSession`
counts the runners that still *drive* a provider turn: one whose interrupt
failed gives its turn up, and that turn may go on beside the next.  The model shows four
places where the code's order matters: the slot is released before the terminal
event is written; a steering takeover goes on when its event cannot be written;
a refused deletion leaves the turn marked stopped; and a hard Stop of a Codex
turn finds its slot already released by the cancelled runner (68566), which only
detached from the provider (70674, `codex_app_server.py` 504), so that it skips
the quarantine its comment (92813-92815) and
`test_codex_app_server_runner.py` 2658-2702 expect
(`LostReleaseMeansEnded` states it and does not hold).

**Provider clients.**  `CodexTransport`: one app-server process, its request
table, turn streams, generations and retirement; the process is external and
may answer late, twice or not at all.  The idle-kill path (70240-70265) is not
modelled; notifications carry no owner check (69561, 69700).  `ClaudeTransport`:
connect, query, hooks, receiver, eviction of supervisors.  Slash commands are
excluded in the runs (`Slash = {}`): a slash command that produces no result can
mislead the run after it (`claude_sdk_client.py` 2107-2111, 2580).  Control
requests and the replacement of the configuration are not modelled.

## 5. Exchanges and jobs

**Exchanges.**  `ExchangeLedger` gives each transaction of `CrossChatStore` as a
function from ledger to ledger: create, commit a response within the leg budget,
finish, cancel, compare-and-set, downgrade.  `CrossChatExchange` is the system
around it for one exchange: legs alternate between two chats and each is
delivered by a queue row that becomes a run, or directly to a live HTTP call that
waits for the answer.  `owner` says who holds a leg in memory, `journal` which
legs have a pending queue event, `outcome` the terminal event of a leg's run.
Reconciliation is two actions, read and apply, because the code awaits between
them.  `ExchangeUnlocked` and `LegUnlocked` are the lease lock and the admission
fence.  Only the number of legs is bounded (`max_legs` is a constant of an
exchange).  `LiveCalls`, `Crashing` and `Notifying` select scenarios.  Texts,
route names, remote exchanges and the replay of identical calls are left out.

Known limits, stated and not kept by the code: `BoundRunAdmissible`
(reconciliation marks a leg running between a promoted run's binding and its
compare-and-set, which then refuses the launch), `AnsweredLegStands` (it settles
an answered leg of a completed exchange as cancelled while its run goes on), and
`ExchangeEnds` with live calls (a follow-up delivered to a live call whose run
then ends stays open), which is why `exchange_live` is asynchronous.

**Jobs.**  `JobScheduler` keeps jobs, due times as an order, claims, admitted
runs, edits, pauses of archived chats and parking during updates.  Startup
resumes parked jobs (76415) before it reconciles admitted runs (76423).  A
mismatch of revisions can start an occurrence again, disabled jobs of a deleted
chat are not retried, and a pause made only in memory is lost by a crash.

**New chats.**  `SessionFork` models the session registry, one file replaced by
one coalescing writer, and the operations that add a chat to it or take one away:
creation and its rollback, a fork with its provider thread, staging, publication
and abort, the import of local transcripts, a chat resumed by its thread, a
change of policy, deletion, restart and the cleaner of abandoned threads.  Every
save, provider call and request can fail and the process can die between any two
steps.  What the model shows and the code accepts: a staged fork's thread that the user
resumes in another chat meanwhile is deleted when the fork aborts; a publication
whose save failed or was cancelled may be published on disk and rolled back in
memory; a failed rollback of a creation can leave an empty chat on disk.

**Catch-up with the provider.**  `HistorySync` models how a chat's timeline takes
over what was said in the same conversation elsewhere: the alignment of the two,
the batch that carries the next cursor, the registry's save and the checkpoint it
is recovered from.  It assumes that the lines of a turn are in the transcript
when the turn has ended; adjacent equal records are one message.
`prune_duplicate_imported_history_sync` is left out.  `NothingMissed` and
`CursorDurable` hold always; `NothingTwice` and `InOrder` until the transcript is
rewritten or one of the first three of these happens, which `mishaps` records:
a prompt that never reached the transcript is a credit that is never spent, so that the chat's own
later messages of the same delta are imported back; a batch cut in two by a crash
is imported again; a save that reached the disk but reported a failure, then a
batch and a crash, strand that batch; the retry of a first sync that finds nothing
new does not consult the checkpoint; after a rewrite an unrecovered checkpoint
makes even a forced import refuse; and a forced alignment can repeat a message.

## 6. Update, pairing and cache

**Activation.**  `ActivationTransaction` models one update of an installation:
the manifest, the disk (releases, links, two configuration files and their
staging names), the systemd unit, and the installer's shell with the phase it
*believes* the journal to be in.  `Plan` gives five layouts, `Handoffs` three
ways through the phases.  `Valid(p, lost)` is `_validate_invocation`; `Record`
the manifest replacement with its transition check, `RecordFails` a refusal or a
replacement whose success the shell never learns.  `StepFails`, `Crash`,
`Reboot` and `ManagerRestart` interrupt anywhere.  `AlwaysSettles` does not
hold: a rollback interrupted after its `rolled-back` record is retried by asking
for `rolling-back`, which is refused (`install.sh` 3771), so `TakenBackOrDone`
promises the files and not the journal.  The legacy unit and launchd are left
out.

**Managed update.**  `ServerUpdate` is the server's side: the request, the
drain of work, the Hub's fence, the runner with its lock and lease, the
installer as a black box, finalization and clean-up.  Blockers are merged in
`work`, the phase *restarting* is never written by the code.  Its assumptions and
limits: `Stray`: without a Hub, a runner that dies while its installer lives is
finalized as failed and work is admitted that the installer then interrupts; with
a Hub the fence keeps the row active until installer recovery.  `Downloaded`
assumes that a download outlasts the clean-up after a launch timeout.  A failed
clean-up is retried only by a restart.

**Pairing.**  `SecurePairing` models pairing, approval, activation, renewal,
revocation and host mode over the two stores of a pair.  Rejected, cancelled and
expired are one ending; certificates and TLS are external; the retirement of
files is atomic with its commit.  What the model shows and the code accepts: a
cancellation racing an approval leaves an active peer nobody holds
(`secure_peer.py` 8549-8555, deliberate); of two concurrent approvals the newer
peer may stay unbound (`secure_peer_runtime.py` 1698); a durable approval never
expires; a confirmed revocation may retire a connection that host mode has just
paused (395-399); a lost activation answer after the overlap ended cannot be
restored; the quarantine branch 698-715 is unreachable.

**Attachment cache.**  `TeamCache` models leases, pins, exports, eviction and
the writer of the team's attachment cache.  The overflow of a directory scan and
foreign files are left out.

## 7. The Team Hub

`HubAccess`: enrolment, refresh rotation, recovery, grants and revocation.  A
lost answer to a refresh or redemption makes an honest retry revoke its own
session; a consumed or expired challenge ends its grant.  `HubMail`: idempotency
keys, cursors, receipts and versions of mail, Bulletin, skills and requests.
`HubDirectory`: presence leases and routes (letters without a lifecycle id are
left out).  `HubChannels`: threads, deletion, rate limit and paging; memberships
are constant and channels are never archived; a Bulletin reply to a live reply
whose root was deleted is accepted where a message is refused.  `HubAttachments`:
uploads, binding, expiry and the collector; the comment at `store.py` 14412-14414
is false for the first chunk (`O_EXCL`, 14395-14399).  `HubMaintenance`:
snapshot, fence, restore, rebase and reactivation, one file operation at a time;
an exception is a crash, names are renamed in sorted order, and retention of
snapshots and verification of damaged files are left out.  A receipt that a
crash leaves behind after its journal was retired is not always one the next
exact restore adopts (`LeftoverAdoptable`, against the comment at `store.py`
2577).

`HubHostRole`: the change between Member and Host, its undo, the recovery of a
journalled one and the next start, with a failure or a crash after every durable
step.  `NoWedge` and `RolesAgree` hold when no request and no start meets more
than one failing step (`MaxFaults = 1`): when a step *and* its compensation fail, configuration and process can disagree,
which the code reports as `rollback_failed`.  `HubHostGate`: the admission doors
of the Hub, of local agents and of peers during maintenance, drain and the
change of the peer listener.  The peer lane may stay refused until the next
reopening when an endpoint change starts inside a maintenance
(`secure_peer_runtime.py` 998-1005, 3886-3896), so `DoorsOpenAtRest` speaks of the
Hub's door and of local agents; a forced restart may reopen doors during
another task's drain and is excluded.

`MailStreams`: version 2 of the hint streams from the commit to the desktop;
version 1 is the mail lane alone.  A buffered frame of a dead history can
reach a desktop for a moment.

## 8. Findings

`jobs_stale`: the scheduler looks again at a due entry and then awaits the
store's lock to copy the job it dispatches; an edit ahead of it wins, and a job
just disabled or moved to a later time is run at once, against the comments at
`agent_server.py` 13183 and 13191.

## 9. What is proved

`tlapm` checks every proof without an unproved leaf.  All theorems hold for
every value of the constants, from the named assumptions next to their
declaration or in the theorem: the rows of users and deliveries are disjoint and differ from
`NoRow`, an exchange has at least two legs, bounds are natural numbers, the
requests at the Hub's three doors are different requests.

| Theorem | States |
|---|---|
| `TurnQueueProofs.TypeCorrect` | `Spec => []TypeOK` |
| `TurnQueueProofs.RowsHaveOneHome` | `Spec => []OneHome` |
| `TurnQueueProofs.NothingSentTwice` | `Spec => []SentOnce` |
| `TurnQueueProofs.JournalIsExact` | `Spec => []JournalExact` |
| `TurnQueueProofs.HoldsAreHonoured` | `Spec => HoldHonoured` |
| `ExchangeProofs.LedgerTrue` | `Spec => []LedgerSound` |
| `ExchangeProofs.LegsRunLawfully` | `Spec => LegsLawful` |
| `ActivationProofs.CommitNeverTakenBack` | `Spec => CommitIsFinal` |
| `HubMailProofs.MailIsExact` | `Spec => []MailExact` |
| `HubMailProofs.MarksOnlyForward` | `Spec => MarksForward` |
| `SlotProofs.SlotKeepsContract` | `Spec => Contract` (refinement of `SlotContract`) |
| `SlotProofs.SlotInvariant` | `Spec => [](SlotInv /\ ClosedOnce)` |
| `MaintenanceProofs.RecoveryNeverStuck` | `Spec => []NeverStuck` |
| `MaintenanceProofs.StartsOnOneGeneration` | `Spec => OneGeneration` |
| `SlotProofs.SlotIsSound` | `Spec => SlotSound` |
| `SlotProofs.StopsAreExact` | `Spec => StopExact` |
| `BoardProofs.BoardStaysWhole` | `Chan!Spec => []BoardWhole`, for bounds as `Chan!Bounds` says |
| `HostProofs.RoleChangesAreSafe` | `Role!Spec => [](Role!OneRole /\ Role!AcknowledgedStands)`, with any number of faults |
| `HostProofs.DoorsStaySound` | `Gate!Spec => []Gate!HostDoorsSound`, for different requests at the three doors (`LanesApart`) |
| `HostProofs.HostStaysSound` | `Role!Spec /\ Gate!Spec => []HostSound`, under `LanesApart` and `OneFault` |
| `BoardProofs.DirectoryStaysTrue` | `Dir!Spec => DirectoryTrue`, for constants as `DirBounds` says |
| `HostProofs.BlobsStaySound` | `Att!Spec => BlobsSound`, for uploads as `Declared` says |
| `BoardProofs.AccessStaysSound` | `Access!Spec => AccessSound`, for constants as `AccessBounds` says |

**Turn queue.**  The first lemmas of `TurnQueueProofs` say what inserting,
removing, swapping and reordering do to the members of a sequence without
duplicates, the next what each journal event does to the pending, held
and fenced rows.  The inductive invariant has two layers.  `Homes` is `TypeOK`,
`OneHome` and `Owned`: that a requeued row is not already listed needs to know
who owned it, so `Owned` adds that an owner is idle exactly when it has no row,
that a Force Send by Stop excludes promotions and Stops (the lifecycle lock),
that the journal lists a row once and that an unused id occurs nowhere.
`Promises` adds `Delivered` and `Holds` to the properties themselves: what a
provider may have received is listed only under its fence and hold, so a pop,
which refuses held rows, never meets it; a row past `turn_started` is not in the
journal; a steer past its fence is fenced in the journal; and nothing popped or
detached is held, so consuming it lifts no hold.  The steps of timers, providers
and Stop teardown are one case (`Quiet`); every other action is first reduced to
what it does to the *sets* of listed, pending, held and fenced rows, and the
parts of the invariant are then set reasoning.

**Exchanges.**  `ExchangeInv` is `TypeOK`, `Sound(db)` and four facts about
memory.  `Sound`: the legs are the ordinals up to `used`; while the exchange is
active every leg but the last is answered and got through, and an open request
leaves room in the budget; a closed exchange has no leg on its way to a target,
and no later leg of a live exchange is ever submitted as a turn.  `OwnerTrue`
relates the owner of each leg to its row: an admitted leg is running, in an
active exchange, and is its last (which is what makes a launch authorized); a
finished leg has no owner that could run it again.  `HandingTrue`: a leg being
handed to a waiting call is nobody else's.  `ReconTrue`: what reconciliation read
is stale only in ways its compare-and-set catches.  `DownTrue`: a crash leaves no
owner.  Every transaction of the ledger has a lemma that it keeps `Sound` and the
endings (`Kept`), touches one leg (`Only`), and what it writes; every action has
a lemma that it keeps the invariant and starts a run only from an admission.

**Activation.**  `CommitInv` has three parts.  `Belief`: a shell going forward
or restoring knows the journal's phase, and one that settles is at most one
record behind, so a shell that missed the commit boundary asks for a rollback and
is refused by the transition table.  `WritesEarly`: configuration is written only
before the candidate starts.  `InPlace`: validation of a committing record has
seen the candidate in its place.

**Hub mail.**  `MailInv` has eight parts.  `RowsTrue` and `KeysTrue` relate the
committed rows to the idempotency keys that name them: a key is used once, and
only with the content it was first sent with.  `WireTrue` says that what is on
its way (a request sent again, an answer delayed) is what some member sent or
what the Hub once answered; `SeenTrue`, `RepliesTrue` and `OnceTrue` that a
member's own view follows from it, `NothingSkipped` that a page leaves out no
row below its cursor, and `MarksTrue` that a receipt or a version is never ahead
of what was read.  The bounds `MaxRequests` and `MaxVersion` are natural numbers
in the theorems' hypotheses; the rest holds for every set of members and keys.

**Turn slot.**  `SlotInv` says who may hold `BUSY_SESSIONS`, `ACTIVE` and
`CURRENT_TURNS` at every step of a runner: `AdmittingTrue` (before the task
exists), `RunnersTrue` and `HeldTrue` (the three records name the same runner),
`DrivenTrue` and `UnsentTrue` (what a runner drives, and that nothing reached
the provider before it), `ClosingTrue` (what a terminal event still owes) and
`HandoverTrue` (the two names of a turn during a steering takeover).  Actions are
grouped by what they do to a runner (`Moves`, `Releases`, `Leaves`, `Watches`,
`Drops`, `Retries`, `Records`), with one lemma each, whose conclusion `Good` is
the invariant afterwards and a step or a stutter of `SlotContract`.

The second half of `SlotProofs` puts `StopInv` on top of it.  `BornTrue` dates every run by the
Stops and deletions asked before its admission: beside a Stop or a deletion every
run is older, so whatever it marks was there; a request without a record belongs
to the turn that holds the chat.  `MarkTrue`: the record in `ACTIVE` and
`STOPPED_RUNS` agree, a cancelled holder is marked, a successor that is still
nobody's is not.  `AimTrue`: while a Stop waits, the turn it aims at stays marked
through a steering handover, a killed process is not started again, and a hard
Stop leaves no process behind that was given a prompt on the current session.
`GoneTrue`: a Stop and a deletion exclude each other and a deleted chat has no
task.  `SessionTrue`: what a provider may still execute for a runner that lost the
chat is on a session its successors do not use; two lemmas (`EndsSession`,
`WorksSession`) cover the steps that end a turn and those that feed one.

**Hub maintenance.**  `NeverStuck` says a recovery *could* finish; it is not
inductive because it does not say how the files came to lie as they do.
`MaintInv` adds that.  `Lock` says which command may be at which step while whose
journal is pending; `HubTrue` that the Hub runs only on a settled directory;
`Rebasing` and `Fencing` which directory holds the snapshot that the fence or the
rebase intent names, and who may lift the fence; `Restoring` that under a
prepared journal every name of the old generation is whole, in the root or in
staging, and the names found elsewhere are exactly those already moved
(`OldWhole`, `Layout`); `RestoreSteps` what a committed receipt has already
moved.  Each of the 47 actions, the crash among them, has one lemma: it keeps the
five groups of the invariant and is `Lawful`, what a start and the end of a
receipt may do.  Nothing bounds the number of crashes.

**Channels.**  What `BoardWhole` says of a page is not inductive: it does not know
which messages a reader has yet to be given.  `BoardInv` adds how messages are
numbered (increasing in their channel and below its next number), that threads
lead to earlier messages of the channel, that each deletion is announced once,
which of the charged writes the present window of a bucket has counted and which
belong to the window before (`Rates`, from which twice the limit in any window
follows), and what a reader that walks forwards or back still has ahead of it
(`Forward`, `Backward`).  Two lemmas about pages carry the last part: the first
rows above a cursor leave out nothing below the last of them, and the last rows
below one nothing above the first, nor anything at all when the page is not full.
The message bound is any natural number; limit, window and page are positive.

**Host role.**  The invariant has two layers.  `RoleBase` holds whatever fails:
the step a request is at and what it has written so far (`Control`), which mode
goes with which open store (`Modes`), that an active membership and a serving Hub
exclude each other (`Alone`), and that nothing is acknowledged while a fence
stands, so that no undo brings back a state from before it (`Unserved`).  It gives `RoleChangesAreSafe`.
`RoleRest` relates configuration, names, files and the reactivation journal
(`Naming`, `Unsaved`, `Files`, `Reactivation`); it needs that no request and no
start meets a second failing step (`OneFault`), since an undo that fails leaves
configuration and process disagreeing, which the code reports as
`rollback_failed`.  Each action has one lemma per layer.

**Doors of the host.**  `GateInv`: who has closed a door and who will open it
(`DoorShape`, `GateShape`), that the lease, the store and the attachment are given
up together (`HostShape`), that a request which is past a door is drained before
what it uses is taken away (`Quiet`), that a snapshot behind closed doors stays
complete (`Kept`) and that a request came through the present endpoint or through
none that is still served (`Endpoint`).  The number of closings, endpoint changes
and requests is arbitrary.

**Directory of servers.**  `PresenceBacked`, `RouteKept` and `ListedAll` are nearly
inductive; `DirInv` adds what they lean on.  A node that is not there has no
binding, and a heartbeat under way saw a binding of its node (`Backed`); what is
stored of a server lags what it was told by less than one write interval
(`BeatsFresh`), so a server is only shown offline when the last heartbeat it got an
answer to is that old (`NotDropped`, an action property); a letter under way has a
destination and a lifecycle id (`MailRouted`); a listing under way has given every
server it owes or that server lies behind its cursor (`AllListed`).  `DirBounds`:
nodes are numbered, the host is no peer, and the page and the number of pairings
are any natural numbers.

**Attachments.**  `AttInv` is `ReadyHasBytes`, `NothingLeaked` and three facts
about what is between two steps.  `RowsTrue`: what a letter has bound is ready, and
what is uploading lacks a chunk.  `DrainTrue`: the collector works off committed
tombstones, and what it has already done is gone or in use again, although a row
for the same content may have been declared meanwhile.  `WriteTrue`: the chunk that
is staged is the next one, and a published blob is on disk before its row says
ready.  `BoundForGood` and `ContentExact` are then facts about each step.  Crashes
and failing file operations may come in any number.

**Access.**  `AccessInv` has one conjunct per table of the Hub's access data.
Each generation of a session has one token, only the last is live, and only while
the session is not revoked; sessions and claims belong to people who have joined,
so neither a first invitation nor the bootstrap can give somebody a second live
session (`SessionsTrue`); a live recovery claim is a person's only
one and excludes a live session (`ClaimsTrue`); a node's grant is used and a server has one grant that counts
(`GrantsTrue`); until a team exists nobody is a member or invited, and afterwards
no bootstrap claim is left (`BootsTrue`, `PeopleTrue`).  `RevokedStaysOut` and
`AuthorityAtUse` are then facts about each step (`StaysOut`, `Authorized`).  People,
servers, rows and mishaps may be any number; `AccessBounds` asks that the host is
not one of the people who join.

## 10. What is only model-checked, and what is not modelled

Liveness (`QueueDrains`, `TurnsSettle`, `ExchangeSettles`, `TakenBackOrDone`,
`UpdateSettles`, `RestoreDecided`, `CatchesUp`, `RunsSettle`, `HubSettles`,
`PeersSettle`) is out of the prover's reach, as is anything about `ENABLED`
(`NeverStuck` is stated without it) and induction over data, so what a fold or a
recursive function returns for every input.  Checked by TLC on the instances of
section 3 only are also `RecoverySound`, `StreamsSound`, `CacheSound`, `PairingSound`, `JobsExact`,
`UpdateSound`, `RunsDelivered`, `RunsOwn`, `SessionsSound` and `HistoryWhole`.
`CacheSound` rests on folds over the entries (the bytes held, and which entries
an eviction drops), and
`HistoryWhole` on the alignment of two sequences, which is induction over data;
for the others the inductive invariant has not been written down.

Not modelled: the registry's fields that no operation above reads and the parsing
of transcripts, event subscribers and catch-up of clients, port tunnels and
terminals, the chat mailbox, provider history repair, side questions, public chat
shares, server instances.  Out of scope: provider SDKs and vendored code,
rendering and transcoding, the thin command-line clients, the read-only git
view.  The relay of agent envelopes between peers is switched off by a constant
(`agent_server.py` 1622), so `secure_peer_delivery.py` is not reached.
