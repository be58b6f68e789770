---------------------------- MODULE HubMaintenance ----------------------------
(***************************************************************************)
(* Maintenance of the Team Hub's data directory: the snapshot and fence of *)
(* a server update, the reactivation of a preserved host, the rebase of a  *)
(* snapshot under its stable name, the offline restore that swaps several  *)
(* files one rename at a time, and the start that must only ever see one   *)
(* whole generation.  Every operation holds the control lock; whoever gets *)
(* it next first finishes or undoes what a crash has left.  One step is    *)
(* one durable change of a file, a directory or a link.                    *)
(***************************************************************************)
EXTENDS Integers, FiniteSets, Sequences

CONSTANT MaxCrashes    \* processes that die, or file operations that raise

VARIABLES
  root,      \* managed name -> the generation of its content
  snaps,     \* snapshot directory -> the generation it holds
  rebase,    \* the snapshot rebase journal
  receipt,   \* the restore completion receipt
  journal,   \* the restore transaction journal
  staging,   \* the restore's staging directory, with its previous/
  handoff,   \* the host reactivation handoff
  pend,      \* the staged reactivation fence exists
  auth,      \* the startup authority file
  hub,       \* down, serve, or candidate under a fence
  ctl,       \* the operation that holds the control lock
  crashes

vars == <<root, snaps, rebase, receipt, journal, staging, handoff, pend, auth, hub, ctl, crashes>>
restoreVars == <<receipt, journal, staging>>
reactVars == <<handoff, pend>>
startVars == <<auth, hub>>

None == "none"
Digests == {"update", "rebased", "react"}
Contents == Digests \cup {"live"}
Names == {"db", "att", "proof", "wal", "fence"}
NewNames == {"db", "att", "proof"}
(* The file names in sorted order, and the order of the replacements.      *)
Sorted == <<"att", "proof", "fence", "db", "wal">>
Replacing == <<"db", "proof", "att">>
First(order, S) ==
  LET at == CHOOSE i \in DOMAIN order : order[i] \in S /\ \A j \in 1..(i - 1) : order[j] \notin S
  IN order[at]
Slots == {"upd", "react", "repl", "retired"}
Offline == {"rebase", "restore", "confirm", "ack", "prepare", "adopt", "abort", "start", "startFenced"}
Online == {"snapshot", "clear", "authorize", "unauthorize"}

Free == [op |-> None, pc |-> None]
NoDir == [there |-> FALSE, new |-> [n \in Names |-> None], prev |-> [n \in Names |-> None]]
NoJournal == [state |-> None, old |-> {}, gen |-> None]
NoReceipt == [state |-> None, gen |-> None]
NoRebase == [old |-> None, new |-> None]

Fence == root["fence"]
IsUpdate(d) == d \in {"update", "rebased"}
SlotOf(d) == IF IsUpdate(d) THEN "upd" ELSE "react"
(* The snapshot a fence names exists and has the fence's digest.           *)
Covered(d) == snaps[SlotOf(d)] = d

At(op, pc) == ctl.op = op /\ ctl.pc = pc
Goto(pc) == ctl' = [ctl EXCEPT !.pc = pc]
Done == ctl' = Free
SetRoot(n, c) == root' = [root EXCEPT ![n] = c]
SetSnap(s, c) == snaps' = [snaps EXCEPT ![s] = c]

(* The root holds exactly the generation g, and nothing else.              *)
Restored(g) ==
  /\ \A n \in NewNames : root[n] = g
  /\ root["wal"] = None /\ Fence = None

(* One generation, live or restored, never parts of two.                   *)
Whole ==
  /\ root["db"] # None /\ root["db"] = root["att"]
  /\ IF root["db"] = "live" THEN root["proof"] \in {None, "live"}
     ELSE root["proof"] = root["db"] /\ root["wal"] = None

-----------------------------------------------------------------------------
(* The control lock, and the recovery everyone runs who gets it.           *)

(* Before the lock, a start refuses a settled receipt, and a fence for     *)
(* which it has no exact authority.                                        *)
StartAsked(op) ==
  /\ (receipt.state = None \/ journal.state # None)
  /\ IF op = "start" THEN Fence = None ELSE Fence # None /\ auth = Fence

Acquire(op) ==
  /\ ctl = Free
  /\ op \in Offline => hub = "down"
  /\ op = "snapshot" => hub = "serve"
  /\ op \in {"start", "startFenced"} => StartAsked(op)
  /\ ctl' = [op |-> op, pc |-> "enter"]
  /\ UNCHANGED <<root, snaps, rebase, restoreVars, reactVars, startVars, crashes>>

Recovering == ctl.pc \in {"enter", "settle"}
Pending == rebase # NoRebase \/ journal.state # None

(* Nothing is pending: leftovers without an owner go.                      *)
Enter ==
  /\ ctl.pc = "enter" /\ ~Pending
  /\ pend' = (pend /\ handoff # None)
  /\ SetSnap("retired", None)
  /\ staging' = NoDir
  /\ Goto("body")
  /\ UNCHANGED <<root, rebase, receipt, journal, handoff, startVars, crashes>>

(* Rebase: which generation survives is read off the directories.          *)
RebaseDropNew ==
  /\ Recovering /\ rebase # NoRebase
  /\ snaps["upd"] # None /\ snaps["repl"] # None /\ snaps["retired"] = None
  /\ SetSnap("repl", None)
  /\ UNCHANGED <<root, rebase, restoreVars, reactVars, startVars, ctl, crashes>>

RebaseSwapIn ==
  /\ Recovering /\ rebase # NoRebase
  /\ snaps["upd"] = None /\ snaps["repl"] # None /\ snaps["retired"] # None
  /\ snaps' = [snaps EXCEPT !["upd"] = snaps["repl"], !["repl"] = None]
  /\ UNCHANGED <<root, rebase, restoreVars, reactVars, startVars, ctl, crashes>>

Selected == IF snaps["retired"] # None THEN rebase.new ELSE rebase.old
RebaseDecided == snaps["upd"] # None /\ snaps["repl"] = None

RebaseBind ==
  /\ Recovering /\ rebase # NoRebase /\ RebaseDecided /\ Fence # Selected
  /\ SetRoot("fence", Selected)
  /\ UNCHANGED <<snaps, rebase, restoreVars, reactVars, startVars, ctl, crashes>>

RebaseSettle ==
  /\ Recovering /\ rebase # NoRebase /\ RebaseDecided /\ Fence = Selected
  /\ rebase' = NoRebase
  /\ UNCHANGED <<root, snaps, restoreVars, reactVars, startVars, ctl, crashes>>

-----------------------------------------------------------------------------
(* An interrupted restore: prepared is undone, committed is kept.          *)

Undoing == Recovering /\ rebase = NoRebase /\ journal.state = "prepared" /\ staging.there

(* Fault: names only the new generation has stay behind.                   *)
DiscardableOld(n) == n \in journal.old /\ staging.prev[n] # None
Discardable(n) == n \notin journal.old \/ staging.prev[n] # None

(* The next name that has something to discard or to put back.             *)
ToUndo == {n \in journal.old \cup NewNames : staging.prev[n] # None \/ (root[n] # None /\ Discardable(n))}

UndoDiscard ==
  /\ Undoing /\ ToUndo # {}
  /\ LET n == First(Sorted, ToUndo) IN root[n] # None /\ SetRoot(n, None)
  /\ UNCHANGED <<snaps, rebase, restoreVars, reactVars, startVars, ctl, crashes>>

UndoPutBack ==
  /\ Undoing /\ ToUndo # {}
  /\ LET n == First(Sorted, ToUndo) IN
       /\ root[n] = None
       /\ SetRoot(n, staging.prev[n])
       /\ staging' = [staging EXCEPT !.prev = [staging.prev EXCEPT ![n] = None]]
  /\ UNCHANGED <<snaps, rebase, receipt, journal, reactVars, startVars, ctl, crashes>>

Undone == ToUndo = {}

(* The staging directory goes, then the journal; a prepared transaction    *)
(* retires its receipt last.                                               *)
DropStaging ==
  /\ Recovering /\ rebase = NoRebase /\ journal.state # None /\ staging.there
  /\ journal.state = "prepared" => Undone
  /\ staging' = NoDir
  /\ UNCHANGED <<root, snaps, rebase, receipt, journal, reactVars, startVars, ctl, crashes>>

(* Fault: a committed journal is taken for settled and left.               *)
DropJournalPrepared ==
  /\ Recovering /\ rebase = NoRebase /\ journal.state # None /\ ~staging.there
  /\ journal' = IF journal.state = "prepared" THEN NoJournal ELSE journal
  /\ ctl' = IF journal.state = "prepared" THEN [ctl EXCEPT !.pc = "retire"] ELSE Free
  /\ UNCHANGED <<root, snaps, rebase, receipt, staging, reactVars, startVars, crashes>>
DropJournal ==
  /\ Recovering /\ rebase = NoRebase /\ journal.state # None /\ ~staging.there
  /\ journal' = NoJournal
  /\ ctl' = IF journal.state = "prepared" THEN [ctl EXCEPT !.pc = "retire"] ELSE ctl
  /\ UNCHANGED <<root, snaps, rebase, receipt, staging, reactVars, startVars, crashes>>

RetireReceipt ==
  /\ ctl.pc = "retire"
  /\ receipt' = NoReceipt
  /\ Goto("enter")
  /\ UNCHANGED <<root, snaps, rebase, journal, staging, reactVars, startVars, crashes>>

-----------------------------------------------------------------------------
(* Server update: snapshot, then fence.                                    *)

SnapshotPublish ==
  /\ At("snapshot", "body") /\ Fence = None
  /\ SetSnap("upd", "update")
  /\ Goto("fence")
  /\ UNCHANGED <<root, rebase, restoreVars, reactVars, startVars, crashes>>

SnapshotFence ==
  /\ At("snapshot", "fence")
  /\ SetRoot("fence", "update")
  /\ Done
  /\ UNCHANGED <<snaps, rebase, restoreVars, reactVars, startVars, crashes>>

(* Rebase under the stable name: journal, retire, publish, settle.         *)
RebaseCopy ==
  /\ At("rebase", "body") /\ IsUpdate(Fence) /\ Covered(Fence)
  /\ SetSnap("repl", IF Fence = "update" THEN "rebased" ELSE "update")
  /\ Goto("journal")
  /\ UNCHANGED <<root, rebase, restoreVars, reactVars, startVars, crashes>>

RebaseJournal ==
  /\ At("rebase", "journal")
  /\ rebase' = [old |-> snaps["upd"], new |-> snaps["repl"]]
  /\ Goto("away")
  /\ UNCHANGED <<root, snaps, restoreVars, reactVars, startVars, crashes>>

RebaseRetire ==
  /\ At("rebase", "away")
  /\ snaps' = [snaps EXCEPT !["retired"] = snaps["upd"], !["upd"] = None]
  /\ Goto("settle")
  /\ UNCHANGED <<root, rebase, restoreVars, reactVars, startVars, crashes>>

(* An exact fence is lifted: the update or the reactivation has succeeded. *)
HandoffAllows(d, states) == d = "react" => handoff \in states \cup {None}

ClearFence ==
  /\ At("clear", "body") /\ Fence # None /\ Covered(Fence)
  /\ HandoffAllows(Fence, {"adopted"})
  /\ SetRoot("fence", None)
  /\ hub' = IF hub = "candidate" THEN "serve" ELSE hub
  /\ ctl' = IF Fence = "react" THEN [ctl EXCEPT !.pc = "handoff"] ELSE Free
  /\ UNCHANGED <<snaps, rebase, restoreVars, reactVars, auth, crashes>>

(* After the fence, the handoff that named it.                             *)
ConsumeHandoff ==
  /\ ctl.op \in {"clear", "abort"} /\ ctl.pc = "handoff"
  /\ handoff' = None
  /\ Done
  /\ UNCHANGED <<root, snaps, rebase, restoreVars, pend, startVars, crashes>>

Authorize ==
  /\ At("authorize", "body") /\ Fence # None /\ Covered(Fence)
  /\ HandoffAllows(Fence, {"adopted"})
  /\ auth' = Fence
  /\ Done
  /\ UNCHANGED <<root, snaps, rebase, restoreVars, reactVars, hub, crashes>>

Unauthorize ==
  /\ At("unauthorize", "body")
  /\ auth' = None
  /\ Done
  /\ UNCHANGED <<root, snaps, rebase, restoreVars, reactVars, hub, crashes>>

-----------------------------------------------------------------------------
(* Reactivation of a preserved host.                                       *)

(* An earlier preparation nobody adopted is taken apart first.             *)
PrepareUnstage ==
  /\ At("prepare", "body") /\ handoff = "creating" /\ pend
  /\ pend' = FALSE
  /\ UNCHANGED <<root, snaps, rebase, restoreVars, handoff, startVars, ctl, crashes>>

PrepareUnfence ==
  /\ At("prepare", "body") /\ handoff \in {"creating", "unclaimed"} /\ ~pend /\ Fence = "react"
  /\ SetRoot("fence", None)
  /\ UNCHANGED <<snaps, rebase, restoreVars, reactVars, startVars, ctl, crashes>>

PrepareForget ==
  /\ At("prepare", "body") /\ handoff # None /\ ~pend /\ Fence = None
  /\ handoff' = None
  /\ UNCHANGED <<root, snaps, rebase, restoreVars, pend, startVars, ctl, crashes>>

(* An adopted preparation is handed out again as it is.                    *)
PrepareResume ==
  /\ At("prepare", "body") /\ handoff = "adopted" /\ Fence = "react" /\ Covered(Fence)
  /\ Done
  /\ UNCHANGED <<root, snaps, rebase, restoreVars, reactVars, startVars, crashes>>

PrepareSnapshot ==
  /\ At("prepare", "body") /\ handoff = None /\ Fence = None
  /\ SetSnap("react", "react")
  /\ Goto("stage")
  /\ UNCHANGED <<root, rebase, restoreVars, reactVars, startVars, crashes>>

PrepareStage ==
  /\ At("prepare", "stage")
  /\ pend' = TRUE
  /\ Goto("handoff")
  /\ UNCHANGED <<root, snaps, rebase, restoreVars, handoff, startVars, crashes>>

PrepareHandoff ==
  /\ At("prepare", "handoff")
  /\ handoff' = "creating"
  /\ Goto("link")
  /\ UNCHANGED <<root, snaps, rebase, restoreVars, pend, startVars, crashes>>

PrepareLink ==
  /\ At("prepare", "link")
  /\ SetRoot("fence", "react")
  /\ Goto("unlink")
  /\ UNCHANGED <<snaps, rebase, restoreVars, reactVars, startVars, crashes>>

PrepareUnlink ==
  /\ At("prepare", "unlink")
  /\ pend' = FALSE
  /\ Goto("claim")
  /\ UNCHANGED <<root, snaps, rebase, restoreVars, handoff, startVars, crashes>>

PrepareClaim ==
  /\ At("prepare", "claim")
  /\ handoff' = "unclaimed"
  /\ Done
  /\ UNCHANGED <<root, snaps, rebase, restoreVars, pend, startVars, crashes>>

Adopt ==
  /\ At("adopt", "body") /\ handoff \in {"unclaimed", "adopted"} /\ Fence = "react" /\ Covered(Fence)
  /\ handoff' = "adopted"
  /\ Done
  /\ UNCHANGED <<root, snaps, rebase, restoreVars, pend, startVars, crashes>>

Abort ==
  /\ At("abort", "body") /\ Fence = "react" /\ Covered(Fence) /\ HandoffAllows(Fence, {"unclaimed"})
  /\ SetRoot("fence", None)
  /\ Goto("handoff")
  /\ UNCHANGED <<snaps, rebase, restoreVars, reactVars, startVars, crashes>>

-----------------------------------------------------------------------------
(* Restore: copy, receipt, journal, old names out, new names in, receipt,  *)
(* journal.                                                                *)

RestoreStage ==
  /\ At("restore", "body") /\ Fence # None /\ Covered(Fence)
  /\ HandoffAllows(Fence, {"adopted"})
  /\ staging' = [there |-> TRUE, new |-> [n \in Names |-> IF n \in NewNames THEN Fence ELSE None], prev |-> NoDir.prev]
  /\ Goto("receipt")
  /\ UNCHANGED <<root, snaps, rebase, receipt, journal, reactVars, startVars, crashes>>

(* A receipt of the same restore that is only prepared is adopted.         *)
ReceiptAllows == receipt.state = None \/ receipt = [state |-> "prepared", gen |-> Fence]

RestoreReceipt ==
  /\ At("restore", "receipt") /\ ReceiptAllows
  /\ receipt' = [state |-> "prepared", gen |-> Fence]
  /\ Goto("journal")
  /\ UNCHANGED <<root, snaps, rebase, journal, staging, reactVars, startVars, crashes>>

RestoreReceiptRefused ==
  /\ At("restore", "receipt") /\ ~ReceiptAllows
  /\ staging' = NoDir
  /\ Done
  /\ UNCHANGED <<root, snaps, rebase, receipt, journal, reactVars, startVars, crashes>>

RestoreJournal ==
  /\ At("restore", "journal")
  /\ journal' = [state |-> "prepared", old |-> {n \in Names : root[n] # None}, gen |-> Fence]
  /\ Goto("out")
  /\ UNCHANGED <<root, snaps, rebase, receipt, staging, reactVars, startVars, crashes>>

MovedOut == \A n \in journal.old : staging.prev[n] # None
MovedIn == \A n \in NewNames : staging.new[n] = None

RestoreOut ==
  /\ At("restore", "out") /\ ~MovedOut
  /\ LET n == First(Sorted, {m \in journal.old : staging.prev[m] = None}) IN
       /\ staging' = [staging EXCEPT !.prev = [staging.prev EXCEPT ![n] = root[n]]]
       /\ SetRoot(n, None)
  /\ UNCHANGED <<snaps, rebase, receipt, journal, reactVars, startVars, ctl, crashes>>

RestoreIn ==
  /\ At("restore", "out") /\ MovedOut /\ ~MovedIn
  /\ LET n == First(Replacing, {m \in NewNames : staging.new[m] # None}) IN
       /\ SetRoot(n, staging.new[n])
       /\ staging' = [staging EXCEPT !.new = [staging.new EXCEPT ![n] = None]]
  /\ UNCHANGED <<snaps, rebase, receipt, journal, reactVars, startVars, ctl, crashes>>

(* Fault: the journal says committed before the receipt does.              *)
CommitReceiptLate ==
  /\ At("restore", "out") /\ MovedOut /\ MovedIn /\ Restored(journal.gen)
  /\ journal' = [journal EXCEPT !.state = "committed"]
  /\ Goto("commit")
  /\ UNCHANGED <<root, snaps, rebase, receipt, staging, reactVars, startVars, crashes>>
CommitReceipt ==
  /\ At("restore", "out") /\ MovedOut /\ MovedIn /\ Restored(journal.gen)
  /\ receipt' = [receipt EXCEPT !.state = "committed"]
  /\ Goto("commit")
  /\ UNCHANGED <<root, snaps, rebase, journal, staging, reactVars, startVars, crashes>>

CommitJournal ==
  /\ At("restore", "commit")
  /\ journal' = [journal EXCEPT !.state = "committed"]
  /\ Goto("settle")
  /\ UNCHANGED <<root, snaps, rebase, receipt, staging, reactVars, startVars, crashes>>

(* The end of a rebase or of a restore; the latter consumes its handoff.   *)
Settle ==
  /\ ctl.pc = "settle" /\ ~Pending
  /\ handoff' = IF ctl.op = "restore" /\ receipt.gen = "react" THEN None ELSE handoff
  /\ SetSnap("retired", None)
  /\ Done
  /\ UNCHANGED <<root, rebase, restoreVars, pend, startVars, crashes>>

(* The restored generation is proved again, then the receipt is retired.   *)
Committed == receipt.state = "committed" /\ Covered(receipt.gen)

Confirm ==
  /\ At("confirm", "body") /\ Committed /\ Restored(receipt.gen)
  /\ HandoffAllows(receipt.gen, {"adopted"})
  /\ handoff' = IF receipt.gen = "react" THEN None ELSE handoff
  /\ Done
  /\ UNCHANGED <<root, snaps, rebase, restoreVars, pend, startVars, crashes>>

Ackable == Committed /\ Restored(receipt.gen)

Acknowledge ==
  /\ At("ack", "body") /\ Ackable
  /\ receipt' = NoReceipt
  /\ Done
  /\ UNCHANGED <<root, snaps, rebase, journal, staging, reactVars, startVars, crashes>>

-----------------------------------------------------------------------------
(* Start, stop, refusal, crash.                                            *)

Startable ==
  /\ receipt.state = None
  /\ IF ctl.op = "start" THEN Fence = None ELSE Fence # None /\ auth = Fence /\ Covered(Fence)

(* A hub that starts migrates and writes: its state is live from here on.  *)
Start ==
  /\ ctl.op \in {"start", "startFenced"} /\ ctl.pc = "body" /\ Startable
  /\ \E proof \in {None, "live"} :
       root' = [root EXCEPT !["db"] = "live", !["att"] = "live", !["wal"] = "live", !["proof"] = proof]
  /\ hub' = IF ctl.op = "start" THEN "serve" ELSE "candidate"
  /\ auth' = IF ctl.op = "start" THEN None ELSE auth
  /\ Done
  /\ UNCHANGED <<snaps, rebase, restoreVars, reactVars, crashes>>

HubStops ==
  /\ hub # "down"
  /\ hub' = "down"
  /\ \E wal \in {None, "live"} : SetRoot("wal", wal)
  /\ UNCHANGED <<snaps, rebase, restoreVars, reactVars, auth, ctl, crashes>>

Admitted(op) ==
  CASE op = "snapshot" -> Fence = None
    [] op = "rebase" -> IsUpdate(Fence) /\ Covered(Fence)
    [] op \in {"clear", "authorize", "restore"} ->
         Fence # None /\ Covered(Fence) /\ HandoffAllows(Fence, {"adopted"})
    [] op = "prepare" -> \/ handoff = None /\ Fence = None
                         \/ handoff # None /\ (pend \/ Fence = None)
                         \/ handoff # None /\ Fence = "react"
    [] op = "adopt" -> handoff \in {"unclaimed", "adopted"} /\ Fence = "react" /\ Covered(Fence)
    [] op = "abort" -> Fence = "react" /\ Covered(Fence) /\ HandoffAllows(Fence, {"unclaimed"})
    [] op = "confirm" -> Committed /\ Restored(receipt.gen) /\ HandoffAllows(receipt.gen, {"adopted"})
    [] op = "ack" -> Ackable
    [] op \in {"start", "startFenced"} -> Startable
    [] OTHER -> TRUE

Refuse ==
  /\ ctl.pc = "body" /\ ~Admitted(ctl.op)
  /\ Done
  /\ UNCHANGED <<root, snaps, rebase, restoreVars, reactVars, startVars, crashes>>

Crash ==
  /\ ctl # Free /\ crashes < MaxCrashes
  /\ crashes' = crashes + 1
  /\ Done
  /\ UNCHANGED <<root, snaps, rebase, restoreVars, reactVars, startVars>>

-----------------------------------------------------------------------------
Init ==
  /\ \E wal \in {None, "live"} :
       root = [n \in Names |-> IF n = "fence" THEN None ELSE IF n = "wal" THEN wal ELSE "live"]
  /\ snaps = [s \in Slots |-> None] /\ rebase = NoRebase
  /\ receipt = NoReceipt /\ journal = NoJournal /\ staging = NoDir
  /\ handoff = None /\ pend = FALSE /\ auth = None
  /\ hub = "down" /\ ctl = Free /\ crashes = 0

Recover ==
  \/ Enter \/ RebaseDropNew \/ RebaseSwapIn \/ RebaseBind \/ RebaseSettle
  \/ DropStaging \/ DropJournal \/ RetireReceipt
  \/ UndoDiscard \/ UndoPutBack

Work ==
  \/ SnapshotPublish \/ SnapshotFence \/ RebaseCopy \/ RebaseJournal \/ RebaseRetire
  \/ ClearFence \/ ConsumeHandoff \/ Authorize \/ Unauthorize
  \/ PrepareUnstage \/ PrepareUnfence \/ PrepareForget \/ PrepareResume \/ PrepareSnapshot
  \/ PrepareStage \/ PrepareHandoff \/ PrepareLink \/ PrepareUnlink \/ PrepareClaim
  \/ Adopt \/ Abort
  \/ RestoreStage \/ RestoreReceipt \/ RestoreReceiptRefused \/ RestoreJournal
  \/ RestoreOut \/ RestoreIn
  \/ CommitReceipt \/ CommitJournal \/ Settle \/ Confirm \/ Acknowledge \/ Start \/ Refuse

Ask == \E op \in Offline \cup Online : Acquire(op)

Next == Ask \/ Recover \/ Work \/ HubStops \/ Crash

Spec == Init /\ [][Next]_vars

(* The holder of the lock goes on, and the installer asks again.           *)
FairSpec == Spec /\ WF_vars(Recover) /\ WF_vars(Work) /\ WF_vars(Ask)

-----------------------------------------------------------------------------
(* Shapes of the files and of the control record.                          *)
TypeOK ==
  /\ root \in [Names -> Contents \cup {None}] /\ snaps \in [Slots -> Digests \cup {None}]
  /\ rebase \in {NoRebase} \cup [old : Digests, new : Digests]
  /\ receipt \in {NoReceipt} \cup [state : {"prepared", "committed"}, gen : Digests]
  /\ journal \in {NoJournal} \cup [state : {"prepared", "committed"}, old : SUBSET Names, gen : Digests]
  /\ DOMAIN staging = {"there", "new", "prev"} /\ staging.there \in BOOLEAN
  /\ handoff \in {None, "creating", "unclaimed", "adopted"} /\ pend \in BOOLEAN
  /\ auth \in Digests \cup {None} /\ hub \in {"down", "serve", "candidate"}
  /\ ctl.op \in Offline \cup Online \cup {None}

(* Outside a transaction the directory holds one whole generation, however *)
(* often a restore and its recovery were cut off.                          *)
AllOrNothing == journal.state = None => Whole

(* Recovery is never stuck: with a journal there is always its receipt,    *)
(* and every old name is still somewhere, or the new generation is         *)
(* complete.  (The error branches of recovery are unreachable.)            *)
RecoveryCanFinish ==
  /\ journal.state # None => receipt.state # None /\ receipt.gen = journal.gen
  /\ journal.state = "prepared" =>
       IF staging.there THEN \A n \in journal.old : root[n] # None \/ staging.prev[n] # None
       ELSE \A n \in Names : (n \in journal.old) = (root[n] # None)
  /\ journal.state = "committed" => receipt.state = "committed" /\ Restored(journal.gen)

(* The rebase journal always finds one of the layouts it can decide, with  *)
(* the right generation under each name, and its fence.                    *)
RebaseCanFinish ==
  rebase # NoRebase =>
    /\ IsUpdate(Fence)
    /\ \/ snaps["upd"] = rebase.old /\ snaps["retired"] = None
       \/ snaps["retired"] = rebase.old /\ {snaps["upd"], snaps["repl"]} = {None, rebase.new}

(* A fence always names a snapshot that is there and is the one it         *)
(* recorded: the way back stays open while maintenance lasts.              *)
FenceHasSnapshot == Fence # None /\ rebase = NoRebase => Covered(Fence)

(* A reactivation fence has an owner through which it can be lifted.       *)
FenceHasOwner == Fence = "react" => handoff # None

(* A hub only ever starts on one whole generation whose rollback, if there *)
(* was one, the installer has acknowledged.                                *)
StartsSettled ==
  [][hub = "down" /\ hub' # "down" => Whole /\ journal.state = None /\ receipt.state = None]_vars

(* The receipt goes only with the truth: the snapshot is in place, or the  *)
(* old generation is back behind its fence.                                *)
ReceiptTruthful ==
  [][receipt.state # None /\ receipt'.state = None =>
       Restored(receipt.gen) \/ (Whole /\ Fence = receipt.gen)]_vars

(* An interrupted restore is decided, one way or the other.                *)
RestoreDecided == journal.state # None ~> journal.state = None

(* The hub starts on one whole generation of its files, and the receipt says  *)
(* which (restore_maintenance_snapshot,                                       *)
(* _recover_interrupted_restore_unlocked).                                    *)
OneGeneration ==
  /\ [](TypeOK /\ AllOrNothing)
  /\ StartsSettled
  /\ ReceiptTruthful

(* Whatever a crash left, a journal, a fence or a handoff finds what its      *)
(* recovery needs (_recover_interrupted_restore_unlocked,                     *)
(* rebase_maintenance_snapshot, prepare_managed_host_reactivation).  It says  *)
(* nothing of a receipt that has lost its journal.  A crash between the       *)
(* commit of the receipt and of the journal, and another between the two      *)
(* removals that end the undo, leave a committed receipt beside the old       *)
(* generation: this model reaches it, and no command takes that receipt away. *)
NeverStuck ==
  /\ RecoveryCanFinish
  /\ RebaseCanFinish
  /\ FenceHasSnapshot
  /\ FenceHasOwner

===============================================================================
