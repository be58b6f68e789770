-------------------------- MODULE MaintenanceProofs --------------------------
(***************************************************************************)
(* Proofs about the maintenance of the hub's data directory                 *)
(* (HubMaintenance), for any number of crashes: whatever a crash leaves of  *)
(* a restore, a rebase or a reactivation can be finished or undone, and the *)
(* hub starts on one whole generation of its files only.                    *)
(***************************************************************************)
EXTENDS HubMaintenance, TLAPS

Held == Contents \cup {None}
Places == {None, "enter", "body", "settle", "retire", "fence", "journal", "away", "handoff",
           "stage", "link", "unlink", "claim", "receipt", "out", "commit"}

(* The shapes of TypeOK, with those of the staging directory and the lock.  *)
Types ==
  /\ root \in [Names -> Held] /\ Fence \in Digests \cup {None} /\ snaps \in [Slots -> Digests \cup {None}]
  /\ rebase \in {NoRebase} \cup [old : Digests, new : Digests]
  /\ receipt \in {NoReceipt} \cup [state : {"prepared", "committed"}, gen : Digests]
  /\ journal \in {NoJournal} \cup [state : {"prepared", "committed"}, old : SUBSET Names, gen : Digests]
  /\ staging \in [there : BOOLEAN, new : [Names -> Held], prev : [Names -> Held]]
  /\ handoff \in {None, "creating", "unclaimed", "adopted"} /\ pend \in BOOLEAN
  /\ auth \in Digests \cup {None} /\ hub \in {"down", "serve", "candidate"}
  /\ ctl \in [op : Offline \cup Online \cup {None}, pc : Places]

(* Which operation is where; whose journals may be pending there; and that  *)
(* a running hub excludes the operations that need it down.                 *)
Lock ==
  /\ ctl.pc = None <=> ctl.op = None
  /\ ctl.pc = "settle" => ctl.op \in {"rebase", "restore"}
  /\ ctl.pc \in {"receipt", "out", "commit"} => ctl.op = "restore"
  /\ ctl.pc = "journal" => ctl.op \in {"rebase", "restore"}
  /\ ctl.pc = "away" => ctl.op = "rebase" /\ rebase # NoRebase
  /\ ctl.pc = "fence" => ctl.op = "snapshot"
  /\ ctl.pc \in {"stage", "link", "unlink", "claim"} => ctl.op = "prepare"
  /\ ctl.pc = "handoff" => ctl.op \in {"prepare", "clear", "abort"}
  /\ rebase # NoRebase => /\ journal = NoJournal /\ ctl.pc \in {None, "enter", "settle", "away"}
                          /\ ctl.pc = "settle" => ctl.op = "rebase"
  /\ journal # NoJournal => /\ ctl.pc \in {None, "enter", "settle", "out", "commit"}
                            /\ ctl.pc = "settle" => ctl.op = "restore" /\ journal.state = "committed"
  /\ ctl.pc \in {"out", "commit"} => journal.state = "prepared" /\ staging.there

HubTrue ==
  /\ ctl.op \in Offline => hub = "down"
  /\ hub # "down" => /\ rebase = NoRebase /\ journal = NoJournal
                     /\ root["db"] = "live" /\ root["att"] = "live" /\ root["proof"] \in {None, "live"}

(* A rebase is in one of its layouts, and so is what leads up to it.        *)
Rebasing ==
  /\ rebase # NoRebase => IsUpdate(rebase.old) /\ IsUpdate(rebase.new)
  /\ RebaseCanFinish
  /\ ctl.op = "rebase" /\ ctl.pc = "journal" =>
       /\ IsUpdate(Fence) /\ snaps["upd"] = Fence
       /\ IsUpdate(snaps["repl"]) /\ snaps["retired"] = None
  /\ ctl.pc = "away" =>
       snaps["upd"] = rebase.old /\ snaps["repl"] = rebase.new /\ snaps["retired"] = None
  /\ ctl.pc = "body" => snaps["retired"] = None

(* A fence has its snapshot and its owner, and who is about to write or to  *)
(* forget one has what that takes.                                          *)
Fencing ==
  /\ FenceHasSnapshot /\ FenceHasOwner
  /\ ctl.pc = "fence" => Fence = None /\ snaps["upd"] = "update"
  /\ ctl.op = "prepare" /\ ctl.pc \in {"stage", "handoff", "link"} => Fence = None /\ snaps["react"] = "react"
  /\ ctl.pc = "link" => handoff = "creating"
  /\ ctl.op \in {"clear", "abort"} /\ ctl.pc = "handoff" => Fence = None

(* What a managed name held when the restore began.                         *)
Old(n) == IF n \notin journal.old THEN None ELSE IF staging.prev[n] # None THEN staging.prev[n] ELSE root[n]

(* The generation that a prepared restore replaces is whole, wherever its   *)
(* names are, and what has taken their place is of the new one.             *)
OldWhole ==
  /\ Old("db") # None /\ Old("db") = Old("att")
  /\ Old("db") = "live" => Old("proof") \in {None, "live"}
  /\ Old("db") # "live" => Old("proof") = Old("db") /\ Old("wal") = None
  /\ Old("fence") = journal.gen
Layout ==
  /\ \A n \in journal.old : root[n] # None \/ staging.prev[n] # None
  /\ \A n \in Names \ journal.old : staging.prev[n] = None
  /\ \A n \in Names : n \notin journal.old \/ staging.prev[n] # None =>
       root[n] = None \/ (n \in NewNames /\ root[n] = journal.gen)
  /\ ~staging.there => \A n \in Names : staging.prev[n] = None /\ (n \notin journal.old => root[n] = None)

(* A pending restore has its receipt, its snapshot and its owner.           *)
Restoring ==
  /\ journal.state # None => receipt.state # None /\ receipt.gen = journal.gen /\ Covered(journal.gen)
  /\ journal.state = "prepared" =>
       OldWhole /\ Layout /\ (journal.gen = "react" => handoff # None)
  /\ journal.state = "committed" => receipt.state = "committed" /\ Restored(journal.gen)

(* What a restore has done so far.                                          *)
RestoreSteps ==
  /\ ctl.op = "restore" /\ ctl.pc \in {"receipt", "journal"} =>
       /\ Fence # None /\ staging.there
       /\ \A n \in Names : staging.prev[n] = None
       /\ \A n \in NewNames : staging.new[n] = Fence
  /\ ctl.op = "restore" /\ ctl.pc = "journal" => receipt.state = "prepared" /\ receipt.gen = Fence
  /\ ctl.pc = "out" => \A n \in NewNames : staging.new[n] \in {None, journal.gen}
  /\ ctl.pc = "commit" => receipt.state = "committed" /\ Restored(journal.gen)
  /\ ctl.op = "restore" /\ ctl.pc = "settle" => receipt.state = "committed" /\ Restored(receipt.gen)
  /\ ctl.pc = "retire" => Whole /\ Fence = receipt.gen

MaintInv ==
  /\ Types /\ Lock /\ HubTrue /\ Rebasing /\ Fencing /\ Restoring /\ RestoreSteps /\ AllOrNothing

(* What a step may do to a hub that is down, and to a receipt.              *)
Lawful ==
  /\ hub = "down" /\ hub' # "down" => Whole /\ journal.state = None /\ receipt.state = None
  /\ receipt.state # None /\ receipt'.state = None =>
       Restored(receipt.gen) \/ (Whole /\ Fence = receipt.gen)

Good == MaintInv' /\ Lawful

USE DEF None, Digests, Contents, Names, NewNames, Slots, Offline, Online, Held, Places, Free, NoDir,
        NoJournal, NoReceipt, NoRebase, Fence, IsUpdate, SlotOf, Covered, At, Goto, Done, SetRoot, SetSnap,
        restoreVars, reactVars, startVars


-----------------------------------------------------------------------------
(* The first name of a list that a set has is one of the set.               *)
LEMMA FirstSorted ==
  ASSUME NEW S \in SUBSET Names, S # {}
  PROVE  First(Sorted, S) \in S
<1>1. DOMAIN Sorted = 1 .. 5
  BY DEF Sorted
<1>2. \E i \in DOMAIN Sorted : Sorted[i] \in S /\ \A j \in 1 .. (i - 1) : Sorted[j] \notin S
  <2>1. CASE Sorted[1] \in S BY <2>1, <1>1
  <2>2. CASE Sorted[1] \notin S /\ Sorted[2] \in S BY <2>2, <1>1
  <2>3. CASE Sorted[1] \notin S /\ Sorted[2] \notin S /\ Sorted[3] \in S BY <2>3, <1>1
  <2>4. CASE Sorted[1] \notin S /\ Sorted[2] \notin S /\ Sorted[3] \notin S /\ Sorted[4] \in S BY <2>4, <1>1
  <2>5. CASE Sorted[1] \notin S /\ Sorted[2] \notin S /\ Sorted[3] \notin S /\ Sorted[4] \notin S /\ Sorted[5] \in S
    BY <2>5, <1>1
  <2>6. Sorted[1] = "att" /\ Sorted[2] = "proof" /\ Sorted[3] = "fence" /\ Sorted[4] = "db" /\ Sorted[5] = "wal"
    BY DEF Sorted
  <2> QED BY <2>1, <2>2, <2>3, <2>4, <2>5, <2>6
<1> QED BY <1>2 DEF First

LEMMA FirstReplacing ==
  ASSUME NEW S \in SUBSET NewNames, S # {}
  PROVE  First(Replacing, S) \in S
<1>1. DOMAIN Replacing = 1 .. 3
  BY DEF Replacing
<1>2. \E i \in DOMAIN Replacing : Replacing[i] \in S /\ \A j \in 1 .. (i - 1) : Replacing[j] \notin S
  <2>1. CASE Replacing[1] \in S BY <2>1, <1>1
  <2>2. CASE Replacing[1] \notin S /\ Replacing[2] \in S BY <2>2, <1>1
  <2>3. CASE Replacing[1] \notin S /\ Replacing[2] \notin S /\ Replacing[3] \in S BY <2>3, <1>1
  <2>4. Replacing[1] = "db" /\ Replacing[2] = "proof" /\ Replacing[3] = "att"
    BY DEF Replacing
  <2> QED BY <2>1, <2>2, <2>3, <2>4
<1> QED BY <1>2 DEF First


LEMMA AcquireGood ==
  ASSUME MaintInv, NEW op \in Offline \cup Online, Acquire(op)
  PROVE  Good
<1>1. Types'
  BY DEF MaintInv, Types, Acquire
<1>2. Lock' /\ HubTrue'
  BY DEF MaintInv, Types, Lock, HubTrue, Acquire
<1>3. Rebasing' /\ Fencing'
  BY DEF MaintInv, Types, Lock, Rebasing, RebaseCanFinish, Fencing, FenceHasSnapshot,
         FenceHasOwner, Acquire
<1>4. Restoring' /\ RestoreSteps' /\ AllOrNothing'
  BY DEF MaintInv, Types, Lock, Restoring, OldWhole, Old, Layout, RestoreSteps, Restored,
         AllOrNothing, Whole, Acquire
<1>5. Lawful
  BY DEF MaintInv, Types, Lawful, Acquire
<1> QED BY <1>1, <1>2, <1>3, <1>4, <1>5 DEF Good, MaintInv

LEMMA EnterGood ==
  ASSUME MaintInv, Enter
  PROVE  Good
<1>1. Types'
  BY DEF MaintInv, Types, Enter, Pending
<1>2. Lock' /\ HubTrue'
  BY DEF MaintInv, Types, Lock, HubTrue, Enter, Pending
<1>3. Rebasing' /\ Fencing'
  BY DEF MaintInv, Types, Lock, Rebasing, RebaseCanFinish, Fencing, FenceHasSnapshot,
         FenceHasOwner, Enter, Pending
<1>4. Restoring' /\ RestoreSteps' /\ AllOrNothing'
  BY DEF MaintInv, Types, Lock, Restoring, OldWhole, Old, Layout, RestoreSteps, Restored,
         AllOrNothing, Whole, Enter, Pending
<1>5. Lawful
  BY DEF MaintInv, Types, Lawful, Enter, Pending
<1> QED BY <1>1, <1>2, <1>3, <1>4, <1>5 DEF Good, MaintInv

LEMMA RebaseDropNewGood ==
  ASSUME MaintInv, RebaseDropNew
  PROVE  Good
<1>1. Types'
  BY DEF MaintInv, Types, RebaseDropNew, Recovering
<1>2. Lock' /\ HubTrue'
  BY DEF MaintInv, Types, Lock, HubTrue, RebaseDropNew, Recovering
<1>3. Rebasing' /\ Fencing'
  BY DEF MaintInv, Types, Lock, Rebasing, RebaseCanFinish, Fencing, FenceHasSnapshot,
         FenceHasOwner, RebaseDropNew, Recovering
<1>4. Restoring' /\ RestoreSteps' /\ AllOrNothing'
  BY DEF MaintInv, Types, Lock, Restoring, OldWhole, Old, Layout, RestoreSteps, Restored,
         AllOrNothing, Whole, RebaseDropNew, Recovering
<1>5. Lawful
  BY DEF MaintInv, Types, Lawful, RebaseDropNew, Recovering
<1> QED BY <1>1, <1>2, <1>3, <1>4, <1>5 DEF Good, MaintInv

LEMMA RebaseSwapInGood ==
  ASSUME MaintInv, RebaseSwapIn
  PROVE  Good
<1>1. Types'
  BY DEF MaintInv, Types, RebaseSwapIn, Recovering
<1>2. Lock' /\ HubTrue'
  BY DEF MaintInv, Types, Lock, HubTrue, RebaseSwapIn, Recovering
<1>3. Rebasing' /\ Fencing'
  BY DEF MaintInv, Types, Lock, Rebasing, RebaseCanFinish, Fencing, FenceHasSnapshot,
         FenceHasOwner, RebaseSwapIn, Recovering
<1>4. Restoring' /\ RestoreSteps' /\ AllOrNothing'
  BY DEF MaintInv, Types, Lock, Restoring, OldWhole, Old, Layout, RestoreSteps, Restored,
         AllOrNothing, Whole, RebaseSwapIn, Recovering
<1>5. Lawful
  BY DEF MaintInv, Types, Lawful, RebaseSwapIn, Recovering
<1> QED BY <1>1, <1>2, <1>3, <1>4, <1>5 DEF Good, MaintInv

LEMMA RebaseBindGood ==
  ASSUME MaintInv, RebaseBind
  PROVE  Good
<1>1. Types'
  BY DEF MaintInv, Types, RebaseBind, Recovering, RebaseDecided, Selected
<1>2. Lock' /\ HubTrue'
  BY DEF MaintInv, Types, Lock, HubTrue, RebaseBind, Recovering, RebaseDecided, Selected
<1>3. Rebasing' /\ Fencing'
  BY DEF MaintInv, Types, Lock, Rebasing, RebaseCanFinish, Fencing, FenceHasSnapshot,
         FenceHasOwner, RebaseBind, Recovering, RebaseDecided, Selected
<1>4. Restoring' /\ RestoreSteps' /\ AllOrNothing'
  BY DEF MaintInv, Types, Lock, Restoring, OldWhole, Old, Layout, RestoreSteps, Restored,
         AllOrNothing, Whole, RebaseBind, Recovering, RebaseDecided, Selected
<1>5. Lawful
  BY DEF MaintInv, Types, Lawful, RebaseBind, Recovering, RebaseDecided, Selected
<1> QED BY <1>1, <1>2, <1>3, <1>4, <1>5 DEF Good, MaintInv

LEMMA RebaseSettleGood ==
  ASSUME MaintInv, RebaseSettle
  PROVE  Good
<1>1. Types'
  BY DEF MaintInv, Types, RebaseSettle, Recovering, RebaseDecided, Selected
<1>2. Lock' /\ HubTrue'
  BY DEF MaintInv, Types, Lock, HubTrue, RebaseSettle, Recovering, RebaseDecided, Selected
<1>3. Rebasing' /\ Fencing'
  BY DEF MaintInv, Types, Lock, Rebasing, RebaseCanFinish, Fencing, FenceHasSnapshot,
         FenceHasOwner, RebaseSettle, Recovering, RebaseDecided, Selected
<1>4. Restoring' /\ RestoreSteps' /\ AllOrNothing'
  BY DEF MaintInv, Types, Lock, Restoring, OldWhole, Old, Layout, RestoreSteps, Restored,
         AllOrNothing, Whole, RebaseSettle, Recovering, RebaseDecided, Selected
<1>5. Lawful
  BY DEF MaintInv, Types, Lawful, RebaseSettle, Recovering, RebaseDecided, Selected
<1> QED BY <1>1, <1>2, <1>3, <1>4, <1>5 DEF Good, MaintInv

LEMMA UndoDiscardGood ==
  ASSUME MaintInv, UndoDiscard
  PROVE  Good
<1> DEFINE n == First(Sorted, ToUndo)
<1>1. /\ journal.state = "prepared" /\ staging.there /\ rebase = NoRebase /\ ctl.pc \in {"enter", "settle"}
      /\ journal.old \in SUBSET Names /\ staging.prev \in [Names -> Held] /\ root \in [Names -> Held]
  BY DEF MaintInv, Types, UndoDiscard, Undoing, Recovering
<1>2. n \in ToUndo
  BY <1>1, FirstSorted DEF UndoDiscard, ToUndo
<1>3. n \in Names /\ (n \notin journal.old \/ staging.prev[n] # None)
  BY <1>1, <1>2 DEF ToUndo, Discardable
<1>4. root' = [root EXCEPT ![n] = None]
      /\ UNCHANGED <<snaps, rebase, restoreVars, reactVars, startVars, ctl, crashes>>
  BY DEF UndoDiscard
<1> HIDE DEF n
<1>5. Types'
  BY <1>1, <1>3, <1>4 DEF MaintInv, Types
<1>6. Lock' /\ HubTrue'
  BY <1>1, <1>3, <1>4 DEF MaintInv, Types, Lock, HubTrue
<1>7. Rebasing' /\ Fencing'
  BY <1>1, <1>3, <1>4 DEF MaintInv, Types, Lock, Rebasing, RebaseCanFinish, Fencing, FenceHasSnapshot, FenceHasOwner
<1>8. OldWhole' /\ Layout'
  <2>1. \A k \in Names : k # n => root'[k] = root[k]
    BY <1>1, <1>3, <1>4
  <2>2. root'[n] = None
    BY <1>1, <1>3, <1>4
  <2>3. \A k \in Names : Old(k)' = Old(k)
    BY <1>3, <1>4, <2>1, <2>2 DEF Old
  <2>4. OldWhole'
    BY <1>1, <1>4, <2>3 DEF MaintInv, Restoring, OldWhole
  <2>5. Layout'
    BY <1>1, <1>3, <1>4, <2>1, <2>2 DEF MaintInv, Restoring, Layout
  <2> QED BY <2>4, <2>5
<1>9. Restoring' /\ RestoreSteps' /\ AllOrNothing'
  BY <1>1, <1>3, <1>4, <1>8 DEF MaintInv, Types, Lock, Restoring, RestoreSteps, AllOrNothing
<1>10. Lawful
  BY <1>1, <1>4 DEF MaintInv, Types, Lawful
<1> QED BY <1>5, <1>6, <1>7, <1>9, <1>10 DEF Good, MaintInv

LEMMA UndoPutBackGood ==
  ASSUME MaintInv, UndoPutBack
  PROVE  Good
<1> DEFINE n == First(Sorted, ToUndo)
<1>1. /\ journal.state = "prepared" /\ staging.there /\ rebase = NoRebase /\ ctl.pc \in {"enter", "settle"}
      /\ journal.old \in SUBSET Names /\ staging.prev \in [Names -> Held] /\ root \in [Names -> Held]
  BY DEF MaintInv, Types, UndoPutBack, Undoing, Recovering
<1>2. n \in ToUndo
  BY <1>1, FirstSorted DEF UndoPutBack, ToUndo
<1>3. n \in Names /\ root[n] = None /\ staging.prev[n] # None
  BY <1>1, <1>2 DEF UndoPutBack, ToUndo
<1>4. /\ root' = [root EXCEPT ![n] = staging.prev[n]]
      /\ staging' = [staging EXCEPT !.prev = [staging.prev EXCEPT ![n] = None]]
      /\ UNCHANGED <<snaps, rebase, receipt, journal, reactVars, startVars, ctl, crashes>>
  BY DEF UndoPutBack
<1>11. /\ staging' \in [there : BOOLEAN, new : [Names -> Held], prev : [Names -> Held]]
      /\ staging'.there /\ staging'.new = staging.new
      /\ staging'.prev = [staging.prev EXCEPT ![n] = None]
  BY <1>1, <1>3, <1>4 DEF MaintInv, Types
<1> HIDE DEF n
<1>12. n = "fence" => staging.prev[n] = journal.gen /\ journal.gen \in Digests
  BY <1>1, <1>3 DEF MaintInv, Types, Restoring, OldWhole, Layout, Old
<1>5. Types'
  BY <1>1, <1>3, <1>4, <1>11, <1>12 DEF MaintInv, Types
<1>6. Lock' /\ HubTrue'
  BY <1>1, <1>3, <1>4, <1>11 DEF MaintInv, Types, Lock, HubTrue
<1>7. Rebasing' /\ Fencing'
  BY <1>1, <1>3, <1>4, <1>11, <1>12
  DEF MaintInv, Types, Lock, Rebasing, RebaseCanFinish, Fencing, FenceHasSnapshot, FenceHasOwner, Restoring
<1>8. OldWhole' /\ Layout'
  <2>1. \A k \in Names : k # n => root'[k] = root[k] /\ staging'.prev[k] = staging.prev[k]
    BY <1>1, <1>3, <1>4, <1>11
  <2>2. root'[n] = staging.prev[n] /\ staging'.prev[n] = None
    BY <1>1, <1>3, <1>4, <1>11
  <2>3. \A k \in Names : Old(k)' = Old(k)
    BY <1>1, <1>3, <1>4, <2>1, <2>2 DEF MaintInv, Restoring, Layout, Old
  <2>4. OldWhole'
    BY <1>1, <1>4, <2>3 DEF MaintInv, Restoring, OldWhole
  <2>5. Layout'
    BY <1>1, <1>3, <1>4, <1>11, <2>1, <2>2 DEF MaintInv, Restoring, Layout
  <2> QED BY <2>4, <2>5
<1>9. Restoring' /\ RestoreSteps' /\ AllOrNothing'
  BY <1>1, <1>3, <1>4, <1>11, <1>8 DEF MaintInv, Types, Lock, Restoring, RestoreSteps, AllOrNothing
<1>10. Lawful
  BY <1>1, <1>4 DEF MaintInv, Types, Lawful
<1> QED BY <1>5, <1>6, <1>7, <1>9, <1>10 DEF Good, MaintInv

LEMMA DropStagingGood ==
  ASSUME MaintInv, DropStaging
  PROVE  Good
<1>1. Types'
  BY DEF MaintInv, Types, DropStaging, Recovering, Undone, ToUndo, Discardable
<1>2. Lock' /\ HubTrue'
  BY DEF MaintInv, Types, Lock, HubTrue, DropStaging, Recovering, Undone, ToUndo, Discardable
<1>3. Rebasing' /\ Fencing'
  BY DEF MaintInv, Types, Lock, Rebasing, RebaseCanFinish, Fencing, FenceHasSnapshot,
         FenceHasOwner, DropStaging, Recovering, Undone, ToUndo, Discardable
<1>4. Restoring' /\ RestoreSteps' /\ AllOrNothing'
  BY DEF MaintInv, Types, Lock, Restoring, OldWhole, Old, Layout, RestoreSteps, Restored,
         AllOrNothing, Whole, DropStaging, Recovering, Undone, ToUndo, Discardable
<1>5. Lawful
  BY DEF MaintInv, Types, Lawful, DropStaging, Recovering, Undone, ToUndo, Discardable
<1> QED BY <1>1, <1>2, <1>3, <1>4, <1>5 DEF Good, MaintInv

LEMMA DropJournalGood ==
  ASSUME MaintInv, DropJournal
  PROVE  Good
<1>1. Types'
  BY DEF MaintInv, Types, DropJournal, Recovering
<1>2. Lock' /\ HubTrue'
  BY DEF MaintInv, Types, Lock, HubTrue, DropJournal, Recovering
<1>3. Rebasing' /\ Fencing'
  BY DEF MaintInv, Types, Lock, Rebasing, RebaseCanFinish, Fencing, FenceHasSnapshot,
         FenceHasOwner, DropJournal, Recovering
<1>4. Restoring' /\ RestoreSteps' /\ AllOrNothing'
  BY DEF MaintInv, Types, Lock, Restoring, OldWhole, Old, Layout, RestoreSteps, Restored,
         AllOrNothing, Whole, DropJournal, Recovering
<1>5. Lawful
  BY DEF MaintInv, Types, Lawful, DropJournal, Recovering
<1> QED BY <1>1, <1>2, <1>3, <1>4, <1>5 DEF Good, MaintInv

LEMMA RetireReceiptGood ==
  ASSUME MaintInv, RetireReceipt
  PROVE  Good
<1>1. Types'
  BY DEF MaintInv, Types, RetireReceipt
<1>2. Lock' /\ HubTrue'
  BY DEF MaintInv, Types, Lock, HubTrue, RetireReceipt
<1>3. Rebasing' /\ Fencing'
  BY DEF MaintInv, Types, Lock, Rebasing, RebaseCanFinish, Fencing, FenceHasSnapshot,
         FenceHasOwner, RetireReceipt
<1>4. Restoring' /\ RestoreSteps' /\ AllOrNothing'
  BY DEF MaintInv, Types, Lock, Restoring, OldWhole, Old, Layout, RestoreSteps, Restored,
         AllOrNothing, Whole, RetireReceipt
<1>5. Lawful
  BY DEF MaintInv, Types, Lock, RestoreSteps, AllOrNothing, Lawful, RetireReceipt
<1> QED BY <1>1, <1>2, <1>3, <1>4, <1>5 DEF Good, MaintInv

LEMMA SnapshotPublishGood ==
  ASSUME MaintInv, SnapshotPublish
  PROVE  Good
<1>1. Types'
  BY DEF MaintInv, Types, SnapshotPublish
<1>2. Lock' /\ HubTrue'
  BY DEF MaintInv, Types, Lock, HubTrue, SnapshotPublish
<1>3. Rebasing' /\ Fencing'
  BY DEF MaintInv, Types, Lock, Rebasing, RebaseCanFinish, Fencing, FenceHasSnapshot,
         FenceHasOwner, SnapshotPublish
<1>4. Restoring' /\ RestoreSteps' /\ AllOrNothing'
  BY DEF MaintInv, Types, Lock, Restoring, OldWhole, Old, Layout, RestoreSteps, Restored,
         AllOrNothing, Whole, SnapshotPublish
<1>5. Lawful
  BY DEF MaintInv, Types, Lawful, SnapshotPublish
<1> QED BY <1>1, <1>2, <1>3, <1>4, <1>5 DEF Good, MaintInv

LEMMA SnapshotFenceGood ==
  ASSUME MaintInv, SnapshotFence
  PROVE  Good
<1>1. Types'
  BY DEF MaintInv, Types, SnapshotFence
<1>2. Lock' /\ HubTrue'
  BY DEF MaintInv, Types, Lock, HubTrue, SnapshotFence
<1>3. Rebasing' /\ Fencing'
  BY DEF MaintInv, Types, Lock, Rebasing, RebaseCanFinish, Fencing, FenceHasSnapshot,
         FenceHasOwner, SnapshotFence
<1>4. Restoring' /\ RestoreSteps' /\ AllOrNothing'
  BY DEF MaintInv, Types, Lock, Restoring, OldWhole, Old, Layout, RestoreSteps, Restored,
         AllOrNothing, Whole, SnapshotFence
<1>5. Lawful
  BY DEF MaintInv, Types, Lawful, SnapshotFence
<1> QED BY <1>1, <1>2, <1>3, <1>4, <1>5 DEF Good, MaintInv

LEMMA RebaseCopyGood ==
  ASSUME MaintInv, RebaseCopy
  PROVE  Good
<1>1. Types'
  BY DEF MaintInv, Types, RebaseCopy
<1>2. Lock' /\ HubTrue'
  BY DEF MaintInv, Types, Lock, HubTrue, RebaseCopy
<1>3. Rebasing' /\ Fencing'
  BY DEF MaintInv, Types, Lock, Rebasing, RebaseCanFinish, Fencing, FenceHasSnapshot,
         FenceHasOwner, RebaseCopy
<1>4. Restoring' /\ RestoreSteps' /\ AllOrNothing'
  BY DEF MaintInv, Types, Lock, Restoring, OldWhole, Old, Layout, RestoreSteps, Restored,
         AllOrNothing, Whole, RebaseCopy
<1>5. Lawful
  BY DEF MaintInv, Types, Lawful, RebaseCopy
<1> QED BY <1>1, <1>2, <1>3, <1>4, <1>5 DEF Good, MaintInv

LEMMA RebaseJournalGood ==
  ASSUME MaintInv, RebaseJournal
  PROVE  Good
<1>1. Types'
  BY DEF MaintInv, Types, Lock, Rebasing, RebaseCanFinish, RebaseJournal
<1>2. Lock' /\ HubTrue'
  BY DEF MaintInv, Types, Lock, HubTrue, Rebasing, RestoreSteps, Restored, Restoring,
         RebaseJournal
<1>3. Rebasing' /\ Fencing'
  BY DEF MaintInv, Types, Lock, Rebasing, RebaseCanFinish, Fencing, FenceHasSnapshot,
         FenceHasOwner, RebaseJournal
<1>4. Restoring' /\ RestoreSteps' /\ AllOrNothing'
  BY DEF MaintInv, Types, Lock, Restoring, OldWhole, Old, Layout, RestoreSteps, Restored,
         AllOrNothing, Whole, RebaseJournal
<1>5. Lawful
  BY DEF MaintInv, Types, Lawful, RebaseJournal
<1> QED BY <1>1, <1>2, <1>3, <1>4, <1>5 DEF Good, MaintInv

LEMMA RebaseRetireGood ==
  ASSUME MaintInv, RebaseRetire
  PROVE  Good
<1>1. Types'
  BY DEF MaintInv, Types, RebaseRetire
<1>2. Lock' /\ HubTrue'
  BY DEF MaintInv, Types, Lock, HubTrue, RebaseRetire
<1>3. Rebasing' /\ Fencing'
  BY DEF MaintInv, Types, Lock, Rebasing, RebaseCanFinish, Fencing, FenceHasSnapshot,
         FenceHasOwner, RebaseRetire
<1>4. Restoring' /\ RestoreSteps' /\ AllOrNothing'
  BY DEF MaintInv, Types, Lock, Restoring, OldWhole, Old, Layout, RestoreSteps, Restored,
         AllOrNothing, Whole, RebaseRetire
<1>5. Lawful
  BY DEF MaintInv, Types, Lawful, RebaseRetire
<1> QED BY <1>1, <1>2, <1>3, <1>4, <1>5 DEF Good, MaintInv

LEMMA ClearFenceGood ==
  ASSUME MaintInv, ClearFence
  PROVE  Good
<1>1. Types'
  BY DEF MaintInv, Types, ClearFence, HandoffAllows
<1>2. Lock' /\ HubTrue'
  BY DEF MaintInv, Types, Lock, HubTrue, ClearFence, HandoffAllows
<1>3. Rebasing' /\ Fencing'
  BY DEF MaintInv, Types, Lock, Rebasing, RebaseCanFinish, Fencing, FenceHasSnapshot,
         FenceHasOwner, ClearFence, HandoffAllows
<1>4. Restoring' /\ RestoreSteps' /\ AllOrNothing'
  BY DEF MaintInv, Types, Lock, Restoring, OldWhole, Old, Layout, RestoreSteps, Restored,
         AllOrNothing, Whole, ClearFence, HandoffAllows
<1>5. Lawful
  BY DEF MaintInv, Types, Lawful, ClearFence, HandoffAllows
<1> QED BY <1>1, <1>2, <1>3, <1>4, <1>5 DEF Good, MaintInv

LEMMA ConsumeHandoffGood ==
  ASSUME MaintInv, ConsumeHandoff
  PROVE  Good
<1>1. Types'
  BY DEF MaintInv, Types, ConsumeHandoff
<1>2. Lock' /\ HubTrue'
  BY DEF MaintInv, Types, Lock, HubTrue, ConsumeHandoff
<1>3. Rebasing' /\ Fencing'
  BY DEF MaintInv, Types, Lock, Rebasing, RebaseCanFinish, Fencing, FenceHasSnapshot,
         FenceHasOwner, ConsumeHandoff
<1>4. Restoring' /\ RestoreSteps' /\ AllOrNothing'
  BY DEF MaintInv, Types, Lock, Restoring, OldWhole, Old, Layout, RestoreSteps, Restored,
         AllOrNothing, Whole, ConsumeHandoff
<1>5. Lawful
  BY DEF MaintInv, Types, Lawful, ConsumeHandoff
<1> QED BY <1>1, <1>2, <1>3, <1>4, <1>5 DEF Good, MaintInv

LEMMA AuthorizeGood ==
  ASSUME MaintInv, Authorize
  PROVE  Good
<1>1. Types'
  BY DEF MaintInv, Types, Authorize
<1>2. Lock' /\ HubTrue'
  BY DEF MaintInv, Types, Lock, HubTrue, Authorize
<1>3. Rebasing' /\ Fencing'
  BY DEF MaintInv, Types, Lock, Rebasing, RebaseCanFinish, Fencing, FenceHasSnapshot,
         FenceHasOwner, Authorize
<1>4. Restoring' /\ RestoreSteps' /\ AllOrNothing'
  BY DEF MaintInv, Types, Lock, Restoring, OldWhole, Old, Layout, RestoreSteps, Restored,
         AllOrNothing, Whole, Authorize
<1>5. Lawful
  BY DEF MaintInv, Types, Lawful, Authorize
<1> QED BY <1>1, <1>2, <1>3, <1>4, <1>5 DEF Good, MaintInv

LEMMA UnauthorizeGood ==
  ASSUME MaintInv, Unauthorize
  PROVE  Good
<1>1. Types'
  BY DEF MaintInv, Types, Unauthorize
<1>2. Lock' /\ HubTrue'
  BY DEF MaintInv, Types, Lock, HubTrue, Unauthorize
<1>3. Rebasing' /\ Fencing'
  BY DEF MaintInv, Types, Lock, Rebasing, RebaseCanFinish, Fencing, FenceHasSnapshot,
         FenceHasOwner, Unauthorize
<1>4. Restoring' /\ RestoreSteps' /\ AllOrNothing'
  BY DEF MaintInv, Types, Lock, Restoring, OldWhole, Old, Layout, RestoreSteps, Restored,
         AllOrNothing, Whole, Unauthorize
<1>5. Lawful
  BY DEF MaintInv, Types, Lawful, Unauthorize
<1> QED BY <1>1, <1>2, <1>3, <1>4, <1>5 DEF Good, MaintInv

LEMMA PrepareUnstageGood ==
  ASSUME MaintInv, PrepareUnstage
  PROVE  Good
<1>1. Types'
  <2>1. pend' \in BOOLEAN
    BY DEF PrepareUnstage
  <2> QED BY <2>1 DEF MaintInv, Types, PrepareUnstage
<1>2. Lock' /\ HubTrue'
  BY DEF MaintInv, Types, Lock, HubTrue, PrepareUnstage
<1>3. Rebasing' /\ Fencing'
  BY DEF MaintInv, Types, Lock, Rebasing, RebaseCanFinish, Fencing, FenceHasSnapshot,
         FenceHasOwner, PrepareUnstage
<1>4. Restoring' /\ RestoreSteps' /\ AllOrNothing'
  BY DEF MaintInv, Types, Lock, Restoring, OldWhole, Old, Layout, RestoreSteps, Restored,
         AllOrNothing, Whole, PrepareUnstage
<1>5. Lawful
  BY DEF MaintInv, Types, Lawful, PrepareUnstage
<1> QED BY <1>1, <1>2, <1>3, <1>4, <1>5 DEF Good, MaintInv

LEMMA PrepareUnfenceGood ==
  ASSUME MaintInv, PrepareUnfence
  PROVE  Good
<1>1. Types'
  BY DEF MaintInv, Types, PrepareUnfence
<1>2. Lock' /\ HubTrue'
  BY DEF MaintInv, Types, Lock, HubTrue, PrepareUnfence
<1>3. Rebasing' /\ Fencing'
  BY DEF MaintInv, Types, Lock, Rebasing, RebaseCanFinish, Fencing, FenceHasSnapshot,
         FenceHasOwner, PrepareUnfence
<1>4. Restoring' /\ RestoreSteps' /\ AllOrNothing'
  BY DEF MaintInv, Types, Lock, Restoring, OldWhole, Old, Layout, RestoreSteps, Restored,
         AllOrNothing, Whole, PrepareUnfence
<1>5. Lawful
  BY DEF MaintInv, Types, Lawful, PrepareUnfence
<1> QED BY <1>1, <1>2, <1>3, <1>4, <1>5 DEF Good, MaintInv

LEMMA PrepareForgetGood ==
  ASSUME MaintInv, PrepareForget
  PROVE  Good
<1>1. Types'
  BY DEF MaintInv, Types, PrepareForget
<1>2. Lock' /\ HubTrue'
  BY DEF MaintInv, Types, Lock, HubTrue, PrepareForget
<1>3. Rebasing' /\ Fencing'
  BY DEF MaintInv, Types, Lock, Rebasing, RebaseCanFinish, Fencing, FenceHasSnapshot,
         FenceHasOwner, PrepareForget
<1>4. Restoring' /\ RestoreSteps' /\ AllOrNothing'
  BY DEF MaintInv, Types, Lock, Restoring, OldWhole, Old, Layout, RestoreSteps, Restored,
         AllOrNothing, Whole, PrepareForget
<1>5. Lawful
  BY DEF MaintInv, Types, Lawful, PrepareForget
<1> QED BY <1>1, <1>2, <1>3, <1>4, <1>5 DEF Good, MaintInv

LEMMA PrepareResumeGood ==
  ASSUME MaintInv, PrepareResume
  PROVE  Good
<1>1. Types'
  BY DEF MaintInv, Types, PrepareResume
<1>2. Lock' /\ HubTrue'
  BY DEF MaintInv, Types, Lock, HubTrue, PrepareResume
<1>3. Rebasing' /\ Fencing'
  BY DEF MaintInv, Types, Lock, Rebasing, RebaseCanFinish, Fencing, FenceHasSnapshot,
         FenceHasOwner, PrepareResume
<1>4. Restoring' /\ RestoreSteps' /\ AllOrNothing'
  BY DEF MaintInv, Types, Lock, Restoring, OldWhole, Old, Layout, RestoreSteps, Restored,
         AllOrNothing, Whole, PrepareResume
<1>5. Lawful
  BY DEF MaintInv, Types, Lawful, PrepareResume
<1> QED BY <1>1, <1>2, <1>3, <1>4, <1>5 DEF Good, MaintInv

LEMMA PrepareSnapshotGood ==
  ASSUME MaintInv, PrepareSnapshot
  PROVE  Good
<1>1. Types'
  BY DEF MaintInv, Types, PrepareSnapshot
<1>2. Lock' /\ HubTrue'
  BY DEF MaintInv, Types, Lock, HubTrue, PrepareSnapshot
<1>3. Rebasing' /\ Fencing'
  BY DEF MaintInv, Types, Lock, Rebasing, RebaseCanFinish, Fencing, FenceHasSnapshot,
         FenceHasOwner, PrepareSnapshot
<1>4. Restoring' /\ RestoreSteps' /\ AllOrNothing'
  BY DEF MaintInv, Types, Lock, Restoring, OldWhole, Old, Layout, RestoreSteps, Restored,
         AllOrNothing, Whole, PrepareSnapshot
<1>5. Lawful
  BY DEF MaintInv, Types, Lawful, PrepareSnapshot
<1> QED BY <1>1, <1>2, <1>3, <1>4, <1>5 DEF Good, MaintInv

LEMMA PrepareStageGood ==
  ASSUME MaintInv, PrepareStage
  PROVE  Good
<1>1. Types'
  BY DEF MaintInv, Types, PrepareStage
<1>2. Lock' /\ HubTrue'
  BY DEF MaintInv, Types, Lock, HubTrue, PrepareStage
<1>3. Rebasing' /\ Fencing'
  BY DEF MaintInv, Types, Lock, Rebasing, RebaseCanFinish, Fencing, FenceHasSnapshot,
         FenceHasOwner, PrepareStage
<1>4. Restoring' /\ RestoreSteps' /\ AllOrNothing'
  BY DEF MaintInv, Types, Lock, Restoring, OldWhole, Old, Layout, RestoreSteps, Restored,
         AllOrNothing, Whole, PrepareStage
<1>5. Lawful
  BY DEF MaintInv, Types, Lawful, PrepareStage
<1> QED BY <1>1, <1>2, <1>3, <1>4, <1>5 DEF Good, MaintInv

LEMMA PrepareHandoffGood ==
  ASSUME MaintInv, PrepareHandoff
  PROVE  Good
<1>1. Types'
  BY DEF MaintInv, Types, PrepareHandoff
<1>2. Lock' /\ HubTrue'
  BY DEF MaintInv, Types, Lock, HubTrue, PrepareHandoff
<1>3. Rebasing' /\ Fencing'
  BY DEF MaintInv, Types, Lock, Rebasing, RebaseCanFinish, Fencing, FenceHasSnapshot,
         FenceHasOwner, PrepareHandoff
<1>4. Restoring' /\ RestoreSteps' /\ AllOrNothing'
  BY DEF MaintInv, Types, Lock, Restoring, OldWhole, Old, Layout, RestoreSteps, Restored,
         AllOrNothing, Whole, PrepareHandoff
<1>5. Lawful
  BY DEF MaintInv, Types, Lawful, PrepareHandoff
<1> QED BY <1>1, <1>2, <1>3, <1>4, <1>5 DEF Good, MaintInv

LEMMA PrepareLinkGood ==
  ASSUME MaintInv, PrepareLink
  PROVE  Good
<1>1. Types'
  BY DEF MaintInv, Types, PrepareLink
<1>2. Lock' /\ HubTrue'
  BY DEF MaintInv, Types, Lock, HubTrue, PrepareLink
<1>3. Rebasing' /\ Fencing'
  BY DEF MaintInv, Types, Lock, Rebasing, RebaseCanFinish, Fencing, FenceHasSnapshot,
         FenceHasOwner, PrepareLink
<1>4. Restoring' /\ RestoreSteps' /\ AllOrNothing'
  BY DEF MaintInv, Types, Lock, Restoring, OldWhole, Old, Layout, RestoreSteps, Restored,
         AllOrNothing, Whole, PrepareLink
<1>5. Lawful
  BY DEF MaintInv, Types, Lawful, PrepareLink
<1> QED BY <1>1, <1>2, <1>3, <1>4, <1>5 DEF Good, MaintInv

LEMMA PrepareUnlinkGood ==
  ASSUME MaintInv, PrepareUnlink
  PROVE  Good
<1>1. Types'
  <2>1. pend' \in BOOLEAN
    BY DEF PrepareUnlink
  <2> QED BY <2>1 DEF MaintInv, Types, PrepareUnlink
<1>2. Lock' /\ HubTrue'
  BY DEF MaintInv, Types, Lock, HubTrue, PrepareUnlink
<1>3. Rebasing' /\ Fencing'
  BY DEF MaintInv, Types, Lock, Rebasing, RebaseCanFinish, Fencing, FenceHasSnapshot,
         FenceHasOwner, PrepareUnlink
<1>4. Restoring' /\ RestoreSteps' /\ AllOrNothing'
  BY DEF MaintInv, Types, Lock, Restoring, OldWhole, Old, Layout, RestoreSteps, Restored,
         AllOrNothing, Whole, PrepareUnlink
<1>5. Lawful
  BY DEF MaintInv, Types, Lawful, PrepareUnlink
<1> QED BY <1>1, <1>2, <1>3, <1>4, <1>5 DEF Good, MaintInv

LEMMA PrepareClaimGood ==
  ASSUME MaintInv, PrepareClaim
  PROVE  Good
<1>1. Types'
  BY DEF MaintInv, Types, PrepareClaim
<1>2. Lock' /\ HubTrue'
  BY DEF MaintInv, Types, Lock, HubTrue, PrepareClaim
<1>3. Rebasing' /\ Fencing'
  BY DEF MaintInv, Types, Lock, Rebasing, RebaseCanFinish, Fencing, FenceHasSnapshot,
         FenceHasOwner, PrepareClaim
<1>4. Restoring' /\ RestoreSteps' /\ AllOrNothing'
  BY DEF MaintInv, Types, Lock, Restoring, OldWhole, Old, Layout, RestoreSteps, Restored,
         AllOrNothing, Whole, PrepareClaim
<1>5. Lawful
  BY DEF MaintInv, Types, Lawful, PrepareClaim
<1> QED BY <1>1, <1>2, <1>3, <1>4, <1>5 DEF Good, MaintInv

LEMMA AdoptGood ==
  ASSUME MaintInv, Adopt
  PROVE  Good
<1>1. Types'
  BY DEF MaintInv, Types, Adopt
<1>2. Lock' /\ HubTrue'
  BY DEF MaintInv, Types, Lock, HubTrue, Adopt
<1>3. Rebasing' /\ Fencing'
  BY DEF MaintInv, Types, Lock, Rebasing, RebaseCanFinish, Fencing, FenceHasSnapshot,
         FenceHasOwner, Adopt
<1>4. Restoring' /\ RestoreSteps' /\ AllOrNothing'
  BY DEF MaintInv, Types, Lock, Restoring, OldWhole, Old, Layout, RestoreSteps, Restored,
         AllOrNothing, Whole, Adopt
<1>5. Lawful
  BY DEF MaintInv, Types, Lawful, Adopt
<1> QED BY <1>1, <1>2, <1>3, <1>4, <1>5 DEF Good, MaintInv

LEMMA AbortGood ==
  ASSUME MaintInv, Abort
  PROVE  Good
<1>1. Types'
  BY DEF MaintInv, Types, Abort
<1>2. Lock' /\ HubTrue'
  BY DEF MaintInv, Types, Lock, HubTrue, Abort
<1>3. Rebasing' /\ Fencing'
  BY DEF MaintInv, Types, Lock, Rebasing, RebaseCanFinish, Fencing, FenceHasSnapshot,
         FenceHasOwner, Abort
<1>4. Restoring' /\ RestoreSteps' /\ AllOrNothing'
  BY DEF MaintInv, Types, Lock, Restoring, OldWhole, Old, Layout, RestoreSteps, Restored,
         AllOrNothing, Whole, Abort
<1>5. Lawful
  BY DEF MaintInv, Types, Lawful, Abort
<1> QED BY <1>1, <1>2, <1>3, <1>4, <1>5 DEF Good, MaintInv

LEMMA RestoreStageGood ==
  ASSUME MaintInv, RestoreStage
  PROVE  Good
<1>1. Types'
  BY DEF MaintInv, Types, RestoreStage
<1>2. Lock' /\ HubTrue'
  BY DEF MaintInv, Types, Lock, HubTrue, RestoreStage
<1>3. Rebasing' /\ Fencing'
  BY DEF MaintInv, Types, Lock, Rebasing, RebaseCanFinish, Fencing, FenceHasSnapshot,
         FenceHasOwner, RestoreStage
<1>4. Restoring' /\ RestoreSteps' /\ AllOrNothing'
  BY DEF MaintInv, Types, Lock, Restoring, OldWhole, Old, Layout, RestoreSteps, Restored,
         AllOrNothing, Whole, RestoreStage
<1>5. Lawful
  BY DEF MaintInv, Types, Lawful, RestoreStage
<1> QED BY <1>1, <1>2, <1>3, <1>4, <1>5 DEF Good, MaintInv

LEMMA RestoreReceiptGood ==
  ASSUME MaintInv, RestoreReceipt
  PROVE  Good
<1>1. Types'
  BY DEF MaintInv, Types, Lock, Rebasing, RebaseCanFinish, Fencing, Restoring, RestoreSteps,
         Restored, RestoreReceipt
<1>2. Lock' /\ HubTrue'
  BY DEF MaintInv, Types, Lock, HubTrue, RestoreReceipt
<1>3. Rebasing' /\ Fencing'
  BY DEF MaintInv, Types, Lock, Rebasing, RebaseCanFinish, Fencing, FenceHasSnapshot,
         FenceHasOwner, RestoreReceipt
<1>4. Restoring' /\ RestoreSteps' /\ AllOrNothing'
  BY DEF MaintInv, Types, Lock, Restoring, OldWhole, Old, Layout, RestoreSteps, Restored,
         AllOrNothing, Whole, RestoreReceipt
<1>5. Lawful
  BY DEF MaintInv, Types, Lawful, RestoreReceipt
<1> QED BY <1>1, <1>2, <1>3, <1>4, <1>5 DEF Good, MaintInv

LEMMA RestoreReceiptRefusedGood ==
  ASSUME MaintInv, RestoreReceiptRefused
  PROVE  Good
<1>1. Types'
  BY DEF MaintInv, Types, RestoreReceiptRefused
<1>2. Lock' /\ HubTrue'
  BY DEF MaintInv, Types, Lock, HubTrue, RestoreReceiptRefused
<1>3. Rebasing' /\ Fencing'
  BY DEF MaintInv, Types, Lock, Rebasing, RebaseCanFinish, Fencing, FenceHasSnapshot,
         FenceHasOwner, RestoreReceiptRefused
<1>4. Restoring' /\ RestoreSteps' /\ AllOrNothing'
  BY DEF MaintInv, Types, Lock, Restoring, OldWhole, Old, Layout, RestoreSteps, Restored,
         AllOrNothing, Whole, RestoreReceiptRefused
<1>5. Lawful
  BY DEF MaintInv, Types, Lawful, RestoreReceiptRefused
<1> QED BY <1>1, <1>2, <1>3, <1>4, <1>5 DEF Good, MaintInv

LEMMA RestoreJournalGood ==
  ASSUME MaintInv, RestoreJournal
  PROVE  Good
<1>1. Types'
  BY DEF MaintInv, Types, Lock, Rebasing, RebaseCanFinish, Fencing, Restoring, RestoreSteps,
         Restored, RestoreJournal
<1>2. Lock' /\ HubTrue'
  BY DEF MaintInv, Types, Lock, HubTrue, Rebasing, RestoreSteps, Restored, Restoring,
         RestoreJournal
<1>3. Rebasing' /\ Fencing'
  BY DEF MaintInv, Types, Lock, Rebasing, RebaseCanFinish, Fencing, FenceHasSnapshot,
         FenceHasOwner, RestoreJournal
<1>4. Restoring' /\ RestoreSteps' /\ AllOrNothing'
  BY DEF MaintInv, Types, Lock, HubTrue, Rebasing, RebaseCanFinish, Fencing, FenceHasSnapshot,
         FenceHasOwner, Restoring, OldWhole, Old, Layout, RestoreSteps, Restored, AllOrNothing,
         Whole, RestoreJournal
<1>5. Lawful
  BY DEF MaintInv, Types, Lawful, RestoreJournal
<1> QED BY <1>1, <1>2, <1>3, <1>4, <1>5 DEF Good, MaintInv

LEMMA RestoreOutGood ==
  ASSUME MaintInv, RestoreOut
  PROVE  Good
<1> DEFINE n == First(Sorted, {m \in journal.old : staging.prev[m] = None})
<1>1. /\ journal.state = "prepared" /\ staging.there /\ rebase = NoRebase /\ ctl.pc = "out"
      /\ journal.old \in SUBSET Names /\ staging.prev \in [Names -> Held] /\ root \in [Names -> Held]
  BY DEF MaintInv, Types, Lock, RestoreOut, At
<1>2. n \in {m \in journal.old : staging.prev[m] = None}
  BY <1>1, FirstSorted DEF RestoreOut, MovedOut
<1>3. n \in Names /\ n \in journal.old /\ root[n] # None /\ staging.prev[n] = None
  BY <1>1, <1>2 DEF MaintInv, Restoring, Layout
<1>4. /\ root' = [root EXCEPT ![n] = None]
      /\ staging' = [staging EXCEPT !.prev = [staging.prev EXCEPT ![n] = root[n]]]
      /\ UNCHANGED <<snaps, rebase, receipt, journal, reactVars, startVars, ctl, crashes>>
  BY DEF RestoreOut
<1>11. /\ staging' \in [there : BOOLEAN, new : [Names -> Held], prev : [Names -> Held]]
      /\ staging'.there /\ staging'.new = staging.new
      /\ staging'.prev = [staging.prev EXCEPT ![n] = root[n]]
  BY <1>1, <1>3, <1>4 DEF MaintInv, Types
<1> HIDE DEF n
<1>5. Types'
  BY <1>1, <1>3, <1>4, <1>11 DEF MaintInv, Types
<1>6. Lock' /\ HubTrue'
  BY <1>1, <1>3, <1>4, <1>11 DEF MaintInv, Types, Lock, HubTrue
<1>7. Rebasing' /\ Fencing'
  BY <1>1, <1>3, <1>4, <1>11 DEF MaintInv, Types, Lock, Rebasing, RebaseCanFinish, Fencing, FenceHasSnapshot, FenceHasOwner
<1>8. OldWhole' /\ Layout'
  <2>1. \A k \in Names : k # n => root'[k] = root[k] /\ staging'.prev[k] = staging.prev[k]
    BY <1>1, <1>3, <1>4, <1>11
  <2>2. root'[n] = None /\ staging'.prev[n] = root[n]
    BY <1>1, <1>3, <1>4, <1>11
  <2>3. \A k \in Names : Old(k)' = Old(k)
    BY <1>1, <1>3, <1>4, <2>1, <2>2 DEF MaintInv, Restoring, Layout, Old
  <2>4. OldWhole'
    BY <1>1, <1>4, <2>3 DEF MaintInv, Restoring, OldWhole
  <2>5. Layout'
    BY <1>1, <1>3, <1>4, <1>11, <2>1, <2>2 DEF MaintInv, Restoring, Layout
  <2> QED BY <2>4, <2>5
<1>9. Restoring' /\ RestoreSteps' /\ AllOrNothing'
  BY <1>1, <1>3, <1>4, <1>11, <1>8 DEF MaintInv, Types, Lock, Restoring, RestoreSteps, AllOrNothing
<1>10. Lawful
  BY <1>1, <1>4 DEF MaintInv, Types, Lawful
<1> QED BY <1>5, <1>6, <1>7, <1>9, <1>10 DEF Good, MaintInv

LEMMA RestoreInGood ==
  ASSUME MaintInv, RestoreIn
  PROVE  Good
<1> DEFINE n == First(Replacing, {m \in NewNames : staging.new[m] # None})
<1>1. /\ journal.state = "prepared" /\ staging.there /\ rebase = NoRebase /\ ctl.pc = "out"
      /\ journal.old \in SUBSET Names /\ staging.prev \in [Names -> Held] /\ root \in [Names -> Held]
  BY DEF MaintInv, Types, Lock, RestoreIn, At
<1>2. n \in {m \in NewNames : staging.new[m] # None}
  BY FirstReplacing DEF RestoreIn, MovedIn
<1>3. /\ n \in NewNames /\ staging.new[n] = journal.gen /\ journal.gen \in Digests
      /\ n \notin journal.old \/ staging.prev[n] # None
  BY <1>1, <1>2 DEF MaintInv, Types, RestoreSteps, RestoreIn, MovedOut
<1>4. /\ root' = [root EXCEPT ![n] = journal.gen]
      /\ staging' = [staging EXCEPT !.new = [staging.new EXCEPT ![n] = None]]
      /\ UNCHANGED <<snaps, rebase, receipt, journal, reactVars, startVars, ctl, crashes>>
  BY <1>3 DEF RestoreIn
<1>11. /\ staging' \in [there : BOOLEAN, new : [Names -> Held], prev : [Names -> Held]]
      /\ staging'.there /\ staging'.prev = staging.prev
      /\ staging'.new = [staging.new EXCEPT ![n] = None]
  BY <1>1, <1>3, <1>4 DEF MaintInv, Types
<1> HIDE DEF n
<1>5. Types'
  BY <1>1, <1>3, <1>4, <1>11 DEF MaintInv, Types
<1>6. Lock' /\ HubTrue'
  BY <1>1, <1>3, <1>4, <1>11 DEF MaintInv, Types, Lock, HubTrue
<1>7. Rebasing' /\ Fencing'
  BY <1>1, <1>3, <1>4, <1>11 DEF MaintInv, Types, Lock, Rebasing, RebaseCanFinish, Fencing, FenceHasSnapshot, FenceHasOwner
<1>8. OldWhole' /\ Layout'
  <2>1. \A k \in Names : k # n => root'[k] = root[k]
    BY <1>1, <1>3, <1>4, <1>11
  <2>2. root'[n] = journal.gen
    BY <1>1, <1>3, <1>4, <1>11
  <2>3. \A k \in Names : Old(k)' = Old(k)
    BY <1>1, <1>3, <1>4, <2>1, <2>2 DEF MaintInv, Restoring, Layout, Old
  <2>4. OldWhole'
    BY <1>1, <1>4, <2>3 DEF MaintInv, Restoring, OldWhole
  <2>5. Layout'
    BY <1>1, <1>3, <1>4, <1>11, <2>1, <2>2 DEF MaintInv, Restoring, Layout
  <2> QED BY <2>4, <2>5
<1>9. Restoring' /\ RestoreSteps' /\ AllOrNothing'
  BY <1>1, <1>3, <1>4, <1>11, <1>8 DEF MaintInv, Types, Lock, Restoring, RestoreSteps, AllOrNothing
<1>10. Lawful
  BY <1>1, <1>4 DEF MaintInv, Types, Lawful
<1> QED BY <1>5, <1>6, <1>7, <1>9, <1>10 DEF Good, MaintInv

LEMMA CommitReceiptGood ==
  ASSUME MaintInv, CommitReceipt
  PROVE  Good
<1>1. Types'
  <2>1. receipt \in [state : {"prepared", "committed"}, gen : Digests]
    BY DEF MaintInv, Types, Lock, Restoring, CommitReceipt
  <2>2. receipt' \in [state : {"prepared", "committed"}, gen : Digests]
    BY <2>1 DEF CommitReceipt
  <2> QED BY <2>2 DEF MaintInv, Types, CommitReceipt
<1>2. Lock' /\ HubTrue'
  BY DEF MaintInv, Types, Lock, HubTrue, CommitReceipt, MovedOut, MovedIn
<1>3. Rebasing' /\ Fencing'
  BY DEF MaintInv, Types, Lock, Rebasing, RebaseCanFinish, Fencing, FenceHasSnapshot,
         FenceHasOwner, CommitReceipt, MovedOut, MovedIn
<1>4. Restoring' /\ RestoreSteps' /\ AllOrNothing'
  BY DEF MaintInv, Types, Lock, Restoring, OldWhole, Old, Layout, RestoreSteps, Restored,
         AllOrNothing, Whole, CommitReceipt, MovedOut, MovedIn
<1>5. Lawful
  BY DEF MaintInv, Types, Lawful, CommitReceipt, MovedOut, MovedIn
<1> QED BY <1>1, <1>2, <1>3, <1>4, <1>5 DEF Good, MaintInv

LEMMA CommitJournalGood ==
  ASSUME MaintInv, CommitJournal
  PROVE  Good
<1>1. Types'
  BY DEF MaintInv, Types, Lock, Rebasing, RebaseCanFinish, CommitJournal
<1>2. Lock' /\ HubTrue'
  BY DEF MaintInv, Types, Lock, HubTrue, CommitJournal
<1>3. Rebasing' /\ Fencing'
  BY DEF MaintInv, Types, Lock, Rebasing, RebaseCanFinish, Fencing, FenceHasSnapshot,
         FenceHasOwner, CommitJournal
<1>4. Restoring' /\ RestoreSteps' /\ AllOrNothing'
  BY DEF MaintInv, Types, Lock, Restoring, OldWhole, Old, Layout, RestoreSteps, Restored,
         AllOrNothing, Whole, CommitJournal
<1>5. Lawful
  BY DEF MaintInv, Types, Lawful, CommitJournal
<1> QED BY <1>1, <1>2, <1>3, <1>4, <1>5 DEF Good, MaintInv

LEMMA SettleGood ==
  ASSUME MaintInv, Settle
  PROVE  Good
<1>1. Types'
  BY DEF MaintInv, Types, Settle, Pending
<1>2. Lock' /\ HubTrue'
  BY DEF MaintInv, Types, Lock, HubTrue, Settle, Pending
<1>3. Rebasing' /\ Fencing'
  BY DEF MaintInv, Types, Lock, HubTrue, Rebasing, RebaseCanFinish, Fencing, FenceHasSnapshot,
         FenceHasOwner, Restoring, RestoreSteps, Restored, OldWhole, Old, Layout, Settle,
         Pending
<1>4. Restoring' /\ RestoreSteps' /\ AllOrNothing'
  BY DEF MaintInv, Types, Lock, Restoring, OldWhole, Old, Layout, RestoreSteps, Restored,
         AllOrNothing, Whole, Settle, Pending
<1>5. Lawful
  BY DEF MaintInv, Types, Lawful, Settle, Pending
<1> QED BY <1>1, <1>2, <1>3, <1>4, <1>5 DEF Good, MaintInv

LEMMA ConfirmGood ==
  ASSUME MaintInv, Confirm
  PROVE  Good
<1>1. Types'
  BY DEF MaintInv, Types, Confirm, Committed
<1>2. Lock' /\ HubTrue'
  BY DEF MaintInv, Types, Lock, HubTrue, Confirm, Committed
<1>3. Rebasing' /\ Fencing'
  BY DEF MaintInv, Types, Lock, HubTrue, Rebasing, RebaseCanFinish, Fencing, FenceHasSnapshot,
         FenceHasOwner, Restoring, RestoreSteps, Restored, OldWhole, Old, Layout, Confirm,
         Committed
<1>4. Restoring' /\ RestoreSteps' /\ AllOrNothing'
  BY DEF MaintInv, Types, Lock, Restoring, OldWhole, Old, Layout, RestoreSteps, Restored,
         AllOrNothing, Whole, Confirm, Committed
<1>5. Lawful
  BY DEF MaintInv, Types, Lawful, Confirm, Committed
<1> QED BY <1>1, <1>2, <1>3, <1>4, <1>5 DEF Good, MaintInv

LEMMA AcknowledgeGood ==
  ASSUME MaintInv, Acknowledge
  PROVE  Good
<1>1. Types'
  BY DEF MaintInv, Types, Acknowledge, Ackable, Committed
<1>2. Lock' /\ HubTrue'
  BY DEF MaintInv, Types, Lock, HubTrue, Acknowledge, Ackable, Committed
<1>3. Rebasing' /\ Fencing'
  BY DEF MaintInv, Types, Lock, Rebasing, RebaseCanFinish, Fencing, FenceHasSnapshot,
         FenceHasOwner, Acknowledge, Ackable, Committed
<1>4. Restoring' /\ RestoreSteps' /\ AllOrNothing'
  BY DEF MaintInv, Types, Lock, Restoring, OldWhole, Old, Layout, RestoreSteps, Restored,
         AllOrNothing, Whole, Acknowledge, Ackable, Committed
<1>5. Lawful
  BY DEF MaintInv, Types, Lawful, Acknowledge, Ackable, Committed
<1> QED BY <1>1, <1>2, <1>3, <1>4, <1>5 DEF Good, MaintInv

LEMMA StartGood ==
  ASSUME MaintInv, Start
  PROVE  Good
<1>1. Types'
  BY DEF MaintInv, Types, Start, Startable
<1>2. Lock' /\ HubTrue'
  BY DEF MaintInv, Types, Lock, HubTrue, Start, Startable
<1>3. Rebasing' /\ Fencing'
  BY DEF MaintInv, Types, Lock, Rebasing, RebaseCanFinish, Fencing, FenceHasSnapshot,
         FenceHasOwner, Start, Startable
<1>4. Restoring' /\ RestoreSteps' /\ AllOrNothing'
  BY DEF MaintInv, Types, Lock, Restoring, OldWhole, Old, Layout, RestoreSteps, Restored,
         AllOrNothing, Whole, Start, Startable
<1>5. Lawful
  BY DEF MaintInv, Types, Lock, RestoreSteps, AllOrNothing, Lawful, Start, Startable
<1> QED BY <1>1, <1>2, <1>3, <1>4, <1>5 DEF Good, MaintInv

LEMMA RefuseGood ==
  ASSUME MaintInv, Refuse
  PROVE  Good
<1>1. Types'
  BY DEF MaintInv, Types, Refuse
<1>2. Lock' /\ HubTrue'
  BY DEF MaintInv, Types, Lock, HubTrue, Refuse
<1>3. Rebasing' /\ Fencing'
  BY DEF MaintInv, Types, Lock, Rebasing, RebaseCanFinish, Fencing, FenceHasSnapshot,
         FenceHasOwner, Refuse
<1>4. Restoring' /\ RestoreSteps' /\ AllOrNothing'
  BY DEF MaintInv, Types, Lock, Restoring, OldWhole, Old, Layout, RestoreSteps, Restored,
         AllOrNothing, Whole, Refuse
<1>5. Lawful
  BY DEF MaintInv, Types, Lawful, Refuse
<1> QED BY <1>1, <1>2, <1>3, <1>4, <1>5 DEF Good, MaintInv

LEMMA HubStopsGood ==
  ASSUME MaintInv, HubStops
  PROVE  Good
<1>1. Types'
  BY DEF MaintInv, Types, HubStops
<1>2. Lock' /\ HubTrue'
  BY DEF MaintInv, Types, Lock, HubTrue, HubStops
<1>3. Rebasing' /\ Fencing'
  BY DEF MaintInv, Types, Lock, Rebasing, RebaseCanFinish, Fencing, FenceHasSnapshot,
         FenceHasOwner, HubStops
<1>4. Restoring' /\ RestoreSteps' /\ AllOrNothing'
  BY DEF MaintInv, Types, Lock, HubTrue, Rebasing, RebaseCanFinish, Fencing, FenceHasSnapshot,
         FenceHasOwner, Restoring, OldWhole, Old, Layout, RestoreSteps, Restored, AllOrNothing,
         Whole, HubStops
<1>5. Lawful
  BY DEF MaintInv, Types, Lawful, HubStops
<1> QED BY <1>1, <1>2, <1>3, <1>4, <1>5 DEF Good, MaintInv

LEMMA CrashGood ==
  ASSUME MaintInv, Crash
  PROVE  Good
<1>1. Types'
  BY DEF MaintInv, Types, Crash
<1>2. Lock' /\ HubTrue'
  BY DEF MaintInv, Types, Lock, HubTrue, Crash
<1>3. Rebasing' /\ Fencing'
  BY DEF MaintInv, Types, Lock, Rebasing, RebaseCanFinish, Fencing, FenceHasSnapshot,
         FenceHasOwner, Crash
<1>4. Restoring' /\ RestoreSteps' /\ AllOrNothing'
  BY DEF MaintInv, Types, Lock, Restoring, OldWhole, Old, Layout, RestoreSteps, Restored,
         AllOrNothing, Whole, Crash
<1>5. Lawful
  BY DEF MaintInv, Types, Lawful, Crash
<1> QED BY <1>1, <1>2, <1>3, <1>4, <1>5 DEF Good, MaintInv

-----------------------------------------------------------------------------
LEMMA InitGood ==
  ASSUME Init
  PROVE  MaintInv
<1>1. Types
  BY DEF Init, Types
<1>2. Lock /\ HubTrue
  BY DEF Init, Lock, HubTrue
<1>3. Rebasing /\ Fencing
  BY DEF Init, Rebasing, RebaseCanFinish, Fencing, FenceHasSnapshot, FenceHasOwner
<1>4. Restoring /\ RestoreSteps /\ AllOrNothing
  BY DEF Init, Restoring, RestoreSteps, AllOrNothing, Whole
<1> QED BY <1>1, <1>2, <1>3, <1>4 DEF MaintInv

LEMMA RecoverGood ==
  ASSUME MaintInv, Recover
  PROVE  Good
  BY EnterGood, RebaseDropNewGood, RebaseSwapInGood, RebaseBindGood, RebaseSettleGood, DropStagingGood,
     DropJournalGood, RetireReceiptGood, UndoDiscardGood, UndoPutBackGood DEF Recover

LEMMA WorkGood ==
  ASSUME MaintInv, Work
  PROVE  Good
  BY SnapshotPublishGood, SnapshotFenceGood, RebaseCopyGood, RebaseJournalGood, RebaseRetireGood,
     ClearFenceGood, ConsumeHandoffGood, AuthorizeGood, UnauthorizeGood, PrepareUnstageGood,
     PrepareUnfenceGood, PrepareForgetGood, PrepareResumeGood, PrepareSnapshotGood, PrepareStageGood,
     PrepareHandoffGood, PrepareLinkGood, PrepareUnlinkGood, PrepareClaimGood, AdoptGood, AbortGood,
     RestoreStageGood, RestoreReceiptGood, RestoreReceiptRefusedGood, RestoreJournalGood, RestoreOutGood,
     RestoreInGood, CommitReceiptGood, CommitJournalGood, SettleGood, ConfirmGood, AcknowledgeGood,
     StartGood, RefuseGood DEF Work

LEMMA StepGood ==
  ASSUME MaintInv, [Next]_vars
  PROVE  Good
<1>1. CASE Ask
  BY <1>1, AcquireGood DEF Ask
<1>2. CASE Recover
  BY <1>2, RecoverGood
<1>3. CASE Work
  BY <1>3, WorkGood
<1>4. CASE HubStops
  BY <1>4, HubStopsGood
<1>5. CASE Crash
  BY <1>5, CrashGood
<1>6. CASE UNCHANGED vars
  <2>1. MaintInv'
    BY <1>6 DEF vars, MaintInv, Types, Lock, HubTrue, Rebasing, RebaseCanFinish, Fencing, FenceHasSnapshot,
                FenceHasOwner, Restoring, OldWhole, Old, Layout, RestoreSteps, Restored, AllOrNothing, Whole
  <2>2. Lawful
    BY <1>6 DEF vars, Lawful
  <2> QED BY <2>1, <2>2 DEF Good
<1> QED BY <1>1, <1>2, <1>3, <1>4, <1>5, <1>6 DEF Next

LEMMA InvType == MaintInv => TypeOK
  BY DEF MaintInv, Types, TypeOK

(* With a journal there is its receipt, and every old name is somewhere.    *)
LEMMA InvStuck == MaintInv => NeverStuck
<1> SUFFICES ASSUME MaintInv PROVE NeverStuck
  OBVIOUS
<1>1. RecoveryCanFinish
  <2>1. journal.state = "prepared" /\ ~staging.there =>
          \A n \in Names : (n \in journal.old) = (root[n] # None)
    BY DEF MaintInv, Restoring, Layout
  <2>2. journal.state = "prepared" => \A n \in journal.old : root[n] # None \/ staging.prev[n] # None
    BY DEF MaintInv, Restoring, Layout
  <2> QED BY <2>1, <2>2 DEF MaintInv, Restoring, RecoveryCanFinish
<1>2. RebaseCanFinish /\ FenceHasSnapshot /\ FenceHasOwner
  BY DEF MaintInv, Rebasing, Fencing
<1> QED BY <1>1, <1>2 DEF NeverStuck

(* Whatever a crash left, recovery finds what it needs: a pending restore    *)
(* has its receipt and every name of the old generation or the whole new     *)
(* one, a rebase is in a layout that recovery decides, a fence has its       *)
(* snapshot and its owner (_recover_interrupted_restore_unlocked,            *)
(* rebase_maintenance_snapshot).  A receipt whose journal is gone is not     *)
(* covered; NeverStuck says which crashes leave one.                         *)
THEOREM RecoveryNeverStuck == Spec => []NeverStuck
<1>1. Init => MaintInv
  BY InitGood
<1>2. MaintInv /\ [Next]_vars => MaintInv'
  BY StepGood DEF Good
<1> QED BY <1>1, <1>2, InvStuck, PTL DEF Spec

(* The hub starts on one whole generation of its files whose rollback, if   *)
(* there was one, has been acknowledged, and a receipt goes only with the   *)
(* truth (restore_maintenance_snapshot, acknowledge_maintenance_restore).   *)
THEOREM StartsOnOneGeneration == Spec => OneGeneration
<1>1. Init => MaintInv
  BY InitGood
<1>2. MaintInv /\ [Next]_vars => MaintInv' /\ Lawful
  BY StepGood DEF Good
<1>3. MaintInv => TypeOK /\ AllOrNothing
  BY InvType DEF MaintInv
<1>4. Lawful => (hub = "down" /\ hub' # "down" => Whole /\ journal.state = None /\ receipt.state = None)
  BY DEF Lawful
<1>5. Lawful => (receipt.state # None /\ receipt'.state = None =>
                   Restored(receipt.gen) \/ (Whole /\ Fence = receipt.gen))
  BY DEF Lawful
<1> QED BY <1>1, <1>2, <1>3, <1>4, <1>5, PTL DEF Spec, OneGeneration, StartsSettled, ReceiptTruthful

=============================================================================
