------------------------------- MODULE MCChats -------------------------------
(***************************************************************************)
(* What chats ask of each other and what a chat is made from: the exchanges *)
(* between two chats (CrossChatExchange), and the copies and imports that   *)
(* make new chats in the session store (SessionFork, once with a copy beside*)
(* a resumed chat and once with two imports). A behaviour is one of one     *)
(* component, the others rest in their initial states.                      *)
(***************************************************************************)
EXTENDS CrossChatExchange, TLC

CONSTANTS c1, c2, o1, t1, None

VARIABLES forkMem, forkDisk, forkWriter, forkLock, forkLedger, forkLedgerDisk, forkProvider, forkMade,
          forkIndex, forkRoots, forkTomb, forkJob, forkCleaner, forkUp, forkSafe, forkAcked, forkCrashes
VARIABLE part       \* the component that moves

ForkKinds == c1 :> {"fork"} @@ c2 :> {"resume"}
BulkKinds == c1 :> {"import"} @@ c2 :> {"import"}

Fork == INSTANCE SessionFork WITH
           mem <- forkMem, disk <- forkDisk, writer <- forkWriter, lock <- forkLock,
           ledger <- forkLedger, ledgerDisk <- forkLedgerDisk, provider <- forkProvider,
           made <- forkMade, index <- forkIndex, roots <- forkRoots, tomb <- forkTomb,
           job <- forkJob, cleaner <- forkCleaner, up <- forkUp, safe <- forkSafe,
           acked <- forkAcked, crashes <- forkCrashes, Sids <- {c1, c2}, Kinds <- ForkKinds,
           Own <- {o1}, Made <- {t1}, None <- None, MaxCrashes <- 1

Bulk == INSTANCE SessionFork WITH
           mem <- forkMem, disk <- forkDisk, writer <- forkWriter, lock <- forkLock,
           ledger <- forkLedger, ledgerDisk <- forkLedgerDisk, provider <- forkProvider,
           made <- forkMade, index <- forkIndex, roots <- forkRoots, tomb <- forkTomb,
           job <- forkJob, cleaner <- forkCleaner, up <- forkUp, safe <- forkSafe,
           acked <- forkAcked, crashes <- forkCrashes, Sids <- {c1, c2}, Kinds <- BulkKinds,
           Own <- {o1}, Made <- {t1}, None <- None, MaxCrashes <- 1

exchangeVars == <<up, db, journal, outcome, owner, submitter, recon, source, waiter, direct, handing>>
forkVars == <<forkMem, forkDisk, forkWriter, forkLock, forkLedger, forkLedgerDisk, forkProvider, forkMade,
    forkIndex, forkRoots, forkTomb, forkJob, forkCleaner, forkUp, forkSafe, forkAcked, forkCrashes>>
allVars == <<exchangeVars, forkVars, part>>

AllInit ==
  /\ part \in {"exchange", "fork", "bulk"}
  /\ Init
  /\ Fork!Init

ExchangeOnly == UNCHANGED <<forkVars, part>>
ForkOnly == UNCHANGED <<exchangeVars, part>>
BulkOnly == UNCHANGED <<exchangeVars, part>>

AllNext ==
  \/ part = "exchange" /\ Next /\ ExchangeOnly
  \/ part = "fork" /\ Fork!Next /\ ForkOnly
  \/ part = "bulk" /\ Bulk!Next /\ BulkOnly

AllSpec == AllInit /\ [][AllNext]_allVars

(* The behaviours of the exchange alone, with the fairness of its module.   *)
LiveSpec ==
  /\ AllInit /\ part = "exchange"
  /\ [][Next /\ ExchangeOnly]_allVars
  /\ Fairness

-----------------------------------------------------------------------------
(* A copied or imported chat is shown whole and keeps a provider thread that  *)
(* is its own, or is taken back with nothing lost (SessionStore,              *)
(* fork_session, bulk_import_sessions).                                       *)
SessionsSound ==
  /\ (part = "fork" => Fork!SessionsSound)
  /\ (part = "bulk" => Bulk!SessionsSound)

==============================================================================
