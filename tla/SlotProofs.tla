------------------------------ MODULE SlotProofs ------------------------------
(***************************************************************************)
(* The turn slot implements its contract (TurnSlot, SlotContract), for any *)
(* number of turns, Stops, deletions and crashes.                          *)
(***************************************************************************)
EXTENDS TurnSlot, TLAPS

(* A runner that may still act for its turn. *)
Live == {"admit", "accepted", "task", "spawned", "bound", "stream", "steering", "handing", "opening"}
Early == {"accepted", "task", "spawned", "bound"}     \* before anything was sent
NotYet == {"none", "admit"}
Admitting == {"admit", "accepted"}

Ids == Runs \cup {NoRun}
PCs == Unfinished \cup {"none", "steered", "done"}

Types ==
    /\ cur \in [adm : Ids, run : Ids]
    /\ act \in [rec : Ids, run : Ids, stop : BOOLEAN, trans : Ids]
    /\ stop \in [pc : {"idle", "await", "interrupt", "confirm", "hard", "closing", "done"},
                 rec : Ids, run : Ids, adm : Ids]
    /\ pc \in [Runs -> PCs]
    /\ how \in [Runs -> AllTransports \cup {"none", "exec_retry"}]
    /\ names \in [Runs -> Ids] /\ host \in [Runs -> Ids] /\ prev \in [Runs -> Ids]
    /\ cancelled \subseteq Runs /\ started \subseteq Runs /\ ended \in [Runs -> Nat]
    /\ thread \in Nat /\ given \subseteq Runs \X Nat
    /\ \A p \in given : p[2] <= thread

(* One admission at a time, never beside a Stop or a deletion. *)
AdmittingTrue ==
    /\ \A r \in Runs : pc[r] \in Admitting => lock = "start" /\ stop.pc = "idle"
    /\ \A r, q \in Runs : pc[r] \in Admitting /\ pc[q] \in Admitting => r = q
    /\ del \in {"asked", "waiting"} => lock = "delete"

(* What a run id has before its runner was launched, and who runs it.      *)
RunnersTrue ==
    /\ \A r \in Runs : pc[r] \in NotYet => r \notin started /\ names[r] = NoRun /\ host[r] = NoRun
    /\ \A r \in Runs : pc[r] \in Unfinished \ {"admit"} => host[r] = r /\ names[r] \in Runs
    /\ \A r \in Runs : pc[r] \in Early => names[r] = r
    /\ \A r \in Runs : pc[r] \in Unfinished \ Admitting =>
            names[r] \in started \/ \E p \in given : p[1] = names[r]
    /\ \A r \in Runs : names[r] # NoRun => host[names[r]] = r
    /\ \A r \in Runs : host[r] # NoRun => pc[host[r]] \notin NotYet \cup {"steered"}
    /\ \A r, x \in Runs : host[x] = r /\ (~Native(r) \/ pc[r] \in Early) => x = r

(* The slot belongs to the runner that took it, under the name it has now. *)
HeldTrue ==
    /\ cur # NoTurn => /\ cur.adm \in Runs /\ cur.run = names[cur.adm]
                       /\ pc[cur.adm] \in Unfinished \ {"closing"}
    /\ act # NoAct => /\ cur # NoTurn /\ act.rec = cur.adm
                      /\ act.run = cur.run /\ cur.run \in Runs

(* Whoever may still act holds the slot; a hard Stop has cancelled all.     *)
DrivenTrue ==
    /\ \A r \in Runs : pc[r] \in Live /\ r \notin cancelled => cur.adm = r
    /\ stop.pc = "hard" => \A r \in Runs : pc[r] \in Unfinished =>
            r \in cancelled \/ (how[r] = "sdk" /\ pc[r] \in {"drain", "closing", "exit"})

(* A prompt that was not sent. *)
UnsentTrue ==
    \A r \in Runs : pc[r] \in NotYet \cup Early => <<r, thread>> \notin given

(* Who is going to close a turn finds it open, and is the only one.         *)
ClosingTrue ==
    /\ \A r \in Runs : pc[r] \in NotYet \cup {"accepted"} => ended[r] = 0
    /\ cur.run # NoRun => ended[cur.run] = 0
    /\ \A r \in Runs : pc[r] = "closing" => ended[names[r]] = 0 /\ cur.run # names[r]
    /\ stop.pc = "closing" => /\ cur = NoTurn /\ stop.run \in started /\ ended[stop.run] = 0
                              /\ \A r \in Runs : pc[r] = "closing" => names[r] # stop.run
    /\ stop.pc = "hard" /\ stop.rec # NoRun /\ act.rec = stop.rec => act.run = stop.run
    /\ ClosedOnce

(* The turn a handover has still to close. *)
Predecessor(r) ==
    /\ prev[r] \in Runs /\ host[prev[r]] = r /\ prev[r] # names[r] /\ ended[prev[r]] = 0
    /\ prev[r] \in started \/ \E p \in given : p[1] = prev[r]

(* A handover: the successor is nobody's yet; afterwards the predecessor is *)
(* an open turn of the same runner.                                         *)
HandoverTrue ==
    /\ \A r \in Runs : pc[r] = "steering" /\ act.rec = r =>
            /\ act.trans \in Runs /\ pc[act.trans] = "steered" /\ host[act.trans] = r
            /\ act.trans \notin started /\ ended[act.trans] = 0 /\ names[act.trans] = NoRun
            /\ \A h \in Runs : names[h] # act.trans
    /\ \A r \in Runs : pc[r] = "handing" /\ r \notin cancelled => Predecessor(r)

SlotInv == /\ Types /\ AdmittingTrue /\ RunnersTrue /\ HeldTrue /\ DrivenTrue /\ UnsentTrue
           /\ ClosingTrue /\ HandoverTrue

-----------------------------------------------------------------------------
(* Facts about any state of the invariant. *)

LEMMA RunsFacts == NoRun \notin Runs /\ NoRun \in Ids /\ Runs \subseteq Ids
BY SlotAssumption DEF Runs, NoRun, Ids

LEMMA EmptyTyped == /\ NoTurn \in [adm : Ids, run : Ids]
                    /\ NoAct \in [rec : Ids, run : Ids, stop : BOOLEAN, trans : Ids]
BY RunsFacts DEF NoTurn, NoAct

(* The owner of a name is the turn that holds the chat (turn_slot_is_owned). *)
LEMMA HoldFacts ==
    ASSUME SlotInv
    PROVE  /\ cur = NoTurn => cur.adm = NoRun /\ cur.run = NoRun
           /\ cur # NoTurn => cur.adm \in Runs /\ cur.run = names[cur.adm] /\ cur.run \in Ids
           /\ act = NoAct => act.rec = NoRun /\ act.run = NoRun /\ act.trans = NoRun
           /\ act # NoAct => act.rec \in Runs /\ act.rec = cur.adm /\ act.run = cur.run /\ cur.run \in Runs
           /\ \A x \in Runs : Owns(x) <=> cur.run = x
           /\ \A x \in Runs : cur.run = x => cur # NoTurn /\ host[x] = cur.adm
<1>1. cur = NoTurn => cur.adm = NoRun /\ cur.run = NoRun
  BY DEF NoTurn
<1>2. cur # NoTurn => cur.adm \in Runs /\ cur.run = names[cur.adm] /\ cur.run \in Ids
  BY DEF SlotInv, HeldTrue, Types
<1>3. act = NoAct => act.rec = NoRun /\ act.run = NoRun /\ act.trans = NoRun
  BY DEF NoAct
<1>4. act # NoAct => act.rec \in Runs /\ act.rec = cur.adm /\ act.run = cur.run /\ cur.run \in Runs
  BY DEF SlotInv, HeldTrue
<1>5. \A x \in Runs : Owns(x) <=> cur.run = x
  BY <1>3, <1>4, RunsFacts DEF Owns
<1>6. \A x \in Runs : cur.run = x => cur # NoTurn /\ host[x] = cur.adm
  BY <1>1, <1>2, RunsFacts DEF SlotInv, RunnersTrue
<1>7. QED
  BY <1>1, <1>2, <1>3, <1>4, <1>5, <1>6

-----------------------------------------------------------------------------
(* Steps of one kind. *)

(* The slot record after a step of runner r that leaves the slot with its     *)
(* holder: bound, taken down, or with its transition settled.                 *)
Fits(a, r) ==
    /\ a \in [rec : Ids, run : Ids, stop : BOOLEAN, trans : Ids]
    /\ a # NoAct => cur # NoTurn /\ a.rec = cur.adm /\ a.run = cur.run /\ cur.run \in Runs
    /\ \/ a.rec = act.rec /\ a.run = act.run /\ a.trans = act.trans
       \/ a.rec = act.rec /\ a.run = act.run /\ a.rec = r
       \/ a.rec = NoRun
       \/ a.rec = r /\ stop.pc # "hard"

(* A runner goes on with its own turn, or ends its work on it, and perhaps    *)
(* gives its prompt.                                                          *)
Moves(r, w) ==
    /\ pc[r] \in Unfinished \ {"admit", "accepted", "closing"}
    /\ w \in {"spawned", "bound", "stream", "drain", "exit"}
    /\ w \in {"spawned", "bound"} => pc[r] \in Early
    /\ w = "stream" => pc[r] \in Early \cup {"stream", "steering", "handing", "opening"}
    /\ pc' = [pc EXCEPT ![r] = w]
    /\ \/ cancelled' = cancelled
       \/ cancelled' = cancelled \ {r} /\ how[r] = "sdk" /\ w = "drain"
    /\ Fits(act', r)
    /\ \/ given' = given
       \/ given' = given \cup {<<r, thread>>} /\ w = "stream"
    /\ UNCHANGED <<lock, cur, how, names, host, prev, thread, started, ended, stop, del>>

LEMMA MovesKeeps ==
    ASSUME SlotInv, NEW r \in Runs, NEW w, Moves(r, w)
    PROVE  SlotInv'
<1> USE DEF SlotInv
<1>1. /\ pc[r] \in Unfinished \ {"admit", "accepted", "closing"} /\ pc[r] \in PCs
      /\ w \in {"spawned", "bound", "stream", "drain", "exit"}
      /\ pc' = [pc EXCEPT ![r] = w] /\ pc' \in [Runs -> PCs]
      /\ pc'[r] = w /\ \A q \in Runs : q # r => pc'[q] = pc[q]
  BY DEF Moves, Types, PCs, Unfinished
<1>2. /\ lock' = lock /\ cur' = cur /\ how' = how /\ names' = names /\ host' = host /\ prev' = prev /\ thread' = thread
      /\ started' = started /\ ended' = ended /\ stop' = stop /\ del' = del
  BY DEF Moves
<1>3. cancelled' \subseteq cancelled /\ (\A q \in Runs : q # r => (q \in cancelled' <=> q \in cancelled))
      /\ (w # "drain" => cancelled' = cancelled)
  BY DEF Moves
<1>4. /\ given \subseteq given' /\ given' \subseteq Runs \X Nat
      /\ \A p \in given' : p[2] <= thread
      /\ \A q \in Runs : pc'[q] \in NotYet \cup Early => (<<q, thread>> \in given' => <<q, thread>> \in given)
  BY <1>1 DEF Moves, Types, NotYet, Early
<1>5. Types'
  BY <1>1, <1>2, <1>3, <1>4 DEF Types, Moves, Fits
<1>6. AdmittingTrue'
  BY <1>1, <1>2 DEF AdmittingTrue, Admitting
<1>7. RunnersTrue'
  <2>1. \A q \in Runs : pc'[q] \in NotYet => q \notin started' /\ names'[q] = NoRun /\ host'[q] = NoRun
    BY <1>1, <1>2 DEF RunnersTrue, NotYet
  <2>2. \A q \in Runs : pc'[q] \in Unfinished \ {"admit"} => host'[q] = q /\ names'[q] \in Runs
    BY <1>1, <1>2 DEF RunnersTrue
  <2>3. \A q \in Runs : pc'[q] \in Early => names'[q] = q
    BY <1>1, <1>2 DEF RunnersTrue, Moves, Early
  <2>4. \A q \in Runs : pc'[q] \in Unfinished \ Admitting =>
            names'[q] \in started' \/ \E p \in given' : p[1] = names'[q]
    BY <1>1, <1>2, <1>4 DEF RunnersTrue, Admitting
  <2>5. \A q \in Runs : names'[q] # NoRun => host'[names'[q]] = q
    BY <1>2 DEF RunnersTrue
  <2>6. \A q \in Runs : host'[q] # NoRun => pc'[host'[q]] \notin NotYet \cup {"steered"}
    BY <1>1, <1>2 DEF RunnersTrue, NotYet, Types, Ids
  <2>7. \A q, x \in Runs : host'[x] = q /\ (~Native(q)' \/ pc'[q] \in Early) => x = q
    BY <1>1, <1>2 DEF RunnersTrue, Native, Moves, Early
  <2>8. QED
    BY <2>1, <2>2, <2>3, <2>4, <2>5, <2>6, <2>7 DEF RunnersTrue
<1>8. HeldTrue'
  BY <1>1, <1>2 DEF HeldTrue, Moves, Fits, Unfinished
<1>9. DrivenTrue'
  <2>1. ASSUME NEW q \in Runs, pc'[q] \in Live, q \notin cancelled' PROVE cur'.adm = q
    <3>1. CASE q = r
      <4>1. w \in {"spawned", "bound", "stream"} /\ pc[r] \in Live /\ r \notin cancelled
        BY <1>1, <1>3, <2>1, <3>1 DEF Live, Moves, Early
      <4>2. QED
        BY <1>2, <3>1, <4>1 DEF DrivenTrue
    <3>2. CASE q # r
      BY <1>1, <1>2, <1>3, <2>1, <3>2 DEF DrivenTrue
    <3>3. QED
      BY <3>1, <3>2
  <2>2. ASSUME stop'.pc = "hard", NEW q \in Runs, pc'[q] \in Unfinished
        PROVE  q \in cancelled' \/ (how'[q] = "sdk" /\ pc'[q] \in {"drain", "closing", "exit"})
    <3>1. CASE q = r
      <4>1. r \in cancelled \/ (how[r] = "sdk" /\ pc[r] \in {"drain", "closing", "exit"})
        BY <1>1, <1>2, <2>2 DEF DrivenTrue
      <4>2. QED
        BY <1>1, <1>2, <3>1, <4>1 DEF Moves, Early
    <3>2. CASE q # r
      BY <1>1, <1>2, <1>3, <2>2, <3>2 DEF DrivenTrue
    <3>3. QED
      BY <3>1, <3>2
  <2>3. QED
    BY <2>1, <2>2 DEF DrivenTrue
<1>10. UnsentTrue'
  BY <1>1, <1>2, <1>4 DEF UnsentTrue, Moves, NotYet, Early
<1>11. ClosingTrue'
  BY <1>1, <1>2, RunsFacts DEF ClosingTrue, NotYet, Moves, Fits, ClosedOnce
<1>12. HandoverTrue'
  <2>2. \A q \in Runs : pc'[q] = "steering" /\ act'.rec = q => q # r /\ pc[q] = "steering" /\ act.rec = q
                                                               /\ act'.trans = act.trans
    BY <1>1, RunsFacts DEF Moves, Fits
  <2>3. \A q \in Runs : pc'[q] = "steered" <=> pc[q] = "steered"
    BY <1>1 DEF Unfinished
  <2>4. \A q \in Runs : pc'[q] = "steering" /\ act'.rec = q =>
            /\ act'.trans \in Runs /\ pc'[act'.trans] = "steered" /\ host'[act'.trans] = q
            /\ act'.trans \notin started' /\ ended'[act'.trans] = 0 /\ names'[act'.trans] = NoRun
            /\ \A h \in Runs : names'[h] # act'.trans
    BY <1>2, <2>2, <2>3 DEF HandoverTrue
  <2>5. \A q \in Runs : pc'[q] = "handing" /\ q \notin cancelled' =>
            q # r /\ pc[q] = "handing" /\ q \notin cancelled
    BY <1>1, <1>3
  <2>6. \A q \in Runs : pc'[q] = "handing" /\ q \notin cancelled' => Predecessor(q)'
    BY <1>2, <1>4, <2>5 DEF HandoverTrue, Predecessor
  <2>7. QED
    BY <2>4, <2>6 DEF HandoverTrue
<1>13. QED
  BY <1>5, <1>6, <1>7, <1>8, <1>9, <1>10, <1>11, <1>12

-----------------------------------------------------------------------------
(* What the steps are in the contract. *)

Implements == [Abstract!Next]_(Abstract!cvars)
Closed == {r \in Runs : ended[r] > 0}

LEMMA OwnerFacts ==
    ASSUME SlotInv
    PROVE  /\ cur = NoTurn <=> Owner = NoRun
           /\ cur.run # NoRun => Owner = cur.run
           /\ cur.run = NoRun => Owner = cur.adm
BY HoldFacts, RunsFacts DEF Owner

LEMMA StillImplements ==
    ASSUME cur' = cur, given' = given, started' = started, ended' = ended
    PROVE  Implements
BY DEF Implements, Abstract!cvars, Owner

(* The chat is given back. *)
LEMMA FreeImplements ==
    ASSUME SlotInv, cur' = NoTurn, given' = given, started' = started, ended' = ended
    PROVE  Implements
<1>1. Owner' = NoRun /\ Closed' = Closed
  BY DEF Owner, NoTurn, Closed
<1>2. CASE Owner = NoRun
  BY <1>1, <1>2 DEF Implements, Abstract!cvars, Closed
<1>3. CASE Owner # NoRun
  <2>1. Abstract!Free
    BY <1>1, <1>3 DEF Abstract!Free, Abstract!NoRun, NoRun, Closed
  <2>2. QED
    BY <2>1 DEF Implements, Abstract!Next
<1>4. QED
  BY <1>2, <1>3

(* A prompt is given. *)
LEMMA GiveImplements ==
    ASSUME NEW r \in Runs, given' = given \cup {<<r, thread>>}, <<r, thread>> \notin given,
           Owner = r \/ (Owner # NoRun /\ r \notin started), ended[r] = 0,
           cur' = cur, started' = started, ended' = ended
    PROVE  Implements
<1>1. Owner' = Owner /\ Closed' = Closed /\ r \notin Closed
  BY DEF Owner, Closed
<1>2. Abstract!Give(r, thread)
  BY <1>1 DEF Abstract!Give, Abstract!NoRun, NoRun, Closed
<1>3. <<r, thread>> \in given' /\ <<r, thread>>[2] = thread
  OBVIOUS
<1>4. \E p \in given' : Abstract!Give(r, p[2])
  <2>1. Abstract!Give(r, <<r, thread>>[2])
    BY <1>2, <1>3
  <2>2. QED
    BY <1>3, <2>1
<1>5. QED
  BY <1>4 DEF Implements, Abstract!Next

(* A turn is closed, and the chat perhaps given back with it. *)
LEMMA CloseImplements ==
    ASSUME SlotInv, NEW x \in Runs, x \in started \/ \E p \in given : p[1] = x, ended[x] = 0,
           ended' = [ended EXCEPT ![x] = @ + 1], cur' = cur \/ cur' = NoTurn,
           given' = given, started' = started
    PROVE  Implements
<1>1. Owner' \in {Owner, NoRun}
  BY DEF Owner, NoTurn
<1>2. Closed' = Closed \cup {x} /\ x \notin Closed
  <2>1. ended \in [Runs -> Nat]
    BY DEF SlotInv, Types
  <2>2. QED
    BY <2>1 DEF Closed
<1>3. started' = started \cup {}
  OBVIOUS
<1>4. Abstract!Close(x, {})
  BY <1>1, <1>2, <1>3 DEF Abstract!Close, Abstract!NoRun, NoRun, Closed
<1>5. QED
  BY <1>4 DEF Implements, Abstract!Next

(* A turn is opened in the transcript. *)
LEMMA OpenImplements ==
    ASSUME NEW x \in Runs, Owner = x, started' = started \cup {x},
           cur' = cur, given' = given, ended' = ended
    PROVE  Implements
<1>1. Owner' = Owner /\ Closed' = Closed
  BY DEF Owner, Closed
<1>2. CASE x \in started
  <2>1. started' = started
    BY <1>2
  <2>2. QED
    BY <2>1, StillImplements
<1>3. CASE x \notin started
  <2>1. Abstract!Open(x)
    BY <1>1, <1>3 DEF Abstract!Open, Closed
  <2>2. QED
    BY <2>1 DEF Implements, Abstract!Next
<1>4. QED
  BY <1>2, <1>3

(* The invariant with the contract: what each action is shown to keep. *)
Good == SlotInv' /\ Implements

(* A runner's own step. *)
LEMMA MovesGood ==
    ASSUME SlotInv, NEW r \in Runs, NEW w, Moves(r, w),
           given' = given \/ (/\ Owner = r /\ <<r, thread>> \notin given /\ ended[r] = 0
                              /\ given' = given \cup {<<r, thread>>})
    PROVE  Good
<1>1. SlotInv'
  BY MovesKeeps
<1>2. cur' = cur /\ started' = started /\ ended' = ended
  BY DEF Moves
<1>3. CASE given' = given
  BY <1>1, <1>2, <1>3, StillImplements DEF Good
<1>4. CASE given' # given
  BY <1>1, <1>2, <1>4, GiveImplements DEF Good
<1>5. QED
  BY <1>3, <1>4

-----------------------------------------------------------------------------
(* The provider runners. *)

LEMMA FitsFacts ==
    ASSUME SlotInv, NEW r \in Runs
    PROVE  /\ Fits(act, r) /\ Fits(NoAct, r)
           /\ act.rec = r => Fits([act EXCEPT !.trans = NoRun], r)
<1>1. act \in [rec : Ids, run : Ids, stop : BOOLEAN, trans : Ids]
  BY DEF SlotInv, Types
<1>2. Fits(act, r)
  BY <1>1 DEF SlotInv, HeldTrue, Fits
<1>3. NoAct \in [rec : Ids, run : Ids, stop : BOOLEAN, trans : Ids] /\ NoAct.rec = NoRun
  BY RunsFacts DEF NoAct
<1>4. ASSUME act.rec = r PROVE Fits([act EXCEPT !.trans = NoRun], r)
  <2>1. act # NoAct
    BY <1>4, RunsFacts DEF NoAct
  <2>2. /\ [act EXCEPT !.trans = NoRun] \in [rec : Ids, run : Ids, stop : BOOLEAN, trans : Ids]
        /\ [act EXCEPT !.trans = NoRun].rec = act.rec /\ [act EXCEPT !.trans = NoRun].run = act.run
    BY <1>1, RunsFacts
  <2>3. QED
    BY <1>4, <2>1, <2>2 DEF SlotInv, HeldTrue, Fits
<1>5. QED
  BY <1>2, <1>3, <1>4 DEF Fits

(* clear_active_process *)
LEMMA ClearFits ==
    ASSUME SlotInv, NEW r \in Runs, ClearActive(r)
    PROVE  Fits(act', r) /\ cur' = cur
BY FitsFacts DEF ClearActive

(* bind_active_turn by an uncancelled runner of the turn that holds the chat. *)
LEMMA BindFits ==
    ASSUME SlotInv, NEW r \in Runs, pc[r] \in Live, r \notin cancelled, CanBind(r), BindActive(r)
    PROVE  Fits(act', r) /\ cur' = cur
<1>1. act' = [rec |-> r, run |-> r, stop |-> StopSeen(r), trans |-> NoRun] /\ cur' = cur
  BY DEF BindActive
<1>2. StopSeen(r) \in BOOLEAN
  BY DEF StopSeen
<1>3. act' \in [rec : Ids, run : Ids, stop : BOOLEAN, trans : Ids] /\ act'.rec = r /\ act'.run = r
  BY <1>1, <1>2, RunsFacts
<1>4. cur # NoTurn /\ cur.run = r /\ cur.adm = r
  BY DEF CanBind, Busy, SlotInv, DrivenTrue
<1>5. stop.pc # "hard"
  BY DEF SlotInv, DrivenTrue, Live, Unfinished
<1>6. QED
  BY <1>1, <1>3, <1>4, <1>5 DEF Fits

(* What is known of a runner before it has sent anything. *)
LEMMA EarlyFacts ==
    ASSUME SlotInv, NEW r \in Runs, pc[r] \in Early, r \notin cancelled
    PROVE  /\ cur.adm = r /\ cur.run = r /\ Owner = r /\ names[r] = r
           /\ <<r, thread>> \notin given /\ ended[r] = 0
<1>1. pc[r] \in Live
  BY DEF Early, Live
<1>2. cur.adm = r
  BY <1>1 DEF SlotInv, DrivenTrue
<1>3. names[r] = r /\ <<r, thread>> \notin given
  BY DEF SlotInv, RunnersTrue, UnsentTrue
<1>4. cur # NoTurn
  BY <1>2, RunsFacts DEF NoTurn
<1>5. cur.run = r
  BY <1>2, <1>3, <1>4 DEF SlotInv, HeldTrue
<1>6. QED
  BY <1>2, <1>3, <1>5, RunsFacts DEF Owner, SlotInv, ClosingTrue

LEMMA SpawnGood == ASSUME SlotInv, NEW r \in Runs, Spawn(r) PROVE Good
<1>1. Moves(r, "spawned")
  BY FitsFacts DEF Spawn, Go, Moves, Unfinished, Early, slot, runner, events, others
<1>2. QED
  BY <1>1, MovesGood DEF Spawn

LEMMA BindProcessGood == ASSUME SlotInv, NEW r \in Runs, BindProcess(r) PROVE Good
<1>1. pc[r] = "spawned" /\ r \notin cancelled /\ pc[r] \in Live /\ pc[r] \in Early /\ pc[r] \in Unfinished
  BY DEF BindProcess, Live, Early, Unfinished
<1>2. /\ lock' = lock /\ how' = how /\ names' = names /\ host' = host /\ prev' = prev /\ thread' = thread /\ given' = given
      /\ started' = started /\ ended' = ended /\ stop' = stop /\ del' = del /\ cancelled' = cancelled
  BY DEF BindProcess, runner, events, others
<1>3. CASE CanBind(r)
  <2>1. BindActive(r) /\ Go(r, "bound")
    BY <1>3 DEF BindProcess
  <2>2. Moves(r, "bound")
    BY <1>1, <1>2, <1>3, <2>1, BindFits DEF Go, Moves
  <2>3. QED
    BY <1>2, <2>2, MovesGood
<1>4. CASE ~CanBind(r)
  <2>1. UNCHANGED slot /\ Go(r, "exit")
    BY <1>4 DEF BindProcess
  <2>2. Moves(r, "exit")
    BY <1>1, <1>2, <2>1, FitsFacts DEF Go, Moves, slot
  <2>3. QED
    BY <1>2, <2>2, MovesGood
<1>5. QED
  BY <1>3, <1>4

LEMMA BindNativeGood == ASSUME SlotInv, NEW r \in Runs, BindNative(r) PROVE Good
<1>1. pc[r] = "task" /\ r \notin cancelled /\ pc[r] \in Live /\ pc[r] \in Early /\ pc[r] \in Unfinished
  BY DEF BindNative, Live, Early, Unfinished
<1>2. /\ lock' = lock /\ how' = how /\ names' = names /\ host' = host /\ prev' = prev /\ thread' = thread /\ given' = given
      /\ started' = started /\ ended' = ended /\ stop' = stop /\ del' = del /\ cancelled' = cancelled
  BY DEF BindNative, runner, events, others
<1>3. CASE CanBind(r)
  <2>1. PICK w \in {"drain", "bound"} : Go(r, w)
    BY <1>3 DEF BindNative
  <2>2. BindActive(r)
    BY <1>3 DEF BindNative
  <2>3. Moves(r, w)
    BY <1>1, <1>2, <1>3, <2>1, <2>2, BindFits DEF Go, Moves
  <2>4. QED
    BY <1>2, <2>3, MovesGood
<1>4. CASE ~CanBind(r)
  <2>1. UNCHANGED slot /\ Go(r, "exit")
    BY <1>4 DEF BindNative
  <2>2. Moves(r, "exit")
    BY <1>1, <1>2, <2>1, FitsFacts DEF Go, Moves, slot
  <2>3. QED
    BY <1>2, <2>2, MovesGood
<1>5. QED
  BY <1>3, <1>4

(* The prompt is written to the process. *)
LEMMA FeedGood == ASSUME SlotInv, NEW r \in Runs, FeedProcess(r) PROVE Good
<1>1. pc[r] = "bound" /\ r \notin cancelled /\ pc[r] \in Early /\ pc[r] \in Unfinished
  BY DEF FeedProcess, Early, Unfinished
<1>2. Owner = r /\ <<r, thread>> \notin given /\ ended[r] = 0
  BY <1>1, EarlyFacts
<1>3. given' = given \/ given' = given \cup {<<r, thread>>}
  BY DEF FeedProcess
<1>4. Moves(r, "stream")
  BY <1>1, <1>3, FitsFacts DEF FeedProcess, Go, Moves, slot, runner, events, others
<1>5. QED
  BY <1>2, <1>3, <1>4, MovesGood

LEMMA StartNativeGood == ASSUME SlotInv, NEW r \in Runs, StartNative(r) PROVE Good
<1>1. pc[r] = "bound" /\ r \notin cancelled /\ pc[r] \in Early /\ pc[r] \in Unfinished
  BY DEF StartNative, Early, Unfinished
<1>2. Owner = r /\ <<r, thread>> \notin given /\ ended[r] = 0
  BY <1>1, EarlyFacts
<1>3. CASE StillWanted(r)
  <2>1. given' = given \cup {<<r, thread>>} /\ Go(r, "stream")
    BY <1>3 DEF StartNative
  <2>2. Moves(r, "stream")
    BY <1>1, <2>1, FitsFacts DEF StartNative, Go, Moves, slot, runner, events, others
  <2>3. QED
    BY <1>2, <2>1, <2>2, MovesGood
<1>4. CASE ~StillWanted(r)
  <2>1. given' = given
    BY <1>4 DEF StartNative
  <2>2. PICK w \in {"drain", "exit"} : Go(r, w)
    BY <1>4 DEF StartNative
  <2>3. Moves(r, w)
    BY <1>1, <2>1, <2>2, FitsFacts DEF StartNative, Go, Moves, slot, runner, events, others
  <2>4. QED
    BY <2>1, <2>3, MovesGood
<1>5. QED
  BY <1>3, <1>4

LEMMA StartNativeFailsGood == ASSUME SlotInv, NEW r \in Runs, StartNativeFails(r) PROVE Good
<1>1. Moves(r, "drain")
  BY FitsFacts DEF StartNativeFails, Go, Moves, Unfinished, slot, runner, events, others
<1>2. QED
  BY <1>1, MovesGood DEF StartNativeFails

LEMMA NativeEndsGood == ASSUME SlotInv, NEW r \in Runs, NativeEnds(r) PROVE Good
<1>1. Moves(r, "drain")
  BY FitsFacts DEF NativeEnds, Go, Moves, Unfinished, slot, runner, events, others
<1>2. QED
  BY <1>1, MovesGood DEF NativeEnds

LEMMA ProcessEndsGood == ASSUME SlotInv, NEW r \in Runs, ProcessEnds(r) PROVE Good
<1>1. Fits(act', r) /\ cur' = cur
  BY ClearFits DEF ProcessEnds
<1>2. Moves(r, "drain")
  BY <1>1 DEF ProcessEnds, Go, Moves, Unfinished, slot, runner, events, others
<1>3. QED
  BY <1>2, MovesGood DEF ProcessEnds

(* A steer whose delivery is in doubt ends the turn. *)
LEMMA SteerUncertainGood == ASSUME SlotInv, NEW r \in Runs, SteerUncertain(r) PROVE Good
<1>1. act.rec = r /\ act' = [act EXCEPT !.trans = NoRun]
  BY DEF SteerUncertain
<1>2. Fits(act', r)
  BY <1>1, FitsFacts
<1>3. Moves(r, "drain") \/ Moves(r, "stream")
  BY <1>2 DEF SteerUncertain, Breaks, Go, Moves, Unfinished, slot, runner, events, others
<1>4. QED
  BY <1>3, MovesGood DEF SteerUncertain

LEMMA SteerEventsFailGood == ASSUME SlotInv, NEW r \in Runs, SteerEventsFail(r) PROVE Good
<1>1. act' = IF act.rec = r THEN [act EXCEPT !.trans = NoRun] ELSE act
  BY DEF SteerEventsFail
<1>2. Fits(act', r)
  BY <1>1, FitsFacts
<1>3. Moves(r, "drain") \/ Moves(r, "stream")
  BY <1>2 DEF SteerEventsFail, Breaks, Go, Moves, Unfinished, slot, runner, events, others
<1>4. QED
  BY <1>3, MovesGood DEF SteerEventsFail

(* A cancelled task unwinds. *)
LEMMA UnwindGood == ASSUME SlotInv, NEW r \in Runs, Unwind(r) PROVE Good
<1>1. UNCHANGED <<lock, how, names, host, prev, thread, given, started, ended, stop, del>>
  BY DEF Unwind, others
<1>2. pc[r] \in {"task", "spawned", "bound", "stream", "steering", "handing", "opening", "drain"}
  BY DEF Unwind
<1>3. CASE /\ how[r] = "sdk" /\ Go(r, "drain") /\ cancelled' = cancelled \ {r} /\ UNCHANGED slot
  <2>1. Fits(act', r) /\ cur' = cur
    BY <1>3, FitsFacts DEF slot
  <2>2. Moves(r, "drain")
    BY <1>1, <1>2, <1>3, <2>1 DEF Go, Moves, Unfinished
  <2>3. QED
    BY <1>1, <2>2, MovesGood
<1>4. CASE Go(r, "exit") /\ cancelled' = cancelled /\ (UNCHANGED slot \/ ClearActive(r))
  <2>1. Fits(act', r) /\ cur' = cur
    BY <1>4, FitsFacts, ClearFits DEF slot
  <2>2. Moves(r, "exit")
    BY <1>1, <1>2, <1>4, <2>1 DEF Go, Moves, Unfinished
  <2>3. QED
    BY <1>1, <2>2, MovesGood
<1>5. QED
  BY <1>3, <1>4 DEF Unwind

-----------------------------------------------------------------------------
(* The chat is given back by the runner that holds it (release_turn_slot). *)

Releases(r) ==
    /\ pc[r] \in {"task", "drain"} /\ r \notin cancelled /\ cur.run = names[r]
    /\ cur' = NoTurn /\ act' = NoAct /\ pc' = [pc EXCEPT ![r] = "closing"]
    /\ UNCHANGED <<lock, how, names, host, prev, cancelled, thread, given, started, ended, stop, del>>

LEMMA ReleasesGood ==
    ASSUME SlotInv, NEW r \in Runs, Releases(r)
    PROVE  Good
<1> USE DEF SlotInv
<1>1. /\ pc[r] \in {"task", "drain"} /\ r \notin cancelled /\ cur' = NoTurn /\ act' = NoAct
      /\ cur'.adm = NoRun /\ cur'.run = NoRun /\ act'.rec = NoRun /\ act'.trans = NoRun
      /\ pc' \in [Runs -> PCs] /\ pc'[r] = "closing" /\ \A q \in Runs : q # r => pc'[q] = pc[q]
  BY DEF Releases, Types, PCs, Unfinished, NoTurn, NoAct
<1>2. /\ lock' = lock /\ how' = how /\ names' = names /\ host' = host /\ prev' = prev /\ thread' = thread
      /\ started' = started /\ ended' = ended /\ stop' = stop /\ del' = del
      /\ cancelled' = cancelled /\ given' = given
  BY DEF Releases
<1>3. names[r] \in Runs /\ host[names[r]] = r /\ cur # NoTurn /\ cur.adm = r
  <2>1. names[r] \in Runs /\ cur.run = names[r]
    BY <1>1 DEF Releases, RunnersTrue, Unfinished
  <2>2. host[names[r]] = r
    BY <2>1, RunsFacts DEF RunnersTrue
  <2>3. QED
    BY <2>1, <2>2, HoldFacts
<1>4. Types'
  BY <1>1, <1>2, RunsFacts DEF Types, NoTurn, NoAct
<1>5. AdmittingTrue'
  BY <1>1, <1>2 DEF AdmittingTrue, Admitting
<1>6. RunnersTrue'
  <2>1. \A q \in Runs : /\ pc'[q] \in NotYet => pc[q] \in NotYet
                        /\ pc'[q] \in Unfinished \ {"admit"} => pc[q] \in Unfinished \ {"admit"}
                        /\ pc'[q] \in Early => pc[q] \in Early
                        /\ pc'[q] \in Unfinished \ Admitting => pc[q] \in Unfinished \ Admitting
                        /\ pc'[q] \in NotYet \cup {"steered"} => pc[q] \in NotYet \cup {"steered"}
    BY <1>1 DEF NotYet, Unfinished, Early, Admitting
  <2>2. \A q \in Runs : host[q] # NoRun => pc'[host[q]] \notin NotYet \cup {"steered"}
    BY <2>1 DEF RunnersTrue, Types, Ids
  <2>3. QED
    BY <1>2, <2>1, <2>2 DEF RunnersTrue, Native
<1>7. HeldTrue'
  BY <1>1 DEF HeldTrue
<1>8. DrivenTrue'
  <2>1. \A q \in Runs : pc'[q] \notin Live \/ q \in cancelled'
    BY <1>1, <1>2, <1>3 DEF DrivenTrue, Live
  <2>2. stop.pc = "hard" => how[r] = "sdk"
    BY <1>1 DEF DrivenTrue, Unfinished
  <2>3. QED
    BY <1>1, <1>2, <2>1, <2>2 DEF DrivenTrue
<1>9. UnsentTrue'
  BY <1>1, <1>2 DEF UnsentTrue, NotYet, Early
<1>10. ClosingTrue'
  <2>1. ended[names[r]] = 0
    BY <1>3, RunsFacts DEF ClosingTrue, Releases
  <2>2. stop.pc # "closing"
    BY <1>3 DEF ClosingTrue
  <2>3. \A q \in Runs : pc'[q] = "closing" => names[q] \in Runs
    BY <1>1, <1>3 DEF RunnersTrue, Unfinished
  <2>4. QED
    BY <1>1, <1>2, <2>1, <2>2, <2>3, RunsFacts DEF ClosingTrue, NotYet, ClosedOnce
<1>11. HandoverTrue'
  BY <1>1, <1>2, RunsFacts DEF HandoverTrue, Predecessor
<1>12. SlotInv'
  BY <1>4, <1>5, <1>6, <1>7, <1>8, <1>9, <1>10, <1>11
<1>13. QED
  BY <1>1, <1>2, <1>12, FreeImplements DEF Good

LEMMA SpawnFailsGood == ASSUME SlotInv, NEW r \in Runs, SpawnFails(r) PROVE Good
<1>1. pc[r] = "task" /\ pc[r] \in Early /\ r \notin cancelled
  BY DEF SpawnFails, Early
<1>2. cur.run = r /\ names[r] = r /\ MayRelease(r)
  BY <1>1, EarlyFacts, HoldFacts DEF MayRelease
<1>3. Releases(r)
  BY <1>1, <1>2 DEF SpawnFails, Release, ClearSlot, Go, Releases, runner, events, others
<1>4. QED
  BY <1>3, ReleasesGood

(* finalize_owned_turn_finished: release, if the run still holds the chat. *)
LEMMA FinalizeReleaseGood == ASSUME SlotInv, NEW r \in Runs, FinalizeRelease(r) PROVE Good
<1>1. pc[r] = "drain" /\ r \notin cancelled /\ names[r] \in Runs
  BY DEF FinalizeRelease, SlotInv, RunnersTrue, Unfinished
<1>2. CASE MayRelease(names[r])
  <2>1. cur.run = names[r]
    BY <1>1, <1>2, HoldFacts DEF MayRelease
  <2>2. Releases(r)
    BY <1>1, <1>2, <2>1 DEF FinalizeRelease, Release, ClearSlot, Go, Releases, runner, events, others
  <2>3. QED
    BY <2>2, ReleasesGood
<1>3. CASE ~MayRelease(names[r])
  <2>1. Moves(r, "exit") /\ given' = given
    BY <1>1, <1>3, FitsFacts DEF FinalizeRelease, Release, Go, Moves, Unfinished, slot, runner, events, others
  <2>2. QED
    BY <2>1, MovesGood
<1>4. QED
  BY <1>2, <1>3

-----------------------------------------------------------------------------
(* A turn ends for its own task: the terminal event, and the chat if it     *)
(* still holds it.                                                          *)

Leaves(r, w) ==
    /\ pc[r] \in {"closing", "exit", "admit", "accepted"} /\ w \in {"exit", "done"}
    /\ w = "exit" => pc[r] = "closing"
    /\ pc' = [pc EXCEPT ![r] = w]
    /\ IF cur.adm = r THEN cur' = NoTurn /\ act' = NoAct ELSE UNCHANGED <<cur, act>>
    /\ \/ lock' = lock /\ pc[r] \notin Admitting
       \/ lock' = "free" /\ pc[r] \in Admitting
    /\ \/ ended' = ended
       \/ /\ names[r] \in Runs /\ ended[names[r]] = 0
          /\ ended' = [ended EXCEPT ![names[r]] = @ + 1]
          /\ pc[r] \in {"closing", "accepted"} \/ cur.adm = r
          /\ names[r] \in started \/ \E p \in given : p[1] = names[r]
    /\ UNCHANGED <<how, names, host, prev, cancelled, thread, given, started, stop, del>>

LEMMA LeavesGood ==
    ASSUME SlotInv, NEW r \in Runs, NEW w, Leaves(r, w)
    PROVE  Good
<1> USE DEF SlotInv
<1>1. /\ pc[r] \in {"closing", "exit", "admit", "accepted"} /\ w \in {"exit", "done"}
      /\ pc' \in [Runs -> PCs] /\ pc'[r] = w /\ \A q \in Runs : q # r => pc'[q] = pc[q]
  BY DEF Leaves, Types, PCs, Unfinished
<1>2. /\ how' = how /\ names' = names /\ host' = host /\ prev' = prev /\ thread' = thread
      /\ started' = started /\ stop' = stop /\ del' = del
      /\ cancelled' = cancelled /\ given' = given
  BY DEF Leaves
<1>3. /\ cur.adm = r => cur' = NoTurn /\ act' = NoAct /\ cur'.adm = NoRun /\ cur'.run = NoRun
                        /\ act'.rec = NoRun /\ act'.trans = NoRun /\ cur # NoTurn
      /\ cur.adm # r => cur' = cur /\ act' = act
  BY RunsFacts DEF Leaves, NoTurn, NoAct
<1>4. \A q \in Runs : ended[q] <= ended'[q] /\ ended'[q] \in Nat /\ ended'[q] <= 1
                      /\ (ended'[q] # ended[q] => names[r] = q /\ ended[q] = 0)
  BY DEF Leaves, Types, ClosingTrue, ClosedOnce
<1>5. ended' \in [Runs -> Nat]
  BY DEF Leaves, Types
<1>6. ASSUME ended' # ended
      PROVE  /\ names[r] \in Runs /\ host[names[r]] = r
             /\ pc[r] \in {"closing", "accepted"} \/ cur.adm = r
  BY <1>6, RunsFacts DEF Leaves, RunnersTrue
<1>7. Types'
  BY <1>1, <1>2, <1>3, <1>5, EmptyTyped DEF Types
<1>8. AdmittingTrue'
  <2>1. \A q \in Runs : pc'[q] \in Admitting => q # r /\ pc[q] \in Admitting
    BY <1>1 DEF Admitting
  <2>2. CASE pc[r] \in Admitting
    <3>1. \A q \in Runs : pc'[q] \notin Admitting
      BY <2>1, <2>2 DEF AdmittingTrue
    <3>2. lock = "start"
      BY <2>2 DEF AdmittingTrue
    <3>3. del \notin {"asked", "waiting"}
      BY <3>2 DEF AdmittingTrue
    <3>4. QED
      BY <1>2, <3>1, <3>3 DEF AdmittingTrue
  <2>3. CASE pc[r] \notin Admitting
    <3>1. lock' = lock
      BY <2>3 DEF Leaves
    <3>2. QED
      BY <1>2, <2>1, <3>1 DEF AdmittingTrue
  <2>4. QED
    BY <2>2, <2>3
<1>9. RunnersTrue'
  <2>1. \A q \in Runs : /\ pc'[q] \in NotYet => pc[q] \in NotYet
                        /\ pc'[q] \in Unfinished \ {"admit"} => pc[q] \in Unfinished \ {"admit"}
                        /\ pc'[q] \in Early => pc[q] \in Early
                        /\ pc'[q] \in Unfinished \ Admitting => pc[q] \in Unfinished \ Admitting
                        /\ pc'[q] \in NotYet \cup {"steered"} => pc[q] \in NotYet \cup {"steered"}
    BY <1>1 DEF NotYet, Unfinished, Early, Admitting, Leaves
  <2>2. \A q \in Runs : host[q] # NoRun => pc'[host[q]] \notin NotYet \cup {"steered"}
    BY <2>1 DEF RunnersTrue, Types, Ids
  <2>3. QED
    BY <1>2, <2>1, <2>2 DEF RunnersTrue, Native
<1>10. HeldTrue'
  BY <1>1, <1>2, <1>3 DEF HeldTrue
<1>11. DrivenTrue'
  <2>1. ASSUME NEW q \in Runs, pc'[q] \in Live, q \notin cancelled' PROVE cur'.adm = q
    <3>1. q # r /\ pc[q] \in Live /\ q \notin cancelled
      BY <1>1, <1>2, <2>1 DEF Live
    <3>2. QED
      BY <1>3, <3>1 DEF DrivenTrue
  <2>2. ASSUME stop'.pc = "hard", NEW q \in Runs, pc'[q] \in Unfinished
        PROVE  q \in cancelled' \/ (how'[q] = "sdk" /\ pc'[q] \in {"drain", "closing", "exit"})
    BY <1>1, <1>2, <2>2 DEF DrivenTrue, Leaves, Unfinished
  <2>3. QED
    BY <2>1, <2>2 DEF DrivenTrue
<1>12. UnsentTrue'
  BY <1>1, <1>2 DEF UnsentTrue, NotYet, Early
<1>13. ClosingTrue'
  <2>1. ASSUME NEW q \in Runs, pc'[q] \in NotYet \cup {"accepted"} PROVE ended'[q] = 0
    <3>1. q # r /\ pc[q] \in NotYet \cup {"accepted"} /\ ended[q] = 0
      BY <1>1, <2>1 DEF NotYet, ClosingTrue
    <3>2. host[q] # r
      BY <3>1, RunsFacts DEF RunnersTrue, Unfinished
    <3>3. QED
      BY <1>4, <1>6, <3>1, <3>2
  <2>2. cur'.run # NoRun => cur' = cur /\ cur.run \in Runs /\ ended[cur.run] = 0 /\ host[cur.run] = cur.adm /\ cur.adm # r
    BY <1>3, HoldFacts, RunsFacts DEF ClosingTrue, Types, Ids
  <2>3. cur'.run # NoRun => ended'[cur'.run] = 0
    BY <1>4, <1>6, <2>2
  <2>4. \A q \in Runs : pc'[q] = "closing" => ended'[names'[q]] = 0 /\ cur'.run # names'[q]
    <3>1. SUFFICES ASSUME NEW q \in Runs, pc'[q] = "closing"
                   PROVE  ended'[names[q]] = 0 /\ cur'.run # names[q]
      BY <1>2
    <3>2. q # r /\ pc[q] = "closing" /\ names[q] \in Runs /\ host[names[q]] = q
      BY <1>1, <3>1, RunsFacts DEF RunnersTrue, Unfinished
    <3>3. ended[names[q]] = 0 /\ cur.run # names[q]
      BY <3>2 DEF ClosingTrue
    <3>4. QED
      BY <1>3, <1>4, <1>6, <3>2, <3>3, RunsFacts
  <2>5. ASSUME stop'.pc = "closing"
        PROVE  /\ cur' = NoTurn /\ stop'.run \in started' /\ ended'[stop'.run] = 0
               /\ \A q \in Runs : pc'[q] = "closing" => names'[q] # stop'.run
    <3>1. /\ cur = NoTurn /\ stop.run \in started /\ ended[stop.run] = 0
          /\ \A q \in Runs : pc[q] = "closing" => names[q] # stop.run
      BY <1>2, <2>5 DEF ClosingTrue
    <3>2. cur.adm # r /\ stop.run \in Runs /\ pc[r] # "accepted"
      BY <1>2, <2>5, <3>1, RunsFacts DEF NoTurn, Types, AdmittingTrue, Admitting
    <3>3. ended'[stop.run] = 0
      BY <1>4, <1>6, <3>1, <3>2
    <3>4. QED
      BY <1>1, <1>2, <1>3, <3>1, <3>2, <3>3
  <2>6. stop'.pc = "hard" /\ stop'.rec # NoRun /\ act'.rec = stop'.rec => act'.run = stop'.run
    BY <1>2, <1>3 DEF ClosingTrue
  <2>7. QED
    BY <1>4, <2>1, <2>3, <2>4, <2>5, <2>6 DEF ClosingTrue, ClosedOnce
<1>14. HandoverTrue'
  <2>2. ASSUME NEW q \in Runs, pc'[q] = "steering", act'.rec = q
        PROVE  /\ act'.trans \in Runs /\ pc'[act'.trans] = "steered" /\ host'[act'.trans] = q
               /\ act'.trans \notin started' /\ ended'[act'.trans] = 0 /\ names'[act'.trans] = NoRun
               /\ \A h \in Runs : names'[h] # act'.trans
    <3>1. q # r /\ pc[q] = "steering" /\ act' = act
      BY <1>1, <1>3, <2>2, RunsFacts
    <3>2. /\ act.trans \in Runs /\ pc[act.trans] = "steered" /\ host[act.trans] = q
          /\ act.trans \notin started /\ ended[act.trans] = 0 /\ names[act.trans] = NoRun
          /\ \A h \in Runs : names[h] # act.trans
      BY <2>2, <3>1 DEF HandoverTrue
    <3>3. act.trans # r
      BY <1>1, <3>2
    <3>4. ended'[act.trans] = 0
      BY <1>4, <3>2
    <3>5. QED
      BY <1>1, <1>2, <3>1, <3>2, <3>3, <3>4
  <2>3. \A q \in Runs : pc'[q] = "handing" => pc[q] = "handing" /\ q # r
    BY <1>1
  <2>4. ASSUME NEW q \in Runs, pc'[q] = "handing", q \notin cancelled' PROVE Predecessor(q)'
    <3>1. q # r /\ Predecessor(q)
      BY <1>2, <2>3, <2>4 DEF HandoverTrue
    <3>2. ended'[prev[q]] = 0
      BY <1>4, <1>6, <3>1 DEF Predecessor
    <3>3. QED
      BY <1>2, <3>1, <3>2 DEF Predecessor
  <2>6. QED
    BY <2>2, <2>4 DEF HandoverTrue
<1>15. SlotInv'
  BY <1>7, <1>8, <1>9, <1>10, <1>11, <1>12, <1>13, <1>14
<1>16. CASE ended' = ended
  BY <1>2, <1>3, <1>15, <1>16, StillImplements, FreeImplements DEF Good
<1>17. CASE ended' # ended
  BY <1>2, <1>3, <1>15, <1>17, CloseImplements DEF Good, Leaves
<1>18. QED
  BY <1>16, <1>17

(* Only the run that released its slot writes the terminal event. *)
LEMMA FinalizeEventGood == ASSUME SlotInv, NEW r \in Runs, FinalizeEvent(r) PROVE Good
<1>1. pc[r] = "closing" /\ pc[r] \in Unfinished \ Admitting
  BY DEF FinalizeEvent, Unfinished, Admitting
<1>2. /\ names[r] \in Runs /\ ended[names[r]] = 0
      /\ names[r] \in started \/ \E p \in given : p[1] = names[r]
  BY <1>1 DEF SlotInv, RunnersTrue, ClosingTrue
<1>3. cur.adm # r
  BY <1>1, HoldFacts, RunsFacts DEF SlotInv, HeldTrue
<1>4. Leaves(r, "exit")
  BY <1>1, <1>2, <1>3 DEF FinalizeEvent, Terminal, Go, Leaves, Admitting, slot, runner, others
<1>5. QED
  BY <1>4, LeavesGood

(* reconcile_provider_task_exit: it holds the chat exactly when it may release it. *)
LEMMA ReconcileExitGood == ASSUME SlotInv, NEW r \in Runs, ReconcileExit(r) PROVE Good
<1>1. pc[r] = "exit" /\ pc[r] \in Unfinished \ Admitting
  BY DEF ReconcileExit, Unfinished, Admitting
<1>2. /\ names[r] \in Runs /\ host[names[r]] = r
      /\ names[r] \in started \/ \E p \in given : p[1] = names[r]
  BY <1>1, RunsFacts DEF SlotInv, RunnersTrue, Admitting
<1>3. MayRelease(names[r]) <=> cur.adm = r
  BY <1>2, HoldFacts, RunsFacts DEF MayRelease
<1>4. /\ IF cur.adm = r THEN cur' = NoTurn /\ act' = NoAct ELSE UNCHANGED <<cur, act>>
  BY <1>3 DEF ReconcileExit, Release, ClearSlot, slot
<1>5. Leaves(r, "done")
  BY <1>1, <1>2, <1>3, <1>4 DEF ReconcileExit, Terminal, Go, Leaves, Admitting, runner, others
<1>6. QED
  BY <1>5, LeavesGood

(* settle_precommit_failure *)
LEMMA SettleGood == ASSUME SlotInv, NEW r \in Runs, SettlePrecommitFailure(r) PROVE Good
<1>1. pc[r] \in {"admit", "accepted"}
  BY DEF SettlePrecommitFailure
<1>2. /\ pc[r] = "admit" => names[r] = NoRun /\ r \notin started
      /\ pc[r] = "accepted" => names[r] = r /\ host[r] = r /\ ended[r] = 0
  BY <1>1 DEF SlotInv, RunnersTrue, ClosingTrue, NotYet, Early, Unfinished
<1>3. \/ names[r] = r /\ MayRelease(r)
      \/ names[r] = NoRun /\ cur.adm = r /\ act.run = NoRun
      <=> cur.adm = r
  BY <1>1, <1>2, HoldFacts, RunsFacts DEF MayRelease
<1>4. IF cur.adm = r THEN cur' = NoTurn /\ act' = NoAct ELSE UNCHANGED <<cur, act>>
  BY <1>3 DEF SettlePrecommitFailure, ClearSlot, slot
<1>5. Leaves(r, "done")
  BY <1>1, <1>2, <1>4 DEF SettlePrecommitFailure, Terminal, Go, Leaves, Admitting, runner, others
<1>6. QED
  BY <1>5, LeavesGood

-----------------------------------------------------------------------------
(* A Stop, a deletion or a wake-up that leaves the chat to its turn. *)

Watches ==
    /\ UNCHANGED <<cur, pc, how, names, host, prev, given, started, ended>>
    /\ thread' \in {thread, thread + 1}
    /\ act' = act \/ (act # NoAct /\ act' = [act EXCEPT !.stop = TRUE])
    /\ lock' = lock \/ lock # "start"
    /\ del' \in {"asked", "waiting"} => lock' = "delete"
    /\ stop' \in [pc : {"idle", "await", "interrupt", "confirm", "hard", "closing", "done"},
                  rec : Ids, run : Ids, adm : Ids]
    /\ \/ stop' = stop
       \/ /\ lock = "free" \/ stop.pc # "idle"
          /\ stop'.pc # "closing"
          /\ stop'.pc = "hard" => /\ cancelled' = cancelled \cup Tasks
                                  /\ stop'.rec # NoRun /\ act.rec = stop'.rec => act.run = stop'.run
    /\ cancelled' = cancelled \/ cancelled' = cancelled \cup Tasks

LEMMA WatchesGood == ASSUME SlotInv, Watches PROVE Good
<1> USE DEF SlotInv
<1>1. /\ cur' = cur /\ pc' = pc /\ how' = how /\ names' = names /\ host' = host /\ prev' = prev
      /\ started' = started /\ ended' = ended /\ given' = given
  BY DEF Watches
<1>2. /\ act' \in [rec : Ids, run : Ids, stop : BOOLEAN, trans : Ids]
      /\ act'.rec = act.rec /\ act'.run = act.run /\ act'.trans = act.trans
      /\ act' # NoAct => act # NoAct
  <2>1. act \in [rec : Ids, run : Ids, stop : BOOLEAN, trans : Ids]
    BY DEF Types
  <2>2. CASE act' = act
    BY <2>1, <2>2
  <2>3. CASE act # NoAct /\ act' = [act EXCEPT !.stop = TRUE]
    BY <2>1, <2>3
  <2>4. QED
    BY <2>2, <2>3 DEF Watches
<1>3. thread' \in Nat /\ thread <= thread' /\ (thread' # thread => \A p \in given : p[2] < thread')
  <2>1. thread \in Nat /\ \A p \in given : p[2] <= thread /\ p[2] \in Nat
    BY DEF Types
  <2>2. QED
    BY <2>1 DEF Watches
<1>4. cancelled \subseteq cancelled' /\ cancelled' \subseteq Runs
  BY DEF Watches, Types, Tasks
<1>5. (\E q \in Runs : pc[q] \in Admitting) => stop' = stop /\ lock' = lock /\ lock = "start"
  BY DEF Watches, AdmittingTrue
<1>6. Types'
  <2>1. \A p \in given : p[2] <= thread'
    BY <1>3 DEF Types
  <2>2. QED
    BY <1>1, <1>2, <1>3, <1>4, <2>1 DEF Types, Watches
<1>7. AdmittingTrue'
  BY <1>1, <1>5 DEF AdmittingTrue, Watches
<1>8. RunnersTrue'
  BY <1>1 DEF RunnersTrue, Native
<1>9. HeldTrue'
  BY <1>1, <1>2 DEF HeldTrue
<1>10. DrivenTrue'
  <2>1. \A q \in Runs : pc'[q] \in Live /\ q \notin cancelled' => cur'.adm = q
    BY <1>1, <1>4 DEF DrivenTrue
  <2>2. CASE stop' = stop
    BY <1>1, <1>4, <2>1, <2>2 DEF DrivenTrue
  <2>3. CASE cancelled' = cancelled \cup Tasks
    BY <1>1, <2>1, <2>3 DEF DrivenTrue, Tasks
  <2>4. CASE stop'.pc # "hard"
    BY <2>1, <2>4 DEF DrivenTrue
  <2>5. QED
    BY <2>2, <2>3, <2>4 DEF Watches
<1>11. UnsentTrue'
  <2>1. CASE thread' = thread
    BY <1>1, <2>1 DEF UnsentTrue
  <2>2. CASE thread' # thread
    <3>1. \A q \in Runs : <<q, thread'>>[2] = thread' /\ ~(thread' < thread')
      BY <1>3
    <3>2. QED
      BY <1>1, <1>3, <2>2, <3>1 DEF UnsentTrue
  <2>3. QED
    BY <2>1, <2>2
<1>12. ClosingTrue'
  BY <1>1, <1>2 DEF ClosingTrue, Watches, ClosedOnce
<1>13. HandoverTrue'
  BY <1>1, <1>2, <1>4 DEF HandoverTrue, Predecessor
<1>14. SlotInv'
  BY <1>6, <1>7, <1>8, <1>9, <1>10, <1>11, <1>12, <1>13
<1>15. QED
  BY <1>1, <1>14, StillImplements DEF Good

StopType == [pc : {"idle", "await", "interrupt", "confirm", "hard", "closing", "done"},
             rec : Ids, run : Ids, adm : Ids]

(* Moving a Stop on keeps what it is aimed at. *)
LEMMA StopGoesFacts ==
    ASSUME SlotInv, NEW where \in {"confirm", "closing", "done"}, StopGoes(where)
    PROVE  stop' \in StopType /\ stop'.pc = where /\ stop'.run = stop.run /\ stop'.rec = stop.rec
<1>1. stop \in StopType
  BY DEF SlotInv, Types, StopType
<1>2. QED
  BY <1>1 DEF StopGoes, StopType

(* Marking the bound turn as stopped. *)
LEMMA StopMarkFacts ==
    ASSUME SlotInv, StopMark
    PROVE  stop' \in StopType /\ stop'.pc = "interrupt"
<1>1. /\ stop' = [pc |-> "interrupt", rec |-> act.rec, run |-> act.run, adm |-> cur.adm]
      /\ act.rec \in Ids /\ act.run \in Ids /\ cur.adm \in Ids
  BY DEF SlotInv, Types, StopMark
<1>2. QED
  BY <1>1 DEF StopType

LEMMA StopBeginGood == ASSUME SlotInv, StopBegin PROVE Good
<1>1. /\ lock = "free" /\ del = "no" /\ del' = del /\ lock' = lock /\ thread' = thread /\ cancelled' = cancelled
      /\ UNCHANGED <<cur, pc, how, names, host, prev, given, started, ended>>
  BY DEF StopBegin, runner, events
<1>2. cur.run \in Ids /\ cur.adm \in Ids
  BY DEF SlotInv, Types
<1>3. CASE act # NoAct /\ StopMark
  <2>1. Watches
    BY <1>1, <1>3, StopMarkFacts DEF Watches, StopMark, StopType
  <2>2. QED
    BY <2>1, WatchesGood
<1>4. CASE act' = act /\ stop' = [pc |-> "await", rec |-> NoRun, run |-> cur.run, adm |-> cur.adm]
  <2>1. stop' \in StopType /\ stop'.pc = "await"
    BY <1>2, <1>4, RunsFacts DEF StopType
  <2>2. Watches
    BY <1>1, <1>4, <2>1 DEF Watches, StopType
  <2>3. QED
    BY <2>2, WatchesGood
<1>5. CASE act' = act /\ stop' = [pc |-> "done", rec |-> NoRun, run |-> NoRun, adm |-> NoRun]
  <2>1. stop' \in StopType /\ stop'.pc = "done"
    BY <1>5, RunsFacts DEF StopType
  <2>2. Watches
    BY <1>1, <1>5, <2>1 DEF Watches, StopType
  <2>3. QED
    BY <2>2, WatchesGood
<1>6. QED
  BY <1>3, <1>4, <1>5 DEF StopBegin

LEMMA StopAwaitBoundGood == ASSUME SlotInv, StopAwaitBound PROVE Good
<1>1. Watches
  BY StopMarkFacts DEF StopAwaitBound, StopMark, Watches, StopType, SlotInv, AdmittingTrue, runner, events
<1>2. QED
  BY <1>1, WatchesGood

LEMMA StopAwaitGoneGood == ASSUME SlotInv, StopAwaitGone PROVE Good
<1>1. Watches
  BY StopGoesFacts DEF StopAwaitGone, Watches, StopType, SlotInv, AdmittingTrue, slot, runner, events
<1>2. QED
  BY <1>1, WatchesGood

LEMMA StopInterruptGood == ASSUME SlotInv, StopInterrupt PROVE Good
<1>1. Watches
  BY StopGoesFacts DEF StopInterrupt, Watches, StopType, SlotInv, AdmittingTrue, slot, runner, events
<1>2. QED
  BY <1>1, WatchesGood

LEMMA StopConfirmedGood == ASSUME SlotInv, StopConfirmed PROVE Good
<1>1. Watches
  BY StopGoesFacts DEF StopConfirmed, Watches, StopType, SlotInv, AdmittingTrue, slot, runner, events
<1>2. QED
  BY <1>1, WatchesGood

LEMMA StopReleaseLostGood == ASSUME SlotInv, StopReleaseLost PROVE Good
<1>1. Watches
  BY StopGoesFacts DEF StopReleaseLost, Watches, StopType, SlotInv, AdmittingTrue, slot, runner, events
<1>2. QED
  BY <1>1, WatchesGood

LEMMA StopDoneGood == ASSUME SlotInv, StopDone PROVE Good
<1>1. stop' \in StopType /\ stop'.pc = "idle"
  BY RunsFacts DEF StopDone, NoStop, StopType
<1>2. Watches
  BY <1>1 DEF StopDone, Watches, StopType, SlotInv, AdmittingTrue, slot, runner, events
<1>3. QED
  BY <1>2, WatchesGood

(* The hard Stop cancels every task of the chat. *)
LEMMA StopHardensFacts ==
    ASSUME SlotInv, NEW x \in Ids, StopHardens(x)
    PROVE  stop' \in StopType /\ stop'.pc = "hard" /\ stop'.rec = stop.rec /\ stop'.run = x
<1>1. stop.rec \in Ids /\ stop.adm \in Ids
  BY DEF SlotInv, Types
<1>2. QED
  BY <1>1 DEF StopHardens, StopType

LEMMA StopAwaitTimeoutGood == ASSUME SlotInv, StopAwaitTimeout PROVE Good
<1>1. cur.run \in Ids /\ act = NoAct /\ act.rec = NoRun
  BY HoldFacts DEF SlotInv, Types, StopAwaitTimeout
<1>2. stop' \in StopType /\ stop'.pc = "hard"
  BY <1>1, StopHardensFacts DEF StopAwaitTimeout
<1>3. Watches
  BY <1>1, <1>2 DEF StopAwaitTimeout, Watches, StopType, SlotInv, AdmittingTrue, slot, runner, events
<1>4. QED
  BY <1>3, WatchesGood

LEMMA StopTimeoutGood == ASSUME SlotInv, StopTimeout PROVE Good
<1>1. /\ stop.pc = "confirm" /\ act.run \in Ids
      /\ UNCHANGED <<lock, slot, pc, how, names, host, prev, thread, given, events, del>>
  BY DEF SlotInv, Types, StopTimeout
<1>2. CASE StopHardens(act.run) /\ cancelled' = cancelled \cup Tasks
  <2>1. stop' \in StopType /\ stop'.run = act.run
    BY <1>1, <1>2, StopHardensFacts
  <2>2. Watches
    BY <1>1, <1>2, <2>1 DEF Watches, StopType, SlotInv, AdmittingTrue, slot, events, StopHardens
  <2>3. QED
    BY <2>2, WatchesGood
<1>3. CASE StopGoes("done") /\ cancelled' = cancelled
  <2>1. stop' \in StopType /\ stop'.pc = "done"
    BY <1>3, StopGoesFacts
  <2>2. Watches
    BY <1>1, <1>3, <2>1 DEF Watches, StopType, SlotInv, AdmittingTrue, slot, events
  <2>3. QED
    BY <2>2, WatchesGood
<1>4. QED
  BY <1>2, <1>3 DEF StopTimeout

LEMMA DeleteAskGood == ASSUME SlotInv, DeleteAsk PROVE Good
<1>1. Watches
  BY DEF DeleteAsk, Watches, SlotInv, Types, AdmittingTrue, runner, events
<1>2. QED
  BY <1>1, WatchesGood

LEMMA DeleteInterruptGood == ASSUME SlotInv, DeleteInterrupt PROVE Good
<1>1. Watches
  BY DEF DeleteInterrupt, Watches, SlotInv, Types, AdmittingTrue, slot, runner, events
<1>2. QED
  BY <1>1, WatchesGood

LEMMA DeleteCancelGood == ASSUME SlotInv, DeleteCancel PROVE Good
<1>1. Watches
  BY DEF DeleteCancel, Watches, SlotInv, Types, AdmittingTrue, slot, events, others
<1>2. QED
  BY <1>1, WatchesGood

LEMMA DeleteRefusedGood == ASSUME SlotInv, DeleteRefused PROVE Good
<1>1. Watches
  BY DEF DeleteRefused, Watches, SlotInv, Types, AdmittingTrue, slot, runner, events
<1>2. QED
  BY <1>1, WatchesGood

(* The queue, and OpenCode's session that is never resumed. *)
LEMMA QueueGood ==
    ASSUME SlotInv, EnqueueTurn \/ PromoteNothing \/ RunHeld \/ UNCHANGED vars
    PROVE  Good
<1>1. UNCHANGED <<lock, slot, pc, runner, thread, given, events, stop, del>>
  BY DEF EnqueueTurn, PromoteNothing, RunHeld, vars, slot, runner, events, others
<1>2. Watches
  BY <1>1 DEF Watches, SlotInv, Types, AdmittingTrue, slot, runner, events
<1>3. QED
  BY <1>2, WatchesGood

LEMMA OpencodeQuarantineGood == ASSUME SlotInv, NEW r \in Runs, OpencodeQuarantine(r) PROVE Good
<1>1. Watches
  BY DEF OpencodeQuarantine, Watches, SlotInv, Types, AdmittingTrue, slot, runner, events, others
<1>2. QED
  BY <1>1, WatchesGood

-----------------------------------------------------------------------------
(* The chat is taken from a turn nobody drives any more. *)

Drops ==
    /\ cur' = NoTurn /\ act' = NoAct
    /\ \A q \in Runs : pc[q] \notin Admitting /\ (pc[q] \notin Live \/ q \in cancelled)
    /\ UNCHANGED <<pc, how, names, host, prev, cancelled, given, started, ended>>
    /\ thread' \in {thread, thread + 1}
    /\ del' \in {"asked", "waiting"} => lock' = "delete"
    /\ stop' \in StopType
    /\ \/ stop' = stop /\ (stop.pc = "closing" => cur = NoTurn)
       \/ stop'.pc = "done"
       \/ /\ stop'.pc = "closing" /\ stop'.run \in started /\ ended[stop'.run] = 0
          /\ \A q \in Runs : pc[q] = "closing" => names[q] # stop'.run

LEMMA DropsGood == ASSUME SlotInv, Drops PROVE Good
<1> USE DEF SlotInv
<1>1. /\ pc' = pc /\ how' = how /\ names' = names /\ host' = host /\ prev' = prev /\ cancelled' = cancelled
      /\ started' = started /\ ended' = ended /\ given' = given
      /\ cur' = NoTurn /\ act' = NoAct /\ cur'.adm = NoRun /\ cur'.run = NoRun
      /\ act'.rec = NoRun /\ act'.trans = NoRun
  BY DEF Drops, NoTurn, NoAct
<1>2. thread' \in Nat /\ thread <= thread' /\ (thread' # thread => \A p \in given : p[2] < thread')
  <2>1. thread \in Nat /\ \A p \in given : p[2] <= thread /\ p[2] \in Nat
    BY DEF Types
  <2>2. QED
    BY <2>1 DEF Drops
<1>3. Types'
  <2>1. \A p \in given : p[2] <= thread'
    BY <1>2 DEF Types
  <2>2. QED
    BY <1>1, <1>2, <2>1, EmptyTyped DEF Types, Drops, StopType
<1>4. AdmittingTrue'
  BY <1>1 DEF AdmittingTrue, Drops
<1>5. RunnersTrue'
  BY <1>1 DEF RunnersTrue, Native
<1>6. HeldTrue'
  BY <1>1 DEF HeldTrue
<1>7. DrivenTrue'
  BY <1>1 DEF DrivenTrue, Drops
<1>8. UnsentTrue'
  <2>1. CASE thread' = thread
    BY <1>1, <2>1 DEF UnsentTrue
  <2>2. CASE thread' # thread
    <3>1. \A q \in Runs : <<q, thread'>>[2] = thread' /\ ~(thread' < thread')
      BY <1>2
    <3>2. QED
      BY <1>1, <1>2, <2>2, <3>1 DEF UnsentTrue
  <2>3. QED
    BY <2>1, <2>2
<1>9. ClosingTrue'
  <2>1. \A q \in Runs : pc[q] = "closing" => names[q] \in Runs
    BY DEF RunnersTrue, Unfinished
  <2>2. QED
    BY <1>1, <2>1, RunsFacts DEF ClosingTrue, Drops, ClosedOnce
<1>10. HandoverTrue'
  BY <1>1, RunsFacts DEF HandoverTrue, Predecessor
<1>11. SlotInv'
  BY <1>3, <1>4, <1>5, <1>6, <1>7, <1>8, <1>9, <1>10
<1>12. QED
  BY <1>1, <1>11, FreeImplements DEF Good

(* hard_terminalize_active_stop takes the turn it marked, and no other. *)
LEMMA StopReleaseGood == ASSUME SlotInv, StopRelease PROVE Good
<1>1. stop.pc = "hard" /\ StopStillOwns
  BY DEF StopRelease
<1>2. \A q \in Runs : pc[q] \notin Admitting /\ (pc[q] \notin Live \/ q \in cancelled)
  BY <1>1 DEF SlotInv, AdmittingTrue, DrivenTrue, Live, Unfinished
<1>3. StopCloses => stop.run \in Runs /\ cur.run = stop.run
  <2>1. SUFFICES ASSUME StopCloses PROVE stop.run \in Runs /\ cur.run = stop.run
    OBVIOUS
  <2>2. stop.run \in Runs
    BY <2>1 DEF StopCloses, SlotInv, Types
  <2>3. CASE stop.rec # NoRun
    <3>1. act.rec = stop.rec /\ act.run = stop.run
      BY <1>1, <2>3 DEF StopStillOwns, SlotInv, ClosingTrue
    <3>2. act # NoAct
      BY <2>3, <3>1, HoldFacts
    <3>3. QED
      BY <2>2, <3>1, <3>2, HoldFacts
  <2>4. CASE stop.rec = NoRun
    BY <1>1, <2>2, <2>4, HoldFacts DEF StopStillOwns, MayRelease
  <2>5. QED
    BY <2>3, <2>4
<1>4. StopCloses => \A q \in Runs : pc[q] = "closing" => names[q] # stop.run
  BY <1>3 DEF SlotInv, ClosingTrue
<1>5. /\ stop' \in StopType /\ stop'.run = stop.run
      /\ stop'.pc = "done" \/ (stop'.pc = "closing" /\ StopCloses)
  BY StopGoesFacts DEF StopRelease
<1>6. Drops
  BY <1>2, <1>4, <1>5 DEF StopRelease, ClearSlot, StopAbandons, StopCloses, Drops, SlotInv, AdmittingTrue, runner, events
<1>7. QED
  BY <1>6, DropsGood

LEMMA DeleteDoneGood == ASSUME SlotInv, DeleteDone PROVE Good
<1>1. \A q \in Runs : pc[q] \notin Unfinished
  BY DEF DeleteDone, DeleteSettled, Tasks
<1>2. \A q \in Runs : pc[q] \notin Admitting /\ (pc[q] \notin Live \/ q \in cancelled)
  BY <1>1 DEF Admitting, Live, Unfinished
<1>3. stop' = stop /\ stop \in StopType /\ (stop.pc = "closing" => cur = NoTurn)
  BY DEF DeleteDone, SlotInv, Types, StopType, ClosingTrue
<1>4. /\ cur' = NoTurn /\ act' = NoAct /\ thread' = thread /\ del' = "gone"
      /\ UNCHANGED <<pc, how, names, host, prev, cancelled, given, started, ended>>
  BY DEF DeleteDone, ClearSlot, runner, events
<1>5. Drops
  BY <1>2, <1>3, <1>4 DEF Drops
<1>6. QED
  BY <1>5, DropsGood

(* The Stop writes the terminal event of the turn it took the chat from. *)
LEMMA StopEventGood == ASSUME SlotInv, StopEvent PROVE Good
<1> USE DEF SlotInv
<1>1. /\ pc' = pc /\ how' = how /\ names' = names /\ host' = host /\ prev' = prev /\ cancelled' = cancelled
      /\ started' = started /\ given' = given /\ cur' = cur /\ act' = act /\ thread' = thread
      /\ lock' = lock /\ del' = del
  BY DEF StopEvent, slot, runner
<1>2. stop' \in StopType /\ stop'.pc = "done"
  BY StopGoesFacts DEF StopEvent
<1>3. /\ stop.pc = "closing" /\ cur = NoTurn /\ stop.run \in started /\ stop.run \in Runs /\ ended[stop.run] = 0
      /\ \A r \in Runs : pc[r] = "closing" => names[r] # stop.run
  BY DEF StopEvent, ClosingTrue, Types
<1>4. /\ ended' = [ended EXCEPT ![stop.run] = @ + 1] /\ ended' \in [Runs -> Nat] /\ ended'[stop.run] = 1
      /\ \A q \in Runs : q # stop.run => ended'[q] = ended[q]
  BY <1>3 DEF StopEvent, Terminal, Types
<1>5. Types'
  BY <1>1, <1>2, <1>4 DEF Types, StopType
<1>6. \A q \in Runs : pc[q] \notin Admitting
  BY <1>3 DEF AdmittingTrue
<1>7. AdmittingTrue'
  BY <1>1, <1>6 DEF AdmittingTrue
<1>8. RunnersTrue'
  BY <1>1 DEF RunnersTrue, Native
<1>9. HeldTrue'
  BY <1>1 DEF HeldTrue
<1>10. DrivenTrue'
  BY <1>1, <1>2 DEF DrivenTrue
<1>11. UnsentTrue'
  BY <1>1 DEF UnsentTrue
<1>12. ClosingTrue'
  <2>1. \A q \in Runs : pc[q] \in NotYet \cup {"accepted"} => q # stop.run
    BY <1>3, <1>6 DEF RunnersTrue, Admitting
  <2>2. \A q \in Runs : pc[q] = "closing" => names[q] \in Runs /\ ended'[names[q]] = 0
    BY <1>3, <1>4 DEF RunnersTrue, Unfinished, ClosingTrue
  <2>3. cur.run = NoRun
    BY <1>3 DEF NoTurn
  <2>4. \A q \in Runs : ended'[q] <= 1
    BY <1>4 DEF ClosingTrue, ClosedOnce
  <2>5. QED
    BY <1>1, <1>2, <1>4, <2>1, <2>2, <2>3, <2>4, RunsFacts DEF ClosingTrue, ClosedOnce
<1>13. HandoverTrue'
  <2>1. \A q \in Runs : pc[q] = "handing" => q \in cancelled
    BY <1>3, RunsFacts DEF DrivenTrue, Live, NoTurn
  <2>2. \A q \in Runs : pc[q] = "steering" /\ act.rec = q => act.trans \in Runs /\ ended'[act.trans] = 0
    BY <1>3, <1>4 DEF HandoverTrue
  <2>3. QED
    BY <1>1, <2>1, <2>2 DEF HandoverTrue
<1>14. SlotInv'
  BY <1>5, <1>7, <1>8, <1>9, <1>10, <1>11, <1>12, <1>13
<1>15. QED
  BY <1>1, <1>3, <1>4, <1>14, CloseImplements DEF Good

-----------------------------------------------------------------------------
(* A crash: recovery closes at most one of the turns that were open. *)
LEMMA RestartGood == ASSUME SlotInv, Restart PROVE Good
<1> USE DEF SlotInv
<1>1. /\ how' = how /\ names' = names /\ host' = host /\ prev' = prev /\ cancelled' = {}
      /\ started' = started /\ given' = given /\ thread' = thread /\ del' = "no"
      /\ cur' = NoTurn /\ act' = NoAct /\ cur'.adm = NoRun /\ cur'.run = NoRun
      /\ act'.rec = NoRun /\ act'.trans = NoRun
  BY DEF Restart, NoTurn, NoAct
<1>2. stop' \in StopType /\ stop'.pc = "idle"
  BY RunsFacts DEF Restart, NoStop, StopType
<1>3. /\ pc' \in [Runs -> PCs]
      /\ \A q \in Runs : pc'[q] \in {"none", "done"} /\ (pc'[q] = "none" => pc[q] = "none")
                         /\ (pc'[q] = "done" => pc[q] # "none")
  BY DEF Restart, PCs
<1>4. \/ ended' = ended
      \/ \E x \in started : ended[x] = 0 /\ ended' = [ended EXCEPT ![x] = @ + 1]
  BY DEF Restart, Terminal
<1>5. /\ ended' \in [Runs -> Nat]
      /\ \A q \in Runs : ended'[q] = ended[q] \/ (ended[q] = 0 /\ ended'[q] = 1 /\ q \in started)
  BY <1>4 DEF Types
<1>6. Types'
  BY <1>1, <1>2, <1>3, <1>5, EmptyTyped DEF Types, StopType
<1>7. AdmittingTrue'
  BY <1>1, <1>3 DEF AdmittingTrue, Admitting
<1>8. RunnersTrue'
  <2>1. \A q \in Runs : /\ pc'[q] \notin Unfinished /\ pc'[q] \notin Early
                        /\ pc'[q] \in NotYet => pc[q] \in NotYet
                        /\ pc[q] \notin NotYet => pc'[q] \notin NotYet \cup {"steered"}
    BY <1>3 DEF Unfinished, Early, NotYet
  <2>2. \A q \in Runs : host[q] # NoRun => host[q] \in Runs /\ pc[host[q]] \notin NotYet
    BY DEF RunnersTrue, Types, Ids
  <2>3. QED
    BY <1>1, <2>1, <2>2 DEF RunnersTrue, Native
<1>9. HeldTrue'
  BY <1>1 DEF HeldTrue
<1>10. DrivenTrue'
  BY <1>2, <1>3 DEF DrivenTrue, Live
<1>11. UnsentTrue'
  BY <1>1, <1>3 DEF UnsentTrue, NotYet, Early
<1>12. ClosingTrue'
  <2>1. \A q \in Runs : pc'[q] \in NotYet \cup {"accepted"} => ended'[q] = 0
    BY <1>3, <1>5 DEF ClosingTrue, RunnersTrue, NotYet
  <2>2. \A q \in Runs : ended'[q] <= 1
    BY <1>5 DEF ClosingTrue, ClosedOnce
  <2>3. QED
    BY <1>1, <1>2, <1>3, <2>1, <2>2 DEF ClosingTrue, ClosedOnce
<1>13. HandoverTrue'
  BY <1>3 DEF HandoverTrue, Early
<1>14. SlotInv'
  BY <1>6, <1>7, <1>8, <1>9, <1>10, <1>11, <1>12, <1>13
<1>15. Owner' = NoRun
  BY <1>1 DEF Owner
<1>16. Closed' = Closed \/ \E x \in started \ Closed : Closed' = Closed \cup {x}
  <2>1. CASE ended' = ended
    BY <2>1 DEF Closed
  <2>2. CASE \E x \in started : ended[x] = 0 /\ ended' = [ended EXCEPT ![x] = @ + 1]
    <3>1. PICK x \in started : ended[x] = 0 /\ ended' = [ended EXCEPT ![x] = @ + 1]
      BY <2>2
    <3>2. ended \in [Runs -> Nat] /\ x \in Runs
      BY DEF Types
    <3>3. Closed' = Closed \cup {x} /\ x \notin Closed
      BY <3>1, <3>2 DEF Closed
    <3>4. QED
      BY <3>3
  <2>3. QED
    BY <1>4, <2>1, <2>2
<1>17. Abstract!Restart
  BY <1>1, <1>15, <1>16 DEF Abstract!Restart, Abstract!NoRun, NoRun, Closed
<1>18. QED
  BY <1>14, <1>17 DEF Good, Implements, Abstract!Next

-----------------------------------------------------------------------------
(* Admission. *)

LEMMA ReserveGood ==
    ASSUME SlotInv, NEW r \in Runs, NEW t \in Transports, Reserve(r, t)
    PROVE  Good
<1> USE DEF SlotInv
<1>1. /\ pc[r] = "none" /\ lock = "free" /\ stop.pc = "idle" /\ del = "no" /\ cur = NoTurn
      /\ lock' = "start" /\ cur' = [adm |-> r, run |-> NoRun] /\ cur'.adm = r /\ cur'.run = NoRun
      /\ act' = act /\ names' = names /\ host' = host /\ prev' = prev /\ cancelled' = cancelled /\ thread' = thread
      /\ given' = given /\ started' = started /\ ended' = ended /\ stop' = stop /\ del' = del
  BY DEF Reserve, Busy, StopFence, Fresh, Used, events
<1>2. /\ pc' \in [Runs -> PCs] /\ pc'[r] = "admit" /\ \A q \in Runs : q # r => pc'[q] = pc[q]
  BY DEF Reserve, Go, Types, PCs, Unfinished
<1>3. /\ how' \in [Runs -> AllTransports \cup {"none", "exec_retry"}]
      /\ \A q \in Runs : q # r => how'[q] = how[q]
  BY SlotAssumption DEF Reserve, Types
<1>4. /\ cur.adm = NoRun /\ cur.run = NoRun /\ act = NoAct /\ act.rec = NoRun /\ act.run = NoRun
  BY <1>1, HoldFacts
<1>5. r \notin started /\ names[r] = NoRun /\ host[r] = NoRun /\ ended[r] = 0 /\ pc[r] \in NotYet
  BY <1>1 DEF RunnersTrue, ClosingTrue, NotYet
<1>6. \A q \in Runs : host[q] # r
  BY <1>5, RunsFacts DEF RunnersTrue
<1>7. Types'
  BY <1>1, <1>2, <1>3, RunsFacts DEF Types
<1>8. AdmittingTrue'
  BY <1>1, <1>2 DEF AdmittingTrue
<1>9. RunnersTrue'
  <2>1. \A q \in Runs : /\ pc'[q] \in NotYet => pc[q] \in NotYet
                        /\ pc'[q] \in Unfinished \ {"admit"} => pc[q] \in Unfinished \ {"admit"}
                        /\ pc'[q] \in Early => pc[q] \in Early
                        /\ pc'[q] \in Unfinished \ Admitting => pc[q] \in Unfinished \ Admitting
                        /\ q # r /\ pc'[q] \in NotYet \cup {"steered"} => pc[q] \in NotYet \cup {"steered"}
    BY <1>1, <1>2 DEF NotYet, Unfinished, Early, Admitting
  <2>2. \A q \in Runs : host[q] # NoRun => pc'[host[q]] \notin NotYet \cup {"steered"}
    BY <1>6, <2>1 DEF RunnersTrue, Types, Ids
  <2>3. \A q, x \in Runs : host[x] = q /\ (~Native(q)' \/ pc'[q] \in Early) => x = q
    <3>1. \A q \in Runs : q # r => Native(q)' = Native(q)
      BY <1>3 DEF Native
    <3>2. QED
      BY <1>6, <2>1, <3>1 DEF RunnersTrue
  <2>4. QED
    BY <1>1, <2>1, <2>2, <2>3 DEF RunnersTrue
<1>10. HeldTrue'
  BY <1>1, <1>2, <1>4, <1>5 DEF HeldTrue, Unfinished
<1>11. DrivenTrue'
  <2>1. \A q \in Runs : q # r => pc'[q] \notin Live \/ q \in cancelled'
    BY <1>1, <1>2, <1>4, RunsFacts DEF DrivenTrue
  <2>2. QED
    BY <1>1, <2>1 DEF DrivenTrue
<1>12. UnsentTrue'
  BY <1>1, <1>2, <1>5 DEF UnsentTrue
<1>13. ClosingTrue'
  <2>1. \A q \in Runs : pc[q] = "closing" => names[q] \in Runs
    BY DEF RunnersTrue, Unfinished
  <2>2. QED
    BY <1>1, <1>2, <1>4, <1>5, <2>1, RunsFacts DEF ClosingTrue, NotYet, ClosedOnce
<1>14. HandoverTrue'
  BY <1>1, <1>2, <1>4, RunsFacts DEF HandoverTrue, Predecessor
<1>15. SlotInv'
  BY <1>7, <1>8, <1>9, <1>10, <1>11, <1>12, <1>13, <1>14
<1>16. Owner = NoRun /\ Owner' = r /\ Closed' = Closed
  BY <1>1, <1>4 DEF Owner, Closed
<1>17. Abstract!Take(r)
  BY <1>1, <1>5, <1>16 DEF Abstract!Take, Abstract!NoRun, NoRun, Closed
<1>18. QED
  BY <1>15, <1>17 DEF Good, Implements, Abstract!Next

LEMMA PublishGood == ASSUME SlotInv, NEW r \in Runs, PublishRun(r) PROVE Good
<1> USE DEF SlotInv
<1>1. /\ pc[r] = "admit" /\ r \notin cancelled /\ pc[r] \in NotYet /\ pc[r] \in Live /\ pc[r] \in Admitting
      /\ lock' = lock /\ act' = act /\ how' = how /\ prev' = prev /\ cancelled' = cancelled /\ thread' = thread
      /\ given' = given /\ started' = started /\ ended' = ended /\ stop' = stop /\ del' = del
  BY DEF PublishRun, NotYet, Live, Admitting, events, others
<1>2. /\ pc' \in [Runs -> PCs] /\ pc'[r] = "accepted" /\ \A q \in Runs : q # r => pc'[q] = pc[q]
  BY DEF PublishRun, Go, Types, PCs, Unfinished
<1>3. /\ names' \in [Runs -> Ids] /\ names'[r] = r /\ \A q \in Runs : q # r => names'[q] = names[q]
      /\ host' \in [Runs -> Ids] /\ host'[r] = r /\ \A q \in Runs : q # r => host'[q] = host[q]
  BY RunsFacts DEF PublishRun, Types
<1>4. r \notin started /\ names[r] = NoRun /\ host[r] = NoRun /\ ended[r] = 0
  BY <1>1 DEF RunnersTrue, ClosingTrue
<1>5. cur.adm = r /\ cur # NoTurn /\ cur.run = NoRun /\ act = NoAct /\ act.rec = NoRun /\ act.run = NoRun
  <2>1. cur.adm = r
    BY <1>1 DEF DrivenTrue
  <2>2. QED
    BY <1>4, <2>1, HoldFacts, RunsFacts
<1>6. cur' \in [adm : Ids, run : Ids] /\ cur'.adm = r /\ cur'.run = r
  <2>1. cur' = [cur EXCEPT !.run = r] /\ cur \in [adm : Ids, run : Ids]
    BY <1>5 DEF PublishRun, Busy, Types
  <2>2. QED
    BY <1>5, <2>1, RunsFacts
<1>7. \A q \in Runs : host[q] # r /\ names[q] # r
  BY <1>1, <1>4, RunsFacts DEF RunnersTrue
<1>8. Types'
  BY <1>1, <1>2, <1>3, <1>6 DEF Types
<1>9. AdmittingTrue'
  <2>1. \A q \in Runs : pc'[q] \in Admitting => pc[q] \in Admitting
    BY <1>1, <1>2
  <2>2. QED
    BY <1>1, <2>1 DEF AdmittingTrue
<1>10. RunnersTrue'
  <2>1. \A q \in Runs : pc'[q] \in NotYet => q \notin started' /\ names'[q] = NoRun /\ host'[q] = NoRun
    BY <1>1, <1>2, <1>3 DEF RunnersTrue, NotYet
  <2>2. \A q \in Runs : pc'[q] \in Unfinished \ {"admit"} => host'[q] = q /\ names'[q] \in Runs
    BY <1>1, <1>2, <1>3 DEF RunnersTrue
  <2>3. \A q \in Runs : pc'[q] \in Early => names'[q] = q
    BY <1>1, <1>2, <1>3 DEF RunnersTrue
  <2>4. \A q \in Runs : pc'[q] \in Unfinished \ Admitting =>
            names'[q] \in started' \/ \E p \in given' : p[1] = names'[q]
    BY <1>1, <1>2, <1>3 DEF RunnersTrue, Admitting
  <2>5. \A q \in Runs : names'[q] # NoRun => host'[names'[q]] = q
    BY <1>3, <1>7 DEF RunnersTrue, Types, Ids
  <2>6. \A q \in Runs : host'[q] # NoRun => pc'[host'[q]] \notin NotYet \cup {"steered"}
    BY <1>2, <1>3, <1>7 DEF RunnersTrue, NotYet, Types, Ids
  <2>7. \A q, x \in Runs : host'[x] = q /\ (~Native(q)' \/ pc'[q] \in Early) => x = q
    BY <1>1, <1>2, <1>3, <1>7 DEF RunnersTrue, Native
  <2>8. QED
    BY <2>1, <2>2, <2>3, <2>4, <2>5, <2>6, <2>7 DEF RunnersTrue
<1>11. HeldTrue'
  BY <1>1, <1>2, <1>3, <1>5, <1>6 DEF HeldTrue, Unfinished
<1>12. DrivenTrue'
  BY <1>1, <1>2, <1>5, <1>6 DEF DrivenTrue, AdmittingTrue
<1>13. UnsentTrue'
  BY <1>1, <1>2 DEF UnsentTrue
<1>14. ClosingTrue'
  <2>1. stop.pc = "idle"
    BY <1>1 DEF AdmittingTrue
  <2>2. \A q \in Runs : pc'[q] \in NotYet \cup {"accepted"} => ended[q] = 0
    BY <1>2, <1>4 DEF ClosingTrue
  <2>3. \A q \in Runs : pc'[q] = "closing" => ended[names'[q]] = 0 /\ r # names'[q]
    BY <1>2, <1>3, <1>7 DEF ClosingTrue
  <2>4. QED
    BY <1>1, <1>4, <1>6, <2>1, <2>2, <2>3 DEF ClosingTrue, ClosedOnce
<1>15. HandoverTrue'
  <2>1. ASSUME NEW q \in Runs, pc'[q] = "handing", q \notin cancelled' PROVE Predecessor(q)'
    <3>1. q # r /\ Predecessor(q)
      BY <1>1, <1>2, <2>1 DEF HandoverTrue
    <3>2. prev[q] # r /\ host'[prev[q]] = host[prev[q]]
      BY <1>3, <1>4, <3>1, RunsFacts DEF Predecessor
    <3>3. QED
      BY <1>1, <1>3, <3>1, <3>2 DEF Predecessor
  <2>2. QED
    BY <1>1, <1>5, <2>1, RunsFacts DEF HandoverTrue
<1>16. SlotInv'
  BY <1>8, <1>9, <1>10, <1>11, <1>12, <1>13, <1>14, <1>15
<1>17. Owner' = Owner /\ Closed' = Closed
  BY <1>1, <1>5, <1>6, RunsFacts DEF Owner, Closed
<1>18. QED
  BY <1>1, <1>16, <1>17 DEF Good, Implements, Abstract!cvars, Closed

(* turn_started is durable. *)
LEMMA PersistGood == ASSUME SlotInv, NEW r \in Runs, PersistTurnAcceptance(r) PROVE Good
<1> USE DEF SlotInv
<1>1. /\ pc[r] = "accepted" /\ r \notin cancelled /\ pc[r] \in Early /\ pc[r] \in Unfinished \ {"admit"}
      /\ started' = started \cup {r} /\ started' \subseteq Runs
      /\ UNCHANGED <<lock, cur, act, pc, how, names, host, prev, cancelled, thread, given, ended, stop, del>>
  BY DEF PersistTurnAcceptance, Early, Unfinished, Types, slot, runner, others
<1>2. Owner = r /\ names[r] = r /\ host[r] = r
  BY <1>1, EarlyFacts DEF RunnersTrue
<1>3. Types'
  BY <1>1 DEF Types
<1>4. AdmittingTrue'
  BY <1>1 DEF AdmittingTrue
<1>5. RunnersTrue'
  BY <1>1 DEF RunnersTrue, Native, NotYet
<1>6. HeldTrue' /\ DrivenTrue' /\ UnsentTrue'
  BY <1>1 DEF HeldTrue, DrivenTrue, UnsentTrue
<1>7. ClosingTrue'
  BY <1>1 DEF ClosingTrue, ClosedOnce
<1>8. HandoverTrue'
  <2>1. \A q \in Runs : pc[q] = "handing" /\ q \notin cancelled => Predecessor(q)'
    BY <1>1 DEF HandoverTrue, Predecessor
  <2>2. \A q \in Runs : pc[q] = "steering" /\ act.rec = q => act.trans # r
    BY <1>1 DEF HandoverTrue
  <2>3. QED
    BY <1>1, <2>1, <2>2 DEF HandoverTrue
<1>9. SlotInv'
  BY <1>3, <1>4, <1>5, <1>6, <1>7, <1>8
<1>10. QED
  BY <1>1, <1>2, <1>9, OpenImplements DEF Good

LEMMA LaunchGood == ASSUME SlotInv, NEW r \in Runs, LaunchTask(r) PROVE Good
<1> USE DEF SlotInv
<1>1. /\ pc[r] = "accepted" /\ r \in started /\ r \notin cancelled /\ pc[r] \in Admitting
      /\ UNCHANGED <<cur, act, how, names, host, prev, cancelled, thread, given, started, ended, stop, del>>
  BY DEF LaunchTask, Admitting, slot, runner, events, others
<1>2. pc' \in [Runs -> PCs] /\ pc'[r] = "task" /\ \A q \in Runs : q # r => pc'[q] = pc[q]
  BY DEF LaunchTask, Go, Types, PCs, Unfinished
<1>3. lock = "start" /\ stop.pc = "idle" /\ names[r] = r
  BY <1>1 DEF AdmittingTrue, RunnersTrue, Early
<1>4. Types'
  BY <1>1, <1>2 DEF Types
<1>5. AdmittingTrue'
  <2>1. \A q \in Runs : pc'[q] \notin Admitting
    BY <1>1, <1>2 DEF AdmittingTrue, Admitting
  <2>2. QED
    BY <1>1, <1>3, <2>1 DEF AdmittingTrue
<1>6. RunnersTrue'
  <2>1. \A q \in Runs : /\ pc'[q] \in NotYet => pc[q] \in NotYet
                        /\ pc'[q] \in Unfinished \ {"admit"} => pc[q] \in Unfinished \ {"admit"}
                        /\ pc'[q] \in Early => pc[q] \in Early
                        /\ q # r /\ pc'[q] \in Unfinished \ Admitting => pc[q] \in Unfinished \ Admitting
                        /\ pc'[q] \in NotYet \cup {"steered"} => pc[q] \in NotYet \cup {"steered"}
    BY <1>1, <1>2 DEF NotYet, Unfinished, Early, Admitting
  <2>2. \A q \in Runs : host[q] # NoRun => pc'[host[q]] \notin NotYet \cup {"steered"}
    BY <2>1 DEF RunnersTrue, Types, Ids
  <2>3. QED
    BY <1>1, <1>3, <2>1, <2>2 DEF RunnersTrue, Native
<1>7. HeldTrue'
  BY <1>1, <1>2 DEF HeldTrue, Unfinished
<1>8. DrivenTrue'
  BY <1>1, <1>2, <1>3 DEF DrivenTrue, Live
<1>9. UnsentTrue'
  BY <1>1, <1>2 DEF UnsentTrue, Early
<1>10. ClosingTrue'
  BY <1>1, <1>2, <1>3 DEF ClosingTrue, NotYet, ClosedOnce
<1>11. HandoverTrue'
  BY <1>1, <1>2 DEF HandoverTrue, Predecessor
<1>12. SlotInv'
  BY <1>4, <1>5, <1>6, <1>7, <1>8, <1>9, <1>10, <1>11
<1>13. QED
  BY <1>1, <1>12, StillImplements DEF Good

-----------------------------------------------------------------------------
(* The same run is tried once more: codex exec instead of the app-server,   *)
(* or on a new provider session.                                            *)

Retries(r, t, w) ==
    /\ pc[r] \in {"bound", "drain"} /\ r \notin cancelled /\ how[r] \in {"app", "exec"}
    /\ t \in {"exec", "exec_retry"} /\ w \in {"task", "exit"}
    /\ pc' = [pc EXCEPT ![r] = w] /\ how' = [how EXCEPT ![r] = t]
    /\ cur.adm = r /\ names[r] = r /\ \A x \in Runs : host[x] = r => x = r
    /\ Fits(act', r) /\ thread' \in {thread, thread + 1} /\ <<r, thread'>> \notin given
    /\ UNCHANGED <<lock, cur, names, host, prev, cancelled, given, started, ended, stop, del>>

LEMMA RetriesGood ==
    ASSUME SlotInv, NEW r \in Runs, NEW t, NEW w, Retries(r, t, w)
    PROVE  Good
<1> USE DEF SlotInv
<1>1. /\ pc[r] \in {"bound", "drain"} /\ r \notin cancelled /\ w \in {"task", "exit"}
      /\ lock' = lock /\ cur' = cur /\ names' = names /\ host' = host /\ prev' = prev /\ cancelled' = cancelled
      /\ given' = given /\ started' = started /\ ended' = ended /\ stop' = stop /\ del' = del
      /\ cur.adm = r /\ names[r] = r /\ \A x \in Runs : host[x] = r => x = r
  BY DEF Retries
<1>2. pc' \in [Runs -> PCs] /\ pc'[r] = w /\ \A q \in Runs : q # r => pc'[q] = pc[q]
  BY DEF Retries, Types, PCs, Unfinished
<1>3. /\ how' \in [Runs -> AllTransports \cup {"none", "exec_retry"}] /\ how[r] # "sdk"
      /\ \A q \in Runs : q # r => how'[q] = how[q]
  BY DEF Retries, Types, AllTransports
<1>4. thread' \in Nat /\ thread <= thread' /\ (thread' # thread => \A p \in given : p[2] < thread')
  <2>1. thread \in Nat /\ \A p \in given : p[2] <= thread /\ p[2] \in Nat
    BY DEF Types
  <2>2. QED
    BY <2>1 DEF Retries
<1>5. stop.pc # "hard"
  BY <1>1, <1>3 DEF DrivenTrue, Unfinished
<1>6. Types'
  <2>1. \A p \in given : p[2] <= thread'
    BY <1>4 DEF Types
  <2>2. QED
    BY <1>1, <1>2, <1>3, <1>4, <2>1 DEF Types, Retries, Fits
<1>7. AdmittingTrue'
  BY <1>1, <1>2 DEF AdmittingTrue, Admitting
<1>8. RunnersTrue'
  <2>1. \A q \in Runs : /\ pc'[q] \in NotYet => pc[q] \in NotYet
                        /\ pc'[q] \in Unfinished \ {"admit"} => pc[q] \in Unfinished \ {"admit"}
                        /\ q # r /\ pc'[q] \in Early => pc[q] \in Early
                        /\ pc'[q] \in Unfinished \ Admitting => pc[q] \in Unfinished \ Admitting
                        /\ pc'[q] \in NotYet \cup {"steered"} => pc[q] \in NotYet \cup {"steered"}
    BY <1>1, <1>2 DEF NotYet, Unfinished, Early, Admitting
  <2>2. \A q \in Runs : host[q] # NoRun => pc'[host[q]] \notin NotYet \cup {"steered"}
    BY <2>1 DEF RunnersTrue, Types, Ids
  <2>3. \A q, x \in Runs : host[x] = q /\ (~Native(q)' \/ pc'[q] \in Early) => x = q
    <3>1. \A q \in Runs : q # r => Native(q)' = Native(q)
      BY <1>3 DEF Native
    <3>2. QED
      BY <1>1, <2>1, <3>1 DEF RunnersTrue
  <2>4. QED
    BY <1>1, <2>1, <2>2, <2>3 DEF RunnersTrue
<1>9. HeldTrue'
  BY <1>1, <1>2 DEF HeldTrue, Retries, Fits, Unfinished
<1>10. DrivenTrue'
  BY <1>1, <1>2, <1>5 DEF DrivenTrue
<1>11. UnsentTrue'
  <2>1. \A q \in Runs : pc'[q] \in NotYet \cup Early => q = r \/ pc[q] \in NotYet \cup Early
    BY <1>2
  <2>2. ASSUME NEW q \in Runs, pc'[q] \in NotYet \cup Early PROVE <<q, thread'>> \notin given
    <3>1. CASE q = r
      BY <3>1 DEF Retries
    <3>2. CASE q # r /\ thread' = thread
      BY <2>1, <2>2, <3>2 DEF UnsentTrue
    <3>3. CASE thread' # thread
      <4>1. <<q, thread'>>[2] = thread' /\ ~(thread' < thread')
        BY <1>4
      <4>2. QED
        BY <1>4, <3>3, <4>1
    <3>4. QED
      BY <3>1, <3>2, <3>3
  <2>3. QED
    BY <1>1, <2>2 DEF UnsentTrue
<1>12. ClosingTrue'
  BY <1>1, <1>2, <1>5, RunsFacts DEF ClosingTrue, NotYet, ClosedOnce
<1>13. HandoverTrue'
  <2>3. \A q \in Runs : pc'[q] = "handing" /\ q \notin cancelled' => Predecessor(q)'
    BY <1>1, <1>2 DEF HandoverTrue, Predecessor
  <2>4. act'.rec \in {r, NoRun}
    BY <1>1 DEF Retries, Fits, HeldTrue, NoAct
  <2>5. \A q \in Runs : ~(pc'[q] = "steering" /\ act'.rec = q)
    BY <1>1, <1>2, <2>4, RunsFacts
  <2>6. QED
    BY <2>3, <2>5 DEF HandoverTrue
<1>14. SlotInv'
  BY <1>6, <1>7, <1>8, <1>9, <1>10, <1>11, <1>12, <1>13
<1>15. QED
  BY <1>1, <1>14, StillImplements DEF Good

LEMMA AppFallsBackGood == ASSUME SlotInv, NEW r \in Runs, AppFallsBack(r) PROVE Good
<1>1. /\ pc[r] = "bound" /\ pc[r] \in Early /\ r \notin cancelled /\ how[r] = "app"
      /\ how' = [how EXCEPT ![r] = "exec"] /\ thread' = thread
      /\ UNCHANGED <<lock, names, host, prev, cancelled, given, started, ended, stop, del>>
  BY DEF AppFallsBack, Early, events, others
<1>2. cur.adm = r /\ names[r] = r /\ <<r, thread>> \notin given
  BY <1>1, EarlyFacts
<1>3. \A x \in Runs : host[x] = r => x = r
  BY <1>1 DEF SlotInv, RunnersTrue
<1>4. Fits(act', r) /\ cur' = cur
  BY ClearFits DEF AppFallsBack
<1>5. PICK w \in {"task", "exit"} : Go(r, w)
  BY DEF AppFallsBack
<1>6. Retries(r, "exec", w)
  BY <1>1, <1>2, <1>3, <1>4, <1>5 DEF Retries, Go
<1>7. QED
  BY <1>6, RetriesGood

LEMMA ExecRolloverGood == ASSUME SlotInv, NEW r \in Runs, ExecRollover(r) PROVE Good
<1>1. /\ pc[r] = "drain" /\ r \notin cancelled /\ how[r] = "exec" /\ Owns(r)
      /\ how' = [how EXCEPT ![r] = "exec_retry"] /\ thread' = thread + 1 /\ Go(r, "task")
      /\ UNCHANGED <<lock, cur, act, names, host, prev, cancelled, given, started, ended, stop, del>>
  BY DEF ExecRollover, slot, events, others
<1>2. host[r] = r
  BY <1>1 DEF SlotInv, RunnersTrue, Unfinished
<1>3. cur.adm = r /\ names[r] = r
  BY <1>1, <1>2, HoldFacts
<1>4. \A x \in Runs : host[x] = r => x = r
  BY <1>1 DEF SlotInv, RunnersTrue, Native
<1>5. <<r, thread'>> \notin given
  <2>1. thread \in Nat /\ \A p \in given : p[2] <= thread
    BY DEF SlotInv, Types
  <2>2. <<r, thread'>>[2] = thread + 1 /\ ~(thread + 1 <= thread)
    BY <1>1, <2>1
  <2>3. QED
    BY <2>1, <2>2
<1>6. Retries(r, "exec_retry", "task")
  BY <1>1, <1>3, <1>4, <1>5, FitsFacts DEF Retries, Go
<1>7. QED
  BY <1>6, RetriesGood

-----------------------------------------------------------------------------
(* Native steering. *)

(* A handover under way, in the runner that holds the chat. *)
LEMMA SteeringFacts ==
    ASSUME SlotInv, NEW r \in Runs, pc[r] = "steering", act.rec = r, r \notin cancelled
    PROVE  /\ act.trans \in Runs /\ pc[act.trans] = "steered" /\ host[act.trans] = r /\ act.trans # r
           /\ act.trans \notin started /\ ended[act.trans] = 0 /\ names[act.trans] = NoRun
           /\ \A h \in Runs : names[h] # act.trans /\ host[h] # act.trans
           /\ cur # NoTurn /\ act # NoAct /\ cur.adm = r /\ cur.run = names[r] /\ cur.run \in Runs
           /\ stop.pc \notin {"hard", "closing"} /\ Native(r)
<1> USE DEF SlotInv
<1>1. /\ act.trans \in Runs /\ pc[act.trans] = "steered" /\ host[act.trans] = r /\ act.trans # r
      /\ act.trans \notin started /\ ended[act.trans] = 0 /\ names[act.trans] = NoRun
      /\ \A h \in Runs : names[h] # act.trans
  BY DEF HandoverTrue
<1>2. \A h \in Runs : host[h] # act.trans
  BY <1>1, RunsFacts DEF RunnersTrue
<1>3. cur # NoTurn /\ act # NoAct /\ cur.adm = r /\ cur.run = names[r] /\ cur.run \in Runs
  BY HoldFacts, RunsFacts
<1>4. stop.pc \notin {"hard", "closing"}
  BY <1>3 DEF DrivenTrue, Unfinished, ClosingTrue
<1>5. Native(r)
  BY <1>1 DEF RunnersTrue
<1>6. QED
  BY <1>1, <1>2, <1>3, <1>4, <1>5

(* The record with its transition set or settled. *)
LEMMA TransFacts ==
    ASSUME SlotInv, NEW c \in Ids, act # NoAct, act' = [act EXCEPT !.trans = c]
    PROVE  /\ act' \in [rec : Ids, run : Ids, stop : BOOLEAN, trans : Ids] /\ act' # NoAct
           /\ act'.rec = act.rec /\ act'.run = act.run /\ act'.trans = c
<1>1. act \in [rec : Ids, run : Ids, stop : BOOLEAN, trans : Ids]
  BY DEF SlotInv, Types
<1>2. /\ act' \in [rec : Ids, run : Ids, stop : BOOLEAN, trans : Ids]
      /\ act'.rec = act.rec /\ act'.run = act.run /\ act'.trans = c
  BY <1>1
<1>3. act'.rec # NoRun
  BY <1>2, HoldFacts, RunsFacts
<1>4. QED
  BY <1>2, <1>3 DEF NoAct

LEMMA SteerOpenGood ==
    ASSUME SlotInv, NEW r \in Runs, NEW c \in Runs, SteerOpen(r, c)
    PROVE  Good
<1> USE DEF SlotInv
<1>1. /\ pc[r] = "stream" /\ r \notin cancelled /\ act.rec = r /\ pc[c] = "none" /\ c # r /\ Native(r)
      /\ lock' = lock /\ cur' = cur /\ names' = names /\ prev' = prev /\ cancelled' = cancelled /\ thread' = thread
      /\ given' = given /\ started' = started /\ ended' = ended /\ stop' = stop /\ del' = del
  BY DEF SteerOpen, Fresh, Used, events
<1>2. /\ pc' \in [Runs -> PCs] /\ pc'[r] = "steering" /\ pc'[c] = "steered"
      /\ \A q \in Runs : q \notin {r, c} => pc'[q] = pc[q]
  BY <1>1 DEF SteerOpen, Types, PCs, Unfinished
<1>3. /\ how' \in [Runs -> AllTransports \cup {"none", "exec_retry"}]
      /\ \A q \in Runs : q # c => how'[q] = how[q]
      /\ host' \in [Runs -> Ids] /\ host'[c] = r /\ \A q \in Runs : q # c => host'[q] = host[q]
  BY RunsFacts DEF SteerOpen, Types
<1>4. /\ act' \in [rec : Ids, run : Ids, stop : BOOLEAN, trans : Ids] /\ act # NoAct /\ act' # NoAct
      /\ act'.rec = r /\ act'.run = act.run /\ act'.trans = c
  <2>1. act # NoAct
    BY <1>1, HoldFacts, RunsFacts
  <2>2. QED
    BY <1>1, <2>1, TransFacts, RunsFacts DEF SteerOpen
<1>5. c \notin started /\ names[c] = NoRun /\ host[c] = NoRun /\ ended[c] = 0 /\ pc[c] \in NotYet
  BY <1>1 DEF RunnersTrue, ClosingTrue, NotYet
<1>6. \A q \in Runs : host[q] # c /\ names[q] # c
  BY <1>5, RunsFacts DEF RunnersTrue
<1>7. Types'
  BY <1>1, <1>2, <1>3, <1>4 DEF Types
<1>8. \A q \in Runs : /\ pc'[q] \in NotYet => pc[q] \in NotYet /\ q # c
                      /\ pc'[q] \in Unfinished \ {"admit"} => pc[q] \in Unfinished \ {"admit"} /\ q # c
                      /\ pc'[q] \in Early => pc[q] \in Early /\ q # c
                      /\ pc'[q] \in Unfinished \ Admitting => pc[q] \in Unfinished \ Admitting /\ q # c
                      /\ q # c /\ pc'[q] \in NotYet \cup {"steered"} => pc[q] \in NotYet \cup {"steered"}
                      /\ pc'[q] \in Admitting => pc[q] \in Admitting
                      /\ pc'[q] \in Live => pc[q] \in Live
                      /\ pc'[q] = "closing" => pc[q] = "closing"
                      /\ pc'[q] \in NotYet \cup {"accepted"} => pc[q] \in NotYet \cup {"accepted"}
  BY <1>1, <1>2 DEF NotYet, Unfinished, Early, Admitting, Live
<1>9. AdmittingTrue'
  BY <1>1, <1>8 DEF AdmittingTrue
<1>10. RunnersTrue'
  <2>1. \A q \in Runs : pc'[q] \in NotYet => q \notin started' /\ names'[q] = NoRun /\ host'[q] = NoRun
    BY <1>1, <1>3, <1>8 DEF RunnersTrue
  <2>2. \A q \in Runs : pc'[q] \in Unfinished \ {"admit"} => host'[q] = q /\ names'[q] \in Runs
    BY <1>1, <1>3, <1>8 DEF RunnersTrue
  <2>3. \A q \in Runs : pc'[q] \in Early => names'[q] = q
    BY <1>1, <1>8 DEF RunnersTrue
  <2>4. \A q \in Runs : pc'[q] \in Unfinished \ Admitting =>
            names'[q] \in started' \/ \E p \in given' : p[1] = names'[q]
    BY <1>1, <1>8 DEF RunnersTrue
  <2>5. \A q \in Runs : names'[q] # NoRun => host'[names'[q]] = q
    BY <1>1, <1>3, <1>6 DEF RunnersTrue, Types, Ids
  <2>6. \A q \in Runs : host'[q] # NoRun => pc'[host'[q]] \notin NotYet \cup {"steered"}
    <3>1. \A q \in Runs : host'[q] # NoRun => host'[q] \in Runs /\ host'[q] # c
      BY <1>1, <1>3, <1>6 DEF Ids
    <3>2. pc'[r] \notin NotYet \cup {"steered"}
      BY <1>2 DEF NotYet
    <3>3. QED
      BY <1>3, <1>8, <3>1, <3>2 DEF RunnersTrue
  <2>7. \A q, x \in Runs : host'[x] = q /\ (~Native(q)' \/ pc'[q] \in Early) => x = q
    <3>1. \A q \in Runs : q # c => Native(q)' = Native(q)
      BY <1>3 DEF Native
    <3>2. pc'[r] \notin Early
      BY <1>2 DEF Early
    <3>3. QED
      BY <1>1, <1>3, <1>6, <1>8, <3>1, <3>2 DEF RunnersTrue
  <2>8. QED
    BY <2>1, <2>2, <2>3, <2>4, <2>5, <2>6, <2>7 DEF RunnersTrue
<1>11. HeldTrue'
  BY <1>1, <1>2, <1>4 DEF HeldTrue, Unfinished
<1>12. DrivenTrue'
  <2>1. stop.pc # "hard"
    BY <1>1 DEF DrivenTrue, Unfinished
  <2>2. QED
    BY <1>1, <1>8, <2>1 DEF DrivenTrue
<1>13. UnsentTrue'
  BY <1>1, <1>8 DEF UnsentTrue
<1>14. ClosingTrue'
  BY <1>1, <1>4, <1>8 DEF ClosingTrue, ClosedOnce
<1>15. HandoverTrue'
  <2>2. ASSUME NEW q \in Runs, pc'[q] = "handing", q \notin cancelled' PROVE Predecessor(q)'
    <3>1. Predecessor(q)
      BY <1>1, <1>2, <2>2 DEF HandoverTrue
    <3>2. host'[prev[q]] = host[prev[q]]
      BY <1>3, <1>5, <3>1, RunsFacts DEF Predecessor
    <3>3. QED
      BY <1>1, <3>1, <3>2 DEF Predecessor
  <2>3. QED
    BY <1>1, <1>2, <1>3, <1>4, <1>5, <1>6, <2>2 DEF HandoverTrue
<1>16. SlotInv'
  BY <1>7, <1>9, <1>10, <1>11, <1>12, <1>13, <1>14, <1>15
<1>17. QED
  BY <1>1, <1>16, StillImplements DEF Good

LEMMA SteerAbortGood == ASSUME SlotInv, NEW r \in Runs, SteerAbort(r) PROVE Good
<1> USE DEF SlotInv
<1> DEFINE c == act.trans
<1>1. /\ pc[r] = "steering" /\ r \notin cancelled /\ act.rec = r /\ <<c, thread>> \notin given
      /\ lock' = lock /\ cur' = cur /\ names' = names /\ prev' = prev /\ cancelled' = cancelled /\ thread' = thread
      /\ given' = given /\ started' = started /\ ended' = ended /\ stop' = stop /\ del' = del
  BY DEF SteerAbort, Delivered, events, others
<1>2. /\ c \in Runs /\ pc[c] = "steered" /\ host[c] = r /\ c # r
      /\ c \notin started /\ ended[c] = 0 /\ names[c] = NoRun
      /\ \A h \in Runs : names[h] # c /\ host[h] # c
      /\ act # NoAct /\ stop.pc # "hard"
  BY <1>1, SteeringFacts
<1>3. /\ pc' \in [Runs -> PCs] /\ pc'[r] \in {"drain", "stream"} /\ pc'[c] = "none"
      /\ \A q \in Runs : q \notin {r, c} => pc'[q] = pc[q]
  BY <1>2 DEF SteerAbort, Types, PCs, Unfinished
<1>4. /\ how' \in [Runs -> AllTransports \cup {"none", "exec_retry"}]
      /\ \A q \in Runs : q # c => how'[q] = how[q]
      /\ host' \in [Runs -> Ids] /\ host'[c] = NoRun /\ \A q \in Runs : q # c => host'[q] = host[q]
  BY <1>2, RunsFacts DEF SteerAbort, Types
<1>5. /\ act' \in [rec : Ids, run : Ids, stop : BOOLEAN, trans : Ids] /\ act' # NoAct
      /\ act'.rec = r /\ act'.run = act.run
  BY <1>1, <1>2, TransFacts, RunsFacts DEF SteerAbort
<1> HIDE DEF c
<1>6. Types'
  BY <1>1, <1>3, <1>4, <1>5 DEF Types
<1>7. \A q \in Runs : /\ pc'[q] \in NotYet => pc[q] \in NotYet \/ q = c
                      /\ pc'[q] \in Unfinished \ {"admit"} => pc[q] \in Unfinished \ {"admit"} /\ q # c
                      /\ pc'[q] \in Early => pc[q] \in Early /\ q # c
                      /\ pc'[q] \in Unfinished \ Admitting => pc[q] \in Unfinished \ Admitting /\ q # c
                      /\ q # c /\ pc'[q] \in NotYet \cup {"steered"} => pc[q] \in NotYet \cup {"steered"}
                      /\ pc'[q] \in Admitting => pc[q] \in Admitting
                      /\ pc'[q] \in Live => pc[q] \in Live
                      /\ pc'[q] = "closing" => pc[q] = "closing"
                      /\ pc'[q] \in NotYet \cup {"accepted"} => pc[q] \in NotYet \cup {"accepted"} \/ q = c
                      /\ pc'[q] \in NotYet \cup Early => pc[q] \in NotYet \cup Early \/ q = c
  BY <1>1, <1>3 DEF NotYet, Unfinished, Early, Admitting, Live
<1>8. AdmittingTrue'
  BY <1>1, <1>7 DEF AdmittingTrue
<1>9. RunnersTrue'
  <2>1. \A q \in Runs : pc'[q] \in NotYet => q \notin started' /\ names'[q] = NoRun /\ host'[q] = NoRun
    BY <1>1, <1>2, <1>4, <1>7 DEF RunnersTrue
  <2>2. \A q \in Runs : pc'[q] \in Unfinished \ {"admit"} => host'[q] = q /\ names'[q] \in Runs
    BY <1>1, <1>4, <1>7 DEF RunnersTrue
  <2>3. \A q \in Runs : pc'[q] \in Early => names'[q] = q
    BY <1>1, <1>7 DEF RunnersTrue
  <2>4. \A q \in Runs : pc'[q] \in Unfinished \ Admitting =>
            names'[q] \in started' \/ \E p \in given' : p[1] = names'[q]
    BY <1>1, <1>7 DEF RunnersTrue
  <2>5. \A q \in Runs : names'[q] # NoRun => host'[names'[q]] = q
    BY <1>1, <1>2, <1>4 DEF RunnersTrue, Types, Ids
  <2>6. \A q \in Runs : host'[q] # NoRun => pc'[host'[q]] \notin NotYet \cup {"steered"}
    <3>1. \A q \in Runs : host'[q] # NoRun => host'[q] \in Runs /\ host'[q] # c /\ host'[q] = host[q]
      BY <1>2, <1>4 DEF Ids
    <3>2. QED
      BY <1>7, <3>1 DEF RunnersTrue
  <2>7. \A q, x \in Runs : host'[x] = q /\ (~Native(q)' \/ pc'[q] \in Early) => x = q
    <3>1. \A q \in Runs : q # c => Native(q)' = Native(q)
      BY <1>4 DEF Native
    <3>2. \A q, x \in Runs : host'[x] = q => host[x] = q /\ q # c
      BY <1>2, <1>4, RunsFacts
    <3>3. QED
      BY <1>7, <3>1, <3>2 DEF RunnersTrue
  <2>8. QED
    BY <2>1, <2>2, <2>3, <2>4, <2>5, <2>6, <2>7 DEF RunnersTrue
<1>10. HeldTrue'
  BY <1>1, <1>2, <1>3, <1>5 DEF HeldTrue, Unfinished
<1>11. DrivenTrue'
  BY <1>1, <1>2, <1>7 DEF DrivenTrue
<1>12. UnsentTrue'
  BY <1>1, <1>7 DEF UnsentTrue
<1>13. ClosingTrue'
  BY <1>1, <1>2, <1>5, <1>7 DEF ClosingTrue, ClosedOnce
<1>14. HandoverTrue'
  <2>2. ASSUME NEW q \in Runs, pc'[q] = "handing", q \notin cancelled' PROVE Predecessor(q)'
    <3>1. q # r /\ Predecessor(q)
      BY <1>1, <1>2, <1>3, <2>2 DEF HandoverTrue
    <3>2. host'[prev[q]] = host[prev[q]]
      BY <1>2, <1>4, <3>1 DEF Predecessor
    <3>3. QED
      BY <1>1, <3>1, <3>2 DEF Predecessor
  <2>3. \A q \in Runs : ~(pc'[q] = "steering" /\ act'.rec = q)
    BY <1>3, <1>5
  <2>4. QED
    BY <2>2, <2>3 DEF HandoverTrue
<1>15. SlotInv'
  BY <1>6, <1>8, <1>9, <1>10, <1>11, <1>12, <1>13, <1>14
<1>16. QED
  BY <1>1, <1>15, StillImplements DEF Good

(* The successor's prompt goes to the provider while its predecessor holds  *)
(* the chat.                                                                *)
LEMMA SteerDeliverGood == ASSUME SlotInv, NEW r \in Runs, SteerDeliver(r) PROVE Good
<1> USE DEF SlotInv
<1> DEFINE c == act.trans
<1>1. /\ pc[r] = "steering" /\ r \notin cancelled /\ act.rec = r /\ <<c, thread>> \notin given
      /\ lock' = lock /\ cur' = cur /\ act' = act /\ pc' = pc /\ how' = how /\ names' = names
      /\ host' = host /\ prev' = prev /\ cancelled' = cancelled /\ thread' = thread
      /\ started' = started /\ ended' = ended /\ stop' = stop /\ del' = del
      /\ given' = given \cup {<<c, thread>>}
  BY DEF SteerDeliver, Delivered, slot, runner, events, others
<1>2. c \in Runs /\ pc[c] = "steered" /\ c \notin started /\ ended[c] = 0 /\ cur # NoTurn
  BY <1>1, SteeringFacts
<1> HIDE DEF c
<1>3. Types'
  <2>1. thread \in Nat /\ <<c, thread>> \in Runs \X Nat /\ <<c, thread>>[2] <= thread
    BY <1>2 DEF Types
  <2>2. QED
    BY <1>1, <2>1 DEF Types
<1>4. AdmittingTrue' /\ HeldTrue' /\ DrivenTrue'
  BY <1>1 DEF AdmittingTrue, HeldTrue, DrivenTrue
<1>5. RunnersTrue'
  <2>1. \A q \in Runs : pc'[q] \in Unfinished \ Admitting =>
            names'[q] \in started' \/ \E p \in given' : p[1] = names'[q]
    BY <1>1 DEF RunnersTrue
  <2>2. QED
    BY <1>1, <2>1 DEF RunnersTrue, Native
<1>6. UnsentTrue'
  BY <1>1, <1>2 DEF UnsentTrue, NotYet, Early
<1>7. ClosingTrue'
  BY <1>1 DEF ClosingTrue, ClosedOnce
<1>8. HandoverTrue'
  <2>1. \A q \in Runs : pc[q] = "handing" /\ q \notin cancelled => Predecessor(q)'
    BY <1>1 DEF HandoverTrue, Predecessor
  <2>2. QED
    BY <1>1, <2>1 DEF HandoverTrue
<1>9. SlotInv'
  BY <1>3, <1>4, <1>5, <1>6, <1>7, <1>8
<1>10. Owner # NoRun
  BY <1>2, OwnerFacts
<1>11. QED
  BY <1>1, <1>2, <1>9, <1>10, GiveImplements DEF Good

(* The chat goes to the successor, in the record and in CURRENT_TURNS. *)
LEMMA SteerCommitGood == ASSUME SlotInv, NEW r \in Runs, SteerCommit(r) PROVE Good
<1> USE DEF SlotInv
<1> DEFINE c == act.trans
<1>1. /\ pc[r] = "steering" /\ r \notin cancelled /\ act.rec = r /\ (\E p \in given : p[1] = c)
      /\ lock' = lock /\ how' = how /\ host' = host /\ cancelled' = cancelled /\ thread' = thread
      /\ given' = given /\ started' = started /\ ended' = ended /\ stop' = stop /\ del' = del
  BY DEF SteerCommit, Delivered, events, others
<1>2. /\ c \in Runs /\ pc[c] = "steered" /\ host[c] = r /\ c # r
      /\ c \notin started /\ ended[c] = 0
      /\ \A h \in Runs : names[h] # c
      /\ cur # NoTurn /\ act # NoAct /\ cur.adm = r /\ cur.run = names[r] /\ cur.run \in Runs
      /\ stop.pc \notin {"hard", "closing"} /\ Native(r)
  BY <1>1, SteeringFacts
<1>3. /\ pc' \in [Runs -> PCs] /\ pc'[r] = "handing" /\ \A q \in Runs : q # r => pc'[q] = pc[q]
      /\ names' \in [Runs -> Ids] /\ names'[r] = c /\ \A q \in Runs : q # r => names'[q] = names[q]
      /\ prev' \in [Runs -> Ids] /\ prev'[r] = names[r] /\ \A q \in Runs : q # r => prev'[q] = prev[q]
  BY <1>2, RunsFacts DEF SteerCommit, Go, Types, PCs, Unfinished
<1>4. /\ act' \in [rec : Ids, run : Ids, stop : BOOLEAN, trans : Ids] /\ act'.rec = r /\ act'.run = c
      /\ cur' \in [adm : Ids, run : Ids] /\ cur'.adm = r /\ cur'.run = c
  <2>1. /\ act \in [rec : Ids, run : Ids, stop : BOOLEAN, trans : Ids] /\ act' = [act EXCEPT !.run = c]
        /\ cur \in [adm : Ids, run : Ids] /\ cur' = [cur EXCEPT !.run = c] /\ c \in Ids
    BY <1>2, RunsFacts DEF SteerCommit, Types
  <2> HIDE DEF c
  <2>2. QED
    BY <1>1, <1>2, <2>1
<1> HIDE DEF c
<1>5. Types'
  BY <1>1, <1>3, <1>4 DEF Types
<1>6. \A q \in Runs : /\ pc'[q] \in NotYet => pc[q] \in NotYet /\ q # r
                      /\ pc'[q] \in Unfinished \ {"admit"} => pc[q] \in Unfinished \ {"admit"}
                      /\ pc'[q] \in Early => pc[q] \in Early /\ q # r
                      /\ pc'[q] \in Unfinished \ Admitting => pc[q] \in Unfinished \ Admitting
                      /\ pc'[q] \in NotYet \cup {"steered"} => pc[q] \in NotYet \cup {"steered"}
                      /\ pc'[q] \in Admitting => pc[q] \in Admitting
                      /\ pc'[q] \in Live => pc[q] \in Live
                      /\ pc'[q] = "closing" => pc[q] = "closing" /\ q # r
                      /\ pc'[q] \in NotYet \cup {"accepted"} => pc[q] \in NotYet \cup {"accepted"}
                      /\ pc'[q] \in NotYet \cup Early => pc[q] \in NotYet \cup Early
  BY <1>1, <1>3 DEF NotYet, Unfinished, Early, Admitting, Live
<1>7. AdmittingTrue'
  BY <1>1, <1>6 DEF AdmittingTrue
<1>8. RunnersTrue'
  <2>1. \A q \in Runs : pc'[q] \in NotYet => q \notin started' /\ names'[q] = NoRun /\ host'[q] = NoRun
    BY <1>1, <1>3, <1>6 DEF RunnersTrue
  <2>2. \A q \in Runs : pc'[q] \in Unfinished \ {"admit"} => host'[q] = q /\ names'[q] \in Runs
    BY <1>1, <1>2, <1>3, <1>6 DEF RunnersTrue
  <2>3. \A q \in Runs : pc'[q] \in Early => names'[q] = q
    BY <1>1, <1>3, <1>6 DEF RunnersTrue
  <2>4. \A q \in Runs : pc'[q] \in Unfinished \ Admitting =>
            names'[q] \in started' \/ \E p \in given' : p[1] = names'[q]
    BY <1>1, <1>3, <1>6 DEF RunnersTrue
  <2>5. \A q \in Runs : names'[q] # NoRun => host'[names'[q]] = q
    BY <1>1, <1>2, <1>3 DEF RunnersTrue
  <2>6. \A q \in Runs : host'[q] # NoRun => pc'[host'[q]] \notin NotYet \cup {"steered"}
    BY <1>1, <1>6 DEF RunnersTrue, Types, Ids
  <2>7. \A q, x \in Runs : host'[x] = q /\ (~Native(q)' \/ pc'[q] \in Early) => x = q
    BY <1>1, <1>6 DEF RunnersTrue, Native
  <2>8. QED
    BY <2>1, <2>2, <2>3, <2>4, <2>5, <2>6, <2>7 DEF RunnersTrue
<1>9. HeldTrue'
  BY <1>2, <1>3, <1>4, RunsFacts DEF HeldTrue, Unfinished, NoTurn
<1>10. DrivenTrue'
  BY <1>1, <1>2, <1>4, <1>6 DEF DrivenTrue
<1>11. UnsentTrue'
  BY <1>1, <1>6 DEF UnsentTrue
<1>12. ClosingTrue'
  <2>1. \A q \in Runs : pc'[q] = "closing" => ended'[names'[q]] = 0 /\ cur'.run # names'[q]
    BY <1>1, <1>2, <1>3, <1>4, <1>6 DEF ClosingTrue
  <2>2. QED
    BY <1>1, <1>2, <1>4, <1>6, <2>1 DEF ClosingTrue, ClosedOnce
<1>13. HandoverTrue'
  <2>1. ASSUME NEW q \in Runs, q # r, pc'[q] = "handing", q \notin cancelled' PROVE Predecessor(q)'
    BY <1>1, <1>3, <2>1 DEF HandoverTrue, Predecessor
  <2>2. Predecessor(r)'
    <3>1. names[r] \in Runs /\ host[names[r]] = r /\ names[r] # c /\ ended[names[r]] = 0
      BY <1>2, RunsFacts DEF RunnersTrue, ClosingTrue
    <3>2. names[r] \in started \/ \E p \in given : p[1] = names[r]
      BY <1>1 DEF RunnersTrue, Unfinished, Admitting
    <3>3. QED
      BY <1>1, <1>3, <3>1, <3>2 DEF Predecessor
  <2>3. \A q \in Runs : pc'[q] = "handing" /\ q \notin cancelled' => Predecessor(q)'
    BY <2>1, <2>2
  <2>4. \A q \in Runs : ~(pc'[q] = "steering" /\ act'.rec = q)
    BY <1>3, <1>4
  <2>5. QED
    BY <2>3, <2>4 DEF HandoverTrue
<1>14. SlotInv'
  BY <1>5, <1>7, <1>8, <1>9, <1>10, <1>11, <1>12, <1>13
<1>15. Owner # NoRun /\ Owner' = c /\ Closed' = Closed
  BY <1>1, <1>2, <1>4, OwnerFacts, RunsFacts DEF Owner, Closed
<1>16. \E p \in given : p[1] = c
  BY <1>1
<1>17. Abstract!Hand(c)
  BY <1>1, <1>2, <1>15, <1>16 DEF Abstract!Hand, Abstract!NoRun, NoRun, Closed
<1>18. QED
  BY <1>2, <1>14, <1>17 DEF Good, Implements, Abstract!Next

(* The events of a committed handover: the predecessor closed, the          *)
(* successor opened, apart or in one batch.                                 *)
Records(r, w) ==
    /\ pc[r] \in {"handing", "opening"} /\ r \notin cancelled /\ w \in {"opening", "stream"}
    /\ pc' = [pc EXCEPT ![r] = w] /\ CloseLeftOpen(r)
    /\ started' = started \/ started' = started \cup {names[r]}
    /\ Fits(act', r)
    /\ UNCHANGED <<lock, cur, how, names, host, prev, cancelled, thread, given, stop, del>>

LEMMA RecordsGood ==
    ASSUME SlotInv, NEW r \in Runs, NEW w, Records(r, w)
    PROVE  Good
<1> USE DEF SlotInv
<1>1. /\ pc[r] \in {"handing", "opening"} /\ r \notin cancelled /\ w \in {"opening", "stream"}
      /\ pc[r] \in Live /\ pc[r] \in Unfinished \ {"admit"} /\ pc[r] \in Unfinished \ Admitting
      /\ lock' = lock /\ cur' = cur /\ how' = how /\ names' = names /\ host' = host /\ prev' = prev
      /\ cancelled' = cancelled /\ thread' = thread /\ given' = given /\ stop' = stop /\ del' = del
  BY DEF Records, Live, Unfinished, Admitting
<1>2. pc' \in [Runs -> PCs] /\ pc'[r] = w /\ \A q \in Runs : q # r => pc'[q] = pc[q]
  BY DEF Records, Types, PCs, Unfinished
<1>3. /\ names[r] \in Runs /\ host[names[r]] = r /\ cur.adm = r /\ cur.run = names[r] /\ cur # NoTurn
  <2>1. names[r] \in Runs /\ host[names[r]] = r
    BY <1>1, RunsFacts DEF RunnersTrue
  <2>2. cur.adm = r
    BY <1>1 DEF DrivenTrue
  <2>3. QED
    BY <2>1, <2>2, HoldFacts, RunsFacts
<1>4. stop.pc \notin {"hard", "closing"}
  BY <1>1, <1>3 DEF DrivenTrue, Unfinished, ClosingTrue
<1>5. \A x \in LeftOpen(r) : /\ x \in Runs /\ host[x] = r /\ x # names[r] /\ ended[x] = 0
                             /\ x \in started \/ \E p \in given : p[1] = x
                             /\ pc[x] \notin NotYet \cup {"accepted"}
  <2>1. \A x \in LeftOpen(r) : /\ x \in Runs /\ host[x] = r /\ x # names[r] /\ ended[x] = 0
                               /\ x \in started \/ \E p \in given : p[1] = x
    BY <1>1 DEF LeftOpen, HandoverTrue, Predecessor
  <2>2. \A x \in LeftOpen(r) : pc[x] \notin NotYet \cup {"accepted"}
    BY <1>1, <2>1, RunsFacts DEF RunnersTrue, Unfinished
  <2>3. QED
    BY <2>1, <2>2
<1>6. \A x, y \in LeftOpen(r) : x = y
  BY DEF LeftOpen
<1>7. /\ ended' \in [Runs -> Nat]
      /\ \A q \in Runs : q \in LeftOpen(r) => ended'[q] = 1
      /\ \A q \in Runs : q \notin LeftOpen(r) => ended'[q] = ended[q]
  BY <1>5 DEF Records, CloseLeftOpen, Types
<1>8. started \subseteq started' /\ started' \subseteq Runs /\ (\A x \in started' : x \in started \/ x = names[r])
  BY <1>3 DEF Records, Types
<1>9. \A q \in Runs : /\ pc'[q] \in NotYet => pc[q] \in NotYet
                      /\ pc'[q] \in Unfinished \ {"admit"} => pc[q] \in Unfinished \ {"admit"}
                      /\ pc'[q] \in Early => pc[q] \in Early
                      /\ pc'[q] \in Unfinished \ Admitting => pc[q] \in Unfinished \ Admitting
                      /\ pc'[q] \in NotYet \cup {"steered"} => pc[q] \in NotYet \cup {"steered"}
                      /\ pc'[q] \in Admitting => pc[q] \in Admitting
                      /\ pc'[q] \in Live => pc[q] \in Live
                      /\ pc'[q] = "closing" => pc[q] = "closing" /\ q # r
                      /\ pc'[q] \in NotYet \cup {"accepted"} => pc[q] \in NotYet \cup {"accepted"}
                      /\ pc'[q] \in NotYet \cup Early => pc[q] \in NotYet \cup Early
  BY <1>1, <1>2 DEF NotYet, Unfinished, Early, Admitting, Live
<1>10. Types'
  BY <1>1, <1>2, <1>7, <1>8 DEF Types, Records, Fits
<1>11. AdmittingTrue'
  BY <1>1, <1>9 DEF AdmittingTrue
<1>12. RunnersTrue'
  <2>1. \A q \in Runs : pc'[q] \in NotYet => q \notin started' /\ names'[q] = NoRun /\ host'[q] = NoRun
    BY <1>1, <1>3, <1>8, <1>9, RunsFacts DEF RunnersTrue
  <2>2. \A q \in Runs : host[q] # NoRun => pc'[host[q]] \notin NotYet \cup {"steered"}
    BY <1>9 DEF RunnersTrue, Types, Ids
  <2>3. \A q \in Runs : pc'[q] \in Unfinished \ Admitting =>
            names'[q] \in started' \/ \E p \in given' : p[1] = names'[q]
    BY <1>1, <1>8, <1>9 DEF RunnersTrue
  <2>4. QED
    BY <1>1, <1>9, <2>1, <2>2, <2>3 DEF RunnersTrue, Native
<1>13. HeldTrue'
  BY <1>1, <1>2 DEF HeldTrue, Records, Fits, Unfinished
<1>14. DrivenTrue'
  BY <1>1, <1>4, <1>9 DEF DrivenTrue
<1>15. UnsentTrue'
  BY <1>1, <1>9 DEF UnsentTrue
<1>16. ClosingTrue'
  <2>1. \A q \in Runs : pc'[q] \in NotYet \cup {"accepted"} => ended'[q] = 0
    BY <1>5, <1>7, <1>9 DEF ClosingTrue
  <2>2. ended'[cur.run] = 0
    BY <1>3, <1>5, <1>7, RunsFacts DEF ClosingTrue
  <2>3. \A q \in Runs : pc'[q] = "closing" => ended'[names[q]] = 0 /\ cur.run # names[q]
    <3>1. \A q \in Runs : pc'[q] = "closing" => q # r /\ names[q] \in Runs /\ host[names[q]] = q
      BY <1>9, RunsFacts DEF RunnersTrue, Unfinished
    <3>2. QED
      BY <1>5, <1>7, <1>9, <3>1 DEF ClosingTrue
  <2>4. \A q \in Runs : ended'[q] <= 1
    BY <1>7 DEF ClosingTrue, ClosedOnce
  <2>5. QED
    BY <1>1, <1>4, <2>1, <2>2, <2>3, <2>4 DEF ClosingTrue, ClosedOnce
<1>17. HandoverTrue'
  <2>3. ASSUME NEW q \in Runs, pc'[q] = "handing", q \notin cancelled' PROVE Predecessor(q)'
    <3>1. q # r /\ Predecessor(q)
      BY <1>1, <1>2, <2>3 DEF HandoverTrue
    <3>2. ended'[prev[q]] = 0
      BY <1>5, <1>7, <3>1 DEF Predecessor
    <3>3. QED
      BY <1>1, <1>8, <3>1, <3>2 DEF Predecessor
  <2>4. act'.rec \in {r, NoRun}
    BY <1>3 DEF Records, Fits, NoAct
  <2>5. \A q \in Runs : ~(pc'[q] = "steering" /\ act'.rec = q)
    BY <1>1, <1>2, <2>4, RunsFacts
  <2>6. QED
    BY <2>3, <2>5 DEF HandoverTrue
<1>18. SlotInv'
  BY <1>10, <1>11, <1>12, <1>13, <1>14, <1>15, <1>16, <1>17
<1>19. Owner = names[r] /\ Owner' = Owner
  BY <1>1, <1>3, RunsFacts DEF Owner
<1>20. CASE LeftOpen(r) = {}
  <2>1. ended' = ended
    BY <1>7, <1>20 DEF Types
  <2>2. QED
    BY <1>1, <1>3, <1>18, <1>19, <2>1, StillImplements, OpenImplements DEF Good, Records
<1>21. CASE LeftOpen(r) # {}
  <2>1. PICK x \in LeftOpen(r) : TRUE
    BY <1>21
  <2>2. LeftOpen(r) = {x}
    BY <1>6, <2>1
  <2>3. /\ x \in Runs /\ x # names[r] /\ ended[x] = 0
        /\ x \in started \/ \E p \in given : p[1] = x
    BY <1>5, <2>1
  <2>4. Closed' = Closed \cup {x} /\ x \notin Closed
    BY <1>7, <2>2, <2>3 DEF Closed, Types
  <2>5. CASE started' = started
    <3>1. Abstract!Close(x, {})
      <4>1. started' = started \cup {}
        BY <2>5
      <4>2. QED
        BY <1>1, <1>19, <2>3, <2>4, <4>1 DEF Abstract!Close, Abstract!NoRun, NoRun, Closed
    <3>2. QED
      BY <1>18, <2>3, <3>1 DEF Good, Implements, Abstract!Next
  <2>6. CASE started' = started \cup {names[r]}
    <3>1. {Owner} \ {x, NoRun} = {names[r]}
      BY <1>3, <1>19, <2>3, RunsFacts
    <3>2. Abstract!Close(x, {Owner} \ {x, Abstract!NoRun})
      <4>1. started' = started \cup ({Owner} \ {x, Abstract!NoRun})
        BY <2>6, <3>1 DEF Abstract!NoRun, NoRun
      <4>2. QED
        BY <1>1, <1>19, <2>3, <2>4, <4>1 DEF Abstract!Close, Abstract!NoRun, NoRun, Closed
    <3>3. Abstract!Next
      BY <2>3, <3>2 DEF Abstract!Next, Abstract!Close
    <3>4. QED
      BY <1>18, <3>3 DEF Good, Implements
  <2>7. QED
    BY <2>5, <2>6 DEF Records
<1>22. QED
  BY <1>20, <1>21

LEMMA SteerClosePreviousGood == ASSUME SlotInv, NEW r \in Runs, SteerClosePrevious(r) PROVE Good
<1>1. Records(r, "opening")
  BY FitsFacts DEF SteerClosePrevious, Go, Records, slot, runner, others
<1>2. QED
  BY <1>1, RecordsGood

LEMMA SteerOpenNextGood == ASSUME SlotInv, NEW r \in Runs, SteerOpenNext(r) PROVE Good
<1>1. act' = IF act.rec = r THEN [act EXCEPT !.trans = NoRun] ELSE act
  BY DEF SteerOpenNext
<1>2. Fits(act', r)
  BY <1>1, FitsFacts
<1>3. Records(r, "stream")
  BY <1>2 DEF SteerOpenNext, Go, Records, runner, others
<1>4. QED
  BY <1>3, RecordsGood

-----------------------------------------------------------------------------
(* The refinement. *)

LEMMA SlotInitial == Init => SlotInv /\ Abstract!Init
<1>1. SUFFICES ASSUME Init PROVE SlotInv /\ Abstract!Init
  OBVIOUS
<1>2. /\ cur = NoTurn /\ act = NoAct /\ cancelled = {} /\ started = {} /\ given = {} /\ thread = 1
      /\ del = "no" /\ cur.adm = NoRun /\ cur.run = NoRun /\ act.rec = NoRun /\ stop.pc = "idle"
      /\ \A r \in Runs : pc[r] = "none" /\ names[r] = NoRun /\ host[r] = NoRun /\ ended[r] = 0
  BY <1>1 DEF Init, NoTurn, NoAct, NoStop
<1>3. Types
  <2>1. stop \in StopType
    BY <1>1, RunsFacts DEF Init, NoStop, StopType
  <2>2. /\ pc \in [Runs -> PCs] /\ how \in [Runs -> AllTransports \cup {"none", "exec_retry"}]
        /\ names \in [Runs -> Ids] /\ host \in [Runs -> Ids] /\ prev \in [Runs -> Ids]
        /\ ended \in [Runs -> Nat]
    BY <1>1, RunsFacts DEF Init, PCs
  <2>3. QED
    BY <1>2, <2>1, <2>2, EmptyTyped DEF Types, StopType
<1>4. AdmittingTrue /\ HeldTrue /\ DrivenTrue
  BY <1>2 DEF AdmittingTrue, Admitting, HeldTrue, DrivenTrue, Live
<1>5. RunnersTrue
  BY <1>2, RunsFacts DEF RunnersTrue, Unfinished, Early
<1>6. UnsentTrue
  BY <1>2 DEF UnsentTrue
<1>7. ClosingTrue
  BY <1>2 DEF ClosingTrue, ClosedOnce
<1>8. HandoverTrue
  BY <1>2 DEF HandoverTrue
<1>9. Abstract!Init
  BY <1>2 DEF Abstract!Init, Abstract!NoRun, NoRun, Owner
<1>10. QED
  BY <1>3, <1>4, <1>5, <1>6, <1>7, <1>8, <1>9 DEF SlotInv

LEMMA RunningGood == ASSUME SlotInv, NEW r \in Runs, Running(r) PROVE Good
<1>1. CASE Starting(r)
  BY <1>1, SpawnGood, SpawnFailsGood, BindProcessGood, FeedGood DEF Starting
<1>2. CASE ProcessEnds(r) \/ NativeEnds(r)
  BY <1>2, ProcessEndsGood, NativeEndsGood
<1>3. CASE ExecRollover(r) \/ OpencodeQuarantine(r) \/ AppFallsBack(r)
  BY <1>3, ExecRolloverGood, OpencodeQuarantineGood, AppFallsBackGood
<1>4. CASE Finishing(r)
  BY <1>4, FinalizeReleaseGood, FinalizeEventGood DEF Finishing
<1>5. CASE NativeStarts(r)
  BY <1>5, BindNativeGood, StartNativeGood, StartNativeFailsGood DEF NativeStarts
<1>6. CASE \E c \in Runs : SteerOpen(r, c)
  BY <1>6, SteerOpenGood
<1>7. CASE Handover(r)
  BY <1>7, SteerAbortGood, SteerDeliverGood, SteerUncertainGood, SteerCommitGood,
     SteerClosePreviousGood, SteerOpenNextGood, SteerEventsFailGood DEF Handover
<1>8. QED
  BY <1>1, <1>2, <1>3, <1>4, <1>5, <1>6, <1>7
  DEF Running, ClaudePrintStarts, ClaudePrintEnds, ClaudePrintFinishes, CodexExecStarts,
      CodexExecEnds, CodexExecFinishes, CursorStarts, CursorEnds, CursorFinishes, OpencodeStarts,
      OpencodeEnds, OpencodeFinishes, ClaudeSdkStarts, ClaudeSdkSteers, ClaudeSdkEnds,
      ClaudeSdkFinishes, CodexAppStarts, CodexAppSteers, CodexAppEnds, CodexAppFinishes

LEMMA SlotStep == ASSUME SlotInv, [Next]_vars PROVE Good
<1>1. CASE \E r \in Runs, t \in Transports : StartTurn(r, t) \/ Promote(r, t)
  BY <1>1, ReserveGood DEF StartTurn, Promote
<1>2. CASE EnqueueTurn \/ PromoteNothing \/ RunHeld \/ UNCHANGED vars
  BY <1>2, QueueGood
<1>3. CASE \E r \in Runs : Admission(r) \/ Running(r) \/ Ending(r)
  BY <1>3, RunningGood, PublishGood, PersistGood, LaunchGood, SettleGood, UnwindGood,
     ReconcileExitGood DEF Admission, Ending
<1>4. CASE StopBegin \/ Stopping \/ StopDone
  BY <1>4, StopBeginGood, StopDoneGood, StopAwaitBoundGood, StopAwaitGoneGood, StopAwaitTimeoutGood,
     StopInterruptGood, StopConfirmedGood, StopTimeoutGood, StopReleaseGood, StopReleaseLostGood,
     StopEventGood DEF Stopping
<1>5. CASE DeleteAsk \/ Deletion
  BY <1>5, DeleteAskGood, DeleteInterruptGood, DeleteCancelGood, DeleteRefusedGood, DeleteDoneGood
  DEF Deletion
<1>6. CASE Restart
  BY <1>6, RestartGood
<1>7. QED
  BY <1>1, <1>2, <1>3, <1>4, <1>5, <1>6 DEF Next

(* Every state of the slot satisfies the invariant: a live runner holds the *)
(* chat, whoever is about to close a turn finds it open, and a turn is      *)
(* closed at most once.                                                     *)
THEOREM SlotInvariant == Spec => [](SlotInv /\ ClosedOnce)
<1>1. Init => SlotInv
  BY SlotInitial
<1>2. SlotInv /\ [Next]_vars => SlotInv'
  BY SlotStep DEF Good
<1>3. SlotInv => ClosedOnce
  BY DEF SlotInv, ClosingTrue
<1>4. QED
  BY <1>1, <1>2, <1>3, PTL DEF Spec

(* The slot keeps its contract, whatever the interleaving of admissions,    *)
(* runners, steers, Stops, deletions and crashes, on every transport: one   *)
(* turn at a time holds the chat, a prompt goes at most once to a provider  *)
(* session and only for that turn or its successor, and the transcript      *)
(* opens and closes a turn at most once (_start_turn_locked,                *)
(* bind_active_turn, release_turn_slot, finalize_owned_turn_finished).      *)
THEOREM SlotKeepsContract == Spec => Contract
<1>1. Init => SlotInv /\ Abstract!Init
  BY SlotInitial
<1>2. SlotInv /\ [Next]_vars => SlotInv' /\ [Abstract!Next]_(Abstract!cvars)
  BY SlotStep DEF Good, Implements
<1>3. QED
  BY <1>1, <1>2, PTL DEF Spec, Contract, Abstract!Contract


-----------------------------------------------------------------------------
(***************************************************************************)
(* A Stop reaches the turn it was asked for and no other, and the slot is  *)
(* never taken from the turn that holds it.                                *)
(***************************************************************************)


Flags == stopReq \in BOOLEAN /\ wake \in BOOLEAN

Typed ==
    /\ lock \in {"free", "start", "delete"}
    /\ stopped \subseteq Runs /\ alive \subseteq Runs /\ torn \subseteq Runs
    /\ thread # 0 /\ born \in [Runs -> Nat]
    /\ used \in [stops : 0..MaxStops, deletes : 0..MaxDeletes, crashes : 0..MaxCrashes]
    /\ del \in {"no", "asked", "waiting", "gone"}
    /\ row \in {"none", "ready", "held", "claimed"}
    /\ \A r \in Runs : pc[r] \in {"handing", "opening"} => prev[r] \in Runs

(* A Stop or a deletion is at work: nothing is admitted beside it. *)
Fenced == stop.pc # "idle" \/ del \in {"asked", "waiting"}

(* Who was admitted when; a steered run has its runner's age. *)
BornTrue ==
    /\ \A r \in Runs : pc[r] # "none" => born[r] <= Asked /\ (Fenced => born[r] < Asked)
    /\ \A r \in Runs : host[r] # NoRun => born[r] = born[host[r]]
    /\ stopReq => cur # NoTurn /\ act = NoAct /\ born[cur.adm] < Asked
    /\ \A r \in stopped \cup cancelled : born[r] < Asked

(* A bound turn is marked in its record and in STOPPED_RUNS, or in neither; *)
(* a mark belongs to a run that exists.                                     *)
MarkTrue ==
    /\ act # NoAct => (act.stop <=> act.run \in stopped)
    /\ act # NoAct => pc[act.rec] \notin Admitting \cup {"task", "spawned"}
    /\ \A r \in Runs : pc[r] \in {"drain", "closing", "exit"} /\ ~Native(r) => act.rec # r
    /\ \A r \in stopped : pc[r] \notin NotYet
    /\ \A r \in cancelled : pc[r] \notin NotYet \cup {"steered"}
    /\ \A r \in cancelled : act # NoAct /\ act.rec = r => act.stop
    /\ \A r \in Runs : pc[r] = "steering" /\ act.rec = r => act.trans \notin stopped
    /\ \A r \in Runs : pc[r] \in Driving \ {"spawned"} /\ cur.adm = r => act.rec = r
    /\ \A r \in Runs : pc[r] \in {"handing", "opening"} /\ r \notin cancelled => prev[r] # names[r]

(* The Stop still aims at the turn it marked. *)
AimTrue ==
    /\ stop.pc = "await" => stop.adm \in Runs /\ stop.rec = NoRun
    /\ stop.pc \in {"interrupt", "confirm"} => stop.rec \in Runs
    /\ stop.pc \in {"interrupt", "confirm", "hard"} =>
         /\ stop.run \in Runs /\ host[stop.run] \in Runs
         /\ stop.rec # NoRun => host[stop.run] = stop.rec
         /\ \A r \in Runs : pc[r] = "steering" /\ act.rec = r => stop.run # act.trans
         /\ cur.adm = host[stop.run] => cur.run \in stopped /\ pc[cur.adm] \notin Admitting
    /\ stop.pc \in {"interrupt", "confirm"} /\ cur.adm = stop.rec => pc[stop.rec] \notin {"task", "spawned"}
    /\ stop.pc = "confirm" /\ cur.adm = stop.rec /\ ~Native(stop.rec) => stop.rec \notin alive
    /\ stop.pc = "hard" /\ cur.adm = host[stop.run] /\ pc[cur.adm] \in Driving /\ ~Native(cur.adm) =>
         cur.adm \notin alive \/ <<cur.adm, thread>> \notin given

(* A deletion and a Stop exclude each other; a turn beside a deletion has   *)
(* been asked to stop, and a deleted chat has no task.                      *)
GoneTrue ==
    /\ del # "no" => stop.pc = "idle"
    /\ del \in {"asked", "waiting"} /\ cur # NoTurn => stopReq \/ cur.run \in stopped
    /\ del = "gone" => Tasks = {}

(* What a provider may be executing for a runner that lost the chat. *)
Stray(p) == p[1] \in alive /\ pc[host[p[1]]] \in Driving /\ host[p[1]] # cur.adm

SessionTrue ==
    /\ \A r \in Runs : pc[r] \in NotYet => \A p \in given : p[1] # r
    /\ \A p \in given : host[p[1]] \in Runs
    /\ \A p \in given : Stray(p) => p[2] < thread /\ \A q \in given : host[q[1]] = cur.adm => q[2] # p[2]
    /\ OneTurnPerSession

StopInv == Flags /\ Typed /\ BornTrue /\ MarkTrue /\ AimTrue /\ GoneTrue /\ SessionTrue

(* What a step may do, besides keeping the invariant. *)
Lawful ==
    /\ \A p \in given' \ given : p[1] \notin stopped /\ ~(act.rec = host[p[1]] /\ act.stop)
    /\ cur # NoTurn /\ cur' = NoTurn /\ used' = used =>
          \/ cur.run \in stopped
          \/ \E r \in Runs : pc'[r] # pc[r] /\ (names[r] = cur.run \/ r = cur.adm)
          \/ del' = "gone"
    /\ del = "gone" => UNCHANGED <<started, ended, given>>

(* A step between two states of the slot's invariant. *)
Step == SlotInv /\ SlotInv' /\ StopInv

Exact == StopInv' /\ Lawful

-----------------------------------------------------------------------------
USE RunsFacts DEF slot, runner, events, others, queue, Go, Terminal, Busy, StopFence, Asked, NoTurn,
                  NoAct, NoStop, Native, Driving, Unfinished, NotYet, Admitting, Early, PCs, Live

-----------------------------------------------------------------------------
(* A runner that ends its work, and perhaps gives the chat back. *)
Ends ==
    /\ given' = given /\ host' = host /\ thread' = thread /\ alive' \subseteq alive
    /\ \A q \in Runs : pc'[q] \in Driving => pc[q] \in Driving
    /\ \A q \in Runs : pc'[q] \in NotYet => pc[q] \in NotYet
    /\ cur' = cur \/ (cur'.adm = NoRun /\ \A q \in Runs : q = cur.adm => pc'[q] \notin Driving)

LEMMA EndsSession ==
  ASSUME Step, Ends
  PROVE  SessionTrue'
<1>1. \A p \in given : p[1] \in Runs /\ host[p[1]] \in Runs
  BY DEF Step, StopInv, SessionTrue, SlotInv, Types
<1>2. \A p \in given : Stray(p)' => Stray(p)
  BY <1>1 DEF Ends, Stray
<1>3. OneTurnPerSession'
  BY <1>1 DEF Ends, Step, StopInv, SessionTrue, OneTurnPerSession
<1> QED BY <1>1, <1>2, <1>3 DEF Ends, Step, StopInv, SessionTrue

(* The holder of the chat begins, or goes on with, a turn at its provider. *)
Works(r) ==
    /\ cur.adm = r /\ host[r] = r /\ cur' = cur /\ host' = host /\ thread' = thread
    /\ given \subseteq given' /\ \A p \in given' \ given : p[2] = thread /\ p[1] \in Runs /\ host[p[1]] = r
    /\ \A x \in alive' \ alive : host[x] = r
    /\ \A q \in Runs : q # r => pc'[q] = pc[q]
    /\ \A q \in Runs : pc'[q] \in NotYet => pc[q] \in NotYet /\ \A p \in given' \ given : p[1] # q

LEMMA WorksSession ==
  ASSUME Step, NEW r \in Runs, Works(r)
  PROVE  SessionTrue'
<1>1. \A p \in given' : p[1] \in Runs /\ host[p[1]] \in Runs
  BY DEF Step, StopInv, SessionTrue, SlotInv, Types, Works
<1>2. \A p \in given' : Stray(p)' => p \in given /\ Stray(p)
  BY <1>1 DEF Works, Stray
<1>3. \A p \in given : Stray(p) => p[2] < thread /\ \A q \in given' : host[q[1]] = r => q[2] # p[2]
  BY DEF Works, Step, StopInv, SessionTrue, SlotInv, Types
<1>4. ASSUME NEW p \in given', NEW q \in given', p[2] = q[2], p[1] \in alive', q[1] \in alive',
             pc'[host[p[1]]] \in Driving, pc'[host[q[1]]] \in Driving
      PROVE  host[p[1]] = host[q[1]]
  <2>1. CASE host[p[1]] = r /\ host[q[1]] # r
    <3>1. Stray(q)'
      BY <1>4, <2>1 DEF Stray, Works
    <3> QED BY <1>2, <1>3, <1>4, <2>1, <3>1
  <2>2. CASE host[q[1]] = r /\ host[p[1]] # r
    <3>1. Stray(p)'
      BY <1>4, <2>2 DEF Stray, Works
    <3> QED BY <1>2, <1>3, <1>4, <2>2, <3>1
  <2>3. CASE host[p[1]] # r /\ host[q[1]] # r
    BY <1>1, <1>4, <2>3 DEF Works, Step, StopInv, SessionTrue, OneTurnPerSession
  <2> QED BY <2>1, <2>2, <2>3
<1>5. OneTurnPerSession'
  BY <1>4 DEF OneTurnPerSession, Works
<1> QED BY <1>1, <1>2, <1>3, <1>5 DEF Works, Step, StopInv, SessionTrue

-----------------------------------------------------------------------------
(* Admission and the queue. *)

LEMMA StartTurnExact ==
  ASSUME Step, NEW r \in Runs, NEW t \in Transports, StartTurn(r, t)
  PROVE  Exact
<1>1. Flags'
  BY DEF Step, StopInv, Flags, StartTurn, Reserve, Fresh, Used
<1>2. Typed'
  BY SlotAssumption DEF Step, StopInv, Typed, StartTurn, Reserve, Fresh, Used
<1>3. BornTrue'
  BY DEF Step, StopInv, Typed, BornTrue, MarkTrue, AimTrue, Fenced, SlotInv, Types,
         AdmittingTrue, RunnersTrue, HeldTrue, DrivenTrue, Ids, StartTurn, Reserve, Fresh, Used
<1>4. MarkTrue'
  BY DEF Step, StopInv, Typed, MarkTrue, BornTrue, SlotInv, Types, AdmittingTrue, RunnersTrue,
         HeldTrue, DrivenTrue, Ids, StartTurn, Reserve, Fresh, Used
<1>5. AimTrue'
  BY DEF Step, StopInv, Typed, AimTrue, SlotInv, Types, StartTurn, Reserve, Fresh, Used
<1>6. GoneTrue'
  BY DEF Step, StopInv, Typed, GoneTrue, Tasks, SlotInv, Types, StartTurn, Reserve, Fresh, Used
<1>7. SessionTrue'
  BY DEF Step, StopInv, Typed, SessionTrue, OneTurnPerSession, Stray, MarkTrue, SlotInv, Types,
         AdmittingTrue, RunnersTrue, HeldTrue, DrivenTrue, Ids, StartTurn, Reserve, Fresh, Used
<1>8. Lawful
  BY DEF Step, StopInv, Lawful, GoneTrue, Tasks, SlotInv, Types, StartTurn, Reserve, Fresh, Used
<1> QED BY <1>1, <1>2, <1>3, <1>4, <1>5, <1>6, <1>7, <1>8 DEF Exact, StopInv

LEMMA PromoteExact ==
  ASSUME Step, NEW r \in Runs, NEW t \in Transports, Promote(r, t)
  PROVE  Exact
<1>1. Flags'
  BY DEF Step, StopInv, Flags, Promote, Reserve, Fresh, Used
<1>2. Typed'
  BY SlotAssumption DEF Step, StopInv, Typed, SlotInv, Types, AdmittingTrue, RunnersTrue,
         HeldTrue, DrivenTrue, Ids, Promote, Reserve, Fresh, Used
<1>3. BornTrue'
  BY DEF Step, StopInv, Typed, BornTrue, MarkTrue, AimTrue, Fenced, SlotInv, Types,
         AdmittingTrue, RunnersTrue, HeldTrue, DrivenTrue, Ids, Promote, Reserve, Fresh, Used
<1>4. MarkTrue'
  BY DEF Step, StopInv, Typed, MarkTrue, BornTrue, SlotInv, Types, AdmittingTrue, RunnersTrue,
         HeldTrue, DrivenTrue, Ids, Promote, Reserve, Fresh, Used
<1>5. AimTrue'
  BY DEF Step, StopInv, Typed, AimTrue, SlotInv, Types, Promote, Reserve, Fresh, Used
<1>6. GoneTrue'
  BY DEF Step, StopInv, Typed, GoneTrue, Tasks, SlotInv, Types, Promote, Reserve, Fresh, Used
<1>7. SessionTrue'
  BY DEF Step, StopInv, Typed, SessionTrue, OneTurnPerSession, Stray, MarkTrue, SlotInv, Types,
         AdmittingTrue, RunnersTrue, HeldTrue, DrivenTrue, Ids, Promote, Reserve, Fresh, Used
<1>8. Lawful
  BY DEF Step, StopInv, Lawful, GoneTrue, Tasks, SlotInv, Types, Promote, Reserve, Fresh, Used
<1> QED BY <1>1, <1>2, <1>3, <1>4, <1>5, <1>6, <1>7, <1>8 DEF Exact, StopInv

LEMMA EnqueueTurnExact ==
  ASSUME Step, EnqueueTurn
  PROVE  Exact
<1>1. Flags'
  BY DEF Step, StopInv, Flags, EnqueueTurn
<1>2. Typed'
  BY SlotAssumption DEF Step, StopInv, Typed, EnqueueTurn
<1>3. BornTrue'
  BY DEF Step, StopInv, Typed, BornTrue, Fenced, SlotInv, Types, EnqueueTurn
<1>4. MarkTrue'
  BY DEF Step, StopInv, Typed, MarkTrue, SlotInv, Types, EnqueueTurn
<1>5. AimTrue'
  BY DEF Step, StopInv, Typed, AimTrue, SlotInv, Types, EnqueueTurn
<1>6. GoneTrue'
  BY DEF Step, StopInv, Typed, GoneTrue, Tasks, SlotInv, Types, EnqueueTurn
<1>7. SessionTrue'
  BY DEF Step, StopInv, Typed, SessionTrue, OneTurnPerSession, Stray, SlotInv, Types,
         EnqueueTurn
<1>8. Lawful
  BY DEF Step, StopInv, Lawful, GoneTrue, Tasks, SlotInv, Types, EnqueueTurn
<1> QED BY <1>1, <1>2, <1>3, <1>4, <1>5, <1>6, <1>7, <1>8 DEF Exact, StopInv

LEMMA PromoteNothingExact ==
  ASSUME Step, PromoteNothing
  PROVE  Exact
<1>1. Flags'
  BY DEF Step, StopInv, Flags, PromoteNothing
<1>2. Typed'
  BY SlotAssumption DEF Step, StopInv, Typed, PromoteNothing
<1>3. BornTrue'
  BY DEF Step, StopInv, Typed, BornTrue, Fenced, SlotInv, Types, PromoteNothing
<1>4. MarkTrue'
  BY DEF Step, StopInv, Typed, MarkTrue, SlotInv, Types, PromoteNothing
<1>5. AimTrue'
  BY DEF Step, StopInv, Typed, AimTrue, SlotInv, Types, PromoteNothing
<1>6. GoneTrue'
  BY DEF Step, StopInv, Typed, GoneTrue, Tasks, SlotInv, Types, PromoteNothing
<1>7. SessionTrue'
  BY DEF Step, StopInv, Typed, SessionTrue, OneTurnPerSession, Stray, SlotInv, Types,
         PromoteNothing
<1>8. Lawful
  BY DEF Step, StopInv, Lawful, GoneTrue, Tasks, SlotInv, Types, PromoteNothing
<1> QED BY <1>1, <1>2, <1>3, <1>4, <1>5, <1>6, <1>7, <1>8 DEF Exact, StopInv

LEMMA RunHeldExact ==
  ASSUME Step, RunHeld
  PROVE  Exact
<1>1. Flags'
  BY DEF Step, StopInv, Flags, RunHeld
<1>2. Typed'
  BY SlotAssumption DEF Step, StopInv, Typed, RunHeld
<1>3. BornTrue'
  BY DEF Step, StopInv, Typed, BornTrue, Fenced, SlotInv, Types, RunHeld
<1>4. MarkTrue'
  BY DEF Step, StopInv, Typed, MarkTrue, SlotInv, Types, RunHeld
<1>5. AimTrue'
  BY DEF Step, StopInv, Typed, AimTrue, SlotInv, Types, RunHeld
<1>6. GoneTrue'
  BY DEF Step, StopInv, Typed, GoneTrue, Tasks, SlotInv, Types, RunHeld
<1>7. SessionTrue'
  BY DEF Step, StopInv, Typed, SessionTrue, OneTurnPerSession, Stray, SlotInv, Types, RunHeld
<1>8. Lawful
  BY DEF Step, StopInv, Lawful, GoneTrue, Tasks, SlotInv, Types, RunHeld
<1> QED BY <1>1, <1>2, <1>3, <1>4, <1>5, <1>6, <1>7, <1>8 DEF Exact, StopInv

LEMMA PublishRunExact ==
  ASSUME Step, NEW r \in Runs, PublishRun(r)
  PROVE  Exact
<1>1. Flags'
  BY DEF Step, StopInv, Flags, PublishRun
<1>2. Typed'
  BY SlotAssumption DEF Step, StopInv, Typed, PublishRun
<1>3. BornTrue'
  BY DEF Step, StopInv, Typed, BornTrue, Fenced, SlotInv, Types, PublishRun
<1>4. MarkTrue'
  BY DEF Step, StopInv, Typed, MarkTrue, SlotInv, Types, PublishRun
<1>5. AimTrue'
  BY DEF Step, StopInv, Typed, MarkTrue, AimTrue, SlotInv, Types, AdmittingTrue, RunnersTrue,
         HeldTrue, DrivenTrue, Ids, PublishRun
<1>6. GoneTrue'
  BY DEF Step, StopInv, Typed, GoneTrue, Tasks, SlotInv, Types, AdmittingTrue, RunnersTrue,
         HeldTrue, DrivenTrue, Ids, PublishRun
<1>7. SessionTrue'
  BY DEF Step, StopInv, Typed, SessionTrue, OneTurnPerSession, Stray, SlotInv, Types, PublishRun
<1>8. Lawful
  BY DEF Step, StopInv, Lawful, GoneTrue, Tasks, SlotInv, Types, PublishRun
<1> QED BY <1>1, <1>2, <1>3, <1>4, <1>5, <1>6, <1>7, <1>8 DEF Exact, StopInv

LEMMA PersistTurnAcceptanceExact ==
  ASSUME Step, NEW r \in Runs, PersistTurnAcceptance(r)
  PROVE  Exact
<1>1. Flags'
  BY DEF Step, StopInv, Flags, PersistTurnAcceptance
<1>2. Typed'
  BY SlotAssumption DEF Step, StopInv, Typed, PersistTurnAcceptance
<1>3. BornTrue'
  BY DEF Step, StopInv, Typed, BornTrue, Fenced, SlotInv, Types, PersistTurnAcceptance
<1>4. MarkTrue'
  BY DEF Step, StopInv, Typed, MarkTrue, SlotInv, Types, PersistTurnAcceptance
<1>5. AimTrue'
  BY DEF Step, StopInv, Typed, AimTrue, SlotInv, Types, PersistTurnAcceptance
<1>6. GoneTrue'
  BY DEF Step, StopInv, Typed, GoneTrue, Tasks, SlotInv, Types, PersistTurnAcceptance
<1>7. SessionTrue'
  BY DEF Step, StopInv, Typed, SessionTrue, OneTurnPerSession, Stray, SlotInv, Types,
         PersistTurnAcceptance
<1>8. Lawful
  BY DEF Step, StopInv, Lawful, GoneTrue, Tasks, SlotInv, Types, PersistTurnAcceptance
<1> QED BY <1>1, <1>2, <1>3, <1>4, <1>5, <1>6, <1>7, <1>8 DEF Exact, StopInv

LEMMA LaunchTaskExact ==
  ASSUME Step, NEW r \in Runs, LaunchTask(r)
  PROVE  Exact
<1>1. Flags'
  BY DEF Step, StopInv, Flags, LaunchTask
<1>2. Typed'
  BY SlotAssumption DEF Step, StopInv, Typed, LaunchTask
<1>3. BornTrue'
  BY DEF Step, StopInv, Typed, BornTrue, Fenced, SlotInv, Types, LaunchTask
<1>4. MarkTrue'
  BY DEF Step, StopInv, Typed, MarkTrue, SlotInv, Types, LaunchTask
<1>5. AimTrue'
  BY DEF Step, StopInv, Typed, AimTrue, SlotInv, Types, LaunchTask
<1>6. GoneTrue'
  BY DEF Step, StopInv, Typed, GoneTrue, Tasks, SlotInv, Types, LaunchTask
<1>7. SessionTrue'
  BY DEF Step, StopInv, Typed, SessionTrue, OneTurnPerSession, Stray, SlotInv, Types, LaunchTask
<1>8. Lawful
  BY DEF Step, StopInv, Lawful, GoneTrue, Tasks, SlotInv, Types, LaunchTask
<1> QED BY <1>1, <1>2, <1>3, <1>4, <1>5, <1>6, <1>7, <1>8 DEF Exact, StopInv

LEMMA SettlePrecommitFailureExact ==
  ASSUME Step, NEW r \in Runs, SettlePrecommitFailure(r)
  PROVE  Exact
<1>1. Flags'
  BY DEF Step, StopInv, Flags, SettlePrecommitFailure, MayRelease, Owns, ClearSlot
<1>2. Typed'
  BY SlotAssumption DEF Step, StopInv, Typed, SlotInv, Types, AdmittingTrue, RunnersTrue,
         HeldTrue, DrivenTrue, Ids, SettlePrecommitFailure, MayRelease, Owns, ClearSlot
<1>3. BornTrue'
  BY DEF Step, StopInv, Typed, BornTrue, Fenced, SlotInv, Types, SettlePrecommitFailure,
         MayRelease, Owns, ClearSlot
<1>4. MarkTrue'
  BY DEF Step, StopInv, Typed, MarkTrue, BornTrue, SlotInv, Types, AdmittingTrue, RunnersTrue,
         HeldTrue, DrivenTrue, Ids, SettlePrecommitFailure, MayRelease, Owns, ClearSlot
<1>5. AimTrue'
  BY DEF Step, StopInv, Typed, AimTrue, SlotInv, Types, SettlePrecommitFailure, MayRelease,
         Owns, ClearSlot
<1>6. GoneTrue'
  BY DEF Step, StopInv, Typed, GoneTrue, Tasks, SlotInv, Types, SettlePrecommitFailure,
         MayRelease, Owns, ClearSlot
<1>7. SessionTrue'
  <2>1. cur' = cur \/ (cur' = NoTurn /\ (cur.adm = r \/ (names[r] = r /\ Owns(r))))
    BY DEF SettlePrecommitFailure, MayRelease, ClearSlot
  <2>2. cur' = cur \/ (cur'.adm = NoRun /\ cur.adm = r)
    BY <2>1, HoldFacts DEF Step, SlotInv, RunnersTrue
  <2>3. Ends
    BY <2>2 DEF Step, SlotInv, Types, Ends, SettlePrecommitFailure
  <2> QED BY <2>3, EndsSession
<1>8. Lawful
  BY DEF Step, StopInv, Lawful, GoneTrue, Tasks, MarkTrue, AimTrue, SlotInv, Types,
         AdmittingTrue, RunnersTrue, HeldTrue, DrivenTrue, Ids, SettlePrecommitFailure,
         MayRelease, Owns, ClearSlot
<1> QED BY <1>1, <1>2, <1>3, <1>4, <1>5, <1>6, <1>7, <1>8 DEF Exact, StopInv

-----------------------------------------------------------------------------
(* The provider runners. *)

LEMMA SpawnExact ==
  ASSUME Step, NEW r \in Runs, Spawn(r)
  PROVE  Exact
<1>1. Flags'
  BY DEF Step, StopInv, Flags, Spawn
<1>2. Typed'
  BY SlotAssumption DEF Step, StopInv, Typed, Spawn
<1>3. BornTrue'
  BY DEF Step, StopInv, Typed, BornTrue, Fenced, SlotInv, Types, Spawn
<1>4. MarkTrue'
  BY DEF Step, StopInv, Typed, MarkTrue, SlotInv, Types, Spawn
<1>5. AimTrue'
  BY DEF Step, StopInv, Typed, MarkTrue, AimTrue, SlotInv, Types, AdmittingTrue, RunnersTrue,
         HeldTrue, DrivenTrue, Ids, Spawn
<1>6. GoneTrue'
  BY DEF Step, StopInv, Typed, GoneTrue, Tasks, SlotInv, Types, Spawn
<1>7. SessionTrue'
  <2>1. cur.adm = r /\ host[r] = r
    BY DEF Step, SlotInv, DrivenTrue, RunnersTrue, Spawn
  <2>2. Works(r)
    BY <2>1 DEF Step, SlotInv, Types, Works, Spawn
  <2> QED BY <2>2, WorksSession
<1>8. Lawful
  BY DEF Step, StopInv, Lawful, GoneTrue, Tasks, SlotInv, Types, Spawn
<1> QED BY <1>1, <1>2, <1>3, <1>4, <1>5, <1>6, <1>7, <1>8 DEF Exact, StopInv

LEMMA SpawnFailsExact ==
  ASSUME Step, NEW r \in Runs, SpawnFails(r)
  PROVE  Exact
<1>1. Flags'
  BY DEF Step, StopInv, Flags, SpawnFails, Release, MayRelease, Owns, ClearSlot
<1>2. Typed'
  BY SlotAssumption DEF Step, StopInv, Typed, SlotInv, Types, AdmittingTrue, RunnersTrue,
         HeldTrue, DrivenTrue, Ids, SpawnFails, Release, MayRelease, Owns, ClearSlot
<1>3. BornTrue'
  BY DEF Step, StopInv, Typed, BornTrue, Fenced, SlotInv, Types, SpawnFails, Release,
         MayRelease, Owns, ClearSlot
<1>4. MarkTrue'
  BY DEF Step, StopInv, Typed, MarkTrue, BornTrue, SlotInv, Types, AdmittingTrue, RunnersTrue,
         HeldTrue, DrivenTrue, Ids, SpawnFails, Release, MayRelease, Owns, ClearSlot
<1>5. AimTrue'
  BY DEF Step, StopInv, Typed, AimTrue, SlotInv, Types, SpawnFails, Release, MayRelease, Owns,
         ClearSlot
<1>6. GoneTrue'
  BY DEF Step, StopInv, Typed, GoneTrue, Tasks, SlotInv, Types, SpawnFails, Release, MayRelease,
         Owns, ClearSlot
<1>7. SessionTrue'
  <2>1. cur' = cur \/ (cur' = NoTurn /\ Owns(r))
    BY DEF SpawnFails, Release, MayRelease, ClearSlot
  <2>2. host[r] = r
    BY DEF Step, SlotInv, RunnersTrue, SpawnFails
  <2>3. cur' = cur \/ (cur'.adm = NoRun /\ cur.adm = r)
    BY <2>1, <2>2, HoldFacts DEF Step
  <2>4. Ends
    BY <2>3 DEF Step, SlotInv, Types, Ends, SpawnFails
  <2> QED BY <2>4, EndsSession
<1>8. Lawful
  BY DEF Step, StopInv, Lawful, GoneTrue, Tasks, MarkTrue, AimTrue, SlotInv, Types,
         AdmittingTrue, RunnersTrue, HeldTrue, DrivenTrue, Ids, SpawnFails, Release, MayRelease,
         Owns, ClearSlot
<1> QED BY <1>1, <1>2, <1>3, <1>4, <1>5, <1>6, <1>7, <1>8 DEF Exact, StopInv

LEMMA BindProcessExact ==
  ASSUME Step, NEW r \in Runs, BindProcess(r)
  PROVE  Exact
<1>1. Flags'
  BY DEF Step, StopInv, Flags, BindProcess, CanBind, BindActive, StopSeen
<1>2. Typed'
  BY SlotAssumption DEF Step, StopInv, Typed, SlotInv, Types, AdmittingTrue, RunnersTrue,
         HeldTrue, DrivenTrue, Ids, BindProcess, CanBind, BindActive, StopSeen
<1>3. BornTrue'
  BY DEF Step, StopInv, Typed, BornTrue, MarkTrue, AimTrue, Fenced, SlotInv, Types,
         AdmittingTrue, RunnersTrue, HeldTrue, DrivenTrue, Ids, BindProcess, CanBind,
         BindActive, StopSeen
<1>4. MarkTrue'
  BY DEF Step, StopInv, Typed, MarkTrue, BornTrue, SlotInv, Types, AdmittingTrue, RunnersTrue,
         HeldTrue, DrivenTrue, Ids, BindProcess, CanBind, BindActive, StopSeen
<1>5. AimTrue'
  BY DEF Step, StopInv, Typed, AimTrue, SlotInv, Types, BindProcess, CanBind, BindActive,
         StopSeen
<1>6. GoneTrue'
  BY DEF Step, StopInv, Typed, GoneTrue, Tasks, SlotInv, Types, BindProcess, CanBind,
         BindActive, StopSeen
<1>7. SessionTrue'
  BY DEF Step, StopInv, Typed, SessionTrue, OneTurnPerSession, Stray, SlotInv, Types,
         BindProcess, CanBind, BindActive, StopSeen
<1>8. Lawful
  BY DEF Step, StopInv, Lawful, GoneTrue, Tasks, SlotInv, Types, BindProcess, CanBind,
         BindActive, StopSeen
<1> QED BY <1>1, <1>2, <1>3, <1>4, <1>5, <1>6, <1>7, <1>8 DEF Exact, StopInv

LEMMA FeedProcessExact ==
  ASSUME Step, NEW r \in Runs, FeedProcess(r)
  PROVE  Exact
<1>1. Flags'
  BY DEF Step, StopInv, Flags, FeedProcess
<1>2. Typed'
  BY SlotAssumption DEF Step, StopInv, Typed, FeedProcess
<1>3. BornTrue'
  BY DEF Step, StopInv, Typed, BornTrue, Fenced, SlotInv, Types, FeedProcess
<1>4. MarkTrue'
  BY DEF Step, StopInv, Typed, MarkTrue, SlotInv, Types, FeedProcess
<1>5. AimTrue'
  BY DEF Step, StopInv, Typed, MarkTrue, AimTrue, SlotInv, Types, AdmittingTrue, RunnersTrue,
         HeldTrue, DrivenTrue, Ids, FeedProcess
<1>6. GoneTrue'
  BY DEF Step, StopInv, Typed, GoneTrue, Tasks, SlotInv, Types, FeedProcess
<1>7. SessionTrue'
  <2>1. cur.adm = r /\ host[r] = r
    BY DEF Step, SlotInv, DrivenTrue, RunnersTrue, FeedProcess
  <2>2. Works(r)
    BY <2>1 DEF Step, SlotInv, Types, Works, FeedProcess
  <2> QED BY <2>2, WorksSession
<1>8. Lawful
  BY DEF Step, StopInv, Lawful, GoneTrue, Tasks, MarkTrue, AimTrue, SlotInv, Types,
         AdmittingTrue, RunnersTrue, HeldTrue, DrivenTrue, Ids, FeedProcess
<1> QED BY <1>1, <1>2, <1>3, <1>4, <1>5, <1>6, <1>7, <1>8 DEF Exact, StopInv

LEMMA ProcessEndsExact ==
  ASSUME Step, NEW r \in Runs, ProcessEnds(r)
  PROVE  Exact
<1>1. Flags'
  BY DEF Step, StopInv, Flags, ProcessEnds, ClearActive
<1>2. Typed'
  BY SlotAssumption DEF Step, StopInv, Typed, ProcessEnds, ClearActive
<1>3. BornTrue'
  BY DEF Step, StopInv, Typed, BornTrue, Fenced, SlotInv, Types, AdmittingTrue, RunnersTrue,
         HeldTrue, DrivenTrue, Ids, ProcessEnds, ClearActive
<1>4. MarkTrue'
  BY DEF Step, StopInv, Typed, MarkTrue, BornTrue, SlotInv, Types, AdmittingTrue, RunnersTrue,
         HeldTrue, DrivenTrue, Ids, ProcessEnds, ClearActive
<1>5. AimTrue'
  BY DEF Step, StopInv, Typed, AimTrue, SlotInv, Types, ProcessEnds, ClearActive
<1>6. GoneTrue'
  BY DEF Step, StopInv, Typed, GoneTrue, Tasks, SlotInv, Types, ProcessEnds, ClearActive
<1>7. SessionTrue'
  BY DEF Step, StopInv, Typed, SessionTrue, OneTurnPerSession, Stray, SlotInv, Types,
         ProcessEnds, ClearActive
<1>8. Lawful
  BY DEF Step, StopInv, Lawful, GoneTrue, Tasks, SlotInv, Types, ProcessEnds, ClearActive
<1> QED BY <1>1, <1>2, <1>3, <1>4, <1>5, <1>6, <1>7, <1>8 DEF Exact, StopInv

LEMMA ExecRolloverExact ==
  ASSUME Step, NEW r \in Runs, ExecRollover(r)
  PROVE  Exact
<1>1. Flags'
  BY DEF Step, StopInv, Flags, ExecRollover, Owns
<1>2. Typed'
  BY SlotAssumption DEF Step, StopInv, Typed, SlotInv, Types, Ids, ExecRollover, Owns
<1>3. BornTrue'
  BY DEF Step, StopInv, Typed, BornTrue, Fenced, SlotInv, Types, ExecRollover, Owns
<1>4. MarkTrue'
  BY DEF Step, StopInv, Typed, BornTrue, MarkTrue, AimTrue, Fenced, SlotInv, Types,
         AdmittingTrue, RunnersTrue, HeldTrue, DrivenTrue, UnsentTrue, ClosingTrue,
         HandoverTrue, Predecessor, Ids, ExecRollover, Owns
<1>5. AimTrue'
  BY DEF Step, StopInv, Typed, AimTrue, SlotInv, Types, ExecRollover, Owns
<1>6. GoneTrue'
  BY DEF Step, StopInv, Typed, GoneTrue, Tasks, SlotInv, Types, ExecRollover, Owns
<1>7. SessionTrue'
  BY DEF Step, StopInv, Typed, SessionTrue, OneTurnPerSession, Stray, SlotInv, Types,
         ExecRollover, Owns
<1>8. Lawful
  BY DEF Step, StopInv, Lawful, GoneTrue, Tasks, SlotInv, Types, ExecRollover, Owns
<1> QED BY <1>1, <1>2, <1>3, <1>4, <1>5, <1>6, <1>7, <1>8 DEF Exact, StopInv

LEMMA OpencodeQuarantineExact ==
  ASSUME Step, NEW r \in Runs, OpencodeQuarantine(r)
  PROVE  Exact
<1>1. Flags'
  BY DEF Step, StopInv, Flags, OpencodeQuarantine
<1>2. Typed'
  BY SlotAssumption DEF Step, StopInv, Typed, SlotInv, Types, Ids, OpencodeQuarantine
<1>3. BornTrue'
  BY DEF Step, StopInv, Typed, BornTrue, Fenced, SlotInv, Types, OpencodeQuarantine
<1>4. MarkTrue'
  BY DEF Step, StopInv, Typed, MarkTrue, SlotInv, Types, OpencodeQuarantine
<1>5. AimTrue'
  BY DEF Step, StopInv, Typed, AimTrue, SlotInv, Types, OpencodeQuarantine
<1>6. GoneTrue'
  BY DEF Step, StopInv, Typed, GoneTrue, Tasks, SlotInv, Types, OpencodeQuarantine
<1>7. SessionTrue'
  BY DEF Step, StopInv, Typed, SessionTrue, OneTurnPerSession, Stray, SlotInv, Types,
         OpencodeQuarantine
<1>8. Lawful
  BY DEF Step, StopInv, Lawful, GoneTrue, Tasks, SlotInv, Types, OpencodeQuarantine
<1> QED BY <1>1, <1>2, <1>3, <1>4, <1>5, <1>6, <1>7, <1>8 DEF Exact, StopInv

LEMMA BindNativeExact ==
  ASSUME Step, NEW r \in Runs, BindNative(r)
  PROVE  Exact
<1>1. Flags'
  BY DEF Step, StopInv, Flags, BindNative, CanBind, BindActive, StopSeen
<1>2. Typed'
  BY SlotAssumption DEF Step, StopInv, Typed, SlotInv, Types, AdmittingTrue, RunnersTrue,
         HeldTrue, DrivenTrue, Ids, BindNative, CanBind, BindActive, StopSeen
<1>3. BornTrue'
  BY DEF Step, StopInv, Typed, BornTrue, MarkTrue, AimTrue, Fenced, SlotInv, Types,
         AdmittingTrue, RunnersTrue, HeldTrue, DrivenTrue, Ids, BindNative, CanBind, BindActive,
         StopSeen
<1>4. MarkTrue'
  BY DEF Step, StopInv, Typed, MarkTrue, BornTrue, SlotInv, Types, AdmittingTrue, RunnersTrue,
         HeldTrue, DrivenTrue, Ids, BindNative, CanBind, BindActive, StopSeen
<1>5. AimTrue'
  BY DEF Step, StopInv, Typed, AimTrue, SlotInv, Types, BindNative, CanBind, BindActive,
         StopSeen
<1>6. GoneTrue'
  BY DEF Step, StopInv, Typed, GoneTrue, Tasks, SlotInv, Types, BindNative, CanBind, BindActive,
         StopSeen
<1>7. SessionTrue'
  <2>1. cur.adm = r /\ host[r] = r
    BY DEF Step, SlotInv, DrivenTrue, RunnersTrue, BindNative
  <2>2. Works(r)
    BY <2>1 DEF Step, SlotInv, Types, Works, BindNative, BindActive
  <2> QED BY <2>2, WorksSession
<1>8. Lawful
  BY DEF Step, StopInv, Lawful, GoneTrue, Tasks, SlotInv, Types, BindNative, CanBind,
         BindActive, StopSeen
<1> QED BY <1>1, <1>2, <1>3, <1>4, <1>5, <1>6, <1>7, <1>8 DEF Exact, StopInv

LEMMA StartNativeExact ==
  ASSUME Step, NEW r \in Runs, StartNative(r)
  PROVE  Exact
<1>1. Flags'
  BY DEF Step, StopInv, Flags, StartNative, StillWanted, Owns
<1>2. Typed'
  BY SlotAssumption DEF Step, StopInv, Typed, SlotInv, Types, Ids, StartNative, StillWanted,
         Owns
<1>3. BornTrue'
  BY DEF Step, StopInv, Typed, BornTrue, MarkTrue, AimTrue, Fenced, SlotInv, Types,
         AdmittingTrue, RunnersTrue, HeldTrue, DrivenTrue, Ids, StartNative, StillWanted, Owns
<1>4. MarkTrue'
  BY DEF Step, StopInv, Typed, MarkTrue, BornTrue, SlotInv, Types, AdmittingTrue, RunnersTrue,
         HeldTrue, DrivenTrue, Ids, StartNative, StillWanted, Owns
<1>5. AimTrue'
  BY DEF Step, StopInv, Typed, AimTrue, SlotInv, Types, StartNative, StillWanted, Owns
<1>6. GoneTrue'
  BY DEF Step, StopInv, Typed, GoneTrue, Tasks, SlotInv, Types, StartNative, StillWanted, Owns
<1>7. SessionTrue'
  <2>1. cur.adm = r /\ host[r] = r
    BY DEF Step, SlotInv, DrivenTrue, RunnersTrue, StartNative
  <2>2. Works(r)
    BY <2>1 DEF Step, SlotInv, Types, Works, StartNative
  <2> QED BY <2>2, WorksSession
<1>8. Lawful
  BY DEF Step, StopInv, Lawful, GoneTrue, Tasks, MarkTrue, AimTrue, SlotInv, Types,
         AdmittingTrue, RunnersTrue, HeldTrue, DrivenTrue, Ids, StartNative, StillWanted, Owns
<1> QED BY <1>1, <1>2, <1>3, <1>4, <1>5, <1>6, <1>7, <1>8 DEF Exact, StopInv

LEMMA StartNativeFailsExact ==
  ASSUME Step, NEW r \in Runs, StartNativeFails(r)
  PROVE  Exact
<1>1. Flags'
  BY DEF Step, StopInv, Flags, StartNativeFails
<1>2. Typed'
  BY SlotAssumption DEF Step, StopInv, Typed, StartNativeFails
<1>3. BornTrue'
  BY DEF Step, StopInv, Typed, BornTrue, Fenced, SlotInv, Types, StartNativeFails
<1>4. MarkTrue'
  BY DEF Step, StopInv, Typed, MarkTrue, SlotInv, Types, StartNativeFails
<1>5. AimTrue'
  BY DEF Step, StopInv, Typed, AimTrue, SlotInv, Types, StartNativeFails
<1>6. GoneTrue'
  BY DEF Step, StopInv, Typed, GoneTrue, Tasks, SlotInv, Types, StartNativeFails
<1>7. SessionTrue'
  BY DEF Step, StopInv, Typed, SessionTrue, OneTurnPerSession, Stray, SlotInv, Types,
         StartNativeFails
<1>8. Lawful
  BY DEF Step, StopInv, Lawful, GoneTrue, Tasks, SlotInv, Types, StartNativeFails
<1> QED BY <1>1, <1>2, <1>3, <1>4, <1>5, <1>6, <1>7, <1>8 DEF Exact, StopInv

LEMMA NativeEndsExact ==
  ASSUME Step, NEW r \in Runs, NativeEnds(r)
  PROVE  Exact
<1>1. Flags'
  BY DEF Step, StopInv, Flags, NativeEnds, GivenUp, Hosted
<1>2. Typed'
  BY SlotAssumption DEF Step, StopInv, Typed, NativeEnds, GivenUp, Hosted
<1>3. BornTrue'
  BY DEF Step, StopInv, Typed, BornTrue, Fenced, SlotInv, Types, NativeEnds, GivenUp, Hosted
<1>4. MarkTrue'
  BY DEF Step, StopInv, Typed, MarkTrue, SlotInv, Types, NativeEnds, GivenUp, Hosted
<1>5. AimTrue'
  BY DEF Step, StopInv, Typed, AimTrue, SlotInv, Types, NativeEnds, GivenUp, Hosted
<1>6. GoneTrue'
  BY DEF Step, StopInv, Typed, GoneTrue, Tasks, SlotInv, Types, NativeEnds, GivenUp, Hosted
<1>7. SessionTrue'
  BY DEF Step, StopInv, Typed, SessionTrue, OneTurnPerSession, Stray, SlotInv, Types,
         NativeEnds, GivenUp, Hosted
<1>8. Lawful
  BY DEF Step, StopInv, Lawful, GoneTrue, Tasks, SlotInv, Types, NativeEnds, GivenUp, Hosted
<1> QED BY <1>1, <1>2, <1>3, <1>4, <1>5, <1>6, <1>7, <1>8 DEF Exact, StopInv

LEMMA AppFallsBackExact ==
  ASSUME Step, NEW r \in Runs, AppFallsBack(r)
  PROVE  Exact
<1>1. Flags'
  BY DEF Step, StopInv, Flags, AppFallsBack, ClearActive
<1>2. Typed'
  BY SlotAssumption DEF Step, StopInv, Typed, AppFallsBack, ClearActive
<1>3. BornTrue'
  BY DEF Step, StopInv, Typed, BornTrue, Fenced, SlotInv, Types, AdmittingTrue, RunnersTrue,
         HeldTrue, DrivenTrue, Ids, AppFallsBack, ClearActive
<1>4. MarkTrue'
  BY DEF Step, StopInv, Typed, MarkTrue, BornTrue, SlotInv, Types, AdmittingTrue, RunnersTrue,
         HeldTrue, DrivenTrue, Ids, AppFallsBack, ClearActive
<1>5. AimTrue'
  BY DEF Step, StopInv, Typed, MarkTrue, AimTrue, SlotInv, Types, AdmittingTrue, RunnersTrue,
         HeldTrue, DrivenTrue, Ids, AppFallsBack, ClearActive
<1>6. GoneTrue'
  BY DEF Step, StopInv, Typed, GoneTrue, Tasks, SlotInv, Types, AppFallsBack, ClearActive
<1>7. SessionTrue'
  BY DEF Step, StopInv, Typed, SessionTrue, OneTurnPerSession, Stray, SlotInv, Types,
         AppFallsBack, ClearActive
<1>8. Lawful
  BY DEF Step, StopInv, Lawful, GoneTrue, Tasks, SlotInv, Types, AppFallsBack, ClearActive
<1> QED BY <1>1, <1>2, <1>3, <1>4, <1>5, <1>6, <1>7, <1>8 DEF Exact, StopInv

-----------------------------------------------------------------------------
(* Native steering. *)

LEMMA SteerOpenExact ==
  ASSUME Step, NEW r \in Runs, NEW c \in Runs, SteerOpen(r, c)
  PROVE  Exact
<1>1. Flags'
  BY DEF Step, StopInv, Flags, SteerOpen, Hosted, Fresh, Used
<1>2. Typed'
  BY SlotAssumption DEF Step, StopInv, Typed, SlotInv, Types, Ids, SteerOpen, Hosted, Fresh,
         Used
<1>3. BornTrue'
  BY DEF Step, StopInv, Typed, BornTrue, MarkTrue, AimTrue, Fenced, SlotInv, Types,
         AdmittingTrue, RunnersTrue, HeldTrue, DrivenTrue, Ids, SteerOpen, Hosted, Fresh, Used
<1>4. MarkTrue'
  BY DEF Step, StopInv, Typed, MarkTrue, SlotInv, Types, SteerOpen, Hosted, Fresh, Used
<1>5. AimTrue'
  BY DEF Step, StopInv, Typed, MarkTrue, AimTrue, SlotInv, Types, AdmittingTrue, RunnersTrue,
         HeldTrue, DrivenTrue, Ids, SteerOpen, Hosted, Fresh, Used
<1>6. GoneTrue'
  BY DEF Step, StopInv, Typed, GoneTrue, Tasks, SlotInv, Types, SteerOpen, Hosted, Fresh, Used
<1>7. SessionTrue'
  <2>1. /\ given' = given /\ thread' = thread /\ cur' = cur /\ alive' \subseteq alive
        /\ host'[c] = r /\ (\A x \in Runs : x # c => host'[x] = host[x])
        /\ pc'[c] = "steered" /\ pc[c] = "none"
        /\ \A q \in Runs \ {c} : pc'[q] \in Driving => pc[q] \in Driving
        /\ \A q \in Runs \ {c} : pc'[q] \in NotYet => pc[q] \in NotYet
    BY DEF Step, SlotInv, Types, SteerOpen, Fresh, Used
  <2>2. \A p \in given : p[1] \in Runs /\ p[1] # c /\ host[p[1]] \in Runs /\ host'[p[1]] = host[p[1]]
    BY <2>1 DEF Step, StopInv, SessionTrue, SlotInv, Types
  <2>3. \A p \in given : host[p[1]] # c
    BY <2>1, <2>2 DEF Step, SlotInv, RunnersTrue
  <2>4. \A p \in given : Stray(p)' => Stray(p)
    BY <2>1, <2>2, <2>3 DEF Stray
  <2>5. OneTurnPerSession'
    BY <2>1, <2>2, <2>3 DEF Step, StopInv, SessionTrue, OneTurnPerSession
  <2> QED BY <2>1, <2>2, <2>4, <2>5 DEF Step, StopInv, SessionTrue
<1>8. Lawful
  BY DEF Step, StopInv, Lawful, GoneTrue, Tasks, SlotInv, Types, SteerOpen, Hosted, Fresh, Used
<1> QED BY <1>1, <1>2, <1>3, <1>4, <1>5, <1>6, <1>7, <1>8 DEF Exact, StopInv

LEMMA SteerAbortExact ==
  ASSUME Step, NEW r \in Runs, SteerAbort(r)
  PROVE  Exact
<1>1. Flags'
  BY DEF Step, StopInv, Flags, SteerAbort, Delivered
<1>2. Typed'
  BY SlotAssumption DEF Step, StopInv, Typed, SlotInv, Types, Ids, SteerAbort, Delivered
<1>3. BornTrue'
  BY DEF Step, StopInv, Typed, BornTrue, Fenced, SlotInv, Types, SteerAbort, Delivered
<1>4. MarkTrue'
  BY DEF Step, StopInv, Typed, BornTrue, MarkTrue, AimTrue, Fenced, SlotInv, Types,
         AdmittingTrue, RunnersTrue, HeldTrue, DrivenTrue, UnsentTrue, ClosingTrue,
         HandoverTrue, Predecessor, Ids, SteerAbort, Delivered
<1>5. AimTrue'
  BY DEF Step, StopInv, Typed, BornTrue, MarkTrue, AimTrue, Fenced, SlotInv, Types,
         AdmittingTrue, RunnersTrue, HeldTrue, DrivenTrue, UnsentTrue, ClosingTrue,
         HandoverTrue, Predecessor, Ids, SteerAbort, Delivered
<1>6. GoneTrue'
  BY DEF Step, StopInv, Typed, GoneTrue, Tasks, SlotInv, Types, SteerAbort, Delivered
<1>7. SessionTrue'
  <2>1. act.trans \in Runs /\ act.trans # r /\ pc[act.trans] = "steered" /\ \A p \in given : p[1] # act.trans
    BY DEF Step, SlotInv, HandoverTrue, SteerAbort, Delivered
  <2>2. /\ given' = given /\ thread' = thread /\ cur' = cur /\ alive' = alive
        /\ \A x \in Runs : x # act.trans => host'[x] = host[x]
        /\ pc'[act.trans] = "none" /\ pc'[r] \in {"drain", "stream"} /\ pc[r] = "steering"
        /\ \A q \in Runs : q # r /\ q # act.trans => pc'[q] = pc[q]
    BY <2>1 DEF Step, SlotInv, Types, SteerAbort
  <2>3. \A p \in given : p[1] \in Runs /\ host[p[1]] \in Runs /\ host'[p[1]] = host[p[1]]
    BY <2>1, <2>2 DEF Step, StopInv, SessionTrue, SlotInv, Types
  <2>4. \A q \in Runs : pc'[q] \in Driving => pc[q] \in Driving
    BY <2>2
  <2>5. \A p \in given : Stray(p)' => Stray(p)
    BY <2>2, <2>3, <2>4 DEF Stray
  <2>6. OneTurnPerSession'
    BY <2>2, <2>3, <2>4 DEF Step, StopInv, SessionTrue, OneTurnPerSession
  <2>7. \A q \in Runs : pc'[q] \in NotYet => \A p \in given : p[1] # q
    BY <2>1, <2>2 DEF Step, StopInv, SessionTrue
  <2> QED BY <2>2, <2>3, <2>5, <2>6, <2>7 DEF Step, StopInv, SessionTrue
<1>8. Lawful
  BY DEF Step, StopInv, Lawful, GoneTrue, Tasks, SlotInv, Types, SteerAbort, Delivered
<1> QED BY <1>1, <1>2, <1>3, <1>4, <1>5, <1>6, <1>7, <1>8 DEF Exact, StopInv

LEMMA SteerDeliverExact ==
  ASSUME Step, NEW r \in Runs, SteerDeliver(r)
  PROVE  Exact
<1>1. Flags'
  BY DEF Step, StopInv, Flags, SteerDeliver, Delivered, Hosted
<1>2. Typed'
  BY SlotAssumption DEF Step, StopInv, Typed, SlotInv, Types, AdmittingTrue, RunnersTrue,
         HeldTrue, DrivenTrue, UnsentTrue, ClosingTrue, HandoverTrue, Predecessor, Ids,
         SteerDeliver, Delivered, Hosted
<1>3. BornTrue'
  BY DEF Step, StopInv, Typed, BornTrue, Fenced, SlotInv, Types, SteerDeliver, Delivered, Hosted
<1>4. MarkTrue'
  BY DEF Step, StopInv, Typed, MarkTrue, SlotInv, Types, SteerDeliver, Delivered, Hosted
<1>5. AimTrue'
  BY DEF Step, StopInv, Typed, MarkTrue, AimTrue, SlotInv, Types, AdmittingTrue, RunnersTrue,
         HeldTrue, DrivenTrue, Ids, SteerDeliver, Delivered, Hosted
<1>6. GoneTrue'
  BY DEF Step, StopInv, Typed, GoneTrue, Tasks, SlotInv, Types, SteerDeliver, Delivered, Hosted
<1>7. SessionTrue'
  <2>1. cur.adm = r /\ host[r] = r /\ act.trans \in Runs /\ host[act.trans] = r /\ pc[act.trans] = "steered"
    BY DEF Step, SlotInv, DrivenTrue, RunnersTrue, HandoverTrue, SteerDeliver
  <2>2. Works(r)
    BY <2>1 DEF Step, SlotInv, Types, Works, SteerDeliver, Hosted
  <2> QED BY <2>2, WorksSession
<1>8. Lawful
  BY DEF Step, StopInv, Lawful, GoneTrue, Tasks, MarkTrue, AimTrue, SlotInv, Types,
         AdmittingTrue, RunnersTrue, HeldTrue, DrivenTrue, Ids, SteerDeliver, Delivered, Hosted
<1> QED BY <1>1, <1>2, <1>3, <1>4, <1>5, <1>6, <1>7, <1>8 DEF Exact, StopInv

LEMMA SteerUncertainExact ==
  ASSUME Step, NEW r \in Runs, SteerUncertain(r)
  PROVE  Exact
<1>1. Flags'
  BY DEF Step, StopInv, Flags, SteerUncertain, Delivered, Breaks, GivenUp, Hosted
<1>2. Typed'
  BY SlotAssumption DEF Step, StopInv, Typed, SteerUncertain, Delivered, Breaks, GivenUp, Hosted
<1>3. BornTrue'
  BY DEF Step, StopInv, Typed, BornTrue, Fenced, SlotInv, Types, SteerUncertain, Delivered,
         Breaks, GivenUp, Hosted
<1>4. MarkTrue'
  BY DEF Step, StopInv, Typed, MarkTrue, SlotInv, Types, SteerUncertain, Delivered, Breaks,
         GivenUp, Hosted
<1>5. AimTrue'
  BY DEF Step, StopInv, Typed, AimTrue, SlotInv, Types, SteerUncertain, Delivered, Breaks,
         GivenUp, Hosted
<1>6. GoneTrue'
  BY DEF Step, StopInv, Typed, GoneTrue, Tasks, SlotInv, Types, SteerUncertain, Delivered,
         Breaks, GivenUp, Hosted
<1>7. SessionTrue'
  BY DEF Step, StopInv, Typed, SessionTrue, OneTurnPerSession, Stray, SlotInv, Types,
         SteerUncertain, Delivered, Breaks, GivenUp, Hosted
<1>8. Lawful
  BY DEF Step, StopInv, Lawful, GoneTrue, Tasks, SlotInv, Types, SteerUncertain, Delivered,
         Breaks, GivenUp, Hosted
<1> QED BY <1>1, <1>2, <1>3, <1>4, <1>5, <1>6, <1>7, <1>8 DEF Exact, StopInv

LEMMA SteerCommitExact ==
  ASSUME Step, NEW r \in Runs, SteerCommit(r)
  PROVE  Exact
<1>1. Flags'
  BY DEF Step, StopInv, Flags, SteerCommit, Delivered
<1>2. Typed'
  BY SlotAssumption DEF Step, StopInv, Typed, SlotInv, Types, AdmittingTrue, RunnersTrue,
         HeldTrue, DrivenTrue, Ids, SteerCommit, Delivered
<1>3. BornTrue'
  BY DEF Step, StopInv, Typed, BornTrue, MarkTrue, AimTrue, Fenced, SlotInv, Types,
         AdmittingTrue, RunnersTrue, HeldTrue, DrivenTrue, Ids, SteerCommit, Delivered
<1>4. MarkTrue'
  BY DEF Step, StopInv, Typed, BornTrue, MarkTrue, AimTrue, Fenced, SlotInv, Types,
         AdmittingTrue, RunnersTrue, HeldTrue, DrivenTrue, UnsentTrue, ClosingTrue,
         HandoverTrue, Predecessor, Ids, SteerCommit, Delivered
<1>5. AimTrue'
  BY DEF Step, StopInv, Typed, MarkTrue, AimTrue, SlotInv, Types, AdmittingTrue, RunnersTrue,
         HeldTrue, DrivenTrue, Ids, SteerCommit, Delivered
<1>6. GoneTrue'
  BY DEF Step, StopInv, Typed, GoneTrue, Tasks, MarkTrue, BornTrue, SlotInv, Types,
         AdmittingTrue, RunnersTrue, HeldTrue, DrivenTrue, UnsentTrue, ClosingTrue,
         HandoverTrue, Predecessor, Ids, SteerCommit, Delivered
<1>7. SessionTrue'
  BY DEF Step, StopInv, Typed, SessionTrue, OneTurnPerSession, Stray, SlotInv, Types,
         SteerCommit, Delivered
<1>8. Lawful
  BY DEF Step, StopInv, Lawful, GoneTrue, Tasks, SlotInv, Types, SteerCommit, Delivered
<1> QED BY <1>1, <1>2, <1>3, <1>4, <1>5, <1>6, <1>7, <1>8 DEF Exact, StopInv

LEMMA SteerClosePreviousExact ==
  ASSUME Step, NEW r \in Runs, SteerClosePrevious(r)
  PROVE  Exact
<1>1. Flags'
  BY DEF Step, StopInv, Flags, SteerClosePrevious, CloseLeftOpen, LeftOpen
<1>2. Typed'
  BY SlotAssumption DEF Step, StopInv, Typed, SteerClosePrevious, CloseLeftOpen, LeftOpen
<1>3. BornTrue'
  BY DEF Step, StopInv, Typed, BornTrue, Fenced, SlotInv, Types, SteerClosePrevious,
         CloseLeftOpen, LeftOpen
<1>4. MarkTrue'
  BY DEF Step, StopInv, Typed, MarkTrue, SlotInv, Types, SteerClosePrevious, CloseLeftOpen,
         LeftOpen
<1>5. AimTrue'
  BY DEF Step, StopInv, Typed, AimTrue, SlotInv, Types, SteerClosePrevious, CloseLeftOpen,
         LeftOpen
<1>6. GoneTrue'
  BY DEF Step, StopInv, Typed, GoneTrue, Tasks, SlotInv, Types, SteerClosePrevious,
         CloseLeftOpen, LeftOpen
<1>7. SessionTrue'
  BY DEF Step, StopInv, Typed, SessionTrue, OneTurnPerSession, Stray, SlotInv, Types,
         SteerClosePrevious, CloseLeftOpen, LeftOpen
<1>8. Lawful
  BY DEF Step, StopInv, Lawful, GoneTrue, Tasks, SlotInv, Types, SteerClosePrevious,
         CloseLeftOpen, LeftOpen
<1> QED BY <1>1, <1>2, <1>3, <1>4, <1>5, <1>6, <1>7, <1>8 DEF Exact, StopInv

LEMMA SteerOpenNextExact ==
  ASSUME Step, NEW r \in Runs, SteerOpenNext(r)
  PROVE  Exact
<1>1. Flags'
  BY DEF Step, StopInv, Flags, SteerOpenNext, CloseLeftOpen, LeftOpen, Hosted
<1>2. Typed'
  BY SlotAssumption DEF Step, StopInv, Typed, SteerOpenNext, CloseLeftOpen, LeftOpen, Hosted
<1>3. BornTrue'
  BY DEF Step, StopInv, Typed, BornTrue, Fenced, SlotInv, Types, AdmittingTrue, RunnersTrue,
         HeldTrue, DrivenTrue, Ids, SteerOpenNext, CloseLeftOpen, LeftOpen, Hosted
<1>4. MarkTrue'
  BY DEF Step, StopInv, Typed, MarkTrue, BornTrue, SlotInv, Types, AdmittingTrue, RunnersTrue,
         HeldTrue, DrivenTrue, Ids, SteerOpenNext, CloseLeftOpen, LeftOpen, Hosted
<1>5. AimTrue'
  BY DEF Step, StopInv, Typed, MarkTrue, AimTrue, SlotInv, Types, AdmittingTrue, RunnersTrue,
         HeldTrue, DrivenTrue, Ids, SteerOpenNext, CloseLeftOpen, LeftOpen, Hosted
<1>6. GoneTrue'
  BY DEF Step, StopInv, Typed, GoneTrue, Tasks, MarkTrue, BornTrue, SlotInv, Types,
         AdmittingTrue, RunnersTrue, HeldTrue, DrivenTrue, UnsentTrue, ClosingTrue,
         HandoverTrue, Predecessor, Ids, SteerOpenNext, CloseLeftOpen, LeftOpen, Hosted
<1>7. SessionTrue'
  BY DEF Step, StopInv, Typed, SessionTrue, OneTurnPerSession, Stray, SlotInv, Types,
         SteerOpenNext, CloseLeftOpen, LeftOpen, Hosted
<1>8. Lawful
  BY DEF Step, StopInv, Lawful, GoneTrue, Tasks, SlotInv, Types, SteerOpenNext, CloseLeftOpen,
         LeftOpen, Hosted
<1> QED BY <1>1, <1>2, <1>3, <1>4, <1>5, <1>6, <1>7, <1>8 DEF Exact, StopInv

LEMMA SteerEventsFailExact ==
  ASSUME Step, NEW r \in Runs, SteerEventsFail(r)
  PROVE  Exact
<1>1. Flags'
  BY DEF Step, StopInv, Flags, SteerEventsFail, LeftOpen, Breaks, GivenUp, Hosted
<1>2. Typed'
  BY SlotAssumption DEF Step, StopInv, Typed, SteerEventsFail, LeftOpen, Breaks, GivenUp, Hosted
<1>3. BornTrue'
  BY DEF Step, StopInv, Typed, BornTrue, Fenced, SlotInv, Types, AdmittingTrue, RunnersTrue,
         HeldTrue, DrivenTrue, Ids, SteerEventsFail, LeftOpen, Breaks, GivenUp, Hosted
<1>4. MarkTrue'
  BY DEF Step, StopInv, Typed, MarkTrue, BornTrue, SlotInv, Types, AdmittingTrue, RunnersTrue,
         HeldTrue, DrivenTrue, Ids, SteerEventsFail, LeftOpen, Breaks, GivenUp, Hosted
<1>5. AimTrue'
  BY DEF Step, StopInv, Typed, AimTrue, SlotInv, Types, SteerEventsFail, LeftOpen, Breaks,
         GivenUp, Hosted
<1>6. GoneTrue'
  BY DEF Step, StopInv, Typed, GoneTrue, Tasks, SlotInv, Types, SteerEventsFail, LeftOpen,
         Breaks, GivenUp, Hosted
<1>7. SessionTrue'
  BY DEF Step, StopInv, Typed, SessionTrue, OneTurnPerSession, Stray, SlotInv, Types,
         SteerEventsFail, LeftOpen, Breaks, GivenUp, Hosted
<1>8. Lawful
  BY DEF Step, StopInv, Lawful, GoneTrue, Tasks, SlotInv, Types, SteerEventsFail, LeftOpen,
         Breaks, GivenUp, Hosted
<1> QED BY <1>1, <1>2, <1>3, <1>4, <1>5, <1>6, <1>7, <1>8 DEF Exact, StopInv

-----------------------------------------------------------------------------
(* How a runner's task ends. *)

LEMMA UnwindExact ==
  ASSUME Step, NEW r \in Runs, Unwind(r)
  PROVE  Exact
<1>1. Flags'
  BY DEF Step, StopInv, Flags, Unwind, LeftOpen, Hosted, ClearActive, Unclaimed
<1>2. Typed'
  BY SlotAssumption DEF Step, StopInv, Typed, SlotInv, Types, AdmittingTrue, RunnersTrue,
         HeldTrue, DrivenTrue, Ids, Unwind, LeftOpen, Hosted, ClearActive, Unclaimed
<1>3. BornTrue'
  BY DEF Step, StopInv, Typed, BornTrue, Fenced, SlotInv, Types, AdmittingTrue, RunnersTrue,
         HeldTrue, DrivenTrue, Ids, Unwind, LeftOpen, Hosted, ClearActive, Unclaimed
<1>4. MarkTrue'
  BY DEF Step, StopInv, Typed, BornTrue, MarkTrue, AimTrue, Fenced, SlotInv, Types,
         AdmittingTrue, RunnersTrue, HeldTrue, DrivenTrue, UnsentTrue, ClosingTrue,
         HandoverTrue, Predecessor, Ids, Unwind, LeftOpen, Hosted, ClearActive, Unclaimed
<1>5. AimTrue'
  BY DEF Step, StopInv, Typed, AimTrue, SlotInv, Types, Unwind, LeftOpen, Hosted, ClearActive,
         Unclaimed
<1>6. GoneTrue'
  BY DEF Step, StopInv, Typed, GoneTrue, Tasks, SlotInv, Types, Unwind, LeftOpen, Hosted,
         ClearActive, Unclaimed
<1>7. SessionTrue'
  BY DEF Step, StopInv, Typed, SessionTrue, OneTurnPerSession, Stray, SlotInv, Types, Unwind,
         LeftOpen, Hosted, ClearActive, Unclaimed
<1>8. Lawful
  BY DEF Step, StopInv, Lawful, GoneTrue, Tasks, SlotInv, Types, Unwind, LeftOpen, Hosted,
         ClearActive, Unclaimed
<1> QED BY <1>1, <1>2, <1>3, <1>4, <1>5, <1>6, <1>7, <1>8 DEF Exact, StopInv

LEMMA FinalizeReleaseExact ==
  ASSUME Step, NEW r \in Runs, FinalizeRelease(r)
  PROVE  Exact
<1>1. Flags'
  BY DEF Step, StopInv, Flags, FinalizeRelease, Release, MayRelease, Owns, ClearSlot
<1>2. Typed'
  BY SlotAssumption DEF Step, StopInv, Typed, SlotInv, Types, AdmittingTrue, RunnersTrue,
         HeldTrue, DrivenTrue, Ids, FinalizeRelease, Release, MayRelease, Owns, ClearSlot
<1>3. BornTrue'
  BY DEF Step, StopInv, Typed, BornTrue, Fenced, SlotInv, Types, FinalizeRelease, Release,
         MayRelease, Owns, ClearSlot
<1>4. MarkTrue'
  BY DEF Step, StopInv, Typed, MarkTrue, BornTrue, SlotInv, Types, AdmittingTrue, RunnersTrue,
         HeldTrue, DrivenTrue, Ids, FinalizeRelease, Release, MayRelease, Owns, ClearSlot
<1>5. AimTrue'
  BY DEF Step, StopInv, Typed, AimTrue, SlotInv, Types, FinalizeRelease, Release, MayRelease,
         Owns, ClearSlot
<1>6. GoneTrue'
  BY DEF Step, StopInv, Typed, GoneTrue, Tasks, SlotInv, Types, FinalizeRelease, Release,
         MayRelease, Owns, ClearSlot
<1>7. SessionTrue'
  <2>1. cur' = cur \/ (cur' = NoTurn /\ Owns(names[r]))
    BY DEF FinalizeRelease, Release, MayRelease, ClearSlot
  <2>2. names[r] \in Runs /\ host[names[r]] = r
    BY DEF Step, SlotInv, RunnersTrue, FinalizeRelease
  <2>3. cur' = cur \/ (cur'.adm = NoRun /\ cur.adm = r)
    BY <2>1, <2>2, HoldFacts DEF Step
  <2>4. Ends
    BY <2>3 DEF Step, SlotInv, Types, Ends, FinalizeRelease
  <2> QED BY <2>4, EndsSession
<1>8. Lawful
  BY DEF Step, StopInv, Lawful, GoneTrue, Tasks, MarkTrue, AimTrue, SlotInv, Types,
         AdmittingTrue, RunnersTrue, HeldTrue, DrivenTrue, Ids, FinalizeRelease, Release,
         MayRelease, Owns, ClearSlot
<1> QED BY <1>1, <1>2, <1>3, <1>4, <1>5, <1>6, <1>7, <1>8 DEF Exact, StopInv

LEMMA FinalizeEventExact ==
  ASSUME Step, NEW r \in Runs, FinalizeEvent(r)
  PROVE  Exact
<1>1. Flags'
  BY DEF Step, StopInv, Flags, FinalizeEvent
<1>2. Typed'
  BY SlotAssumption DEF Step, StopInv, Typed, FinalizeEvent
<1>3. BornTrue'
  BY DEF Step, StopInv, Typed, BornTrue, Fenced, SlotInv, Types, FinalizeEvent
<1>4. MarkTrue'
  BY DEF Step, StopInv, Typed, MarkTrue, BornTrue, SlotInv, Types, AdmittingTrue, RunnersTrue,
         HeldTrue, DrivenTrue, Ids, FinalizeEvent
<1>5. AimTrue'
  BY DEF Step, StopInv, Typed, MarkTrue, AimTrue, SlotInv, Types, AdmittingTrue, RunnersTrue,
         HeldTrue, DrivenTrue, Ids, FinalizeEvent
<1>6. GoneTrue'
  BY DEF Step, StopInv, Typed, GoneTrue, Tasks, SlotInv, Types, AdmittingTrue, RunnersTrue,
         HeldTrue, DrivenTrue, Ids, FinalizeEvent
<1>7. SessionTrue'
  BY DEF Step, StopInv, Typed, SessionTrue, OneTurnPerSession, Stray, SlotInv, Types,
         FinalizeEvent
<1>8. Lawful
  BY DEF Step, StopInv, Lawful, GoneTrue, Tasks, SlotInv, Types, FinalizeEvent
<1> QED BY <1>1, <1>2, <1>3, <1>4, <1>5, <1>6, <1>7, <1>8 DEF Exact, StopInv

LEMMA ReconcileExitExact ==
  ASSUME Step, NEW r \in Runs, ReconcileExit(r)
  PROVE  Exact
<1>1. Flags'
  BY DEF Step, StopInv, Flags, ReconcileExit, Release, MayRelease, Owns, ClearSlot
<1>2. Typed'
  BY SlotAssumption DEF Step, StopInv, Typed, SlotInv, Types, AdmittingTrue, RunnersTrue,
         HeldTrue, DrivenTrue, Ids, ReconcileExit, Release, MayRelease, Owns, ClearSlot
<1>3. BornTrue'
  BY DEF Step, StopInv, Typed, BornTrue, Fenced, SlotInv, Types, ReconcileExit, Release,
         MayRelease, Owns, ClearSlot
<1>4. MarkTrue'
  BY DEF Step, StopInv, Typed, MarkTrue, BornTrue, SlotInv, Types, AdmittingTrue, RunnersTrue,
         HeldTrue, DrivenTrue, Ids, ReconcileExit, Release, MayRelease, Owns, ClearSlot
<1>5. AimTrue'
  <2>1. cur' = cur \/ cur' = NoTurn
    BY DEF Step, ReconcileExit, Release, ClearSlot
  <2>2. cur' = NoTurn => cur'.adm = NoRun
    OBVIOUS
  <2>3. host[r] = r
    BY DEF Step, SlotInv, RunnersTrue, Types, ReconcileExit
  <2>4. cur' = cur /\ cur # NoTurn => cur.run # names[r] /\ cur.run # r /\ act' = act
    <3>1. SUFFICES ASSUME cur' = cur, cur # NoTurn PROVE cur.run # names[r] /\ cur.run # r /\ act' = act
      OBVIOUS
    <3>2. ~MayRelease(names[r])
      BY <3>1 DEF ReconcileExit, Release, ClearSlot
    <3>3. act' = act
      BY <3>2 DEF ReconcileExit, Release
    <3>4. names[r] \in Runs
      BY DEF Step, SlotInv, RunnersTrue, ReconcileExit
    <3>5. cur.run # names[r]
      BY <3>2, <3>4, HoldFacts DEF Step, MayRelease
    <3>6. cur.run # r
      BY <2>3, <3>1, <3>5, HoldFacts DEF Step
    <3> QED BY <3>3, <3>5, <3>6
  <2>5. /\ stop' = stop /\ host' = host /\ how' = how /\ alive' = alive /\ thread' = thread /\ given' = given
        /\ stopped' = stopped \ {names[r], r} /\ act' \in {act, NoAct}
        /\ pc'[r] = "done" /\ \A q \in Runs : q # r => pc'[q] = pc[q]
    BY DEF Step, SlotInv, Types, ReconcileExit, Release, ClearSlot
  <2>6. cur.adm \in Runs => cur # NoTurn
    OBVIOUS
  <2>7. CASE cur' = cur /\ cur # NoTurn
    BY <2>4, <2>5, <2>7 DEF Step, StopInv, AimTrue
  <2>8. CASE cur' = NoTurn
    BY <2>5, <2>8 DEF Step, StopInv, AimTrue
  <2> QED BY <2>1, <2>7, <2>8
<1>6. GoneTrue'
  BY DEF Step, StopInv, Typed, GoneTrue, Tasks, SlotInv, Types, AdmittingTrue, RunnersTrue,
         HeldTrue, DrivenTrue, Ids, ReconcileExit, Release, MayRelease, Owns, ClearSlot
<1>7. SessionTrue'
  <2>1. cur' = cur \/ (cur' = NoTurn /\ Owns(names[r]))
    BY DEF ReconcileExit, Release, MayRelease, ClearSlot
  <2>2. names[r] \in Runs /\ host[names[r]] = r
    BY DEF Step, SlotInv, RunnersTrue, ReconcileExit
  <2>3. cur' = cur \/ (cur'.adm = NoRun /\ cur.adm = r)
    BY <2>1, <2>2, HoldFacts DEF Step
  <2>4. Ends
    BY <2>3 DEF Step, SlotInv, Types, Ends, ReconcileExit
  <2> QED BY <2>4, EndsSession
<1>8. Lawful
  BY DEF Step, StopInv, Lawful, GoneTrue, Tasks, MarkTrue, AimTrue, SlotInv, Types,
         AdmittingTrue, RunnersTrue, HeldTrue, DrivenTrue, Ids, ReconcileExit, Release,
         MayRelease, Owns, ClearSlot
<1> QED BY <1>1, <1>2, <1>3, <1>4, <1>5, <1>6, <1>7, <1>8 DEF Exact, StopInv

-----------------------------------------------------------------------------
(* The explicit Stop. *)

LEMMA StopBeginExact ==
  ASSUME Step, StopBegin
  PROVE  Exact
<1>1. Flags'
  BY DEF Step, StopInv, Flags, StopBegin, StopMark
<1>2. Typed'
  BY SlotAssumption DEF Step, StopInv, Typed, SlotInv, Types, AdmittingTrue, RunnersTrue,
         HeldTrue, DrivenTrue, UnsentTrue, ClosingTrue, HandoverTrue, Predecessor, Ids,
         StopBegin, StopMark
<1>3. BornTrue'
  BY DEF Step, StopInv, Typed, BornTrue, Fenced, SlotInv, Types, AdmittingTrue, RunnersTrue,
         HeldTrue, DrivenTrue, Ids, StopBegin, StopMark
<1>4. MarkTrue'
  BY DEF Step, StopInv, Typed, BornTrue, MarkTrue, AimTrue, Fenced, SlotInv, Types,
         AdmittingTrue, RunnersTrue, HeldTrue, DrivenTrue, UnsentTrue, ClosingTrue,
         HandoverTrue, Predecessor, Ids, StopBegin, StopMark
<1>5. AimTrue'
  BY DEF Step, StopInv, Typed, BornTrue, MarkTrue, AimTrue, Fenced, SlotInv, Types,
         AdmittingTrue, RunnersTrue, HeldTrue, DrivenTrue, UnsentTrue, ClosingTrue,
         HandoverTrue, Predecessor, Ids, StopBegin, StopMark
<1>6. GoneTrue'
  BY DEF Step, StopInv, Typed, GoneTrue, Tasks, SlotInv, Types, StopBegin, StopMark
<1>7. SessionTrue'
  BY DEF Step, StopInv, Typed, SessionTrue, OneTurnPerSession, Stray, SlotInv, Types, StopBegin,
         StopMark
<1>8. Lawful
  BY DEF Step, StopInv, Lawful, GoneTrue, Tasks, SlotInv, Types, StopBegin, StopMark
<1> QED BY <1>1, <1>2, <1>3, <1>4, <1>5, <1>6, <1>7, <1>8 DEF Exact, StopInv

LEMMA StopAwaitBoundExact ==
  ASSUME Step, StopAwaitBound
  PROVE  Exact
<1>1. Flags'
  BY DEF Step, StopInv, Flags, StopAwaitBound, StopMark
<1>2. Typed'
  BY SlotAssumption DEF Step, StopInv, Typed, SlotInv, Types, AdmittingTrue, RunnersTrue,
         HeldTrue, DrivenTrue, Ids, StopAwaitBound, StopMark
<1>3. BornTrue'
  BY DEF Step, StopInv, Typed, BornTrue, Fenced, SlotInv, Types, AdmittingTrue, RunnersTrue,
         HeldTrue, DrivenTrue, Ids, StopAwaitBound, StopMark
<1>4. MarkTrue'
  BY DEF Step, StopInv, Typed, BornTrue, MarkTrue, AimTrue, Fenced, SlotInv, Types,
         AdmittingTrue, RunnersTrue, HeldTrue, DrivenTrue, UnsentTrue, ClosingTrue,
         HandoverTrue, Predecessor, Ids, StopAwaitBound, StopMark
<1>5. AimTrue'
  BY DEF Step, StopInv, Typed, BornTrue, MarkTrue, AimTrue, Fenced, SlotInv, Types,
         AdmittingTrue, RunnersTrue, HeldTrue, DrivenTrue, UnsentTrue, ClosingTrue,
         HandoverTrue, Predecessor, Ids, StopAwaitBound, StopMark
<1>6. GoneTrue'
  BY DEF Step, StopInv, Typed, GoneTrue, Tasks, SlotInv, Types, StopAwaitBound, StopMark
<1>7. SessionTrue'
  BY DEF Step, StopInv, Typed, SessionTrue, OneTurnPerSession, Stray, SlotInv, Types,
         StopAwaitBound, StopMark
<1>8. Lawful
  BY DEF Step, StopInv, Lawful, GoneTrue, Tasks, SlotInv, Types, StopAwaitBound, StopMark
<1> QED BY <1>1, <1>2, <1>3, <1>4, <1>5, <1>6, <1>7, <1>8 DEF Exact, StopInv

LEMMA StopAwaitGoneExact ==
  ASSUME Step, StopAwaitGone
  PROVE  Exact
<1>1. Flags'
  BY DEF Step, StopInv, Flags, StopAwaitGone, StopGoes
<1>2. Typed'
  BY SlotAssumption DEF Step, StopInv, Typed, StopAwaitGone, StopGoes
<1>3. BornTrue'
  BY DEF Step, StopInv, Typed, BornTrue, Fenced, SlotInv, Types, StopAwaitGone, StopGoes
<1>4. MarkTrue'
  BY DEF Step, StopInv, Typed, MarkTrue, SlotInv, Types, StopAwaitGone, StopGoes
<1>5. AimTrue'
  BY DEF Step, StopInv, Typed, AimTrue, SlotInv, Types, StopAwaitGone, StopGoes
<1>6. GoneTrue'
  BY DEF Step, StopInv, Typed, GoneTrue, Tasks, SlotInv, Types, StopAwaitGone, StopGoes
<1>7. SessionTrue'
  BY DEF Step, StopInv, Typed, SessionTrue, OneTurnPerSession, Stray, SlotInv, Types,
         StopAwaitGone, StopGoes
<1>8. Lawful
  BY DEF Step, StopInv, Lawful, GoneTrue, Tasks, SlotInv, Types, StopAwaitGone, StopGoes
<1> QED BY <1>1, <1>2, <1>3, <1>4, <1>5, <1>6, <1>7, <1>8 DEF Exact, StopInv

LEMMA StopAwaitTimeoutExact ==
  ASSUME Step, StopAwaitTimeout
  PROVE  Exact
<1>1. Flags'
  BY DEF Step, StopInv, Flags, StopAwaitTimeout, StopHardens, Tasks
<1>2. Typed'
  <2>1. cur.run \in Runs
    BY DEF Step, StopInv, AimTrue, SlotInv, AdmittingTrue, HeldTrue, RunnersTrue, StopAwaitTimeout
  <2> QED BY <2>1 DEF Step, StopInv, Typed, StopAwaitTimeout
<1>3. BornTrue'
  BY DEF Step, StopInv, Typed, BornTrue, MarkTrue, AimTrue, Fenced, SlotInv, Types,
         AdmittingTrue, RunnersTrue, HeldTrue, DrivenTrue, UnsentTrue, ClosingTrue,
         HandoverTrue, Predecessor, Ids, StopAwaitTimeout, StopHardens, Tasks
<1>4. MarkTrue'
  BY DEF Step, StopInv, Typed, BornTrue, MarkTrue, AimTrue, Fenced, SlotInv, Types,
         AdmittingTrue, RunnersTrue, HeldTrue, DrivenTrue, UnsentTrue, ClosingTrue,
         HandoverTrue, Predecessor, Ids, StopAwaitTimeout, StopHardens, Tasks
<1>5. AimTrue'
  <2>1. /\ cur.adm \in Runs /\ cur.run \in Runs /\ host[cur.run] = cur.adm
        /\ pc[cur.adm] \notin Admitting /\ cur # NoTurn
    BY DEF Step, StopInv, AimTrue, SlotInv, AdmittingTrue, HeldTrue, RunnersTrue, StopAwaitTimeout
  <2>2. stop' = [pc |-> "hard", rec |-> stop.rec, run |-> cur.run, adm |-> stop.adm]
    BY DEF StopAwaitTimeout, StopHardens
  <2>3. stop.rec # NoRun => stop.rec = cur.adm
    BY DEF Step, StopInv, AimTrue, StopAwaitTimeout
  <2>4. pc[cur.adm] \in Driving => pc[cur.adm] = "spawned"
    BY <2>1 DEF Step, StopInv, MarkTrue, StopAwaitTimeout
  <2>5. pc[cur.adm] \in Driving => <<cur.adm, thread>> \notin given
    BY <2>1, <2>4 DEF Step, SlotInv, UnsentTrue
  <2>6. \A q \in Runs : act.rec # q
    BY DEF StopAwaitTimeout
  <2> QED BY <2>1, <2>2, <2>3, <2>5, <2>6 DEF StopAwaitTimeout, AimTrue
<1>6. GoneTrue'
  BY DEF Step, StopInv, Typed, GoneTrue, Tasks, SlotInv, Types, StopAwaitTimeout, StopHardens
<1>7. SessionTrue'
  BY DEF Step, StopInv, Typed, SessionTrue, OneTurnPerSession, Stray, SlotInv, Types,
         StopAwaitTimeout, StopHardens, Tasks
<1>8. Lawful
  BY DEF Step, StopInv, Lawful, GoneTrue, Tasks, SlotInv, Types, StopAwaitTimeout, StopHardens
<1> QED BY <1>1, <1>2, <1>3, <1>4, <1>5, <1>6, <1>7, <1>8 DEF Exact, StopInv

LEMMA StopInterruptExact ==
  ASSUME Step, StopInterrupt
  PROVE  Exact
<1>1. Flags'
  BY DEF Step, StopInv, Flags, StopInterrupt, StopGoes, Hosted
<1>2. Typed'
  BY SlotAssumption DEF Step, StopInv, Typed, StopInterrupt, StopGoes, Hosted
<1>3. BornTrue'
  BY DEF Step, StopInv, Typed, BornTrue, Fenced, SlotInv, Types, StopInterrupt, StopGoes, Hosted
<1>4. MarkTrue'
  BY DEF Step, StopInv, Typed, MarkTrue, SlotInv, Types, StopInterrupt, StopGoes, Hosted
<1>5. AimTrue'
  BY DEF Step, StopInv, Typed, MarkTrue, AimTrue, SlotInv, Types, AdmittingTrue, RunnersTrue,
         HeldTrue, DrivenTrue, Ids, StopInterrupt, StopGoes, Hosted
<1>6. GoneTrue'
  BY DEF Step, StopInv, Typed, GoneTrue, Tasks, SlotInv, Types, StopInterrupt, StopGoes, Hosted
<1>7. SessionTrue'
  BY DEF Step, StopInv, Typed, SessionTrue, OneTurnPerSession, Stray, SlotInv, Types,
         StopInterrupt, StopGoes, Hosted
<1>8. Lawful
  BY DEF Step, StopInv, Lawful, GoneTrue, Tasks, SlotInv, Types, StopInterrupt, StopGoes, Hosted
<1> QED BY <1>1, <1>2, <1>3, <1>4, <1>5, <1>6, <1>7, <1>8 DEF Exact, StopInv

LEMMA StopConfirmedExact ==
  ASSUME Step, StopConfirmed
  PROVE  Exact
<1>1. Flags'
  BY DEF Step, StopInv, Flags, StopConfirmed, StopGoes
<1>2. Typed'
  BY SlotAssumption DEF Step, StopInv, Typed, StopConfirmed, StopGoes
<1>3. BornTrue'
  BY DEF Step, StopInv, Typed, BornTrue, Fenced, SlotInv, Types, StopConfirmed, StopGoes
<1>4. MarkTrue'
  BY DEF Step, StopInv, Typed, MarkTrue, SlotInv, Types, StopConfirmed, StopGoes
<1>5. AimTrue'
  BY DEF Step, StopInv, Typed, AimTrue, SlotInv, Types, StopConfirmed, StopGoes
<1>6. GoneTrue'
  BY DEF Step, StopInv, Typed, GoneTrue, Tasks, SlotInv, Types, StopConfirmed, StopGoes
<1>7. SessionTrue'
  BY DEF Step, StopInv, Typed, SessionTrue, OneTurnPerSession, Stray, SlotInv, Types,
         StopConfirmed, StopGoes
<1>8. Lawful
  BY DEF Step, StopInv, Lawful, GoneTrue, Tasks, SlotInv, Types, StopConfirmed, StopGoes
<1> QED BY <1>1, <1>2, <1>3, <1>4, <1>5, <1>6, <1>7, <1>8 DEF Exact, StopInv

LEMMA StopTimeoutExact ==
  ASSUME Step, StopTimeout
  PROVE  Exact
<1>1. Flags'
  BY DEF Step, StopInv, Flags, StopTimeout, StopGoes, StopHardens, HardTransports, Tasks
<1>2. Typed'
  <2>1. act # NoAct => act.run \in Runs
    BY DEF Step, SlotInv, HeldTrue
  <2>2. act # NoAct
    BY DEF Step, StopInv, AimTrue, StopTimeout
  <2> QED BY <2>1, <2>2 DEF Step, StopInv, Typed, StopTimeout
<1>3. BornTrue'
  BY DEF Step, StopInv, Typed, BornTrue, MarkTrue, AimTrue, Fenced, SlotInv, Types,
         AdmittingTrue, RunnersTrue, HeldTrue, DrivenTrue, Ids, StopTimeout, StopGoes,
         StopHardens, HardTransports, Tasks
<1>4. MarkTrue'
  BY DEF Step, StopInv, Typed, BornTrue, MarkTrue, AimTrue, Fenced, SlotInv, Types,
         AdmittingTrue, RunnersTrue, HeldTrue, DrivenTrue, UnsentTrue, ClosingTrue,
         HandoverTrue, Predecessor, Ids, StopTimeout, StopGoes, StopHardens, HardTransports,
         Tasks
<1>5. AimTrue'
  BY DEF Step, StopInv, Typed, MarkTrue, AimTrue, SlotInv, Types, AdmittingTrue, RunnersTrue,
         HeldTrue, DrivenTrue, Ids, StopTimeout, StopGoes, StopHardens, HardTransports, Tasks
<1>6. GoneTrue'
  BY DEF Step, StopInv, Typed, GoneTrue, Tasks, SlotInv, Types, StopTimeout, StopGoes,
         StopHardens, HardTransports
<1>7. SessionTrue'
  BY DEF Step, StopInv, Typed, SessionTrue, OneTurnPerSession, Stray, SlotInv, Types,
         StopTimeout, StopGoes, StopHardens, HardTransports, Tasks
<1>8. Lawful
  BY DEF Step, StopInv, Lawful, GoneTrue, Tasks, SlotInv, Types, StopTimeout, StopGoes,
         StopHardens, HardTransports
<1> QED BY <1>1, <1>2, <1>3, <1>4, <1>5, <1>6, <1>7, <1>8 DEF Exact, StopInv

LEMMA StopReleaseExact ==
  ASSUME Step, StopRelease
  PROVE  Exact
<1>1. Flags'
  BY DEF Step, StopInv, Flags, StopRelease, StopStillOwns, StopGoes, StopCloses, StopAbandons,
         Hosted, MayRelease, Owns, ClearSlot
<1>2. Typed'
  BY SlotAssumption DEF Step, StopInv, Typed, SlotInv, Types, AdmittingTrue, RunnersTrue,
         HeldTrue, DrivenTrue, Ids, StopRelease, StopStillOwns, StopGoes, StopCloses,
         StopAbandons, Hosted, MayRelease, Owns, ClearSlot
<1>3. BornTrue'
  BY DEF Step, StopInv, Typed, BornTrue, Fenced, SlotInv, Types, StopRelease, StopStillOwns,
         StopGoes, StopCloses, StopAbandons, Hosted, MayRelease, Owns, ClearSlot
<1>4. MarkTrue'
  BY DEF Step, StopInv, Typed, MarkTrue, BornTrue, SlotInv, Types, AdmittingTrue, RunnersTrue,
         HeldTrue, DrivenTrue, Ids, StopRelease, StopStillOwns, StopGoes, StopCloses,
         StopAbandons, Hosted, MayRelease, Owns, ClearSlot
<1>5. AimTrue'
  BY DEF Step, StopInv, Typed, AimTrue, SlotInv, Types, StopRelease, StopStillOwns, StopGoes,
         StopCloses, StopAbandons, Hosted, MayRelease, Owns, ClearSlot
<1>6. GoneTrue'
  BY DEF Step, StopInv, Typed, GoneTrue, Tasks, SlotInv, Types, StopRelease, StopStillOwns,
         StopGoes, StopCloses, StopAbandons, Hosted, MayRelease, Owns, ClearSlot
<1>7. SessionTrue'
  <2>1. /\ cur' = NoTurn /\ given' = given /\ pc' = pc /\ host' = host /\ alive' \subseteq alive
        /\ thread' \in {thread, thread + 1} /\ thread \in Nat
    BY DEF Step, SlotInv, Types, StopRelease, ClearSlot, StopAbandons
  <2>2. ASSUME NEW p \in given, Stray(p)' PROVE p[2] < thread'
    <3>1. p[1] \in Runs /\ p[2] \in Nat /\ p = <<p[1], p[2]>> /\ p[2] <= thread /\ host[p[1]] \in Runs
      BY DEF Step, SlotInv, Types, StopInv, SessionTrue
    <3>2. CASE Stray(p)
      BY <2>1, <3>1, <3>2 DEF Step, StopInv, SessionTrue
    <3>3. CASE ~Stray(p)
      <4>1. host[p[1]] = cur.adm /\ cur.adm \in Runs /\ p[1] \in alive' /\ pc[cur.adm] \in Driving
        BY <2>1, <2>2, <3>1, <3>3 DEF Stray
      <4>2. stop.run \in Runs /\ host[stop.run] = cur.adm
        <5>1. stop.run \in Runs /\ (stop.rec # NoRun => host[stop.run] = stop.rec)
          BY DEF Step, StopInv, AimTrue, StopRelease
        <5>2. CASE stop.rec # NoRun
          BY <5>1, <5>2, HoldFacts DEF Step, StopRelease, StopStillOwns
        <5>3. CASE stop.rec = NoRun
          BY <5>1, <5>3, HoldFacts DEF Step, StopRelease, StopStillOwns, MayRelease
        <5> QED BY <5>1, <5>2, <5>3
      <4>3. CASE how[cur.adm] \in {"app", "opencode"}
        BY <3>1, <4>2, <4>3, <2>1 DEF StopRelease, StopAbandons
      <4>4. how[cur.adm] # "sdk"
        BY <3>1, <4>1, <4>2 DEF StopRelease, Hosted
      <4>5. CASE how[cur.adm] \notin {"app", "opencode"}
        <5>1. p[1] = cur.adm /\ ~Native(cur.adm)
          BY <3>1, <4>1, <4>4, <4>5 DEF Step, SlotInv, RunnersTrue
        <5>2. <<cur.adm, thread>> \notin given
          BY <2>1, <4>1, <4>2, <5>1 DEF Step, StopInv, AimTrue, StopRelease
        <5>3. p[2] # thread
          BY <3>1, <5>1, <5>2
        <5> QED BY <2>1, <3>1, <5>3
      <4> QED BY <4>3, <4>5
    <3> QED BY <3>2, <3>3
  <2>3. \A q \in given : host[q[1]] # cur'.adm
    BY <2>1 DEF Step, StopInv, SessionTrue
  <2>4. OneTurnPerSession'
    BY <2>1 DEF Step, StopInv, SessionTrue, OneTurnPerSession
  <2> QED BY <2>1, <2>2, <2>3, <2>4 DEF Step, StopInv, SessionTrue
<1>8. Lawful
  BY DEF Step, StopInv, Lawful, GoneTrue, Tasks, MarkTrue, AimTrue, SlotInv, Types,
         AdmittingTrue, RunnersTrue, HeldTrue, DrivenTrue, Ids, StopRelease, StopStillOwns,
         StopGoes, StopCloses, StopAbandons, Hosted, MayRelease, Owns, ClearSlot
<1> QED BY <1>1, <1>2, <1>3, <1>4, <1>5, <1>6, <1>7, <1>8 DEF Exact, StopInv

LEMMA StopReleaseLostExact ==
  ASSUME Step, StopReleaseLost
  PROVE  Exact
<1>1. Flags'
  BY DEF Step, StopInv, Flags, StopReleaseLost, StopStillOwns, StopGoes, MayRelease, Owns
<1>2. Typed'
  BY SlotAssumption DEF Step, StopInv, Typed, StopReleaseLost, StopStillOwns, StopGoes,
         MayRelease, Owns
<1>3. BornTrue'
  BY DEF Step, StopInv, Typed, BornTrue, Fenced, SlotInv, Types, StopReleaseLost, StopStillOwns,
         StopGoes, MayRelease, Owns
<1>4. MarkTrue'
  BY DEF Step, StopInv, Typed, BornTrue, MarkTrue, AimTrue, Fenced, SlotInv, Types,
         AdmittingTrue, RunnersTrue, HeldTrue, DrivenTrue, UnsentTrue, ClosingTrue,
         HandoverTrue, Predecessor, Ids, StopReleaseLost, StopStillOwns, StopGoes, MayRelease,
         Owns
<1>5. AimTrue'
  BY DEF Step, StopInv, Typed, AimTrue, SlotInv, Types, StopReleaseLost, StopStillOwns,
         StopGoes, MayRelease, Owns
<1>6. GoneTrue'
  BY DEF Step, StopInv, Typed, GoneTrue, Tasks, SlotInv, Types, StopReleaseLost, StopStillOwns,
         StopGoes, MayRelease, Owns
<1>7. SessionTrue'
  BY DEF Step, StopInv, Typed, SessionTrue, OneTurnPerSession, Stray, SlotInv, Types,
         StopReleaseLost, StopStillOwns, StopGoes, MayRelease, Owns
<1>8. Lawful
  BY DEF Step, StopInv, Lawful, GoneTrue, Tasks, SlotInv, Types, StopReleaseLost, StopStillOwns,
         StopGoes, MayRelease, Owns
<1> QED BY <1>1, <1>2, <1>3, <1>4, <1>5, <1>6, <1>7, <1>8 DEF Exact, StopInv

LEMMA StopEventExact ==
  ASSUME Step, StopEvent
  PROVE  Exact
<1>1. Flags'
  BY DEF Step, StopInv, Flags, StopEvent, StopGoes
<1>2. Typed'
  BY SlotAssumption DEF Step, StopInv, Typed, StopEvent, StopGoes
<1>3. BornTrue'
  BY DEF Step, StopInv, Typed, BornTrue, Fenced, SlotInv, Types, StopEvent, StopGoes
<1>4. MarkTrue'
  BY DEF Step, StopInv, Typed, BornTrue, MarkTrue, AimTrue, Fenced, SlotInv, Types,
         AdmittingTrue, RunnersTrue, HeldTrue, DrivenTrue, UnsentTrue, ClosingTrue,
         HandoverTrue, Predecessor, Ids, StopEvent, StopGoes
<1>5. AimTrue'
  BY DEF Step, StopInv, Typed, AimTrue, SlotInv, Types, StopEvent, StopGoes
<1>6. GoneTrue'
  BY DEF Step, StopInv, Typed, GoneTrue, Tasks, SlotInv, Types, StopEvent, StopGoes
<1>7. SessionTrue'
  BY DEF Step, StopInv, Typed, SessionTrue, OneTurnPerSession, Stray, SlotInv, Types, StopEvent,
         StopGoes
<1>8. Lawful
  BY DEF Step, StopInv, Lawful, GoneTrue, Tasks, SlotInv, Types, StopEvent, StopGoes
<1> QED BY <1>1, <1>2, <1>3, <1>4, <1>5, <1>6, <1>7, <1>8 DEF Exact, StopInv

LEMMA StopDoneExact ==
  ASSUME Step, StopDone
  PROVE  Exact
<1>1. Flags'
  BY DEF Step, StopInv, Flags, StopDone
<1>2. Typed'
  BY SlotAssumption DEF Step, StopInv, Typed, StopDone
<1>3. BornTrue'
  BY DEF Step, StopInv, Typed, BornTrue, Fenced, SlotInv, Types, StopDone
<1>4. MarkTrue'
  BY DEF Step, StopInv, Typed, MarkTrue, SlotInv, Types, StopDone
<1>5. AimTrue'
  BY DEF Step, StopInv, Typed, AimTrue, SlotInv, Types, StopDone
<1>6. GoneTrue'
  BY DEF Step, StopInv, Typed, GoneTrue, Tasks, SlotInv, Types, StopDone
<1>7. SessionTrue'
  BY DEF Step, StopInv, Typed, SessionTrue, OneTurnPerSession, Stray, SlotInv, Types, StopDone
<1>8. Lawful
  BY DEF Step, StopInv, Lawful, GoneTrue, Tasks, SlotInv, Types, StopDone
<1> QED BY <1>1, <1>2, <1>3, <1>4, <1>5, <1>6, <1>7, <1>8 DEF Exact, StopInv

-----------------------------------------------------------------------------
(* Deletion of the chat, and a restart. *)

LEMMA DeleteAskExact ==
  ASSUME Step, DeleteAsk
  PROVE  Exact
<1>1. Flags'
  BY DEF Step, StopInv, Flags, DeleteAsk
<1>2. Typed'
  BY SlotAssumption DEF Step, StopInv, Typed, SlotInv, Types, AdmittingTrue, RunnersTrue,
         HeldTrue, DrivenTrue, UnsentTrue, ClosingTrue, HandoverTrue, Predecessor, Ids,
         DeleteAsk
<1>3. BornTrue'
  BY DEF Step, StopInv, Typed, BornTrue, Fenced, SlotInv, Types, AdmittingTrue, RunnersTrue,
         HeldTrue, DrivenTrue, Ids, DeleteAsk
<1>4. MarkTrue'
  BY DEF Step, StopInv, Typed, BornTrue, MarkTrue, AimTrue, Fenced, SlotInv, Types,
         AdmittingTrue, RunnersTrue, HeldTrue, DrivenTrue, UnsentTrue, ClosingTrue,
         HandoverTrue, Predecessor, Ids, DeleteAsk
<1>5. AimTrue'
  BY DEF Step, StopInv, Typed, AimTrue, SlotInv, Types, DeleteAsk
<1>6. GoneTrue'
  <2>1. CASE act # NoAct
    BY <2>1 DEF Step, StopInv, GoneTrue, SlotInv, HeldTrue, DeleteAsk
  <2>2. CASE act = NoAct
    <3>1. cur # NoTurn => stopReq'
      BY <2>2 DEF DeleteAsk
    <3> QED BY <3>1 DEF Step, StopInv, GoneTrue, DeleteAsk
  <2> QED BY <2>1, <2>2
<1>7. SessionTrue'
  BY DEF Step, StopInv, Typed, SessionTrue, OneTurnPerSession, Stray, SlotInv, Types, DeleteAsk
<1>8. Lawful
  BY DEF Step, StopInv, Lawful, GoneTrue, Tasks, SlotInv, Types, DeleteAsk
<1> QED BY <1>1, <1>2, <1>3, <1>4, <1>5, <1>6, <1>7, <1>8 DEF Exact, StopInv

LEMMA DeleteInterruptExact ==
  ASSUME Step, DeleteInterrupt
  PROVE  Exact
<1>1. Flags'
  BY DEF Step, StopInv, Flags, DeleteInterrupt, Hosted
<1>2. Typed'
  BY SlotAssumption DEF Step, StopInv, Typed, DeleteInterrupt, Hosted
<1>3. BornTrue'
  BY DEF Step, StopInv, Typed, BornTrue, Fenced, SlotInv, Types, DeleteInterrupt, Hosted
<1>4. MarkTrue'
  BY DEF Step, StopInv, Typed, MarkTrue, SlotInv, Types, DeleteInterrupt, Hosted
<1>5. AimTrue'
  BY DEF Step, StopInv, Typed, AimTrue, SlotInv, Types, DeleteInterrupt, Hosted
<1>6. GoneTrue'
  BY DEF Step, StopInv, Typed, GoneTrue, Tasks, SlotInv, Types, DeleteInterrupt, Hosted
<1>7. SessionTrue'
  BY DEF Step, StopInv, Typed, SessionTrue, OneTurnPerSession, Stray, SlotInv, Types,
         DeleteInterrupt, Hosted
<1>8. Lawful
  BY DEF Step, StopInv, Lawful, GoneTrue, Tasks, SlotInv, Types, DeleteInterrupt, Hosted
<1> QED BY <1>1, <1>2, <1>3, <1>4, <1>5, <1>6, <1>7, <1>8 DEF Exact, StopInv

LEMMA DeleteCancelExact ==
  ASSUME Step, DeleteCancel
  PROVE  Exact
<1>1. Flags'
  BY DEF Step, StopInv, Flags, DeleteCancel, Hosted, Tasks
<1>2. Typed'
  BY SlotAssumption DEF Step, StopInv, Typed, DeleteCancel, Hosted, Tasks
<1>3. BornTrue'
  BY DEF Step, StopInv, Typed, BornTrue, Fenced, SlotInv, Types, DeleteCancel, Hosted, Tasks
<1>4. MarkTrue'
  <2>1. act.stop
    BY DEF Step, StopInv, GoneTrue, BornTrue, MarkTrue, SlotInv, HeldTrue, DeleteCancel
  <2>2. \A q \in Tasks : pc[q] \notin NotYet \cup {"steered"}
    BY DEF Step, SlotInv, AdmittingTrue, DeleteCancel, Tasks
  <2> QED BY <2>1, <2>2 DEF Step, StopInv, MarkTrue, DeleteCancel
<1>5. AimTrue'
  BY DEF Step, StopInv, Typed, AimTrue, SlotInv, Types, DeleteCancel, Hosted, Tasks
<1>6. GoneTrue'
  BY DEF Step, StopInv, Typed, GoneTrue, Tasks, SlotInv, Types, DeleteCancel, Hosted
<1>7. SessionTrue'
  BY DEF Step, StopInv, Typed, SessionTrue, OneTurnPerSession, Stray, SlotInv, Types,
         DeleteCancel, Hosted, Tasks
<1>8. Lawful
  BY DEF Step, StopInv, Lawful, GoneTrue, Tasks, SlotInv, Types, DeleteCancel, Hosted
<1> QED BY <1>1, <1>2, <1>3, <1>4, <1>5, <1>6, <1>7, <1>8 DEF Exact, StopInv

LEMMA DeleteRefusedExact ==
  ASSUME Step, DeleteRefused
  PROVE  Exact
<1>1. Flags'
  BY DEF Step, StopInv, Flags, DeleteRefused, Tasks
<1>2. Typed'
  BY SlotAssumption DEF Step, StopInv, Typed, DeleteRefused, Tasks
<1>3. BornTrue'
  BY DEF Step, StopInv, Typed, BornTrue, Fenced, SlotInv, Types, DeleteRefused, Tasks
<1>4. MarkTrue'
  BY DEF Step, StopInv, Typed, MarkTrue, SlotInv, Types, DeleteRefused, Tasks
<1>5. AimTrue'
  BY DEF Step, StopInv, Typed, AimTrue, SlotInv, Types, DeleteRefused, Tasks
<1>6. GoneTrue'
  BY DEF Step, StopInv, Typed, GoneTrue, Tasks, SlotInv, Types, DeleteRefused
<1>7. SessionTrue'
  BY DEF Step, StopInv, Typed, SessionTrue, OneTurnPerSession, Stray, SlotInv, Types,
         DeleteRefused, Tasks
<1>8. Lawful
  BY DEF Step, StopInv, Lawful, GoneTrue, Tasks, SlotInv, Types, DeleteRefused
<1> QED BY <1>1, <1>2, <1>3, <1>4, <1>5, <1>6, <1>7, <1>8 DEF Exact, StopInv

LEMMA DeleteDoneExact ==
  ASSUME Step, DeleteDone
  PROVE  Exact
<1>1. Flags'
  BY DEF Step, StopInv, Flags, DeleteDone, DeleteSettled, ClearSlot
<1>2. Typed'
  BY SlotAssumption DEF Step, StopInv, Typed, DeleteDone, DeleteSettled, ClearSlot
<1>3. BornTrue'
  BY DEF Step, StopInv, Typed, BornTrue, Fenced, SlotInv, Types, DeleteDone, DeleteSettled,
         ClearSlot
<1>4. MarkTrue'
  BY DEF Step, StopInv, Typed, MarkTrue, BornTrue, SlotInv, Types, AdmittingTrue, RunnersTrue,
         HeldTrue, DrivenTrue, Ids, DeleteDone, DeleteSettled, ClearSlot
<1>5. AimTrue'
  BY DEF Step, StopInv, Typed, AimTrue, SlotInv, Types, DeleteDone, DeleteSettled, ClearSlot
<1>6. GoneTrue'
  BY DEF Step, StopInv, Typed, GoneTrue, Tasks, SlotInv, Types, DeleteDone, DeleteSettled,
         ClearSlot
<1>7. SessionTrue'
  <2>1. \A q \in Runs : pc[q] \notin Driving
    BY DEF DeleteDone, DeleteSettled, Tasks
  <2> QED BY <2>1 DEF Step, StopInv, SessionTrue, OneTurnPerSession, Stray, DeleteDone, ClearSlot
<1>8. Lawful
  BY DEF Step, StopInv, Lawful, GoneTrue, Tasks, SlotInv, Types, DeleteDone, DeleteSettled,
         ClearSlot
<1> QED BY <1>1, <1>2, <1>3, <1>4, <1>5, <1>6, <1>7, <1>8 DEF Exact, StopInv

LEMMA RestartExact ==
  ASSUME Step, Restart
  PROVE  Exact
<1>1. Flags'
  BY DEF Step, StopInv, Flags, Restart
<1>2. Typed'
  BY SlotAssumption DEF Step, StopInv, Typed, SlotInv, Types, AdmittingTrue, RunnersTrue,
         HeldTrue, DrivenTrue, UnsentTrue, ClosingTrue, HandoverTrue, Predecessor, Ids, Restart
<1>3. BornTrue'
  BY DEF Step, StopInv, Typed, BornTrue, Fenced, SlotInv, Types, Restart
<1>4. MarkTrue'
  BY DEF Step, StopInv, Typed, MarkTrue, SlotInv, Types, Restart
<1>5. AimTrue'
  BY DEF Step, StopInv, Typed, AimTrue, SlotInv, Types, Restart
<1>6. GoneTrue'
  BY DEF Step, StopInv, Typed, GoneTrue, Tasks, SlotInv, Types, Restart
<1>7. SessionTrue'
  BY DEF Step, StopInv, Typed, SessionTrue, OneTurnPerSession, Stray, SlotInv, Types, Restart
<1>8. Lawful
  BY DEF Step, StopInv, Lawful, GoneTrue, Tasks, MarkTrue, AimTrue, SlotInv, Types,
         AdmittingTrue, RunnersTrue, HeldTrue, DrivenTrue, Ids, Restart
<1> QED BY <1>1, <1>2, <1>3, <1>4, <1>5, <1>6, <1>7, <1>8 DEF Exact, StopInv

-----------------------------------------------------------------------------
LEMMA StopInitial == Init => StopInv
<1> SUFFICES ASSUME Init PROVE StopInv
  OBVIOUS
<1>1. Flags
  BY DEF Init, Flags
<1>2. used \in [stops : 0..MaxStops, deletes : 0..MaxDeletes, crashes : 0..MaxCrashes]
  BY SlotAssumption DEF Init
<1>3. Typed
  BY <1>2 DEF Init, Typed
<1>4. BornTrue /\ MarkTrue /\ AimTrue
  BY DEF Init, BornTrue, MarkTrue, AimTrue, Fenced
<1>5. GoneTrue /\ SessionTrue
  BY DEF Init, GoneTrue, SessionTrue, OneTurnPerSession
<1> QED BY <1>1, <1>3, <1>4, <1>5 DEF StopInv

LEMMA RunningExact ==
  ASSUME Step, NEW r \in Runs, Running(r)
  PROVE  Exact
<1>1. CASE Starting(r) \/ NativeStarts(r) \/ AppFallsBack(r)
  BY <1>1, SpawnExact, SpawnFailsExact, BindProcessExact, FeedProcessExact, BindNativeExact,
     StartNativeExact, StartNativeFailsExact, AppFallsBackExact DEF Starting, NativeStarts
<1>2. CASE ProcessEnds(r) \/ ExecRollover(r) \/ OpencodeQuarantine(r) \/ NativeEnds(r) \/ Finishing(r)
  BY <1>2, ProcessEndsExact, ExecRolloverExact, OpencodeQuarantineExact, NativeEndsExact,
     FinalizeReleaseExact, FinalizeEventExact DEF Finishing
<1>3. CASE Handover(r) \/ \E c \in Runs : SteerOpen(r, c)
  BY <1>3, SteerOpenExact, SteerAbortExact, SteerDeliverExact, SteerUncertainExact, SteerCommitExact,
     SteerClosePreviousExact, SteerOpenNextExact, SteerEventsFailExact DEF Handover
<1> QED
  BY <1>1, <1>2, <1>3
  DEF Running, ClaudePrintStarts, ClaudePrintEnds, ClaudePrintFinishes, CodexExecStarts,
      CodexExecEnds, CodexExecFinishes, CursorStarts, CursorEnds, CursorFinishes, OpencodeStarts,
      OpencodeEnds, OpencodeFinishes, ClaudeSdkStarts, ClaudeSdkSteers, ClaudeSdkEnds,
      ClaudeSdkFinishes, CodexAppStarts, CodexAppSteers, CodexAppEnds, CodexAppFinishes

LEMMA StopStep ==
  ASSUME SlotInv, StopInv, [Next]_vars
  PROVE  SlotInv' /\ Exact
<1>1. Step
  BY SlotStep DEF Good, Step
<1> SUFFICES Exact
  BY <1>1 DEF Step
<1>2. CASE \E r \in Runs, t \in Transports : StartTurn(r, t) \/ Promote(r, t)
  BY <1>1, <1>2, StartTurnExact, PromoteExact
<1>3. CASE EnqueueTurn \/ PromoteNothing \/ RunHeld
  BY <1>1, <1>3, EnqueueTurnExact, PromoteNothingExact, RunHeldExact
<1>4. CASE \E r \in Runs : Admission(r) \/ Running(r) \/ Ending(r)
  BY <1>1, <1>4, PublishRunExact, PersistTurnAcceptanceExact, LaunchTaskExact, SettlePrecommitFailureExact,
     RunningExact, UnwindExact, ReconcileExitExact DEF Admission, Ending
<1>5. CASE StopBegin \/ Stopping \/ StopDone
  BY <1>1, <1>5, StopBeginExact, StopDoneExact, StopAwaitBoundExact, StopAwaitGoneExact, StopAwaitTimeoutExact,
     StopInterruptExact, StopConfirmedExact, StopTimeoutExact, StopReleaseExact, StopReleaseLostExact,
     StopEventExact DEF Stopping
<1>6. CASE DeleteAsk \/ Deletion
  BY <1>1, <1>6, DeleteAskExact, DeleteInterruptExact, DeleteCancelExact, DeleteRefusedExact, DeleteDoneExact
  DEF Deletion
<1>7. CASE Restart
  BY <1>1, <1>7, RestartExact
<1>8. CASE UNCHANGED vars
  <2>1. Flags' /\ Typed' /\ BornTrue' /\ MarkTrue'
    BY <1>8 DEF StopInv, vars, Flags, Typed, BornTrue, MarkTrue, Fenced
  <2>2. AimTrue' /\ GoneTrue' /\ SessionTrue'
    BY <1>8 DEF StopInv, vars, AimTrue, GoneTrue, Tasks, SessionTrue, OneTurnPerSession, Stray
  <2>3. Lawful
    BY <1>8 DEF vars, Lawful
  <2> QED BY <2>1, <2>2, <2>3 DEF Exact, StopInv
<1> QED BY <1>1, <1>2, <1>3, <1>4, <1>5, <1>6, <1>7, <1>8 DEF Next

LEMMA InvType ==
  ASSUME SlotInv, StopInv
  PROVE  TypeOK
<1>1. {stopped, cancelled, alive, started, torn} \subseteq SUBSET Runs
  BY DEF SlotInv, Types, StopInv, Typed
<1>2. {names, host, prev} \subseteq [Runs -> Runs \cup {NoRun}]
  BY DEF SlotInv, Types, Ids
<1>3. act # NoAct => Busy /\ act.rec # NoRun /\ act.run = cur.run
  BY HoldFacts DEF SlotInv, HeldTrue
<1> QED BY <1>1, <1>2, <1>3 DEF TypeOK, SlotInv, Types, Ids, StopInv, Flags, Typed

(* One turn holds the chat and is closed once, two runners never drive one    *)
(* provider session, and the slot leaves a turn only by its own task, by a    *)
(* Stop or a deletion aimed at it, or by a crash (release_turn_slot,          *)
(* hard_terminalize_active_stop, finalize_owned_turn_finished).               *)
THEOREM SlotIsSound == Spec => SlotSound
<1>1. Init => SlotInv /\ StopInv
  BY SlotInitial, StopInitial
<1>2. SlotInv /\ StopInv /\ [Next]_vars => (SlotInv /\ StopInv)' /\ Lawful
  BY StopStep DEF Exact
<1>3. SlotInv /\ StopInv => TypeOK /\ ClosedOnce /\ OneTurnPerSession
  BY InvType DEF SlotInv, ClosingTrue, StopInv, SessionTrue
<1>4. Lawful => (Busy /\ cur' = NoTurn /\ used' = used =>
                   \/ cur.run \in stopped
                   \/ \E r \in Runs : pc'[r] # pc[r] /\ (names[r] = cur.run \/ r = cur.adm)
                   \/ del' = "gone")
  BY DEF Lawful
<1> QED BY <1>1, <1>2, <1>3, <1>4, PTL DEF Spec, SlotSound, SlotNotStolen

(* A Stop or a deletion reaches only turns that were there when it was asked, *)
(* a request made before the turn was bound goes with that turn, a stopped    *)
(* run is never given its prompt, and a deleted chat stays silent             *)
(* (stop_turn, bind_active_turn, delete_session).                             *)
THEOREM StopsAreExact == Spec => StopExact
<1>1. Init => SlotInv /\ StopInv
  BY SlotInitial, StopInitial
<1>2. SlotInv /\ StopInv /\ [Next]_vars => (SlotInv /\ StopInv)' /\ Lawful
  BY StopStep DEF Exact
<1>3. SlotInv /\ StopInv => StopRequestHasTurn /\ StopHitsItsTurn
  BY DEF StopInv, BornTrue, StopRequestHasTurn, StopHitsItsTurn
<1>4. Lawful => \A p \in given' \ given : p[1] \notin stopped /\ ~(act.rec = host[p[1]] /\ act.stop)
  BY DEF Lawful
<1>5. Lawful => (del = "gone" => UNCHANGED <<started, ended, given>>)
  BY DEF Lawful
<1> QED BY <1>1, <1>2, <1>3, <1>4, <1>5, PTL DEF Spec, StopExact, StoppedNeverSent, GoneIsQuiet


=============================================================================
