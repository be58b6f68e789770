--------------------------- MODULE CodexTransport ---------------------------
(***************************************************************************)
(* The shared Codex app-server process as its client sees it                *)
(* (codex_app_server.py) and the runs that own one thread of it             *)
(* (run_codex_app_server, agent_server.py): requests over stdin, answers    *)
(* and notifications in receive order over stdout, a handle that must       *)
(* follow the native turn that really runs, answers that never come, and a  *)
(* process that is retired with everything that depended on it.             *)
(*                                                                          *)
(* Handles keep the thread's stream (retain_thread_stream), as every chat   *)
(* turn does. Native turns are numbered in the order the app-server starts  *)
(* them; the app-server itself is external.                                 *)
(***************************************************************************)
EXTENDS Integers, Sequences, FiniteSets

CONSTANTS
  MaxOwners,   \* bound: runs that use the thread, one after the other
  MaxNative,   \* bound: native turns
  MaxGens,     \* bound: app-server processes
  MaxTroubles, \* bound: timeouts, cancellations, exits, repeated messages
  MaxPipe      \* bound: unread messages

VARIABLES
  gen,        \* _generation
  proc,       \* "down", "up", "dead" (exited, not yet noticed), "going" (_discard_process)
  running,    \* the native turn that runs, or 0
  made,       \* native turns so far
  by,         \* ghost: the owner whose request or turn a native turn continues
  asked,      \* ghost: the native turns a request began
  inbox,      \* requests written and not yet handled
  pipe,       \* answers and notifications not yet read
  table,      \* _turns_by_thread[thread]: the owner, or 0
  own,        \* the owners: their handle, subscription and runner
  sent,       \* ghost: how often a provider took an owner's input
  troubles

vars == <<gen, proc, running, made, by, asked, inbox, pipe, table, own, sent, troubles>>

Owners == 1 .. MaxOwners
Natives == 1 .. MaxNative
NoOwner == [pc |-> "none", turn |-> 0, completed |-> FALSE, closed |-> FALSE, done |-> {}, tgen |-> 0,
            queue |-> <<>>, stream |-> "none", over |-> {}, parent |-> 0, end |-> "none"]

Phases == {"none", "write", "wait", "unsure", "cancelled", "run", "idle", "cwrite", "cwait", "cunsure",
           "stopping", "breaking", "stalling", "safe", "closing", "gone"}
(* left: cancelled or out of its slot, with nothing settled; stalled: broken   *)
(* off, its interrupt not confirmed; settled: by the finalizer of a cancelled  *)
(* run; again: the prompt went to a fresh thread as well.                      *)
Ends == {"none", "completed", "failed", "unknown", "replayed", "settled", "left", "stalled", "again"}

TypeOK ==
  /\ asked \subseteq Natives
  /\ gen \in 0 .. MaxGens /\ proc \in {"down", "up", "dead", "going"}
  /\ running \in {0} \cup Natives /\ made \in 0 .. MaxNative /\ by \in [Natives -> 0 .. MaxOwners]
  /\ Len(pipe) <= MaxPipe + 3
  /\ table \in 0 .. MaxOwners /\ troubles \in 0 .. MaxTroubles
  /\ \A h \in Owners :
       /\ own[h].pc \in Phases /\ own[h].turn \in {0} \cup Natives /\ own[h].tgen \in 0 .. MaxGens
       /\ own[h].done \subseteq Natives /\ own[h].over \subseteq Natives
       /\ own[h].stream \in {"none", "open", "closed", "error"}
       /\ own[h].end \in Ends
  /\ table # 0 => own[table].stream # "closed" /\ ~own[table].closed

-----------------------------------------------------------------------------
(* External: the app-server.                                                   *)
Starts == {"start", "continue"}   \* a turn/start with the run's input, and an empty one
Note(m, t) == [m |-> m, t |-> t, h |-> 0, re |-> "none"]
Reply(m, t, q) == [m |-> m, t |-> t, h |-> q.h, re |-> q.m]
Room == Len(pipe) < MaxPipe

(* turn/start begins a native turn; its notification may pass the answer.      *)
Accept ==
  /\ proc = "up" /\ inbox # <<>> /\ Head(inbox).m \in Starts /\ running = 0 /\ made < MaxNative /\ Room
  /\ LET q == Head(inbox)
         t == made + 1
     IN  /\ running' = t /\ made' = t /\ by' = [by EXCEPT ![t] = q.h] /\ asked' = asked \cup {t}
         /\ \/ pipe' = pipe \o <<Reply("ok", t, q), Note("started", t)>>
            \/ pipe' = pipe \o <<Note("started", t), Reply("ok", t, q)>>
         /\ sent' = [sent EXCEPT ![q.h] = IF q.m = "start" THEN @ + 1 ELSE @]
  /\ inbox' = Tail(inbox)
  /\ UNCHANGED <<gen, proc, table, own, troubles>>

(* It refuses a turn/start, for one while another turn runs.                   *)
Refuse ==
  /\ proc = "up" /\ inbox # <<>> /\ Head(inbox).m \in Starts /\ Room
  /\ pipe' = Append(pipe, Reply("refused", 0, Head(inbox))) /\ inbox' = Tail(inbox)
  /\ UNCHANGED <<gen, proc, running, made, by, asked, table, own, sent, troubles>>

(* turn/interrupt ends the turn it names, then answers.                        *)
Interrupted ==
  /\ proc = "up" /\ inbox # <<>> /\ Head(inbox).m = "interrupt" /\ Room
  /\ LET q == Head(inbox) IN
     IF running # 0 /\ running = q.t
     THEN running' = 0 /\ pipe' = pipe \o <<Note("completed", q.t), Reply("ack", q.t, q)>>
     ELSE running' = running /\ pipe' = Append(pipe, Reply("refused", q.t, q))
  /\ inbox' = Tail(inbox)
  /\ UNCHANGED <<gen, proc, made, by, asked, table, own, sent, troubles>>

Finish ==
  /\ proc = "up" /\ running # 0 /\ Room
  /\ running' = 0 /\ pipe' = Append(pipe, Note("completed", running))
  /\ UNCHANGED <<gen, proc, made, by, asked, inbox, table, own, sent, troubles>>

(* A goal or a subagent's result starts a follow-up turn by itself.            *)
Spontaneous ==
  /\ proc = "up" /\ running = 0 /\ made \in 1 .. MaxNative - 1 /\ inbox = <<>> /\ Room
  /\ \E h \in Owners : by[made] = h /\ table = h
  /\ running' = made + 1 /\ made' = made + 1 /\ by' = [by EXCEPT ![made + 1] = by[made]]
  /\ pipe' = Append(pipe, Note("started", made + 1))
  /\ UNCHANGED <<gen, asked, proc, inbox, table, own, sent, troubles>>

(* The process dies, with what it had not yet flushed.                         *)
Exit ==
  /\ proc = "up" /\ troubles < MaxTroubles /\ troubles' = troubles + 1
  /\ proc' = "dead" /\ running' = 0 /\ inbox' = <<>>
  /\ \E k \in 0 .. Len(pipe) : pipe' = SubSeq(pipe, 1, k)
  /\ UNCHANGED <<gen, made, by, asked, table, own, sent>>

-----------------------------------------------------------------------------
(* start: one process at a time, a new generation.                             *)
Spawn ==
  /\ proc = "down" /\ gen < MaxGens /\ gen' = gen + 1 /\ proc' = "up"
  /\ UNCHANGED <<running, made, by, asked, inbox, pipe, table, own, sent, troubles>>

(* _finish: a closed stream ends; an error replaces what was queued.           *)
Closed(o) == [o EXCEPT !.stream = IF @ = "open" THEN "closed" ELSE @]
Failed(o) == IF o.stream = "open" THEN [o EXCEPT !.stream = "error", !.queue = <<>>] ELSE o

(* _fail_all: every pending request and every subscription of the client gets  *)
(* the error. A request that was sent, or might have been, is not repeated.    *)
FailAll(O) ==
  [h \in Owners |->
     LET o == Failed(O[h]) IN
     CASE o.pc \in {"write", "wait"} -> [o EXCEPT !.pc = "unsure"]
       [] o.pc \in {"cwrite", "cwait"} -> [o EXCEPT !.pc = "cunsure"]
       [] o.pc = "stopping" -> [o EXCEPT !.pc = "cancelled"]
       [] o.pc = "stalling" -> [o EXCEPT !.pc = "closing"]
       [] OTHER -> o]

(* The reader sees the end of stdout of the process it belongs to.             *)
ReadEnd ==
  /\ proc = "dead" /\ pipe = <<>>
  /\ proc' = "down" /\ table' = 0 /\ own' = FailAll(own)
  /\ UNCHANGED <<gen, running, made, by, asked, inbox, pipe, sent, troubles>>

(* _discard_process: the process group is killed first; the reader still       *)
(* routes what it has read until it is cancelled and everything fails.         *)
Kill == proc' = "going" /\ running' = 0 /\ inbox' = <<>>
DiscardEnds ==
  /\ proc = "going"
  /\ proc' = "down" /\ pipe' = <<>> /\ table' = 0 /\ own' = FailAll(own)
  /\ UNCHANGED <<gen, running, made, by, asked, inbox, sent, troubles>>

-----------------------------------------------------------------------------
(* start_turn: a provisional handle and its stream before anything is written. *)
Begin(h) ==
  /\ own[h].pc = "none" /\ (h > 1 => own[h - 1].pc = "gone" /\ own[h - 1].end # "again")
  /\ proc = "up" /\ table = 0
  /\ table' = h /\ own' = [own EXCEPT ![h] = [NoOwner EXCEPT !.pc = "write", !.stream = "open", !.tgen = gen]]
  /\ UNCHANGED <<gen, proc, running, made, by, asked, inbox, pipe, sent, troubles>>

(* _send: the process is checked again at the write boundary.                  *)
Release(h) == IF table = h THEN 0 ELSE table
Write(h) ==
  /\ own[h].pc = "write"
  /\ IF proc = "up" /\ gen = own[h].tgen
     THEN /\ inbox' = Append(inbox, [m |-> "start", h |-> h, t |-> 0])
          /\ own' = [own EXCEPT ![h].pc = "wait"] /\ UNCHANGED table
     ELSE /\ proc # "up" /\ table' = Release(h)
          /\ own' = [own EXCEPT ![h] = [Closed(@) EXCEPT !.pc = "safe"]] /\ UNCHANGED inbox
  /\ UNCHANGED <<gen, proc, running, made, by, asked, pipe, sent, troubles>>

(* No answer in time, or the app-server's write pipe stalls with it: the       *)
(* request may have been accepted. A stalled write retires the process. An     *)
(* interrupt without an answer is not sent again.                              *)
Unanswered(o) ==
  CASE o.pc = "wait" -> [o EXCEPT !.pc = "unsure"]
    [] o.pc = "cwait" -> [o EXCEPT !.pc = "cunsure"]
    [] o.pc = "stopping" -> [o EXCEPT !.pc = "cancelled"]
    [] o.pc = "stalling" -> [o EXCEPT !.pc = "closing", !.end = IF @ = "left" THEN @ ELSE "stalled"]
Timeout(h) ==
  /\ own[h].pc \in {"wait", "cwait", "stopping", "stalling"} /\ troubles < MaxTroubles /\ troubles' = troubles + 1
  /\ own' = [own EXCEPT ![h] = Unanswered(@)]
  /\ \/ UNCHANGED <<proc, running, inbox>>
     \/ proc = "up" /\ gen = own[h].tgen /\ Kill
  /\ UNCHANGED <<gen, made, by, asked, pipe, table, sent>>

(* The run is cancelled while its turn/start or its empty continuation may be  *)
(* on the way: the finalizer settles it.                                       *)
Cancel(h) ==
  /\ own[h].pc \in {"write", "wait", "cwait", "cunsure"} /\ troubles < MaxTroubles /\ troubles' = troubles + 1
  /\ own' = [own EXCEPT ![h].pc = "cancelled"]
  /\ UNCHANGED <<gen, proc, running, made, by, asked, inbox, pipe, table, sent>>

(* Once its turn was accepted, or while an unanswered start is still looked    *)
(* for, a cancelled run (the hard Stop) and one that lost its slot only close  *)
(* the handle.                                                                 *)
Leave(h) ==
  /\ own[h].pc \in {"run", "unsure", "idle", "cwrite", "stalling"}
  /\ troubles < MaxTroubles /\ troubles' = troubles + 1
  /\ own' = [own EXCEPT ![h].pc = "closing", ![h].end = "left"]
  /\ UNCHANGED <<gen, proc, running, made, by, asked, inbox, pipe, table, sent>>

(* A run whose input was provably not delivered goes on over codex exec, where *)
(* that may replace the app-server, and fails otherwise.                       *)
Fallback(h) ==
  /\ own[h].pc = "safe"
  /\ \/ /\ sent' = [sent EXCEPT ![h] = @ + 1]
        /\ own' = [own EXCEPT ![h].pc = "closing", ![h].end = "replayed"]
     \/ own' = [own EXCEPT ![h].pc = "closing", ![h].end = "failed"] /\ UNCHANGED sent
  /\ UNCHANGED <<gen, proc, running, made, by, asked, inbox, pipe, table, troubles>>

-----------------------------------------------------------------------------
(* _route_notification, for the handle that owns the thread: a repeated start  *)
(* is dropped, an unbound handle takes the first turn it hears of, and a start *)
(* moves it to the turn that now runs; its end marks the handle completed.     *)
Bound(o, n) ==
  IF o.turn = 0 \/ n.m = "started"
  THEN [o EXCEPT !.turn = n.t, !.completed = IF n.m = "started" THEN FALSE ELSE @] ELSE o
Ended(o, n) ==
  IF n.m = "completed" /\ n.t = o.turn THEN [o EXCEPT !.completed = TRUE, !.done = @ \cup {n.t}] ELSE o

Put(o, n) == IF o.stream = "open" THEN [o EXCEPT !.queue = Append(@, n)] ELSE o
Route(o, n) ==
  IF n.m = "started" /\ n.t \in o.done THEN o ELSE Put(Ended(Bound(o, n), n), n)

(* A backlog at its limit ends the stream with an error, not the thread's      *)
(* mapping and not the process.                                                *)
Overflow(o, n) ==
  IF n.m = "started" /\ n.t \in o.done THEN o ELSE Failed(Ended(Bound(o, n), n))

(* The answer to turn/start. The turn it names may already be over and another *)
(* one running: the handle stays with the newer one.                           *)
Answered(o, h, t) ==
  IF o.turn \in {0, t} THEN [o EXCEPT !.turn = t, !.pc = "run"]
  ELSE IF t \in o.done /\ table = h /\ o.tgen = gen /\ ~o.closed THEN [o EXCEPT !.pc = "run"]
  ELSE [o EXCEPT !.pc = "unsure"]

(* The answer to an empty continuation (continue_after_subagents).             *)
Continued(o, h, t) ==
  IF t = o.parent \/ o.closed \/ gen # o.tgen \/ table # h THEN [o EXCEPT !.pc = "cunsure"]
  ELSE IF o.turn = o.parent THEN [o EXCEPT !.turn = t, !.completed = FALSE, !.pc = "run"]
  ELSE IF o.turn = t \/ t \in o.done THEN [o EXCEPT !.pc = "run"]
  ELSE [o EXCEPT !.pc = "cunsure"]

Taken(h, q) ==
  LET o == own[h]
      to(re, pc) == q.re = re /\ o.pc = pc
  IN
  CASE q.m = "ok" /\ to("start", "wait") -> Answered(o, h, q.t)
    [] q.m = "ok" /\ to("continue", "cwait") -> Continued(o, h, q.t)
    [] q.m = "ack" /\ o.pc \in {"stopping", "stalling"} -> [o EXCEPT !.pc = "closing"]
    [] q.m = "refused" /\ to("start", "wait") -> [Closed(o) EXCEPT !.pc = "safe"]
    [] q.m = "refused" /\ to("continue", "cwait") -> [o EXCEPT !.pc = "breaking"]
    [] q.m = "refused" /\ (to("interrupt", "stopping") \/ to("interrupt", "stalling")) -> Unanswered(o)
    [] OTHER -> o

(* _reader_loop: one message, an answer to whoever still waits for it or a     *)
(* notification to the thread's owner.                                         *)
Read ==
  /\ proc # "down" /\ pipe # <<>> /\ pipe' = Tail(pipe)
  /\ LET q == Head(pipe) IN
     \/ /\ own' = IF q.h # 0 THEN [own EXCEPT ![q.h] = Taken(q.h, q)]
                  ELSE IF table # 0 THEN [own EXCEPT ![table] = Route(@, q)] ELSE own
        /\ UNCHANGED troubles
     \/ /\ q.h = 0 /\ table # 0 /\ own[table].queue # <<>>
        /\ troubles < MaxTroubles /\ troubles' = troubles + 1
        /\ own' = [own EXCEPT ![table] = Overflow(@, q)]
  /\ table' = IF Head(pipe).m = "refused" /\ own'[Head(pipe).h].pc = "safe" THEN Release(Head(pipe).h) ELSE table
  /\ UNCHANGED <<gen, proc, running, made, by, asked, inbox, sent>>

(* External: a notification is read a second time, late, by the same owner.    *)
Repeat ==
  /\ proc = "up" /\ table # 0 /\ troubles < MaxTroubles /\ troubles' = troubles + 1
  /\ \E t \in 1 .. made, m \in {"started", "completed"} :
       /\ t # running /\ by[t] = table /\ ~\E i \in 1 .. Len(pipe) : pipe[i].t = t
       /\ own' = [own EXCEPT ![table] = Route(@, Note(m, t))]
  /\ UNCHANGED <<gen, proc, running, made, by, asked, inbox, pipe, table, sent>>

-----------------------------------------------------------------------------
(* The runner's loop: it ends with the first end of a turn it has not seen     *)
(* end before, unless it waits for its children's follow-up turn.              *)
Consume(h) ==
  /\ own[h].pc \in {"run", "unsure", "idle"} /\ own[h].queue # <<>>
  /\ LET o == [own[h] EXCEPT !.queue = Tail(@)]
         n == Head(own[h].queue)
         new == n.m = "completed" /\ n.t \notin o.over
         seen == [o EXCEPT !.over = IF new THEN @ \cup {n.t} ELSE @,
                           !.pc = IF o.turn # 0 /\ @ \in {"unsure", "idle"} /\ (n.m = "started" \/ @ = "unsure") THEN "run" ELSE @]
     IN  IF new
         THEN \/ own' = [own EXCEPT ![h] = [seen EXCEPT !.pc = "closing", !.end = "completed"]]
              \/ own' = [own EXCEPT ![h] = [seen EXCEPT !.pc = IF o.completed THEN "idle" ELSE "run", !.parent = n.t]]
         ELSE own' = [own EXCEPT ![h] = seen]
  /\ UNCHANGED <<gen, proc, running, made, by, asked, inbox, pipe, table, sent, troubles>>

(* continue_after_subagents: an empty turn/start, guarded at the write         *)
(* boundary by the handle that still owns exactly the completed turn.          *)
Owns(h) ==
  LET o == own[h] IN
  /\ ~o.closed /\ o.completed /\ o.turn = o.parent /\ o.parent \in o.done
  /\ o.tgen = gen /\ table = h /\ proc = "up"

Continue(h) ==
  /\ own[h].pc = "idle" /\ Owns(h)
  /\ own' = [own EXCEPT ![h].pc = "cwrite"]
  /\ UNCHANGED <<gen, proc, running, made, by, asked, inbox, pipe, table, sent, troubles>>
ContinueWrite(h) ==
  /\ own[h].pc = "cwrite" /\ proc # "dead"
  /\ IF Owns(h)
     THEN inbox' = Append(inbox, [m |-> "continue", h |-> h, t |-> 0]) /\ own' = [own EXCEPT ![h].pc = "cwait"]
     ELSE UNCHANGED inbox /\ own' = [own EXCEPT ![h].pc = "idle"]
  /\ UNCHANGED <<gen, proc, running, made, by, asked, pipe, table, sent, troubles>>

(* The run breaks off: its stream ended with an error, its continuation was    *)
(* refused, its turn shows no activity in time, or something in its loop       *)
(* fails. The turn it knows is interrupted, where the handle is still the one  *)
(* a continuation belongs to.                                                  *)
Break(h) ==
  LET o == own[h]
      known == o.turn # 0 /\ proc = "up" /\ (o.parent # 0 => table = h /\ o.tgen = gen /\ ~o.completed)
  IN  IF known
      THEN /\ inbox' = Append(inbox, [m |-> "interrupt", h |-> h, t |-> o.turn])
           /\ own' = [own EXCEPT ![h].pc = "stalling", ![h].end = "failed"]
      ELSE /\ own' = [own EXCEPT ![h].pc = "closing",
                                 ![h].end = IF proc = "up" /\ o.tgen = gen THEN "stalled" ELSE "failed"]
           /\ UNCHANGED inbox
StreamFails(h) ==
  /\ \/ own[h].pc = "breaking"
     \/ /\ own[h].pc \in {"run", "idle", "unsure"} /\ own[h].stream # "open" /\ own[h].queue = <<>>
        /\ own[h].pc = "unsure" => own[h].turn # 0
  /\ Break(h)
  /\ UNCHANGED <<gen, proc, running, made, by, asked, pipe, table, sent, troubles>>
Stall(h) ==
  /\ own[h].pc \in {"run", "idle", "unsure"} /\ troubles < MaxTroubles /\ troubles' = troubles + 1
  /\ Break(h)
  /\ UNCHANGED <<gen, proc, running, made, by, asked, pipe, table, sent>>

(* reconcile_ambiguous_start: the thread's turns are read and the one of this  *)
(* run's message adopted; when it is already over, so is the run. The answer   *)
(* follows every notification that was sent before it.                         *)
Mine(h) == {t \in 1 .. made : by[t] = h /\ \A s \in 1 .. t - 1 : by[s] # h}
Adopt(h) ==
  /\ own[h].pc = "unsure" /\ own[h].turn = 0 /\ proc = "up" /\ pipe = <<>>
  /\ \E t \in Mine(h) :
       own' = [own EXCEPT ![h] = IF running = t THEN [@ EXCEPT !.turn = t, !.pc = "run"]
                                 ELSE [@ EXCEPT !.turn = t, !.over = @ \cup {t}, !.pc = "closing", !.end = "completed"]]
  /\ UNCHANGED <<gen, proc, running, made, by, asked, inbox, pipe, table, sent, troubles>>

(* Neither an answer nor a notification: the delivery stays unknown, and the   *)
(* process that received it is retired, never a successor of it.               *)
Retire(h) == IF proc = "up" /\ gen = own[h].tgen THEN Kill ELSE UNCHANGED <<proc, running, inbox>>
GiveUp(h) ==
  /\ own[h].pc = "unsure" /\ own[h].turn = 0 /\ proc # "going"
  /\ own[h].stream = "open" => Mine(h) = {} \/ proc # "up"
  /\ Retire(h)
  /\ own' = [own EXCEPT ![h].pc = "closing", ![h].end = "unknown"]
  /\ UNCHANGED <<gen, made, by, asked, pipe, table, sent, troubles>>

(* A continuation without an answer: a new turn on the handle proves it, else  *)
(* its process is retired.                                                     *)
GiveUpContinuation(h) ==
  /\ own[h].pc = "cunsure" /\ proc # "going"
  /\ LET o == own[h] IN
     IF table = h /\ o.tgen = gen /\ o.turn # o.parent
     THEN own' = [own EXCEPT ![h].pc = "run"] /\ UNCHANGED <<proc, running, inbox>>
     ELSE /\ own' = [own EXCEPT ![h].pc = "closing", ![h].end = "unknown"]
          /\ IF table = h THEN Retire(h) ELSE UNCHANGED <<proc, running, inbox>>
  /\ UNCHANGED <<gen, made, by, asked, pipe, table, sent, troubles>>

(* Fault: a turn that was never heard of is left alone.                        *)
SettleBlind(h) ==
  /\ own[h].pc = "cancelled" /\ proc # "going"
  /\ own' = [own EXCEPT ![h].pc = "closing", ![h].end = "settled"]
  /\ UNCHANGED <<gen, proc, running, made, by, asked, inbox, pipe, table, sent, troubles>>

(* The finalizer of a cancelled run: the turn it now knows is interrupted;     *)
(* without a turn, or without an answer to that, its process is retired.       *)
Settle(h) ==
  LET o == own[h]
      known == o.turn # 0 /\ o.turn # o.parent /\ (o.parent # 0 => table = h)
      over == known /\ o.parent # 0 /\ o.completed
  IN
  /\ o.pc = "cancelled" /\ proc # "going"
  /\ \/ /\ known /\ ~over /\ proc = "up" /\ o.end = "none"
        /\ inbox' = Append(inbox, [m |-> "interrupt", h |-> h, t |-> o.turn])
        /\ own' = [own EXCEPT ![h].pc = "stopping", ![h].end = "settled"] /\ UNCHANGED <<proc, running>>
     \/ /\ over
        /\ own' = [own EXCEPT ![h].pc = "closing", ![h].end = "settled"] /\ UNCHANGED <<proc, running, inbox>>
     \/ /\ ~over /\ (known /\ proc = "up" => o.end = "settled")
        /\ own' = [own EXCEPT ![h].pc = "closing", ![h].end = "settled"] /\ Retire(h)
  /\ UNCHANGED <<gen, made, by, asked, pipe, table, sent, troubles>>

(* Fault: the thread stays with the closed handle.                             *)
CloseKeeping(h) ==
  /\ own[h].pc = "closing" /\ proc # "going"
  /\ own' = [own EXCEPT ![h].pc = "gone"]
  /\ UNCHANGED <<gen, proc, running, made, by, asked, inbox, pipe, table, sent, troubles>>

(* turn.close: the handle lets go of the thread.                               *)
Close(h) ==
  /\ own[h].pc = "closing" /\ proc # "going"
  /\ table' = Release(h)
  /\ own' = [own EXCEPT ![h] = [Closed(@) EXCEPT !.pc = "gone", !.closed = TRUE, !.queue = <<>>]]
  /\ UNCHANGED <<gen, proc, running, made, by, asked, inbox, pipe, sent, troubles>>

(* rollover: a run of a resumed thread that showed nothing, and was neither    *)
(* stopped nor of unknown delivery nor continued, is sent once more on a fresh *)
(* thread; this one is not used again.                                         *)
Again(h) ==
  /\ own[h].pc = "gone" /\ own[h].end \in {"completed", "failed", "stalled"} /\ own[h].parent = 0
  /\ \A k \in Owners : k > h => own[k].pc = "none"
  /\ own' = [own EXCEPT ![h].end = "again"] /\ sent' = [sent EXCEPT ![h] = @ + 1]
  /\ UNCHANGED <<gen, proc, running, made, by, asked, inbox, pipe, table, troubles>>

-----------------------------------------------------------------------------
Init ==
  /\ gen = 0 /\ proc = "down" /\ running = 0 /\ made = 0 /\ by = [t \in Natives |-> 0] /\ asked = {}
  /\ inbox = <<>> /\ pipe = <<>> /\ table = 0 /\ own = [h \in Owners |-> NoOwner]
  /\ sent = [h \in Owners |-> 0] /\ troubles = 0

Step(h) ==
  \/ Write(h) \/ Fallback(h) \/ Consume(h) \/ ContinueWrite(h) \/ StreamFails(h) \/ Adopt(h)
  \/ GiveUp(h) \/ GiveUpContinuation(h) \/ Settle(h) \/ Close(h)

Next ==
  \/ Accept \/ Refuse \/ Interrupted \/ Finish \/ Spontaneous \/ Repeat \/ Exit
  \/ Spawn \/ ReadEnd \/ DiscardEnds \/ Read
  \/ \E h \in Owners : \/ Begin(h) \/ Continue(h) \/ Again(h) \/ Step(h)
                       \/ Timeout(h) \/ Cancel(h) \/ Leave(h) \/ Stall(h)

Spec == Init /\ [][Next]_vars

(* The app-server handles what it was sent and ends its turns, the reader      *)
(* reads, a killed process is reaped, a run's coroutine goes on and its        *)
(* children come to an end.                                                    *)
Serve == Accept \/ Refuse \/ Interrupted \/ Finish
Transport == Spawn \/ ReadEnd \/ DiscardEnds \/ Read
FairSpec ==
  /\ Spec /\ WF_vars(Serve) /\ WF_vars(Transport)
  /\ \A h \in Owners : WF_vars(Step(h)) /\ WF_vars(Continue(h))

-----------------------------------------------------------------------------
(* Once everything is read, the handle of a running turn names the native turn *)
(* that runs, so Stop and steering reach it, and it is marked completed when   *)
(* none runs: whatever came first, answer, start, end or a repeated message    *)
(* (_route_notification, start_turn, continue_after_subagents).                *)
HandleFollowsTurn ==
  \A h \in Owners :
    proc = "up" /\ pipe = <<>> /\ table = h /\ own[h].pc = "run" /\ own[h].tgen = gen
      => IF running # 0 THEN own[h].turn = running /\ ~own[h].completed
         ELSE own[h].completed

(* A run's input reaches a provider once: it goes to codex exec only when the  *)
(* app-server cannot have read it, and never again after an uncertain delivery *)
(* (safe_to_retry, pending_turn, delivery_unknown). The one second sending is  *)
(* the rollover of a resumed thread that showed no activity, which the code    *)
(* means although the first turn/start had been accepted.                      *)
DeliveredOnce == \A h \in Owners : sent[h] <= IF own[h].end = "again" THEN 2 ELSE 1

(* Where the code settles a failed run, it leaves no native turn of the run's  *)
(* request running that nobody owns: an acceptance that was never confirmed is *)
(* found, interrupted or dies with its process (reconcile_ambiguous_start,     *)
(* settle_transport_finalizer, the confirmed interrupt of a run that breaks    *)
(* off). Nothing is claimed of a run that was cancelled after acceptance or    *)
(* lost its slot (left: turn.close alone), nor of one whose interrupt was not  *)
(* confirmed (stalled): there the turn may run on. An empty continuation is    *)
(* told from a turn the provider begins by itself only by its number: a run    *)
(* that waited for children is left out where one of those ran, or where an    *)
(* earlier run left a turn behind.                                             *)
NoOrphanTurn ==
  \A h \in Owners :
    /\ own[h].pc = "gone" /\ own[h].end \in {"failed", "unknown", "settled"}
    /\ own[h].parent # 0 => asked = 1 .. made /\ \A k \in 1 .. h - 1 : own[k].end \notin {"left", "stalled"}
    => /\ ~\E i \in 1 .. Len(inbox) : inbox[i].m \in Starts /\ inbox[i].h = h
       /\ running \in asked => by[running] # h

(* Every run that got hold of the thread lets go of it: no answer that fails   *)
(* to come, no cancellation and no process that dies under it keeps the thread *)
(* (start_turn, reconcile_ambiguous_start, settle_transport_finalizer).        *)
ThreadFreed == \A h \in Owners : table = h ~> table # h

(* A run's input is taken at most once, but for the rollover of a silent       *)
(* resumed thread, its handle follows the native turn, and a run that the code *)
(* settles leaves no turn of its own to run for nobody (start_turn,            *)
(* _route_notification, reconcile_ambiguous_start).                            *)
RunsDelivered ==
  /\ TypeOK
  /\ HandleFollowsTurn
  /\ DeliveredOnce
  /\ NoOrphanTurn

=============================================================================
