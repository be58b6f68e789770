--------------------------- MODULE ClaudeTransport ---------------------------
(***************************************************************************)
(* The Claude transport of one chat (claude_sdk_client.py). The manager      *)
(* registers one supervisor, an actor that serves a queue of commands: start *)
(* a run, interrupt it, what the receiver of its connection has read, close. *)
(* A supervisor connects a CLI process when it needs one and numbers its     *)
(* connections; a run owns what the process says once its query was replayed.*)
(* The process itself is external: it executes the queries it is given in    *)
(* turn, delegates work to tasks that can outlive a result, and calls a hook *)
(* for every query at some time. A slash command is not replayed.            *)
(***************************************************************************)
EXTENDS Integers, Sequences, FiniteSets

CONSTANTS
  MaxSups,      \* bound: supervisors
  MaxClients,   \* bound: processes
  MaxRuns,      \* bound: runs
  Slash,        \* the runs that are slash commands
  MaxTroubles   \* bound: failures

Sups == 1 .. MaxSups
Clients == 1 .. MaxClients
Runs == 1 .. MaxRuns

VARIABLES
  cur,       \* _supervisors[chat]: 0, or the registered supervisor
  evicting,  \* _evicting[chat]: 0, or the supervisor that is torn down
  sup,       \* the supervisors
  run,       \* the runs
  cl,        \* the processes
  troubles

vars == <<cur, evicting, sup, run, cl, troubles>>

Cmd(k, n, of, what) == [k |-> k, n |-> n, of |-> of, what |-> what]
NoCmd == Cmd("none", 0, 0, "none")
Nobody == [st |-> "none", pc |-> "idle", cmd |-> NoCmd, q |-> <<>>, client |-> 0, connecting |-> 0,
           gen |-> 0, active |-> 0, hook |-> 0, tasks |-> FALSE]
NoRun == [st |-> "new", sup |-> 0, ack |-> FALSE, why |-> "none", sent |-> FALSE, foreign |-> FALSE, used |-> 0, stop |-> FALSE]
NoClient == [st |-> "none", sup |-> 0, gen |-> 0, in |-> <<>>, out |-> <<>>, now |-> 0, phase |-> "idle",
             left |-> FALSE, stray |-> 0, hooks |-> {}, stop |-> FALSE, clean |-> FALSE]

TypeOK ==
  /\ cur \in {0} \cup Sups /\ evicting \in {0} \cup Sups /\ troubles \in 0 .. MaxTroubles
  /\ \A s \in Sups : /\ sup[s].st \in {"none", "open", "closed"} /\ sup[s].pc \in {"idle", "connect", "ready", "query"}
                     /\ sup[s].client \in {0} \cup Clients /\ sup[s].active \in {0} \cup Runs
                     /\ sup[s].client # 0 => cl[sup[s].client].st \in {"up", "down"}
                     /\ sup[s].pc # "idle" => sup[s].cmd.k = "start"
  /\ \A r \in Runs : run[r].st \in {"new", "asked", "given", "ended", "failed"}
  /\ \A c \in Clients : cl[c].st \in {"none", "connecting", "up", "down"}

(* The turn is over: its finalizer has run, or has lost the turn.              *)
Settled(r) == run[r].st = "ended" \/ (run[r].st = "failed" /\ run[r].why # "uncertain")

(* The run's handle is completed with an exception.                            *)
Fail(R, r, why) == IF r = 0 \/ R[r].st \notin {"asked", "given"} THEN R ELSE [R EXCEPT ![r].st = "failed", ![r].why = why]

-----------------------------------------------------------------------------
(* _disconnect_current_client: the receiver's last word reaches the queue, the *)
(* hook goes with the connection.                                              *)
Unplugged(x) ==
  IF x.client = 0 THEN [x EXCEPT !.hook = 0]
  ELSE [x EXCEPT !.client = 0, !.hook = 0, !.q = Append(@, Cmd("stopped", x.gen, 0, "none"))]
Down(C, c) == IF c = 0 THEN C ELSE [C EXCEPT ![c] = [NoClient EXCEPT !.st = "down", !.sup = C[c].sup, !.gen = C[c].gen]]

(* _disconnect_connecting_client: a connect that does not heed its cancelling  *)
(* is disconnected again when it has come through.                             *)
Abandoned(C, c) == [C EXCEPT ![c].clean = TRUE]

(* _fail_active.                                                               *)
Dropped(x) == [x EXCEPT !.active = 0, !.tasks = FALSE, !.hook = 0]

(* abort: the registry forgets the supervisor at once.                         *)
Retire(s) == cur' = (IF cur = s THEN 0 ELSE cur) /\ evicting' = s

-----------------------------------------------------------------------------
(* ClaudeSDKSupervisorManager.start_run: behind a complete teardown.           *)
Start(r) ==
  /\ run[r].st = "new" /\ evicting = 0 /\ \A p \in 1 .. r - 1 : Settled(p)
  /\ LET fresh == cur = 0 \/ sup[cur].st = "closed"
         s == IF fresh THEN Cardinality({t \in Sups : sup[t].st # "none"}) + 1 ELSE cur
         x == IF fresh THEN [Nobody EXCEPT !.st = "open"] ELSE sup[cur] IN
     /\ s <= MaxSups /\ cur' = s
     /\ sup' = [sup EXCEPT ![s] = [x EXCEPT !.q = Append(@, Cmd("start", 0, r, "none"))]]
     /\ run' = [run EXCEPT ![r].st = "asked", ![r].sup = s]
  /\ UNCHANGED <<evicting, cl, troubles>>

(* A hook that an earlier query never reached would answer to this one.        *)
MustReconnect(x) == x.client = 0 \/ x.hook # 0

(* _handle_start up to the connection, which _new_client makes.                *)
TakeStart(s) ==
  LET x == sup[s] IN
  /\ x.st = "open" /\ x.pc = "idle" /\ x.q # <<>> /\ Head(x.q).k = "start"
  /\ LET c == Cardinality({d \in Clients : cl[d].st # "none"}) + 1
         y == [x EXCEPT !.q = Tail(@), !.cmd = Head(x.q), !.active = 0] IN
     IF MustReconnect(x)
     THEN /\ c <= MaxClients
          /\ sup' = [sup EXCEPT ![s] = [Unplugged(y) EXCEPT !.pc = "connect", !.connecting = c]]
          /\ cl' = [Down(cl, x.client) EXCEPT ![c] = [NoClient EXCEPT !.st = "connecting", !.sup = s]]
     ELSE sup' = [sup EXCEPT ![s] = [y EXCEPT !.pc = "ready"]] /\ UNCHANGED cl
  /\ UNCHANGED <<cur, evicting, run, troubles>>

(* A resumed session may begin with output of an earlier query.                *)
Connected(s) ==
  /\ sup[s].st = "open" /\ sup[s].pc = "connect"
  /\ sup' = [sup EXCEPT ![s].pc = "ready", ![s].connecting = 0, ![s].client = sup[s].connecting, ![s].gen = @ + 1]
  /\ \E stale \in {<<>>, <<[k |-> "result", of |-> 0]>>} :
       /\ troubles + Len(stale) <= MaxTroubles /\ troubles' = troubles + Len(stale)
       /\ cl' = [cl EXCEPT ![sup[s].connecting] = [@ EXCEPT !.st = "up", !.gen = sup[s].gen + 1, !.out = stale]]
  /\ UNCHANGED <<cur, evicting, run>>

(* The connect fails or takes too long; the manager retires the supervisor.    *)
ConnectFails(s) ==
  /\ sup[s].st = "open" /\ sup[s].pc = "connect" /\ troubles < MaxTroubles /\ troubles' = troubles + 1
  /\ run' = Fail(run, sup[s].cmd.of, "unavailable")
  /\ cl' = Abandoned(cl, sup[s].connecting)
  /\ sup' = [sup EXCEPT ![s].pc = "idle", ![s].cmd = NoCmd, ![s].connecting = 0, ![s].st = "closed"]
  /\ Retire(s)

(* The admission fence: the run becomes the active one and its hook is bound,  *)
(* or a Stop has won and the supervisor is retired.                            *)
Admit(s) ==
  /\ sup[s].st = "open" /\ sup[s].pc = "ready" /\ ~run[sup[s].cmd.of].stop
  /\ sup' = [sup EXCEPT ![s].pc = "query", ![s].active = sup[s].cmd.of, ![s].hook = sup[s].cmd.of]
  /\ UNCHANGED <<cur, evicting, run, cl, troubles>>
Refuse(s) ==
  /\ sup[s].st = "open" /\ sup[s].pc = "ready" /\ run[sup[s].cmd.of].stop
  /\ run' = Fail(run, sup[s].cmd.of, "stopped")
  /\ sup' = [sup EXCEPT ![s].pc = "idle", ![s].cmd = NoCmd, ![s].st = "closed"]
  /\ Retire(s) /\ UNCHANGED <<cl, troubles>>

(* The query is delivered, or nobody knows whether it was.                     *)
Query(s) ==
  /\ sup[s].st = "open" /\ sup[s].pc = "query"
  /\ LET x == sup[s]  r == x.cmd.of IN
     /\ sup' = [sup EXCEPT ![s].pc = "idle", ![s].cmd = NoCmd]
     /\ run' = [run EXCEPT ![r].st = "given", ![r].sent = TRUE, ![r].ack = r \in Slash]
     /\ cl' = [cl EXCEPT ![x.client].in = Append(@, r)]
  /\ UNCHANGED <<cur, evicting, troubles>>

Doubt == "uncertain"

QueryFails(s) ==
  /\ sup[s].st = "open" /\ sup[s].pc = "query" /\ troubles < MaxTroubles /\ troubles' = troubles + 1
  /\ LET x == sup[s]  r == x.cmd.of IN
     \E delivered \in BOOLEAN :
       /\ run' = [Fail(run, r, Doubt) EXCEPT ![r].sent = delivered]
       /\ cl' = Down(cl, x.client)
       /\ sup' = [sup EXCEPT ![s] = [Unplugged(Dropped(x)) EXCEPT !.pc = "idle", !.cmd = NoCmd]]
  /\ UNCHANGED <<cur, evicting>>

-----------------------------------------------------------------------------
(* The receiver of the connection.                                             *)
Receive(s) ==
  LET c == sup[s].client IN
  /\ c # 0 /\ sup[s].st = "open" /\ cl[c].out # <<>>
  /\ LET m == Head(cl[c].out) IN
     sup' = [sup EXCEPT ![s].q = Append(@, Cmd("got", cl[c].gen, m.of, m.k))]
  /\ cl' = [cl EXCEPT ![c].out = Tail(@)]
  /\ UNCHANGED <<cur, evicting, run, troubles>>

Current(s, gen) == gen = sup[s].gen

(* Fault: a forced end keeps the connection, tasks or not.                     *)
LeavesStraysNever(x, forced) == FALSE

(* A forced end leaves tasks behind whose frames must not reach the next run.  *)
LeavesStrays(x, forced) == x.tasks /\ forced

(* _handle_received.                                                           *)
TakeMessage(s) ==
  LET x == sup[s]  m == Head(x.q)  r == x.active
      y == [x EXCEPT !.q = Tail(@)]
      ends == m.what = "forced" \/ (m.what = "result" /\ ~x.tasks)
      heard == [run EXCEPT ![r].foreign = @ \/ m.of # r] IN
  /\ x.st = "open" /\ x.pc = "idle" /\ x.q # <<>> /\ m.k = "got"
  /\ IF ~Current(s, m.n) \/ r = 0
     THEN sup' = [sup EXCEPT ![s] = y] /\ UNCHANGED <<run, cl>>
     ELSE IF ~run[r].ack
     THEN /\ run' = [run EXCEPT ![r].ack = m.what = "ack" /\ m.of = r]
          /\ sup' = [sup EXCEPT ![s] = y] /\ UNCHANGED cl
     ELSE IF ends
     THEN /\ run' = [heard EXCEPT ![r].st = "ended"]
          /\ LET z == [y EXCEPT !.active = 0, !.tasks = FALSE] IN
             IF LeavesStrays(x, m.what = "forced")
             THEN sup' = [sup EXCEPT ![s] = Unplugged(z)] /\ cl' = Down(cl, x.client)
             ELSE sup' = [sup EXCEPT ![s] = z] /\ UNCHANGED cl
     ELSE /\ run' = IF m.what \in {"task", "done"} THEN heard ELSE run
          /\ sup' = [sup EXCEPT ![s] = [y EXCEPT !.tasks = IF m.what = "task" THEN TRUE ELSE IF m.what = "done" THEN FALSE ELSE @]]
          /\ UNCHANGED cl
  /\ UNCHANGED <<cur, evicting, troubles>>

(* _handle_receiver_stopped.                                                   *)
TakeStopped(s) ==
  LET x == sup[s]  y == [x EXCEPT !.q = Tail(@)] IN
  /\ x.st = "open" /\ x.pc = "idle" /\ x.q # <<>> /\ Head(x.q).k = "stopped"
  /\ IF ~Current(s, Head(x.q).n) THEN sup' = [sup EXCEPT ![s] = y] /\ UNCHANGED <<run, cl>>
     ELSE /\ run' = Fail(run, x.active, IF x.client # 0 /\ cl[x.client].st = "up" THEN "mistaken" ELSE "lost")
          /\ sup' = [sup EXCEPT ![s] = [Unplugged(Dropped(y)) EXCEPT !.q = y.q]]
          /\ cl' = Down(cl, x.client)
  /\ UNCHANGED <<cur, evicting, troubles>>

-----------------------------------------------------------------------------
(* A Stop: before the query it is left to the admission fence, afterwards the  *)
(* run is interrupted.                                                         *)
Stop(r) ==
  /\ run[r].st \in {"asked", "given"} /\ ~run[r].stop
  /\ run' = [run EXCEPT ![r].stop = TRUE]
  /\ sup' = IF run[r].st = "given" /\ sup[run[r].sup].st = "open"
            THEN [sup EXCEPT ![run[r].sup].q = Append(@, Cmd("interrupt", 0, r, "none"))] ELSE sup
  /\ UNCHANGED <<cur, evicting, cl, troubles>>

(* _handle_interrupt: a run whose query was not replayed yet is given up.      *)
TakeInterrupt(s) ==
  LET x == sup[s]  r == Head(x.q).of  y == [x EXCEPT !.q = Tail(@)] IN
  /\ x.st = "open" /\ x.pc = "idle" /\ x.q # <<>> /\ Head(x.q).k = "interrupt"
  /\ IF x.active # r \/ x.client = 0 THEN sup' = [sup EXCEPT ![s] = y] /\ UNCHANGED <<run, cl>>
     ELSE IF run[r].ack
     THEN sup' = [sup EXCEPT ![s] = y] /\ cl' = [cl EXCEPT ![x.client].stop = TRUE] /\ UNCHANGED run
     ELSE /\ run' = Fail(run, r, "uncertain") /\ cl' = Down(cl, x.client)
          /\ sup' = [sup EXCEPT ![s] = Unplugged(Dropped(y))]
  /\ UNCHANGED <<cur, evicting, troubles>>

(* evict_idle: neither active nor pinned by a start that is under way.         *)
EvictIdle ==
  /\ cur # 0 /\ evicting = 0 /\ sup[cur].st = "open" /\ sup[cur].active = 0
  /\ \A r \in Runs : run[r].sup = cur => Settled(r)
  /\ sup' = [sup EXCEPT ![cur].q = Append(@, Cmd("close", 0, 0, "none"))]
  /\ Retire(cur) /\ UNCHANGED <<run, cl, troubles>>

(* _handle_close.                                                              *)
TakeClose(s) ==
  LET x == sup[s] IN
  /\ x.st = "open" /\ x.pc = "idle" /\ x.q # <<>> /\ Head(x.q).k = "close"
  /\ run' = Fail(run, x.active, "closed") /\ cl' = Down(cl, x.client)
  /\ sup' = [sup EXCEPT ![s] = [Unplugged(Dropped(x)) EXCEPT !.st = "closed", !.q = <<>>]]
  /\ evicting' = (IF evicting = s THEN 0 ELSE evicting) /\ UNCHANGED <<cur, troubles>>

OwnerIs(s) == cur = s

(* evict, forced and by the token of the run's supervisor: a Stop that does    *)
(* not wait any longer, and the finalizer of a run whose start was uncertain   *)
(* or was stopped. _closed is set at once.                                     *)
Evict(r) ==
  /\ \/ run[r].st = "given" /\ run[r].stop
     \/ run[r].st = "failed" /\ run[r].why \in {"uncertain", "stopped"}
  /\ evicting = 0 /\ OwnerIs(run[r].sup)
  /\ run' = [run EXCEPT ![r].why = "evicted"]
  /\ sup' = [sup EXCEPT ![cur].st = "closed"]
  /\ Retire(cur) /\ UNCHANGED <<cl, troubles>>

(* A Stop has released the turn: its finalizer leaves the supervisor alone.    *)
Release(r) ==
  /\ run[r].st = "failed" /\ run[r].why = "uncertain" /\ (run[r].stop \/ cur # run[r].sup)
  /\ run' = [run EXCEPT ![r].why = "released"]
  /\ UNCHANGED <<cur, evicting, sup, cl, troubles>>

(* The end of the actor: its run fails, its process is disconnected, and every *)
(* command that is still in its queue is answered.                             *)
TearDown(s) ==
  LET x == sup[s]
      asked == {x.active, x.cmd.of} \cup {x.q[i].of : i \in {j \in DOMAIN x.q : x.q[j].k = "start"}} IN
  /\ evicting = s /\ x.st = "closed" /\ evicting' = 0
  /\ run' = [r \in Runs |-> IF r \in asked THEN Fail(run, r, "closed")[r] ELSE run[r]]
  /\ cl' = LET C == Down(cl, x.client) IN IF x.connecting = 0 THEN C ELSE Abandoned(C, x.connecting)
  /\ sup' = [sup EXCEPT ![s] = [Nobody EXCEPT !.st = "closed", !.gen = x.gen]]
  /\ UNCHANGED <<cur, troubles>>

-----------------------------------------------------------------------------
(* The process.                                                                *)
Say(c, k, of) == cl[c].out \o <<[k |-> k, of |-> of]>>
Cli(c, f) == cl' = [cl EXCEPT ![c] = f] /\ UNCHANGED <<cur, evicting, sup, run, troubles>>
Up(c) == cl[c].st = "up" /\ ~cl[c].clean

CliBegins(c) ==
  /\ Up(c) /\ cl[c].phase = "idle" /\ cl[c].in # <<>>
  /\ LET r == Head(cl[c].in) IN
     Cli(c, [cl[c] EXCEPT !.in = Tail(@), !.now = r, !.phase = "work", !.left = FALSE, !.stop = FALSE, !.hooks = @ \cup {r},
                          !.out = IF r \in Slash THEN @ ELSE Append(@, [k |-> "ack", of |-> r])])
CliTask(c) ==
  /\ Up(c) /\ cl[c].phase = "work" /\ ~cl[c].left /\ cl[c].stray = 0 /\ troubles < MaxTroubles
  /\ cl' = [cl EXCEPT ![c].left = TRUE, ![c].out = Say(c, "task", cl[c].now)] /\ troubles' = troubles + 1
  /\ UNCHANGED <<cur, evicting, sup, run>>
CliResult(c) ==
  /\ Up(c) /\ (cl[c].phase = "work" \/ (cl[c].phase = "wait" /\ cl[c].stop))
  /\ Cli(c, [cl[c] EXCEPT !.out = Say(c, IF cl[c].stop THEN "forced" ELSE "result", cl[c].now),
                          !.stray = IF cl[c].left /\ cl[c].stop THEN cl[c].now ELSE @,
                          !.phase = IF cl[c].left /\ ~cl[c].stop THEN "wait" ELSE "idle"])
CliTaskEnds(c) ==
  /\ Up(c) /\ cl[c].phase = "wait"
  /\ Cli(c, [cl[c] EXCEPT !.left = FALSE, !.phase = "work", !.out = Say(c, "done", cl[c].now)])
CliStray(c) ==
  /\ Up(c) /\ cl[c].stray # 0
  /\ Cli(c, [cl[c] EXCEPT !.stray = 0, !.out = Say(c, "done", cl[c].stray) \o <<[k |-> "result", of |-> cl[c].stray]>>])

(* The hook of a query: it answers for the run that is bound to it.            *)
CliHook(c, r) ==
  /\ Up(c) /\ r \in cl[c].hooks
  /\ cl' = [cl EXCEPT ![c].hooks = @ \ {r}]
  /\ LET s == cl[c].sup  h == sup[s].hook IN
     IF sup[s].client = c /\ h # 0 /\ sup[s].active = h /\ sup[s].st = "open"
     THEN sup' = [sup EXCEPT ![s].hook = 0] /\ run' = [run EXCEPT ![h].used = r]
     ELSE UNCHANGED <<sup, run>>
  /\ UNCHANGED <<cur, evicting, troubles>>
CliDies(c) ==
  /\ Up(c) /\ troubles < MaxTroubles /\ troubles' = troubles + 1
  /\ cl' = Down(cl, c)
  /\ sup' = IF sup[cl[c].sup].client = c
            THEN [sup EXCEPT ![cl[c].sup].q = Append(@, Cmd("stopped", cl[c].gen, 0, "none"))] ELSE sup
  /\ UNCHANGED <<cur, evicting, run>>

(* A connect that was given up comes through, and is cleaned up.               *)
LateConnect(c) ==
  /\ cl[c].st = "connecting" /\ \A s \in Sups : sup[s].connecting # c
  /\ Cli(c, [cl[c] EXCEPT !.st = "up"])
Cleanup(c) == cl[c].st = "up" /\ cl[c].clean /\ Cli(c, Down(cl, c)[c])

-----------------------------------------------------------------------------
Init ==
  /\ cur = 0 /\ evicting = 0 /\ troubles = 0
  /\ sup = [s \in Sups |-> Nobody] /\ run = [r \in Runs |-> NoRun] /\ cl = [c \in Clients |-> NoClient]

Actor(s) ==
  \/ TakeStart(s) \/ Connected(s) \/ Admit(s) \/ Refuse(s) \/ Query(s) \/ TakeMessage(s) \/ TakeStopped(s)
  \/ TakeInterrupt(s) \/ TakeClose(s) \/ TearDown(s)

Next ==
  \/ EvictIdle
  \/ \E s \in Sups : Actor(s) \/ ConnectFails(s) \/ QueryFails(s) \/ Receive(s)
  \/ \E r \in Runs : Start(r) \/ Stop(r) \/ Evict(r) \/ Release(r)
  \/ \E c \in Clients : \/ CliBegins(c) \/ CliTask(c) \/ CliResult(c) \/ CliTaskEnds(c) \/ CliStray(c) \/ CliDies(c)
                        \/ LateConnect(c) \/ Cleanup(c) \/ \E r \in Runs : CliHook(c, r)

Spec == Init /\ [][Next]_vars
FairSpec == Spec /\ (\A s \in Sups : WF_vars(Actor(s))) /\ \A c \in Clients : WF_vars(Cleanup(c))

-----------------------------------------------------------------------------
(* What a run is given and what ends it was said for its own query, whatever   *)
(* the process still says for earlier ones (the replay gate of                 *)
(* _handle_received). A slash command has no replay and no such gate: what    *)
(* ends one too early can also mislead the run behind it.                      *)
OwnOutput == \A r \in Runs \ Slash : ~run[r].foreign

(* The report on lost tasks reaches the query it was bound to                  *)
(* (_BackgroundReconciliationHook).                                            *)
HookOwn == \A r \in Runs : run[r].used \in {0, r}

(* A run fails for the trouble of its own connection: the last word of an      *)
(* earlier receiver, or the delayed eviction of an earlier run's supervisor,   *)
(* does not end it (_handle_receiver_stopped, evict).                          *)
FailsForCause ==
  \A r \in Runs : run[r].st = "failed" =>
    /\ run[r].why # "mistaken"
    /\ run[r].why = "closed" => run[r].stop

(* Only a run whose query nobody has sent is reported unavailable or stopped:  *)
(* it may be given to another transport.                                       *)
NotSentTwice == \A r \in Runs : run[r].why \in {"unavailable", "stopped"} => ~run[r].sent

(* A process that runs is held by the supervisor that made it, or by a cleanup *)
(* (_disconnect_connecting_client).                                            *)
NoOrphan == \A c \in Clients : cl[c].st = "up" => cl[c].clean \/ sup[cl[c].sup].client = c

(* A start is answered, whatever happens to the process (_actor_loop).         *)
Answered == \A r \in Runs : run[r].st = "asked" ~> run[r].st # "asked"

(* A run gets its own output and its own failures, its prompt is sent once,   *)
(* and no process runs for nobody (_handle_received, _fail_active,            *)
(* _handle_start).                                                            *)
RunsOwn ==
  /\ TypeOK
  /\ OwnOutput
  /\ HookOwn
  /\ FailsForCause
  /\ NotSentTwice
  /\ NoOrphan

=============================================================================
