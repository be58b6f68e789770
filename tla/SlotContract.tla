---------------------------- MODULE SlotContract ----------------------------
(***************************************************************************)
(* What a chat promises about its turns, whatever provider runs them: one  *)
(* turn at a time holds the chat; a prompt is given to a provider session  *)
(* at most once, and only for the turn that holds the chat or for the      *)
(* successor it is steered to; a turn is reported started only while it    *)
(* holds the chat, and closed at most once, after it was started or, when  *)
(* its handover broke, after its prompt was given.                         *)
(***************************************************************************)
CONSTANT Runs

VARIABLES owner, given, opened, closed

cvars == <<owner, given, opened, closed>>

NoRun == 0

Init == owner = NoRun /\ given = {} /\ opened = {} /\ closed = {}

Take(r) ==
    /\ owner = NoRun /\ r \notin opened
    /\ owner' = r /\ UNCHANGED <<given, opened, closed>>

(* A native steer hands the chat to its successor without freeing it. *)
Hand(r) ==
    /\ owner # NoRun /\ r \notin opened /\ \E p \in given : p[1] = r
    /\ owner' = r /\ UNCHANGED <<given, opened, closed>>

Free == owner # NoRun /\ owner' = NoRun /\ UNCHANGED <<given, opened, closed>>

Give(r, session) ==
    /\ owner = r \/ (owner # NoRun /\ r \notin opened)
    /\ <<r, session>> \notin given /\ r \notin closed
    /\ given' = given \cup {<<r, session>>} /\ UNCHANGED <<owner, opened, closed>>

Open(r) ==
    /\ owner = r /\ r \notin opened /\ opened' = opened \cup {r}
    /\ UNCHANGED <<owner, given, closed>>

(* A terminal event, alone or in the durable batch that also opens the     *)
(* successor, or together with the release of the chat.                    *)
Close(r, successors) ==
    /\ r \in opened \/ (\E p \in given : p[1] = r)
    /\ r \notin closed /\ closed' = closed \cup {r}
    /\ opened' = opened \cup successors
    /\ owner' \in {owner, NoRun} /\ UNCHANGED given

(* A crash forgets the owner; recovery closes the newest open turn. *)
Restart ==
    /\ owner' = NoRun
    /\ closed' = closed \/ \E r \in opened \ closed : closed' = closed \cup {r}
    /\ UNCHANGED <<given, opened>>

Next ==
    \/ \E r \in Runs : Take(r) \/ Hand(r) \/ Open(r)
    \/ \E r \in Runs : \E p \in given' : Give(r, p[2])
    \/ \E r \in Runs : Close(r, {}) \/ Close(r, {owner} \ {r, NoRun})
    \/ Free \/ Restart

Contract == Init /\ [][Next]_cvars
=============================================================================
