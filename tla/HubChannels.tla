----------------------------- MODULE HubChannels -----------------------------
(***************************************************************************)
(* What the members of a team write where others read it                    *)
(* (agentsdock_team_hub/store.py): the Bulletin board, announcements, the   *)
(* direct channel of two people and the mailbox of a server. Messages have  *)
(* threads and a sequence number in their channel, Bulletin posts can be    *)
(* taken back by the deletion journal, writes of paired servers are charged *)
(* to rate buckets, and readers walk the pages forwards or backwards while  *)
(* others write. That a request is not executed twice is HubMail's subject. *)
(***************************************************************************)
EXTENDS Integers, Sequences, FiniteSets, FiniteSetsExt

CONSTANTS
  o, m, a,    \* the owner, a member who only reads, and a paired server
  MaxMsgs,    \* bound: messages
  Limit,      \* writes a bucket admits in a window
  Window,     \* its length
  PageSize    \* rows of a page

(* What the bounds must be for the results to hold.                            *)
Bounds == MaxMsgs \in Nat /\ Limit \in Nat \ {0} /\ Window \in Nat \ {0} /\ PageSize \in Nat \ {0}

Writers == {o, a}
role == [p \in Writers |-> IF p = o THEN "owner" ELSE "automation"]
Pair == {o, m}                         \* the participants of the direct channel
Channels == {"board", "news", "pair", "box"}
Buckets == {"network.mailbox", "peer.message"}

VARIABLES
  open,     \* the channels there are
  msgs,     \* messages (network_mailbox_items for the box)
  next,     \* next_message_sequence of each channel
  gone,     \* network_content_deletions
  outbox,   \* outbox_events: how many announce the deletion of a message
  bucket,   \* rate_limit_buckets of the paired server: age of the window, count
  log,      \* ghost: the age of each write charged to a bucket, Window when it is past or none was
  kind,     \* what this behaviour is about: a reader, backwards or on one channel, or time
  fwd,      \* a reader that follows after_sequence
  back      \* a reader that follows before_sequence

vars == <<open, msgs, next, gone, outbox, bucket, log, kind, fwd, back>>
readers == <<kind, fwd, back>>

Ids == DOMAIN msgs
NoBack == [on |-> FALSE, chan |-> "board", before |-> 0, got |-> {}, want |-> {}, done |-> FALSE]

TypeOK ==
  /\ open \subseteq Channels /\ gone \subseteq Ids
  /\ \A i \in Ids : msgs[i] \in [chan : Channels, seq : 1 .. MaxMsgs, by : Writers, root : 0 .. i - 1, parent : 0 .. i - 1]
  /\ next \in [Channels -> 1 .. MaxMsgs + 1]
  /\ bucket \in [Buckets -> [age : 0 .. Window, count : Nat]]
  /\ kind \in {"back", "board", "box", "time"} /\ fwd \in [after : 0 .. MaxMsgs, got : SUBSET Ids]
  /\ back.chan \in Channels /\ back.got \subseteq Ids /\ back.want \subseteq Ids

-----------------------------------------------------------------------------
(* _channel_permission: a direct channel belongs to its two participants;      *)
(* elsewhere the role decides.                                                 *)
CanRead(p, c) == c = "pair" => p \in Pair
CanPost(p, c) ==
  CASE c = "pair" -> p \in Pair
    [] c = "news" -> role[p] = "owner"
    [] OTHER      -> TRUE

Alive(i) == i \notin gone

(* _charge_rate_bucket: the first write opens a window of fixed length.        *)
Admits(b) == bucket[b].age >= Window \/ bucket[b].count < Limit

Charge(p, b) ==
  IF role[p] # "automation" THEN UNCHANGED <<bucket, log>>
  ELSE /\ Admits(b)
       /\ bucket' = [bucket EXCEPT ![b] = IF @.age >= Window THEN [age |-> 0, count |-> 1] ELSE [age |-> @.age, count |-> @.count + 1]]
       /\ log' = [log EXCEPT ![b] = [@ EXCEPT ![Len(msgs) + 1] = 0]]

Write(p, c, root, parent) ==
  /\ msgs' = Append(msgs, [chan |-> c, seq |-> next[c], by |-> p, root |-> root, parent |-> parent])
  /\ next' = [next EXCEPT ![c] = @ + 1]

-----------------------------------------------------------------------------
(* create_channel: the slug and the pair of participants are unique.           *)
CreateChannel(p, c) ==
  /\ c \in {"news", "pair"} \ open
  /\ IF c = "news" THEN role[p] = "owner"
     ELSE p \in Pair
  /\ open' = open \cup {c}
  /\ UNCHANGED <<msgs, next, gone, outbox, bucket, log, readers>>

RootOf(i) == IF i = 0 THEN 0 ELSE IF msgs[i].root = 0 THEN i ELSE msgs[i].root

(* create_network_bulletin_post: the board is made by whoever posts first; the *)
(* thread is that of the post that is answered.                                *)
BulletinPost(p, parent) ==
  /\ CanPost(p, "board")
  /\ parent # 0 => msgs[parent].chan = "board" /\ Alive(parent)
  /\ Charge(p, "network.mailbox")
  /\ Write(p, "board", RootOf(parent), parent)
  /\ open' = open \cup {"board"}
  /\ UNCHANGED <<gone, outbox, readers>>

(* create_message: the client names root and parent.                           *)
Threadable(c, root, parent) ==
  /\ parent # 0 => root # 0
  /\ root # 0 => msgs[root].chan = c /\ Alive(root) /\ msgs[root].root = 0 /\ msgs[root].parent = 0
  /\ parent # 0 => msgs[parent].chan = c /\ Alive(parent) /\ root \in {parent, msgs[parent].root}

CreateMessage(p, c, root, parent) ==
  /\ c \in open \ {"box"} /\ CanPost(p, c)
  /\ Charge(p, "peer.message")
  /\ Threadable(c, root, parent)
  /\ Write(p, c, root, parent)
  /\ UNCHANGED <<open, gone, outbox, readers>>

(* create_network_mailbox_item.                                                *)
MailboxItem(p) ==
  /\ CanPost(p, "box")
  /\ Charge(p, "network.mailbox")
  /\ Write(p, "box", 0, 0)
  /\ UNCHANGED <<open, gone, outbox, readers>>

(* A deletion that is in the journal already is not announced again: the       *)
(* outbox admits one event of a kind for a post.                               *)
Announced(i) == IF i \in gone THEN outbox ELSE [outbox EXCEPT ![i] = @ + 1]

(* delete_network_bulletin_post: by its author, or by the owner.               *)
DeletePost(p, i) ==
  /\ msgs[i].chan = "board" /\ (msgs[i].by = p \/ role[p] = "owner")
  /\ outbox' = Announced(i) /\ gone' = gone \cup {i}
  /\ UNCHANGED <<open, msgs, next, bucket, log, readers>>

(* Time passes.                                                                *)
Older(t) == IF t < Window THEN t + 1 ELSE Window

Tick ==
  /\ kind = "time" /\ \E b \in Buckets : bucket[b].age < Window
  /\ bucket' = [b \in Buckets |-> [bucket[b] EXCEPT !.age = Older(@)]]
  /\ log' = [b \in Buckets |-> [i \in 1 .. MaxMsgs |-> Older(log[b][i])]]
  /\ UNCHANGED <<open, msgs, next, gone, outbox, readers>>

-----------------------------------------------------------------------------
(* list_network_bulletin and list_network_mailbox: up to PageSize rows, fewer  *)
(* when they would be too large (_bounded_network_page).                       *)
After(c, s) == {i \in Ids : msgs[i].chan = c /\ msgs[i].seq > s /\ (c = "board" => Alive(i))}
First(S, k) == {i \in S : Cardinality({j \in S : msgs[j].seq <= msgs[i].seq}) <= k}

NextAfter(rows, page) == Max({msgs[i].seq : i \in page})

ListForward ==
  \E k \in 1 .. PageSize :
    /\ kind \in {"board", "box"} /\ After(kind, fwd.after) # {}
    /\ LET rows == After(kind, fwd.after)  page == First(rows, k) IN
       fwd' = [after |-> NextAfter(rows, page), got |-> fwd.got \cup page]
    /\ UNCHANGED <<open, msgs, next, gone, outbox, bucket, log, kind, back>>

(* list_messages.                                                              *)
Before(c, s) == {i \in Ids : msgs[i].chan = c /\ Alive(i) /\ (s # 0 => msgs[i].seq < s)}
Last(S) == {i \in S : Cardinality({j \in S : msgs[j].seq >= msgs[i].seq}) <= PageSize}

BackBegins(p, c) ==
  /\ kind = "back" /\ ~back.on /\ c \in open \ {"box"} /\ CanRead(p, c)
  /\ back' = [NoBack EXCEPT !.on = TRUE, !.chan = c, !.want = Before(c, 0)]
  /\ UNCHANGED <<open, msgs, next, gone, outbox, bucket, log, kind, fwd>>

(* Fault: the cursor is taken to be inclusive.                                 *)
NextBeforeIncl(page) == Min({msgs[i].seq : i \in page}) - 1

NextBefore(page) == Min({msgs[i].seq : i \in page})

ListBackward ==
  /\ back.on /\ ~back.done
  /\ LET page == Last(Before(back.chan, back.before))
         full == Cardinality(page) = PageSize IN
     back' = [back EXCEPT !.got = @ \cup page, !.done = ~full,
                          !.before = IF full THEN NextBefore(page) ELSE @]
  /\ UNCHANGED <<open, msgs, next, gone, outbox, bucket, log, kind, fwd>>
BackEnds ==
  /\ back.done /\ back' = NoBack
  /\ UNCHANGED <<open, msgs, next, gone, outbox, bucket, log, kind, fwd>>

-----------------------------------------------------------------------------
Init ==
  /\ open = {"box"} /\ msgs = <<>> /\ next = [c \in Channels |-> 1] /\ gone = {} /\ outbox = [i \in 1 .. MaxMsgs |-> 0]
  /\ bucket = [b \in Buckets |-> [age |-> Window, count |-> 0]] /\ log = [b \in Buckets |-> [i \in 1 .. MaxMsgs |-> Window]]
  /\ kind \in {"back", "board", "box", "time"} /\ fwd = [after |-> 0, got |-> {}] /\ back = NoBack

Next ==
  \/ Tick \/ ListBackward \/ BackEnds \/ ListForward
  \/ \E p \in Writers \cup {m}, c \in Channels : BackBegins(p, c)
  \/ \E p \in Writers :
       \/ \E i \in Ids : DeletePost(p, i)
       \/ \E c \in Channels : CreateChannel(p, c)
       \/ /\ Len(msgs) < MaxMsgs
          /\ \/ MailboxItem(p)
             \/ \E i \in {0} \cup Ids : BulletinPost(p, i)
             \/ \E c \in Channels, r, i \in {0} \cup Ids : CreateMessage(p, c, r, i)

Spec == Init /\ [][Next]_vars

-----------------------------------------------------------------------------
(* A thread lies in one channel, begins with a message that answers nothing,   *)
(* and every answer in it answers a message of the same thread, whichever of   *)
(* the two ways it was written (create_network_bulletin_post, create_message). *)
ThreadWhole ==
  \A i \in Ids : LET x == msgs[i] IN
    /\ x.root # 0 => msgs[x.root].chan = x.chan /\ msgs[x.root].root = 0
    /\ x.parent # 0 => x.root # 0 /\ (x.parent = x.root \/ msgs[x.parent].root = x.root)

(* A deleted post is announced exactly once, whoever else deletes it again     *)
(* (delete_network_bulletin_post).                                             *)
OneDeletion == \A i \in Ids : outbox[i] = IF i \in gone THEN 1 ELSE 0

(* In any stretch of a window's length a paired server writes at most twice    *)
(* the limit of a bucket (_charge_rate_bucket's windows do not slide).         *)
RateHeld == \A b \in Buckets : Cardinality({i \in 1 .. MaxMsgs : log[b][i] < Window}) <= 2 * Limit

(* A reader that follows next_after_sequence has been given every message      *)
(* behind its cursor that was not deleted (list_network_bulletin,              *)
(* list_network_mailbox).                                                      *)
ForwardWhole == \A i \in Ids : msgs[i].chan = kind /\ msgs[i].seq <= fwd.after /\ i \notin fwd.got => i \in gone

(* A reader that walks a channel back to its beginning has been given all that *)
(* stood there when it began and still stands (list_messages).                 *)
BackWhole == back.done => back.want \ gone \subseteq back.got

(* Threads, deletions, rates and pages of a channel stay consistent while     *)
(* posts are written and deleted (create_message,                             *)
(* delete_network_bulletin_post, list_messages).                              *)
BoardWhole ==
  /\ TypeOK
  /\ ThreadWhole
  /\ OneDeletion
  /\ RateHeld
  /\ ForwardWhole
  /\ BackWhole

=============================================================================
