-------------------------------- MODULE HubMail --------------------------------
(***************************************************************************)
(* The writes of the team network: server mail with its receipts and       *)
(* mailbox state, Bulletin posts and their revisions, deletions, the       *)
(* Skills library, and passive requests with their replies                 *)
(* (agentsdock_team_hub/store.py), as clients meet them: a request carries *)
(* an idempotency key and what its author had seen, and the network may    *)
(* deliver it late, twice or not at all. The reader is a client that pages *)
(* through one server's inbox and through the deletion ledger.             *)
(***************************************************************************)
EXTENDS Naturals, Sequences, FiniteSets

CONSTANTS
  MaxRequests,   \* bound on requests written
  MaxVersion     \* MAX_TEAM_MESSAGE_REVISIONS, and the bound on the other versions

VARIABLES
  wire,          \* requests written so far; any of them may (again) arrive
  ledger,        \* request_idempotency: the keys that have an answer
  msgs,          \* team_messages with the row of their one recipient
  dels,          \* network_content_deletions in sequence: message ordinals
  skill,         \* the one entry of team_skills
  asks,          \* network_passive_requests with their item's delivery
  replies,       \* network_mailbox_items of kind reply
  reader         \* cursors of a client and what it was given

vars == <<wire, ledger, msgs, dels, skill, asks, replies, reader>>

Rank(state) == CASE state = "available" -> 0 [] state = "delivered" -> 1 [] state = "read" -> 2
Unset == "unset"       \* inbox_unread IS NULL
Deleted(m) == \E i \in DOMAIN dels : dels[i] = m
Mail(m) == msgs[m].box = "inbox"

Unread(m) == IF msgs[m].unread = Unset THEN msgs[m].state # "read" ELSE msgs[m].unread = "yes"

-----------------------------------------------------------------------------
(* A client writes a request after it has looked at what it is about.          *)

Carrying(op, on, arg, version, mark, text) ==
  [key |-> Cardinality(wire) + 1, op |-> op, on |-> on, arg |-> arg,
   version |-> version, mark |-> mark, text |-> text]

Request(op, on, arg) == Carrying(op, on, arg, 0, "none", 0)

Write(r) ==
  /\ Cardinality(wire) < MaxRequests
  /\ wire' = wire \cup {r}
  /\ UNCHANGED <<ledger, msgs, dels, skill, asks, replies, reader>>

(* A request that changes a versioned value carries the version and the value  *)
(* that its author had before her.                                             *)
Having(op, on, row) == Carrying(op, on, "none", row.version, "none", row.body)

Compose ==
  \/ \E box \in {"inbox", "bulletin"} : Write(Request("send", 0, box))
  \/ \E m \in DOMAIN msgs :
       \/ Write(Request("delete", m, "none"))
       \/ Mail(m) /\ Write(Request("dismiss", m, "none"))
       \/ Mail(m) /\ \E st \in {"delivered", "read"} : Write(Request("receipt", m, st))
       \/ Mail(m) /\ \E b \in {"yes", "no"} :
             Write(Carrying("mark", m, b, msgs[m].version, msgs[m].unread, 0))
       \/ ~Mail(m) /\ Write(Having("revise", m, msgs[m]))
  \/ Write(Having("publish", 0, skill))
  \/ \E flag \in {"pinned", "archived"}, b \in {"yes", "no"} : Write(Request(flag, 0, b))
  \/ Write(Request("ask", 0, "none"))
  \/ \E a \in DOMAIN asks : \/ Write(Request("reply", a, "none"))
                            \/ \E st \in {"delivered", "read"} : Write(Request("arrived", a, st))

-----------------------------------------------------------------------------

(* A key that has an answer is answered from the ledger and changes nothing. *)
Fresh(r) == r.key \notin ledger

Commit(r) == ledger' = ledger \cup {r.key}

CreateTeamMessage(r) ==
  /\ r.op = "send" /\ Fresh(r) /\ Commit(r)
  /\ msgs' = Append(msgs, [by |-> r.key, box |-> r.arg, state |-> "available", unread |-> Unset,
                           version |-> 0, dismissed |-> FALSE, body |-> r.key])
  /\ UNCHANGED <<wire, dels, skill, asks, replies, reader>>

(* record_team_message_receipt: a receipt behind the recorded state is kept    *)
(* in the ledger and otherwise ignored.                                        *)
Receipted(m, st) == [m EXCEPT !.state = IF Rank(st) > Rank(m.state) THEN st ELSE m.state]

RecordReceipt(r) ==
  /\ r.op = "receipt" /\ ~Deleted(r.on) /\ Fresh(r) /\ Commit(r)
  /\ msgs' = [msgs EXCEPT ![r.on] = Receipted(@, r.arg)]
  /\ UNCHANGED <<wire, dels, skill, asks, replies, reader>>

(* Fault: the version is not compared. *)
CurrentAlways(m, r) == TRUE

(* set_team_message_mailbox_state: the version the client saw must be current; *)
(* marking read also records the receipt.                                      *)
Current(m, r) == m.version = r.version

Marked(m, b) ==
  [by |-> m.by, box |-> m.box, state |-> IF b = "no" THEN "read" ELSE m.state, unread |-> b,
   version |-> m.version + 1, dismissed |-> m.dismissed, body |-> m.body]

SetMailboxState(r) ==
  /\ r.op = "mark" /\ ~Deleted(r.on) /\ ~msgs[r.on].dismissed /\ Fresh(r)
  /\ Current(msgs[r.on], r) /\ msgs[r.on].version < MaxVersion
  /\ Commit(r)
  /\ msgs' = [msgs EXCEPT ![r.on] = Marked(@, r.arg)]
  /\ UNCHANGED <<wire, dels, skill, asks, replies, reader>>

Dismissed(m) == [m EXCEPT !.dismissed = TRUE]

DismissTeamMessage(r) ==
  /\ r.op = "dismiss" /\ Fresh(r) /\ Commit(r)
  /\ msgs' = [msgs EXCEPT ![r.on] = Dismissed(@)]
  /\ UNCHANGED <<wire, dels, skill, asks, replies, reader>>

(* delete_team_message: one entry in the ledger of deletions, however often. *)
Recorded(m) == IF Deleted(m) THEN dels ELSE Append(dels, m)

DeleteTeamMessage(r) ==
  /\ r.op = "delete" /\ Fresh(r) /\ Commit(r)
  /\ dels' = Recorded(r.on)
  /\ UNCHANGED <<wire, msgs, skill, asks, replies, reader>>

Revisable(m) == m.version < MaxVersion

Revised(m, text) ==
  [by |-> m.by, box |-> m.box, state |-> m.state, unread |-> m.unread,
   version |-> m.version + 1, dismissed |-> m.dismissed, body |-> text]

ReviseTeamMessage(r) ==
  /\ r.op = "revise" /\ Fresh(r) /\ ~Deleted(r.on)
  /\ Current(msgs[r.on], r) /\ Revisable(msgs[r.on])
  /\ Commit(r)
  /\ msgs' = [msgs EXCEPT ![r.on] = Revised(@, r.key)]
  /\ UNCHANGED <<wire, dels, skill, asks, replies, reader>>

(* create_team_message of kind skill: a first version, or the next of the one  *)
(* the author saw, and not of an archived skill.                               *)
Published(s, text) ==
  [version |-> s.version + 1, body |-> text, pinned |-> s.pinned, archived |-> s.archived]

PublishSkill(r) ==
  /\ r.op = "publish" /\ Fresh(r) /\ Current(skill, r) /\ ~skill.archived
  /\ skill.version < MaxVersion
  /\ Commit(r)
  /\ skill' = Published(skill, r.key)
  /\ UNCHANGED <<wire, msgs, dels, asks, replies, reader>>

(* _set_team_skill_flag: archiving unpins, and what is archived is not pinned. *)
Flagged(s, flag, b) ==
  [version |-> s.version, body |-> s.body,
   pinned |-> IF flag = "pinned" THEN b ELSE s.pinned /\ ~b,
   archived |-> IF flag = "pinned" THEN s.archived ELSE b]

SetSkillFlag(r) ==
  /\ r.op \in {"pinned", "archived"} /\ Fresh(r) /\ skill.version > 0
  /\ r.op = "pinned" /\ r.arg = "yes" => ~skill.archived
  /\ Commit(r)
  /\ skill' = Flagged(skill, r.op, r.arg = "yes")
  /\ UNCHANGED <<wire, msgs, dels, asks, replies, reader>>

-----------------------------------------------------------------------------
(* Passive requests. *)

CreateNetworkRequest(r) ==
  /\ r.op = "ask" /\ Fresh(r) /\ Commit(r)
  /\ asks' = Append(asks, [by |-> r.key, status |-> "open", expired |-> FALSE, delivery |-> "available"])
  /\ UNCHANGED <<wire, msgs, dels, skill, replies, reader>>

Open(a) == asks[a].status = "open" /\ ~asks[a].expired

CreateReply(r) ==
  /\ r.op = "reply" /\ Fresh(r) /\ Open(r.on) /\ Commit(r)
  /\ asks' = [asks EXCEPT ![r.on] = [@ EXCEPT !.status = "replied"]]
  /\ replies' = Append(replies, [by |-> r.key, to |-> r.on])
  /\ UNCHANGED <<wire, msgs, dels, skill, reader>>

(* record_network_delivery_receipt is strict: read only after delivered; what  *)
(* is recorded already is confirmed without an entry in the ledger.            *)
RecordDelivery(r) ==
  /\ r.op = "arrived" /\ Fresh(r)
  /\ Rank(r.arg) = Rank(asks[r.on].delivery) + 1
  /\ Commit(r)
  /\ asks' = [asks EXCEPT ![r.on] = [@ EXCEPT !.delivery = r.arg]]
  /\ UNCHANGED <<wire, msgs, dels, skill, replies, reader>>

ExpireRequest(a) ==
  /\ ~asks[a].expired /\ asks' = [asks EXCEPT ![a] = [@ EXCEPT !.expired = TRUE]]
  /\ UNCHANGED <<wire, ledger, msgs, dels, skill, replies, reader>>

-----------------------------------------------------------------------------
(* The reader. list_team_messages gives the inbox rows behind the cursor in    *)
(* order, at most a page of them (fewer when the answer grows too large); the  *)
(* coverage it may adopt as its next cursor is the last row given, or, when    *)
(* nothing is left out, the newest arrival.                                    *)

Visible(m) == Mail(m) /\ ~Deleted(m) /\ ~msgs[m].dismissed
Behind == {m \in DOMAIN msgs : Visible(m) /\ m > reader.anchor}
Arrivals == {m \in DOMAIN msgs : Mail(m)}
MaxOf(S) == CHOOSE x \in S : \A y \in S : y <= x

(* Fault: the newest arrival is taken for covered when the page was cut. *)
CoverageCut(page) == MaxOf(Arrivals \cup {reader.anchor})

Coverage(page) == IF page # Behind THEN MaxOf(page) ELSE MaxOf(Arrivals \cup {reader.anchor})

ListTeamMessages ==
  \E page \in SUBSET Behind :
    /\ \A m \in page : \A o \in Behind \ page : m < o
    /\ page = {} => Behind = {}
    /\ reader' = [anchor |-> Coverage(page), seen |-> reader.seen \cup page,
                   cursor |-> reader.cursor, gone |-> reader.gone]
    /\ reader' # reader
    /\ UNCHANGED <<wire, ledger, msgs, dels, skill, asks, replies>>

ListDeletions ==
  \E to \in reader.cursor + 1 .. Len(dels) :
    /\ reader' = [anchor |-> reader.anchor, seen |-> reader.seen, cursor |-> to,
                   gone |-> reader.gone \cup {dels[i] : i \in reader.cursor + 1 .. to}]
    /\ UNCHANGED <<wire, ledger, msgs, dels, skill, asks, replies>>

-----------------------------------------------------------------------------
Init ==
  /\ wire = {} /\ ledger = {} /\ msgs = <<>> /\ dels = <<>>
  /\ skill = [version |-> 0, body |-> 0, pinned |-> FALSE, archived |-> FALSE]
  /\ asks = <<>> /\ replies = <<>>
  /\ reader = [anchor |-> 0, seen |-> {}, cursor |-> 0, gone |-> {}]

Handle(r) ==
  \/ CreateTeamMessage(r) \/ RecordReceipt(r) \/ SetMailboxState(r) \/ DismissTeamMessage(r)
  \/ DeleteTeamMessage(r) \/ ReviseTeamMessage(r) \/ PublishSkill(r) \/ SetSkillFlag(r)
  \/ CreateNetworkRequest(r) \/ CreateReply(r) \/ RecordDelivery(r)

Next ==
  \/ Compose \/ ListTeamMessages \/ ListDeletions
  \/ \E r \in wire : Handle(r)
  \/ \E a \in DOMAIN asks : ExpireRequest(a)

Spec == Init /\ [][Next]_vars

-----------------------------------------------------------------------------
MsgRow == [by : 1 .. MaxRequests, box : {"inbox", "bulletin"}, version : 0 .. MaxVersion,
           state : {"available", "delivered", "read"}, unread : {"yes", "no", Unset},
           dismissed : BOOLEAN, body : 1 .. MaxRequests]
AskRow == [by : 1 .. MaxRequests, status : {"open", "replied"}, expired : BOOLEAN,
           delivery : {"available", "delivered", "read"}]

TypeOK ==
  /\ ledger \subseteq {r.key : r \in wire}
  /\ msgs \in Seq(MsgRow)
  /\ dels \in Seq(DOMAIN msgs) /\ reader.cursor \in 0 .. Len(dels) /\ reader.anchor \in 0 .. Len(msgs)
  /\ skill.version \in 0 .. MaxVersion
  /\ asks \in Seq(AskRow)

(* OncePerKey: however often a request arrives, it makes at most one message,   *)
(* one request or one reply, a message is deleted once, and a request has one   *)
(* reply exactly when it says so.                                               *)
OncePerEntry(seq) == \A i, j \in DOMAIN seq : seq[i].by = seq[j].by => i = j
OncePerKey ==
  /\ OncePerEntry(msgs) /\ OncePerEntry(asks) /\ OncePerEntry(replies)
  /\ \A i, j \in DOMAIN dels : dels[i] = dels[j] => i = j
  /\ \A a \in DOMAIN asks :
       Cardinality({i \in DOMAIN replies : replies[i].to = a}) = IF asks[a].status = "replied" THEN 1 ELSE 0

(* NothingSkipped: a client that follows its cursors was given every message    *)
(* behind them that still exists in the mailbox and every deletion, although    *)
(* messages come and go between two of its pages.                               *)
NothingSkipped ==
  /\ \A m \in 1 .. reader.anchor : Visible(m) => m \in reader.seen
  /\ \A i \in 1 .. reader.cursor : dels[i] \in reader.gone

(* ReadAgrees: a mailbox row marked as read has its read receipt, and a skill   *)
(* in the archive is not pinned.                                                *)
ReadAgrees ==
  /\ \A m \in DOMAIN msgs : Mail(m) /\ ~Unread(m) => msgs[m].state = "read"
  /\ ~(skill.archived /\ skill.pinned)

(* NoLostUpdate: whoever changes a mailbox mark, a Bulletin text or a skill had *)
(* seen exactly the value that the change replaces.                             *)
NoLostUpdate ==
  [][\A r \in wire : r.key \in ledger' \ ledger =>
        /\ r.op = "mark" => r.mark = msgs[r.on].unread
        /\ r.op = "revise" => r.text = msgs[r.on].body
        /\ r.op = "publish" => r.text = skill.body]_vars

(* ReceiptsForward: receipts that arrive out of order never take a delivery     *)
(* back.                                                                        *)
ReceiptsForward ==
  [][/\ \A m \in DOMAIN msgs : Rank(msgs'[m].state) >= Rank(msgs[m].state)
     /\ \A a \in DOMAIN asks : Rank(asks'[a].delivery) >= Rank(asks[a].delivery)]_vars

(* A request that is repeated takes effect once, a listing that is paged      *)
(* while mail comes and goes misses nothing, and what is read agrees with the *)
(* marks (_idempotency_lookup, list_team_messages).                           *)
MailExact ==
  /\ TypeOK
  /\ OncePerKey
  /\ NothingSkipped
  /\ ReadAgrees

(* No update made on an older view overwrites a newer one, and receipts only  *)
(* go forward (set_team_message_mailbox_state, record_team_message_receipt).  *)
MarksForward ==
  /\ NoLostUpdate
  /\ ReceiptsForward

================================================================================
