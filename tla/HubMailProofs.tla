----------------------------- MODULE HubMailProofs -----------------------------
(***************************************************************************)
(* Proofs about the writes of the team network (HubMail), for any number of *)
(* requests and any bound on versions: a repeated or late request takes     *)
(* effect once, a client that pages through its inbox misses nothing, no    *)
(* update made on an older view overwrites a newer one.                     *)
(***************************************************************************)
EXTENDS HubMail, SequenceTheorems, FiniteSetTheorems, WellFoundedInduction, TLAPS

(* A nonempty set of naturals has a least element ... *)
LEMMA LeastExists ==
    ASSUME NEW T, T \subseteq Nat, T # {}
    PROVE  \E x \in T : \A y \in T : x <= y
<1>1. PICK x \in T : \A y \in T : ~ (<<y, x>> \in OpToRel(<, Nat))
  BY NatLessThanWellFounded, WFMin
<1>2. ASSUME NEW y \in T PROVE x <= y
  <2>1. <<y, x>> \notin {ss \in Nat \X Nat : ss[1] < ss[2]}
    BY <1>1 DEF OpToRel
  <2>2. x \in Nat /\ y \in Nat
    OBVIOUS
  <2>3. ~(y < x)
    BY <2>1, <2>2
  <2>4. QED
    BY <2>2, <2>3
<1>3. QED
  BY <1>2

(* ... and a bounded one a greatest. *)
LEMMA GreatestExists ==
    ASSUME NEW n \in Nat, NEW T, T \subseteq 0..n, T # {}
    PROVE  \E x \in T : \A y \in T : y <= x
<1> DEFINE U == {n - x : x \in T}
<1>1. U \subseteq Nat
  <2>1. \A x \in T : x \in 0..n
    OBVIOUS
  <2>2. \A x \in 0..n : n - x \in Nat
    OBVIOUS
  <2>3. QED
    BY <2>1, <2>2
<1>2. U # {}
  OBVIOUS
<1>3. PICK u \in U : \A y \in U : u <= y
  BY <1>1, <1>2, LeastExists
<1>4. PICK x \in T : u = n - x
  OBVIOUS
<1>5. \A y \in T : n - x <= n - y
  BY <1>3, <1>4
<1>6. ASSUME NEW y \in T PROVE y <= x
  <2>1. x \in 0..n /\ y \in 0..n
    OBVIOUS
  <2>2. QED
    BY <1>5, <2>1
<1>7. QED
  BY <1>6

Ops == {"send", "delete", "dismiss", "receipt", "mark", "revise", "publish", "pinned", "archived",
        "ask", "reply", "arrived"}
OnMessage == {"delete", "dismiss", "receipt", "mark", "revise"}

(* What a client can have written: an operation on something it has seen.   *)
WellFormed(r) ==
  /\ r.op \in Ops
  /\ r.op = "send" => r.arg \in {"inbox", "bulletin"}
  /\ r.op \in OnMessage => r.on \in DOMAIN msgs
  /\ r.op \in {"reply", "arrived"} => r.on \in DOMAIN asks
  /\ r.op \in {"receipt", "arrived"} => r.arg \in {"delivered", "read"}
  /\ r.op = "mark" => r.arg \in {"yes", "no"}

(* No two requests share a key. *)
KeysTrue ==
  /\ IsFiniteSet(wire) /\ Cardinality(wire) <= MaxRequests
  /\ \A r \in wire : r.key \in 1 .. Cardinality(wire)
  /\ \A r, q \in wire : r.key = q.key => r = q
  /\ ledger \subseteq {r.key : r \in wire}

WireTrue == \A r \in wire : WellFormed(r)

(* Who has the current version before her has the current value.             *)
SawRow(r, row, mine, theirs) ==
  /\ r.version \in Nat /\ r.version <= row.version
  /\ r.version = row.version => mine = theirs
SeenTrue ==
  \A r \in wire : /\ r.op = "mark" => SawRow(r, msgs[r.on], r.mark, msgs[r.on].unread)
                  /\ r.op = "revise" => SawRow(r, msgs[r.on], r.text, msgs[r.on].body)
                  /\ r.op = "publish" => SawRow(r, skill, r.text, skill.body)

RowsTrue ==
  /\ msgs \in Seq(MsgRow) /\ asks \in Seq(AskRow) /\ replies \in Seq([by : Nat, to : Nat])
  /\ dels \in Seq(DOMAIN msgs)
  /\ skill \in [version : 0 .. MaxVersion, body : Nat, pinned : BOOLEAN, archived : BOOLEAN]
  /\ reader \in [anchor : 0 .. Len(msgs), seen : SUBSET Nat, cursor : 0 .. Len(dels), gone : SUBSET Nat]

(* What a request has made is on the books, and nothing is made twice.       *)
Booked(seq) == \A i \in DOMAIN seq : seq[i].by \in ledger
OnceTrue ==
  /\ Booked(msgs) /\ Booked(asks) /\ Booked(replies)
  /\ OncePerEntry(msgs) /\ OncePerEntry(asks) /\ OncePerEntry(replies)
  /\ \A i, j \in DOMAIN dels : dels[i] = dels[j] => i = j

RepliesTrue ==
  /\ \A i \in DOMAIN replies : /\ replies[i].to \in DOMAIN asks
                               /\ asks[replies[i].to].status = "replied"
  /\ \A i, j \in DOMAIN replies : replies[i].to = replies[j].to => i = j
  /\ \A a \in DOMAIN asks : asks[a].status = "replied" => \E i \in DOMAIN replies : replies[i].to = a

MarksTrue ==
  /\ \A m \in DOMAIN msgs : msgs[m].unread = "no" => msgs[m].state = "read"
  /\ ~(skill.archived /\ skill.pinned)

(* The inductive invariant. *)
MailInv == RowsTrue /\ KeysTrue /\ WireTrue /\ SeenTrue /\ OnceTrue /\ RepliesTrue /\ NothingSkipped /\ MarksTrue

Bounds == MaxRequests \in Nat /\ MaxVersion \in Nat

-----------------------------------------------------------------------------
(* Operators and steps. *)

States == {"available", "delivered", "read"}

(* The states of a delivery are ranked. *)
LEMMA RankFacts ==
    /\ Rank("available") = 0 /\ Rank("delivered") = 1 /\ Rank("read") = 2
    /\ \A st \in States : Rank(st) \in 0 .. 2 /\ (Rank(st) = 2 => st = "read")
BY DEF Rank, States

(* What a handler may make of a message's row. *)
Follows(old, row) ==
  /\ row \in MsgRow
  /\ row.by = old.by /\ row.box = old.box /\ (old.dismissed => row.dismissed)
  /\ old.version <= row.version
  /\ row.version = old.version => row.unread = old.unread /\ row.body = old.body
  /\ row.unread = "no" => row.state = "read"
  /\ Rank(row.state) >= Rank(old.state)

(* A receipt takes a row's state forward or leaves it (Receipted).           *)
LEMMA ReceiptedFollows ==
    ASSUME Bounds, NEW m \in MsgRow, NEW st \in {"delivered", "read"},
           m.unread = "no" => m.state = "read"
    PROVE  Follows(m, Receipted(m, st))
<1> DEFINE new == IF Rank(st) > Rank(m.state) THEN st ELSE m.state
<1>1. m.state \in States /\ st \in States
  BY DEF MsgRow, States
<1>2. new \in States /\ Rank(new) >= Rank(m.state) /\ (m.state = "read" => new = "read")
  BY <1>1, RankFacts DEF States
<1> HIDE DEF new
<1>3. Receipted(m, st) = [m EXCEPT !.state = new]
  BY DEF Receipted, new
<1>4. /\ [m EXCEPT !.state = new] \in MsgRow
      /\ [m EXCEPT !.state = new].state = new
      /\ [m EXCEPT !.state = new].by = m.by /\ [m EXCEPT !.state = new].box = m.box
      /\ [m EXCEPT !.state = new].dismissed = m.dismissed /\ [m EXCEPT !.state = new].version = m.version
      /\ [m EXCEPT !.state = new].unread = m.unread /\ [m EXCEPT !.state = new].body = m.body
  BY <1>2 DEF MsgRow, States
<1>5. m.version \in Nat
  BY DEF MsgRow, Bounds
<1>6. QED
  BY <1>2, <1>3, <1>4, <1>5 DEF Follows

(* A mark raises the version, and marking read records the receipt (Marked). *)
LEMMA MarkedFollows ==
    ASSUME Bounds, NEW m \in MsgRow, NEW b \in {"yes", "no"}, m.version < MaxVersion
    PROVE  Follows(m, Marked(m, b))
<1>1. m.state \in States /\ m.version \in 0 .. MaxVersion
  BY DEF MsgRow, States
<1>2. Rank(IF b = "no" THEN "read" ELSE m.state) >= Rank(m.state)
  BY <1>1, RankFacts
<1>3. m.version + 1 \in 0 .. MaxVersion /\ m.version <= m.version + 1 /\ m.version + 1 # m.version
  BY <1>1 DEF Bounds
<1>4. Marked(m, b) \in MsgRow
  BY <1>1, <1>3 DEF MsgRow, Marked, States, Unset
<1>5. QED
  BY <1>2, <1>3, <1>4 DEF Follows, Marked

(* A dismissal changes nothing else (Dismissed). *)
LEMMA DismissedFollows ==
    ASSUME Bounds, NEW m \in MsgRow, m.unread = "no" => m.state = "read"
    PROVE  Follows(m, Dismissed(m))
<1>1. /\ Dismissed(m) \in MsgRow
      /\ Dismissed(m).dismissed = TRUE /\ Dismissed(m).state = m.state
      /\ Dismissed(m).by = m.by /\ Dismissed(m).box = m.box /\ Dismissed(m).version = m.version
      /\ Dismissed(m).unread = m.unread /\ Dismissed(m).body = m.body
  BY DEF MsgRow, Dismissed
<1>2. m.version \in Nat /\ m.state \in States
  BY DEF MsgRow, Bounds, States
<1>3. Rank(m.state) >= Rank(m.state)
  BY <1>2, RankFacts
<1>4. QED
  BY <1>1, <1>2, <1>3 DEF Follows

(* A revision raises the version with the text (Revised).                    *)
LEMMA RevisedFollows ==
    ASSUME Bounds, NEW m \in MsgRow, NEW k \in 1 .. MaxRequests, m.version < MaxVersion,
           m.unread = "no" => m.state = "read"
    PROVE  Follows(m, Revised(m, k))
<1>1. m.state \in States /\ m.version \in 0 .. MaxVersion
  BY DEF MsgRow, States
<1>2. Rank(m.state) >= Rank(m.state)
  BY <1>1, RankFacts
<1>3. m.version + 1 \in 0 .. MaxVersion /\ m.version <= m.version + 1 /\ m.version + 1 # m.version
  BY <1>1 DEF Bounds
<1>4. Revised(m, k) \in MsgRow
  BY <1>1, <1>3 DEF MsgRow, Revised, States
<1>5. QED
  BY <1>2, <1>3, <1>4 DEF Follows, Revised

-----------------------------------------------------------------------------
(* Every action keeps the invariant. *)

(* A handler that answers request r and changes the row of one message.      *)
LEMMA TouchKeeps ==
    ASSUME Bounds, MailInv, NEW r \in wire, NEW k \in DOMAIN msgs, NEW row,
           Follows(msgs[k], row), msgs' = [msgs EXCEPT ![k] = row],
           Commit(r), UNCHANGED <<wire, dels, skill, asks, replies, reader>>
    PROVE  MailInv' /\ \A m \in DOMAIN msgs : Rank(msgs'[m].state) >= Rank(msgs[m].state)
<1> USE DEF MailInv
<1>1. /\ row \in MsgRow /\ msgs \in Seq(MsgRow) /\ msgs' \in Seq(MsgRow)
      /\ Len(msgs') = Len(msgs) /\ DOMAIN msgs' = DOMAIN msgs /\ DOMAIN msgs = 1 .. Len(msgs)
      /\ msgs'[k] = row /\ \A m \in DOMAIN msgs : m # k => msgs'[m] = msgs[m]
  BY DEF RowsTrue, Follows
<1>2. ledger' = ledger \cup {r.key} /\ wire' = wire /\ dels' = dels /\ skill' = skill
      /\ asks' = asks /\ replies' = replies /\ reader' = reader
  BY DEF Commit
<1>3. \A m \in DOMAIN msgs : msgs[m] \in MsgRow
  BY <1>1
<1>4. \A m \in DOMAIN msgs : /\ msgs'[m].by = msgs[m].by /\ msgs'[m].box = msgs[m].box
                             /\ msgs[m].dismissed => msgs'[m].dismissed
                             /\ msgs[m].version <= msgs'[m].version
                             /\ msgs'[m].version = msgs[m].version =>
                                  msgs'[m].unread = msgs[m].unread /\ msgs'[m].body = msgs[m].body
                             /\ msgs[m].version \in Nat /\ msgs'[m].version \in Nat
  <2>1. msgs[k].version \in Nat /\ row.version \in Nat
    BY <1>1, <1>3 DEF MsgRow, Bounds
  <2>2. ASSUME NEW m \in DOMAIN msgs, m # k PROVE msgs'[m] = msgs[m] /\ msgs[m].version \in Nat
    BY <1>1, <1>3, <2>2 DEF MsgRow, Bounds
  <2>3. QED
    BY <1>1, <2>1, <2>2 DEF Follows
<1>5. \A m \in DOMAIN msgs : Rank(msgs'[m].state) >= Rank(msgs[m].state)
  <2>1. ASSUME NEW m \in DOMAIN msgs, m # k PROVE Rank(msgs'[m].state) >= Rank(msgs[m].state)
    <3>1. msgs[m].state \in States
      BY <1>3 DEF MsgRow, States
    <3>2. QED
      BY <1>1, <2>1, <3>1, RankFacts
  <2>2. QED
    BY <1>1, <2>1 DEF Follows
<1>6. RowsTrue'
  BY <1>1, <1>2 DEF RowsTrue
<1>7. KeysTrue'
  BY <1>2 DEF KeysTrue
<1>8. WireTrue'
  BY <1>1, <1>2 DEF WireTrue, WellFormed
<1>9. SeenTrue'
  <2>1. ASSUME NEW q \in wire PROVE q.op \in {"mark", "revise"} => q.on \in DOMAIN msgs
    BY DEF WireTrue, WellFormed, OnMessage
  <2>2. ASSUME NEW q \in wire, q.op = "mark" PROVE SawRow(q, msgs'[q.on], q.mark, msgs'[q.on].unread)
    <3>1. q.on \in DOMAIN msgs /\ SawRow(q, msgs[q.on], q.mark, msgs[q.on].unread)
      BY <2>1, <2>2 DEF SeenTrue
    <3>2. QED
      BY <3>1, <1>4 DEF SawRow
  <2>3. ASSUME NEW q \in wire, q.op = "revise" PROVE SawRow(q, msgs'[q.on], q.text, msgs'[q.on].body)
    <3>1. q.on \in DOMAIN msgs /\ SawRow(q, msgs[q.on], q.text, msgs[q.on].body)
      BY <2>1, <2>3 DEF SeenTrue
    <3>2. QED
      BY <3>1, <1>4 DEF SawRow
  <2>4. ASSUME NEW q \in wire, q.op = "publish" PROVE SawRow(q, skill', q.text, skill'.body)
    BY <1>2, <2>4 DEF SeenTrue
  <2>5. QED
    BY <1>2, <2>2, <2>3, <2>4 DEF SeenTrue
<1>10. OnceTrue'
  BY <1>1, <1>2, <1>4 DEF OnceTrue, Booked, OncePerEntry
<1>11. RepliesTrue'
  BY <1>2 DEF RepliesTrue
<1>12. NothingSkipped'
  <2>1. reader.anchor \in 0 .. Len(msgs)
    BY DEF RowsTrue
  <2>2. \A m \in 1 .. reader.anchor : m \in DOMAIN msgs
    BY <1>1, <2>1
  <2>3. \A m \in 1 .. reader.anchor : Visible(m)' => Visible(m)
    BY <1>2, <1>4, <2>2 DEF Visible, Mail, Deleted
  <2>4. QED
    BY <1>2, <2>3 DEF NothingSkipped
<1>13. MarksTrue'
  BY <1>1, <1>2 DEF MarksTrue, Follows
<1>14. QED
  BY <1>5, <1>6, <1>7, <1>8, <1>9, <1>10, <1>11, <1>12, <1>13

(* What every request on the wire has.                                       *)
LEMMA RequestFacts ==
    ASSUME Bounds, MailInv, NEW r \in wire
    PROVE  r.key \in 1 .. MaxRequests /\ r.key \in Nat /\ WellFormed(r)
<1>1. Cardinality(wire) \in Nat
  BY FS_CardinalityType DEF MailInv, KeysTrue
<1>2. QED
  BY <1>1 DEF MailInv, KeysTrue, WireTrue, Bounds

(* record_team_message_receipt *)
LEMMA ReceiptKeeps ==
    ASSUME Bounds, MailInv, NEW r \in wire, RecordReceipt(r)
    PROVE  MailInv' /\ \A m \in DOMAIN msgs : Rank(msgs'[m].state) >= Rank(msgs[m].state)
<1>1. r.on \in DOMAIN msgs /\ r.arg \in {"delivered", "read"}
  BY RequestFacts DEF RecordReceipt, WellFormed, OnMessage
<1>2. msgs[r.on] \in MsgRow /\ (msgs[r.on].unread = "no" => msgs[r.on].state = "read")
  BY <1>1 DEF MailInv, RowsTrue, MarksTrue
<1>3. Follows(msgs[r.on], Receipted(msgs[r.on], r.arg))
  BY <1>1, <1>2, ReceiptedFollows
<1>4. QED
  BY <1>1, <1>3, TouchKeeps DEF RecordReceipt

(* set_team_message_mailbox_state *)
LEMMA MailboxKeeps ==
    ASSUME Bounds, MailInv, NEW r \in wire, SetMailboxState(r)
    PROVE  MailInv' /\ \A m \in DOMAIN msgs : Rank(msgs'[m].state) >= Rank(msgs[m].state)
<1>1. r.on \in DOMAIN msgs /\ r.arg \in {"yes", "no"}
  BY RequestFacts DEF SetMailboxState, WellFormed, OnMessage
<1>2. msgs[r.on] \in MsgRow /\ msgs[r.on].version < MaxVersion
  BY <1>1 DEF MailInv, RowsTrue, SetMailboxState
<1>3. Follows(msgs[r.on], Marked(msgs[r.on], r.arg))
  BY <1>1, <1>2, MarkedFollows
<1>4. QED
  BY <1>1, <1>3, TouchKeeps DEF SetMailboxState

(* dismiss_team_message *)
LEMMA DismissKeeps ==
    ASSUME Bounds, MailInv, NEW r \in wire, DismissTeamMessage(r)
    PROVE  MailInv' /\ \A m \in DOMAIN msgs : Rank(msgs'[m].state) >= Rank(msgs[m].state)
<1>1. r.on \in DOMAIN msgs
  BY RequestFacts DEF DismissTeamMessage, WellFormed, OnMessage
<1>2. msgs[r.on] \in MsgRow /\ (msgs[r.on].unread = "no" => msgs[r.on].state = "read")
  BY <1>1 DEF MailInv, RowsTrue, MarksTrue
<1>3. Follows(msgs[r.on], Dismissed(msgs[r.on]))
  BY <1>1, <1>2, DismissedFollows
<1>4. QED
  BY <1>1, <1>3, TouchKeeps DEF DismissTeamMessage

(* revise_team_message *)
LEMMA ReviseKeeps ==
    ASSUME Bounds, MailInv, NEW r \in wire, ReviseTeamMessage(r)
    PROVE  MailInv' /\ \A m \in DOMAIN msgs : Rank(msgs'[m].state) >= Rank(msgs[m].state)
<1>1. r.on \in DOMAIN msgs /\ r.key \in 1 .. MaxRequests
  BY RequestFacts DEF ReviseTeamMessage, WellFormed, OnMessage
<1>2. /\ msgs[r.on] \in MsgRow /\ msgs[r.on].version < MaxVersion
      /\ msgs[r.on].unread = "no" => msgs[r.on].state = "read"
  BY <1>1 DEF MailInv, RowsTrue, MarksTrue, ReviseTeamMessage, Revisable
<1>3. Follows(msgs[r.on], Revised(msgs[r.on], r.key))
  BY <1>1, <1>2, RevisedFollows
<1>4. QED
  BY <1>1, <1>3, TouchKeeps DEF ReviseTeamMessage

(* create_team_message: the new message is behind every cursor.              *)
LEMMA SendKeeps ==
    ASSUME Bounds, MailInv, NEW r \in wire, CreateTeamMessage(r)
    PROVE  MailInv' /\ \A m \in DOMAIN msgs : msgs'[m] = msgs[m]
<1> DEFINE row == [by |-> r.key, box |-> r.arg, state |-> "available", unread |-> Unset,
                   version |-> 0, dismissed |-> FALSE, body |-> r.key]
<1> USE DEF MailInv
<1>1. r.key \in 1 .. MaxRequests /\ r.arg \in {"inbox", "bulletin"} /\ r.key \notin ledger
  BY RequestFacts DEF CreateTeamMessage, WellFormed, Fresh
<1>2. row \in MsgRow /\ row.by = r.key /\ row.unread # "no"
  BY <1>1 DEF MsgRow, Unset, Bounds
<1> HIDE DEF row
<1>3. /\ msgs' = Append(msgs, row) /\ msgs \in Seq(MsgRow)
      /\ ledger' = ledger \cup {r.key} /\ wire' = wire /\ dels' = dels /\ skill' = skill
      /\ asks' = asks /\ replies' = replies /\ reader' = reader
  BY DEF CreateTeamMessage, Commit, row, RowsTrue
<1>4. /\ msgs' \in Seq(MsgRow) /\ Len(msgs') = Len(msgs) + 1 /\ Len(msgs) \in Nat
      /\ DOMAIN msgs = 1 .. Len(msgs) /\ DOMAIN msgs' = 1 .. (Len(msgs) + 1)
      /\ \A m \in DOMAIN msgs : m \in DOMAIN msgs' /\ msgs'[m] = msgs[m]
      /\ msgs'[Len(msgs) + 1] = row
  BY <1>2, <1>3, AppendProperties
<1>5. RowsTrue'
  <2>1. dels' \in Seq(DOMAIN msgs')
    BY <1>3, <1>4, SeqMonotonic DEF RowsTrue
  <2>2. 0 .. Len(msgs) \subseteq 0 .. Len(msgs')
    BY <1>4
  <2>3. QED
    BY <1>3, <1>4, <2>1, <2>2 DEF RowsTrue
<1>6. KeysTrue'
  BY <1>3 DEF KeysTrue
<1>7. WireTrue'
  BY <1>3, <1>4 DEF WireTrue, WellFormed
<1>8. SeenTrue'
  BY <1>3, <1>4 DEF SeenTrue, WireTrue, WellFormed, OnMessage
<1>9. OnceTrue'
  <2>1. \A m \in DOMAIN msgs' : m \in DOMAIN msgs \/ m = Len(msgs) + 1
    BY <1>4
  <2>2. Booked(msgs)' /\ OncePerEntry(msgs)'
    BY <1>1, <1>2, <1>3, <1>4, <2>1 DEF OnceTrue, Booked, OncePerEntry
  <2>3. QED
    BY <1>3, <2>2 DEF OnceTrue, Booked, OncePerEntry
<1>10. RepliesTrue'
  BY <1>3 DEF RepliesTrue
<1>11. NothingSkipped'
  <2>1. \A m \in 1 .. reader.anchor : m \in DOMAIN msgs
    BY <1>4 DEF RowsTrue
  <2>2. \A m \in 1 .. reader.anchor : Visible(m)' => Visible(m)
    BY <1>3, <1>4, <2>1 DEF Visible, Mail, Deleted
  <2>3. QED
    BY <1>3, <2>2 DEF NothingSkipped
<1>12. MarksTrue'
  <2>1. \A m \in DOMAIN msgs' : m \in DOMAIN msgs \/ m = Len(msgs) + 1
    BY <1>4
  <2>2. QED
    BY <1>2, <1>3, <1>4, <2>1 DEF MarksTrue
<1>13. QED
  BY <1>4, <1>5, <1>6, <1>7, <1>8, <1>9, <1>10, <1>11, <1>12

(* delete_team_message: one entry in the ledger of deletions.                *)
LEMMA DeleteKeeps ==
    ASSUME Bounds, MailInv, NEW r \in wire, DeleteTeamMessage(r)
    PROVE  MailInv'
<1> USE DEF MailInv
<1>1. r.on \in DOMAIN msgs
  BY RequestFacts DEF DeleteTeamMessage, WellFormed, OnMessage
<1>2. /\ ledger' = ledger \cup {r.key} /\ wire' = wire /\ msgs' = msgs /\ skill' = skill
      /\ asks' = asks /\ replies' = replies /\ reader' = reader
      /\ dels \in Seq(DOMAIN msgs) /\ Len(dels) \in Nat /\ DOMAIN dels = 1 .. Len(dels)
  BY DEF DeleteTeamMessage, Commit, RowsTrue
<1>3. /\ dels' \in Seq(DOMAIN msgs) /\ Len(dels) <= Len(dels') /\ Len(dels') \in Nat
      /\ DOMAIN dels' = 1 .. Len(dels')
      /\ \A i \in DOMAIN dels : i \in DOMAIN dels' /\ dels'[i] = dels[i]
      /\ \A i, j \in DOMAIN dels' : dels'[i] = dels'[j] => i = j
  <2>1. CASE Deleted(r.on)
    <3>1. dels' = dels
      BY <2>1 DEF DeleteTeamMessage, Recorded
    <3>2. QED
      BY <1>2, <3>1 DEF OnceTrue
  <2>2. CASE ~Deleted(r.on)
    <3>1. dels' = Append(dels, r.on)
      BY <2>2 DEF DeleteTeamMessage, Recorded
    <3>2. /\ dels' \in Seq(DOMAIN msgs) /\ Len(dels') = Len(dels) + 1
          /\ \A i \in 1 .. Len(dels) : dels'[i] = dels[i]
          /\ dels'[Len(dels) + 1] = r.on
      BY <1>1, <1>2, <3>1, AppendProperties
    <3>3. DOMAIN dels' = 1 .. (Len(dels) + 1)
      BY <1>2, <3>2
    <3>4. \A i \in DOMAIN dels : dels[i] # r.on
      BY <2>2 DEF Deleted
    <3>5. \A i \in DOMAIN dels' : i \in DOMAIN dels \/ i = Len(dels) + 1
      BY <1>2, <3>3
    <3>6. QED
      BY <1>2, <3>2, <3>3, <3>4, <3>5 DEF OnceTrue
  <2>3. QED
    BY <2>1, <2>2
<1>4. RowsTrue'
  <2>1. 0 .. Len(dels) \subseteq 0 .. Len(dels')
    BY <1>2, <1>3
  <2>2. QED
    BY <1>2, <1>3, <2>1 DEF RowsTrue
<1>5. KeysTrue'
  BY <1>2 DEF KeysTrue
<1>6. WireTrue' /\ SeenTrue' /\ RepliesTrue' /\ MarksTrue'
  BY <1>2 DEF WireTrue, WellFormed, SeenTrue, RepliesTrue, MarksTrue
<1>7. OnceTrue'
  BY <1>2, <1>3 DEF OnceTrue, Booked, OncePerEntry
<1>8. NothingSkipped'
  <2>1. \A m \in 1 .. reader.anchor : Visible(m)' => Visible(m)
    BY <1>2, <1>3 DEF Visible, Mail, Deleted
  <2>2. \A i \in 1 .. reader.cursor : i \in DOMAIN dels
    BY <1>2 DEF RowsTrue
  <2>3. QED
    BY <1>2, <1>3, <2>1, <2>2 DEF NothingSkipped
<1>9. QED
  BY <1>4, <1>5, <1>6, <1>7, <1>8

(* A handler of the Skills library: mail and requests are left alone.         *)
LEMMA SkillKeeps ==
    ASSUME Bounds, MailInv, NEW r \in wire, PublishSkill(r) \/ SetSkillFlag(r)
    PROVE  MailInv'
<1> USE DEF MailInv
<1>1. r.key \in Nat
  BY RequestFacts
<1>2. /\ ledger' = ledger \cup {r.key} /\ wire' = wire /\ msgs' = msgs /\ dels' = dels
      /\ asks' = asks /\ replies' = replies /\ reader' = reader
  BY DEF PublishSkill, SetSkillFlag, Commit
<1>3. /\ skill' \in [version : 0 .. MaxVersion, body : Nat, pinned : BOOLEAN, archived : BOOLEAN]
      /\ ~(skill'.archived /\ skill'.pinned)
      /\ skill.version <= skill'.version /\ skill.version \in Nat /\ skill'.version \in Nat
      /\ skill'.version = skill.version => skill'.body = skill.body
  <2>1. /\ skill \in [version : 0 .. MaxVersion, body : Nat, pinned : BOOLEAN, archived : BOOLEAN]
        /\ ~(skill.archived /\ skill.pinned) /\ skill.version \in Nat
    BY DEF RowsTrue, MarksTrue, Bounds
  <2>2. CASE PublishSkill(r)
    <3>1. skill' = Published(skill, r.key) /\ skill.version < MaxVersion
      BY <2>2 DEF PublishSkill
    <3>2. skill.version + 1 \in 0 .. MaxVersion
      BY <2>1, <3>1 DEF Bounds
    <3>3. QED
      BY <1>1, <2>1, <3>1, <3>2 DEF Published
  <2>3. CASE SetSkillFlag(r)
    <3>1. /\ skill' = Flagged(skill, r.op, r.arg = "yes") /\ r.op \in {"pinned", "archived"}
          /\ r.op = "pinned" /\ r.arg = "yes" => ~skill.archived
      BY <2>3 DEF SetSkillFlag
    <3>2. /\ skill'.version = skill.version /\ skill'.body = skill.body
          /\ skill'.pinned = (IF r.op = "pinned" THEN r.arg = "yes" ELSE skill.pinned /\ ~(r.arg = "yes"))
          /\ skill'.archived = (IF r.op = "pinned" THEN skill.archived ELSE r.arg = "yes")
      BY <3>1, Zenon DEF Flagged
    <3>3. skill'.pinned \in BOOLEAN /\ skill'.archived \in BOOLEAN /\ skill.archived \in BOOLEAN
      BY <2>1, <3>2
    <3>4. ~(skill'.archived /\ skill'.pinned)
      BY <2>1, <3>1, <3>2, <3>3, Zenon
    <3>5. skill' = [version |-> skill'.version, body |-> skill'.body,
                    pinned |-> skill'.pinned, archived |-> skill'.archived]
      BY <3>1, Zenon DEF Flagged
    <3>6. skill' \in [version : 0 .. MaxVersion, body : Nat, pinned : BOOLEAN, archived : BOOLEAN]
      BY <2>1, <3>2, <3>3, <3>5
    <3>7. QED
      BY <2>1, <3>2, <3>4, <3>6
  <2>4. QED
    BY <2>2, <2>3
<1>4. RowsTrue' /\ KeysTrue' /\ WireTrue' /\ RepliesTrue'
  BY <1>2, <1>3 DEF RowsTrue, KeysTrue, WireTrue, WellFormed, RepliesTrue
<1>5. SeenTrue'
  BY <1>2, <1>3 DEF SeenTrue, SawRow
<1>6. OnceTrue'
  BY <1>2 DEF OnceTrue, Booked, OncePerEntry
<1>7. NothingSkipped'
  BY <1>2 DEF NothingSkipped, Visible, Mail, Deleted
<1>8. MarksTrue'
  BY <1>2, <1>3 DEF MarksTrue
<1>9. QED
  BY <1>4, <1>5, <1>6, <1>7, <1>8

(* create_network_request *)
LEMMA AskKeeps ==
    ASSUME Bounds, MailInv, NEW r \in wire, CreateNetworkRequest(r)
    PROVE  MailInv' /\ \A a \in DOMAIN asks : asks'[a] = asks[a]
<1> DEFINE row == [by |-> r.key, status |-> "open", expired |-> FALSE, delivery |-> "available"]
<1> USE DEF MailInv
<1>1. r.key \in 1 .. MaxRequests /\ r.key \notin ledger
  BY RequestFacts DEF CreateNetworkRequest, Fresh
<1>2. row \in AskRow /\ row.by = r.key /\ row.status # "replied"
  BY <1>1 DEF AskRow
<1> HIDE DEF row
<1>3. /\ asks' = Append(asks, row) /\ asks \in Seq(AskRow)
      /\ ledger' = ledger \cup {r.key} /\ wire' = wire /\ dels' = dels /\ skill' = skill
      /\ msgs' = msgs /\ replies' = replies /\ reader' = reader
  BY DEF CreateNetworkRequest, Commit, row, RowsTrue
<1>4. /\ asks' \in Seq(AskRow) /\ Len(asks) \in Nat
      /\ DOMAIN asks = 1 .. Len(asks) /\ DOMAIN asks' = 1 .. (Len(asks) + 1)
      /\ \A a \in DOMAIN asks : a \in DOMAIN asks' /\ asks'[a] = asks[a]
      /\ asks'[Len(asks) + 1] = row
  BY <1>2, <1>3, AppendProperties
<1>5. \A a \in DOMAIN asks' : a \in DOMAIN asks \/ a = Len(asks) + 1
  BY <1>4
<1>6. RowsTrue' /\ KeysTrue'
  BY <1>3, <1>4 DEF RowsTrue, KeysTrue
<1>7. WireTrue' /\ SeenTrue'
  BY <1>3, <1>4 DEF WireTrue, WellFormed, SeenTrue
<1>8. OnceTrue'
  <2>1. Booked(asks)' /\ OncePerEntry(asks)'
    BY <1>1, <1>2, <1>3, <1>4, <1>5 DEF OnceTrue, Booked, OncePerEntry
  <2>2. QED
    BY <1>3, <2>1 DEF OnceTrue, Booked, OncePerEntry
<1>9. RepliesTrue'
  BY <1>2, <1>3, <1>4, <1>5 DEF RepliesTrue
<1>10. NothingSkipped' /\ MarksTrue'
  BY <1>3 DEF NothingSkipped, Visible, Mail, Deleted, MarksTrue
<1>11. QED
  BY <1>4, <1>6, <1>7, <1>8, <1>9, <1>10

(* A step that changes one field of a request, not its status, and perhaps   *)
(* answers something on the wire (record_network_delivery_receipt and the    *)
(* passing of the deadline).                                                 *)
LEMMA AskFieldKeeps ==
    ASSUME Bounds, MailInv, NEW k \in DOMAIN asks, NEW row \in AskRow,
           row.by = asks[k].by, row.status = asks[k].status,
           asks' = [asks EXCEPT ![k] = row],
           ledger \subseteq ledger', ledger' \subseteq {q.key : q \in wire},
           UNCHANGED <<wire, msgs, dels, skill, replies, reader>>
    PROVE  MailInv'
<1> USE DEF MailInv
<1>1. /\ asks' \in Seq(AskRow) /\ DOMAIN asks' = DOMAIN asks
      /\ asks'[k] = row /\ \A a \in DOMAIN asks : a # k => asks'[a] = asks[a]
  BY DEF RowsTrue
<1>2. wire' = wire /\ msgs' = msgs /\ dels' = dels /\ skill' = skill /\ replies' = replies /\ reader' = reader
  OBVIOUS
<1>3. \A a \in DOMAIN asks : asks'[a].by = asks[a].by /\ asks'[a].status = asks[a].status
  BY <1>1
<1>4. RowsTrue' /\ KeysTrue'
  BY <1>1, <1>2 DEF RowsTrue, KeysTrue
<1>5. WireTrue' /\ SeenTrue'
  BY <1>1, <1>2 DEF WireTrue, WellFormed, SeenTrue
<1>6. OnceTrue'
  BY <1>1, <1>2, <1>3 DEF OnceTrue, Booked, OncePerEntry
<1>7. RepliesTrue'
  BY <1>1, <1>2, <1>3 DEF RepliesTrue
<1>8. NothingSkipped' /\ MarksTrue'
  BY <1>2 DEF NothingSkipped, Visible, Mail, Deleted, MarksTrue
<1>9. QED
  BY <1>4, <1>5, <1>6, <1>7, <1>8

(* record_network_delivery_receipt *)
LEMMA DeliveryKeeps ==
    ASSUME Bounds, MailInv, NEW r \in wire, RecordDelivery(r)
    PROVE  MailInv' /\ \A a \in DOMAIN asks : Rank(asks'[a].delivery) >= Rank(asks[a].delivery)
<1>1. r.on \in DOMAIN asks /\ r.arg \in {"delivered", "read"}
  BY RequestFacts DEF RecordDelivery, WellFormed
<1>2. asks \in Seq(AskRow) /\ \A a \in DOMAIN asks : asks[a] \in AskRow /\ asks[a].delivery \in States
  <2>1. asks \in Seq(AskRow)
    BY DEF MailInv, RowsTrue
  <2>2. \A a \in DOMAIN asks : asks[a] \in AskRow
    BY <2>1
  <2>3. \A x \in AskRow : x.delivery \in States
    BY DEF AskRow, States
  <2>4. QED
    BY <2>1, <2>2, <2>3
<1> DEFINE row == [asks[r.on] EXCEPT !.delivery = r.arg]
<1>3. /\ row \in AskRow /\ row.by = asks[r.on].by /\ row.status = asks[r.on].status
      /\ row.delivery = r.arg
  <2> DEFINE old == asks[r.on]
  <2>1. old \in AskRow
    BY <1>1, <1>2
  <2> HIDE DEF old
  <2>2. /\ [old EXCEPT !.delivery = r.arg] \in AskRow /\ [old EXCEPT !.delivery = r.arg].by = old.by
        /\ [old EXCEPT !.delivery = r.arg].status = old.status
        /\ [old EXCEPT !.delivery = r.arg].delivery = r.arg
    BY <1>1, <2>1 DEF AskRow
  <2>3. QED
    BY <2>2 DEF old
<1>4. asks' = [asks EXCEPT ![r.on] = row]
  BY DEF RecordDelivery
<1> HIDE DEF row
<1>5. ledger \subseteq ledger' /\ ledger' \subseteq {q.key : q \in wire}
  BY DEF RecordDelivery, Commit, MailInv, KeysTrue
<1>6. MailInv'
  BY <1>1, <1>3, <1>4, <1>5, AskFieldKeeps DEF RecordDelivery
<1>7. /\ asks'[r.on] = row /\ \A a \in DOMAIN asks : a # r.on => asks'[a] = asks[a]
  BY <1>1, <1>2, <1>4
<1>8. Rank(r.arg) = Rank(asks[r.on].delivery) + 1
  BY DEF RecordDelivery
<1>9. QED
  BY <1>1, <1>2, <1>3, <1>6, <1>7, <1>8, RankFacts

(* A passive request passes its deadline. *)
LEMMA ExpireKeeps ==
    ASSUME Bounds, MailInv, NEW k \in DOMAIN asks, ExpireRequest(k)
    PROVE  MailInv' /\ \A a \in DOMAIN asks : asks'[a].delivery = asks[a].delivery
<1>1. asks \in Seq(AskRow) /\ asks[k] \in AskRow
  BY DEF MailInv, RowsTrue
<1> DEFINE row == [asks[k] EXCEPT !.expired = TRUE]
<1>2. /\ row \in AskRow /\ row.by = asks[k].by /\ row.status = asks[k].status
      /\ row.delivery = asks[k].delivery
  <2> DEFINE old == asks[k]
  <2>1. old \in AskRow
    BY <1>1
  <2> HIDE DEF old
  <2>2. /\ [old EXCEPT !.expired = TRUE] \in AskRow /\ [old EXCEPT !.expired = TRUE].by = old.by
        /\ [old EXCEPT !.expired = TRUE].status = old.status
        /\ [old EXCEPT !.expired = TRUE].delivery = old.delivery
    BY <2>1 DEF AskRow
  <2>3. QED
    BY <2>2 DEF old
<1>3. asks' = [asks EXCEPT ![k] = row]
  BY DEF ExpireRequest
<1> HIDE DEF row
<1>4. ledger \subseteq ledger' /\ ledger' \subseteq {q.key : q \in wire}
  BY DEF ExpireRequest, MailInv, KeysTrue
<1>5. MailInv'
  BY <1>2, <1>3, <1>4, AskFieldKeeps DEF ExpireRequest
<1>6. asks'[k] = row /\ \A a \in DOMAIN asks : a # k => asks'[a] = asks[a]
  BY <1>1, <1>3
<1>7. QED
  BY <1>2, <1>5, <1>6

(* create_network_request_reply: one reply to an open request.               *)
LEMMA ReplyKeeps ==
    ASSUME Bounds, MailInv, NEW r \in wire, CreateReply(r)
    PROVE  MailInv' /\ \A a \in DOMAIN asks : asks'[a].delivery = asks[a].delivery
<1> USE DEF MailInv
<1>1. r.on \in DOMAIN asks /\ r.key \in Nat /\ r.key \notin ledger
  BY RequestFacts DEF CreateReply, WellFormed, Fresh
<1>2. asks \in Seq(AskRow) /\ asks[r.on] \in AskRow /\ asks[r.on].status = "open" /\ r.on \in Nat
  BY <1>1 DEF RowsTrue, CreateReply, Open
<1> DEFINE row == [asks[r.on] EXCEPT !.status = "replied"]
           entry == [by |-> r.key, to |-> r.on]
<1>3. /\ row \in AskRow /\ row.by = asks[r.on].by /\ row.delivery = asks[r.on].delivery
      /\ row.status = "replied"
  <2> DEFINE old == asks[r.on]
  <2>1. old \in AskRow
    BY <1>2
  <2> HIDE DEF old
  <2>2. /\ [old EXCEPT !.status = "replied"] \in AskRow /\ [old EXCEPT !.status = "replied"].by = old.by
        /\ [old EXCEPT !.status = "replied"].delivery = old.delivery
        /\ [old EXCEPT !.status = "replied"].status = "replied"
    BY <2>1 DEF AskRow
  <2>3. QED
    BY <2>2 DEF old
<1>4. entry \in [by : Nat, to : Nat] /\ entry.by = r.key /\ entry.to = r.on
  BY <1>1, <1>2
<1>5. /\ asks' = [asks EXCEPT ![r.on] = row] /\ replies' = Append(replies, entry)
      /\ replies \in Seq([by : Nat, to : Nat])
      /\ ledger' = ledger \cup {r.key} /\ wire' = wire /\ dels' = dels /\ skill' = skill
      /\ msgs' = msgs /\ reader' = reader
  BY DEF CreateReply, Commit, RowsTrue
<1> HIDE DEF row, entry
<1>6. /\ asks' \in Seq(AskRow) /\ DOMAIN asks' = DOMAIN asks /\ asks'[r.on] = row
      /\ \A a \in DOMAIN asks : a # r.on => asks'[a] = asks[a]
  BY <1>1, <1>2, <1>3, <1>5
<1>7. /\ replies' \in Seq([by : Nat, to : Nat]) /\ Len(replies) \in Nat
      /\ DOMAIN replies = 1 .. Len(replies) /\ DOMAIN replies' = 1 .. (Len(replies) + 1)
      /\ \A i \in DOMAIN replies : i \in DOMAIN replies' /\ replies'[i] = replies[i]
      /\ replies'[Len(replies) + 1] = entry
  BY <1>4, <1>5, AppendProperties
<1>8. \A i \in DOMAIN replies' : i \in DOMAIN replies \/ i = Len(replies) + 1
  BY <1>7
<1>9. \A i \in DOMAIN replies : replies[i].to # r.on
  BY <1>2 DEF RepliesTrue
<1>10. RowsTrue' /\ KeysTrue'
  BY <1>5, <1>6, <1>7 DEF RowsTrue, KeysTrue
<1>11. WireTrue' /\ SeenTrue'
  BY <1>5, <1>6 DEF WireTrue, WellFormed, SeenTrue
<1>12. OnceTrue'
  <2>1. \A a \in DOMAIN asks : asks'[a].by = asks[a].by
    BY <1>3, <1>6
  <2>2. Booked(asks)' /\ OncePerEntry(asks)'
    BY <1>5, <1>6, <2>1 DEF OnceTrue, Booked, OncePerEntry
  <2>3. Booked(replies)' /\ OncePerEntry(replies)'
    <3>1. \A i \in DOMAIN replies : replies'[i].by = replies[i].by /\ replies[i].by \in ledger
      BY <1>7 DEF OnceTrue, Booked
    <3>2. replies'[Len(replies) + 1].by = r.key
      BY <1>4, <1>7
    <3>3. Booked(replies)'
      BY <1>5, <1>8, <3>1, <3>2 DEF Booked
    <3>4. \A i, j \in DOMAIN replies : replies[i].by = replies[j].by => i = j
      BY DEF OnceTrue, OncePerEntry
    <3>5. OncePerEntry(replies)'
      BY <1>1, <1>8, <3>1, <3>2, <3>4 DEF OncePerEntry
    <3>6. QED
      BY <3>3, <3>5
  <2>4. QED
    BY <1>5, <2>2, <2>3 DEF OnceTrue, Booked, OncePerEntry
<1>13. RepliesTrue'
  <2>1. \A i \in DOMAIN replies' : replies'[i].to \in DOMAIN asks' /\ asks'[replies'[i].to].status = "replied"
    <3>1. ASSUME NEW i \in DOMAIN replies
          PROVE  replies'[i].to \in DOMAIN asks' /\ asks'[replies'[i].to].status = "replied"
      <4>1. replies[i].to \in DOMAIN asks /\ asks[replies[i].to].status = "replied"
        BY DEF RepliesTrue
      <4>2. replies'[i] = replies[i] /\ replies[i].to # r.on
        BY <1>7, <1>9
      <4>3. QED
        BY <1>6, <4>1, <4>2
    <3>2. replies'[Len(replies) + 1].to = r.on
      BY <1>4, <1>7
    <3>3. r.on \in DOMAIN asks' /\ asks'[r.on].status = "replied"
      BY <1>1, <1>3, <1>6
    <3>4. QED
      BY <1>8, <3>1, <3>2, <3>3
  <2>2. \A i, j \in DOMAIN replies' : replies'[i].to = replies'[j].to => i = j
    BY <1>4, <1>7, <1>8, <1>9 DEF RepliesTrue
  <2>3. ASSUME NEW a \in DOMAIN asks', asks'[a].status = "replied"
        PROVE  \E i \in DOMAIN replies' : replies'[i].to = a
    <3>1. CASE a = r.on
      BY <1>4, <1>7, <3>1
    <3>2. CASE a # r.on
      BY <1>6, <1>7, <2>3, <3>2 DEF RepliesTrue
    <3>3. QED
      BY <3>1, <3>2
  <2>4. QED
    BY <2>1, <2>2, <2>3 DEF RepliesTrue
<1>14. NothingSkipped' /\ MarksTrue'
  BY <1>5 DEF NothingSkipped, Visible, Mail, Deleted, MarksTrue
<1>15. \A a \in DOMAIN asks : asks'[a].delivery = asks[a].delivery
  BY <1>3, <1>6
<1>16. QED
  BY <1>10, <1>11, <1>12, <1>13, <1>14, <1>15

(* list_team_messages: the coverage that becomes the next cursor passes no   *)
(* message that the page left out.                                           *)
LEMMA ListKeeps ==
    ASSUME Bounds, MailInv, ListTeamMessages
    PROVE  MailInv'
<1> USE DEF MailInv
<1>1. PICK page \in SUBSET Behind :
        /\ \A m \in page : \A o \in Behind \ page : m < o
        /\ page = {} => Behind = {}
        /\ reader' = [anchor |-> Coverage(page), seen |-> reader.seen \cup page,
                      cursor |-> reader.cursor, gone |-> reader.gone]
  BY DEF ListTeamMessages
<1>2. /\ wire' = wire /\ ledger' = ledger /\ msgs' = msgs /\ dels' = dels /\ skill' = skill
      /\ asks' = asks /\ replies' = replies
  BY DEF ListTeamMessages
<1>3. /\ Len(msgs) \in Nat /\ DOMAIN msgs = 1 .. Len(msgs) /\ reader.anchor \in 0 .. Len(msgs)
      /\ reader.seen \subseteq Nat /\ reader.cursor \in 0 .. Len(dels) /\ reader.gone \subseteq Nat
  BY DEF RowsTrue
<1>4. page \subseteq 0 .. Len(msgs) /\ Arrivals \subseteq 0 .. Len(msgs)
  <2>1. \A m \in 1 .. Len(msgs) : m \in 0 .. Len(msgs)
    BY <1>3
  <2>2. page \subseteq DOMAIN msgs /\ Arrivals \subseteq DOMAIN msgs
    BY <1>1 DEF Behind, Arrivals
  <2>3. QED
    BY <1>3, <2>1, <2>2
<1>5. ASSUME NEW S, S \subseteq 0 .. Len(msgs), S # {}
      PROVE  MaxOf(S) \in S /\ \A x \in S : x <= MaxOf(S)
  <2>1. \E x \in S : \A y \in S : y <= x
    BY <1>3, <1>5, GreatestExists
  <2>2. QED
    BY <2>1 DEF MaxOf
<1>6. Coverage(page) \in 0 .. Len(msgs)
  <2>1. CASE page # Behind
    <3>1. page # {} /\ page \subseteq 0 .. Len(msgs)
      BY <1>1, <1>4, <2>1
    <3>2. Coverage(page) = MaxOf(page)
      BY <2>1 DEF Coverage
    <3>3. QED
      BY <1>5, <3>1, <3>2
  <2>2. CASE page = Behind
    <3> DEFINE S == Arrivals \cup {reader.anchor}
    <3>1. S # {} /\ S \subseteq 0 .. Len(msgs)
      BY <1>3, <1>4
    <3>2. Coverage(page) = MaxOf(S)
      BY <2>2 DEF Coverage
    <3> HIDE DEF S
    <3>3. QED
      BY <1>5, <3>1, <3>2
  <2>3. QED
    BY <2>1, <2>2
<1>7. ASSUME NEW m \in 1 .. Coverage(page), Visible(m) PROVE m \in reader.seen \cup page
  <2>1. m \in DOMAIN msgs /\ m \in Nat
    BY <1>3, <1>6
  <2>2. CASE m <= reader.anchor
    <3>1. m \in 1 .. reader.anchor
      BY <1>3, <2>1, <2>2
    <3>2. QED
      BY <1>7, <3>1 DEF NothingSkipped
  <2>3. CASE ~(m <= reader.anchor)
    <3>1. m \in Behind
      BY <1>3, <1>7, <2>1, <2>3 DEF Behind
    <3>2. CASE page = Behind
      BY <3>1, <3>2
    <3>3. CASE page # Behind
      <4>1. page # {} /\ page \subseteq 0 .. Len(msgs)
        BY <1>1, <1>4, <3>3
      <4>2. Coverage(page) = MaxOf(page)
        BY <3>3 DEF Coverage
      <4>3. MaxOf(page) \in page
        BY <1>5, <4>1
      <4>4. m \notin page => MaxOf(page) < m
        BY <1>1, <3>1, <4>3
      <4>5. m <= MaxOf(page) /\ MaxOf(page) \in Nat
        BY <1>6, <4>2
      <4>6. QED
        BY <2>1, <4>4, <4>5
    <3>4. QED
      BY <3>2, <3>3
  <2>4. QED
    BY <2>2, <2>3
<1>8. RowsTrue'
  <2>1. reader.seen \cup page \subseteq Nat
    <3>1. \A m \in 0 .. Len(msgs) : m \in Nat
      BY <1>3
    <3>2. QED
      BY <1>3, <1>4, <3>1
  <2>2. reader' \in [anchor : 0 .. Len(msgs), seen : SUBSET Nat, cursor : 0 .. Len(dels), gone : SUBSET Nat]
    BY <1>1, <1>3, <1>6, <2>1
  <2>3. QED
    BY <1>2, <2>2 DEF RowsTrue
<1>9. KeysTrue' /\ WireTrue' /\ SeenTrue' /\ OnceTrue' /\ RepliesTrue' /\ MarksTrue'
  BY <1>2 DEF KeysTrue, WireTrue, WellFormed, SeenTrue, OnceTrue, Booked, OncePerEntry, RepliesTrue, MarksTrue
<1>10. NothingSkipped'
  <2>1. reader'.anchor = Coverage(page) /\ reader'.seen = reader.seen \cup page
        /\ reader'.cursor = reader.cursor /\ reader'.gone = reader.gone
    BY <1>1
  <2>2. \A m : Visible(m)' <=> Visible(m)
    BY <1>2 DEF Visible, Mail, Deleted
  <2>3. QED
    BY <1>2, <1>7, <2>1, <2>2 DEF NothingSkipped
<1>11. QED
  BY <1>8, <1>9, <1>10

(* list_network_content_deletions: the client takes the deletions behind its *)
(* cursor in order.                                                          *)
LEMMA DeletionsKeep ==
    ASSUME Bounds, MailInv, ListDeletions
    PROVE  MailInv'
<1> USE DEF MailInv
<1>1. PICK to \in reader.cursor + 1 .. Len(dels) :
        reader' = [anchor |-> reader.anchor, seen |-> reader.seen, cursor |-> to,
                   gone |-> reader.gone \cup {dels[i] : i \in reader.cursor + 1 .. to}]
  BY DEF ListDeletions
<1>2. /\ wire' = wire /\ ledger' = ledger /\ msgs' = msgs /\ dels' = dels /\ skill' = skill
      /\ asks' = asks /\ replies' = replies
  BY DEF ListDeletions
<1>3. /\ Len(msgs) \in Nat /\ DOMAIN msgs = 1 .. Len(msgs) /\ reader.anchor \in 0 .. Len(msgs)
      /\ reader.seen \subseteq Nat /\ reader.cursor \in 0 .. Len(dels) /\ reader.gone \subseteq Nat
      /\ Len(dels) \in Nat /\ \A i \in 1 .. Len(dels) : dels[i] \in 1 .. Len(msgs)
  <2>1. msgs \in Seq(MsgRow) /\ dels \in Seq(DOMAIN msgs)
    BY DEF RowsTrue
  <2>2. Len(msgs) \in Nat /\ DOMAIN msgs = 1 .. Len(msgs) /\ Len(dels) \in Nat
    BY <2>1
  <2>3. \A i \in 1 .. Len(dels) : dels[i] \in 1 .. Len(msgs)
    BY <2>1, <2>2
  <2>4. QED
    BY <2>2, <2>3 DEF RowsTrue
<1> DEFINE more == {dels[i] : i \in reader.cursor + 1 .. to}
<1>4. to \in 0 .. Len(dels) /\ reader.gone \cup more \subseteq Nat
  BY <1>1, <1>3
<1>5. \A i \in 1 .. to : i \in 1 .. reader.cursor \/ dels[i] \in more
  BY <1>1, <1>3
<1>6. reader'.anchor = reader.anchor /\ reader'.seen = reader.seen
      /\ reader'.cursor = to /\ reader'.gone = reader.gone \cup more
  BY <1>1
<1>7. reader' \in [anchor : 0 .. Len(msgs), seen : SUBSET Nat, cursor : 0 .. Len(dels), gone : SUBSET Nat]
  BY <1>1, <1>3, <1>4
<1> HIDE DEF more
<1>8. RowsTrue'
  BY <1>2, <1>7 DEF RowsTrue
<1>9. KeysTrue' /\ WireTrue' /\ SeenTrue' /\ OnceTrue' /\ RepliesTrue' /\ MarksTrue'
  BY <1>2 DEF KeysTrue, WireTrue, WellFormed, SeenTrue, OnceTrue, Booked, OncePerEntry, RepliesTrue, MarksTrue
<1>10. NothingSkipped'
  <2>1. \A m : Visible(m)' <=> Visible(m)
    BY <1>2 DEF Visible, Mail, Deleted
  <2>2. QED
    BY <1>2, <1>5, <1>6, <2>1 DEF NothingSkipped
<1>11. QED
  BY <1>8, <1>9, <1>10

(* A client writes a request about what it sees: a new key, the current      *)
(* version and the current value.                                            *)
LEMMA WriteKeeps ==
    ASSUME Bounds, MailInv, NEW q, Write(q), q.key = Cardinality(wire) + 1, WellFormed(q),
           q.op = "mark" => SawRow(q, msgs[q.on], q.mark, msgs[q.on].unread),
           q.op = "revise" => SawRow(q, msgs[q.on], q.text, msgs[q.on].body),
           q.op = "publish" => SawRow(q, skill, q.text, skill.body)
    PROVE  MailInv'
<1> USE DEF MailInv
<1>1. /\ wire' = wire \cup {q} /\ Cardinality(wire) < MaxRequests
      /\ ledger' = ledger /\ msgs' = msgs /\ dels' = dels /\ skill' = skill
      /\ asks' = asks /\ replies' = replies /\ reader' = reader
  BY DEF Write
<1>2. Cardinality(wire) \in Nat /\ IsFiniteSet(wire)
  BY FS_CardinalityType DEF KeysTrue
<1>3. q \notin wire
  BY <1>2 DEF KeysTrue
<1>4. IsFiniteSet(wire') /\ Cardinality(wire') = Cardinality(wire) + 1
  BY <1>1, <1>2, <1>3, FS_AddElement
<1>5. KeysTrue'
  <2>1. \A r \in wire' : r.key \in 1 .. Cardinality(wire')
    BY <1>1, <1>2, <1>4 DEF KeysTrue
  <2>2. \A r \in wire : r.key # q.key
    BY <1>2 DEF KeysTrue
  <2>3. \A r, p \in wire' : r.key = p.key => r = p
    BY <1>1, <2>2 DEF KeysTrue
  <2>4. Cardinality(wire') <= MaxRequests
    BY <1>1, <1>2, <1>4 DEF Bounds
  <2>5. QED
    BY <1>1, <1>4, <2>1, <2>3, <2>4 DEF KeysTrue
<1>6. WireTrue'
  BY <1>1 DEF WireTrue, WellFormed
<1>7. SeenTrue'
  BY <1>1 DEF SeenTrue
<1>8. RowsTrue' /\ OnceTrue' /\ RepliesTrue' /\ MarksTrue' /\ NothingSkipped'
  BY <1>1 DEF RowsTrue, OnceTrue, Booked, OncePerEntry, RepliesTrue, MarksTrue,
              NothingSkipped, Visible, Mail, Deleted
<1>9. QED
  BY <1>5, <1>6, <1>7, <1>8

LEMMA ComposeKeeps ==
    ASSUME Bounds, MailInv, Compose
    PROVE  MailInv' /\ ledger' = ledger /\ msgs' = msgs /\ asks' = asks
<1>1. \A q : Write(q) => ledger' = ledger /\ msgs' = msgs /\ asks' = asks
  BY DEF Write
<1>2. /\ \A m \in DOMAIN msgs : msgs[m].version \in Nat
      /\ skill.version \in Nat
  <2>1. \A m \in DOMAIN msgs : msgs[m] \in MsgRow
    BY DEF MailInv, RowsTrue
  <2>2. \A x \in MsgRow : x.version \in Nat
    BY DEF MsgRow, Bounds
  <2>3. skill.version \in Nat
    BY DEF MailInv, RowsTrue, Bounds
  <2>4. QED
    BY <2>1, <2>2, <2>3
<1>3. ASSUME NEW op \in Ops \ {"mark", "revise", "publish"}, NEW on, NEW arg,
             WellFormed(Request(op, on, arg)), Write(Request(op, on, arg))
      PROVE  MailInv'
  <2> DEFINE q == Request(op, on, arg)
  <2>1. q.op = op /\ q.key = Cardinality(wire) + 1
    BY DEF Request, Carrying
  <2>2. WellFormed(q) /\ Write(q)
    BY <1>3
  <2> HIDE DEF q
  <2>3. QED
    BY <2>1, <2>2, WriteKeeps
<1>4. ASSUME NEW box \in {"inbox", "bulletin"}, Write(Request("send", 0, box)) PROVE MailInv'
  <2>1. WellFormed(Request("send", 0, box)) /\ "send" \in Ops \ {"mark", "revise", "publish"}
    BY DEF WellFormed, Request, Carrying, Ops, OnMessage
  <2>2. QED
    BY <1>3, <1>4, <2>1
<1>5. ASSUME NEW m \in DOMAIN msgs, NEW op \in {"delete", "dismiss"}, Write(Request(op, m, "none"))
      PROVE  MailInv'
  <2>1. WellFormed(Request(op, m, "none")) /\ op \in Ops \ {"mark", "revise", "publish"}
    BY DEF WellFormed, Request, Carrying, Ops, OnMessage
  <2>2. QED
    BY <1>3, <1>5, <2>1
<1>6. ASSUME NEW m \in DOMAIN msgs, NEW st \in {"delivered", "read"}, Write(Request("receipt", m, st))
      PROVE  MailInv'
  <2>1. WellFormed(Request("receipt", m, st)) /\ "receipt" \in Ops \ {"mark", "revise", "publish"}
    BY DEF WellFormed, Request, Carrying, Ops, OnMessage
  <2>2. QED
    BY <1>3, <1>6, <2>1
<1>7. ASSUME NEW m \in DOMAIN msgs, NEW b \in {"yes", "no"},
             Write(Carrying("mark", m, b, msgs[m].version, msgs[m].unread, 0))
      PROVE  MailInv'
  <2> DEFINE q == Carrying("mark", m, b, msgs[m].version, msgs[m].unread, 0)
  <2>1. /\ q.key = Cardinality(wire) + 1 /\ q.op = "mark" /\ q.on = m /\ q.arg = b
        /\ q.version = msgs[m].version /\ q.mark = msgs[m].unread
    BY DEF Carrying
  <2>2. Write(q)
    BY <1>7
  <2> HIDE DEF q
  <2>3. WellFormed(q)
    BY <2>1 DEF WellFormed, Ops, OnMessage
  <2>4. SawRow(q, msgs[q.on], q.mark, msgs[q.on].unread)
    BY <1>2, <2>1 DEF SawRow
  <2>5. QED
    BY <2>1, <2>2, <2>3, <2>4, WriteKeeps
<1>8. ASSUME NEW m \in DOMAIN msgs, Write(Having("revise", m, msgs[m])) PROVE MailInv'
  <2> DEFINE q == Having("revise", m, msgs[m])
  <2>1. /\ q.key = Cardinality(wire) + 1 /\ q.op = "revise" /\ q.on = m
        /\ q.version = msgs[m].version /\ q.text = msgs[m].body
    BY DEF Carrying, Having
  <2>2. Write(q)
    BY <1>8
  <2> HIDE DEF q
  <2>3. WellFormed(q)
    BY <2>1 DEF WellFormed, Ops, OnMessage
  <2>4. SawRow(q, msgs[q.on], q.text, msgs[q.on].body)
    BY <1>2, <2>1 DEF SawRow
  <2>5. QED
    BY <2>1, <2>2, <2>3, <2>4, WriteKeeps
<1>9. ASSUME Write(Having("publish", 0, skill)) PROVE MailInv'
  <2> DEFINE q == Having("publish", 0, skill)
  <2>1. /\ q.key = Cardinality(wire) + 1 /\ q.op = "publish"
        /\ q.version = skill.version /\ q.text = skill.body
    BY DEF Carrying, Having
  <2>2. Write(q)
    BY <1>9
  <2> HIDE DEF q
  <2>3. WellFormed(q)
    BY <2>1 DEF WellFormed, Ops, OnMessage
  <2>4. SawRow(q, skill, q.text, skill.body)
    BY <1>2, <2>1 DEF SawRow
  <2>5. QED
    BY <2>1, <2>2, <2>3, <2>4, WriteKeeps
<1>10. ASSUME NEW op \in {"pinned", "archived", "ask"}, NEW b, Write(Request(op, 0, b)) PROVE MailInv'
  <2>1. WellFormed(Request(op, 0, b)) /\ op \in Ops \ {"mark", "revise", "publish"}
    BY DEF WellFormed, Request, Carrying, Ops, OnMessage
  <2>2. QED
    BY <1>3, <1>10, <2>1
<1>11. ASSUME NEW a \in DOMAIN asks, Write(Request("reply", a, "none")) PROVE MailInv'
  <2>1. WellFormed(Request("reply", a, "none")) /\ "reply" \in Ops \ {"mark", "revise", "publish"}
    BY DEF WellFormed, Request, Carrying, Ops, OnMessage
  <2>2. QED
    BY <1>3, <1>11, <2>1
<1>12. ASSUME NEW a \in DOMAIN asks, NEW st \in {"delivered", "read"}, Write(Request("arrived", a, st))
       PROVE  MailInv'
  <2>1. WellFormed(Request("arrived", a, st)) /\ "arrived" \in Ops \ {"mark", "revise", "publish"}
    BY DEF WellFormed, Request, Carrying, Ops, OnMessage
  <2>2. QED
    BY <1>3, <1>12, <2>1
<1>13. QED
  BY <1>1, <1>4, <1>5, <1>6, <1>7, <1>8, <1>9, <1>10, <1>11, <1>12 DEF Compose

-----------------------------------------------------------------------------
(* The invariant and what follows from it. *)

LEMMA MailInvInit ==
    ASSUME Bounds, Init
    PROVE  MailInv
<1>1. /\ wire = {} /\ ledger = {} /\ msgs = <<>> /\ dels = <<>> /\ asks = <<>> /\ replies = <<>>
      /\ skill = [version |-> 0, body |-> 0, pinned |-> FALSE, archived |-> FALSE]
      /\ reader = [anchor |-> 0, seen |-> {}, cursor |-> 0, gone |-> {}]
  BY DEF Init
<1>2. IsFiniteSet(wire) /\ Cardinality(wire) = 0
  BY <1>1, FS_EmptySet
<1>3. RowsTrue
  BY <1>1 DEF RowsTrue, Bounds
<1>4. KeysTrue
  BY <1>1, <1>2 DEF KeysTrue, Bounds
<1>5. WireTrue /\ SeenTrue /\ RepliesTrue /\ MarksTrue
  BY <1>1 DEF WireTrue, SeenTrue, RepliesTrue, MarksTrue
<1>6. OnceTrue
  BY <1>1 DEF OnceTrue, Booked, OncePerEntry
<1>7. NothingSkipped
  BY <1>1 DEF NothingSkipped
<1>8. QED
  BY <1>3, <1>4, <1>5, <1>6, <1>7 DEF MailInv

(* What a step may do to deliveries, and what it may overwrite. *)
Forward ==
  /\ \A m \in DOMAIN msgs : Rank(msgs'[m].state) >= Rank(msgs[m].state)
  /\ \A a \in DOMAIN asks : Rank(asks'[a].delivery) >= Rank(asks[a].delivery)
Informed ==
  \A r \in wire : r.key \in ledger' \ ledger =>
        /\ r.op = "mark" => r.mark = msgs[r.on].unread
        /\ r.op = "revise" => r.text = msgs[r.on].body
        /\ r.op = "publish" => r.text = skill.body

(* What is left alone does not go back. *)
LEMMA UnmovedForward ==
    ASSUME Bounds, MailInv
    PROVE  /\ \A m \in DOMAIN msgs : Rank(msgs[m].state) >= Rank(msgs[m].state)
           /\ \A a \in DOMAIN asks : Rank(asks[a].delivery) >= Rank(asks[a].delivery)
<1>1. (\A m \in DOMAIN msgs : msgs[m] \in MsgRow) /\ (\A a \in DOMAIN asks : asks[a] \in AskRow)
  BY DEF MailInv, RowsTrue
<1>2. (\A x \in MsgRow : x.state \in States) /\ (\A x \in AskRow : x.delivery \in States)
  BY DEF MsgRow, AskRow, States
<1>3. \A st \in States : Rank(st) >= Rank(st)
  BY RankFacts
<1>4. QED
  BY <1>1, <1>2, <1>3

(* Who is answered with a change of a versioned value had that value.        *)
LEMMA HandleInformed ==
    ASSUME Bounds, MailInv, NEW q \in wire, Handle(q)
    PROVE  Informed
<1>1. ledger' = ledger \cup {q.key}
  BY DEF Handle, CreateTeamMessage, RecordReceipt, SetMailboxState, DismissTeamMessage, DeleteTeamMessage,
         ReviseTeamMessage, PublishSkill, SetSkillFlag, CreateNetworkRequest, CreateReply, RecordDelivery,
         Commit
<1>2. /\ q.op = "mark" => SetMailboxState(q)
      /\ q.op = "revise" => ReviseTeamMessage(q)
      /\ q.op = "publish" => PublishSkill(q)
  BY DEF Handle, CreateTeamMessage, RecordReceipt, SetMailboxState, DismissTeamMessage, DeleteTeamMessage,
         ReviseTeamMessage, PublishSkill, SetSkillFlag, CreateNetworkRequest, CreateReply, RecordDelivery
<1>3. /\ q.op = "mark" => q.mark = msgs[q.on].unread
      /\ q.op = "revise" => q.text = msgs[q.on].body
      /\ q.op = "publish" => q.text = skill.body
  BY <1>2 DEF MailInv, SeenTrue, SawRow, SetMailboxState, ReviseTeamMessage, PublishSkill, Current
<1>4. \A r \in wire : r.key \in ledger' \ ledger => r = q
  BY <1>1 DEF MailInv, KeysTrue
<1>5. QED
  BY <1>3, <1>4 DEF Informed

(* Every step keeps the invariant, moves deliveries forward and overwrites   *)
(* only what its author had seen.                                            *)
LEMMA StepKeeps ==
    ASSUME Bounds, MailInv, [Next]_vars
    PROVE  MailInv' /\ Forward /\ Informed
<1>1. CASE Compose
  <2>1. MailInv' /\ ledger' = ledger /\ msgs' = msgs /\ asks' = asks
    BY <1>1, ComposeKeeps
  <2>2. QED
    BY <2>1, UnmovedForward DEF Forward, Informed
<1>2. CASE ListTeamMessages
  <2>1. ledger' = ledger /\ msgs' = msgs /\ asks' = asks
    BY <1>2 DEF ListTeamMessages
  <2>2. QED
    BY <1>2, <2>1, ListKeeps, UnmovedForward DEF Forward, Informed
<1>3. CASE ListDeletions
  <2>1. ledger' = ledger /\ msgs' = msgs /\ asks' = asks
    BY <1>3 DEF ListDeletions
  <2>2. QED
    BY <1>3, <2>1, DeletionsKeep, UnmovedForward DEF Forward, Informed
<1>4. ASSUME NEW a \in DOMAIN asks, ExpireRequest(a) PROVE MailInv' /\ Forward /\ Informed
  <2>1. ledger' = ledger /\ msgs' = msgs
    BY <1>4 DEF ExpireRequest
  <2>2. QED
    BY <1>4, <2>1, ExpireKeeps, UnmovedForward DEF Forward, Informed
<1>5. ASSUME NEW r \in wire, Handle(r) PROVE MailInv' /\ Forward /\ Informed
  <2>1. Informed
    BY <1>5, HandleInformed
  <2>2. CASE CreateTeamMessage(r)
    <3>1. asks' = asks
      BY <2>2 DEF CreateTeamMessage
    <3>2. QED
      BY <2>1, <2>2, <3>1, SendKeeps, UnmovedForward DEF Forward
  <2>3. CASE RecordReceipt(r)
    <3>1. asks' = asks
      BY <2>3 DEF RecordReceipt
    <3>2. QED
      BY <2>1, <2>3, <3>1, ReceiptKeeps, UnmovedForward DEF Forward
  <2>4. CASE SetMailboxState(r)
    <3>1. asks' = asks
      BY <2>4 DEF SetMailboxState
    <3>2. QED
      BY <2>1, <2>4, <3>1, MailboxKeeps, UnmovedForward DEF Forward
  <2>5. CASE DismissTeamMessage(r)
    <3>1. asks' = asks
      BY <2>5 DEF DismissTeamMessage
    <3>2. QED
      BY <2>1, <2>5, <3>1, DismissKeeps, UnmovedForward DEF Forward
  <2>6. CASE DeleteTeamMessage(r)
    <3>1. asks' = asks /\ msgs' = msgs
      BY <2>6 DEF DeleteTeamMessage
    <3>2. QED
      BY <2>1, <2>6, <3>1, DeleteKeeps, UnmovedForward DEF Forward
  <2>7. CASE ReviseTeamMessage(r)
    <3>1. asks' = asks
      BY <2>7 DEF ReviseTeamMessage
    <3>2. QED
      BY <2>1, <2>7, <3>1, ReviseKeeps, UnmovedForward DEF Forward
  <2>8. CASE PublishSkill(r) \/ SetSkillFlag(r)
    <3>1. asks' = asks /\ msgs' = msgs
      BY <2>8 DEF PublishSkill, SetSkillFlag
    <3>2. QED
      BY <2>1, <2>8, <3>1, SkillKeeps, UnmovedForward DEF Forward
  <2>9. CASE CreateNetworkRequest(r)
    <3>1. msgs' = msgs
      BY <2>9 DEF CreateNetworkRequest
    <3>2. QED
      BY <2>1, <2>9, <3>1, AskKeeps, UnmovedForward DEF Forward
  <2>10. CASE CreateReply(r)
    <3>1. msgs' = msgs
      BY <2>10 DEF CreateReply
    <3>2. QED
      BY <2>1, <2>10, <3>1, ReplyKeeps, UnmovedForward DEF Forward
  <2>11. CASE RecordDelivery(r)
    <3>1. msgs' = msgs
      BY <2>11 DEF RecordDelivery
    <3>2. QED
      BY <2>1, <2>11, <3>1, DeliveryKeeps, UnmovedForward DEF Forward
  <2>12. QED
    BY <1>5, <2>2, <2>3, <2>4, <2>5, <2>6, <2>7, <2>8, <2>9, <2>10, <2>11 DEF Handle
<1>6. CASE UNCHANGED vars
  <2>1. /\ wire' = wire /\ ledger' = ledger /\ msgs' = msgs /\ dels' = dels /\ skill' = skill
        /\ asks' = asks /\ replies' = replies /\ reader' = reader
    BY <1>6 DEF vars
  <2>2. MailInv'
    BY <2>1 DEF MailInv, RowsTrue, KeysTrue, WireTrue, WellFormed, SeenTrue, OnceTrue, Booked, OncePerEntry,
                RepliesTrue, MarksTrue, NothingSkipped, Visible, Mail, Deleted
  <2>3. QED
    BY <2>1, <2>2, UnmovedForward DEF Forward, Informed
<1>7. QED
  BY <1>1, <1>2, <1>3, <1>4, <1>5, <1>6 DEF Next

(* The invariant counts the replies and relates marks and receipts as        *)
(* MailExact does.                                                           *)
LEMMA InvIsExact ==
    ASSUME Bounds, MailInv
    PROVE  MailExact
<1> USE DEF MailInv
<1>1. TypeOK
  BY DEF RowsTrue, KeysTrue, TypeOK
<1>2. OncePerKey
  <2>1. ASSUME NEW a \in DOMAIN asks
        PROVE  Cardinality({i \in DOMAIN replies : replies[i].to = a})
                 = IF asks[a].status = "replied" THEN 1 ELSE 0
    <3> DEFINE S == {i \in DOMAIN replies : replies[i].to = a}
    <3>1. CASE asks[a].status = "replied"
      <4>1. PICK i \in DOMAIN replies : replies[i].to = a
        BY <3>1 DEF RepliesTrue
      <4>2. S = {i}
        BY <4>1 DEF RepliesTrue
      <4>3. Cardinality(S) = 1
        BY <4>2, FS_Singleton
      <4>4. QED
        BY <3>1, <4>3
    <3>2. CASE asks[a].status # "replied"
      <4>1. S = {}
        BY <3>2 DEF RepliesTrue
      <4>2. Cardinality(S) = 0
        BY <4>1, FS_EmptySet
      <4>3. QED
        BY <3>2, <4>2
    <3>3. QED
      BY <3>1, <3>2
  <2>2. QED
    BY <2>1 DEF OncePerKey, OnceTrue
<1>3. ReadAgrees
  <2>1. \A m \in DOMAIN msgs : msgs[m].unread \in {"yes", "no", Unset}
    <3>1. \A m \in DOMAIN msgs : msgs[m] \in MsgRow
      BY DEF RowsTrue
    <3>2. \A x \in MsgRow : x.unread \in {"yes", "no", Unset}
      BY DEF MsgRow
    <3>3. QED
      BY <3>1, <3>2
  <2>2. QED
    BY <2>1 DEF ReadAgrees, MarksTrue, Unread, Unset
<1>4. QED
  BY <1>1, <1>2, <1>3 DEF MailExact

(* For any number of requests, however late and however often each arrives:  *)
(* it makes at most one message, request or reply, a client that follows the *)
(* coverage it was given has every message that still exists behind it, and  *)
(* what is marked as read has its receipt (_idempotency_lookup,              *)
(* list_team_messages, set_team_message_mailbox_state).                      *)
THEOREM MailIsExact ==
    ASSUME MaxRequests \in Nat, MaxVersion \in Nat
    PROVE  Spec => []MailExact
<1>1. Bounds
  BY DEF Bounds
<1>2. Init => MailInv
  BY <1>1, MailInvInit
<1>3. MailInv /\ [Next]_vars => MailInv'
  BY <1>1, StepKeeps
<1>4. MailInv => MailExact
  BY <1>1, InvIsExact
<1>5. QED
  BY <1>2, <1>3, <1>4, PTL DEF Spec

(* A mark, a revision and a new version of a skill replace exactly the value *)
(* that their author saw, and receipts in any order only move a delivery     *)
(* forward (set_team_message_mailbox_state, revise_team_message,             *)
(* record_team_message_receipt).                                             *)
THEOREM MarksOnlyForward ==
    ASSUME MaxRequests \in Nat, MaxVersion \in Nat
    PROVE  Spec => MarksForward
<1>1. Bounds
  BY DEF Bounds
<1>2. Init => MailInv
  BY <1>1, MailInvInit
<1>3. MailInv /\ [Next]_vars => MailInv' /\ [Forward]_vars /\ [Informed]_vars
  BY <1>1, StepKeeps
<1>4. Spec => [][Forward]_vars /\ [][Informed]_vars
  BY <1>2, <1>3, PTL DEF Spec
<1>5. QED
  BY <1>4 DEF MarksForward, NoLostUpdate, ReceiptsForward, Forward, Informed

=============================================================================
