------------------------------ MODULE BoardProofs ------------------------------
(***************************************************************************)
(* That the channels of a team stay whole (HubChannels), for every number   *)
(* of messages, limit, window and page: threads, deletions, rate buckets    *)
(* and the pages of the two kinds of reader. The inductive invariant adds   *)
(* to what is claimed how the messages are numbered, which of the charged   *)
(* writes the present window has counted, and what a reader that is still   *)
(* walking back has yet to be given. That the directory of servers stays    *)
(* true (HubDirectory), for every number of servers and every lease. And    *)
(* that access to the hub stays sound (HubAccess), for any number of people *)
(* and of rows: there each table has one conjunct of the invariant.         *)
(***************************************************************************)
EXTENDS HubTeam, SequenceTheorems, FiniteSetTheorems, WellFoundedInduction, TLAPS

(* What the messages are: their numbers in a channel increase with the order   *)
(* in which they were written, and are below the channel's next one.           *)
Message == [chan : Chan!Channels, seq : Nat, by : Chan!Writers, root : Nat, parent : Nat]

MessagesTyped ==
  /\ posts \in Seq(Message) /\ Len(posts) <= MaxMsgs
  /\ open \subseteq Chan!Channels /\ gone \subseteq 1 .. Len(posts)

Numbered ==
  /\ next \in [Chan!Channels -> Nat]
  /\ \A c \in Chan!Channels : 1 <= next[c] /\ next[c] <= Len(posts) + 1
  /\ \A i \in 1 .. Len(posts) : 1 <= posts[i].seq /\ posts[i].seq < next[posts[i].chan]
  /\ \A i, j \in 1 .. Len(posts) : i < j /\ posts[i].chan = posts[j].chan => posts[i].seq < posts[j].seq

(* A thread leads to earlier messages.                                         *)
Threads ==
  \A i \in 1 .. Len(posts) :
    /\ posts[i].root < i /\ posts[i].parent < i
    /\ posts[i].root # 0 => posts[posts[i].root].chan = posts[i].chan /\ posts[posts[i].root].root = 0
    /\ posts[i].parent # 0 => posts[i].root # 0
    /\ posts[i].parent # 0 => posts[i].parent = posts[i].root \/ posts[posts[i].parent].root = posts[i].root

Deletions ==
  /\ outbox \in [1 .. MaxMsgs -> Nat]
  /\ \A i \in 1 .. MaxMsgs : outbox[i] = IF i \in gone THEN 1 ELSE 0

(* The writes of the last Window that a bucket's present window has counted,   *)
(* and those of the one before.                                                *)
Recent(b) == {i \in 1 .. MaxMsgs : log[b][i] < Window /\ log[b][i] <= bucket[b].age}
Earlier(b) == {i \in 1 .. MaxMsgs : log[b][i] < Window /\ bucket[b].age < log[b][i]}

RatesTyped ==
  /\ bucket \in [Chan!Buckets -> [age : 0 .. Window, count : Nat]]
  /\ log \in [Chan!Buckets -> [1 .. MaxMsgs -> 0 .. Window]]
  /\ \A b \in Chan!Buckets, i \in 1 .. MaxMsgs : log[b][i] < Window => i <= Len(posts)

Rates ==
  \A b \in Chan!Buckets :
    /\ Cardinality(Recent(b)) <= bucket[b].count
    /\ Cardinality(Earlier(b)) <= Limit
    /\ bucket[b].count <= Limit
    /\ bucket[b].age = Window => \A i \in 1 .. MaxMsgs : log[b][i] # 0

Forward ==
  /\ kind \in {"back", "board", "box", "time"}
  /\ fwd \in [after : Nat, got : SUBSET (1 .. Len(posts))] /\ fwd.after <= MaxMsgs
  /\ kind \in {"board", "box"} => fwd.after < next[kind]
  /\ \A i \in 1 .. Len(posts) : posts[i].chan = kind /\ posts[i].seq <= fwd.after /\ i \notin fwd.got => i \in gone

Backward ==
  /\ back \in [on : BOOLEAN, chan : Chan!Channels, before : Nat, got : SUBSET (1 .. Len(posts)), want : SUBSET (1 .. Len(posts)), done : BOOLEAN]
  /\ \A i \in back.want : posts[i].chan = back.chan
  /\ \A i \in back.want : i \in gone \/ i \in back.got \/ (~back.done /\ (back.before = 0 \/ posts[i].seq < back.before))

BoardInv ==
  /\ MessagesTyped
  /\ Numbered
  /\ Threads
  /\ Deletions
  /\ RatesTyped
  /\ Rates
  /\ Forward
  /\ Backward

-----------------------------------------------------------------------------
(* A set of naturals that is not empty has a least element ... *)
LEMMA LeastExists ==
    ASSUME NEW T, T \subseteq Nat, T # {}
    PROVE  \E x \in T : \A y \in T : x <= y
<1>1. PICK x \in T : \A y \in T : ~ (<<y, x>> \in OpToRel(<, Nat))
  BY NatLessThanWellFounded, WFMin
<1>2. ASSUME NEW y \in T PROVE x <= y
  <2>1. <<y, x>> \notin {ss \in Nat \X Nat : ss[1] < ss[2]}
    BY <1>1 DEF OpToRel
  <2>2. x \in Nat /\ y \in Nat
    OBVIOUS
  <2>3. ~(y < x)
    BY <2>1, <2>2
  <2>4. QED
    BY <2>2, <2>3
<1>3. QED
  BY <1>2

(* ... and a bounded one a greatest. *)
LEMMA GreatestExists ==
    ASSUME NEW n \in Nat, NEW T, T \subseteq 0..n, T # {}
    PROVE  \E x \in T : \A y \in T : y <= x
<1> DEFINE U == {n - x : x \in T}
<1>1. U \subseteq Nat
  <2>1. \A x \in T : x \in 0..n
    OBVIOUS
  <2>2. \A x \in 0..n : n - x \in Nat
    OBVIOUS
  <2>3. QED
    BY <2>1, <2>2
<1>2. U # {}
  OBVIOUS
<1>3. PICK u \in U : \A y \in U : u <= y
  BY <1>1, <1>2, LeastExists
<1>4. PICK x \in T : u = n - x
  OBVIOUS
<1>5. \A y \in T : n - x <= n - y
  BY <1>3, <1>4
<1>6. ASSUME NEW y \in T PROVE y <= x
  <2>1. x \in 0..n /\ y \in 0..n
    OBVIOUS
  <2>2. QED
    BY <1>5, <2>1
<1>7. QED
  BY <1>6

-----------------------------------------------------------------------------
(* What typing says of one message. *)
LEMMA MessageFacts ==
  ASSUME MessagesTyped, NEW i \in 1 .. Len(posts)
  PROVE  /\ posts[i] \in Message /\ posts[i].chan \in Chan!Channels /\ posts[i].seq \in Nat
         /\ posts[i].by \in Chan!Writers /\ posts[i].root \in Nat /\ posts[i].parent \in Nat
<1>1. posts[i] \in Message
  BY DEF MessagesTyped
<1>2. QED
  BY <1>1 DEF Message

LEMMA IdsAre ==
  ASSUME MessagesTyped
  PROVE  Chan!Ids = 1 .. Len(posts) /\ Len(posts) \in Nat
BY DEF MessagesTyped, Chan!Ids

(* Two messages of a channel have different numbers. *)
LEMMA NumbersDiffer ==
  ASSUME MessagesTyped, Numbered, NEW i \in 1 .. Len(posts), NEW j \in 1 .. Len(posts),
         posts[i].chan = posts[j].chan, posts[i].seq = posts[j].seq
  PROVE  i = j
<1>1. Len(posts) \in Nat /\ posts[i].seq \in Nat /\ posts[j].seq \in Nat
  BY MessageFacts DEF MessagesTyped
<1>2. ~(i < j) /\ ~(j < i)
  BY <1>1 DEF Numbered
<1>3. QED
  BY <1>1, <1>2

(* The numbers of messages are within the bound. *)
LEMMA NumbersBounded ==
  ASSUME Chan!Bounds, MessagesTyped, Numbered, NEW i \in 1 .. Len(posts)
  PROVE  posts[i].seq \in 1 .. MaxMsgs
<1>1. Len(posts) \in Nat /\ MaxMsgs \in Nat /\ Len(posts) <= MaxMsgs
  BY DEF MessagesTyped, Chan!Bounds
<1>2. posts[i].seq \in Nat /\ posts[i].chan \in Chan!Channels
  BY MessageFacts
<1>3. /\ next[posts[i].chan] \in Nat /\ next[posts[i].chan] <= Len(posts) + 1
      /\ 1 <= posts[i].seq /\ posts[i].seq < next[posts[i].chan]
  BY <1>2 DEF Numbered
<1>4. QED
  BY <1>1, <1>2, <1>3

-----------------------------------------------------------------------------
(* The cardinality in HubChannels is the one of FiniteSets.                    *)
LEMMA SameCard == ASSUME NEW S PROVE Chan!Cardinality(S) = Cardinality(S)
  BY DEF Chan!Cardinality, Cardinality

(* The claim follows from the invariant. *)
LEMMA RatesBound ==
  ASSUME Chan!Bounds, RatesTyped, Rates
  PROVE  Chan!RateHeld
<1> SUFFICES ASSUME NEW b \in Chan!Buckets
             PROVE  Cardinality({i \in 1 .. MaxMsgs : log[b][i] < Window}) <= 2 * Limit
  BY SameCard DEF Chan!RateHeld
<1> DEFINE All == {i \in 1 .. MaxMsgs : log[b][i] < Window}
<1>1. /\ MaxMsgs \in Nat /\ Limit \in Nat /\ Window \in Nat /\ bucket[b].age \in Nat /\ bucket[b].count \in Nat
      /\ \A i \in 1 .. MaxMsgs : log[b][i] \in Nat
  BY DEF Chan!Bounds, RatesTyped
<1>2. IsFiniteSet(1 .. MaxMsgs)
  <2>1. MaxMsgs \in Int /\ 1 \in Int
    BY <1>1
  <2>2. QED
    BY <2>1, FS_Interval, Zenon
<1>3. Recent(b) \subseteq 1 .. MaxMsgs /\ Earlier(b) \subseteq 1 .. MaxMsgs
  BY DEF Recent, Earlier
<1>4. /\ IsFiniteSet(Recent(b)) /\ IsFiniteSet(Earlier(b))
      /\ Cardinality(Recent(b)) \in Nat /\ Cardinality(Earlier(b)) \in Nat
  BY <1>2, <1>3, FS_Subset, FS_CardinalityType
<1>5. All = Recent(b) \cup Earlier(b)
  BY <1>1 DEF Recent, Earlier
<1> HIDE DEF All
<1>6. Recent(b) \cap Earlier(b) = {}
  BY <1>1 DEF Recent, Earlier
<1>7. Cardinality(All) = Cardinality(Recent(b)) + Cardinality(Earlier(b))
  <2>1. Cardinality(Recent(b) \cap Earlier(b)) = 0
    BY <1>6, FS_EmptySet
  <2>2. Cardinality(All) = Cardinality(Recent(b)) + Cardinality(Earlier(b)) - Cardinality(Recent(b) \cap Earlier(b))
    BY <1>4, <1>5, FS_Union
  <2>3. QED
    BY <1>4, <2>1, <2>2
<1>8. Cardinality(Recent(b)) <= bucket[b].count /\ bucket[b].count <= Limit /\ Cardinality(Earlier(b)) <= Limit
  BY DEF Rates
<1>9. Cardinality(All) <= 2 * Limit
  BY <1>1, <1>4, <1>7, <1>8
<1>10. QED
  BY <1>9 DEF All

LEMMA InvariantSuffices ==
  ASSUME Chan!Bounds, BoardInv
  PROVE  BoardWhole
<1>0. MessagesTyped /\ Numbered /\ Threads /\ Deletions /\ RatesTyped /\ Rates /\ Forward /\ Backward
  BY DEF BoardInv
<1>1. Chan!Ids = 1 .. Len(posts) /\ Len(posts) \in Nat /\ Len(posts) <= MaxMsgs /\ MaxMsgs \in Nat
  BY <1>0, IdsAre DEF MessagesTyped, Chan!Bounds
<1>2. ASSUME NEW i \in Chan!Ids
      PROVE  posts[i] \in [chan : Chan!Channels, seq : 1 .. MaxMsgs, by : Chan!Writers, root : 0 .. i - 1, parent : 0 .. i - 1]
  <2>1. posts[i] \in Message /\ posts[i].root \in Nat /\ posts[i].parent \in Nat
    BY <1>0, <1>1, MessageFacts
  <2>2. posts[i].seq \in 1 .. MaxMsgs
    BY <1>0, <1>1, NumbersBounded
  <2>3. posts[i].root \in 0 .. i - 1 /\ posts[i].parent \in 0 .. i - 1
    <3>1. posts[i].root < i /\ posts[i].parent < i
      BY <1>0, <1>1 DEF Threads
    <3>2. QED
      BY <1>1, <2>1, <3>1
  <2>4. QED
    BY <2>1, <2>2, <2>3 DEF Message
<1>3. next \in [Chan!Channels -> 1 .. MaxMsgs + 1]
  <2>1. \A c \in Chan!Channels : next[c] \in 1 .. MaxMsgs + 1
    BY <1>0, <1>1 DEF Numbered
  <2>2. QED
    BY <1>0, <2>1 DEF Numbered
<1>4. kind \in {"back", "board", "box", "time"} /\ fwd \in [after : 0 .. MaxMsgs, got : SUBSET Chan!Ids]
  BY <1>0, <1>1 DEF Forward
<1>5. back.chan \in Chan!Channels /\ back.got \subseteq Chan!Ids /\ back.want \subseteq Chan!Ids /\ back.done \in BOOLEAN
  BY <1>0, <1>1 DEF Backward
<1>6. Chan!TypeOK
  BY <1>0, <1>1, <1>2, <1>3, <1>4, <1>5 DEF Chan!TypeOK, MessagesTyped, RatesTyped
<1>7. Chan!ThreadWhole
  BY <1>0, <1>1 DEF Chan!ThreadWhole, Threads
<1>8. Chan!OneDeletion
  <2>1. \A i \in Chan!Ids : i \in 1 .. MaxMsgs
    BY <1>1
  <2>2. QED
    BY <1>0, <2>1 DEF Chan!OneDeletion, Deletions
<1>9. Chan!ForwardWhole
  BY <1>0, <1>1 DEF Chan!ForwardWhole, Forward
<1>10. Chan!BackWhole
  BY <1>0, <1>5 DEF Chan!BackWhole, Backward
<1>11. Chan!RateHeld
  BY <1>0, RatesBound
<1>12. QED
  BY <1>6, <1>7, <1>8, <1>9, <1>10, <1>11 DEF BoardWhole, Chan!BoardWhole

-----------------------------------------------------------------------------
(* The initial state. *)
LEMMA BoardInitially ==
  ASSUME Chan!Bounds, Chan!Init
  PROVE  BoardInv
<1>1. MaxMsgs \in Nat /\ Limit \in Nat /\ Window \in Nat \ {0}
  BY DEF Chan!Bounds
<1>2. Len(posts) = 0 /\ posts = <<>> /\ gone = {} /\ 1 .. Len(posts) = {}
  BY DEF Chan!Init
<1>3. MessagesTyped
  BY <1>1, <1>2 DEF Chan!Init, MessagesTyped, Chan!Channels
<1>4. Numbered
  BY <1>2 DEF Chan!Init, Numbered
<1>5. Threads
  BY <1>2 DEF Threads
<1>6. Deletions
  BY <1>1, <1>2 DEF Chan!Init, Deletions
<1>7. RatesTyped
  BY <1>1 DEF Chan!Init, RatesTyped
<1>8. Rates
  <2> SUFFICES ASSUME NEW b \in Chan!Buckets
               PROVE  /\ Cardinality(Recent(b)) <= bucket[b].count
                      /\ Cardinality(Earlier(b)) <= Limit
                      /\ bucket[b].count <= Limit
                      /\ bucket[b].age = Window => \A i \in 1 .. MaxMsgs : log[b][i] # 0
    BY DEF Rates
  <2>1. bucket[b].count = 0 /\ \A i \in 1 .. MaxMsgs : log[b][i] = Window
    BY DEF Chan!Init
  <2>2. Recent(b) = {} /\ Earlier(b) = {}
    BY <1>1, <2>1 DEF Recent, Earlier
  <2>3. Cardinality(Recent(b)) = 0 /\ Cardinality(Earlier(b)) = 0
    BY <2>2, FS_EmptySet
  <2>4. QED
    BY <1>1, <2>1, <2>3
<1>9. Forward
  <2>1. fwd = [after |-> 0, got |-> {}] /\ kind \in {"back", "board", "box", "time"}
    BY DEF Chan!Init
  <2>2. \A c \in {"board", "box"} : next[c] = 1
    BY DEF Chan!Init, Chan!Channels
  <2>3. QED
    BY <1>1, <1>2, <2>1, <2>2 DEF Forward
<1>10. Backward
  <2>1. back = Chan!NoBack
    BY DEF Chan!Init
  <2>2. QED
    BY <2>1 DEF Backward, Chan!NoBack, Chan!Channels
<1>11. QED
  BY <1>3, <1>4, <1>5, <1>6, <1>7, <1>8, <1>9, <1>10 DEF BoardInv

-----------------------------------------------------------------------------
(* Write: a message with the channel's next number comes at the end. *)
LEMMA WriteFacts ==
  ASSUME MessagesTyped, Numbered, NEW p \in Chan!Writers, NEW c \in Chan!Channels, NEW root \in 0 .. Len(posts),
         NEW parent \in 0 .. Len(posts), Chan!Write(p, c, root, parent)
  PROVE  /\ posts' \in Seq(Message) /\ Len(posts') = Len(posts) + 1
         /\ \A i \in 1 .. Len(posts) : posts'[i] = posts[i]
         /\ posts'[Len(posts) + 1].chan = c /\ posts'[Len(posts) + 1].seq = next[c]
         /\ posts'[Len(posts) + 1].root = root /\ posts'[Len(posts) + 1].parent = parent
         /\ next' = [next EXCEPT ![c] = next[c] + 1]
<1> DEFINE x == [chan |-> c, seq |-> next[c], by |-> p, root |-> root, parent |-> parent]
<1>1. x \in Message
  BY DEF Message, Numbered, MessagesTyped
<1>2. posts \in Seq(Message) /\ posts' = Append(posts, x) /\ next' = [next EXCEPT ![c] = next[c] + 1]
  BY DEF MessagesTyped, Chan!Write
<1>3. x.chan = c /\ x.seq = next[c] /\ x.root = root /\ x.parent = parent
  OBVIOUS
<1> HIDE DEF x
<1>4. /\ posts' \in Seq(Message) /\ Len(posts') = Len(posts) + 1
      /\ \A i \in 1 .. Len(posts) : posts'[i] = posts[i]
      /\ posts'[Len(posts) + 1] = x
  BY <1>1, <1>2, AppendProperties
<1>5. QED
  BY <1>2, <1>3, <1>4

(* The numbering stays increasing. *)
LEMMA WriteNumbers ==
  ASSUME Chan!Bounds, MessagesTyped, Numbered, NEW p \in Chan!Writers, NEW c \in Chan!Channels, NEW root \in 0 .. Len(posts),
         NEW parent \in 0 .. Len(posts), Chan!Write(p, c, root, parent), Len(posts) < MaxMsgs,
         open' \subseteq Chan!Channels, gone' = gone
  PROVE  MessagesTyped' /\ Numbered'
<1> DEFINE n == Len(posts)
<1>1. /\ posts' \in Seq(Message) /\ Len(posts') = n + 1
      /\ \A i \in 1 .. n : posts'[i] = posts[i]
      /\ posts'[n + 1].chan = c /\ posts'[n + 1].seq = next[c]
      /\ next' = [next EXCEPT ![c] = next[c] + 1]
  BY WriteFacts
<1>2. n \in Nat /\ MaxMsgs \in Nat /\ n < MaxMsgs
  BY DEF MessagesTyped, Chan!Bounds
<1>3. MessagesTyped'
  BY <1>1, <1>2 DEF MessagesTyped
<1>4. /\ next' \in [Chan!Channels -> Nat]
      /\ \A e \in Chan!Channels : 1 <= next'[e] /\ next[e] <= next'[e] /\ next'[e] <= n + 2
      /\ next[c] \in Nat /\ next'[c] = next[c] + 1
  BY <1>1, <1>2 DEF Numbered
<1>5. \A i \in 1 .. n : posts[i].chan \in Chan!Channels /\ posts[i].seq \in Nat
  BY MessageFacts
<1> HIDE DEF n
<1>6. \A i \in 1 .. n + 1 : 1 <= posts'[i].seq /\ posts'[i].seq < next'[posts'[i].chan]
  <2>1. \A i \in 1 .. n : 1 <= posts[i].seq /\ posts[i].seq < next[posts[i].chan]
    BY DEF Numbered, n
  <2>2. \A i \in 1 .. n : 1 <= posts'[i].seq /\ posts'[i].seq < next'[posts'[i].chan]
    <3> SUFFICES ASSUME NEW i \in 1 .. n PROVE 1 <= posts'[i].seq /\ posts'[i].seq < next'[posts'[i].chan]
      OBVIOUS
    <3>1. posts'[i] = posts[i] /\ posts[i].chan \in Chan!Channels /\ posts[i].seq \in Nat
      BY <1>1, <1>5
    <3>2. next[posts[i].chan] \in Nat /\ next'[posts[i].chan] \in Nat /\ next[posts[i].chan] <= next'[posts[i].chan]
      BY <1>4, <3>1 DEF Numbered
    <3>3. QED
      BY <2>1, <3>1, <3>2
  <2>3. 1 <= posts'[n + 1].seq /\ posts'[n + 1].seq < next'[posts'[n + 1].chan]
    <3>1. 1 <= next[c]
      BY DEF Numbered
    <3>2. QED
      BY <1>1, <1>4, <3>1
  <2>4. QED
    BY <1>2, <2>2, <2>3
<1>7. ASSUME NEW i \in 1 .. n + 1, NEW j \in 1 .. n + 1, i < j, posts'[i].chan = posts'[j].chan
      PROVE  posts'[i].seq < posts'[j].seq
  <2>1. i \in 1 .. n /\ posts'[i] = posts[i]
    BY <1>1, <1>2, <1>7
  <2>2. CASE j = n + 1
    <3>1. posts[i].chan = c /\ posts'[j].seq = next[c]
      BY <1>1, <1>7, <2>1, <2>2
    <3>2. posts[i].seq < next[c]
      BY <2>1, <3>1 DEF Numbered, n
    <3>3. QED
      BY <2>1, <3>1, <3>2
  <2>3. CASE j # n + 1
    <3>1. j \in 1 .. n /\ posts'[j] = posts[j]
      BY <1>1, <1>2, <2>3
    <3>2. QED
      BY <1>7, <2>1, <3>1 DEF Numbered, n
  <2>4. QED
    BY <2>2, <2>3
<1>8. Numbered'
  <2>1. \A e \in Chan!Channels : next'[e] <= (n + 1) + 1
    BY <1>2, <1>4
  <2>2. QED
    BY <1>1, <1>4, <1>6, <1>7, <2>1 DEF Numbered
<1>9. QED
  BY <1>3, <1>8

(* What a writer says of the thread it writes in. *)
Answers(c, root, parent) ==
  /\ root # 0 => posts[root].chan = c /\ posts[root].root = 0
  /\ parent # 0 => root # 0
  /\ parent # 0 => parent = root \/ posts[parent].root = root

LEMMA WriteThreads ==
  ASSUME MessagesTyped, Numbered, Threads, NEW p \in Chan!Writers, NEW c \in Chan!Channels, NEW root \in 0 .. Len(posts),
         NEW parent \in 0 .. Len(posts), Chan!Write(p, c, root, parent), Answers(c, root, parent)
  PROVE  Threads'
<1> DEFINE n == Len(posts)
<1>1. /\ Len(posts') = n + 1
      /\ \A i \in 1 .. n : posts'[i] = posts[i]
      /\ posts'[n + 1].chan = c /\ posts'[n + 1].root = root /\ posts'[n + 1].parent = parent
  BY WriteFacts
<1>2. n \in Nat /\ root \in 0 .. n /\ parent \in 0 .. n
  BY DEF MessagesTyped
<1>3. \A i \in 1 .. n : posts[i].root \in Nat /\ posts[i].parent \in Nat
  BY MessageFacts
<1>4. \A i \in 1 .. n :
        /\ posts[i].root < i /\ posts[i].parent < i
        /\ posts[i].root # 0 => posts[posts[i].root].chan = posts[i].chan /\ posts[posts[i].root].root = 0
        /\ posts[i].parent # 0 => posts[i].root # 0
        /\ posts[i].parent # 0 => posts[i].parent = posts[i].root \/ posts[posts[i].parent].root = posts[i].root
  BY DEF Threads
<1> HIDE DEF n
<1> SUFFICES ASSUME NEW i \in 1 .. n + 1
             PROVE  /\ posts'[i].root < i /\ posts'[i].parent < i
                    /\ posts'[i].root # 0 => posts'[posts'[i].root].chan = posts'[i].chan /\ posts'[posts'[i].root].root = 0
                    /\ posts'[i].parent # 0 => posts'[i].root # 0
                    /\ posts'[i].parent # 0 => posts'[i].parent = posts'[i].root \/ posts'[posts'[i].parent].root = posts'[i].root
  BY <1>1 DEF Threads
<1>5. CASE i = n + 1
  <2>1. /\ root # 0 => root \in 1 .. n /\ posts'[root] = posts[root]
        /\ parent # 0 => parent \in 1 .. n /\ posts'[parent] = posts[parent]
    BY <1>1, <1>2
  <2>2. posts'[i].root = root /\ posts'[i].parent = parent /\ posts'[i].chan = c /\ root < i /\ parent < i
    BY <1>1, <1>2, <1>5
  <2>3. QED
    BY <2>1, <2>2 DEF Answers
<1>6. CASE i # n + 1
  <2>1. i \in 1 .. n /\ posts'[i] = posts[i]
    BY <1>1, <1>2, <1>6
  <2>2. /\ posts[i].root # 0 => posts[i].root \in 1 .. n
        /\ posts[i].parent # 0 => posts[i].parent \in 1 .. n
    BY <1>2, <1>3, <1>4, <2>1
  <2>3. /\ posts[i].root # 0 => posts'[posts[i].root] = posts[posts[i].root]
        /\ posts[i].parent # 0 => posts'[posts[i].parent] = posts[posts[i].parent]
    BY <1>1, <2>2
  <2>4. QED
    BY <1>4, <2>1, <2>3
<1>7. QED
  BY <1>5, <1>6

(* The readers are not disturbed by what is written. *)
LEMMA WriteReaders ==
  ASSUME MessagesTyped, Numbered, Forward, Backward, NEW p \in Chan!Writers, NEW c \in Chan!Channels,
         NEW root \in 0 .. Len(posts), NEW parent \in 0 .. Len(posts), Chan!Write(p, c, root, parent),
         gone' = gone, UNCHANGED Chan!readers
  PROVE  Forward' /\ Backward'
<1> DEFINE n == Len(posts)
<1>1. /\ Len(posts') = n + 1
      /\ \A i \in 1 .. n : posts'[i] = posts[i]
      /\ posts'[n + 1].chan = c /\ posts'[n + 1].seq = next[c]
      /\ next' = [next EXCEPT ![c] = next[c] + 1]
  BY WriteFacts
<1>2. n \in Nat /\ kind' = kind /\ fwd' = fwd /\ back' = back
  BY DEF MessagesTyped, Chan!readers
<1>3. next \in [Chan!Channels -> Nat] /\ next' \in [Chan!Channels -> Nat] /\ \A e \in Chan!Channels : next[e] <= next'[e]
  BY <1>1 DEF Numbered
<1>4. /\ kind \in {"back", "board", "box", "time"}
      /\ fwd \in [after : Nat, got : SUBSET (1 .. n)] /\ fwd.after <= MaxMsgs
      /\ kind \in {"board", "box"} => fwd.after < next[kind]
      /\ \A i \in 1 .. n : posts[i].chan = kind /\ posts[i].seq <= fwd.after /\ i \notin fwd.got => i \in gone
  BY DEF Forward
<1>5. /\ back \in [on : BOOLEAN, chan : Chan!Channels, before : Nat, got : SUBSET (1 .. n), want : SUBSET (1 .. n), done : BOOLEAN]
      /\ \A i \in back.want : posts[i].chan = back.chan
      /\ \A i \in back.want : i \in gone \/ i \in back.got \/ (~back.done /\ (back.before = 0 \/ posts[i].seq < back.before))
  BY DEF Backward
<1> HIDE DEF n
<1>6. 1 .. n \subseteq 1 .. n + 1
  BY <1>2
<1>7. Forward'
  <2>1. fwd \in [after : Nat, got : SUBSET (1 .. n + 1)]
    BY <1>4, <1>6
  <2>2. kind \in {"board", "box"} => fwd.after < next'[kind]
    <3>1. {"board", "box"} \subseteq Chan!Channels /\ fwd.after \in Nat
      BY <1>4 DEF Chan!Channels
    <3>2. QED
      BY <1>3, <1>4, <3>1
  <2>3. ASSUME NEW i \in 1 .. n + 1, posts'[i].chan = kind, posts'[i].seq <= fwd.after, i \notin fwd.got
        PROVE  i \in gone
    <3>1. CASE i = n + 1
      <4>1. c = kind /\ next[c] <= fwd.after
        BY <1>1, <2>3, <3>1
      <4>2. kind \in {"board", "box"}
        BY <1>4, <4>1 DEF Chan!Channels
      <4>3. fwd.after < next[c] /\ next[c] \in Nat /\ fwd.after \in Nat
        BY <1>3, <1>4, <4>1, <4>2
      <4>4. QED
        BY <4>1, <4>3
    <3>2. CASE i # n + 1
      <4>1. i \in 1 .. n /\ posts'[i] = posts[i]
        BY <1>1, <1>2, <3>2
      <4>2. QED
        BY <1>4, <2>3, <4>1
    <3>3. QED
      BY <3>1, <3>2
  <2>4. QED
    BY <1>1, <1>2, <1>4, <2>1, <2>2, <2>3 DEF Forward
<1>8. Backward'
  <2>1. back \in [on : BOOLEAN, chan : Chan!Channels, before : Nat, got : SUBSET (1 .. n + 1), want : SUBSET (1 .. n + 1), done : BOOLEAN]
    BY <1>5, <1>6
  <2>2. \A i \in back.want : posts'[i] = posts[i]
    BY <1>1, <1>5
  <2>3. QED
    BY <1>1, <1>2, <1>5, <2>1, <2>2 DEF Backward
<1>9. QED
  BY <1>7, <1>8

-----------------------------------------------------------------------------
(* _charge_rate_bucket: the write is counted in the present window or opens    *)
(* the next one, which finds the last one's writes in the stretch before it.   *)
LEMMA ChargeRates ==
  ASSUME Chan!Bounds, MessagesTyped, RatesTyped, Rates, NEW p \in Chan!Writers, NEW e \in Chan!Buckets, Chan!Charge(p, e),
         Len(posts) < MaxMsgs, Len(posts') = Len(posts) + 1
  PROVE  RatesTyped' /\ Rates'
<1> DEFINE n == Len(posts)
<1>0. /\ n \in Nat /\ MaxMsgs \in Nat /\ Limit \in Nat \ {0} /\ Window \in Nat \ {0} /\ n < MaxMsgs
      /\ Len(posts') = n + 1 /\ n + 1 \in 1 .. MaxMsgs
  BY DEF MessagesTyped, Chan!Bounds
<1>1. /\ bucket \in [Chan!Buckets -> [age : 0 .. Window, count : Nat]]
      /\ log \in [Chan!Buckets -> [1 .. MaxMsgs -> 0 .. Window]]
      /\ \A b \in Chan!Buckets, i \in 1 .. MaxMsgs : log[b][i] < Window => i <= n
  BY DEF RatesTyped
<1> HIDE DEF n
<1>2. CASE Chan!role[p] # "automation"
  <2>1. bucket' = bucket /\ log' = log
    BY <1>2 DEF Chan!Charge
  <2>2. RatesTyped'
    <3>1. ASSUME NEW b \in Chan!Buckets, NEW i \in 1 .. MaxMsgs, log[b][i] < Window PROVE i <= n + 1
      BY <1>0, <1>1, <3>1
    <3>2. QED
      BY <1>0, <1>1, <2>1, <3>1 DEF RatesTyped
  <2>3. Rates'
    BY <2>1 DEF Rates, Recent, Earlier
  <2>4. QED
    BY <2>2, <2>3
<1>3. CASE ~(Chan!role[p] # "automation")
  <2> DEFINE old == bucket[e]
             fresh == IF old.age >= Window THEN [age |-> 0, count |-> 1] ELSE [age |-> old.age, count |-> old.count + 1]
             ages == [log[e] EXCEPT ![n + 1] = 0]
  <2>1. /\ bucket' = [bucket EXCEPT ![e] = fresh] /\ log' = [log EXCEPT ![e] = ages]
        /\ old.age >= Window \/ old.count < Limit
    BY <1>3 DEF Chan!Charge, Chan!Admits, n
  <2>2. old.age \in 0 .. Window /\ old.count \in Nat
    BY <1>1
  <2>3. fresh \in [age : 0 .. Window, count : Nat] /\ fresh.age \in 0 .. Window /\ fresh.count \in Nat
    BY <1>0, <2>2
  <2>4. /\ ages \in [1 .. MaxMsgs -> 0 .. Window] /\ ages[n + 1] = 0
        /\ \A i \in 1 .. MaxMsgs : i # n + 1 => ages[i] = log[e][i]
    BY <1>0, <1>1
  <2>5. /\ fresh.age = IF old.age >= Window THEN 0 ELSE old.age
        /\ fresh.count = IF old.age >= Window THEN 1 ELSE old.count + 1
    OBVIOUS
  <2> HIDE DEF old, fresh, ages
  <2>6. /\ bucket' \in [Chan!Buckets -> [age : 0 .. Window, count : Nat]]
        /\ log' \in [Chan!Buckets -> [1 .. MaxMsgs -> 0 .. Window]]
    BY <1>1, <2>1, <2>3, <2>4
  <2>7. bucket'[e] = fresh /\ log'[e] = ages /\ \A b \in Chan!Buckets : b # e => bucket'[b] = bucket[b] /\ log'[b] = log[b]
    BY <1>1, <2>1
  <2>8. RatesTyped'
    <3>1. ASSUME NEW b \in Chan!Buckets, NEW i \in 1 .. MaxMsgs, log'[b][i] < Window PROVE i <= n + 1
      <4>1. CASE i = n + 1
        BY <1>0, <4>1
      <4>2. CASE i # n + 1
        <5>1. log'[b][i] = log[b][i]
          BY <2>4, <2>7, <4>2
        <5>2. i <= n
          BY <1>1, <3>1, <5>1
        <5>3. QED
          BY <1>0, <5>2
      <4>3. QED
        BY <4>1, <4>2
    <3>2. QED
      BY <1>0, <2>6, <3>1 DEF RatesTyped
  <2>9. IsFiniteSet(1 .. MaxMsgs) /\ Recent(e) \subseteq 1 .. MaxMsgs /\ Earlier(e) \subseteq 1 .. MaxMsgs
    <3>1. IsFiniteSet(1 .. MaxMsgs)
      BY <1>0, FS_Interval
    <3>2. QED
      BY <3>1 DEF Recent, Earlier
  <2>10. /\ IsFiniteSet(Recent(e)) /\ IsFiniteSet(Earlier(e))
         /\ Cardinality(Recent(e)) \in Nat /\ Cardinality(Earlier(e)) \in Nat
    BY <2>9, FS_Subset, FS_CardinalityType
  <2>11. /\ Cardinality(Recent(e)) <= old.count /\ Cardinality(Earlier(e)) <= Limit /\ old.count <= Limit
         /\ old.age = Window => \A i \in 1 .. MaxMsgs : log[e][i] # 0
    BY DEF Rates, old
  <2>12. /\ Cardinality(Recent(e)') <= fresh.count
         /\ Cardinality(Earlier(e)') <= Limit
         /\ fresh.count <= Limit
         /\ fresh.age = Window => \A i \in 1 .. MaxMsgs : ages[i] # 0
    <3>1. Recent(e)' = {i \in 1 .. MaxMsgs : ages[i] < Window /\ ages[i] <= fresh.age}
      BY <2>7 DEF Recent
    <3>2. Earlier(e)' = {i \in 1 .. MaxMsgs : ages[i] < Window /\ fresh.age < ages[i]}
      BY <2>7 DEF Earlier
    <3>3. /\ Recent(e) = {i \in 1 .. MaxMsgs : log[e][i] < Window /\ log[e][i] <= old.age}
          /\ Earlier(e) = {i \in 1 .. MaxMsgs : log[e][i] < Window /\ old.age < log[e][i]}
      BY DEF Recent, Earlier, old
    <3>4. /\ \A i \in 1 .. MaxMsgs : log[e][i] \in Nat /\ log[e][i] <= Window
          /\ ~(log[e][n + 1] < Window)
      BY <1>0, <1>1
    <3>5. CASE old.age >= Window
      <4>1. old.age = Window /\ fresh.age = 0 /\ fresh.count = 1
        BY <1>0, <2>2, <2>5, <3>5
      <4>2. \A i \in 1 .. MaxMsgs : log[e][i] # 0
        BY <2>11, <4>1
      <4>3. Recent(e)' = {n + 1}
        <5>1. ASSUME NEW i \in 1 .. MaxMsgs PROVE ages[i] < Window /\ ages[i] <= fresh.age <=> i = n + 1
          <6>1. CASE i = n + 1
            BY <1>0, <2>4, <4>1, <6>1
          <6>2. CASE i # n + 1
            <7>1. ages[i] \in Nat /\ ages[i] # 0
              BY <2>4, <3>4, <4>2, <6>2
            <7>2. QED
              BY <4>1, <6>2, <7>1
          <6>3. QED
            BY <6>1, <6>2
        <5>2. QED
          BY <1>0, <3>1, <5>1
      <4>4. Earlier(e)' \subseteq Recent(e)
        <5>1. ASSUME NEW i \in 1 .. MaxMsgs, ages[i] < Window, fresh.age < ages[i]
              PROVE  log[e][i] < Window /\ log[e][i] <= old.age
          <6>1. i # n + 1
            BY <2>4, <4>1, <5>1
          <6>2. ages[i] = log[e][i]
            BY <2>4, <6>1
          <6>3. QED
            BY <1>0, <3>4, <4>1, <5>1, <6>2
        <5>2. QED
          BY <3>2, <3>3, <5>1
      <4>5. Cardinality(Recent(e)') = 1
        BY <4>3, FS_Singleton
      <4>6. Cardinality(Earlier(e)') <= Cardinality(Recent(e)) /\ Cardinality(Earlier(e)') \in Nat
        BY <2>10, <4>4, FS_Subset, FS_CardinalityType
      <4>7. fresh.age # Window
        BY <1>0, <4>1
      <4>8. QED
        BY <1>0, <2>2, <2>10, <2>11, <4>1, <4>5, <4>6, <4>7
    <3>6. CASE ~(old.age >= Window)
      <4>1. fresh.age = old.age /\ fresh.count = old.count + 1 /\ old.count < Limit /\ old.age < Window
        BY <1>0, <2>1, <2>2, <2>5, <3>6
      <4>2. Recent(e)' \subseteq Recent(e) \cup {n + 1}
        <5>1. ASSUME NEW i \in 1 .. MaxMsgs, ages[i] < Window, ages[i] <= fresh.age, i # n + 1
              PROVE  log[e][i] < Window /\ log[e][i] <= old.age
          BY <2>4, <4>1, <5>1
        <5>2. QED
          BY <3>1, <3>3, <5>1
      <4>3. Earlier(e)' \subseteq Earlier(e)
        <5>1. ASSUME NEW i \in 1 .. MaxMsgs, ages[i] < Window, fresh.age < ages[i]
              PROVE  log[e][i] < Window /\ old.age < log[e][i]
          <6>1. i # n + 1
            BY <2>2, <2>4, <4>1, <5>1
          <6>2. QED
            BY <2>4, <4>1, <5>1, <6>1
        <5>2. QED
          BY <3>2, <3>3, <5>1
      <4>4. Cardinality(Earlier(e)') <= Cardinality(Earlier(e)) /\ Cardinality(Earlier(e)') \in Nat
        BY <2>10, <4>3, FS_Subset, FS_CardinalityType
      <4>5. /\ IsFiniteSet(Recent(e) \cup {n + 1})
            /\ Cardinality(Recent(e) \cup {n + 1}) \in Nat
            /\ Cardinality(Recent(e) \cup {n + 1}) <= Cardinality(Recent(e)) + 1
        <5>1. /\ IsFiniteSet(Recent(e) \cup {n + 1})
              /\ Cardinality(Recent(e) \cup {n + 1}) = IF n + 1 \in Recent(e) THEN Cardinality(Recent(e)) ELSE Cardinality(Recent(e)) + 1
          BY <2>10, FS_AddElement
        <5>2. QED
          BY <2>10, <5>1
      <4>6. Cardinality(Recent(e)') <= Cardinality(Recent(e) \cup {n + 1}) /\ Cardinality(Recent(e)') \in Nat
        BY <4>2, <4>5, FS_Subset, FS_CardinalityType
      <4>7. fresh.age # Window
        BY <1>0, <2>2, <4>1
      <4>8. Cardinality(Recent(e)') <= fresh.count
        <5>1. ASSUME NEW x \in Nat, NEW y \in Nat, NEW z \in Nat, NEW w \in Nat, x <= y, y <= z + 1, z <= w
              PROVE  x <= w + 1
          BY <5>1
        <5>2. QED
          BY <2>2, <2>10, <2>11, <4>1, <4>5, <4>6, <5>1
      <4>9. Cardinality(Earlier(e)') <= Limit
        BY <1>0, <2>10, <2>11, <4>4
      <4>10. fresh.count <= Limit
        BY <1>0, <2>2, <4>1
      <4>11. QED
        BY <4>7, <4>8, <4>9, <4>10
    <3>7. QED
      BY <3>5, <3>6
  <2>13. ASSUME NEW b \in Chan!Buckets
         PROVE  /\ Cardinality(Recent(b)') <= bucket'[b].count
                /\ Cardinality(Earlier(b)') <= Limit
                /\ bucket'[b].count <= Limit
                /\ bucket'[b].age = Window => \A i \in 1 .. MaxMsgs : log'[b][i] # 0
    <3>1. CASE b = e
      BY <2>7, <2>12, <3>1
    <3>2. CASE b # e
      <4>1. bucket'[b] = bucket[b] /\ log'[b] = log[b]
        BY <2>7, <3>2
      <4>2. Recent(b)' = Recent(b) /\ Earlier(b)' = Earlier(b)
        BY <4>1 DEF Recent, Earlier
      <4>3. QED
        BY <4>1, <4>2 DEF Rates
    <3>3. QED
      BY <3>1, <3>2
  <2>14. Rates'
    BY <2>13 DEF Rates
  <2>15. QED
    BY <2>8, <2>14
<1>4. QED
  BY <1>2, <1>3

(* Time only makes the counted writes fewer. *)
LEMMA TickRates ==
  ASSUME Chan!Bounds, MessagesTyped, RatesTyped, Rates, Chan!Tick
  PROVE  RatesTyped' /\ Rates'
<1>0. MaxMsgs \in Nat /\ Limit \in Nat \ {0} /\ Window \in Nat \ {0} /\ posts' = posts
  BY DEF Chan!Bounds, Chan!Tick
<1>1. /\ bucket \in [Chan!Buckets -> [age : 0 .. Window, count : Nat]]
      /\ log \in [Chan!Buckets -> [1 .. MaxMsgs -> 0 .. Window]]
      /\ \A b \in Chan!Buckets, i \in 1 .. MaxMsgs : log[b][i] < Window => i <= Len(posts)
  BY DEF RatesTyped
<1>2. \A t \in 0 .. Window : Chan!Older(t) \in 0 .. Window /\ Chan!Older(t) # 0 /\ t <= Chan!Older(t) /\ (Chan!Older(t) < Window => Chan!Older(t) = t + 1)
  BY <1>0 DEF Chan!Older
<1>3. /\ \A b \in Chan!Buckets : bucket'[b] = [bucket[b] EXCEPT !.age = Chan!Older(bucket[b].age)]
      /\ bucket' = [b \in Chan!Buckets |-> bucket'[b]]
      /\ log' = [b \in Chan!Buckets |-> [i \in 1 .. MaxMsgs |-> Chan!Older(log[b][i])]]
  BY DEF Chan!Tick
<1>4. \A b \in Chan!Buckets : bucket'[b] \in [age : 0 .. Window, count : Nat] /\ bucket'[b].age = Chan!Older(bucket[b].age) /\ bucket'[b].count = bucket[b].count
  BY <1>1, <1>2, <1>3
<1>5. \A b \in Chan!Buckets, i \in 1 .. MaxMsgs : log'[b][i] = Chan!Older(log[b][i]) /\ log[b][i] \in 0 .. Window
  <2>1. \A b \in Chan!Buckets, i \in 1 .. MaxMsgs : log'[b][i] = Chan!Older(log[b][i])
    BY <1>3
  <2>2. ASSUME NEW b \in Chan!Buckets, NEW i \in 1 .. MaxMsgs PROVE log[b][i] \in 0 .. Window
    <3>1. log[b] \in [1 .. MaxMsgs -> 0 .. Window]
      BY <1>1
    <3>2. QED
      BY <3>1
  <2>3. QED
    BY <2>1, <2>2
<1>6. RatesTyped'
  <2>1. bucket' \in [Chan!Buckets -> [age : 0 .. Window, count : Nat]]
    BY <1>3, <1>4
  <2>2. log' \in [Chan!Buckets -> [1 .. MaxMsgs -> 0 .. Window]]
    BY <1>2, <1>3, <1>5
  <2>3. ASSUME NEW b \in Chan!Buckets, NEW i \in 1 .. MaxMsgs, log'[b][i] < Window PROVE i <= Len(posts)
    <3>1. log[b][i] < Window
      BY <1>0, <1>2, <1>5, <2>3
    <3>2. QED
      BY <1>1, <3>1
  <2>4. QED
    BY <1>0, <2>1, <2>2, <2>3 DEF RatesTyped
<1>7. ASSUME NEW b \in Chan!Buckets
      PROVE  /\ Cardinality(Recent(b)') <= bucket'[b].count
             /\ Cardinality(Earlier(b)') <= Limit
             /\ bucket'[b].count <= Limit
             /\ bucket'[b].age = Window => \A i \in 1 .. MaxMsgs : log'[b][i] # 0
  <2>1. bucket[b].age \in 0 .. Window /\ bucket[b].count \in Nat
    BY <1>1
  <2>2. Recent(b)' \subseteq Recent(b)
    <3>1. ASSUME NEW i \in 1 .. MaxMsgs, log'[b][i] < Window, log'[b][i] <= bucket'[b].age
          PROVE  log[b][i] < Window /\ log[b][i] <= bucket[b].age
      <4>1. log[b][i] \in 0 .. Window /\ log'[b][i] = log[b][i] + 1
        BY <1>2, <1>5, <3>1
      <4>2. bucket'[b].age = IF bucket[b].age < Window THEN bucket[b].age + 1 ELSE Window
        BY <1>4 DEF Chan!Older
      <4>3. QED
        BY <1>0, <2>1, <3>1, <4>1, <4>2
    <3>2. QED
      BY <3>1 DEF Recent
  <2>3. Earlier(b)' \subseteq Earlier(b)
    <3>1. ASSUME NEW i \in 1 .. MaxMsgs, log'[b][i] < Window, bucket'[b].age < log'[b][i]
          PROVE  log[b][i] < Window /\ bucket[b].age < log[b][i]
      <4>1. log[b][i] \in 0 .. Window /\ log'[b][i] = log[b][i] + 1
        BY <1>2, <1>5, <3>1
      <4>2. bucket'[b].age = IF bucket[b].age < Window THEN bucket[b].age + 1 ELSE Window
        BY <1>4 DEF Chan!Older
      <4>3. QED
        BY <1>0, <2>1, <3>1, <4>1, <4>2
    <3>2. QED
      BY <3>1 DEF Earlier
  <2>4. IsFiniteSet(1 .. MaxMsgs) /\ Recent(b) \subseteq 1 .. MaxMsgs /\ Earlier(b) \subseteq 1 .. MaxMsgs
    BY <1>0, FS_Interval DEF Recent, Earlier
  <2>5. IsFiniteSet(Recent(b)) /\ IsFiniteSet(Earlier(b))
    BY <2>4, FS_Subset
  <2>6. /\ Cardinality(Recent(b)') <= Cardinality(Recent(b)) /\ Cardinality(Recent(b)') \in Nat /\ Cardinality(Recent(b)) \in Nat
        /\ Cardinality(Earlier(b)') <= Cardinality(Earlier(b)) /\ Cardinality(Earlier(b)') \in Nat /\ Cardinality(Earlier(b)) \in Nat
    BY <2>2, <2>3, <2>5, FS_Subset, FS_CardinalityType
  <2>7. Cardinality(Recent(b)) <= bucket[b].count /\ Cardinality(Earlier(b)) <= Limit /\ bucket[b].count <= Limit
    BY DEF Rates
  <2>8. \A i \in 1 .. MaxMsgs : log'[b][i] # 0
    BY <1>2, <1>5
  <2>9. QED
    BY <1>0, <1>4, <2>1, <2>6, <2>7, <2>8
<1>8. Rates'
  BY <1>7 DEF Rates
<1>9. QED
  BY <1>6, <1>8

-----------------------------------------------------------------------------
(* The page of a reader that goes forward is not empty and leaves out nothing  *)
(* below what it has.                                                          *)
LEMMA FirstPage ==
  ASSUME MessagesTyped, Numbered, NEW c, NEW S, S \subseteq 1 .. Len(posts), S # {},
         \A i \in S : posts[i].chan = c, NEW k \in Nat \ {0}
  PROVE  /\ Chan!First(S, k) # {} /\ Chan!First(S, k) \subseteq S
         /\ \A i \in S, q \in Chan!First(S, k) : posts[i].seq <= posts[q].seq => i \in Chan!First(S, k)
<1> DEFINE upTo(i) == {j \in S : posts[j].seq <= posts[i].seq}
<1>1. Len(posts) \in Nat /\ \A i \in S : posts[i].seq \in Nat
  <2>1. Len(posts) \in Nat
    BY DEF MessagesTyped
  <2>2. ASSUME NEW i \in S PROVE posts[i].seq \in Nat
    <3>1. i \in 1 .. Len(posts)
      OBVIOUS
    <3>2. QED
      BY <3>1, MessageFacts
  <2>3. QED
    BY <2>1, <2>2
<1>2. IsFiniteSet(S)
  <2>1. IsFiniteSet(1 .. Len(posts))
    BY <1>1, FS_Interval
  <2>2. QED
    BY <2>1, FS_Subset
<1>3. \A i \in S : upTo(i) \subseteq S /\ IsFiniteSet(upTo(i)) /\ Cardinality(upTo(i)) \in Nat
  BY <1>2, FS_Subset, FS_CardinalityType
<1>4. Chan!First(S, k) = {i \in S : Cardinality(upTo(i)) <= k}
  BY SameCard DEF Chan!First
<1>5. PICK i0 \in S : \A j \in S : posts[i0].seq <= posts[j].seq
  <2> DEFINE T == {posts[i].seq : i \in S}
  <2>1. T \subseteq Nat /\ T # {}
    BY <1>1
  <2>2. PICK t \in T : \A u \in T : t <= u
    BY <2>1, LeastExists
  <2>3. QED
    BY <2>2
<1>6. upTo(i0) = {i0}
  <2>1. ASSUME NEW j \in S, posts[j].seq <= posts[i0].seq PROVE j = i0
    <3>1. posts[j].seq = posts[i0].seq
      BY <1>1, <1>5, <2>1
    <3>2. QED
      BY <3>1, NumbersDiffer
  <2>2. i0 \in upTo(i0)
    BY <1>1
  <2>3. QED
    BY <2>1, <2>2
<1>7. Cardinality(upTo(i0)) = 1
  BY <1>6, FS_Singleton
<1> HIDE DEF upTo
<1>8. i0 \in Chan!First(S, k)
  BY <1>4, <1>7
<1>9. ASSUME NEW i \in S, NEW q \in Chan!First(S, k), posts[i].seq <= posts[q].seq
      PROVE  i \in Chan!First(S, k)
  <2>1. q \in S /\ Cardinality(upTo(q)) <= k
    BY <1>4
  <2>2. upTo(i) \subseteq upTo(q)
    <3> SUFFICES ASSUME NEW j \in upTo(i) PROVE j \in upTo(q)
      OBVIOUS
    <3>1. j \in S /\ posts[j].seq <= posts[i].seq
      BY DEF upTo
    <3>2. posts[j].seq \in Nat /\ posts[i].seq \in Nat /\ posts[q].seq \in Nat
      BY <1>1, <2>1, <3>1
    <3>3. posts[j].seq <= posts[q].seq
      BY <1>9, <3>1, <3>2
    <3>4. QED
      BY <3>1, <3>3 DEF upTo
  <2>3. Cardinality(upTo(i)) <= Cardinality(upTo(q))
    BY <1>3, <2>1, <2>2, FS_Subset
  <2>4. Cardinality(upTo(i)) <= k
    BY <1>3, <2>1, <2>3
  <2>5. QED
    BY <1>4, <2>4
<1>10. QED
  BY <1>4, <1>8, <1>9

(* The page of a reader that goes back leaves out nothing above what it has,   *)
(* and nothing at all when it is not full.                                     *)
LEMMA LastPage ==
  ASSUME Chan!Bounds, MessagesTyped, Numbered, NEW c, NEW S, S \subseteq 1 .. Len(posts), \A i \in S : posts[i].chan = c
  PROVE  /\ Chan!Last(S) \subseteq S
         /\ \A i \in S, q \in Chan!Last(S) : posts[q].seq <= posts[i].seq => i \in Chan!Last(S)
         /\ Cardinality(Chan!Last(S)) # PageSize => Chan!Last(S) = S
<1> DEFINE downTo(i) == {j \in S : posts[j].seq >= posts[i].seq}
<1>1. Len(posts) \in Nat /\ PageSize \in Nat \ {0} /\ MaxMsgs \in Nat /\ \A i \in S : posts[i].seq \in 1 .. MaxMsgs
  BY NumbersBounded DEF MessagesTyped, Chan!Bounds
<1>2. IsFiniteSet(S)
  <2>1. IsFiniteSet(1 .. Len(posts))
    BY <1>1, FS_Interval
  <2>2. QED
    BY <2>1, FS_Subset
<1>3. \A i \in S : downTo(i) \subseteq S /\ IsFiniteSet(downTo(i)) /\ Cardinality(downTo(i)) \in Nat
  BY <1>2, FS_Subset, FS_CardinalityType
<1>4. Chan!Last(S) = {i \in S : Cardinality(downTo(i)) <= PageSize}
  BY SameCard DEF Chan!Last
<1>5. Chan!Last(S) \subseteq S /\ IsFiniteSet(Chan!Last(S)) /\ Cardinality(Chan!Last(S)) \in Nat
  BY <1>2, <1>4, FS_Subset, FS_CardinalityType
<1>6. \A i, j \in S : j \in downTo(i) <=> posts[i].seq <= posts[j].seq
  BY <1>1
<1> HIDE DEF downTo
<1>7. ASSUME NEW i \in S, NEW q \in Chan!Last(S), posts[q].seq <= posts[i].seq
      PROVE  i \in Chan!Last(S)
  <2>1. q \in S /\ Cardinality(downTo(q)) <= PageSize
    BY <1>4
  <2>2. downTo(i) \subseteq downTo(q)
    <3>1. ASSUME NEW j \in downTo(i) PROVE j \in downTo(q)
      <4>1. j \in S /\ posts[i].seq <= posts[j].seq
        BY <1>3, <1>6
      <4>2. posts[q].seq <= posts[j].seq
        BY <1>1, <1>7, <2>1, <4>1
      <4>3. QED
        BY <1>6, <2>1, <4>1, <4>2
    <3>2. QED
      BY <3>1
  <2>3. Cardinality(downTo(i)) <= Cardinality(downTo(q))
    BY <1>3, <2>1, <2>2, FS_Subset
  <2>4. Cardinality(downTo(i)) <= PageSize
    BY <1>1, <1>3, <2>1, <2>3
  <2>5. QED
    BY <1>4, <2>4
<1>8. ASSUME Chan!Last(S) # S
      PROVE  Cardinality(Chan!Last(S)) = PageSize
  <2> DEFINE R == S \ Chan!Last(S)
             T == {posts[i].seq : i \in R}
  <2>1. T \subseteq 0 .. MaxMsgs /\ T # {}
    <3>1. \A i \in R : posts[i].seq \in 0 .. MaxMsgs
      BY <1>1
    <3>2. PICK i \in R : TRUE
      BY <1>5, <1>8
    <3>3. posts[i].seq \in T
      BY <3>2
    <3>4. QED
      BY <3>1, <3>3
  <2>2. PICK t \in T : \A u \in T : u <= t
    BY <1>1, <2>1, GreatestExists
  <2>3. PICK i \in R : \A j \in R : posts[j].seq <= posts[i].seq
    BY <2>2
  <2>4. i \in S /\ i \notin Chan!Last(S) /\ posts[i].seq \in Nat
    BY <1>1
  <2>5. \A j \in S : posts[i].seq <= posts[j].seq /\ j # i => j \in Chan!Last(S)
    <3> SUFFICES ASSUME NEW j \in S, posts[i].seq <= posts[j].seq, j # i, j \notin Chan!Last(S) PROVE FALSE
      OBVIOUS
    <3>1. posts[j].seq <= posts[i].seq
      BY <2>3
    <3>2. posts[j].seq = posts[i].seq
      BY <1>1, <2>4, <3>1
    <3>3. QED
      BY <2>4, <3>2, NumbersDiffer
  <2>6. downTo(i) \ {i} \subseteq Chan!Last(S)
    BY <1>3, <1>6, <2>4, <2>5
  <2>7. i \in downTo(i)
    BY <1>6, <2>4
  <2>8. Cardinality(downTo(i)) > PageSize
    BY <1>1, <1>3, <1>4, <2>4
  <2>9. IsFiniteSet(downTo(i) \ {i}) /\ Cardinality(downTo(i) \ {i}) = Cardinality(downTo(i)) - 1
    BY <1>3, <2>4, <2>7, FS_RemoveElement
  <2>10. Cardinality(downTo(i) \ {i}) <= Cardinality(Chan!Last(S))
    BY <1>5, <2>6, FS_Subset
  <2>11. Cardinality(Chan!Last(S)) >= PageSize
    BY <1>1, <1>3, <1>5, <2>4, <2>8, <2>9, <2>10
  <2>12. Chan!Last(S) # {}
    <3>1. Chan!Last(S) = {} => Cardinality(Chan!Last(S)) = 0
      BY FS_EmptySet
    <3>2. QED
      BY <1>1, <2>11, <3>1
  <2>13. PICK q \in Chan!Last(S) : \A j \in Chan!Last(S) : posts[q].seq <= posts[j].seq
    <3> DEFINE U == {posts[j].seq : j \in Chan!Last(S)}
    <3>1. U \subseteq Nat /\ U # {}
      <4>1. ASSUME NEW j \in Chan!Last(S) PROVE posts[j].seq \in Nat
        <5>1. j \in S
          BY <1>5
        <5>2. QED
          BY <1>1, <5>1
      <4>2. PICK j \in Chan!Last(S) : TRUE
        BY <2>12
      <4>3. posts[j].seq \in U
        BY <4>2
      <4>4. QED
        BY <4>1, <4>3
    <3>2. PICK u \in U : \A v \in U : u <= v
      BY <3>1, LeastExists
    <3>3. QED
      BY <3>2
  <2>14. q \in S /\ Cardinality(downTo(q)) <= PageSize
    BY <1>4
  <2>15. Chan!Last(S) \subseteq downTo(q)
    BY <1>5, <1>6, <2>13, <2>14
  <2>16. Cardinality(Chan!Last(S)) <= Cardinality(downTo(q))
    BY <1>3, <2>14, <2>15, FS_Subset
  <2>17. QED
    BY <1>1, <1>3, <1>5, <2>11, <2>14, <2>16
<1>9. QED
  BY <1>5, <1>7, <1>8

-----------------------------------------------------------------------------
(* list_network_bulletin and list_network_mailbox. *)
LEMMA ListForwardKeeps ==
  ASSUME Chan!Bounds, BoardInv, Chan!ListForward
  PROVE  Forward'
<1>0. MessagesTyped /\ Numbered /\ Forward
  BY DEF BoardInv
<1>1. PICK k \in 1 .. PageSize :
        /\ kind \in {"board", "box"} /\ Chan!After(kind, fwd.after) # {}
        /\ fwd' = [after |-> Chan!NextAfter(Chan!After(kind, fwd.after), Chan!First(Chan!After(kind, fwd.after), k)),
                   got |-> fwd.got \cup Chan!First(Chan!After(kind, fwd.after), k)]
        /\ UNCHANGED <<posts, next, gone, kind>>
  BY DEF Chan!ListForward
<1> DEFINE rows == Chan!After(kind, fwd.after)
           page == Chan!First(rows, k)
           T == {posts[i].seq : i \in page}
<1>2. Chan!Ids = 1 .. Len(posts) /\ Len(posts) \in Nat /\ k \in Nat \ {0} /\ MaxMsgs \in Nat
  BY <1>0, IdsAre DEF Chan!Bounds
<1>3. /\ rows \subseteq 1 .. Len(posts) /\ rows # {} /\ \A i \in rows : posts[i].chan = kind
      /\ \A i \in 1 .. Len(posts) : posts[i].chan = kind /\ posts[i].seq > fwd.after /\ i \notin gone => i \in rows
  BY <1>1, <1>2 DEF Chan!After, Chan!Alive
<1> HIDE DEF rows
<1>4. /\ page # {} /\ page \subseteq rows
      /\ \A i \in rows, q \in page : posts[i].seq <= posts[q].seq => i \in page
  BY <1>0, <1>2, <1>3, FirstPage
<1> HIDE DEF page
<1>5. \A i \in 1 .. Len(posts) : posts[i].seq \in 1 .. MaxMsgs
  BY <1>0, NumbersBounded
<1>6. T \subseteq 0 .. MaxMsgs /\ T # {}
  <2>1. \A i \in page : posts[i].seq \in 0 .. MaxMsgs
    BY <1>2, <1>3, <1>4, <1>5
  <2>2. PICK i \in page : TRUE
    BY <1>4
  <2>3. posts[i].seq \in T
    BY <2>2
  <2>4. QED
    BY <2>1, <2>3
<1>7. PICK t \in T : \A u \in T : u <= t
  BY <1>2, <1>6, GreatestExists
<1>8. Chan!Max(T) \in T /\ \A u \in T : Chan!Max(T) >= u
  <2>1. t \in Nat /\ \A u \in T : u \in Nat /\ t >= u
    BY <1>2, <1>6, <1>7
  <2>2. QED
    BY <2>1 DEF Chan!Max
<1>9. PICK q \in page : Chan!Max(T) = posts[q].seq
  BY <1>8
<1>10. fwd' = [after |-> posts[q].seq, got |-> fwd.got \cup page] /\ q \in 1 .. Len(posts) /\ posts[q].chan = kind
  BY <1>1, <1>3, <1>4, <1>9 DEF Chan!NextAfter, page, rows
<1>11. fwd' \in [after : Nat, got : SUBSET (1 .. Len(posts))] /\ fwd'.after <= MaxMsgs
  <2>1. fwd.got \subseteq 1 .. Len(posts) /\ page \subseteq 1 .. Len(posts) /\ posts[q].seq \in Nat /\ posts[q].seq <= MaxMsgs
    BY <1>0, <1>2, <1>3, <1>4, <1>5, <1>10 DEF Forward
  <2>2. QED
    BY <1>10, <2>1
<1>12. fwd'.after < next[kind]
  BY <1>0, <1>10 DEF Numbered
<1>13. ASSUME NEW i \in 1 .. Len(posts), posts[i].chan = kind, posts[i].seq <= fwd'.after, i \notin fwd'.got
       PROVE  i \in gone
  <2>1. i \notin fwd.got /\ i \notin page /\ posts[i].seq <= posts[q].seq
    BY <1>10, <1>13
  <2>2. posts[i].seq \in Nat /\ fwd.after \in Nat
    BY <1>0, <1>2, <1>5 DEF Forward
  <2>3. CASE posts[i].seq <= fwd.after
    BY <1>0, <1>13, <2>1, <2>3 DEF Forward
  <2>4. CASE posts[i].seq > fwd.after
    BY <1>3, <1>4, <1>13, <2>1, <2>4
  <2>5. QED
    BY <2>2, <2>3, <2>4
<1>14. QED
  BY <1>1, <1>11, <1>12, <1>13 DEF Forward

(* list_messages: a reader begins, *)
LEMMA BackBeginsKeeps ==
  ASSUME BoardInv, NEW p, NEW c \in Chan!Channels, Chan!BackBegins(p, c)
  PROVE  Backward'
<1>0. MessagesTyped
  BY DEF BoardInv
<1>1. Chan!Ids = 1 .. Len(posts)
  BY <1>0, IdsAre
<1>2. /\ posts' = posts /\ gone' = gone
      /\ back' = [on |-> TRUE, chan |-> c, before |-> 0, got |-> {}, want |-> Chan!Before(c, 0), done |-> FALSE]
  BY DEF Chan!BackBegins, Chan!NoBack
<1>3. Chan!Before(c, 0) \subseteq 1 .. Len(posts) /\ \A i \in Chan!Before(c, 0) : posts[i].chan = c
  BY <1>1 DEF Chan!Before
<1>4. QED
  BY <1>2, <1>3 DEF Backward

(* is given the page below its cursor, and the last one when it is not full.   *)
LEMMA ListBackwardKeeps ==
  ASSUME Chan!Bounds, BoardInv, Chan!ListBackward
  PROVE  Backward'
<1>0. MessagesTyped /\ Numbered /\ Backward
  BY DEF BoardInv
<1> DEFINE rows == Chan!Before(back.chan, back.before)
           page == Chan!Last(rows)
           full == Cardinality(page) = PageSize
           T == {posts[i].seq : i \in page}
<1>1. /\ back' = [back EXCEPT !.got = back.got \cup page, !.done = ~full,
                              !.before = IF full THEN Chan!NextBefore(page) ELSE back.before]
      /\ ~back.done /\ posts' = posts /\ gone' = gone
  BY SameCard DEF Chan!ListBackward
<1>2. Chan!Ids = 1 .. Len(posts) /\ Len(posts) \in Nat /\ PageSize \in Nat \ {0} /\ MaxMsgs \in Nat
  BY <1>0, IdsAre DEF Chan!Bounds
<1>3. /\ back \in [on : BOOLEAN, chan : Chan!Channels, before : Nat, got : SUBSET (1 .. Len(posts)), want : SUBSET (1 .. Len(posts)), done : BOOLEAN]
      /\ \A i \in back.want : posts[i].chan = back.chan
      /\ \A i \in back.want : i \in gone \/ i \in back.got \/ (~back.done /\ (back.before = 0 \/ posts[i].seq < back.before))
  BY <1>0 DEF Backward
<1>4. /\ rows \subseteq 1 .. Len(posts) /\ \A i \in rows : posts[i].chan = back.chan
      /\ \A i \in back.want : i \in gone \/ i \in back.got \/ i \in rows
  BY <1>2, <1>3 DEF Chan!Before, Chan!Alive
<1> HIDE DEF rows
<1>5. /\ page \subseteq rows
      /\ \A i \in rows, q \in page : posts[q].seq <= posts[i].seq => i \in page
      /\ ~full => page = rows
  BY <1>0, <1>4, LastPage
<1> HIDE DEF page
<1>6. \A i \in 1 .. Len(posts) : posts[i].seq \in 1 .. MaxMsgs
  BY <1>0, NumbersBounded
<1>7. full => /\ Chan!NextBefore(page) \in Nat \ {0}
              /\ \A i \in rows : i \in page \/ posts[i].seq < Chan!NextBefore(page)
  <2> SUFFICES ASSUME full
               PROVE  /\ Chan!NextBefore(page) \in Nat \ {0}
                      /\ \A i \in rows : i \in page \/ posts[i].seq < Chan!NextBefore(page)
    OBVIOUS
  <2>1. page # {}
    <3>1. page = {} => Cardinality(page) = 0
      BY FS_EmptySet
    <3>2. QED
      BY <1>2, <3>1
  <2>2. T \subseteq Nat /\ T # {} /\ 0 \notin T
    <3>1. \A i \in page : posts[i].seq \in Nat \ {0}
      BY <1>2, <1>4, <1>5, <1>6
    <3>2. PICK i \in page : TRUE
      BY <2>1
    <3>3. posts[i].seq \in T
      BY <3>2
    <3>4. QED
      BY <3>1, <3>3
  <2>3. PICK t \in T : \A u \in T : t <= u
    BY <2>2, LeastExists
  <2>4. Chan!Min(T) \in T
    BY <2>3 DEF Chan!Min
  <2>5. PICK q \in page : posts[q].seq = Chan!Min(T)
    BY <2>4
  <2>6. Chan!NextBefore(page) = posts[q].seq
    BY <2>5 DEF Chan!NextBefore
  <2>7. ASSUME NEW i \in rows, i \notin page PROVE posts[i].seq < posts[q].seq
    <3>1. posts[i].seq \in Nat /\ posts[q].seq \in Nat
      BY <1>2, <1>4, <1>5, <1>6
    <3>2. ~(posts[q].seq <= posts[i].seq)
      BY <1>5, <2>7
    <3>3. QED
      BY <3>1, <3>2
  <2>8. QED
    BY <2>2, <2>4, <2>5, <2>6, <2>7
<1> HIDE DEF full
<1>8. /\ back'.on = back.on /\ back'.chan = back.chan /\ back'.want = back.want /\ back'.got = back.got \cup page
      /\ back'.done = ~full /\ back'.before = IF full THEN Chan!NextBefore(page) ELSE back.before
  BY <1>1, <1>3
<1>9. back' \in [on : BOOLEAN, chan : Chan!Channels, before : Nat, got : SUBSET (1 .. Len(posts)), want : SUBSET (1 .. Len(posts)), done : BOOLEAN]
  <2>1. back.got \cup page \in SUBSET (1 .. Len(posts)) /\ (~full) \in BOOLEAN
    BY <1>3, <1>4, <1>5
  <2>2. (IF full THEN Chan!NextBefore(page) ELSE back.before) \in Nat
    BY <1>3, <1>7
  <2>3. QED
    BY <1>1, <1>3, <2>1, <2>2
<1>10. ASSUME NEW i \in back.want, i \notin gone, i \notin back'.got
       PROVE  ~back'.done /\ (back'.before = 0 \/ posts[i].seq < back'.before)
  <2>1. i \in rows /\ i \notin page
    BY <1>4, <1>8, <1>10
  <2>2. full
    BY <1>5, <2>1
  <2>3. posts[i].seq < Chan!NextBefore(page)
    BY <1>7, <2>1, <2>2
  <2>4. QED
    BY <1>8, <2>2, <2>3
<1>11. QED
  BY <1>1, <1>3, <1>8, <1>9, <1>10 DEF Backward

(* delete_network_bulletin_post. *)
LEMMA DeletePostKeeps ==
  ASSUME Chan!Bounds, BoardInv, NEW p, NEW i \in Chan!Ids, Chan!DeletePost(p, i)
  PROVE  BoardInv'
<1>0. MessagesTyped /\ Numbered /\ Threads /\ Deletions /\ RatesTyped /\ Rates /\ Forward /\ Backward
  BY DEF BoardInv
<1>1. Chan!Ids = 1 .. Len(posts) /\ Len(posts) \in Nat /\ MaxMsgs \in Nat /\ Len(posts) <= MaxMsgs
  BY <1>0, IdsAre DEF Chan!Bounds, MessagesTyped
<1>2. i \in 1 .. Len(posts) /\ i \in 1 .. MaxMsgs
  BY <1>1
<1>3. /\ outbox' = Chan!Announced(i) /\ gone' = gone \cup {i}
      /\ open' = open /\ posts' = posts /\ next' = next /\ bucket' = bucket /\ log' = log
      /\ kind' = kind /\ fwd' = fwd /\ back' = back
  BY DEF Chan!DeletePost, Chan!readers
<1>4. MessagesTyped' /\ Numbered' /\ Threads'
  BY <1>0, <1>2, <1>3 DEF MessagesTyped, Numbered, Threads
<1>5. RatesTyped' /\ Rates'
  BY <1>0, <1>3 DEF RatesTyped, Rates, Recent, Earlier
<1>6. Forward' /\ Backward'
  BY <1>0, <1>3 DEF Forward, Backward
<1>7. Deletions'
  BY <1>0, <1>2, <1>3 DEF Deletions, Chan!Announced
<1>8. QED
  BY <1>4, <1>5, <1>6, <1>7 DEF BoardInv

-----------------------------------------------------------------------------
(* A message is written. *)
LEMMA MessageKeeps ==
  ASSUME Chan!Bounds, BoardInv, NEW p \in Chan!Writers, NEW c \in Chan!Channels, NEW root \in 0 .. Len(posts),
         NEW parent \in 0 .. Len(posts), NEW e \in Chan!Buckets, Chan!Charge(p, e), Chan!Write(p, c, root, parent),
         Answers(c, root, parent), Len(posts) < MaxMsgs, open' \subseteq Chan!Channels,
         UNCHANGED <<gone, outbox, Chan!readers>>
  PROVE  BoardInv'
<1>0. MessagesTyped /\ Numbered /\ Threads /\ Deletions /\ RatesTyped /\ Rates /\ Forward /\ Backward
  BY DEF BoardInv
<1>1. MessagesTyped' /\ Numbered'
  BY <1>0, WriteNumbers
<1>2. Threads'
  BY <1>0, WriteThreads
<1>3. Deletions'
  BY <1>0 DEF Deletions
<1>4. RatesTyped' /\ Rates'
  <2>1. Len(posts') = Len(posts) + 1
    BY <1>0, WriteFacts
  <2>2. QED
    BY <1>0, <2>1, ChargeRates
<1>5. Forward' /\ Backward'
  BY <1>0, WriteReaders
<1>6. QED
  BY <1>1, <1>2, <1>3, <1>4, <1>5 DEF BoardInv

LEMMA BulletinPostKeeps ==
  ASSUME Chan!Bounds, BoardInv, NEW p \in Chan!Writers, NEW i \in {0} \cup Chan!Ids, Len(posts) < MaxMsgs, Chan!BulletinPost(p, i)
  PROVE  BoardInv'
<1>0. MessagesTyped /\ Numbered /\ Threads
  BY DEF BoardInv
<1>1. Chan!Ids = 1 .. Len(posts) /\ Len(posts) \in Nat
  BY <1>0, IdsAre
<1>2. i \in 0 .. Len(posts) /\ (i # 0 => i \in 1 .. Len(posts))
  BY <1>1
<1>3. /\ i # 0 => posts[i].chan = "board"
      /\ Chan!Charge(p, "network.mailbox") /\ Chan!Write(p, "board", Chan!RootOf(i), i)
      /\ open' = open \cup {"board"} /\ UNCHANGED <<gone, outbox, Chan!readers>>
  BY DEF Chan!BulletinPost
<1>4. i # 0 => posts[i].root \in Nat /\ posts[i].root < i
  BY <1>0, <1>2, MessageFacts DEF Threads
<1>5. Chan!RootOf(i) \in 0 .. Len(posts) /\ Answers("board", Chan!RootOf(i), i)
  <2>1. CASE i = 0
    BY <1>1, <2>1 DEF Chan!RootOf, Answers
  <2>2. CASE i # 0 /\ posts[i].root = 0
    BY <1>1, <1>2, <1>3, <2>2 DEF Chan!RootOf, Answers
  <2>3. CASE i # 0 /\ posts[i].root # 0
    <3>1. Chan!RootOf(i) = posts[i].root /\ posts[i].root \in 0 .. Len(posts)
      BY <1>1, <1>2, <1>4, <2>3 DEF Chan!RootOf
    <3>2. posts[posts[i].root].chan = "board" /\ posts[posts[i].root].root = 0
      BY <1>0, <1>2, <1>3, <2>3 DEF Threads
    <3>3. QED
      BY <2>3, <3>1, <3>2 DEF Answers
  <2>4. QED
    BY <2>1, <2>2, <2>3
<1>6. "board" \in Chan!Channels /\ "network.mailbox" \in Chan!Buckets /\ open' \subseteq Chan!Channels
  BY <1>0, <1>3 DEF Chan!Channels, Chan!Buckets, MessagesTyped
<1>7. QED
  BY <1>2, <1>3, <1>5, <1>6, MessageKeeps

LEMMA CreateMessageKeeps ==
  ASSUME Chan!Bounds, BoardInv, NEW p \in Chan!Writers, NEW c \in Chan!Channels, NEW r \in {0} \cup Chan!Ids, NEW i \in {0} \cup Chan!Ids,
         Len(posts) < MaxMsgs, Chan!CreateMessage(p, c, r, i)
  PROVE  BoardInv'
<1>0. MessagesTyped
  BY DEF BoardInv
<1>1. r \in 0 .. Len(posts) /\ i \in 0 .. Len(posts)
  BY <1>0, IdsAre
<1>2. /\ Chan!Charge(p, "peer.message") /\ Chan!Write(p, c, r, i) /\ Chan!Threadable(c, r, i)
      /\ open' = open /\ UNCHANGED <<gone, outbox, Chan!readers>>
  BY DEF Chan!CreateMessage
<1>3. Answers(c, r, i)
  BY <1>2 DEF Answers, Chan!Threadable
<1>4. "peer.message" \in Chan!Buckets /\ open' \subseteq Chan!Channels
  BY <1>0, <1>2 DEF Chan!Buckets, MessagesTyped
<1>5. QED
  BY <1>1, <1>2, <1>3, <1>4, MessageKeeps

LEMMA MailboxItemKeeps ==
  ASSUME Chan!Bounds, BoardInv, NEW p \in Chan!Writers, Len(posts) < MaxMsgs, Chan!MailboxItem(p)
  PROVE  BoardInv'
<1>0. MessagesTyped
  BY DEF BoardInv
<1>1. 0 \in 0 .. Len(posts)
  BY <1>0, IdsAre
<1>2. /\ Chan!Charge(p, "network.mailbox") /\ Chan!Write(p, "box", 0, 0)
      /\ open' = open /\ UNCHANGED <<gone, outbox, Chan!readers>>
  BY DEF Chan!MailboxItem
<1>3. Answers("box", 0, 0)
  BY DEF Answers
<1>4. "box" \in Chan!Channels /\ "network.mailbox" \in Chan!Buckets /\ open' \subseteq Chan!Channels
  BY <1>0, <1>2 DEF Chan!Channels, Chan!Buckets, MessagesTyped
<1>5. QED
  BY <1>1, <1>2, <1>3, <1>4, MessageKeeps

(* Steps that write no message: the parts they do not touch stay as they are.  *)
LEMMA PartsUnchanged ==
  ASSUME BoardInv
  PROVE  /\ UNCHANGED <<posts, gone>> /\ open' \subseteq Chan!Channels => MessagesTyped'
         /\ UNCHANGED <<posts, next>> => Numbered'
         /\ UNCHANGED posts => Threads'
         /\ UNCHANGED <<gone, outbox>> => Deletions'
         /\ UNCHANGED <<posts, bucket, log>> => RatesTyped' /\ Rates'
         /\ UNCHANGED <<posts, next, gone, kind, fwd>> => Forward'
         /\ UNCHANGED <<posts, gone, back>> => Backward'
<1>0. MessagesTyped /\ Numbered /\ Threads /\ Deletions /\ RatesTyped /\ Rates /\ Forward /\ Backward
  BY DEF BoardInv
<1>1. UNCHANGED <<posts, gone>> /\ open' \subseteq Chan!Channels => MessagesTyped'
  BY <1>0 DEF MessagesTyped
<1>2. UNCHANGED <<posts, next>> => Numbered'
  BY <1>0 DEF Numbered
<1>3. UNCHANGED posts => Threads'
  BY <1>0 DEF Threads
<1>4. UNCHANGED <<gone, outbox>> => Deletions'
  BY <1>0 DEF Deletions
<1>5. UNCHANGED <<posts, bucket, log>> => RatesTyped'
  BY <1>0 DEF RatesTyped
<1>6. UNCHANGED <<posts, bucket, log>> => Rates'
  BY <1>0 DEF Rates, Recent, Earlier
<1>7. UNCHANGED <<posts, next, gone, kind, fwd>> => Forward'
  BY <1>0 DEF Forward
<1>8. UNCHANGED <<posts, gone, back>> => Backward'
  BY <1>0 DEF Backward
<1>9. QED
  BY <1>1, <1>2, <1>3, <1>4, <1>5, <1>6, <1>7, <1>8

LEMMA BoardStep ==
  ASSUME Chan!Bounds, BoardInv, [Chan!Next]_(Chan!vars)
  PROVE  BoardInv'
<1>0. MessagesTyped /\ RatesTyped /\ Rates /\ open \subseteq Chan!Channels
  BY DEF BoardInv, MessagesTyped
<1>1. CASE Chan!Tick
  <2>1. UNCHANGED <<open, posts, next, gone, outbox, kind, fwd, back>>
    BY <1>1 DEF Chan!Tick, Chan!readers
  <2>2. RatesTyped' /\ Rates'
    BY <1>0, <1>1, TickRates
  <2>3. QED
    BY <1>0, <2>1, <2>2, PartsUnchanged DEF BoardInv
<1>2. CASE Chan!ListBackward
  <2>1. UNCHANGED <<open, posts, next, gone, outbox, bucket, log, kind, fwd>>
    BY <1>2 DEF Chan!ListBackward
  <2>2. Backward'
    BY <1>2, ListBackwardKeeps
  <2>3. QED
    BY <1>0, <2>1, <2>2, PartsUnchanged DEF BoardInv
<1>3. CASE Chan!BackEnds
  <2>1. UNCHANGED <<open, posts, next, gone, outbox, bucket, log, kind, fwd>> /\ back' = Chan!NoBack
    BY <1>3 DEF Chan!BackEnds
  <2>2. Backward'
    BY <2>1 DEF Backward, Chan!NoBack, Chan!Channels
  <2>3. QED
    BY <1>0, <2>1, <2>2, PartsUnchanged DEF BoardInv
<1>4. CASE Chan!ListForward
  <2>1. UNCHANGED <<open, posts, next, gone, outbox, bucket, log, kind, back>>
    BY <1>4 DEF Chan!ListForward
  <2>2. Forward'
    BY <1>4, ListForwardKeeps
  <2>3. QED
    BY <1>0, <2>1, <2>2, PartsUnchanged DEF BoardInv
<1>5. ASSUME NEW p, NEW c \in Chan!Channels, Chan!BackBegins(p, c) PROVE BoardInv'
  <2>1. UNCHANGED <<open, posts, next, gone, outbox, bucket, log, kind, fwd>>
    BY <1>5 DEF Chan!BackBegins
  <2>2. Backward'
    BY <1>5, BackBeginsKeeps
  <2>3. QED
    BY <1>0, <2>1, <2>2, PartsUnchanged DEF BoardInv
<1>6. ASSUME NEW p, NEW c \in Chan!Channels, Chan!CreateChannel(p, c) PROVE BoardInv'
  <2>1. UNCHANGED <<posts, next, gone, outbox, bucket, log, kind, fwd, back>> /\ open' = open \cup {c}
    BY <1>6 DEF Chan!CreateChannel, Chan!readers
  <2>2. QED
    BY <1>0, <2>1, PartsUnchanged DEF BoardInv
<1>7. CASE UNCHANGED Chan!vars
  <2>1. UNCHANGED <<open, posts, next, gone, outbox, bucket, log, kind, fwd, back>>
    BY <1>7 DEF Chan!vars
  <2>2. QED
    BY <1>0, <2>1, PartsUnchanged DEF BoardInv
<1>8. QED
  BY <1>1, <1>2, <1>3, <1>4, <1>5, <1>6, <1>7, DeletePostKeeps, MailboxItemKeeps, BulletinPostKeeps, CreateMessageKeeps
     DEF Chan!Next

(* The channels of a team stay whole: a thread lies in one channel and is      *)
(* answered within itself, a deletion is announced once, a paired server       *)
(* writes at most twice the limit in any stretch of a window's length, and a   *)
(* reader of either kind misses no message that still stands (create_message,  *)
(* delete_network_bulletin_post, _charge_rate_bucket, list_messages,           *)
(* list_network_bulletin).                                                     *)
THEOREM BoardStaysWhole ==
  ASSUME Chan!Bounds
  PROVE  Chan!Spec => []BoardWhole
<1>1. Chan!Init => BoardInv
  BY BoardInitially
<1>2. BoardInv /\ [Chan!Next]_(Chan!vars) => BoardInv'
  BY BoardStep
<1>3. BoardInv => BoardWhole
  BY InvariantSuffices
<1>4. QED
  BY <1>1, <1>2, <1>3, PTL DEF Chan!Spec

-----------------------------------------------------------------------------
(* The directory of servers. Nodes are numbered from one, the host is no    *)
(* peer of its own, and a heartbeat is not written more than once a second. *)
DirBounds ==
  /\ \E n \in Nat : Dir!Nodes \subseteq 1 .. n
  /\ HubNode \notin Peers /\ Beating \subseteq Peers
  /\ Lease \in Nat /\ WriteEvery \in Nat \ {0} /\ MaxBinds \in Nat /\ PerPage \in Nat

DirTyped ==
  /\ node \in [Dir!Nodes -> [status : Dir!Statuses, age : Dir!Ages]]
  /\ binds \in [Dir!Nodes -> Seq({"active", "revoked"})] /\ \A n \in Dir!Nodes : Len(binds[n]) <= MaxBinds
  /\ beat \in [Peers -> [bind : 0 .. MaxBinds, age : Dir!Ages]] /\ heard \in [Peers -> Dir!Ages]
  /\ draft \in [to : Dir!Nodes \cup {0}, life : Int]
  /\ letters \in Seq([to : Dir!Nodes, life : Int, got : Int])
  /\ list \in [on : BOOLEAN, after : Dir!Nodes \cup {0}, got : SUBSET Dir!Nodes, always : SUBSET Dir!Nodes, more : BOOLEAN]

(* A node that is not there has no binding; one that is shown online after  *)
(* a pairing is still paired; a heartbeat under way has seen a binding.      *)
Backed ==
  /\ \A n \in Dir!Nodes : node[n].status = "none" => binds[n] = <<>> /\ node[n].age = Dir!Never
  /\ Dir!PresenceBacked
  /\ \A n \in Peers : beat[n] # Dir!NoBeat => beat[n].bind \in 1 .. Len(binds[n])

(* What was written of a server lags what it was told by less than a write   *)
(* interval.                                                                 *)
BeatsFresh == \A n \in Peers : node[n].age - heard[n] < WriteEvery

MailRouted ==
  /\ draft # Dir!NoDraft => draft.to \in Dir!Nodes /\ draft.life # 0
  /\ Dir!RouteKept

(* A listing has given every server it owes, or the server is behind the     *)
(* last page; what it owes is visible.                                       *)
AllListed ==
  list.on => /\ \A n \in list.always : Dir!Visible(n)
             /\ \A n \in list.always : n \in list.got \/ (list.more /\ n > list.after)

DirInv == DirTyped /\ Backed /\ BeatsFresh /\ MailRouted /\ AllListed

(* No heartbeat that was answered is lost.                                   *)
Undropped ==
  \A n \in Peers : node[n].status = "active" /\ node'[n].status = "offline" /\ binds'[n] = binds[n]
    => heard[n] > Lease - WriteEvery

LEMMA DirCard == ASSUME NEW S PROVE Dir!Cardinality(S) = Cardinality(S)
  BY DEF Dir!Cardinality, Cardinality

LEMMA MinPair ==
  ASSUME NEW x \in Int, NEW y \in Int
  PROVE  Dir!Min({x, y}) \in {x, y} /\ Dir!Min({x, y}) <= x /\ Dir!Min({x, y}) <= y
<1>1. \E z \in {x, y} : \A w \in {x, y} : z =< w
  <2>1. CASE x <= y
    BY <2>1
  <2>2. CASE ~(x <= y)
    BY <2>2
  <2>3. QED
    BY <2>1, <2>2
<1>2. Dir!Min({x, y}) \in {x, y} /\ \A w \in {x, y} : Dir!Min({x, y}) =< w
  BY <1>1 DEF Dir!Min
<1>3. QED
  BY <1>2

LEMMA GreatestOf ==
  ASSUME NEW n \in Nat, NEW T, T \subseteq 0 .. n, T # {}
  PROVE  Dir!Max(T) \in T /\ \A y \in T : y <= Dir!Max(T)
<1>1. PICK x \in T : \A y \in T : y <= x
  BY GreatestExists
<1>2. \A y \in T : y \in Nat /\ x >= y
  BY <1>1
<1>3. Dir!Max(T) \in T /\ \A y \in T : Dir!Max(T) >= y
  BY <1>2 DEF Dir!Max
<1>4. QED
  BY <1>2, <1>3

(* The newest binding is one of the node's.                                  *)
LEMMA NewestBound ==
  ASSUME DirBounds, DirTyped, NEW n \in Dir!Nodes, Dir!Live(n) # {}
  PROVE  Dir!Max(Dir!Live(n)) \in Dir!Live(n) /\ Dir!Max(Dir!Live(n)) \in 1 .. Len(binds[n]) /\ Dir!Max(Dir!Live(n)) \in 1 .. MaxBinds
<1>1. binds[n] \in Seq({"active", "revoked"}) /\ Len(binds[n]) \in Nat /\ Len(binds[n]) <= MaxBinds
      /\ DOMAIN binds[n] = 1 .. Len(binds[n])
  BY DEF DirTyped
<1>2. Dir!Live(n) \subseteq 0 .. Len(binds[n]) /\ Dir!Live(n) \subseteq 1 .. Len(binds[n])
  BY <1>1 DEF Dir!Live
<1>3. Dir!Max(Dir!Live(n)) \in Dir!Live(n)
  BY <1>1, <1>2, GreatestOf
<1>4. QED
  BY <1>1, <1>2, <1>3 DEF DirBounds

(* Pages are taken from the front: what a page leaves out is behind it.      *)
LEMMA FrontPage ==
  ASSUME DirBounds, NEW S, S \subseteq Dir!Nodes, S # {}, NEW k \in Nat \ {0}
  PROVE  /\ Dir!Front(S, k) # {} /\ Dir!Front(S, k) \subseteq S
         /\ Dir!Max(Dir!Front(S, k)) \in Dir!Front(S, k)
         /\ \A i \in S : i \in Dir!Front(S, k) \/ i > Dir!Max(Dir!Front(S, k))
<1> DEFINE upTo(i) == {j \in S : j <= i}
<1>0. PICK n \in Nat : Dir!Nodes \subseteq 1 .. n
  BY DEF DirBounds
<1>1. S \subseteq 1 .. n /\ S \subseteq 0 .. n /\ \A i \in S : i \in Nat
  BY <1>0
<1>2. IsFiniteSet(S)
  <2>1. IsFiniteSet(1 .. n)
    BY FS_Interval
  <2>2. QED
    BY <1>1, <2>1, FS_Subset
<1>3. \A i \in S : upTo(i) \subseteq S /\ IsFiniteSet(upTo(i)) /\ Cardinality(upTo(i)) \in Nat
  BY <1>2, FS_Subset, FS_CardinalityType
<1>4. Dir!Front(S, k) = {i \in S : Cardinality(upTo(i)) <= k}
  BY DirCard DEF Dir!Front
<1>5. PICK i0 \in S : \A j \in S : i0 <= j
  <2>1. S \subseteq Nat
    BY <1>1
  <2>2. QED
    BY <2>1, LeastExists
<1>6. upTo(i0) = {i0}
  <2>1. ASSUME NEW j \in S, j <= i0 PROVE j = i0
    BY <1>1, <1>5, <2>1
  <2>2. i0 \in upTo(i0)
    BY <1>1
  <2>3. QED
    BY <2>1, <2>2
<1>7. Cardinality(upTo(i0)) = 1
  BY <1>6, FS_Singleton
<1>8. ASSUME NEW i \in S, NEW j \in S, i <= j
      PROVE  Cardinality(upTo(i)) <= Cardinality(upTo(j))
  <2>0. ASSUME NEW x \in S, x <= i PROVE x <= j
    BY <1>1, <1>8, <2>0
  <2>1. upTo(i) \subseteq upTo(j)
    BY <2>0
  <2>2. QED
    BY <1>3, <2>1, FS_Subset
<1> HIDE DEF upTo
<1>9. i0 \in Dir!Front(S, k) /\ Dir!Front(S, k) \subseteq S
  BY <1>4, <1>7
<1>10. /\ Dir!Max(Dir!Front(S, k)) \in Dir!Front(S, k)
       /\ \A i \in Dir!Front(S, k) : i <= Dir!Max(Dir!Front(S, k))
  <2>1. Dir!Front(S, k) \subseteq 0 .. n /\ Dir!Front(S, k) # {}
    BY <1>1, <1>9
  <2> HIDE DEF upTo
  <2>2. QED
    BY <2>1, GreatestOf
<1>11. ASSUME NEW i \in S, i <= Dir!Max(Dir!Front(S, k))
       PROVE  i \in Dir!Front(S, k)
  <2>1. PICK q \in S : q = Dir!Max(Dir!Front(S, k)) /\ Cardinality(upTo(q)) <= k
    BY <1>4, <1>10
  <2>2. Cardinality(upTo(i)) <= Cardinality(upTo(q))
    BY <1>8, <1>11, <2>1
  <2>3. Cardinality(upTo(i)) <= k
    BY <1>3, <2>1, <2>2
  <2>4. QED
    BY <1>4, <2>3
<1>12. ASSUME NEW i \in S PROVE i \in Dir!Front(S, k) \/ i > Dir!Max(Dir!Front(S, k))
  <2>1. Dir!Max(Dir!Front(S, k)) \in Nat /\ i \in Nat
    BY <1>1, <1>9, <1>10
  <2>2. QED
    BY <1>11, <2>1
<1>13. QED
  BY <1>9, <1>10, <1>12

-----------------------------------------------------------------------------
LEMMA AgesAre ==
  ASSUME DirBounds
  PROVE  /\ Dir!Never = Lease + 1 /\ Dir!Never \in Nat \ {0} /\ Dir!Ages = 0 .. Dir!Never /\ Dir!Never \in Dir!Ages /\ 0 \in Dir!Ages
         /\ \A x \in Dir!Ages : x \in Nat /\ x <= Dir!Never
         /\ \A x \in Dir!Ages : Dir!Older(x) \in Dir!Ages /\ (Dir!Older(x) = x + 1 \/ (Dir!Older(x) = Dir!Never /\ x = Dir!Never))
         /\ Dir!Older(Dir!Never) = Dir!Never
  BY DEF DirBounds, Dir!Never, Dir!Ages, Dir!Older

LEMMA NoBeatTyped ==
  ASSUME DirBounds
  PROVE  Dir!NoBeat \in [bind : 0 .. MaxBinds, age : Dir!Ages]
<1>1. 0 \in 0 .. MaxBinds
  BY DEF DirBounds
<1>2. 0 \in Dir!Ages
  BY AgesAre
<1>3. QED
  BY <1>1, <1>2 DEF Dir!NoBeat

LEMMA NodeFacts ==
  ASSUME DirBounds, DirTyped
  PROVE  /\ \A n \in Dir!Nodes : /\ node[n] \in [status : Dir!Statuses, age : Dir!Ages]
                                 /\ node[n].status \in Dir!Statuses /\ node[n].age \in Dir!Ages /\ node[n].age \in Nat
         /\ \A n \in Peers : /\ beat[n] \in [bind : 0 .. MaxBinds, age : Dir!Ages]
                             /\ beat[n].bind \in 0 .. MaxBinds /\ beat[n].age \in Dir!Ages
                             /\ heard[n] \in Dir!Ages /\ heard[n] \in Nat
         /\ Peers \subseteq Dir!Nodes /\ HubNode \in Dir!Nodes /\ WriteEvery \in Nat \ {0} /\ Lease \in Nat
<1>1. /\ \A n \in Dir!Nodes : node[n] \in [status : Dir!Statuses, age : Dir!Ages]
      /\ \A n \in Peers : beat[n] \in [bind : 0 .. MaxBinds, age : Dir!Ages] /\ heard[n] \in Dir!Ages
  BY DEF DirTyped
<1>2. /\ \A n \in Dir!Nodes : node[n].status \in Dir!Statuses /\ node[n].age \in Dir!Ages
      /\ \A n \in Peers : beat[n].bind \in 0 .. MaxBinds /\ beat[n].age \in Dir!Ages
  BY <1>1
<1>3. Peers \subseteq Dir!Nodes /\ HubNode \in Dir!Nodes
  BY DEF Dir!Nodes
<1>4. QED
  BY <1>1, <1>2, <1>3, AgesAre DEF DirBounds

(* A listing that is not read further owes what it owed.                     *)
LEMMA ListedKept ==
  ASSUME AllListed, \A n \in Dir!Nodes : Dir!Visible(n) => Dir!Visible(n)', list' = list, DirTyped
  PROVE  AllListed'
<1>1. \A n \in list.always : n \in Dir!Nodes
  BY DEF DirTyped
<1>2. QED
  BY <1>1 DEF AllListed

(* What is relisted is visible.                                              *)
LEMMA RelistKept ==
  ASSUME AllListed, DirTyped, list' = Dir!Relist(list)
  PROVE  /\ AllListed'
         /\ list' \in [on : BOOLEAN, after : Dir!Nodes \cup {0}, got : SUBSET Dir!Nodes, always : SUBSET Dir!Nodes, more : BOOLEAN]
<1>1. list \in [on : BOOLEAN, after : Dir!Nodes \cup {0}, got : SUBSET Dir!Nodes, always : SUBSET Dir!Nodes, more : BOOLEAN]
  BY DEF DirTyped
<1>2. PICK V \in SUBSET Dir!Nodes : V = {n \in Dir!Nodes : Dir!Visible(n)'}
  OBVIOUS
<1>3. list' = [list EXCEPT !.always = list.always \cap V]
  BY <1>1, <1>2 DEF Dir!Relist
<1>4. /\ list'.on = list.on /\ list'.after = list.after /\ list'.got = list.got /\ list'.more = list.more
      /\ list'.always = list.always \cap V
  BY <1>1, <1>3
<1>5. \A n \in V : Dir!Visible(n)'
  BY <1>2
<1>6. AllListed'
  BY <1>4, <1>5 DEF AllListed
<1>7. QED
  BY <1>1, <1>3, <1>6

LEMMA TickKept ==
  ASSUME DirBounds, DirInv, Dir!Tick
  PROVE  DirInv' /\ Undropped
<1>0. DirTyped /\ Backed /\ BeatsFresh /\ MailRouted /\ AllListed
  BY DEF DirInv
<1>1. binds' = binds /\ draft' = draft /\ letters' = letters /\ list' = list
  BY DEF Dir!Tick
<1>2. /\ \A n \in Dir!Nodes : /\ node'[n] \in [status : Dir!Statuses, age : Dir!Ages]
                              /\ node'[n].status = node[n].status /\ node'[n].age = Dir!Older(node[n].age)
      /\ node' = [n \in Dir!Nodes |-> node'[n]]
  BY <1>0, AgesAre, NodeFacts DEF Dir!Tick
<1>3. /\ \A n \in Peers : /\ beat'[n] \in [bind : 0 .. MaxBinds, age : Dir!Ages]
                          /\ beat'[n].bind = beat[n].bind /\ (beat'[n] # Dir!NoBeat => beat[n] # Dir!NoBeat)
      /\ beat' = [n \in Peers |-> beat'[n]]
  <2>1. \A n \in Peers : beat'[n] = IF beat[n] = Dir!NoBeat THEN Dir!NoBeat ELSE [beat[n] EXCEPT !.age = Dir!Older(@)]
    BY DEF Dir!Tick
  <2>2. Dir!NoBeat \in [bind : 0 .. MaxBinds, age : Dir!Ages]
    BY NoBeatTyped
  <2>3. \A n \in Peers : [beat[n] EXCEPT !.age = Dir!Older(@)] \in [bind : 0 .. MaxBinds, age : Dir!Ages]
                         /\ [beat[n] EXCEPT !.age = Dir!Older(@)].bind = beat[n].bind
    BY <1>0, AgesAre, NodeFacts
  <2>4. beat' = [n \in Peers |-> beat'[n]]
    BY DEF Dir!Tick
  <2>5. QED
    BY <2>1, <2>2, <2>3, <2>4
<1>4. /\ \A n \in Peers : heard'[n] = Dir!Older(heard[n]) /\ heard'[n] \in Dir!Ages
      /\ heard' = [n \in Peers |-> heard'[n]]
  BY <1>0, AgesAre, NodeFacts DEF Dir!Tick
<1>5. DirTyped'
  <2>1. node' \in [Dir!Nodes -> [status : Dir!Statuses, age : Dir!Ages]]
    BY <1>2
  <2>2. beat' \in [Peers -> [bind : 0 .. MaxBinds, age : Dir!Ages]] /\ heard' \in [Peers -> Dir!Ages]
    BY <1>3, <1>4
  <2>3. QED
    BY <1>0, <1>1, <2>1, <2>2 DEF DirTyped
<1>6. Backed'
  <2>1. \A n \in Dir!Nodes : Dir!Live(n)' = Dir!Live(n)
    BY <1>1 DEF Dir!Live
  <2>2. Dir!PresenceBacked'
    BY <1>0, <1>1, <1>2, <2>1, NodeFacts DEF Backed, Dir!PresenceBacked
  <2>3. QED
    BY <1>0, <1>1, <1>2, <1>3, <2>2, AgesAre DEF Backed
<1>7. BeatsFresh'
  <2>1. ASSUME NEW n \in Peers PROVE node'[n].age - heard'[n] < WriteEvery
    <3>1. /\ node[n].age \in Dir!Ages /\ heard[n] \in Dir!Ages /\ node[n].age - heard[n] < WriteEvery
          /\ node'[n].age = Dir!Older(node[n].age) /\ heard'[n] = Dir!Older(heard[n]) /\ WriteEvery \in Nat \ {0}
      BY <1>0, <1>2, <1>4, NodeFacts DEF BeatsFresh
    <3>2. QED
      BY <3>1, AgesAre
  <2>2. QED
    BY <2>1 DEF BeatsFresh
<1>8. MailRouted'
  BY <1>0, <1>1 DEF MailRouted, Dir!RouteKept
<1>9. AllListed'
  <2>1. \A n \in Dir!Nodes : Dir!Visible(n) => Dir!Visible(n)'
    BY <1>1, <1>2 DEF Dir!Visible, Dir!Live
  <2>2. QED
    BY <1>0, <1>1, <2>1, ListedKept
<1>10. Undropped
  BY <1>0, <1>2, NodeFacts DEF Undropped
<1>11. QED
  BY <1>5, <1>6, <1>7, <1>8, <1>9, <1>10 DEF DirInv

LEMMA EnrollKept ==
  ASSUME DirBounds, DirInv, NEW p \in Peers, Dir!Enroll(p)
  PROVE  DirInv' /\ Undropped
<1>0. DirTyped /\ Backed /\ BeatsFresh /\ MailRouted /\ AllListed
  BY DEF DirInv
<1>1. binds' = binds /\ draft' = draft /\ letters' = letters /\ beat' = beat /\ heard' = heard /\ list' = Dir!Relist(list)
  BY DEF Dir!Enroll
<1>2. p \in Dir!Nodes /\ node[p].status = "none" /\ node[p].age = Dir!Never /\ binds[p] = <<>>
  BY <1>0, NodeFacts DEF Dir!Enroll, Backed
<1>3. /\ node' \in [Dir!Nodes -> [status : Dir!Statuses, age : Dir!Ages]]
      /\ \A n \in Dir!Nodes : node'[n] = IF n = p THEN [status |-> "active", age |-> Dir!Never] ELSE node[n]
      /\ \A n \in Dir!Nodes : node'[n].age = node[n].age
  BY <1>0, <1>2, AgesAre, NodeFacts DEF Dir!Enroll, DirTyped, Dir!Statuses
<1>4. DirTyped'
  BY <1>0, <1>1, <1>3, RelistKept DEF DirTyped
<1>5. Backed'
  <2>1. \A n \in Dir!Nodes : Dir!Live(n)' = Dir!Live(n)
    BY <1>1 DEF Dir!Live
  <2>2. Dir!PresenceBacked'
    BY <1>0, <1>1, <1>2, <1>3, <2>1, NodeFacts DEF Backed, Dir!PresenceBacked
  <2>3. QED
    BY <1>0, <1>1, <1>2, <1>3, <2>2 DEF Backed
<1>6. BeatsFresh'
  BY <1>0, <1>1, <1>3, NodeFacts DEF BeatsFresh
<1>7. MailRouted'
  BY <1>0, <1>1 DEF MailRouted, Dir!RouteKept
<1>8. Undropped
  BY <1>0, <1>2, <1>3, NodeFacts DEF Undropped
<1>9. QED
  BY <1>0, <1>1, <1>4, <1>5, <1>6, <1>7, <1>8, RelistKept DEF DirInv

LEMMA BindKept ==
  ASSUME DirBounds, DirInv, NEW p \in Peers, Dir!Bind(p)
  PROVE  DirInv' /\ Undropped
<1>0. DirTyped /\ Backed /\ BeatsFresh /\ MailRouted /\ AllListed
  BY DEF DirInv
<1>1. /\ draft' = draft /\ letters' = letters /\ beat' = beat /\ list' = Dir!Relist(list)
      /\ Dir!Live(p) = {} /\ Len(binds[p]) < MaxBinds
  BY DEF Dir!Bind
<1>2. p \in Dir!Nodes /\ p # HubNode /\ HubNode \notin Peers /\ HubNode \in Dir!Nodes
  BY <1>0, NodeFacts DEF DirBounds
<1>3. /\ node' \in [Dir!Nodes -> [status : Dir!Statuses, age : Dir!Ages]]
      /\ \A n \in Dir!Nodes \ {p, HubNode} : node'[n] = node[n]
      /\ node'[p] = IF node[p].status = "none" THEN [status |-> "offline", age |-> Dir!Never] ELSE node[p]
      /\ node'[HubNode] = IF node[HubNode].status = "active" THEN node[HubNode] ELSE [status |-> "active", age |-> 0]
  <2> DEFINE new == IF node[p].status = "none" THEN [status |-> "offline", age |-> Dir!Never] ELSE node[p]
             own == IF node[HubNode].status = "active" THEN node[HubNode] ELSE [status |-> "active", age |-> 0]
  <2>1. new \in [status : Dir!Statuses, age : Dir!Ages] /\ own \in [status : Dir!Statuses, age : Dir!Ages]
    BY <1>0, <1>2, AgesAre, NodeFacts DEF Dir!Statuses
  <2>2. node' = [[node EXCEPT ![p] = new] EXCEPT ![HubNode] = own]
    BY <1>0, <1>2 DEF Dir!Bind, Dir!HostUp, DirTyped
  <2> HIDE DEF new, own
  <2>3. node' \in [Dir!Nodes -> [status : Dir!Statuses, age : Dir!Ages]] /\ node'[p] = new /\ node'[HubNode] = own
        /\ \A n \in Dir!Nodes \ {p, HubNode} : node'[n] = node[n]
    BY <1>0, <1>2, <2>1, <2>2 DEF DirTyped
  <2>4. QED
    BY <2>3 DEF new, own
<1>4. /\ binds' = [binds EXCEPT ![p] = Append(binds[p], "active")]
      /\ heard' = [heard EXCEPT ![p] = Dir!Never]
  BY DEF Dir!Bind
<1>5. /\ binds[p] \in Seq({"active", "revoked"}) /\ Len(binds[p]) \in Nat
      /\ binds'[p] = Append(binds[p], "active") /\ \A n \in Dir!Nodes \ {p} : binds'[n] = binds[n]
  BY <1>0, <1>2, <1>4 DEF DirTyped
<1>6. /\ binds'[p] \in Seq({"active", "revoked"}) /\ Len(binds'[p]) = Len(binds[p]) + 1
      /\ binds'[p][Len(binds[p]) + 1] = "active" /\ binds'[p] # <<>> /\ binds'[p] # binds[p]
      /\ DOMAIN binds'[p] = 1 .. Len(binds[p]) + 1
  <2>1. Append(binds[p], "active") \in Seq({"active", "revoked"})
    BY <1>5
  <2>2. Len(Append(binds[p], "active")) = Len(binds[p]) + 1 /\ Append(binds[p], "active")[Len(binds[p]) + 1] = "active"
    BY <1>5
  <2>3. binds'[p] # <<>> /\ binds'[p] # binds[p]
    BY <1>5, <2>2
  <2>4. QED
    BY <1>5, <2>1, <2>2, <2>3
<1>7. DirTyped'
  <2>1. binds' \in [Dir!Nodes -> Seq({"active", "revoked"})]
    BY <1>0, <1>2, <1>4, <1>5, <1>6 DEF DirTyped
  <2>2. \A n \in Dir!Nodes : Len(binds'[n]) <= MaxBinds
    <3>1. Len(binds'[p]) <= MaxBinds
      BY <1>1, <1>5, <1>6 DEF DirBounds
    <3>2. \A n \in Dir!Nodes \ {p} : Len(binds'[n]) <= MaxBinds
      BY <1>0, <1>5 DEF DirTyped
    <3>3. QED
      BY <3>1, <3>2
  <2>3. heard' \in [Peers -> Dir!Ages]
    BY <1>0, <1>4, AgesAre DEF DirTyped
  <2>4. QED
    BY <1>0, <1>1, <1>3, <2>1, <2>2, <2>3, RelistKept DEF DirTyped
<1>8. Backed'
  <2>1. Len(binds[p]) + 1 \in Dir!Live(p)'
    BY <1>5, <1>6 DEF Dir!Live
  <2>2. \A n \in Dir!Nodes \ {p} : Dir!Live(n)' = Dir!Live(n)
    BY <1>5 DEF Dir!Live
  <2>3. Dir!PresenceBacked'
    <3>1. ASSUME NEW n \in Peers, n # p, binds'[n] # <<>>, node'[n].status = "active"
          PROVE  Dir!Live(n)' # {}
      <4>1. n \in Dir!Nodes \ {p, HubNode}
        BY <1>0, <1>2, <3>1, NodeFacts
      <4>2. QED
        BY <1>0, <1>3, <1>5, <2>2, <3>1, <4>1 DEF Backed, Dir!PresenceBacked
    <3>2. QED
      BY <2>1, <3>1 DEF Dir!PresenceBacked
  <2>4. ASSUME NEW n \in Dir!Nodes, node'[n].status = "none"
        PROVE  binds'[n] = <<>> /\ node'[n].age = Dir!Never
    <3>1. n # p /\ n # HubNode
      BY <1>2, <1>3, <2>4
    <3>2. QED
      BY <1>0, <1>3, <1>5, <2>4, <3>1 DEF Backed
  <2>5. ASSUME NEW n \in Peers, beat'[n] # Dir!NoBeat
        PROVE  beat'[n].bind \in 1 .. Len(binds'[n])
    <3>1. n \in Dir!Nodes /\ beat[n].bind \in 1 .. Len(binds[n])
      BY <1>0, <1>1, <2>5, NodeFacts DEF Backed
    <3>2. CASE n = p
      BY <1>1, <1>5, <1>6, <3>1, <3>2
    <3>3. CASE n # p
      BY <1>1, <1>5, <3>1, <3>3
    <3>4. QED
      BY <3>2, <3>3
  <2>6. QED
    BY <2>3, <2>4, <2>5 DEF Backed
<1>9. BeatsFresh'
  <2>1. ASSUME NEW n \in Peers PROVE node'[n].age - heard'[n] < WriteEvery
    <3>1. n \in Dir!Nodes /\ n # HubNode
      BY <1>0, <1>2, NodeFacts
    <3>2. CASE n = p
      <4>1. node'[p].age \in Dir!Ages /\ heard'[p] = Dir!Never
        BY <1>0, <1>2, <1>3, <1>4 DEF DirTyped
      <4>2. QED
        BY <1>0, <3>2, <4>1, AgesAre, NodeFacts
    <3>3. CASE n # p
      BY <1>0, <1>3, <1>4, <3>1, <3>3 DEF BeatsFresh, DirTyped
    <3>4. QED
      BY <3>2, <3>3
  <2>2. QED
    BY <2>1 DEF BeatsFresh
<1>10. MailRouted'
  BY <1>0, <1>1 DEF MailRouted, Dir!RouteKept
<1>11. Undropped
  BY <1>0, <1>2, <1>3, <1>5, <1>6, NodeFacts DEF Undropped
<1>12. QED
  BY <1>0, <1>1, <1>7, <1>8, <1>9, <1>10, <1>11, RelistKept DEF DirInv

LEMMA UnbindKept ==
  ASSUME DirBounds, DirInv, NEW p \in Peers, Dir!Unbind(p)
  PROVE  DirInv' /\ Undropped
<1>0. DirTyped /\ Backed /\ BeatsFresh /\ MailRouted /\ AllListed
  BY DEF DirInv
<1>1. draft' = draft /\ letters' = letters /\ beat' = beat /\ heard' = heard /\ list' = Dir!Relist(list) /\ Dir!Live(p) # {}
  BY DEF Dir!Unbind
<1>2. p \in Dir!Nodes
  BY <1>0, NodeFacts
<1>3. /\ node' \in [Dir!Nodes -> [status : Dir!Statuses, age : Dir!Ages]]
      /\ \A n \in Dir!Nodes \ {p} : node'[n] = node[n]
      /\ node'[p] = IF node[p].status = "active" THEN [status |-> "offline", age |-> 0] ELSE node[p]
  BY <1>0, <1>2, AgesAre, NodeFacts DEF Dir!Unbind, DirTyped, Dir!Statuses
<1>4. /\ binds[p] \in Seq({"active", "revoked"}) /\ Len(binds[p]) \in Nat /\ DOMAIN binds[p] = 1 .. Len(binds[p])
      /\ binds'[p] = [i \in 1 .. Len(binds[p]) |-> "revoked"] /\ \A n \in Dir!Nodes \ {p} : binds'[n] = binds[n]
      /\ binds' = [binds EXCEPT ![p] = [i \in 1 .. Len(binds[p]) |-> "revoked"]]
  <2>1. /\ binds[p] \in Seq({"active", "revoked"}) /\ Len(binds[p]) \in Nat /\ DOMAIN binds[p] = 1 .. Len(binds[p])
        /\ binds \in [Dir!Nodes -> Seq({"active", "revoked"})]
    BY <1>0, <1>2 DEF DirTyped
  <2>2. binds' = [binds EXCEPT ![p] = [i \in DOMAIN binds[p] |-> "revoked"]]
    BY DEF Dir!Unbind
  <2>3. binds' = [binds EXCEPT ![p] = [i \in 1 .. Len(binds[p]) |-> "revoked"]]
    BY <2>1, <2>2
  <2>4. QED
    BY <1>2, <2>1, <2>3
<1>5. /\ binds'[p] \in Seq({"active", "revoked"}) /\ Len(binds'[p]) = Len(binds[p])
  <2>1. [i \in 1 .. Len(binds[p]) |-> "revoked"] \in Seq({"active", "revoked"})
    BY <1>4
  <2>2. Len([i \in 1 .. Len(binds[p]) |-> "revoked"]) = Len(binds[p])
    BY <1>4
  <2>3. QED
    BY <1>4, <2>1, <2>2
<1>6. PICK i \in 1 .. Len(binds[p]) : binds[p][i] = "active"
  BY <1>1, <1>4 DEF Dir!Live
<1>7. binds'[p] # binds[p] /\ node[p].status # "none"
  <2>1. binds'[p][i] = "revoked"
    BY <1>4, <1>6
  <2>2. Len(binds[p]) # 0
    BY <1>4, <1>6
  <2>3. QED
    BY <1>0, <1>2, <1>4, <1>6, <2>1, <2>2 DEF Backed
<1>8. DirTyped'
  <2>1. binds' \in [Dir!Nodes -> Seq({"active", "revoked"})]
    BY <1>0, <1>2, <1>4, <1>5 DEF DirTyped
  <2>2. \A n \in Dir!Nodes : Len(binds'[n]) <= MaxBinds
    BY <1>0, <1>4, <1>5 DEF DirTyped
  <2>3. QED
    BY <1>0, <1>1, <1>3, <2>1, <2>2, RelistKept DEF DirTyped
<1>9. Backed'
  <2>1. \A n \in Dir!Nodes \ {p} : Dir!Live(n)' = Dir!Live(n)
    BY <1>4 DEF Dir!Live
  <2>2. Dir!PresenceBacked'
    <3>1. ASSUME NEW n \in Peers, n # p, binds'[n] # <<>>, node'[n].status = "active"
          PROVE  Dir!Live(n)' # {}
      <4>1. n \in Dir!Nodes \ {p}
        BY <1>0, <3>1, NodeFacts
      <4>2. QED
        BY <1>0, <1>3, <1>4, <2>1, <3>1, <4>1 DEF Backed, Dir!PresenceBacked
    <3>2. node'[p].status # "active"
      BY <1>3
    <3>3. QED
      BY <3>1, <3>2 DEF Dir!PresenceBacked
  <2>4. ASSUME NEW n \in Dir!Nodes, node'[n].status = "none"
        PROVE  binds'[n] = <<>> /\ node'[n].age = Dir!Never
    <3>1. n # p
      BY <1>3, <1>7, <2>4
    <3>2. QED
      BY <1>0, <1>3, <1>4, <2>4, <3>1 DEF Backed
  <2>5. ASSUME NEW n \in Peers, beat'[n] # Dir!NoBeat
        PROVE  beat'[n].bind \in 1 .. Len(binds'[n])
    <3>1. n \in Dir!Nodes /\ beat[n].bind \in 1 .. Len(binds[n])
      BY <1>0, <1>1, <2>5, NodeFacts DEF Backed
    <3>2. QED
      BY <1>1, <1>4, <1>5, <3>1
  <2>6. QED
    BY <2>2, <2>4, <2>5 DEF Backed
<1>10. BeatsFresh'
  <2>1. ASSUME NEW n \in Peers PROVE node'[n].age - heard'[n] < WriteEvery
    <3>1. n \in Dir!Nodes /\ heard[n] \in Nat /\ node[n].age - heard[n] < WriteEvery /\ WriteEvery \in Nat \ {0}
      BY <1>0, NodeFacts DEF BeatsFresh
    <3>2. node'[n].age = node[n].age \/ node'[n].age = 0
      BY <1>3, <3>1
    <3>3. QED
      BY <1>1, <3>1, <3>2
  <2>2. QED
    BY <2>1 DEF BeatsFresh
<1>11. MailRouted'
  BY <1>0, <1>1 DEF MailRouted, Dir!RouteKept
<1>12. Undropped
  BY <1>0, <1>3, <1>7, NodeFacts DEF Undropped
<1>13. QED
  BY <1>0, <1>1, <1>8, <1>9, <1>10, <1>11, <1>12, RelistKept DEF DirInv

LEMMA BeatKept ==
  ASSUME DirBounds, DirInv, NEW p \in Peers, Dir!Beat(p)
  PROVE  DirInv' /\ Undropped
<1>0. DirTyped /\ Backed /\ BeatsFresh /\ MailRouted /\ AllListed
  BY DEF DirInv
<1>1. node' = node /\ binds' = binds /\ draft' = draft /\ letters' = letters /\ list' = list /\ Dir!Live(p) # {}
  BY DEF Dir!Beat
<1>2. p \in Dir!Nodes /\ \A n \in Peers : n \in Dir!Nodes
  BY <1>0, NodeFacts
<1>3. Dir!Max(Dir!Live(p)) \in 1 .. Len(binds[p]) /\ Dir!Max(Dir!Live(p)) \in 1 .. MaxBinds
  BY <1>0, <1>1, <1>2, NewestBound
<1>4. \/ heard' = [heard EXCEPT ![p] = 0] /\ beat' = beat /\ Dir!Recent(p, 0)
      \/ heard' = heard /\ beat' = [beat EXCEPT ![p] = [bind |-> Dir!Max(Dir!Live(p)), age |-> 0]]
  BY DEF Dir!Beat
<1>5. DirTyped'
  <2>1. [bind |-> Dir!Max(Dir!Live(p)), age |-> 0] \in [bind : 0 .. MaxBinds, age : Dir!Ages]
    BY <1>3, AgesAre
  <2>2. beat' \in [Peers -> [bind : 0 .. MaxBinds, age : Dir!Ages]]
    BY <1>0, <1>4, <2>1 DEF DirTyped
  <2>3. heard' \in [Peers -> Dir!Ages]
    BY <1>0, <1>4, AgesAre DEF DirTyped
  <2>4. QED
    BY <1>0, <1>1, <2>2, <2>3 DEF DirTyped
<1>6. Backed'
  <2>1. Dir!PresenceBacked'
    BY <1>0, <1>1 DEF Backed, Dir!PresenceBacked, Dir!Live
  <2>2. \A n \in Peers : beat'[n] = beat[n] \/ (n = p /\ beat'[n].bind = Dir!Max(Dir!Live(p)))
    BY <1>0, <1>4 DEF DirTyped
  <2>3. \A n \in Peers : beat'[n] # Dir!NoBeat => beat'[n].bind \in 1 .. Len(binds'[n])
    BY <1>0, <1>1, <1>3, <2>2 DEF Backed
  <2>4. QED
    BY <1>0, <1>1, <2>1, <2>3 DEF Backed
<1>7. BeatsFresh'
  <2>1. CASE heard' = heard
    BY <1>0, <1>1, <2>1 DEF BeatsFresh
  <2>2. CASE heard' = [heard EXCEPT ![p] = 0] /\ Dir!Recent(p, 0)
    <3>1. node[p].age < WriteEvery
      BY <1>0, <1>2, <2>2, NodeFacts DEF Dir!Recent
    <3>2. \A n \in Peers : heard'[n] = IF n = p THEN 0 ELSE heard[n]
      BY <1>0, <2>2 DEF DirTyped
    <3>3. QED
      BY <1>0, <1>1, <1>2, <3>1, <3>2, NodeFacts DEF BeatsFresh
  <2>3. QED
    BY <1>4, <2>1, <2>2
<1>8. MailRouted'
  BY <1>0, <1>1 DEF MailRouted, Dir!RouteKept
<1>9. AllListed'
  <2>1. \A n \in Dir!Nodes : Dir!Visible(n) => Dir!Visible(n)'
    BY <1>1 DEF Dir!Visible, Dir!Live
  <2>2. QED
    BY <1>0, <1>1, <2>1, ListedKept
<1>10. Undropped
  BY <1>1 DEF Undropped
<1>11. QED
  BY <1>5, <1>6, <1>7, <1>8, <1>9, <1>10 DEF DirInv

LEMMA BeatCommitKept ==
  ASSUME DirBounds, DirInv, NEW p \in Peers, Dir!BeatCommit(p)
  PROVE  DirInv' /\ Undropped
<1>0. DirTyped /\ Backed /\ BeatsFresh /\ MailRouted /\ AllListed
  BY DEF DirInv
<1>1. /\ binds' = binds /\ draft' = draft /\ letters' = letters /\ list' = list
      /\ beat[p] # Dir!NoBeat /\ beat' = [beat EXCEPT ![p] = Dir!NoBeat]
  BY DEF Dir!BeatCommit
<1>2. p \in Dir!Nodes /\ \A n \in Peers : n \in Dir!Nodes
  BY <1>0, NodeFacts
<1>3. /\ beat[p].age \in Dir!Ages /\ beat[p].age \in Nat /\ heard[p] \in Nat /\ node[p].age \in Nat
      /\ heard[p] \in Dir!Ages /\ node[p].age \in Dir!Ages
  BY <1>0, <1>2, NodeFacts, AgesAre
<1> DEFINE b == beat[p].age
           h == Dir!Min({heard[p], b})
           seen == Dir!Min({node[p].age, b})
<1>4. h \in {heard[p], b} /\ h <= heard[p] /\ h <= b /\ seen \in {node[p].age, b} /\ seen <= node[p].age /\ seen <= b
  <2>0. heard[p] \in Int /\ node[p].age \in Int /\ b \in Int
    BY <1>3
  <2> HIDE DEF b
  <2>1. h \in {heard[p], b} /\ h <= heard[p] /\ h <= b
    BY <2>0, MinPair, Zenon
  <2>2. seen \in {node[p].age, b} /\ seen <= node[p].age /\ seen <= b
    BY <2>0, MinPair, Zenon
  <2>3. QED
    BY <2>1, <2>2
<1>5. \/ node' = node /\ heard' = heard
      \/ /\ Dir!StillBound(p) /\ heard' = [heard EXCEPT ![p] = h]
         /\ \/ Dir!Recent(p, b) /\ node' = node
            \/ node' = [node EXCEPT ![p] = [status |-> "active", age |-> seen]]
  BY DEF Dir!BeatCommit
<1> HIDE DEF h, seen
<1>6. h \in Dir!Ages /\ seen \in Dir!Ages /\ h \in Nat /\ seen \in Nat
  BY <1>3, <1>4
<1>7. DirTyped'
  <2>1. Dir!NoBeat \in [bind : 0 .. MaxBinds, age : Dir!Ages]
    BY NoBeatTyped
  <2>2. beat' \in [Peers -> [bind : 0 .. MaxBinds, age : Dir!Ages]]
    BY <1>0, <1>1, <2>1 DEF DirTyped
  <2>3. heard' \in [Peers -> Dir!Ages]
    BY <1>0, <1>5, <1>6 DEF DirTyped
  <2>4. node' \in [Dir!Nodes -> [status : Dir!Statuses, age : Dir!Ages]]
    <3>1. [status |-> "active", age |-> seen] \in [status : Dir!Statuses, age : Dir!Ages]
      BY <1>6 DEF Dir!Statuses
    <3>2. QED
      BY <1>0, <1>2, <1>5, <3>1 DEF DirTyped
  <2>5. QED
    BY <1>0, <1>1, <2>2, <2>3, <2>4 DEF DirTyped
<1>8. /\ \A n \in Dir!Nodes : node'[n] = node[n] \/ (n = p /\ node'[n] = [status |-> "active", age |-> seen] /\ Dir!StillBound(p))
      /\ \A n \in Peers : heard'[n] = heard[n] \/ n = p
      /\ \A n \in Peers : beat'[n] # Dir!NoBeat => beat'[n] = beat[n]
  BY <1>0, <1>1, <1>5 DEF DirTyped
<1>9. Dir!StillBound(p) => Dir!Live(p) # {} /\ binds[p] # <<>>
  <2>1. /\ beat[p].bind \in 1 .. Len(binds[p]) /\ DOMAIN binds[p] = 1 .. Len(binds[p])
    BY <1>0, <1>1, <1>2 DEF Backed, DirTyped
  <2>2. Dir!StillBound(p) => beat[p].bind \in Dir!Live(p)
    BY <2>1 DEF Dir!StillBound, Dir!Live
  <2>3. QED
    BY <2>1, <2>2
<1>10. Backed'
  <2>1. Dir!PresenceBacked'
    <3>1. \A n \in Dir!Nodes : Dir!Live(n)' = Dir!Live(n)
      BY <1>1 DEF Dir!Live
    <3>2. QED
      BY <1>0, <1>1, <1>2, <1>8, <1>9, <3>1 DEF Backed, Dir!PresenceBacked
  <2>2. \A n \in Dir!Nodes : node'[n].status = "none" => node'[n] = node[n]
    BY <1>8
  <2>3. QED
    BY <1>0, <1>1, <1>8, <2>1, <2>2 DEF Backed
<1>11. BeatsFresh'
  <2>1. ASSUME NEW n \in Peers, n # p PROVE node'[n].age - heard'[n] < WriteEvery
    BY <1>0, <1>2, <1>8, <2>1 DEF BeatsFresh
  <2>2. node'[p].age - heard'[p] < WriteEvery
    <3>0. node[p].age - heard[p] < WriteEvery /\ WriteEvery \in Nat \ {0}
      BY <1>0, NodeFacts DEF BeatsFresh
    <3>1. CASE node' = node /\ heard' = heard
      BY <3>0, <3>1
    <3>2. CASE heard' = [heard EXCEPT ![p] = h] /\ Dir!Recent(p, b) /\ node' = node
      <4>1. heard'[p] = h /\ node'[p].age = node[p].age /\ node[p].age - b < WriteEvery
        BY <1>0, <3>2 DEF DirTyped, Dir!Recent
      <4>2. QED
        BY <1>3, <1>4, <1>6, <3>0, <4>1
    <3>3. CASE heard' = [heard EXCEPT ![p] = h] /\ node' = [node EXCEPT ![p] = [status |-> "active", age |-> seen]]
      <4>1. heard'[p] = h /\ node'[p].age = seen
        BY <1>0, <1>2, <3>3 DEF DirTyped
      <4>2. QED
        BY <1>3, <1>4, <1>6, <3>0, <4>1
    <3>4. QED
      BY <1>5, <3>1, <3>2, <3>3
  <2>3. QED
    BY <2>1, <2>2 DEF BeatsFresh
<1>12. MailRouted'
  BY <1>0, <1>1 DEF MailRouted, Dir!RouteKept
<1>13. AllListed'
  <2>1. \A n \in Dir!Nodes : Dir!Visible(n) => Dir!Visible(n)'
    BY <1>1, <1>8 DEF Dir!Visible, Dir!Live
  <2>2. QED
    BY <1>0, <1>1, <2>1, ListedKept
<1>14. Undropped
  BY <1>2, <1>8 DEF Undropped
<1>15. QED
  BY <1>7, <1>10, <1>11, <1>12, <1>13, <1>14 DEF DirInv

LEMMA ExpireKept ==
  ASSUME DirBounds, DirInv, Dir!Expire
  PROVE  DirInv' /\ Undropped
<1>0. DirTyped /\ Backed /\ BeatsFresh /\ MailRouted /\ AllListed
  BY DEF DirInv
<1>1. binds' = binds /\ draft' = draft /\ letters' = letters /\ list' = list /\ beat' = beat /\ heard' = heard
  BY DEF Dir!Expire
<1>2. \A n \in Peers : n \in Dir!Nodes
  BY <1>0, NodeFacts
<1>3. /\ node' \in [Dir!Nodes -> [status : Dir!Statuses, age : Dir!Ages]]
      /\ \A n \in Dir!Nodes : /\ node'[n].age = node[n].age
                              /\ node'[n].status = IF n \in Peers /\ Dir!Lapsed(n) THEN "offline" ELSE node[n].status
  <2>1. ASSUME NEW n \in Dir!Nodes
        PROVE  /\ node'[n] = IF n \in Peers /\ Dir!Lapsed(n) THEN [node[n] EXCEPT !.status = "offline"] ELSE node[n]
               /\ node'[n] \in [status : Dir!Statuses, age : Dir!Ages] /\ node'[n].age = node[n].age
               /\ node'[n].status = IF n \in Peers /\ Dir!Lapsed(n) THEN "offline" ELSE node[n].status
    <3>1. node'[n] = IF n \in Peers /\ Dir!Lapsed(n) THEN [node[n] EXCEPT !.status = "offline"] ELSE node[n]
      BY DEF Dir!Expire
    <3>2. node[n] \in [status : Dir!Statuses, age : Dir!Ages] /\ "offline" \in Dir!Statuses
      BY <1>0, NodeFacts DEF Dir!Statuses
    <3>3. CASE n \in Peers /\ Dir!Lapsed(n)
      BY <3>1, <3>2, <3>3
    <3>4. CASE ~(n \in Peers /\ Dir!Lapsed(n))
      BY <3>1, <3>2, <3>4
    <3>5. QED
      BY <3>3, <3>4
  <2>2. node' = [n \in Dir!Nodes |-> node'[n]]
    BY DEF Dir!Expire
  <2>3. node' \in [Dir!Nodes -> [status : Dir!Statuses, age : Dir!Ages]]
    BY <2>1, <2>2
  <2>4. QED
    BY <2>1, <2>3
<1>4. \A n \in Dir!Nodes : Dir!Lapsed(n) => node[n].status = "active" /\ node[n].age > Lease
  BY DEF Dir!Lapsed, Dir!Stale
<1>5. DirTyped'
  BY <1>0, <1>1, <1>3 DEF DirTyped
<1>6. \A n \in Dir!Nodes : /\ node'[n].status = "active" => node[n].status = "active"
                           /\ node'[n].status = "none" <=> node[n].status = "none"
  BY <1>3, <1>4
<1>7. Backed'
  <2>1. Dir!PresenceBacked'
    <3>1. \A n \in Dir!Nodes : Dir!Live(n)' = Dir!Live(n)
      BY <1>1 DEF Dir!Live
    <3>2. ASSUME NEW n \in Peers, binds'[n] # <<>>, node'[n].status = "active"
          PROVE  Dir!Live(n)' # {}
      <4>1. n \in Dir!Nodes /\ binds[n] # <<>> /\ node[n].status = "active"
        BY <1>1, <1>2, <1>6, <3>2
      <4>2. QED
        BY <1>0, <3>1, <4>1 DEF Backed, Dir!PresenceBacked
    <3>3. QED
      BY <3>2 DEF Dir!PresenceBacked
  <2>2. QED
    BY <1>0, <1>1, <1>3, <1>6, <2>1 DEF Backed
<1>8. BeatsFresh'
  BY <1>0, <1>1, <1>2, <1>3 DEF BeatsFresh
<1>9. MailRouted'
  BY <1>0, <1>1 DEF MailRouted, Dir!RouteKept
<1>10. AllListed'
  <2>1. \A n \in Dir!Nodes : Dir!Visible(n) => Dir!Visible(n)'
    BY <1>1, <1>6 DEF Dir!Visible, Dir!Live
  <2>2. QED
    BY <1>0, <1>1, <2>1, ListedKept
<1>11. Undropped
  <2>1. ASSUME NEW n \in Peers, node[n].status = "active", node'[n].status = "offline"
        PROVE  heard[n] > Lease - WriteEvery
    <3>1. node[n].age > Lease /\ node[n].age - heard[n] < WriteEvery
      BY <1>0, <1>2, <1>3, <1>4, <2>1 DEF BeatsFresh
    <3>2. node[n].age \in Nat /\ heard[n] \in Nat /\ Lease \in Nat /\ WriteEvery \in Nat
      BY <1>0, <1>2, NodeFacts
    <3>3. QED
      BY <3>1, <3>2
  <2>2. QED
    BY <2>1 DEF Undropped
<1>12. QED
  BY <1>5, <1>7, <1>8, <1>9, <1>10, <1>11 DEF DirInv

LEMMA LookKept ==
  ASSUME DirBounds, DirInv, NEW p \in Dir!Nodes, Dir!Look(p)
  PROVE  DirInv' /\ Undropped
<1>0. DirTyped /\ Backed /\ BeatsFresh /\ MailRouted /\ AllListed
  BY DEF DirInv
<1>1. /\ node' = node /\ binds' = binds /\ letters' = letters /\ list' = list /\ beat' = beat /\ heard' = heard
      /\ Dir!Visible(p) /\ draft' = [to |-> p, life |-> Dir!Lifecycle(p)]
  BY DEF Dir!Look
<1>2. Dir!Lifecycle(p) \in Int /\ Dir!Lifecycle(p) # 0
  <2>1. Dir!Live(p) # {} => Dir!Max(Dir!Live(p)) \in 1 .. MaxBinds
    BY <1>0, NewestBound
  <2>2. QED
    BY <1>1, <2>1 DEF Dir!Visible, Dir!Lifecycle
<1>3. DirTyped'
  BY <1>0, <1>1, <1>2 DEF DirTyped
<1>4. Backed' /\ BeatsFresh'
  BY <1>0, <1>1 DEF Backed, Dir!PresenceBacked, Dir!Live, BeatsFresh
<1>5. MailRouted'
  <2>1. draft'.to = p /\ draft'.life = Dir!Lifecycle(p)
    BY <1>1
  <2>2. QED
    BY <1>0, <1>1, <1>2, <2>1 DEF MailRouted, Dir!RouteKept
<1>6. AllListed'
  <2>1. \A n \in Dir!Nodes : Dir!Visible(n) => Dir!Visible(n)'
    BY <1>1 DEF Dir!Visible, Dir!Live
  <2>2. QED
    BY <1>0, <1>1, <2>1, ListedKept
<1>7. Undropped
  BY <1>1 DEF Undropped
<1>8. QED
  BY <1>3, <1>4, <1>5, <1>6, <1>7 DEF DirInv

LEMMA MailKept ==
  ASSUME DirBounds, DirInv, Dir!Send
  PROVE  DirInv' /\ Undropped
<1>0. DirTyped /\ Backed /\ BeatsFresh /\ MailRouted /\ AllListed
  BY DEF DirInv
<1>1. /\ node' = node /\ binds' = binds /\ draft' = draft /\ list' = list /\ beat' = beat /\ heard' = heard
      /\ draft # Dir!NoDraft /\ Dir!Sendable(draft)
      /\ letters' = Append(letters, [to |-> draft.to, life |-> draft.life, got |-> Dir!Lifecycle(draft.to)])
  BY DEF Dir!Send
<1>2. /\ draft.to \in Dir!Nodes /\ draft.life \in Int /\ draft.life # 0 /\ Dir!Lifecycle(draft.to) = draft.life
  BY <1>0, <1>1 DEF MailRouted, Dir!Sendable, DirTyped
<1>3. PICK l \in [to : Dir!Nodes, life : Int, got : Int] :
        letters' = Append(letters, l) /\ l.got = l.life /\ l.got # 0
  BY <1>1, <1>2
<1>4. letters \in Seq([to : Dir!Nodes, life : Int, got : Int])
  BY <1>0 DEF DirTyped
<1>5. letters' \in Seq([to : Dir!Nodes, life : Int, got : Int])
  BY <1>3, <1>4
<1>6. DirTyped'
  BY <1>0, <1>1, <1>5 DEF DirTyped
<1>7. Backed' /\ BeatsFresh'
  BY <1>0, <1>1 DEF Backed, Dir!PresenceBacked, Dir!Live, BeatsFresh
<1>8. MailRouted'
  <2>1. \A i \in DOMAIN letters' : (i \in DOMAIN letters /\ letters'[i] = letters[i]) \/ letters'[i] = l
    BY <1>3, <1>4
  <2>2. \A i \in DOMAIN letters' : letters'[i].got = letters'[i].life /\ letters'[i].got # 0
    BY <1>0, <1>3, <2>1 DEF MailRouted, Dir!RouteKept
  <2>3. QED
    BY <1>0, <1>1, <2>2 DEF MailRouted, Dir!RouteKept
<1>9. AllListed'
  <2>1. \A n \in Dir!Nodes : Dir!Visible(n) => Dir!Visible(n)'
    BY <1>1 DEF Dir!Visible, Dir!Live
  <2>2. QED
    BY <1>0, <1>1, <2>1, ListedKept
<1>10. Undropped
  BY <1>1 DEF Undropped
<1>11. QED
  BY <1>6, <1>7, <1>8, <1>9, <1>10 DEF DirInv

LEMMA ListKept ==
  ASSUME DirBounds, DirInv, Dir!ListBegins \/ Dir!ListPage \/ Dir!ListEnds
  PROVE  DirInv' /\ Undropped
<1>0. DirTyped /\ Backed /\ BeatsFresh /\ MailRouted /\ AllListed
  BY DEF DirInv
<1>1. /\ node' = node /\ binds' = binds /\ draft' = draft /\ letters' = letters /\ beat' = beat /\ heard' = heard
  BY DEF Dir!ListBegins, Dir!ListPage, Dir!ListEnds
<1> DEFINE Lists == [on : BOOLEAN, after : Dir!Nodes \cup {0}, got : SUBSET Dir!Nodes, always : SUBSET Dir!Nodes, more : BOOLEAN]
<1>2. \A n \in Dir!Nodes : Dir!Visible(n)' <=> Dir!Visible(n)
  BY <1>1 DEF Dir!Visible, Dir!Live
<1>3. list \in Lists
  BY <1>0 DEF DirTyped
<1>4. list' \in Lists /\ AllListed'
  <2>1. CASE Dir!ListBegins
    <3>1. list' = [on |-> TRUE, after |-> 0, got |-> {}, always |-> {n \in Dir!Nodes : Dir!Visible(n)}, more |-> TRUE]
      BY <2>1 DEF Dir!ListBegins, Dir!NoList
    <3>2. \A n \in Dir!Nodes : n > 0
      <4>1. PICK top \in Nat : Dir!Nodes \subseteq 1 .. top
        BY DEF DirBounds
      <4>2. QED
        BY <4>1
    <3>3. list' \in Lists
      BY <3>1
    <3>4. list'.always \subseteq Dir!Nodes /\ (\A n \in list'.always : Dir!Visible(n)) /\ list'.more /\ list'.after = 0
      BY <3>1
    <3>5. QED
      BY <1>2, <3>2, <3>3, <3>4 DEF AllListed
  <2>2. CASE Dir!ListPage
    <3>0. list.on /\ list.more
      BY <2>2 DEF Dir!ListPage
    <3>1. PICK k \in 1 .. PerPage :
            list' = [list EXCEPT !.got = @ \cup Dir!Page(list.after, k),
                                 !.after = IF Dir!Page(list.after, k) = {} THEN 0 ELSE Dir!Max(Dir!Page(list.after, k)),
                                 !.more = Dir!Page(list.after, k) # {} /\ Dir!Behind(list.after) # Dir!Page(list.after, k)]
      BY <2>2 DEF Dir!ListPage
    <3>2. k \in Nat \ {0}
      BY DEF DirBounds
    <3> DEFINE S == Dir!Behind(list.after)
               page == Dir!Front(S, k)
    <3>3. S \subseteq Dir!Nodes /\ \A n \in Dir!Nodes : Dir!Visible(n) /\ n > list.after => n \in S
      BY DEF Dir!Behind
    <3>4. page \subseteq S
      BY DEF Dir!Front
    <3>5. S # {} => page # {} /\ Dir!Max(page) \in page /\ \A i \in S : i \in page \/ i > Dir!Max(page)
      <4> HIDE DEF S
      <4>1. QED
        BY <3>2, <3>3, FrontPage
    <3>6. list' = [list EXCEPT !.got = list.got \cup page, !.after = IF page = {} THEN 0 ELSE Dir!Max(page),
                               !.more = (page # {} /\ S # page)]
      BY <3>1 DEF Dir!Page
    <3> HIDE DEF S, page
    <3>7. /\ list'.on = list.on /\ list'.always = list.always /\ list'.got = list.got \cup page
          /\ list'.after = (IF page = {} THEN 0 ELSE Dir!Max(page)) /\ (list'.more <=> page # {} /\ S # page)
      BY <1>3, <3>6
    <3>8. (IF page = {} THEN 0 ELSE Dir!Max(page)) \in Dir!Nodes \cup {0}
      BY <3>3, <3>4, <3>5
    <3>9. list' \in Lists
      BY <1>3, <3>3, <3>4, <3>6, <3>8
    <3>10. ASSUME NEW n \in list.always
           PROVE  Dir!Visible(n)' /\ (n \in list'.got \/ (list'.more /\ n > list'.after))
      <4>1. n \in Dir!Nodes /\ Dir!Visible(n) /\ (n \in list.got \/ n > list.after)
        BY <1>0, <1>3, <3>0, <3>10 DEF AllListed
      <4>2. CASE n \in list.got
        BY <1>2, <3>7, <4>1, <4>2
      <4>3. CASE n \in S
        <5>1. n \in page \/ (page # {} /\ S # page /\ n > Dir!Max(page))
          BY <3>5, <4>3
        <5>2. QED
          BY <1>2, <3>7, <4>1, <5>1
      <4>4. QED
        BY <3>3, <4>1, <4>2, <4>3
    <3>11. QED
      BY <3>7, <3>9, <3>10 DEF AllListed
  <2>3. CASE Dir!ListEnds
    BY <2>3 DEF Dir!ListEnds, Dir!NoList, AllListed
  <2>4. QED
    BY <2>1, <2>2, <2>3
<1>5. DirTyped'
  BY <1>0, <1>1, <1>4 DEF DirTyped
<1>6. Backed' /\ BeatsFresh'
  BY <1>0, <1>1 DEF Backed, Dir!PresenceBacked, Dir!Live, BeatsFresh
<1>7. MailRouted'
  BY <1>0, <1>1 DEF MailRouted, Dir!RouteKept
<1>8. Undropped
  BY <1>1 DEF Undropped
<1>9. QED
  BY <1>4, <1>5, <1>6, <1>7, <1>8 DEF DirInv

LEMMA DirStart ==
  ASSUME DirBounds, Dir!Init
  PROVE  DirInv
<1>1. DirTyped
  <2>1. node \in [Dir!Nodes -> [status : Dir!Statuses, age : Dir!Ages]] /\ heard \in [Peers -> Dir!Ages]
    BY AgesAre DEF Dir!Init, Dir!Statuses
  <2>2. binds \in [Dir!Nodes -> Seq({"active", "revoked"})] /\ \A n \in Dir!Nodes : Len(binds[n]) <= MaxBinds
    BY DEF Dir!Init, DirBounds
  <2>3. beat \in [Peers -> [bind : 0 .. MaxBinds, age : Dir!Ages]]
    BY NoBeatTyped DEF Dir!Init
  <2>4. draft \in [to : Dir!Nodes \cup {0}, life : Int] /\ letters \in Seq([to : Dir!Nodes, life : Int, got : Int])
    BY DEF Dir!Init, Dir!NoDraft
  <2>5. list \in [on : BOOLEAN, after : Dir!Nodes \cup {0}, got : SUBSET Dir!Nodes, always : SUBSET Dir!Nodes, more : BOOLEAN]
    BY DEF Dir!Init, Dir!NoList
  <2>6. QED
    BY <2>1, <2>2, <2>3, <2>4, <2>5 DEF DirTyped
<1>2. \A n \in Dir!Nodes : node[n].status = "none" /\ node[n].age = Dir!Never /\ binds[n] = <<>>
  BY DEF Dir!Init
<1>3. \A n \in Peers : beat[n] = Dir!NoBeat /\ heard[n] = Dir!Never /\ n \in Dir!Nodes
  BY DEF Dir!Init, Dir!Nodes
<1>4. Backed
  BY <1>2, <1>3 DEF Backed, Dir!PresenceBacked
<1>5. BeatsFresh
  <2>1. Dir!Never \in Nat /\ WriteEvery \in Nat \ {0}
    BY AgesAre DEF DirBounds
  <2>2. QED
    BY <1>2, <1>3, <2>1 DEF BeatsFresh
<1>6. MailRouted /\ AllListed
  BY DEF Dir!Init, MailRouted, Dir!RouteKept, AllListed, Dir!NoList
<1>7. QED
  BY <1>1, <1>4, <1>5, <1>6 DEF DirInv

LEMMA DirStep ==
  ASSUME DirBounds, DirInv, [Dir!Next]_(Dir!vars)
  PROVE  DirInv' /\ Undropped
<1>1. CASE UNCHANGED Dir!vars
  <2>1. /\ node' = node /\ binds' = binds /\ draft' = draft /\ letters' = letters /\ beat' = beat /\ heard' = heard
        /\ list' = list
    BY <1>1 DEF Dir!vars
  <2>2. DirTyped' /\ Backed' /\ BeatsFresh' /\ MailRouted'
    BY <2>1 DEF DirInv, DirTyped, Backed, Dir!PresenceBacked, Dir!Live, BeatsFresh, MailRouted, Dir!RouteKept
  <2>3. AllListed'
    BY <2>1 DEF DirInv, AllListed, Dir!Visible, Dir!Live
  <2>4. Undropped
    BY <2>1 DEF Undropped
  <2>5. QED
    BY <2>2, <2>3, <2>4 DEF DirInv
<1>2. CASE Dir!Tick \/ Dir!Expire \/ Dir!Send \/ Dir!ListBegins \/ Dir!ListPage \/ Dir!ListEnds
  BY <1>2, TickKept, ExpireKept, MailKept, ListKept
<1>3. CASE \E n \in Peers : Dir!Enroll(n) \/ Dir!Bind(n) \/ Dir!Unbind(n) \/ Dir!Beat(n) \/ Dir!BeatCommit(n)
  BY <1>3, EnrollKept, BindKept, UnbindKept, BeatKept, BeatCommitKept
<1>4. CASE \E n \in Dir!Nodes : Dir!Look(n)
  BY <1>4, LookKept
<1>5. QED
  BY <1>1, <1>2, <1>3, <1>4 DEF Dir!Next

LEMMA DirSound ==
  ASSUME DirInv
  PROVE  Dir!TypeOK /\ Dir!PresenceBacked /\ Dir!RouteKept /\ Dir!ListedAll
<1>1. Dir!TypeOK
  <2>0. letters \in Seq([to : Dir!Nodes, life : Int, got : Int])
    BY DEF DirInv, DirTyped
  <2>1. \A l \in DOMAIN letters : letters[l] \in [to : Dir!Nodes, life : Int, got : Int]
    <3>1. PICK Letter : Letter = [to : Dir!Nodes, life : Int, got : Int]
      OBVIOUS
    <3>2. letters \in Seq(Letter)
      BY <2>0, <3>1, Zenon
    <3>3. \A l \in DOMAIN letters : letters[l] \in Letter
      BY <3>2
    <3>4. QED
      BY <3>1, <3>3
  <2>2. list.after \in Dir!Nodes \cup {0} /\ list.got \subseteq Dir!Nodes /\ list.always \subseteq Dir!Nodes
    BY DEF DirInv, DirTyped
  <2>3. \A n \in Dir!Nodes : binds[n] \in Seq({"active", "revoked"}) /\ Len(binds[n]) <= MaxBinds
    BY DEF DirInv, DirTyped
  <2>4. QED
    BY <2>1, <2>2, <2>3 DEF DirInv, DirTyped, Dir!TypeOK
<1>2. Dir!PresenceBacked /\ Dir!RouteKept
  BY DEF DirInv, Backed, MailRouted
<1>3. Dir!ListedAll
  BY DEF DirInv, AllListed, Dir!ListedAll
<1>4. QED
  BY <1>1, <1>2, <1>3

(* For every number of servers, pairings, heartbeats and letters and every   *)
(* lease: a server that has had a peer is shown online only while one is     *)
(* bound, one whose heartbeats are answered is not dropped, a letter reaches *)
(* the incarnation its sender chose, and a paged listing has everyone        *)
(* (record_secure_peer_heartbeat, expire_secure_peer_leases,                 *)
(* _network_server_mail_route_lifecycle, get_network).                       *)
THEOREM DirectoryStaysTrue ==
  ASSUME DirBounds
  PROVE  Dir!Spec => DirectoryTrue
<1>1. Dir!Init => DirInv
  BY DirStart
<1>2. DirInv /\ [Dir!Next]_(Dir!vars) => DirInv'
  BY DirStep
<1>3. DirInv => Dir!TypeOK /\ Dir!PresenceBacked /\ Dir!RouteKept /\ Dir!ListedAll
  BY DirSound
<1>4. DirInv /\ [Dir!Next]_(Dir!vars) => [Undropped]_(Dir!vars)
  BY DirStep
<1>5. Dir!Spec => [](Dir!TypeOK /\ Dir!PresenceBacked /\ Dir!RouteKept /\ Dir!ListedAll)
  BY <1>1, <1>2, <1>3, PTL DEF Dir!Spec
<1>6. Dir!Spec => Dir!NotDropped
  <2>1. Dir!Spec => [][Undropped]_(Dir!vars)
    BY <1>1, <1>2, <1>4, PTL DEF Dir!Spec
  <2>2. QED
    BY <2>1 DEF Dir!NotDropped, Undropped
<1>7. QED
  BY <1>5, <1>6 DEF DirectoryTrue, Dir!DirectoryTrue

-----------------------------------------------------------------------------
(* Who may use the hub. The bounds are numbers and the host is no person.  *)
AccessBounds == MaxBoots \in Nat /\ MaxGen \in Nat /\ MaxMishaps \in Nat /\ Host \notin People

SessionRows == [owner : People, gen : 0 .. MaxGen, state : Access!Row, held : -1 .. MaxGen,
                tokens : Seq({"live", "consumed", "revoked"})]
InviteRows == [issuer : People \cup {Host}, to : People, role : {"admin", "member"}, state : Access!Row]
ClaimRows == [to : People, state : Access!Row]
GrantRows == [issuer : People, server : Servers, state : Access!Row, challenge : Access!Row \cup {"none"}]
MemberRows == [role : {"none", "owner", "admin", "member"}, status : {"none", "active", "suspended", "revoked"}]

(* The refresh tokens of a session: one for each generation, usable only the *)
(* last, and that only while the session is not revoked.                     *)
TokensTrue(s) ==
  /\ Len(s.tokens) = s.gen + 1 /\ s.held <= s.gen
  /\ \A g \in DOMAIN s.tokens : s.tokens[g] = "live" <=> (s.state # "revoked" /\ g = s.gen + 1)

(* A session belongs to a person who has joined, and nobody has two that are *)
(* live.                                                                     *)
SessionsTrue ==
  /\ sessions \in Seq(SessionRows)
  /\ \A i \in DOMAIN sessions : TokensTrue(sessions[i]) /\ ~Access!Unknown(sessions[i].owner)
  /\ \A i, j \in DOMAIN sessions :
       sessions[i].owner = sessions[j].owner /\ sessions[i].state = "live" /\ sessions[j].state = "live" => i = j

(* A recovery claim is for a person who has joined; the live one, of which   *)
(* there is one at most, excludes a live session.                            *)
ClaimsTrue ==
  /\ claims \in Seq(ClaimRows) /\ proofs \subseteq DOMAIN claims
  /\ \A c \in DOMAIN claims : ~Access!Unknown(claims[c].to)
  /\ \A c, d \in DOMAIN claims :
       claims[c].to = claims[d].to /\ claims[c].state = "live" /\ claims[d].state = "live" => c = d
  /\ \A c \in DOMAIN claims : claims[c].state = "live" =>
       c \in proofs /\ \A i \in DOMAIN sessions : sessions[i].owner = claims[c].to => sessions[i].state # "live"

(* A server has one grant at most that is live or became a node.             *)
Counting(g) == grants[g].state = "live" \/ g \in nodes
GrantsTrue ==
  /\ grants \in Seq(GrantRows) /\ nodes \subseteq DOMAIN grants
  /\ \A g \in nodes : grants[g].state = "used"
  /\ \A g, h \in DOMAIN grants : grants[g].server = grants[h].server /\ Counting(g) /\ Counting(h) => g = h

(* Until there is a team, nobody is a member and nobody is invited; from     *)
(* then on no bootstrap claim is live.                                       *)
BootsTrue ==
  /\ up \in BOOLEAN /\ team \in {"none", "personal", "managed"} /\ bootFile \in 0 .. Access!Orphan
  /\ boots \subseteq [id : 1 .. bootIds, by : People \cup {Host}] /\ bootIds \in 0 .. MaxBoots
  /\ team # "none" => boots = {}
  /\ \A b, c \in boots : b = c
  /\ up => \A b \in boots : b.by = Host => bootFile = b.id

PeopleTrue ==
  /\ members \in [People -> MemberRows] /\ invites \in Seq(InviteRows)
  /\ team = "none" => invites = <<>> /\ \A p \in People : Access!Unknown(p)

AccessInv == SessionsTrue /\ ClaimsTrue /\ GrantsTrue /\ BootsTrue /\ PeopleTrue /\ mishaps \in 0 .. MaxMishaps

(* What no step may do: bring a revoked person back, or use up an invitation *)
(* or a grant whose issuer has lost the authority.                           *)
StaysOut ==
  \A p \in People : members[p].status = "revoked" =>
    members'[p] = members[p] /\ Access!LiveSessions(p)' \subseteq Access!LiveSessions(p)
Authorized ==
  /\ \A n \in DOMAIN invites : invites[n].state = "live" /\ invites'[n].state = "used" => Access!MayIssue(invites[n].issuer)
  /\ \A g \in nodes' \ nodes : Access!MayIssue(grants[g].issuer)

AccessKept == AccessInv' /\ StaysOut /\ Authorized

(* Who has joined is never forgotten.                                        *)
Joined == \A p \in People : ~Access!Unknown(p) => ~Access!Unknown(p)'

LEMMA FromOne == ASSUME NEW S, NEW n \in Nat, NEW f \in [1 .. n -> S] PROVE f \in Seq(S)
  OBVIOUS

LEMMA OverDomain ==
  ASSUME NEW S, NEW s \in Seq(S), NEW f \in [DOMAIN s -> S]
  PROVE  f \in Seq(S) /\ Len(f) = Len(s) /\ DOMAIN f = DOMAIN s
<1>1. DOMAIN s = 1 .. Len(s) /\ Len(s) \in Nat
  OBVIOUS
<1>2. f \in Seq(S)
  BY <1>1, FromOne
<1>3. QED
  BY <1>1, <1>2

(* What becomes of a session: it keeps its owner and never comes to life.   *)
Aged(s, t) ==
  /\ t \in SessionRows /\ t.owner = s.owner
  /\ TokensTrue(t) /\ (t.state = "live" => s.state = "live")

LEMMA AgedSame == ASSUME NEW s \in SessionRows, TokensTrue(s) PROVE Aged(s, s)
  BY DEF Aged

LEMMA RevokedAged ==
  ASSUME NEW s \in SessionRows, TokensTrue(s)
  PROVE  Aged(s, Access!RevokeSession(s)) /\ Access!RevokeSession(s).state = "revoked" /\ Access!RevokeSession(s).owner = s.owner
<1> DEFINE Tk == {"live", "consumed", "revoked"}
<1> DEFINE toks == [i \in DOMAIN s.tokens |-> IF s.tokens[i] = "live" THEN "revoked" ELSE s.tokens[i]]
<1>0. s.tokens \in Seq(Tk)
  BY DEF SessionRows
<1>1. toks \in [DOMAIN s.tokens -> Tk]
  BY <1>0
<1>2. toks \in Seq(Tk) /\ Len(toks) = Len(s.tokens) /\ DOMAIN toks = DOMAIN s.tokens
  BY <1>0, <1>1, OverDomain
<1>3. \A g \in DOMAIN toks : toks[g] # "live"
  BY <1>2
<1>4. Access!RevokeSession(s) = [s EXCEPT !.state = "revoked", !.tokens = toks]
  BY DEF Access!RevokeSession
<1> HIDE DEF toks
<1>5. Access!RevokeSession(s) \in SessionRows
  BY <1>2, <1>4 DEF SessionRows, Access!Row
<1>6. /\ Access!RevokeSession(s).state = "revoked" /\ Access!RevokeSession(s).owner = s.owner /\ Access!RevokeSession(s).tokens = toks
      /\ Access!RevokeSession(s).gen = s.gen /\ Access!RevokeSession(s).held = s.held
  BY <1>4 DEF SessionRows
<1>7. TokensTrue(Access!RevokeSession(s))
  BY <1>2, <1>3, <1>6 DEF TokensTrue
<1>8. QED
  BY <1>5, <1>6, <1>7 DEF Aged

LEMMA ExpiredAged ==
  ASSUME NEW s \in SessionRows, TokensTrue(s), s.state = "live"
  PROVE  Aged(s, [s EXCEPT !.state = "expired"])
  BY DEF Aged, SessionRows, Access!Row, TokensTrue

LEMMA RotatedAged ==
  ASSUME AccessBounds, NEW s \in SessionRows, NEW got \in BOOLEAN, TokensTrue(s),
         s.held = s.gen, s.gen < MaxGen, s.state = "live"
  PROVE  Aged(s, Access!Rotated(s, got))
<1> DEFINE Tk == {"live", "consumed", "revoked"}
<1> DEFINE old == [s.tokens EXCEPT ![s.gen + 1] = "consumed"]
<1> DEFINE toks == Append(old, "live")
<1>0. s.tokens \in Seq(Tk) /\ s.gen \in 0 .. MaxGen /\ s.held \in -1 .. MaxGen /\ MaxGen \in Nat
  BY DEF SessionRows, AccessBounds
<1>1. Len(s.tokens) = s.gen + 1 /\ DOMAIN s.tokens = 1 .. s.gen + 1
  BY <1>0 DEF TokensTrue
<1>2. old \in [DOMAIN s.tokens -> Tk]
  BY <1>0, <1>1
<1>3. old \in Seq(Tk) /\ Len(old) = s.gen + 1 /\ DOMAIN old = 1 .. s.gen + 1
  BY <1>0, <1>1, <1>2, OverDomain
<1>4. \A g \in 1 .. s.gen + 1 : old[g] # "live"
  BY <1>0, <1>1 DEF TokensTrue
<1> HIDE DEF old
<1>5. toks \in Seq(Tk) /\ Len(toks) = s.gen + 2 /\ DOMAIN toks = 1 .. s.gen + 2 /\ toks[s.gen + 2] = "live"
  BY <1>0, <1>3
<1>6. \A g \in 1 .. s.gen + 1 : toks[g] # "live"
  BY <1>0, <1>3, <1>4
<1>7. Access!Rotated(s, got) = [s EXCEPT !.tokens = toks, !.gen = s.gen + 1, !.held = IF got THEN s.gen + 1 ELSE s.held]
  BY DEF Access!Rotated, old, SessionRows
<1> HIDE DEF toks
<1>8. /\ Access!Rotated(s, got).tokens = toks /\ Access!Rotated(s, got).gen = s.gen + 1 /\ Access!Rotated(s, got).state = s.state
      /\ Access!Rotated(s, got).owner = s.owner /\ Access!Rotated(s, got).held = IF got THEN s.gen + 1 ELSE s.held
  BY <1>7 DEF SessionRows
<1>9. (IF got THEN s.gen + 1 ELSE s.held) \in -1 .. MaxGen /\ s.gen + 1 \in 0 .. MaxGen
  BY <1>0
<1>10. Access!Rotated(s, got) \in SessionRows
  BY <1>5, <1>7, <1>9 DEF SessionRows
<1>11. TokensTrue(Access!Rotated(s, got))
  BY <1>0, <1>5, <1>6, <1>8 DEF TokensTrue
<1>12. QED
  BY <1>8, <1>10, <1>11 DEF Aged

LEMMA SessionTyped ==
  ASSUME SessionsTrue, NEW i \in DOMAIN sessions
  PROVE  sessions[i] \in SessionRows /\ sessions[i].owner \in People /\ TokensTrue(sessions[i])
<1>1. sessions[i] \in SessionRows /\ TokensTrue(sessions[i])
  BY DEF SessionsTrue
<1>2. QED
  BY <1>1 DEF SessionRows

LEMMA ClaimTyped ==
  ASSUME ClaimsTrue, NEW c \in DOMAIN claims
  PROVE  claims[c] \in ClaimRows /\ claims[c].to \in People /\ claims[c].state \in Access!Row
<1>1. claims[c] \in ClaimRows
  BY DEF ClaimsTrue
<1>2. QED
  BY <1>1 DEF ClaimRows

(* The sessions of a step that makes no new one.                            *)
LEMMA SessionsAge ==
  ASSUME SessionsTrue, Joined, sessions' \in Seq(SessionRows), DOMAIN sessions' = DOMAIN sessions,
         \A i \in DOMAIN sessions : Aged(sessions[i], sessions'[i])
  PROVE  SessionsTrue' /\ \A p \in People : Access!LiveSessions(p)' \subseteq Access!LiveSessions(p)
<1>1. \A i \in DOMAIN sessions : sessions[i] \in SessionRows /\ sessions[i].owner \in People
  BY SessionTyped
<1>2. \A i \in DOMAIN sessions' : TokensTrue(sessions'[i]) /\ sessions'[i].owner = sessions[i].owner
                                    /\ (sessions'[i].state = "live" => sessions[i].state = "live")
  BY DEF Aged
<1>3. \A i \in DOMAIN sessions' : ~Access!Unknown(sessions[i].owner)'
  <2> SUFFICES ASSUME NEW i \in DOMAIN sessions PROVE ~(members'[sessions'[i].owner] = Access!NoOne)
    BY DEF Access!Unknown
  <2>1. ~Access!Unknown(sessions[i].owner)
    BY DEF SessionsTrue
  <2> DEFINE q == sessions[i].owner
  <2>2. q \in People /\ sessions'[i].owner = q
    BY <1>1, <1>2
  <2> HIDE DEF q
  <2>3. ~Access!Unknown(q)
    BY <2>1 DEF q
  <2>4. QED
    BY <2>2, <2>3 DEF Joined, Access!Unknown
<1>4. \A i, j \in DOMAIN sessions' :
        sessions'[i].owner = sessions'[j].owner /\ sessions'[i].state = "live" /\ sessions'[j].state = "live" => i = j
  BY <1>2 DEF SessionsTrue
<1>5. SessionsTrue'
  BY <1>2, <1>3, <1>4 DEF SessionsTrue
<1>6. QED
  BY <1>2, <1>5 DEF Access!LiveSessions

(* Nothing changes of the sessions.                                         *)
LEMMA SessionsRest ==
  ASSUME SessionsTrue, Joined, sessions' = sessions
  PROVE  SessionsTrue' /\ \A p \in People : Access!LiveSessions(p)' \subseteq Access!LiveSessions(p)
<1>1. sessions' \in Seq(SessionRows) /\ DOMAIN sessions' = DOMAIN sessions
  BY DEF SessionsTrue
<1>2. \A i \in DOMAIN sessions : Aged(sessions[i], sessions'[i])
  BY AgedSame, SessionTyped
<1>3. QED
  BY <1>1, <1>2, SessionsAge

(* A new session of p, who has no live one and has joined after the step.   *)
LEMMA SessionsGrow ==
  ASSUME SessionsTrue, Joined, NEW p \in People, NEW got \in BOOLEAN, AccessBounds, ~Access!Unknown(p)',
         NEW S \in Seq(SessionRows), DOMAIN S = DOMAIN sessions,
         \A i \in DOMAIN sessions : Aged(sessions[i], S[i]) /\ (S[i].owner = p => S[i].state # "live"),
         sessions' = Append(S, [owner |-> p, gen |-> 0, state |-> "live", tokens |-> <<"live">>,
                                held |-> IF got THEN 0 ELSE -1])
  PROVE  /\ SessionsTrue' /\ \A q \in People \ {p} : Access!LiveSessions(q)' \subseteq Access!LiveSessions(q)
         /\ DOMAIN sessions' = DOMAIN sessions \cup {Len(S) + 1} /\ sessions'[Len(S) + 1].owner = p
         /\ \A i \in DOMAIN sessions : sessions'[i] = S[i]
<1> DEFINE new == [owner |-> p, gen |-> 0, state |-> "live", tokens |-> <<"live">>, held |-> IF got THEN 0 ELSE -1]
<1> DEFINE n == Len(S) + 1
<1>0. MaxGen \in Nat /\ Len(S) \in Nat /\ DOMAIN S = 1 .. Len(S)
  BY DEF AccessBounds
<1>1. (IF got THEN 0 ELSE -1) \in -1 .. MaxGen /\ (IF got THEN 0 ELSE -1) <= 0 /\ 0 \in 0 .. MaxGen
  BY <1>0
<1>2. <<"live">> \in Seq({"live", "consumed", "revoked"}) /\ Len(<<"live">>) = 1 /\ DOMAIN <<"live">> = {1} /\ <<"live">>[1] = "live"
  OBVIOUS
<1>3. /\ new \in SessionRows /\ TokensTrue(new)
      /\ new.owner = p
  BY <1>1, <1>2 DEF SessionRows, Access!Row, TokensTrue
<1> HIDE DEF new
<1>4. sessions' = Append(S, new)
  BY DEF new
<1>5. /\ sessions' \in Seq(SessionRows) /\ DOMAIN sessions' = DOMAIN sessions \cup {n} /\ n \notin DOMAIN sessions
      /\ sessions'[n] = new /\ \A i \in DOMAIN sessions : sessions'[i] = S[i]
  BY <1>0, <1>3, <1>4
<1> HIDE DEF n
<1>6. \A i \in DOMAIN sessions : sessions[i] \in SessionRows /\ sessions[i].owner \in People
  BY SessionTyped
<1>7. \A i \in DOMAIN sessions : /\ TokensTrue(sessions'[i]) /\ sessions'[i].owner = sessions[i].owner
                                 /\ (sessions'[i].state = "live" => sessions[i].state = "live" /\ sessions[i].owner # p)
  BY <1>5 DEF Aged
<1>8. \A i \in DOMAIN sessions' : ~Access!Unknown(sessions[i].owner)'
  <2> SUFFICES ASSUME NEW i \in DOMAIN sessions' PROVE ~(members'[sessions'[i].owner] = Access!NoOne)
    BY DEF Access!Unknown
  <2>1. CASE i = n
    BY <2>1, <1>3, <1>5 DEF Access!Unknown
  <2>2. CASE i \in DOMAIN sessions
    <3>1. ~Access!Unknown(sessions[i].owner)
      BY <2>2 DEF SessionsTrue
    <3> DEFINE q == sessions[i].owner
    <3>2. q \in People /\ sessions'[i].owner = q
      BY <2>2, <1>6, <1>7
    <3> HIDE DEF q
    <3>3. ~Access!Unknown(q)
      BY <3>1 DEF q
    <3>4. QED
      BY <3>2, <3>3 DEF Joined, Access!Unknown
  <2>3. QED
    BY <1>5, <2>1, <2>2
<1>9. \A i, j \in DOMAIN sessions' :
        sessions'[i].owner = sessions'[j].owner /\ sessions'[i].state = "live" /\ sessions'[j].state = "live" => i = j
  <2>1. \A i, j \in DOMAIN sessions :
          sessions'[i].owner = sessions'[j].owner /\ sessions'[i].state = "live" /\ sessions'[j].state = "live" => i = j
    BY <1>7 DEF SessionsTrue
  <2>2. \A i \in DOMAIN sessions : sessions'[i].state = "live" => sessions'[i].owner # sessions'[n].owner
    BY <1>3, <1>5, <1>7
  <2>3. QED
    BY <1>5, <2>1, <2>2
<1>10. \A i \in DOMAIN sessions' : TokensTrue(sessions'[i])
  BY <1>3, <1>5, <1>7
<1>11. SessionsTrue'
  BY <1>5, <1>8, <1>9, <1>10 DEF SessionsTrue
<1>12. \A q \in People \ {p} : Access!LiveSessions(q)' \subseteq Access!LiveSessions(q)
  BY <1>3, <1>5, <1>7 DEF Access!LiveSessions
<1>13. QED
  BY <1>3, <1>5, <1>11, <1>12 DEF n

(* Everybody's recovery claims while nobody's session comes to life.        *)
LEMMA ClaimsRest ==
  ASSUME SessionsTrue, ClaimsTrue, Joined, claims' = claims, proofs' = proofs,
         \A p \in People : Access!LiveSessions(p)' \subseteq Access!LiveSessions(p)
  PROVE  ClaimsTrue'
<1>1. \A c \in DOMAIN claims : claims[c].to \in People
  BY ClaimTyped
<1>2. \A c \in DOMAIN claims : ~Access!Unknown(claims[c].to)'
  <2> SUFFICES ASSUME NEW c \in DOMAIN claims PROVE ~(members'[claims'[c].to] = Access!NoOne)
    BY DEF Access!Unknown
  <2> DEFINE q == claims[c].to
  <2>1. q \in People /\ ~Access!Unknown(q) /\ claims'[c].to = q
    BY <1>1 DEF ClaimsTrue
  <2> HIDE DEF q
  <2>2. QED
    BY <2>1 DEF Joined, Access!Unknown
<1>3. \A c \in DOMAIN claims : claims[c].state = "live" =>
        \A i \in DOMAIN sessions' : sessions'[i].owner = claims[c].to => sessions'[i].state # "live"
  <2> SUFFICES ASSUME NEW c \in DOMAIN claims, claims[c].state = "live", NEW i \in DOMAIN sessions',
                      sessions'[i].owner = claims[c].to, sessions'[i].state = "live"
               PROVE  FALSE
    OBVIOUS
  <2>1. i \in Access!LiveSessions(claims[c].to)
    <3> DEFINE q == claims[c].to
    <3>1. q \in People /\ sessions'[i].owner = q
      BY <1>1
    <3> HIDE DEF q
    <3>2. i \in Access!LiveSessions(q)
      BY <3>1 DEF Access!LiveSessions
    <3>3. QED
      BY <3>2 DEF q
  <2>2. QED
    BY <2>1 DEF Access!LiveSessions, ClaimsTrue
<1>4. QED
  BY <1>2, <1>3 DEF ClaimsTrue

LEMMA MishapCounts ==
  ASSUME AccessBounds, mishaps \in 0 .. MaxMishaps, Access!Mishap \/ UNCHANGED mishaps
  PROVE  mishaps' \in 0 .. MaxMishaps
  BY DEF AccessBounds, Access!Mishap

LEMMA AnswerCounts ==
  ASSUME NEW got \in BOOLEAN, Access!Answered(got)
  PROVE  Access!Mishap \/ UNCHANGED mishaps
  BY DEF Access!Answered

LEMMA GrantsRest ==
  ASSUME GrantsTrue, grants' = grants, nodes' = nodes
  PROVE  GrantsTrue' /\ \A g \in nodes' \ nodes : Access!MayIssue(grants[g].issuer)
  BY DEF GrantsTrue, Counting

LEMMA BootsRest ==
  ASSUME BootsTrue, UNCHANGED Access!bootVars
  PROVE  BootsTrue' /\ team' = team
  BY DEF BootsTrue, Access!bootVars, Access!Orphan

LEMMA PeopleRest ==
  ASSUME PeopleTrue, members' = members, invites' = invites, team' = "none" => team = "none"
  PROVE  PeopleTrue' /\ Joined
  BY DEF PeopleTrue, Joined, Access!Unknown

LEMMA InvitesRest ==
  ASSUME PeopleTrue, invites' = invites
  PROVE  \A n \in DOMAIN invites : invites[n].state = "live" /\ invites'[n].state = "used" => Access!MayIssue(invites[n].issuer)
  OBVIOUS

(* A step of the bootstrap claims alone.                                    *)
LEMMA BootStep ==
  ASSUME AccessBounds, AccessInv, BootsTrue', team' = "none" => team = "none", Access!Mishap \/ UNCHANGED mishaps,
         UNCHANGED <<members, sessions, invites, claims, proofs, grants, nodes>>
  PROVE  AccessKept
<1>0. SessionsTrue /\ ClaimsTrue /\ GrantsTrue /\ PeopleTrue /\ mishaps \in 0 .. MaxMishaps
  BY DEF AccessInv
<1>1. /\ members' = members /\ sessions' = sessions /\ invites' = invites /\ claims' = claims /\ proofs' = proofs
      /\ grants' = grants /\ nodes' = nodes
  OBVIOUS
<1>2. PeopleTrue' /\ Joined
  BY <1>0, <1>1, PeopleRest
<1>3. SessionsTrue' /\ \A p \in People : Access!LiveSessions(p)' \subseteq Access!LiveSessions(p)
  BY <1>0, <1>1, <1>2, SessionsRest
<1>4. ClaimsTrue'
  BY <1>0, <1>1, <1>2, <1>3, ClaimsRest
<1>5. GrantsTrue' /\ \A g \in nodes' \ nodes : Access!MayIssue(grants[g].issuer)
  BY <1>0, <1>1, GrantsRest
<1>6. mishaps' \in 0 .. MaxMishaps
  BY <1>0, MishapCounts
<1>7. QED
  BY <1>0, <1>1, <1>2, <1>3, <1>4, <1>5, <1>6, InvitesRest DEF AccessKept, AccessInv, StaysOut, Authorized

(* A step of the sessions alone that makes no new one.                      *)
LEMMA SessionStep ==
  ASSUME AccessBounds, AccessInv, Access!Mishap \/ UNCHANGED mishaps, NEW i \in DOMAIN sessions, NEW t,
         Aged(sessions[i], t), sessions' = [sessions EXCEPT ![i] = t],
         UNCHANGED <<Access!bootVars, members, invites, claims, proofs, grants, nodes>>
  PROVE  AccessKept
<1>0. SessionsTrue /\ ClaimsTrue /\ GrantsTrue /\ PeopleTrue /\ BootsTrue /\ mishaps \in 0 .. MaxMishaps
  BY DEF AccessInv
<1>1. /\ members' = members /\ invites' = invites /\ claims' = claims /\ proofs' = proofs
      /\ grants' = grants /\ nodes' = nodes /\ UNCHANGED Access!bootVars
  OBVIOUS
<1>2. BootsTrue' /\ team' = team
  BY <1>0, <1>1, BootsRest
<1>3. PeopleTrue' /\ Joined
  BY <1>0, <1>1, <1>2, PeopleRest
<1>4. sessions' \in Seq(SessionRows) /\ DOMAIN sessions' = DOMAIN sessions
  <2>1. t \in SessionRows /\ sessions \in Seq(SessionRows)
    BY <1>0 DEF Aged, SessionsTrue
  <2>2. QED
    BY <2>1
<1>5. \A j \in DOMAIN sessions : Aged(sessions[j], sessions'[j])
  BY <1>0, AgedSame, SessionTyped
<1>6. SessionsTrue' /\ \A p \in People : Access!LiveSessions(p)' \subseteq Access!LiveSessions(p)
  BY <1>0, <1>3, <1>4, <1>5, SessionsAge
<1>7. ClaimsTrue'
  BY <1>0, <1>1, <1>3, <1>6, ClaimsRest
<1>8. GrantsTrue' /\ \A g \in nodes' \ nodes : Access!MayIssue(grants[g].issuer)
  BY <1>0, <1>1, GrantsRest
<1>9. mishaps' \in 0 .. MaxMishaps
  BY <1>0, MishapCounts
<1>10. QED
  BY <1>0, <1>1, <1>2, <1>3, <1>6, <1>7, <1>8, <1>9, InvitesRest DEF AccessKept, AccessInv, StaysOut, Authorized

(* A step of the invitations alone.                                         *)
LEMMA InviteStep ==
  ASSUME AccessBounds, AccessInv, Access!Mishap \/ UNCHANGED mishaps, invites' \in Seq(InviteRows), team # "none",
         \A n \in DOMAIN invites : invites[n].state = "live" /\ invites'[n].state = "used" => Access!MayIssue(invites[n].issuer),
         UNCHANGED <<Access!bootVars, members, sessions, claims, proofs, grants, nodes>>
  PROVE  AccessKept
<1>0. SessionsTrue /\ ClaimsTrue /\ GrantsTrue /\ PeopleTrue /\ BootsTrue /\ mishaps \in 0 .. MaxMishaps
  BY DEF AccessInv
<1>1. /\ members' = members /\ sessions' = sessions /\ claims' = claims /\ proofs' = proofs
      /\ grants' = grants /\ nodes' = nodes /\ UNCHANGED Access!bootVars
  OBVIOUS
<1>2. BootsTrue' /\ team' = team
  BY <1>0, <1>1, BootsRest
<1>3. PeopleTrue' /\ Joined
  BY <1>0, <1>1, <1>2 DEF PeopleTrue, Joined, Access!Unknown
<1>4. SessionsTrue' /\ \A p \in People : Access!LiveSessions(p)' \subseteq Access!LiveSessions(p)
  BY <1>0, <1>1, <1>3, SessionsRest
<1>5. ClaimsTrue'
  BY <1>0, <1>1, <1>3, <1>4, ClaimsRest
<1>6. GrantsTrue' /\ \A g \in nodes' \ nodes : Access!MayIssue(grants[g].issuer)
  BY <1>0, <1>1, GrantsRest
<1>7. mishaps' \in 0 .. MaxMishaps
  BY <1>0, MishapCounts
<1>8. QED
  BY <1>0, <1>1, <1>2, <1>3, <1>4, <1>5, <1>6, <1>7 DEF AccessKept, AccessInv, StaysOut, Authorized

(* A step of the enrolments alone.                                          *)
LEMMA GrantStep ==
  ASSUME AccessBounds, AccessInv, Access!Mishap \/ UNCHANGED mishaps, GrantsTrue',
         \A g \in nodes' \ nodes : Access!MayIssue(grants[g].issuer),
         UNCHANGED <<Access!bootVars, members, sessions, invites, claims, proofs>>
  PROVE  AccessKept
<1>0. SessionsTrue /\ ClaimsTrue /\ GrantsTrue /\ PeopleTrue /\ BootsTrue /\ mishaps \in 0 .. MaxMishaps
  BY DEF AccessInv
<1>1. members' = members /\ sessions' = sessions /\ invites' = invites /\ claims' = claims /\ proofs' = proofs /\ UNCHANGED Access!bootVars
  OBVIOUS
<1>2. BootsTrue' /\ team' = team
  BY <1>0, <1>1, BootsRest
<1>3. PeopleTrue' /\ Joined
  BY <1>0, <1>1, <1>2, PeopleRest
<1>4. SessionsTrue' /\ \A p \in People : Access!LiveSessions(p)' \subseteq Access!LiveSessions(p)
  BY <1>0, <1>1, <1>3, SessionsRest
<1>5. ClaimsTrue'
  BY <1>0, <1>1, <1>3, <1>4, ClaimsRest
<1>6. mishaps' \in 0 .. MaxMishaps
  BY <1>0, MishapCounts
<1>7. QED
  BY <1>0, <1>1, <1>2, <1>3, <1>4, <1>5, <1>6, InvitesRest DEF AccessKept, AccessInv, StaysOut, Authorized

-----------------------------------------------------------------------------
LEMMA RefreshesKept ==
  ASSUME AccessBounds, AccessInv, Access!Refreshes
  PROVE  AccessKept
<1>0. SessionsTrue /\ UNCHANGED <<Access!bootVars, members, invites, claims, proofs, grants, nodes>>
  BY DEF AccessInv, Access!Refreshes, Access!recoveryVars, Access!nodeVars
<1>1. PICK i \in DOMAIN sessions : \/ \E g \in 0 .. MaxGen : Access!RefreshReplay(i, g)
                                   \/ \E got \in BOOLEAN : Access!Refresh(i, got)
  BY DEF Access!Refreshes
<1>2. CASE \E g \in 0 .. MaxGen : Access!RefreshReplay(i, g)
  <2>1. sessions' = [sessions EXCEPT ![i] = Access!RevokeSession(sessions[i])] /\ UNCHANGED mishaps
    BY <1>2 DEF Access!RefreshReplay
  <2>2. Aged(sessions[i], Access!RevokeSession(sessions[i]))
    BY <1>0, SessionTyped, RevokedAged
  <2>3. QED
    BY <1>0, <2>1, <2>2, SessionStep
<1>3. CASE \E got \in BOOLEAN : Access!Refresh(i, got)
  <2>1. PICK got \in BOOLEAN : Access!Refresh(i, got)
    BY <1>3
  <2>2. /\ sessions' = [sessions EXCEPT ![i] = Access!Rotated(sessions[i], got)] /\ Access!Answered(got)
        /\ sessions[i].held = sessions[i].gen /\ sessions[i].gen < MaxGen /\ sessions[i].state = "live"
    BY <2>1 DEF Access!Refresh
  <2>3. Aged(sessions[i], Access!Rotated(sessions[i], got))
    BY <1>0, <2>2, SessionTyped, RotatedAged
  <2>4. Access!Mishap \/ UNCHANGED mishaps
    BY <2>2, AnswerCounts
  <2>5. QED
    BY <1>0, <2>2, <2>3, <2>4, SessionStep
<1>4. QED
  BY <1>1, <1>2, <1>3

LEMMA EndSessionKept ==
  ASSUME AccessBounds, AccessInv, NEW i \in DOMAIN sessions, NEW p \in People, Access!EndSession(p, i)
  PROVE  AccessKept
<1>1. /\ sessions' = [sessions EXCEPT ![i] = Access!RevokeSession(sessions[i])] /\ UNCHANGED mishaps
      /\ UNCHANGED <<Access!bootVars, members, invites, claims, proofs, grants, nodes>>
  BY DEF Access!EndSession, Access!recoveryVars, Access!nodeVars
<1>2. Aged(sessions[i], Access!RevokeSession(sessions[i]))
  BY SessionTyped, RevokedAged DEF AccessInv
<1>3. QED
  BY <1>1, <1>2, SessionStep

LEMMA ExpireSessionKept ==
  ASSUME AccessBounds, AccessInv, NEW i \in DOMAIN sessions, Access!ExpireSession(i)
  PROVE  AccessKept
<1>1. /\ sessions' = [sessions EXCEPT ![i] = [sessions[i] EXCEPT !.state = "expired"]] /\ Access!Mishap
      /\ UNCHANGED <<Access!bootVars, members, invites, claims, proofs, grants, nodes>> /\ sessions[i].state = "live"
  BY DEF Access!ExpireSession, Access!recoveryVars, Access!nodeVars
<1>2. Aged(sessions[i], [sessions[i] EXCEPT !.state = "expired"])
  BY <1>1, SessionTyped, ExpiredAged DEF AccessInv
<1>3. QED
  BY <1>1, <1>2, SessionStep

-----------------------------------------------------------------------------
LEMMA LocalClaimTrue ==
  ASSUME AccessBounds, BootsTrue, Access!LocalClaim, up' \in BOOLEAN, team = "none", team' = team
  PROVE  BootsTrue'
<1>1. /\ bootIds' = bootIds + 1 /\ bootIds + 1 \in 1 .. MaxBoots /\ bootFile' = bootIds + 1
      /\ boots' = {[id |-> bootIds + 1, by |-> Host]}
  BY DEF Access!LocalClaim, Access!NewClaimBy, BootsTrue, AccessBounds
<1>2. bootFile' \in 0 .. Access!Orphan /\ bootIds' \in 0 .. MaxBoots /\ bootIds + 1 \in 1 .. bootIds'
  BY <1>1 DEF Access!Orphan, AccessBounds
<1>3. boots' \subseteq [id : 1 .. bootIds', by : People \cup {Host}]
  BY <1>1, <1>2
<1>4. QED
  BY <1>1, <1>2, <1>3 DEF BootsTrue, Access!Orphan

LEMMA DelegateTrue ==
  ASSUME AccessBounds, BootsTrue, NEW p \in People, Access!Delegate(p), up' \in BOOLEAN, bootFile' \in 0 .. Access!Orphan,
         team = "none", team' = team
  PROVE  BootsTrue'
<1>1. /\ bootIds' = bootIds + 1 /\ bootIds + 1 \in 1 .. MaxBoots
      /\ boots' = {[id |-> bootIds + 1, by |-> p]} /\ p # Host
  BY DEF Access!Delegate, Access!NewClaimBy, BootsTrue, AccessBounds
<1>2. bootIds' \in 0 .. MaxBoots /\ bootIds + 1 \in 1 .. bootIds'
  BY <1>1 DEF AccessBounds
<1>3. boots' \subseteq [id : 1 .. bootIds', by : People \cup {Host}]
  BY <1>1, <1>2
<1>4. QED
  BY <1>1, <1>2, <1>3 DEF BootsTrue, Access!Orphan

LEMMA StartKept ==
  ASSUME AccessBounds, AccessInv, Access!Start
  PROVE  AccessKept
<1>1. BootsTrue /\ ~up /\ up' /\ up' \in BOOLEAN /\ team' = team /\ UNCHANGED mishaps
      /\ UNCHANGED <<members, sessions, invites, claims, proofs, grants, nodes>>
  BY DEF AccessInv, Access!Start, Access!recoveryVars, Access!nodeVars
<1>2. BootsTrue'
  <2>1. CASE Access!GloballyEmpty /\ ~Access!ClaimStands
    <3>1. Access!LocalClaim /\ team = "none"
      BY <2>1 DEF Access!Start, Access!GloballyEmpty
    <3>2. QED
      BY <1>1, <3>1, LocalClaimTrue
  <2>2. CASE ~(Access!GloballyEmpty /\ ~Access!ClaimStands)
    <3>1. boots' = boots /\ bootIds' = bootIds /\ bootFile' = bootFile
      BY <2>2 DEF Access!Start
    <3>2. \A b \in boots : b.by = Host => bootFile = b.id
      <4>1. CASE ~Access!GloballyEmpty
        BY <1>1, <4>1 DEF BootsTrue, Access!GloballyEmpty
      <4>2. CASE Access!ClaimStands
        BY <1>1, <4>2 DEF BootsTrue, Access!ClaimStands
      <4>3. QED
        BY <2>2, <4>1, <4>2
    <3>3. QED
      BY <1>1, <3>1, <3>2 DEF BootsTrue, Access!Orphan
  <2>3. QED
    BY <2>1, <2>2
<1>3. QED
  BY <1>1, <1>2, BootStep

LEMMA RenewKept ==
  ASSUME AccessBounds, AccessInv, Access!RenewBootstrapProof
  PROVE  AccessKept
<1>1. /\ BootsTrue /\ Access!LocalClaim /\ up' = up /\ team' = team /\ team = "none" /\ UNCHANGED mishaps
      /\ UNCHANGED <<members, sessions, invites, claims, proofs, grants, nodes>>
  BY DEF AccessInv, Access!RenewBootstrapProof, Access!recoveryVars, Access!nodeVars, Access!GloballyEmpty
<1>2. up' \in BOOLEAN
  BY <1>1 DEF BootsTrue
<1>3. BootsTrue'
  BY <1>1, <1>2, LocalClaimTrue
<1>4. QED
  BY <1>1, <1>3, BootStep

LEMMA TailnetKept ==
  ASSUME AccessBounds, AccessInv, NEW p \in People, Access!IssueTailnetBootstrap(p)
  PROVE  AccessKept
<1>1. /\ BootsTrue /\ Access!Delegate(p) /\ bootFile' = 0 /\ up' = up /\ team' = team /\ team = "none" /\ UNCHANGED mishaps
      /\ UNCHANGED <<members, sessions, invites, claims, proofs, grants, nodes>>
  BY DEF AccessInv, Access!IssueTailnetBootstrap, Access!recoveryVars, Access!nodeVars, Access!GloballyEmpty
<1>2. up' \in BOOLEAN
  BY <1>1 DEF BootsTrue
<1>3. bootFile' \in 0 .. Access!Orphan
  BY <1>1 DEF Access!Orphan, AccessBounds
<1>4. BootsTrue'
  BY <1>1, <1>2, <1>3, DelegateTrue
<1>5. QED
  BY <1>1, <1>4, BootStep

LEMMA CrashKept ==
  ASSUME AccessBounds, AccessInv, Access!Crash
  PROVE  AccessKept
<1>1. /\ BootsTrue /\ up' = FALSE /\ team' = team /\ team = "none" /\ Access!Mishap
      /\ UNCHANGED <<members, sessions, invites, claims, proofs, grants, nodes>>
  BY DEF AccessInv, Access!Crash, Access!recoveryVars, Access!nodeVars, Access!GloballyEmpty
<1>2. up' \in BOOLEAN
  BY <1>1
<1>3. BootsTrue'
  <2>1. CASE bootFile' \in {bootFile, 0, Access!Orphan} /\ UNCHANGED <<boots, bootIds>>
    <3>1. bootFile' \in 0 .. Access!Orphan
      BY <1>1, <2>1 DEF BootsTrue, Access!Orphan, AccessBounds
    <3>2. boots' = boots /\ bootIds' = bootIds
      BY <2>1
    <3>3. QED
      BY <1>1, <1>2, <3>1, <3>2 DEF BootsTrue, Access!Orphan
  <2>2. CASE (\E p \in People : Access!Delegate(p)) /\ UNCHANGED bootFile
    <3>1. PICK p \in People : Access!Delegate(p)
      BY <2>2
    <3>2. bootFile' \in 0 .. Access!Orphan
      BY <1>1, <2>2 DEF BootsTrue
    <3>3. QED
      BY <1>1, <1>2, <3>1, <3>2, DelegateTrue
  <2>3. QED
    BY <2>1, <2>2 DEF Access!Crash
<1>4. QED
  BY <1>1, <1>3, BootStep

LEMMA ManagedKept ==
  ASSUME AccessBounds, AccessInv, Access!BootstrapManagedNetwork
  PROVE  AccessKept
<1>1. /\ BootsTrue /\ team' = "managed" /\ boots' = {} /\ bootIds' = 0 /\ up' = up /\ bootFile' = bootFile /\ UNCHANGED mishaps
      /\ UNCHANGED <<members, sessions, invites, claims, proofs, grants, nodes>>
  BY DEF AccessInv, Access!BootstrapManagedNetwork, Access!recoveryVars, Access!nodeVars
<1>2. BootsTrue'
  BY <1>1 DEF BootsTrue, Access!Orphan, AccessBounds
<1>3. QED
  BY <1>1, <1>2, BootStep

LEMMA ExpireBootKept ==
  ASSUME AccessBounds, AccessInv, NEW b \in boots, Access!ExpireBoot(b)
  PROVE  AccessKept
<1>1. /\ BootsTrue /\ team' = team /\ boots' = boots \ {b} /\ bootIds' = bootIds /\ up' = up /\ bootFile' = bootFile /\ Access!Mishap
      /\ UNCHANGED <<members, sessions, invites, claims, proofs, grants, nodes>>
  BY DEF AccessInv, Access!ExpireBoot, Access!recoveryVars, Access!nodeVars
<1>2. BootsTrue'
  BY <1>1 DEF BootsTrue, Access!Orphan
<1>3. QED
  BY <1>1, <1>2, BootStep

(* A person joins with a first session.                                     *)
LEMMA JoinStep ==
  ASSUME AccessBounds, AccessInv, NEW p \in People, NEW got \in BOOLEAN, Access!Unknown(p),
         NEW rl \in {"owner", "admin", "member"},
         members' = [members EXCEPT ![p] = [role |-> rl, status |-> "active"]],
         sessions' = Access!CreateSession(p, got), claims' = claims, proofs' = proofs
  PROVE  /\ SessionsTrue' /\ ClaimsTrue' /\ StaysOut
         /\ members' \in [People -> MemberRows]
<1>0. SessionsTrue /\ ClaimsTrue /\ PeopleTrue /\ sessions \in Seq(SessionRows) /\ members \in [People -> MemberRows]
  BY DEF AccessInv, SessionsTrue, PeopleTrue
<1>1. members' \in [People -> MemberRows]
  BY <1>0 DEF MemberRows
<1>2. \A q \in People : q # p => members'[q] = members[q]
  BY <1>0
<1>3. ~Access!Unknown(p)' /\ Joined
  BY <1>0, <1>2 DEF Access!Unknown, Access!NoOne, Joined
<1>4. \A i \in DOMAIN sessions : Aged(sessions[i], sessions[i]) /\ (sessions[i].owner = p => sessions[i].state # "live")
  <2>1. \A i \in DOMAIN sessions : Aged(sessions[i], sessions[i])
    BY <1>0, SessionTyped, AgedSame
  <2>2. \A i \in DOMAIN sessions : sessions[i].owner # p
    BY <1>0 DEF SessionsTrue
  <2>3. QED
    BY <2>1, <2>2
<1>5. /\ SessionsTrue' /\ \A q \in People \ {p} : Access!LiveSessions(q)' \subseteq Access!LiveSessions(q)
      /\ DOMAIN sessions' = DOMAIN sessions \cup {Len(sessions) + 1} /\ sessions'[Len(sessions) + 1].owner = p
      /\ \A i \in DOMAIN sessions : sessions'[i] = sessions[i]
  <2>1. sessions' = Append(sessions, [owner |-> p, gen |-> 0, state |-> "live", tokens |-> <<"live">>,
                                      held |-> IF got THEN 0 ELSE -1])
    BY DEF Access!CreateSession
  <2>2. QED
    BY <1>0, <1>3, <1>4, <2>1, SessionsGrow
<1>6. \A c \in DOMAIN claims : claims[c].to \in People \ {p}
  BY <1>0, ClaimTyped DEF ClaimsTrue
<1>7. ClaimsTrue'
  <2>1. \A c \in DOMAIN claims : ~Access!Unknown(claims[c].to)'
    <3> SUFFICES ASSUME NEW c \in DOMAIN claims PROVE ~(members'[claims'[c].to] = Access!NoOne)
      BY DEF Access!Unknown
    <3>1. claims'[c].to = claims[c].to /\ members'[claims[c].to] = members[claims[c].to]
      BY <1>2, <1>6
    <3>2. QED
      BY <1>0, <3>1 DEF ClaimsTrue, Access!Unknown
  <2>2. \A c \in DOMAIN claims : claims[c].state = "live" =>
          \A i \in DOMAIN sessions' : sessions'[i].owner = claims[c].to => sessions'[i].state # "live"
    BY <1>0, <1>5, <1>6 DEF ClaimsTrue
  <2>3. QED
    BY <1>0, <2>1, <2>2 DEF ClaimsTrue
<1>8. members[p].status # "revoked"
  BY DEF Access!Unknown, Access!NoOne
<1>9. StaysOut
  BY <1>2, <1>5, <1>8 DEF StaysOut
<1>10. QED
  BY <1>1, <1>5, <1>7, <1>9

LEMMA OwnerKept ==
  ASSUME AccessBounds, AccessInv, NEW b \in boots, NEW p \in People, NEW got \in BOOLEAN, Access!BootstrapOwner(b, p, got)
  PROVE  AccessKept
<1>1. /\ team = "none" /\ team' = "personal" /\ boots' = boots \ {b} /\ bootFile' = 0 /\ bootIds' = 0 /\ up' = up
      /\ members' = [members EXCEPT ![p] = [role |-> "owner", status |-> "active"]]
      /\ sessions' = Access!CreateSession(p, got) /\ Access!Answered(got)
      /\ invites' = invites /\ claims' = claims /\ proofs' = proofs /\ grants' = grants /\ nodes' = nodes
  BY DEF Access!BootstrapOwner, Access!recoveryVars, Access!nodeVars, Access!GloballyEmpty
<1>2. Access!Unknown(p) /\ BootsTrue /\ GrantsTrue /\ PeopleTrue /\ mishaps \in 0 .. MaxMishaps
  BY <1>1 DEF AccessInv, PeopleTrue
<1>3. SessionsTrue' /\ ClaimsTrue' /\ StaysOut /\ members' \in [People -> MemberRows]
  BY <1>1, <1>2, JoinStep
<1>4. PeopleTrue'
  BY <1>1, <1>2, <1>3 DEF PeopleTrue
<1>5. boots' = {}
  BY <1>1, <1>2 DEF BootsTrue
<1>6. BootsTrue'
  BY <1>1, <1>2, <1>5 DEF BootsTrue, Access!Orphan, AccessBounds
<1>7. GrantsTrue' /\ \A g \in nodes' \ nodes : Access!MayIssue(grants[g].issuer)
  BY <1>1, <1>2, GrantsRest
<1>8. mishaps' \in 0 .. MaxMishaps
  BY <1>1, <1>2, AnswerCounts, MishapCounts
<1>9. QED
  BY <1>1, <1>2, <1>3, <1>4, <1>6, <1>7, <1>8, InvitesRest DEF AccessKept, AccessInv, Authorized

-----------------------------------------------------------------------------
LEMMA InviteTyped ==
  ASSUME PeopleTrue, NEW n \in DOMAIN invites
  PROVE  /\ invites[n] \in InviteRows /\ invites[n].to \in People /\ invites[n].role \in {"admin", "member"}
         /\ team # "none"
<1>1. invites[n] \in InviteRows
  BY DEF PeopleTrue
<1>2. invites # <<>>
  OBVIOUS
<1>3. QED
  BY <1>1, <1>2 DEF InviteRows, PeopleTrue

LEMMA InviteSettles ==
  ASSUME PeopleTrue, NEW n \in DOMAIN invites, NEW st \in Access!Row, st = "used" => Access!MayIssue(invites[n].issuer),
         invites' = [invites EXCEPT ![n].state = st]
  PROVE  /\ invites' \in Seq(InviteRows)
         /\ \A k \in DOMAIN invites : invites[k].state = "live" /\ invites'[k].state = "used" => Access!MayIssue(invites[k].issuer)
<1> DEFINE v == [invites[n] EXCEPT !.state = st]
<1>1. v \in InviteRows /\ v.state = st
  BY InviteTyped DEF InviteRows
<1>2. invites \in Seq(InviteRows) /\ invites' = [invites EXCEPT ![n] = v]
  BY DEF PeopleTrue
<1> HIDE DEF v
<1>3. invites' \in Seq(InviteRows)
  BY <1>1, <1>2
<1>4. QED
  BY <1>1, <1>2, <1>3

LEMMA IssueInviteKept ==
  ASSUME AccessBounds, AccessInv, NEW i \in People \cup {Host}, NEW p \in People, NEW rl \in {"admin", "member"},
         Access!IssueInvite(i, p, rl)
  PROVE  AccessKept
<1>1. /\ team # "none" /\ invites' = Append(invites, [issuer |-> i, to |-> p, role |-> rl, state |-> "live"])
      /\ UNCHANGED mishaps /\ UNCHANGED <<Access!bootVars, members, sessions, claims, proofs, grants, nodes>>
  BY DEF Access!IssueInvite, Access!recoveryVars, Access!nodeVars, Access!GloballyEmpty
<1>2. [issuer |-> i, to |-> p, role |-> rl, state |-> "live"] \in InviteRows /\ invites \in Seq(InviteRows)
  BY DEF InviteRows, Access!Row, AccessInv, PeopleTrue
<1>3. invites' \in Seq(InviteRows) /\ \A k \in DOMAIN invites : invites'[k] = invites[k]
  BY <1>1, <1>2
<1>4. QED
  BY <1>1, <1>3, InviteStep

LEMMA AcceptInviteKept ==
  ASSUME AccessBounds, AccessInv, NEW n \in DOMAIN invites, Access!AcceptInvite(n)
  PROVE  AccessKept
<1>1. /\ invites' = [invites EXCEPT ![n].state = "used"] /\ Access!MayIssue(invites[n].issuer)
      /\ UNCHANGED mishaps /\ UNCHANGED <<Access!bootVars, members, sessions, claims, proofs, grants, nodes>>
  BY DEF Access!AcceptInvite, Access!StillIssuer, Access!recoveryVars, Access!nodeVars
<1>2. PeopleTrue /\ "used" \in Access!Row
  BY DEF AccessInv, Access!Row
<1>3. QED
  BY <1>1, <1>2, InviteTyped, InviteSettles, InviteStep

LEMMA RevokeInviteKept ==
  ASSUME AccessBounds, AccessInv, NEW n \in DOMAIN invites, NEW ow \in People, Access!RevokeInvite(ow, n)
  PROVE  AccessKept
<1>1. /\ invites' = [invites EXCEPT ![n].state = "revoked"]
      /\ UNCHANGED mishaps /\ UNCHANGED <<Access!bootVars, members, sessions, claims, proofs, grants, nodes>>
  BY DEF Access!RevokeInvite, Access!recoveryVars, Access!nodeVars
<1>2. PeopleTrue /\ "revoked" \in Access!Row /\ "revoked" # "used"
  BY DEF AccessInv, Access!Row
<1>3. QED
  BY <1>1, <1>2, InviteTyped, InviteSettles, InviteStep

LEMMA ExpireInviteKept ==
  ASSUME AccessBounds, AccessInv, NEW n \in DOMAIN invites, Access!ExpireInvite(n)
  PROVE  AccessKept
<1>1. /\ invites' = [invites EXCEPT ![n].state = "expired"]
      /\ Access!Mishap /\ UNCHANGED <<Access!bootVars, members, sessions, claims, proofs, grants, nodes>>
  BY DEF Access!ExpireInvite, Access!recoveryVars, Access!nodeVars
<1>2. PeopleTrue /\ "expired" \in Access!Row /\ "expired" # "used"
  BY DEF AccessInv, Access!Row
<1>3. QED
  BY <1>1, <1>2, InviteTyped, InviteSettles, InviteStep

LEMMA RedeemInviteKept ==
  ASSUME AccessBounds, AccessInv, NEW n \in DOMAIN invites, NEW got \in BOOLEAN, Access!RedeemInvite(n, got)
  PROVE  AccessKept
<1> DEFINE p == invites[n].to
<1> DEFINE rl == invites[n].role
<1>1. /\ Access!Unknown(p) /\ Access!MayIssue(invites[n].issuer)
      /\ members' = [members EXCEPT ![p] = [role |-> rl, status |-> "active"]]
      /\ invites' = [invites EXCEPT ![n].state = "used"]
      /\ sessions' = Access!CreateSession(p, got) /\ Access!Answered(got)
      /\ UNCHANGED Access!bootVars /\ claims' = claims /\ proofs' = proofs /\ grants' = grants /\ nodes' = nodes
  BY DEF Access!RedeemInvite, Access!StillIssuer, Access!recoveryVars, Access!nodeVars
<1>2. PeopleTrue /\ BootsTrue /\ GrantsTrue /\ mishaps \in 0 .. MaxMishaps /\ "used" \in Access!Row
  BY DEF AccessInv, Access!Row
<1>3. p \in People /\ rl \in {"owner", "admin", "member"} /\ team # "none"
  BY <1>2, InviteTyped
<1> HIDE DEF p, rl
<1>4. SessionsTrue' /\ ClaimsTrue' /\ StaysOut /\ members' \in [People -> MemberRows]
  BY <1>1, <1>3, JoinStep
<1>5. /\ invites' \in Seq(InviteRows)
      /\ \A k \in DOMAIN invites : invites[k].state = "live" /\ invites'[k].state = "used" => Access!MayIssue(invites[k].issuer)
  BY <1>1, <1>2, InviteSettles
<1>6. BootsTrue' /\ team' = team
  BY <1>1, <1>2, BootsRest
<1>7. PeopleTrue'
  BY <1>3, <1>4, <1>5, <1>6 DEF PeopleTrue
<1>8. GrantsTrue' /\ \A g \in nodes' \ nodes : Access!MayIssue(grants[g].issuer)
  BY <1>1, <1>2, GrantsRest
<1>9. mishaps' \in 0 .. MaxMishaps
  BY <1>1, <1>2, AnswerCounts, MishapCounts
<1>10. QED
  BY <1>4, <1>5, <1>6, <1>7, <1>8, <1>9 DEF AccessKept, AccessInv, Authorized

LEMMA MembershipKept ==
  ASSUME AccessBounds, AccessInv, NEW ow \in People, NEW p \in People, Access!UpdateMembership(ow, p)
  PROVE  AccessKept
<1>1. PICK to \in [role : {"admin", "member"}, status : {"active", "suspended", "revoked"}] :
        Access!MembershipChange(members[p], to) /\ members' = [members EXCEPT ![p] = to]
  BY DEF Access!UpdateMembership
<1>2. /\ UNCHANGED Access!bootVars /\ sessions' = sessions /\ invites' = invites /\ claims' = claims /\ proofs' = proofs
      /\ grants' = grants /\ nodes' = nodes /\ UNCHANGED mishaps
  BY DEF Access!UpdateMembership, Access!recoveryVars, Access!nodeVars
<1>3. SessionsTrue /\ ClaimsTrue /\ GrantsTrue /\ PeopleTrue /\ BootsTrue /\ mishaps \in 0 .. MaxMishaps
  BY DEF AccessInv
<1>4. members \in [People -> MemberRows] /\ to \in MemberRows /\ to.role # "none"
  BY <1>3 DEF PeopleTrue, MemberRows
<1>5. members[p].status # "revoked" /\ members[p].role # "none"
  BY <1>1 DEF Access!MembershipChange
<1>6. /\ members' \in [People -> MemberRows] /\ members'[p] = to
      /\ \A q \in People : q # p => members'[q] = members[q]
  BY <1>1, <1>4
<1>7. Joined
  BY <1>4, <1>6 DEF Joined, Access!Unknown, Access!NoOne
<1>8. BootsTrue' /\ team' = team
  BY <1>2, <1>3, BootsRest
<1>9. team # "none"
  BY <1>3, <1>5 DEF PeopleTrue, Access!Unknown, Access!NoOne
<1>10. PeopleTrue'
  BY <1>2, <1>3, <1>6, <1>8, <1>9 DEF PeopleTrue
<1>11. SessionsTrue' /\ \A q \in People : Access!LiveSessions(q)' \subseteq Access!LiveSessions(q)
  BY <1>2, <1>3, <1>7, SessionsRest
<1>12. ClaimsTrue'
  BY <1>2, <1>3, <1>7, <1>11, ClaimsRest
<1>13. GrantsTrue' /\ \A g \in nodes' \ nodes : Access!MayIssue(grants[g].issuer)
  BY <1>2, <1>3, GrantsRest
<1>14. mishaps' \in 0 .. MaxMishaps
  BY <1>2, <1>3
<1>15. StaysOut
  BY <1>5, <1>6, <1>11 DEF StaysOut
<1>16. QED
  BY <1>2, <1>3, <1>8, <1>10, <1>11, <1>12, <1>13, <1>14, <1>15, InvitesRest DEF AccessKept, AccessInv, Authorized

-----------------------------------------------------------------------------
(* Every session of p is ended.                                             *)
LEMMA AllEnded ==
  ASSUME SessionsTrue, NEW p \in People
  PROVE  /\ Access!RevokeAllOf(p) \in Seq(SessionRows) /\ DOMAIN Access!RevokeAllOf(p) = DOMAIN sessions
         /\ Len(Access!RevokeAllOf(p)) = Len(sessions)
         /\ \A i \in DOMAIN sessions : /\ Aged(sessions[i], Access!RevokeAllOf(p)[i])
                                       /\ Access!RevokeAllOf(p)[i].owner = p => Access!RevokeAllOf(p)[i].state # "live"
<1> DEFINE S == Access!RevokeAllOf(p)
<1>1. S = [i \in DOMAIN sessions |-> IF sessions[i].owner = p THEN Access!RevokeSession(sessions[i]) ELSE sessions[i]]
  BY DEF Access!RevokeAllOf
<1>2. \A i \in DOMAIN sessions : /\ Aged(sessions[i], S[i])
                                 /\ S[i].owner = p => S[i].state # "live"
  <2> SUFFICES ASSUME NEW i \in DOMAIN sessions
               PROVE  Aged(sessions[i], S[i]) /\ (S[i].owner = p => S[i].state # "live")
    OBVIOUS
  <2>1. sessions[i] \in SessionRows /\ TokensTrue(sessions[i])
    BY SessionTyped
  <2>2. CASE sessions[i].owner = p
    <3>1. S[i] = Access!RevokeSession(sessions[i])
      BY <1>1, <2>2
    <3>2. QED
      BY <2>1, <3>1, RevokedAged
  <2>3. CASE sessions[i].owner # p
    <3>1. S[i] = sessions[i]
      BY <1>1, <2>3
    <3>2. QED
      BY <2>1, <2>3, <3>1, AgedSame
  <2>4. QED
    BY <2>2, <2>3
<1>3. \A i \in DOMAIN sessions : S[i] \in SessionRows
  BY <1>2 DEF Aged
<1>4. S \in [DOMAIN sessions -> SessionRows]
  BY <1>1, <1>3
<1> HIDE DEF S
<1>5. sessions \in Seq(SessionRows)
  BY DEF SessionsTrue
<1>6. S \in Seq(SessionRows) /\ Len(S) = Len(sessions) /\ DOMAIN S = DOMAIN sessions
  BY <1>4, <1>5, OverDomain
<1>7. QED
  BY <1>2, <1>6 DEF S

LEMMA NewClaimTrue ==
  ASSUME ClaimsTrue, NEW p \in People
  PROVE  /\ Access!NewClaim(p) \in Seq(ClaimRows) /\ DOMAIN Access!NewClaim(p) = DOMAIN claims \cup {Len(claims) + 1}
         /\ Len(claims) + 1 \notin DOMAIN claims
         /\ Access!NewClaim(p)[Len(claims) + 1].to = p
         /\ \A c \in DOMAIN claims : /\ Access!NewClaim(p)[c].to = claims[c].to
                                     /\ Access!NewClaim(p)[c].state = "live" => claims[c].state = "live" /\ claims[c].to # p
<1> DEFINE C == [c \in DOMAIN claims |-> IF claims[c].to = p /\ claims[c].state = "live"
                                           THEN [claims[c] EXCEPT !.state = "revoked"] ELSE claims[c]]
<1> DEFINE r == [to |-> p, state |-> "live"]
<1>1. \A c \in DOMAIN claims : /\ C[c] \in ClaimRows /\ C[c].to = claims[c].to
                               /\ C[c].state = "live" => claims[c].state = "live" /\ claims[c].to # p
  <2> SUFFICES ASSUME NEW c \in DOMAIN claims
               PROVE  /\ C[c] \in ClaimRows /\ C[c].to = claims[c].to
                      /\ C[c].state = "live" => claims[c].state = "live" /\ claims[c].to # p
    OBVIOUS
  <2>1. claims[c] \in ClaimRows
    BY ClaimTyped
  <2>2. CASE claims[c].to = p /\ claims[c].state = "live"
    <3>1. C[c] = [claims[c] EXCEPT !.state = "revoked"]
      BY <2>2
    <3>2. QED
      BY <2>1, <3>1 DEF ClaimRows, Access!Row
  <2>3. CASE ~(claims[c].to = p /\ claims[c].state = "live")
    <3>1. C[c] = claims[c]
      BY <2>3
    <3>2. QED
      BY <2>1, <2>3, <3>1
  <2>4. QED
    BY <2>2, <2>3
<1>2. C \in [DOMAIN claims -> ClaimRows] /\ claims \in Seq(ClaimRows)
  BY <1>1 DEF ClaimsTrue
<1>3. C \in Seq(ClaimRows) /\ Len(C) = Len(claims) /\ DOMAIN C = DOMAIN claims
  <2> HIDE DEF C
  <2>1. QED
    BY <1>2, OverDomain
<1>4. r \in ClaimRows /\ r.to = p
  BY DEF ClaimRows, Access!Row
<1>5. Access!NewClaim(p) = Append(C, r)
  BY DEF Access!NewClaim
<1> HIDE DEF C, r
<1>6. /\ Access!NewClaim(p) \in Seq(ClaimRows) /\ DOMAIN Access!NewClaim(p) = DOMAIN claims \cup {Len(claims) + 1}
      /\ Access!NewClaim(p)[Len(claims) + 1] = r /\ Len(claims) + 1 \notin DOMAIN claims
      /\ \A c \in DOMAIN claims : Access!NewClaim(p)[c] = C[c]
  BY <1>2, <1>3, <1>4, <1>5
<1>7. QED
  BY <1>1, <1>4, <1>6

LEMMA IssueRecoveryKept ==
  ASSUME AccessBounds, AccessInv, NEW p \in People, Access!IssueRecovery(p)
  PROVE  AccessKept
<1> DEFINE n == Len(claims) + 1
<1>1. /\ sessions' = Access!RevokeAllOf(p) /\ claims' = Access!NewClaim(p) /\ UNCHANGED Access!bootVars
      /\ members' = members /\ invites' = invites /\ grants' = grants /\ nodes' = nodes /\ Access!Member(p)
      /\ (Access!Mishap \/ UNCHANGED mishaps)
  BY DEF Access!IssueRecovery, Access!Issued, Access!nodeVars
<1>2. proofs' = (proofs \cup {n}) \ Access!Superseded(p) \/ proofs' = proofs \cup {n}
  BY DEF Access!IssueRecovery
<1>3. SessionsTrue /\ ClaimsTrue /\ GrantsTrue /\ PeopleTrue /\ BootsTrue /\ mishaps \in 0 .. MaxMishaps
  BY DEF AccessInv
<1>4. BootsTrue' /\ team' = team
  BY <1>1, <1>3, BootsRest
<1>5. PeopleTrue' /\ Joined
  BY <1>1, <1>3, <1>4, PeopleRest
<1>6. /\ sessions' \in Seq(SessionRows) /\ DOMAIN sessions' = DOMAIN sessions
      /\ \A i \in DOMAIN sessions : /\ Aged(sessions[i], sessions'[i])
                                    /\ sessions'[i].owner = p => sessions'[i].state # "live"
  BY <1>1, <1>3, AllEnded
<1>7. SessionsTrue' /\ \A q \in People : Access!LiveSessions(q)' \subseteq Access!LiveSessions(q)
  BY <1>3, <1>5, <1>6, SessionsAge
<1>8. /\ claims' \in Seq(ClaimRows) /\ DOMAIN claims' = DOMAIN claims \cup {n} /\ claims'[n].to = p
      /\ n \notin DOMAIN claims
      /\ \A c \in DOMAIN claims : /\ claims'[c].to = claims[c].to
                                  /\ claims'[c].state = "live" => claims[c].state = "live" /\ claims[c].to # p
  BY <1>1, <1>3, NewClaimTrue
<1> HIDE DEF n
<1>9. ClaimsTrue'
  <2>1. proofs' \subseteq DOMAIN claims'
    BY <1>2, <1>3, <1>8 DEF ClaimsTrue
  <2>2. \A c \in DOMAIN claims' : ~Access!Unknown(claims[c].to)'
    <3> SUFFICES ASSUME NEW c \in DOMAIN claims' PROVE members[claims'[c].to] # Access!NoOne
      BY <1>1 DEF Access!Unknown
    <3>1. CASE c = n
      BY <3>1, <1>1, <1>8 DEF Access!Member, Access!NoOne
    <3>2. CASE c \in DOMAIN claims
      BY <3>2, <1>3, <1>8 DEF ClaimsTrue, Access!Unknown
    <3>3. QED
      BY <1>8, <3>1, <3>2
  <2>3. \A c, d \in DOMAIN claims' :
          claims'[c].to = claims'[d].to /\ claims'[c].state = "live" /\ claims'[d].state = "live" => c = d
    <3>1. \A c, d \in DOMAIN claims :
            claims'[c].to = claims'[d].to /\ claims'[c].state = "live" /\ claims'[d].state = "live" => c = d
      BY <1>3, <1>8 DEF ClaimsTrue
    <3>2. \A c \in DOMAIN claims : claims'[c].state = "live" => claims'[c].to # claims'[n].to
      BY <1>8
    <3>3. QED
      BY <1>8, <3>1, <3>2
  <2>4. \A c \in DOMAIN claims' : claims'[c].state = "live" => c \in proofs'
    <3> SUFFICES ASSUME NEW c \in DOMAIN claims', claims'[c].state = "live" PROVE c \in proofs'
      OBVIOUS
    <3>1. n \notin Access!Superseded(p)
      BY <1>8 DEF Access!Superseded, Access!ClaimsOf
    <3>2. CASE c = n
      BY <3>1, <3>2, <1>2
    <3>3. CASE c \in DOMAIN claims
      <4>1. claims[c].state = "live" /\ claims[c].to # p /\ c \in proofs
        BY <3>3, <1>3, <1>8 DEF ClaimsTrue
      <4>2. c \notin Access!Superseded(p)
        BY <4>1 DEF Access!Superseded, Access!ClaimsOf
      <4>3. QED
        BY <1>2, <4>1, <4>2
    <3>4. QED
      BY <1>8, <3>2, <3>3
  <2>5. \A c \in DOMAIN claims' : claims'[c].state = "live" =>
          \A i \in DOMAIN sessions' : sessions'[i].owner = claims'[c].to => sessions'[i].state # "live"
    <3>1. \A i \in DOMAIN sessions' : sessions'[i].owner = claims'[n].to => sessions'[i].state # "live"
      BY <1>6, <1>8
    <3>2. \A i \in DOMAIN sessions' : sessions'[i].owner = sessions[i].owner /\ (sessions'[i].state = "live" => sessions[i].state = "live")
      BY <1>6 DEF Aged
    <3>3. \A c \in DOMAIN claims : claims'[c].state = "live" =>
            \A i \in DOMAIN sessions' : sessions'[i].owner = claims'[c].to => sessions'[i].state # "live"
      BY <1>3, <1>6, <1>8, <3>2 DEF ClaimsTrue
    <3>4. QED
      BY <1>8, <3>1, <3>3
  <2>6. QED
    BY <1>8, <2>1, <2>2, <2>3, <2>4, <2>5 DEF ClaimsTrue
<1>10. GrantsTrue' /\ \A g \in nodes' \ nodes : Access!MayIssue(grants[g].issuer)
  BY <1>1, <1>3, GrantsRest
<1>11. mishaps' \in 0 .. MaxMishaps
  BY <1>1, <1>3, MishapCounts
<1>12. QED
  BY <1>1, <1>3, <1>4, <1>5, <1>7, <1>9, <1>10, <1>11, InvitesRest DEF AccessKept, AccessInv, StaysOut, Authorized

LEMMA ClaimSettles ==
  ASSUME ClaimsTrue, NEW c \in DOMAIN claims, NEW st \in Access!Row \ {"live"}, claims' = [claims EXCEPT ![c].state = st]
  PROVE  /\ claims' \in Seq(ClaimRows) /\ DOMAIN claims' = DOMAIN claims
         /\ \A d \in DOMAIN claims : claims'[d].to = claims[d].to
         /\ \A d \in DOMAIN claims : claims'[d].state = "live" => d # c /\ claims[d].state = "live"
<1> DEFINE r == [claims[c] EXCEPT !.state = st]
<1>1. r \in ClaimRows /\ r.state # "live" /\ r.to = claims[c].to
  BY ClaimTyped DEF ClaimRows
<1>2. claims \in Seq(ClaimRows) /\ claims' = [claims EXCEPT ![c] = r]
  BY DEF ClaimsTrue
<1> HIDE DEF r
<1>3. claims' \in Seq(ClaimRows) /\ DOMAIN claims' = DOMAIN claims
  BY <1>1, <1>2
<1>4. QED
  BY <1>1, <1>2, <1>3

LEMMA ExpireClaimKept ==
  ASSUME AccessBounds, AccessInv, NEW c \in DOMAIN claims, Access!ExpireClaim(c)
  PROVE  AccessKept
<1>1. /\ claims' = [claims EXCEPT ![c].state = "expired"] /\ Access!Mishap /\ UNCHANGED Access!bootVars /\ sessions' = sessions
      /\ members' = members /\ invites' = invites /\ proofs' = proofs /\ grants' = grants /\ nodes' = nodes
  BY DEF Access!ExpireClaim, Access!nodeVars
<1>2. SessionsTrue /\ ClaimsTrue /\ GrantsTrue /\ PeopleTrue /\ BootsTrue /\ mishaps \in 0 .. MaxMishaps
  BY DEF AccessInv
<1>3. "expired" \in Access!Row \ {"live"}
  BY DEF Access!Row
<1>4. BootsTrue' /\ team' = team
  BY <1>1, <1>2, BootsRest
<1>5. PeopleTrue' /\ Joined
  BY <1>1, <1>2, <1>4, PeopleRest
<1>6. SessionsTrue' /\ \A q \in People : Access!LiveSessions(q)' \subseteq Access!LiveSessions(q)
  BY <1>1, <1>2, <1>5, SessionsRest
<1>7. /\ claims' \in Seq(ClaimRows) /\ DOMAIN claims' = DOMAIN claims
      /\ \A d \in DOMAIN claims : claims'[d].to = claims[d].to
      /\ \A d \in DOMAIN claims : claims'[d].state = "live" => d # c /\ claims[d].state = "live"
  BY <1>1, <1>2, <1>3, ClaimSettles
<1>8. ClaimsTrue'
  <2>1. \A d \in DOMAIN claims' : ~Access!Unknown(claims[d].to)'
    <3> SUFFICES ASSUME NEW d \in DOMAIN claims' PROVE members[claims'[d].to] # Access!NoOne
      BY <1>1 DEF Access!Unknown
    <3>1. QED
      BY <1>2, <1>7 DEF ClaimsTrue, Access!Unknown
  <2>2. QED
    BY <1>1, <1>2, <1>7, <2>1 DEF ClaimsTrue
<1>9. GrantsTrue' /\ \A g \in nodes' \ nodes : Access!MayIssue(grants[g].issuer)
  BY <1>1, <1>2, GrantsRest
<1>10. mishaps' \in 0 .. MaxMishaps
  BY <1>1, <1>2, MishapCounts
<1>11. QED
  BY <1>1, <1>2, <1>4, <1>5, <1>6, <1>8, <1>9, <1>10, InvitesRest DEF AccessKept, AccessInv, StaysOut, Authorized

LEMMA RedeemRecoveryKept ==
  ASSUME AccessBounds, AccessInv, NEW c \in DOMAIN claims, NEW got \in BOOLEAN, Access!RedeemRecovery(c, got)
  PROVE  AccessKept
<1>1. SessionsTrue /\ ClaimsTrue /\ GrantsTrue /\ PeopleTrue /\ BootsTrue /\ mishaps \in 0 .. MaxMishaps
  BY DEF AccessInv
<1>2. PICK p \in People : p = claims[c].to
  BY <1>1, ClaimTyped
<1> DEFINE S == Access!RevokeAllOf(p)
<1>3. /\ claims' = [claims EXCEPT ![c].state = "used"] /\ claims[c].state = "live" /\ proofs' = proofs \ {c} /\ Access!Member(p)
      /\ sessions' = Append(S, Access!CreateSession(p, got)[Len(sessions) + 1])
      /\ UNCHANGED Access!bootVars /\ members' = members /\ invites' = invites /\ grants' = grants /\ nodes' = nodes
      /\ Access!Answered(got)
  BY <1>2 DEF Access!RedeemRecovery, Access!MayRedeem, Access!nodeVars
<1>4. "used" \in Access!Row \ {"live"}
  BY DEF Access!Row
<1>5. BootsTrue' /\ team' = team
  BY <1>3, <1>1, BootsRest
<1>6. PeopleTrue' /\ Joined
  BY <1>3, <1>1, <1>5, PeopleRest
<1>7. members[p].status = "active" /\ ~Access!Unknown(p)'
  BY <1>3 DEF Access!Member, Access!Unknown, Access!NoOne
<1>8. Access!CreateSession(p, got)[Len(sessions) + 1] = [owner |-> p, gen |-> 0, state |-> "live", tokens |-> <<"live">>,
                                                  held |-> IF got THEN 0 ELSE -1]
  <2>1. sessions \in Seq(SessionRows)
    BY <1>1 DEF SessionsTrue
  <2>2. QED
    BY <2>1 DEF Access!CreateSession
<1>9. /\ S \in Seq(SessionRows) /\ DOMAIN S = DOMAIN sessions /\ Len(S) = Len(sessions)
      /\ \A i \in DOMAIN sessions : Aged(sessions[i], S[i]) /\ (S[i].owner = p => S[i].state # "live")
  BY <1>1, AllEnded
<1>10. /\ claims' \in Seq(ClaimRows) /\ DOMAIN claims' = DOMAIN claims
       /\ \A d \in DOMAIN claims : claims'[d].to = claims[d].to
       /\ \A d \in DOMAIN claims : claims'[d].state = "live" => d # c /\ claims[d].state = "live"
  BY <1>3, <1>1, <1>4, ClaimSettles
<1>11. \A d \in DOMAIN claims : claims'[d].state = "live" => claims[d].to # p /\ d \in proofs'
  BY <1>3, <1>1, <1>2, <1>10 DEF ClaimsTrue
<1> HIDE DEF S
<1>12. /\ SessionsTrue' /\ \A q \in People \ {p} : Access!LiveSessions(q)' \subseteq Access!LiveSessions(q)
       /\ DOMAIN sessions' = DOMAIN sessions \cup {Len(S) + 1} /\ sessions'[Len(S) + 1].owner = p
       /\ \A i \in DOMAIN sessions : sessions'[i] = S[i]
  <2>1. sessions' = Append(S, [owner |-> p, gen |-> 0, state |-> "live", tokens |-> <<"live">>,
                               held |-> IF got THEN 0 ELSE -1])
    BY <1>3, <1>8
  <2>2. QED
    BY <1>1, <1>6, <1>7, <1>9, <2>1, SessionsGrow
<1>13. ClaimsTrue'
  <2>1. \A d \in DOMAIN claims' : ~Access!Unknown(claims[d].to)'
    <3> SUFFICES ASSUME NEW d \in DOMAIN claims' PROVE members[claims'[d].to] # Access!NoOne
      BY <1>3 DEF Access!Unknown
    <3>1. QED
      BY <1>1, <1>10 DEF ClaimsTrue, Access!Unknown
  <2>2. \A d \in DOMAIN claims' : claims'[d].state = "live" =>
          \A i \in DOMAIN sessions' : sessions'[i].owner = claims'[d].to => sessions'[i].state # "live"
    <3> SUFFICES ASSUME NEW d \in DOMAIN claims, claims'[d].state = "live", NEW i \in DOMAIN sessions',
                        sessions'[i].owner = claims[d].to
                 PROVE  sessions'[i].state # "live"
      BY <1>10
    <3>1. i \in DOMAIN sessions
      BY <1>11, <1>12
    <3>2. sessions'[i].owner = sessions[i].owner /\ (sessions'[i].state = "live" => sessions[i].state = "live")
      BY <1>9, <1>12, <3>1 DEF Aged
    <3>3. claims[d].state = "live" /\ sessions[i].owner = claims[d].to
      BY <1>10, <3>2
    <3>4. sessions[i].state # "live"
      BY <1>1, <3>1, <3>3 DEF ClaimsTrue
    <3>5. QED
      BY <3>2, <3>4
  <2>3. proofs' \subseteq DOMAIN claims'
    BY <1>3, <1>1, <1>10 DEF ClaimsTrue
  <2>4. \A d, e \in DOMAIN claims' :
          claims'[d].to = claims'[e].to /\ claims'[d].state = "live" /\ claims'[e].state = "live" => d = e
    BY <1>1, <1>10 DEF ClaimsTrue
  <2>5. QED
    BY <1>10, <1>11, <2>1, <2>2, <2>3, <2>4 DEF ClaimsTrue
<1>14. GrantsTrue' /\ \A g \in nodes' \ nodes : Access!MayIssue(grants[g].issuer)
  BY <1>3, <1>1, GrantsRest
<1>15. mishaps' \in 0 .. MaxMishaps
  BY <1>3, <1>1, AnswerCounts, MishapCounts
<1>16. StaysOut
  BY <1>3, <1>7, <1>12 DEF StaysOut
<1>17. QED
  BY <1>3, <1>1, <1>5, <1>6, <1>12, <1>13, <1>14, <1>15, <1>16, InvitesRest DEF AccessKept, AccessInv, Authorized

-----------------------------------------------------------------------------
LEMMA GrantTyped ==
  ASSUME GrantsTrue, NEW g \in DOMAIN grants
  PROVE  grants[g] \in GrantRows /\ grants[g].server \in Servers
<1>1. grants[g] \in GrantRows
  BY DEF GrantsTrue
<1>2. QED
  BY <1>1 DEF GrantRows

(* One grant is changed and keeps its server; it is not brought to life.    *)
LEMMA GrantChanges ==
  ASSUME GrantsTrue, NEW g \in DOMAIN grants, NEW r \in GrantRows, grants[g].state = "live",
         r.server = grants[g].server, grants' = [grants EXCEPT ![g] = r],
         nodes' = nodes \/ (nodes' = nodes \cup {g} /\ r.state = "used")
  PROVE  GrantsTrue'
<1>1. grants \in Seq(GrantRows) /\ g \notin nodes
  BY DEF GrantsTrue
<1>2. grants' \in Seq(GrantRows) /\ DOMAIN grants' = DOMAIN grants
  BY <1>1
<1>3. \A h \in DOMAIN grants : grants'[h].server = grants[h].server
  BY <1>1
<1>4. \A h \in DOMAIN grants : Counting(h)' => Counting(h)
  BY <1>1 DEF Counting
<1>5. \A h \in nodes' : grants'[h].state = "used"
  BY <1>1 DEF GrantsTrue
<1>6. nodes' \subseteq DOMAIN grants'
  BY <1>2 DEF GrantsTrue
<1>7. \A h, k \in DOMAIN grants' : grants'[h].server = grants'[k].server /\ Counting(h)' /\ Counting(k)' => h = k
  BY <1>2, <1>3, <1>4 DEF GrantsTrue
<1>8. QED
  BY <1>2, <1>5, <1>6, <1>7 DEF GrantsTrue

LEMMA IssueGrantKept ==
  ASSUME AccessBounds, AccessInv, NEW i \in People, NEW srv \in Servers, Access!IssueNodeGrant(i, srv)
  PROVE  AccessKept
<1> DEFINE r == [issuer |-> i, server |-> srv, state |-> "live", challenge |-> "none"]
<1> DEFINE n == Len(grants) + 1
<1>1. /\ Access!Enrollable(srv) /\ grants' = Append(grants, r) /\ nodes' = nodes /\ UNCHANGED mishaps
      /\ UNCHANGED <<Access!bootVars, members, sessions, invites, claims, proofs>>
  BY DEF Access!IssueNodeGrant, Access!recoveryVars
<1>2. GrantsTrue /\ grants \in Seq(GrantRows) /\ r \in GrantRows /\ r.server = srv
  BY DEF AccessInv, GrantsTrue, GrantRows, Access!Row
<1> HIDE DEF r
<1>3. /\ grants' \in Seq(GrantRows) /\ DOMAIN grants' = DOMAIN grants \cup {n} /\ n \notin DOMAIN grants
      /\ grants'[n] = r /\ \A h \in DOMAIN grants : grants'[h] = grants[h]
  BY <1>1, <1>2
<1> HIDE DEF n
<1>4. \A h \in DOMAIN grants : grants[h].server = srv => ~Counting(h)
  BY <1>1 DEF Access!Enrollable, Access!LiveGrants, Access!Enrolled, Counting
<1>5. \A h \in DOMAIN grants : Counting(h)' <=> Counting(h)
  BY <1>1, <1>3 DEF Counting
<1>6. \A h, k \in DOMAIN grants' : grants'[h].server = grants'[k].server /\ Counting(h)' /\ Counting(k)' => h = k
  <2>1. \A h, k \in DOMAIN grants : grants'[h].server = grants'[k].server /\ Counting(h)' /\ Counting(k)' => h = k
    BY <1>2, <1>3, <1>5 DEF GrantsTrue
  <2>2. \A h \in DOMAIN grants : Counting(h)' => grants'[h].server # grants'[n].server
    BY <1>2, <1>3, <1>4, <1>5
  <2>3. QED
    BY <1>3, <2>1, <2>2
<1>7. nodes' \subseteq DOMAIN grants' /\ \A h \in nodes' : grants'[h].state = "used"
  BY <1>1, <1>2, <1>3 DEF GrantsTrue
<1>8. GrantsTrue'
  BY <1>3, <1>6, <1>7 DEF GrantsTrue
<1>9. QED
  BY <1>1, <1>8, GrantStep

LEMMA ChallengeKept ==
  ASSUME AccessBounds, AccessInv, NEW g \in DOMAIN grants, Access!NodeChallenge(g)
  PROVE  AccessKept
<1> DEFINE r == [grants[g] EXCEPT !.challenge = "live"]
<1>1. /\ grants[g].state = "live" /\ grants' = [grants EXCEPT ![g] = r] /\ nodes' = nodes /\ UNCHANGED mishaps
      /\ UNCHANGED <<Access!bootVars, members, sessions, invites, claims, proofs>>
  BY DEF Access!NodeChallenge, Access!recoveryVars
<1>2. GrantsTrue /\ grants[g] \in GrantRows
  BY GrantTyped DEF AccessInv
<1>3. r \in GrantRows /\ r.server = grants[g].server
  BY <1>2 DEF GrantRows, Access!Row
<1> HIDE DEF r
<1>4. GrantsTrue'
  BY <1>1, <1>2, <1>3, GrantChanges
<1>5. QED
  BY <1>1, <1>4, GrantStep

LEMMA RedeemNodeKept ==
  ASSUME AccessBounds, AccessInv, NEW g \in DOMAIN grants, Access!RedeemNodeChallenge(g)
  PROVE  AccessKept
<1> DEFINE r == [grants[g] EXCEPT !.state = "used", !.challenge = "used"]
<1>1. GrantsTrue /\ grants[g] \in GrantRows
  BY GrantTyped DEF AccessInv
<1>2. /\ grants[g].state = "live" /\ nodes' = nodes \cup {g} /\ UNCHANGED mishaps
      /\ Access!MayIssue(grants[g].issuer) /\ UNCHANGED <<Access!bootVars, members, sessions, invites, claims, proofs>>
  BY DEF Access!RedeemNodeChallenge, Access!StillIssuer, Access!recoveryVars
<1>3. grants' = [grants EXCEPT ![g] = r]
  BY DEF Access!RedeemNodeChallenge
<1>4. r \in GrantRows /\ r.server = grants[g].server /\ r.state = "used"
  BY <1>1 DEF GrantRows, Access!Row
<1> HIDE DEF r
<1>5. GrantsTrue'
  BY <1>1, <1>2, <1>3, <1>4, GrantChanges
<1>6. \A h \in nodes' \ nodes : Access!MayIssue(grants[h].issuer)
  BY <1>2
<1>7. QED
  BY <1>2, <1>5, <1>6, GrantStep

LEMMA ExpireGrantKept ==
  ASSUME AccessBounds, AccessInv, NEW g \in DOMAIN grants, Access!ExpireGrant(g)
  PROVE  AccessKept
<1>1. /\ grants[g].state = "live" /\ nodes' = nodes /\ Access!Mishap
      /\ UNCHANGED <<Access!bootVars, members, sessions, invites, claims, proofs>>
  BY DEF Access!ExpireGrant, Access!recoveryVars
<1>2. GrantsTrue /\ grants[g] \in GrantRows
  BY GrantTyped DEF AccessInv
<1>3. \E r \in GrantRows : r.server = grants[g].server /\ grants' = [grants EXCEPT ![g] = r]
  <2>1. CASE grants' = [grants EXCEPT ![g].challenge = "expired"]
    <3>1. [grants[g] EXCEPT !.challenge = "expired"] \in GrantRows
      BY <1>2 DEF GrantRows, Access!Row
    <3>2. [grants[g] EXCEPT !.challenge = "expired"].server = grants[g].server
      BY <1>2 DEF GrantRows
    <3>3. QED
      BY <2>1, <3>1, <3>2
  <2>2. CASE grants' = [grants EXCEPT ![g].state = "expired", ![g].challenge = IF @ = "live" THEN "expired" ELSE @]
    <3> DEFINE r == [grants[g] EXCEPT !.state = "expired", !.challenge = IF @ = "live" THEN "expired" ELSE @]
    <3>1. r \in GrantRows
      BY <1>2 DEF GrantRows, Access!Row
    <3>2. r.server = grants[g].server
      BY <1>2 DEF GrantRows
    <3>3. grants' = [grants EXCEPT ![g] = r]
      BY <2>2
    <3>4. QED
      BY <3>1, <3>2, <3>3
  <2>3. QED
    BY <2>1, <2>2 DEF Access!ExpireGrant
<1>4. GrantsTrue'
  BY <1>1, <1>2, <1>3, GrantChanges
<1>5. QED
  BY <1>1, <1>4, GrantStep

-----------------------------------------------------------------------------
LEMMA AccessCard == ASSUME NEW S PROVE Access!Cardinality(S) = Cardinality(S)
  BY DEF Access!Cardinality, Cardinality

LEMMA AtMostOne ==
  ASSUME NEW X, \A x, y \in X : x = y
  PROVE  IsFiniteSet(X) /\ Cardinality(X) \in {0, 1} /\ (Cardinality(X) = 0 <=> X = {})
<1>1. CASE X = {}
  BY <1>1, FS_EmptySet
<1>2. CASE X # {}
  <2>1. PICK x \in X : X = {x}
    BY <1>2
  <2>2. IsFiniteSet({x}) /\ Cardinality({x}) = 1
    BY FS_Singleton
  <2>3. QED
    BY <1>2, <2>1, <2>2
<1>3. QED
  BY <1>1, <1>2

LEMMA AccessHolds ==
  ASSUME AccessBounds, AccessInv
  PROVE  Access!TypeOK /\ Access!RotationExact /\ Access!OneLiveSession /\ Access!RecoveryExclusive /\ Access!EnrolmentExclusive /\ Access!BootstrapOpen
<1>0. SessionsTrue /\ ClaimsTrue /\ GrantsTrue /\ PeopleTrue /\ BootsTrue /\ mishaps \in 0 .. MaxMishaps
  BY DEF AccessInv
<1>1. Access!TypeOK
  BY <1>0 DEF Access!TypeOK, SessionsTrue, ClaimsTrue, GrantsTrue, PeopleTrue, BootsTrue, SessionRows, ClaimRows, GrantRows,
             InviteRows, MemberRows
<1>2. Access!RotationExact
  <2> SUFFICES ASSUME NEW i \in DOMAIN sessions
               PROVE  {g \in DOMAIN sessions[i].tokens : sessions[i].tokens[g] = "live"}
                        = IF sessions[i].state = "revoked" THEN {} ELSE {sessions[i].gen + 1}
    BY DEF Access!RotationExact
  <2> DEFINE s == sessions[i]
  <2>1. s \in SessionRows /\ TokensTrue(s)
    BY <1>0, SessionTyped
  <2> HIDE DEF s
  <2>2. s.gen \in Nat /\ DOMAIN s.tokens = 1 .. s.gen + 1
    BY <2>1 DEF SessionRows, TokensTrue
  <2>3. {g \in DOMAIN s.tokens : s.tokens[g] = "live"} = IF s.state = "revoked" THEN {} ELSE {s.gen + 1}
    BY <2>1, <2>2 DEF TokensTrue
  <2>4. QED
    BY <2>3 DEF s
<1>3. Access!OneLiveSession
  <2> SUFFICES ASSUME NEW p \in People PROVE Cardinality(Access!LiveSessions(p)) <= 1
    BY AccessCard DEF Access!OneLiveSession
  <2>1. \A i, j \in Access!LiveSessions(p) : i = j
    BY <1>0 DEF Access!LiveSessions, SessionsTrue
  <2>2. Cardinality(Access!LiveSessions(p)) \in {0, 1}
    BY <2>1, AtMostOne
  <2>3. QED
    BY <2>2
<1>4. Access!RecoveryExclusive
  BY <1>0 DEF Access!RecoveryExclusive, ClaimsTrue, Access!LiveSessions
<1>5. Access!EnrolmentExclusive
  <2> SUFFICES ASSUME NEW srv \in Servers
               PROVE  Cardinality(Access!LiveGrants(srv)) + Cardinality({g \in nodes : grants[g].server = srv}) <= 1
    BY AccessCard DEF Access!EnrolmentExclusive
  <2> DEFINE L == Access!LiveGrants(srv)
  <2> DEFINE N == {g \in nodes : grants[g].server = srv}
  <2>1. \A g, h \in L \cup N : g = h
    BY <1>0 DEF Access!LiveGrants, GrantsTrue, Counting
  <2>2. L \cap N = {}
    BY <1>0 DEF Access!LiveGrants, GrantsTrue
  <2>3. (\A g, h \in L : g = h) /\ (\A g, h \in N : g = h) /\ (L = {} \/ N = {})
    BY <2>1, <2>2
  <2> HIDE DEF L, N
  <2>4. /\ Cardinality(L) \in {0, 1} /\ (Cardinality(L) = 0 <=> L = {})
        /\ Cardinality(N) \in {0, 1} /\ (Cardinality(N) = 0 <=> N = {})
    BY <2>3, AtMostOne
  <2>5. Cardinality(L) + Cardinality(N) <= 1
    BY <2>3, <2>4
  <2>6. QED
    BY <2>5 DEF L, N
<1>6. Access!BootstrapOpen
  <2>1. Cardinality(boots) \in {0, 1} /\ (Cardinality(boots) = 0 <=> boots = {})
    BY <1>0, AtMostOne DEF BootsTrue
  <2>2. QED
    BY <1>0, <2>1, AccessCard DEF Access!BootstrapOpen, BootsTrue, Access!GloballyEmpty
<1>7. QED
  BY <1>1, <1>2, <1>3, <1>4, <1>5, <1>6

LEMMA AccessStarts ==
  ASSUME AccessBounds, Access!Init
  PROVE  AccessInv
<1>1. SessionsTrue /\ ClaimsTrue /\ GrantsTrue
  BY DEF Access!Init, SessionsTrue, ClaimsTrue, GrantsTrue
<1>2. BootsTrue
  <2>1. up = FALSE /\ team = "none" /\ boots = {} /\ bootIds = 0 /\ bootFile = 0
    BY DEF Access!Init
  <2>2. 0 \in 0 .. Access!Orphan /\ 0 \in 0 .. MaxBoots
    BY DEF Access!Orphan, AccessBounds
  <2>3. QED
    BY <2>1, <2>2 DEF BootsTrue
<1>3. PeopleTrue
  BY DEF Access!Init, PeopleTrue, Access!Unknown, Access!NoOne, MemberRows
<1>4. QED
  BY <1>1, <1>2, <1>3 DEF AccessInv, Access!Init, AccessBounds

LEMMA BootstrapsKept ==
  ASSUME AccessBounds, AccessInv, Access!Bootstraps
  PROVE  AccessKept
<1>1. CASE Access!Start \/ Access!RenewBootstrapProof \/ Access!Crash \/ Access!BootstrapManagedNetwork
  BY <1>1, StartKept, RenewKept, CrashKept, ManagedKept
<1>2. CASE \E p \in People : Access!IssueTailnetBootstrap(p)
  BY <1>2, TailnetKept
<1>3. ASSUME NEW b \in boots, Access!ExpireBoot(b) \/ \E p \in People, got \in BOOLEAN : Access!BootstrapOwner(b, p, got)
      PROVE  AccessKept
  BY <1>3, ExpireBootKept, OwnerKept
<1>4. QED
  BY <1>1, <1>2, <1>3 DEF Access!Bootstraps

LEMMA InvitationsKept ==
  ASSUME AccessBounds, AccessInv, Access!Invites
  PROVE  AccessKept
<1>1. CASE \E i \in People \cup {Host}, p \in People, role \in {"admin", "member"} : Access!IssueInvite(i, p, role)
  BY <1>1, IssueInviteKept
<1>2. ASSUME NEW n \in DOMAIN invites,
             \/ Access!AcceptInvite(n) \/ Access!ExpireInvite(n)
             \/ \E got \in BOOLEAN : Access!RedeemInvite(n, got)
             \/ \E ow \in People : Access!RevokeInvite(ow, n)
      PROVE  AccessKept
  BY <1>2, AcceptInviteKept, ExpireInviteKept, RedeemInviteKept, RevokeInviteKept
<1>3. QED
  BY <1>1, <1>2 DEF Access!Invites

LEMMA DevicesKept ==
  ASSUME AccessBounds, AccessInv, Access!Devices
  PROVE  AccessKept
<1>1. CASE Access!Refreshes
  BY <1>1, RefreshesKept
<1>2. ASSUME NEW i \in DOMAIN sessions, Access!ExpireSession(i) \/ \E p \in People : Access!EndSession(p, i)
      PROVE  AccessKept
  BY <1>2, ExpireSessionKept, EndSessionKept
<1>3. ASSUME NEW ow \in People, NEW p \in People, Access!UpdateMembership(ow, p)
      PROVE  AccessKept
  BY <1>3, MembershipKept
<1>4. ASSUME NEW p \in People, Access!IssueRecovery(p)
      PROVE  AccessKept
  BY <1>4, IssueRecoveryKept
<1>5. ASSUME NEW c \in DOMAIN claims, Access!ExpireClaim(c) \/ \E got \in BOOLEAN : Access!RedeemRecovery(c, got)
      PROVE  AccessKept
  BY <1>5, ExpireClaimKept, RedeemRecoveryKept
<1>6. QED
  BY <1>1, <1>2, <1>3, <1>4, <1>5 DEF Access!Devices

LEMMA EnrolmentsKept ==
  ASSUME AccessBounds, AccessInv, Access!Enrolments
  PROVE  AccessKept
<1>1. ASSUME NEW i \in People, NEW srv \in Servers, Access!IssueNodeGrant(i, srv)
      PROVE  AccessKept
  BY <1>1, IssueGrantKept
<1>2. ASSUME NEW g \in DOMAIN grants, Access!NodeChallenge(g) \/ Access!RedeemNodeChallenge(g) \/ Access!ExpireGrant(g)
      PROVE  AccessKept
  BY <1>2, ChallengeKept, RedeemNodeKept, ExpireGrantKept
<1>3. QED
  BY <1>1, <1>2 DEF Access!Enrolments

LEMMA AccessStutters ==
  ASSUME AccessBounds, AccessInv, UNCHANGED Access!vars
  PROVE  AccessKept
<1>1. UNCHANGED <<members, sessions, invites, claims, proofs, grants, nodes>> /\ UNCHANGED Access!bootVars /\ UNCHANGED mishaps
  BY DEF Access!vars, Access!bootVars
<1>2. BootsTrue' /\ team' = team
  BY <1>1, BootsRest DEF AccessInv
<1>3. QED
  BY <1>1, <1>2, BootStep

(* Every secret works once and for one holder, and authority is looked up   *)
(* when it is used (refresh, redeem_invite, issue_device_recovery,          *)
(* redeem_node_challenge, _ensure_bootstrap_claim), for any number of       *)
(* people, servers, rows, crashes and lost answers.                         *)
THEOREM AccessStaysSound == ASSUME AccessBounds PROVE Access!Spec => AccessSound
<1>1. Access!Init => AccessInv
  BY AccessStarts
<1>2. AccessInv /\ [Access!Next]_(Access!vars) => AccessKept
  BY BootstrapsKept, InvitationsKept, DevicesKept, EnrolmentsKept, AccessStutters DEF Access!Next
<1>3. AccessInv /\ [Access!Next]_(Access!vars) => AccessInv'
  BY <1>2 DEF AccessKept
<1>4. AccessInv => Access!TypeOK /\ Access!RotationExact /\ Access!OneLiveSession /\ Access!RecoveryExclusive /\ Access!EnrolmentExclusive /\ Access!BootstrapOpen
  BY AccessHolds
<1>5. AccessInv /\ [Access!Next]_(Access!vars) =>
        [\A p \in People : members[p].status = "revoked" =>
           /\ members'[p] = members[p]
           /\ Access!LiveSessions(p)' \subseteq Access!LiveSessions(p)]_(Access!vars)
  BY <1>2 DEF AccessKept, StaysOut
<1>6. AccessInv /\ [Access!Next]_(Access!vars) =>
        [/\ \A n \in DOMAIN invites : invites[n].state = "live" /\ invites'[n].state = "used"
                                        => Access!MayIssue(invites[n].issuer)
         /\ \A g \in nodes' \ nodes : Access!MayIssue(grants[g].issuer)]_(Access!vars)
  BY <1>2 DEF AccessKept, Authorized
<1>7. Access!Spec => [](Access!TypeOK /\ Access!RotationExact /\ Access!OneLiveSession /\ Access!RecoveryExclusive /\ Access!EnrolmentExclusive /\ Access!BootstrapOpen)
  BY <1>1, <1>3, <1>4, PTL DEF Access!Spec
<1>8. Access!Spec => Access!RevokedStaysOut
  BY <1>1, <1>3, <1>5, PTL DEF Access!Spec, Access!RevokedStaysOut
<1>9. Access!Spec => Access!AuthorityAtUse
  BY <1>1, <1>3, <1>6, PTL DEF Access!Spec, Access!AuthorityAtUse
<1>10. QED
  BY <1>7, <1>8, <1>9 DEF AccessSound, Access!AccessSound

================================================================================
