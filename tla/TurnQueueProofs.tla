-------------------------- MODULE TurnQueueProofs --------------------------
(***************************************************************************)
(* The safety invariants of TurnQueue for every set of messages and every  *)
(* bound on crashes, Stops, moves and Force Sends.                         *)
(***************************************************************************)
EXTENDS TurnQueue, SequenceTheorems, WellFoundedInduction, TLAPS

(* What the list operations of Queues do to the rows of a queue. *)

(* The rows of a queue are elements of its base set. *)
LEMMA ToSetFacts ==
    ASSUME NEW S, NEW s \in Seq(S)
    PROVE  /\ ToSet(s) \subseteq S
           /\ \A x : x \in ToSet(s) <=> \E i \in 1..Len(s) : s[i] = x
BY DEF ToSet

(* IndexOf finds a listed row. *)
LEMMA IndexOfFacts ==
    ASSUME NEW S, NEW s \in Seq(S), NEW r \in ToSet(s)
    PROVE  IndexOf(s, r) \in 1..Len(s) /\ s[IndexOf(s, r)] = r
BY DEF ToSet, IndexOf

(* RemoveAt closes the gap. *)
LEMMA RemoveAtElements ==
    ASSUME NEW S, NEW s \in Seq(S), NEW i \in 1..Len(s)
    PROVE  /\ RemoveAt(s, i) \in Seq(S)
           /\ Len(RemoveAt(s, i)) = Len(s) - 1
           /\ \A j \in 1..(Len(s) - 1) :
                RemoveAt(s, i)[j] = IF j < i THEN s[j] ELSE s[j + 1]
<1> DEFINE n == Len(s)
           a == SubSeq(s, 1, i - 1)
           b == SubSeq(s, i + 1, n)
<1>0. n \in Nat /\ i \in 1..n /\ \A j \in 1..n : s[j] \in S
  OBVIOUS
<1> HIDE DEF n
<1>1. a \in Seq(S) /\ Len(a) = i - 1 /\ \A j \in 1..(i - 1) : a[j] = s[j]
  <2>1. \A j \in 1..(i - 1) : s[j] \in S
    BY <1>0
  <2>2. /\ a \in Seq(S)
        /\ Len(a) = IF 1 <= i - 1 THEN (i - 1) - 1 + 1 ELSE 0
        /\ \A j \in 1..((i - 1) - 1 + 1) : a[j] = s[1 + j - 1]
    BY <1>0, <2>1, SubSeqProperties
  <2>3. QED
    BY <1>0, <2>2
<1>2. /\ b \in Seq(S) /\ Len(b) = n - i
      /\ \A j \in 1..(n - i) : b[j] = s[i + j]
  <2>1. \A j \in (i + 1)..n : s[j] \in S
    BY <1>0
  <2>2. /\ b \in Seq(S)
        /\ Len(b) = IF i + 1 <= n THEN n - (i + 1) + 1 ELSE 0
        /\ \A j \in 1..(n - (i + 1) + 1) : b[j] = s[(i + 1) + j - 1]
    BY <1>0, <2>1, SubSeqProperties
  <2>3. QED
    BY <1>0, <2>2
<1>3. RemoveAt(s, i) = a \o b
  BY DEF RemoveAt, n
<1> HIDE DEF a, b
<1>4. /\ a \o b \in Seq(S) /\ Len(a \o b) = Len(a) + Len(b)
      /\ \A j \in 1..(Len(a) + Len(b)) :
           (a \o b)[j] = IF j <= Len(a) THEN a[j] ELSE b[j - Len(a)]
  BY <1>1, <1>2, ConcatProperties
<1>5. ASSUME NEW j \in 1..(n - 1)
      PROVE  (a \o b)[j] = IF j < i THEN s[j] ELSE s[j + 1]
  <2>1. CASE j < i
    BY <1>0, <1>1, <1>2, <1>4, <2>1
  <2>2. CASE ~(j < i)
    <3>1. (a \o b)[j] = b[j - (i - 1)] /\ j - (i - 1) \in 1..(n - i)
      BY <1>0, <1>1, <1>2, <1>4, <2>2
    <3>2. QED
      BY <1>0, <1>2, <2>2, <3>1
  <2>3. QED
    BY <2>1, <2>2
<1>6. QED
  BY <1>0, <1>1, <1>2, <1>3, <1>4, <1>5 DEF n

(* InsertAt opens a gap. *)
LEMMA InsertAtElements ==
    ASSUME NEW S, NEW s \in Seq(S), NEW i \in 1..(Len(s) + 1), NEW r \in S
    PROVE  /\ InsertAt(s, i, r) \in Seq(S)
           /\ Len(InsertAt(s, i, r)) = Len(s) + 1
           /\ \A j \in 1..(Len(s) + 1) : InsertAt(s, i, r)[j] =
                IF j < i THEN s[j] ELSE IF j = i THEN r ELSE s[j - 1]
<1> DEFINE n == Len(s)
           a == SubSeq(s, 1, i - 1)
           b == SubSeq(s, i, n)
           c == a \o <<r>>
<1>0. n \in Nat /\ i \in 1..(n + 1) /\ \A j \in 1..n : s[j] \in S
  OBVIOUS
<1> HIDE DEF n
<1>1. a \in Seq(S) /\ Len(a) = i - 1 /\ \A j \in 1..(i - 1) : a[j] = s[j]
  <2>1. \A j \in 1..(i - 1) : s[j] \in S
    BY <1>0
  <2>2. /\ a \in Seq(S)
        /\ Len(a) = IF 1 <= i - 1 THEN (i - 1) - 1 + 1 ELSE 0
        /\ \A j \in 1..((i - 1) - 1 + 1) : a[j] = s[1 + j - 1]
    BY <1>0, <2>1, SubSeqProperties
  <2>3. QED
    BY <1>0, <2>2
<1>2. /\ b \in Seq(S) /\ Len(b) = n - i + 1
      /\ \A j \in 1..(n - i + 1) : b[j] = s[i + j - 1]
  <2>1. \A j \in i..n : s[j] \in S
    BY <1>0
  <2>2. /\ b \in Seq(S)
        /\ Len(b) = IF i <= n THEN n - i + 1 ELSE 0
        /\ \A j \in 1..(n - i + 1) : b[j] = s[i + j - 1]
    BY <1>0, <2>1, SubSeqProperties
  <2>3. QED
    BY <1>0, <2>2
<1>3. InsertAt(s, i, r) = c \o b
  BY DEF InsertAt, n
<1> HIDE DEF a, b
<1>4. /\ c \in Seq(S) /\ Len(c) = i /\ c[i] = r
      /\ \A j \in 1..(i - 1) : c[j] = s[j]
  <2>1. <<r>> \in Seq(S) /\ Len(<<r>>) = 1 /\ <<r>>[1] = r
    OBVIOUS
  <2>2. /\ c \in Seq(S) /\ Len(c) = Len(a) + Len(<<r>>)
        /\ \A j \in 1..(Len(a) + Len(<<r>>)) :
             c[j] = IF j <= Len(a) THEN a[j] ELSE <<r>>[j - Len(a)]
    BY <1>1, <2>1, ConcatProperties
  <2> HIDE DEF c
  <2>3. i - 1 \in Nat /\ Len(a) + Len(<<r>>) = i
    BY <1>0, <1>1, <2>1
  <2>4. c \in Seq(S) /\ Len(c) = i
    BY <2>2, <2>3
  <2>5. c[i] = r
    <3>1. i \in 1..(Len(a) + Len(<<r>>)) /\ ~(i <= Len(a)) /\ i - Len(a) = 1
      BY <1>0, <1>1, <2>3
    <3>2. c[i] = <<r>>[i - Len(a)]
      BY <2>2, <3>1
    <3>3. QED
      BY <2>1, <3>1, <3>2
  <2>6. ASSUME NEW j \in 1..(i - 1) PROVE c[j] = s[j]
    <3>1. j \in 1..(Len(a) + Len(<<r>>)) /\ j <= Len(a)
      BY <1>0, <1>1, <2>3
    <3>2. c[j] = a[j]
      BY <2>2, <3>1
    <3>3. QED
      BY <1>1, <3>2
  <2>7. QED
    BY <2>4, <2>5, <2>6
<1> HIDE DEF c
<1>5. /\ c \o b \in Seq(S) /\ Len(c \o b) = Len(c) + Len(b)
      /\ \A j \in 1..(Len(c) + Len(b)) :
           (c \o b)[j] = IF j <= Len(c) THEN c[j] ELSE b[j - Len(c)]
  BY <1>2, <1>4, ConcatProperties
<1>6. ASSUME NEW j \in 1..(n + 1)
      PROVE  (c \o b)[j] = IF j < i THEN s[j] ELSE IF j = i THEN r ELSE s[j - 1]
  <2>1. CASE j < i
    BY <1>0, <1>2, <1>4, <1>5, <2>1
  <2>2. CASE j = i
    BY <1>0, <1>2, <1>4, <1>5, <2>2
  <2>3. CASE ~(j < i) /\ j # i
    <3>1. /\ j - i \in 1..(n - i + 1) /\ ~(j <= i)
          /\ i + (j - i) - 1 = j - 1
      BY <1>0, <2>3
    <3>2. Len(c) + Len(b) = n + 1
      BY <1>0, <1>2, <1>4
    <3>3. (c \o b)[j] = b[j - i]
      BY <1>4, <1>5, <3>1, <3>2
    <3>4. b[j - i] = s[j - 1]
      BY <1>2, <3>1
    <3>5. QED
      BY <2>3, <3>3, <3>4
  <2>4. QED
    BY <2>1, <2>2, <2>3
<1>7. QED
  BY <1>0, <1>2, <1>3, <1>4, <1>5, <1>6 DEF n

(* Removing a position removes its row and no other. *)
LEMMA RemoveAtFacts ==
    ASSUME NEW S, NEW s \in Seq(S), NEW i \in 1..Len(s), Distinct(s)
    PROVE  /\ RemoveAt(s, i) \in Seq(S)
           /\ ToSet(RemoveAt(s, i)) = ToSet(s) \ {s[i]}
           /\ Distinct(RemoveAt(s, i))
<1> DEFINE t == RemoveAt(s, i)
<1>1. /\ t \in Seq(S) /\ Len(t) = Len(s) - 1
      /\ \A j \in 1..(Len(s) - 1) : t[j] = IF j < i THEN s[j] ELSE s[j + 1]
  BY RemoveAtElements
<1> HIDE DEF t
<1>2. Len(s) \in Nat /\ DOMAIN s = 1..Len(s) /\ DOMAIN t = 1..(Len(s) - 1)
  BY <1>1
<1>3. ASSUME NEW x PROVE x \in ToSet(t) <=> x \in ToSet(s) \ {s[i]}
  <2>1. ASSUME NEW k \in 1..(Len(s) - 1), t[k] = x
        PROVE  x \in ToSet(s) \ {s[i]}
    <3>1. \E m \in 1..Len(s) : m # i /\ s[m] = x
      <4>1. CASE k < i
        BY <1>1, <1>2, <2>1, <4>1
      <4>2. CASE ~(k < i)
        <5>1. k + 1 \in 1..Len(s) /\ k + 1 # i /\ s[k + 1] = x
          BY <1>1, <1>2, <2>1, <4>2
        <5>2. QED
          BY <5>1
      <4>3. QED
        BY <4>1, <4>2
    <3>2. QED
      BY <1>2, <3>1 DEF ToSet, Distinct
  <2>2. ASSUME NEW k \in 1..Len(s), s[k] = x, k # i
        PROVE  x \in ToSet(t)
    <3>1. CASE k < i
      BY <1>1, <1>2, <2>2, <3>1 DEF ToSet
    <3>2. CASE ~(k < i)
      <4>1. k - 1 \in 1..(Len(s) - 1) /\ t[k - 1] = x
        BY <1>1, <1>2, <2>2, <3>2
      <4>2. QED
        BY <1>2, <4>1 DEF ToSet
    <3>3. QED
      BY <3>1, <3>2
  <2>3. QED
    BY <1>2, <2>1, <2>2 DEF ToSet
<1>4. Distinct(t)
  <2>1. \A j \in 1..(Len(s) - 1) : \E m \in 1..Len(s) :
          t[j] = s[m] /\ m = IF j < i THEN j ELSE j + 1
    BY <1>1, <1>2
  <2>2. SUFFICES ASSUME NEW j \in 1..(Len(s) - 1), NEW k \in 1..(Len(s) - 1),
                        t[j] = t[k]
                 PROVE  j = k
    BY <1>2 DEF Distinct
  <2>3. PICK m \in 1..Len(s) : t[j] = s[m] /\ m = IF j < i THEN j ELSE j + 1
    BY <2>1
  <2>4. PICK n \in 1..Len(s) : t[k] = s[n] /\ n = IF k < i THEN k ELSE k + 1
    BY <2>1
  <2>5. m = n
    BY <1>2, <2>2, <2>3, <2>4 DEF Distinct
  <2>6. QED
    BY <1>2, <2>3, <2>4, <2>5
<1>5. QED
  BY <1>1, <1>3, <1>4 DEF t

(* Inserting a new row adds it and no other. *)
LEMMA InsertAtFacts ==
    ASSUME NEW S, NEW s \in Seq(S), NEW i \in 1..(Len(s) + 1), NEW r \in S,
           r \notin ToSet(s), Distinct(s)
    PROVE  /\ InsertAt(s, i, r) \in Seq(S)
           /\ ToSet(InsertAt(s, i, r)) = ToSet(s) \cup {r}
           /\ Distinct(InsertAt(s, i, r))
<1> DEFINE t == InsertAt(s, i, r)
<1>1. /\ t \in Seq(S) /\ Len(t) = Len(s) + 1
      /\ \A j \in 1..(Len(s) + 1) :
           t[j] = IF j < i THEN s[j] ELSE IF j = i THEN r ELSE s[j - 1]
  <2>1. /\ InsertAt(s, i, r) \in Seq(S)
        /\ Len(InsertAt(s, i, r)) = Len(s) + 1
        /\ \A j \in 1..(Len(s) + 1) : InsertAt(s, i, r)[j] =
             IF j < i THEN s[j] ELSE IF j = i THEN r ELSE s[j - 1]
    BY InsertAtElements, SMTT(30)
  <2>2. QED
    BY <2>1
<1> HIDE DEF t
<1>2. Len(s) \in Nat /\ DOMAIN s = 1..Len(s) /\ DOMAIN t = 1..(Len(s) + 1)
  BY <1>1
<1>3. ASSUME NEW x PROVE x \in ToSet(t) <=> x \in ToSet(s) \cup {r}
  <2>1. ASSUME NEW k \in 1..(Len(s) + 1), t[k] = x
        PROVE  x \in ToSet(s) \cup {r}
    <3>1. CASE k < i
      BY <1>1, <1>2, <2>1, <3>1 DEF ToSet
    <3>2. CASE k = i
      BY <1>1, <1>2, <2>1, <3>2
    <3>3. CASE ~(k < i) /\ k # i
      <4>1. k - 1 \in 1..Len(s) /\ s[k - 1] = x
        BY <1>1, <1>2, <2>1, <3>3
      <4>2. QED
        BY <1>2, <4>1 DEF ToSet
    <3>4. QED
      BY <3>1, <3>2, <3>3
  <2>2. ASSUME NEW k \in 1..Len(s), s[k] = x
        PROVE  x \in ToSet(t)
    <3>1. CASE k < i
      BY <1>1, <1>2, <2>2, <3>1 DEF ToSet
    <3>2. CASE ~(k < i)
      <4>1. k + 1 \in 1..(Len(s) + 1) /\ t[k + 1] = x
        BY <1>1, <1>2, <2>2, <3>2
      <4>2. QED
        BY <1>2, <4>1 DEF ToSet
    <3>3. QED
      BY <3>1, <3>2
  <2>3. r \in ToSet(t)
    BY <1>1, <1>2 DEF ToSet
  <2>4. QED
    BY <1>2, <2>1, <2>2, <2>3 DEF ToSet
<1>4. Distinct(t)
  <2>1. \A m \in 1..Len(s) : s[m] # r
    BY <1>2 DEF ToSet
  <2>2. \A j \in 1..(Len(s) + 1) : j # i => \E m \in 1..Len(s) :
          t[j] = s[m] /\ m = IF j < i THEN j ELSE j - 1
    BY <1>1, <1>2
  <2>3. t[i] = r
    BY <1>1, <1>2
  <2>4. QED
    BY <1>2, <2>1, <2>2, <2>3 DEF Distinct
<1>5. QED
  BY <1>1, <1>3, <1>4 DEF t

(* Without removes the row it is given, listed or not. *)
LEMMA WithoutFacts ==
    ASSUME NEW S, NEW s \in Seq(S), NEW r, Distinct(s)
    PROVE  /\ Without(s, r) \in Seq(S)
           /\ ToSet(Without(s, r)) = ToSet(s) \ {r}
           /\ Distinct(Without(s, r))
<1>1. CASE r \in ToSet(s)
  <2>1. IndexOf(s, r) \in 1..Len(s) /\ s[IndexOf(s, r)] = r
    BY <1>1, IndexOfFacts
  <2>2. QED
    BY <1>1, <2>1, RemoveAtFacts DEF Without
<1>2. CASE r \notin ToSet(s)
  BY <1>2 DEF Without
<1>3. QED
  BY <1>1, <1>2

(* requeue_turn_front: a new row at the head. *)
LEMMA ConsFacts ==
    ASSUME NEW S, NEW s \in Seq(S), NEW r \in S, r \notin ToSet(s), Distinct(s)
    PROVE  /\ <<r>> \o s \in Seq(S)
           /\ ToSet(<<r>> \o s) = ToSet(s) \cup {r}
           /\ Distinct(<<r>> \o s)
<1> DEFINE t == <<r>> \o s
<1>1. <<r>> \in Seq(S) /\ Len(<<r>>) = 1 /\ <<r>>[1] = r
  OBVIOUS
<1>2. /\ t \in Seq(S) /\ Len(t) = Len(<<r>>) + Len(s)
      /\ \A j \in 1..(Len(<<r>>) + Len(s)) :
           t[j] = IF j <= Len(<<r>>) THEN <<r>>[j] ELSE s[j - Len(<<r>>)]
  BY <1>1, ConcatProperties
<1> HIDE DEF t
<1>3. /\ Len(s) \in Nat /\ DOMAIN s = 1..Len(s) /\ DOMAIN t = 1..(Len(s) + 1)
      /\ t[1] = r /\ \A j \in 1..Len(s) : t[j + 1] = s[j]
  BY <1>1, <1>2
<1>4. \A j \in 1..(Len(s) + 1) : j # 1 => \E m \in 1..Len(s) : j = m + 1 /\ t[j] = s[m]
  <2>1. \A j \in 1..(Len(s) + 1) : j # 1 => j - 1 \in 1..Len(s) /\ j = (j - 1) + 1
    BY <1>3
  <2>2. QED
    BY <1>3, <2>1
<1>5. ASSUME NEW x PROVE x \in ToSet(t) <=> x \in ToSet(s) \cup {r}
  <2>1. ASSUME NEW k \in 1..(Len(s) + 1), t[k] = x PROVE x \in ToSet(s) \cup {r}
    BY <1>3, <1>4, <2>1 DEF ToSet
  <2>2. ASSUME NEW k \in 1..Len(s), s[k] = x PROVE x \in ToSet(t)
    <3>1. k + 1 \in 1..(Len(s) + 1) /\ t[k + 1] = x
      BY <1>3, <2>2
    <3>2. QED
      BY <1>3, <3>1 DEF ToSet
  <2>3. r \in ToSet(t)
    BY <1>3 DEF ToSet
  <2>4. QED
    BY <1>3, <2>1, <2>2, <2>3 DEF ToSet
<1>6. Distinct(t)
  <2>1. \A m \in 1..Len(s) : s[m] # r
    BY <1>3 DEF ToSet
  <2>2. SUFFICES ASSUME NEW j \in 1..(Len(s) + 1), NEW k \in 1..(Len(s) + 1),
                        t[j] = t[k]
                 PROVE  j = k
    BY <1>3 DEF Distinct
  <2>3. CASE j = 1 \/ k = 1
    BY <1>3, <1>4, <2>1, <2>2, <2>3
  <2>4. CASE j # 1 /\ k # 1
    <3>1. PICK m \in 1..Len(s) : j = m + 1 /\ t[j] = s[m]
      BY <1>4, <2>4
    <3>2. PICK n \in 1..Len(s) : k = n + 1 /\ t[k] = s[n]
      BY <1>4, <2>4
    <3>3. m = n
      BY <1>3, <2>2, <3>1, <3>2 DEF Distinct
    <3>4. QED
      BY <3>1, <3>2, <3>3
  <2>5. QED
    BY <2>3, <2>4
<1>7. QED
  BY <1>2, <1>5, <1>6 DEF t

(* enqueue_turn: a new row at the tail. *)
LEMMA AppendFacts ==
    ASSUME NEW S, NEW s \in Seq(S), NEW r \in S, r \notin ToSet(s), Distinct(s)
    PROVE  /\ Append(s, r) \in Seq(S)
           /\ ToSet(Append(s, r)) = ToSet(s) \cup {r}
           /\ Distinct(Append(s, r))
<1> DEFINE t == Append(s, r)
<1>1. /\ t \in Seq(S) /\ Len(t) = Len(s) + 1 /\ t[Len(s) + 1] = r
      /\ \A j \in 1..Len(s) : t[j] = s[j]
  OBVIOUS
<1> HIDE DEF t
<1>2. Len(s) \in Nat /\ DOMAIN s = 1..Len(s) /\ DOMAIN t = 1..(Len(s) + 1)
  BY <1>1
<1>3. ToSet(t) = ToSet(s) \cup {r}
  BY <1>1, <1>2 DEF ToSet
<1>4. Distinct(t)
  <2>1. \A m \in 1..Len(s) : s[m] # r
    BY <1>2 DEF ToSet
  <2>2. QED
    BY <1>1, <1>2, <2>1 DEF Distinct
<1>5. QED
  BY <1>1, <1>3, <1>4 DEF t

(* popleft: the head leaves. *)
LEMMA TailFacts ==
    ASSUME NEW S, NEW s \in Seq(S), s # <<>>, Distinct(s)
    PROVE  /\ Head(s) \in ToSet(s) /\ Tail(s) \in Seq(S)
           /\ ToSet(Tail(s)) = ToSet(s) \ {Head(s)}
           /\ Distinct(Tail(s))
<1> DEFINE t == Tail(s)
<1>1. /\ t \in Seq(S) /\ Len(t) = Len(s) - 1
      /\ \A j \in 1..(Len(s) - 1) : t[j] = s[j + 1]
  BY HeadTailProperties
<1>2. Head(s) = s[1] /\ Len(s) \in Nat /\ Len(s) >= 1
  OBVIOUS
<1> HIDE DEF t
<1>3. DOMAIN s = 1..Len(s) /\ DOMAIN t = 1..(Len(s) - 1)
  BY <1>1, <1>2
<1>4. \A j \in 1..(Len(s) - 1) : \E m \in 1..Len(s) :
        m = j + 1 /\ m # 1 /\ t[j] = s[m]
  BY <1>1, <1>2
<1>5. \A m \in 1..Len(s) : m # 1 => \E j \in 1..(Len(s) - 1) : t[j] = s[m]
  <2>1. \A m \in 1..Len(s) : m # 1 => m - 1 \in 1..(Len(s) - 1) /\ t[m - 1] = s[m]
    BY <1>1, <1>2
  <2>2. QED
    BY <2>1
<1>6. ASSUME NEW x PROVE x \in ToSet(t) <=> x \in ToSet(s) \ {s[1]}
  <2>1. ASSUME NEW k \in 1..(Len(s) - 1), t[k] = x PROVE x \in ToSet(s) \ {s[1]}
    <3>1. PICK m \in 1..Len(s) : m # 1 /\ t[k] = s[m]
      BY <1>4
    <3>2. 1 \in 1..Len(s)
      BY <1>2
    <3>3. QED
      BY <1>3, <2>1, <3>1, <3>2, Zenon DEF ToSet, Distinct
  <2>2. ASSUME NEW m \in 1..Len(s), s[m] = x, x # s[1] PROVE x \in ToSet(t)
    <3>1. PICK j \in 1..(Len(s) - 1) : t[j] = s[m]
      BY <1>5, <2>2
    <3>2. QED
      BY <1>3, <2>2, <3>1 DEF ToSet
  <2>3. QED
    BY <1>3, <2>1, <2>2, Zenon DEF ToSet
<1>7. Distinct(t)
  BY <1>2, <1>3, <1>4 DEF Distinct
<1>8. ToSet(t) = ToSet(s) \ {Head(s)}
  BY <1>2, <1>6
<1>9. Head(s) \in ToSet(s)
  BY <1>2, <1>3 DEF ToSet
<1>10. QED
  BY <1>1, <1>7, <1>8, <1>9 DEF t

(* move_queued_turn: neighbours change places, nothing else. *)
LEMMA SwapFacts ==
    ASSUME NEW S, NEW s \in Seq(S), NEW i \in 1..(Len(s) - 1), Distinct(s)
    PROVE  /\ Swap(s, i) \in Seq(S)
           /\ ToSet(Swap(s, i)) = ToSet(s)
           /\ Distinct(Swap(s, i))
<1> DEFINE t == Swap(s, i)
<1>1. /\ t \in Seq(S) /\ Len(t) = Len(s)
      /\ \A j \in 1..Len(s) :
           t[j] = IF j = i THEN s[i + 1] ELSE IF j = i + 1 THEN s[i] ELSE s[j]
  BY DEF Swap
<1> HIDE DEF t
<1>2. Len(s) \in Nat /\ DOMAIN s = 1..Len(s) /\ DOMAIN t = 1..Len(s)
  BY <1>1
<1>3. ASSUME NEW x PROVE x \in ToSet(t) <=> x \in ToSet(s)
  <2>1. i \in 1..Len(s) /\ i + 1 \in 1..Len(s) /\ i # i + 1
    BY <1>2
  <2>2. t[i] = s[i + 1] /\ t[i + 1] = s[i]
    BY <1>1, <2>1
  <2>3. \A j \in 1..Len(s) : j # i /\ j # i + 1 => t[j] = s[j]
    BY <1>1
  <2>4. QED
    BY <1>2, <2>1, <2>2, <2>3, Zenon DEF ToSet
<1>4. Distinct(t)
  BY <1>1, <1>2 DEF Distinct
<1>5. QED
  BY <1>1, <1>3, <1>4 DEF t

(* Replaying a logged order permutes the pending rows. *)
LEMMA ReorderingsFacts ==
    ASSUME NEW S, NEW o \in Seq(S), NEW s, NEW t \in Reorderings(o, s)
    PROVE  t \in Seq(S) /\ ToSet(t) = ToSet(o) /\ Distinct(t)
<1>1. t \in [1..Len(o) -> ToSet(o)] /\ ToSet(t) = ToSet(o) /\ Distinct(t)
  BY DEF Reorderings
<1>2. ToSet(o) \subseteq S
  BY ToSetFacts
<1>3. QED
  BY <1>1, <1>2

(* A nonempty set of naturals has a least element ... *)
LEMMA LeastExists ==
    ASSUME NEW T, T \subseteq Nat, T # {}
    PROVE  \E x \in T : \A y \in T : x <= y
<1>1. PICK x \in T : \A y \in T : ~ (<<y, x>> \in OpToRel(<, Nat))
  BY NatLessThanWellFounded, WFMin
<1>2. ASSUME NEW y \in T PROVE x <= y
  <2>1. <<y, x>> \notin {ss \in Nat \X Nat : ss[1] < ss[2]}
    BY <1>1 DEF OpToRel
  <2>2. x \in Nat /\ y \in Nat
    OBVIOUS
  <2>3. ~(y < x)
    BY <2>1, <2>2
  <2>4. QED
    BY <2>2, <2>3
<1>3. QED
  BY <1>2

(* ... and a bounded one a greatest. *)
LEMMA GreatestExists ==
    ASSUME NEW n \in Nat, NEW T, T \subseteq 0..n, T # {}
    PROVE  \E x \in T : \A y \in T : y <= x
<1> DEFINE U == {n - x : x \in T}
<1>1. U \subseteq Nat
  <2>1. \A x \in T : x \in 0..n
    OBVIOUS
  <2>2. \A x \in 0..n : n - x \in Nat
    OBVIOUS
  <2>3. QED
    BY <2>1, <2>2
<1>2. U # {}
  OBVIOUS
<1>3. PICK u \in U : \A y \in U : u <= y
  BY <1>1, <1>2, LeastExists
<1>4. PICK x \in T : u = n - x
  OBVIOUS
<1>5. \A y \in T : n - x <= n - y
  BY <1>3, <1>4
<1>6. ASSUME NEW y \in T PROVE y <= x
  <2>1. x \in 0..n /\ y \in 0..n
    OBVIOUS
  <2>2. QED
    BY <1>5, <2>1
<1>7. QED
  BY <1>6

(* The remembered place of a detached row is a place of the queue. *)
LEMMA ReturnIndexFacts ==
    ASSUME NEW S, NEW s \in Seq(S), NEW f, f.idx \in Nat \ {0}
    PROVE  ReturnIndex(s, f) \in 1..(Len(s) + 1)
<1>1. CASE f.succ \in ToSet(s)
  BY <1>1, IndexOfFacts DEF ReturnIndex
<1>2. CASE f.succ \notin ToSet(s) /\ f.pred \in ToSet(s)
  <2>1. IndexOf(s, f.pred) \in 1..Len(s)
    BY <1>2, IndexOfFacts
  <2>2. QED
    BY <1>2, <2>1 DEF ReturnIndex
<1>3. CASE f.succ \notin ToSet(s) /\ f.pred \notin ToSet(s)
  BY <1>3 DEF ReturnIndex, AtMost
<1>4. QED
  BY <1>1, <1>2, <1>3

(* The place of a pending row relative to the journal is a place too. *)
LEMMA RestoreIndexFacts ==
    ASSUME NEW S, NEW s \in Seq(S), NEW o \in Seq(S), NEW r \in ToSet(o)
    PROVE  RestoreIndex(s, o, r) \in 1..(Len(s) + 1)
<1> DEFINE i      == IndexOf(o, r)
           After  == {j \in DOMAIN o : j > i /\ o[j] \in ToSet(s)}
           Before == {j \in DOMAIN o : j < i /\ o[j] \in ToSet(s)}
           a      == CHOOSE j \in After : \A k \in After : j <= k
           b      == CHOOSE j \in Before : \A k \in Before : k <= j
<1>1. i \in 1..Len(o) /\ Len(o) \in Nat /\ DOMAIN o = 1..Len(o) /\ Len(s) \in Nat
  BY IndexOfFacts
<1>2. RestoreIndex(s, o, r) = IF After # {} THEN IndexOf(s, o[a])
                              ELSE IF Before # {} THEN IndexOf(s, o[b]) + 1
                              ELSE AtMost(i, Len(s) + 1)
  BY DEF RestoreIndex
<1>3. CASE After # {}
  <2>1. After \subseteq Nat
    BY <1>1
  <2>2. \E j \in After : \A k \in After : j <= k
    BY <1>3, <2>1, LeastExists
  <2>3. a \in After
    BY <2>2
  <2>4. IndexOf(s, o[a]) \in 1..Len(s)
    BY <2>3, IndexOfFacts
  <2>5. RestoreIndex(s, o, r) = IndexOf(s, o[a])
    BY <1>2, <1>3, Zenon
  <2> HIDE DEF a
  <2>6. QED
    BY <1>1, <2>4, <2>5
<1>4. CASE After = {} /\ Before # {}
  <2>1. Before \subseteq 0..Len(o)
    BY <1>1
  <2>2. \E j \in Before : \A k \in Before : k <= j
    BY <1>1, <1>4, <2>1, GreatestExists
  <2>3. b \in Before
    BY <2>2
  <2>4. IndexOf(s, o[b]) \in 1..Len(s)
    BY <2>3, IndexOfFacts
  <2>5. RestoreIndex(s, o, r) = IndexOf(s, o[b]) + 1
    BY <1>2, <1>4, Zenon
  <2> HIDE DEF b
  <2>6. QED
    BY <1>1, <2>4, <2>5
<1>5. CASE After = {} /\ Before = {}
  BY <1>1, <1>2, <1>5 DEF AtMost
<1>6. QED
  BY <1>3, <1>4, <1>5

-----------------------------------------------------------------------------

(* The strengthening that makes the invariants above inductive. *)

Native == force.pc \notin {"idle", "selected", "stopping"}

(* Who owns a row, and what the lifecycle lock excludes. *)
Owned ==
    /\ promo.pc = "idle" <=> promo.row = NoRow
    /\ force.pc = "idle" <=> force.row = NoRow
    /\ force.pc \in {"selected", "stopping"} =>
         runNow = force.row /\ promo.pc = "idle" /\ stop = "none"
    /\ Native => runNow = NoRow /\ force.row \in Users
    /\ ~up => queue = <<>> /\ runNow = NoRow /\ promo.pc = "idle" /\ force.pc = "idle"
    /\ Distinct(log.order)
    /\ fresh \cap (InMemory \cup ToSet(log.order)) = {}

(* Where a message that reached a provider may still be listed. *)
Delivered ==
    /\ \A r \in fresh \cup Popped \cup Promoted : launches[r] = 0
    /\ force.pc \notin {"idle", "delivered"} => launches[force.row] = 0
    /\ force.pc \in {"fenced", "delivered"} => force.row \in log.fenced \cap log.paused
    /\ promo.pc = "started" => promo.row \notin ToSet(log.order)
    /\ \A r \in ToSet(queue) : launches[r] > 0 => r \in fenced \cap paused

(* Who cannot be under a hold. *)
Holds ==
    /\ held \cap (fresh \cup Popped \cup Detached) = {}
    /\ log.paused \cap Deliveries = {}

-----------------------------------------------------------------------------
(* What one journal event does to the pending rows. *)

LogOK(l) ==
    /\ l \in Logs
    /\ Distinct(l.order)

(* turn_queued lists the row once and lifts its hold and fence. *)
LEMMA LogQueuedFacts ==
    ASSUME NEW l, LogOK(l), NEW r \in Rows
    PROVE  /\ LogOK(LogQueued(l, r))
           /\ ToSet(LogQueued(l, r).order) = ToSet(l.order) \cup {r}
           /\ LogQueued(l, r).paused = l.paused \ {r}
           /\ LogQueued(l, r).fenced = l.fenced \ {r}
<1>1. CASE r \in ToSet(l.order)
  BY <1>1 DEF LogOK, Logs, LogQueued
<1>2. CASE r \notin ToSet(l.order)
  <2>1. /\ Append(l.order, r) \in Seq(Rows) /\ Distinct(Append(l.order, r))
        /\ ToSet(Append(l.order, r)) = ToSet(l.order) \cup {r}
    BY <1>2, AppendFacts DEF LogOK, Logs
  <2>2. QED
    BY <1>2, <2>1 DEF LogOK, Logs, LogQueued
<1>3. QED
  BY <1>1, <1>2

(* turn_unqueued and turn_started remove the row. *)
LEMMA LogRemovedFacts ==
    ASSUME NEW l, LogOK(l), NEW r
    PROVE  /\ LogOK(LogRemoved(l, r))
           /\ ToSet(LogRemoved(l, r).order) = ToSet(l.order) \ {r}
           /\ LogRemoved(l, r).paused = l.paused \ {r}
           /\ LogRemoved(l, r).fenced = l.fenced \ {r}
<1>1. /\ Without(l.order, r) \in Seq(Rows) /\ Distinct(Without(l.order, r))
      /\ ToSet(Without(l.order, r)) = ToSet(l.order) \ {r}
  BY WithoutFacts DEF LogOK, Logs
<1>2. QED
  BY <1>1 DEF LogOK, Logs, LogRemoved

(* turn_queue_run_now keeps the same rows pending. *)
LEMMA LogRunNowFacts ==
    ASSUME NEW l, LogOK(l), NEW r \in Rows
    PROVE  /\ LogOK(LogRunNow(l, r))
           /\ ToSet(LogRunNow(l, r).order) = ToSet(l.order)
           /\ l.paused \ {r} \subseteq LogRunNow(l, r).paused
           /\ LogRunNow(l, r).paused \subseteq l.paused
           /\ l.fenced \ {r} \subseteq LogRunNow(l, r).fenced
           /\ LogRunNow(l, r).fenced \subseteq l.fenced
<1>1. CASE r \in ToSet(l.order)
  <2>1. /\ Without(l.order, r) \in Seq(Rows) /\ Distinct(Without(l.order, r))
        /\ ToSet(Without(l.order, r)) = ToSet(l.order) \ {r}
    BY WithoutFacts DEF LogOK, Logs
  <2>2. r \notin ToSet(Without(l.order, r))
    BY <2>1
  <2>3. /\ <<r>> \o Without(l.order, r) \in Seq(Rows)
        /\ Distinct(<<r>> \o Without(l.order, r))
        /\ ToSet(<<r>> \o Without(l.order, r)) = (ToSet(l.order) \ {r}) \cup {r}
    BY <2>1, <2>2, ConsFacts
  <2>4. QED
    BY <1>1, <2>3 DEF LogOK, Logs, LogRunNow
<1>2. CASE r \notin ToSet(l.order)
  BY <1>2 DEF LogRunNow
<1>3. QED
  BY <1>1, <1>2

(* turn_queue_paused holds pending rows. *)
LEMMA LogPausedFacts ==
    ASSUME NEW l, LogOK(l), NEW S
    PROVE  /\ LogOK(LogPaused(l, S))
           /\ LogPaused(l, S).order = l.order
           /\ LogPaused(l, S).paused = l.paused \cup (S \cap ToSet(l.order))
           /\ LogPaused(l, S).fenced = l.fenced
<1>1. ToSet(l.order) \subseteq Rows
  BY ToSetFacts DEF LogOK, Logs
<1>2. QED
  BY <1>1 DEF LogOK, Logs, LogPaused

(* turn_unqueued + turn_queue_delivery_fenced list the row under a fence. *)
LEMMA FenceLogFacts ==
    ASSUME LogOK(log), force.row \in Rows, force.idx \in Nat \ {0}
    PROVE  /\ LogOK(FenceLog(log))
           /\ ToSet(FenceLog(log).order) = ToSet(log.order) \cup {force.row}
           /\ FenceLog(log).paused = log.paused \cup {force.row}
           /\ FenceLog(log).fenced = log.fenced \cup {force.row}
<1> DEFINE r == force.row
           m == LogRemoved(log, r)
           i == AtMost(force.idx, Len(m.order) + 1)
<1>1. /\ LogOK(m) /\ ToSet(m.order) = ToSet(log.order) \ {r}
      /\ m.paused = log.paused \ {r} /\ m.fenced = log.fenced \ {r}
  BY LogRemovedFacts
<1> HIDE DEF m
<1>2. i \in 1..(Len(m.order) + 1)
  BY <1>1 DEF LogOK, Logs, AtMost
<1>3. r \notin ToSet(m.order)
  BY <1>1
<1> HIDE DEF i
<1>4. /\ InsertAt(m.order, i, r) \in Seq(Rows) /\ Distinct(InsertAt(m.order, i, r))
      /\ ToSet(InsertAt(m.order, i, r)) = ToSet(m.order) \cup {r}
  BY <1>1, <1>2, <1>3, InsertAtFacts DEF LogOK, Logs
<1>5. FenceLog(log) = [order |-> InsertAt(m.order, i, r),
                       paused |-> m.paused \cup {r}, fenced |-> m.fenced \cup {r}]
  BY <1>3 DEF FenceLog, LogFenced, m, i
<1>6. QED
  BY <1>1, <1>4, <1>5 DEF LogOK, Logs

-----------------------------------------------------------------------------
(* Homes: types, ownership and OneHome. *)

QueueIs(q, S) == q \in Seq(Rows) /\ Distinct(q) /\ ToSet(q) = S

(* Every step keeps the types, the ownership facts and OneHome. *)
LEMMA HomesStep ==
    ASSUME TypeOK, Owned, OneHome, [Next]_vars
    PROVE  TypeOK' /\ Owned' /\ OneHome'
<1>1. LogOK(log) /\ QueueIs(queue, ToSet(queue)) /\ ToSet(queue) \subseteq Rows
  BY ToSetFacts DEF TypeOK, Owned, OneHome, LogOK, QueueIs
<1>2. QueueIs(<<>>, {})
  BY DEF QueueIs, ToSet, Distinct
<1>3. NoRow \notin Rows /\ Users \subseteq Rows /\ Deliveries \subseteq Rows
  BY RowsAssumption DEF Rows

<1>4. ASSUME NEW r \in Rows, Enqueue(r)
      PROVE  TypeOK' /\ Owned' /\ OneHome'
  <2>1. r \notin ToSet(queue) /\ r \notin ToSet(log.order)
    BY <1>4 DEF Enqueue, Owned, InMemory
  <2>2. QueueIs(queue', ToSet(queue) \cup {r})
    BY <1>1, <1>4, <2>1, AppendFacts DEF Enqueue, QueueIs
  <2>3. LogOK(log') /\ ToSet(log'.order) = ToSet(log.order) \cup {r}
    BY <1>1, <1>4, LogQueuedFacts DEF Enqueue
  <2>4. QED
    BY <1>1, <1>2, <1>3, <1>4, <2>1, <2>2, <2>3 DEF TypeOK, LogOK, QueueIs,
         Owned, OneHome, InMemory, Detached, Popped, Promoted, Native, Enqueue, LifecycleFree
<1>5. ASSUME NEW r \in Rows, EnqueueRevoked(r)
      PROVE  TypeOK' /\ Owned' /\ OneHome'
  <2>1. LogOK(LogQueued(log, r)) /\ ToSet(LogQueued(log, r).order) = ToSet(log.order) \cup {r}
    BY <1>1, LogQueuedFacts
  <2>2. LogOK(log') /\ ToSet(log'.order) = (ToSet(log.order) \cup {r}) \ {r}
    BY <1>5, <2>1, LogRemovedFacts DEF EnqueueRevoked
  <2>3. QED
    BY <1>1, <1>2, <1>3, <1>5, <2>1, <2>2 DEF TypeOK, LogOK, QueueIs,
         Owned, OneHome, InMemory, Detached, Popped, Promoted, Native, EnqueueRevoked, mem,
         LifecycleFree
<1>6. ASSUME NEW r \in Rows, UnqueueTurn(r)
      PROVE  TypeOK' /\ Owned' /\ OneHome'
  <2>1. QueueIs(queue', ToSet(queue) \ {r})
    BY <1>1, <1>6, WithoutFacts DEF UnqueueTurn, QueueIs
  <2>2. LogOK(log') /\ ToSet(log'.order) = ToSet(log.order) \ {r}
    BY <1>1, <1>6, LogRemovedFacts DEF UnqueueTurn
  <2>3. QED
    BY <1>1, <1>2, <1>3, <1>6, <2>1, <2>2 DEF TypeOK, LogOK, QueueIs,
         Owned, OneHome, InMemory, Detached, Popped, Promoted, Native, UnqueueTurn, ghost
<1>7. CASE MoveQueuedTurn
  <2>1. QueueIs(queue', ToSet(queue))
    BY <1>1, <1>7, SwapFacts DEF MoveQueuedTurn, QueueIs
  <2>2. LogOK(log') /\ ToSet(log'.order) = ToSet(log.order)
    BY <1>1, <1>7, ReorderingsFacts DEF MoveQueuedTurn, LogOK, Logs
  <2>3. TypeOK'
    <3>1. used' \in Counts
      <4>1. used' = [used EXCEPT !.moves = used.moves + 1]
        BY <1>7 DEF MoveQueuedTurn
      <4>2. used \in Counts
        BY DEF TypeOK
      <4>3. QED
        BY <4>1, <4>2 DEF Counts
    <3>2. QED
      BY <1>1, <1>2, <1>3, <1>7, <2>1, <2>2, <3>1 DEF TypeOK, LogOK, QueueIs, MoveQueuedTurn, ghost
  <2>4. Owned'
    BY <1>1, <1>2, <1>3, <1>7, <2>1, <2>2 DEF TypeOK, LogOK, QueueIs,
         Owned, OneHome, InMemory, Detached, Popped, Promoted, Native, MoveQueuedTurn, ghost
  <2>5. OneHome'
    BY <1>1, <1>2, <1>3, <1>7, <2>1, <2>2 DEF TypeOK, LogOK, QueueIs,
         Owned, OneHome, InMemory, Detached, Popped, Promoted, Native, MoveQueuedTurn, ghost
  <2>6. QED
    BY <2>3, <2>4, <2>5
<1>8. CASE ReturnPausedPromotion
  <2>1. runNow \in Rows /\ runNow \notin ToSet(queue)
    BY <1>8 DEF ReturnPausedPromotion, TypeOK, OneHome, Promoted
  <2>2. QueueIs(queue', ToSet(queue) \cup {runNow})
    BY <1>1, <1>8, <2>1, ConsFacts DEF ReturnPausedPromotion, QueueIs
  <2>3. QED
    BY <1>1, <1>2, <1>3, <1>8, <2>1, <2>2 DEF TypeOK, LogOK, QueueIs,
         Owned, OneHome, InMemory, Detached, Popped, Promoted, Native, ReturnPausedPromotion,
         Begin, LifecycleFree, ghost
<1>9. CASE PopNext
  <2>1. promo.pc = "idle" /\ promo.row = NoRow /\ up /\ force.pc \notin {"selected", "stopping"}
    BY <1>9 DEF PopNext, Begin, LifecycleFree, Owned
  <2>2. wake' \in BOOLEAN /\ retry' \in {"none", "sleeping", "firing"}
    BY <1>9 DEF PopNext, Begin, TypeOK
  <2>3. /\ promo'.row \in Rows /\ promo'.pc = "popped"
        /\ QueueIs(queue', ToSet(queue) \ {promo'.row})
        /\ ToSet(queue) \cup Promoted = ToSet(queue') \cup Promoted' \cup {promo'.row}
        /\ promo'.row \notin Promoted' /\ runNow' \in {runNow, NoRow}
    <3>1. CASE runNow # NoRow
      BY <1>1, <1>3, <1>9, <3>1 DEF PopNext, Candidate, TypeOK, OneHome, Promoted, QueueIs
    <3>2. CASE runNow = NoRow
      <4>1. /\ queue # <<>> /\ promo' = [pc |-> "popped", row |-> Head(queue)]
            /\ queue' = Tail(queue) /\ runNow' = NoRow
        BY <1>9, <3>2 DEF PopNext, Candidate
      <4>2. /\ Head(queue) \in ToSet(queue)
            /\ QueueIs(queue', ToSet(queue) \ {Head(queue)})
        BY <1>1, <4>1, TailFacts DEF QueueIs
      <4>3. QED
        BY <1>1, <1>3, <3>2, <4>1, <4>2 DEF Promoted, QueueIs
    <3>3. QED
      BY <3>1, <3>2
  <2>4. /\ UNCHANGED <<up, force, stop, log, fresh>>
        /\ UNCHANGED <<steering, provisional, paused, fenced, waiter, slot, launches, burnt, held, used>>
    BY <1>9 DEF PopNext, ghost
  <2>5. TypeOK'
    <3>1. promo' \in Promos
      BY <1>9, <2>3 DEF Promos, PopNext
    <3>2. QED
      BY <2>2, <2>3, <2>4, <3>1 DEF TypeOK, QueueIs
  <2>6. Owned'
    BY <1>3, <2>1, <2>3, <2>4 DEF Owned, QueueIs, InMemory, Detached, Popped, Promoted, Native
  <2>7. OneHome'
    BY <1>1, <1>3, <2>1, <2>3, <2>4 DEF Owned, OneHome, QueueIs, Detached, Popped, Promoted, Native
  <2>8. QED
    BY <2>5, <2>6, <2>7
<1>10. CASE PersistTurnAcceptance
  <2>1. LogOK(log') /\ ToSet(log'.order) = ToSet(log.order) \ {promo.row}
    BY <1>1, <1>10, LogRemovedFacts DEF PersistTurnAcceptance
  <2>2. TypeOK'
    <3>1. promo' \in Promos
      BY <1>1, <1>2, <1>3, <1>10, <2>1 DEF TypeOK, Promos, PersistTurnAcceptance, mem, ghost
    <3>2. QED
      BY <1>1, <1>2, <1>3, <1>10, <2>1, <3>1 DEF TypeOK, LogOK, QueueIs, PersistTurnAcceptance,
         mem, ghost
  <2>3. Owned'
    BY <1>1, <1>2, <1>3, <1>10, <2>1 DEF TypeOK, LogOK, QueueIs,
         Owned, OneHome, InMemory, Detached, Popped, Promoted, Native, PersistTurnAcceptance,
         mem, ghost
  <2>4. OneHome'
    BY <1>1, <1>2, <1>3, <1>10, <2>1 DEF TypeOK, LogOK, QueueIs,
         Owned, OneHome, InMemory, Detached, Popped, Promoted, Native, PersistTurnAcceptance,
         mem, ghost
  <2>5. QED
    BY <2>2, <2>3, <2>4
<1>11. CASE DeferPromotion
  <2>1. promo.row \in Rows /\ promo.row \notin ToSet(queue)
    BY <1>11 DEF DeferPromotion, TypeOK, Promos, Owned, OneHome, Popped
  <2>2. QueueIs(<<promo.row>> \o queue, ToSet(queue) \cup {promo.row})
    BY <1>1, <2>1, ConsFacts DEF QueueIs
  <2>3. TypeOK'
    <3>1. promo' \in Promos
      BY <1>1, <1>2, <1>3, <1>11, <2>1, <2>2 DEF TypeOK, Promos, DeferPromotion,
         AbandonAttempt, RequeueTurnFront,
         ScheduleRetry, NoPromo
    <3>2. QED
      BY <1>1, <1>2, <1>3, <1>11, <2>1, <2>2, <3>1 DEF TypeOK, LogOK, QueueIs, DeferPromotion,
         AbandonAttempt, RequeueTurnFront,
         ScheduleRetry, NoPromo
  <2>4. Owned'
    BY <1>1, <1>2, <1>3, <1>11, <2>1, <2>2 DEF TypeOK, LogOK, QueueIs,
         Owned, OneHome, InMemory, Detached, Popped, Promoted, Native, DeferPromotion,
         AbandonAttempt, RequeueTurnFront,
         ScheduleRetry, NoPromo
  <2>5. OneHome'
    BY <1>1, <1>2, <1>3, <1>11, <2>1, <2>2 DEF TypeOK, LogOK, QueueIs,
         Owned, OneHome, InMemory, Detached, Popped, Promoted, Native, DeferPromotion,
         AbandonAttempt, RequeueTurnFront,
         ScheduleRetry, NoPromo
  <2>6. QED
    BY <2>3, <2>4, <2>5
<1>12. CASE CancelPromotion
  <2>1. promo.row \in Rows /\ promo.row \notin ToSet(queue)
    BY <1>12 DEF CancelPromotion, TypeOK, Promos, Owned, OneHome, Popped
  <2>2. QueueIs(<<promo.row>> \o queue, ToSet(queue) \cup {promo.row})
    BY <1>1, <2>1, ConsFacts DEF QueueIs
  <2>3. TypeOK'
    <3>1. promo' \in Promos
      BY <1>1, <1>2, <1>3, <1>12, <2>1, <2>2 DEF TypeOK, Promos, CancelPromotion,
         AbandonAttempt, RequeueTurnFront, NoPromo
    <3>2. QED
      BY <1>1, <1>2, <1>3, <1>12, <2>1, <2>2, <3>1 DEF TypeOK, LogOK, QueueIs, CancelPromotion,
         AbandonAttempt, RequeueTurnFront, NoPromo
  <2>4. Owned'
    BY <1>1, <1>2, <1>3, <1>12, <2>1, <2>2 DEF TypeOK, LogOK, QueueIs,
         Owned, OneHome, InMemory, Detached, Popped, Promoted, Native, CancelPromotion,
         AbandonAttempt, RequeueTurnFront, NoPromo
  <2>5. OneHome'
    BY <1>1, <1>2, <1>3, <1>12, <2>1, <2>2 DEF TypeOK, LogOK, QueueIs,
         Owned, OneHome, InMemory, Detached, Popped, Promoted, Native, CancelPromotion,
         AbandonAttempt, RequeueTurnFront, NoPromo
  <2>6. QED
    BY <2>3, <2>4, <2>5
<1>13. CASE DiscardPromotion
  <2>1. promo.row \in Rows /\ promo.row \notin ToSet(queue)
    BY <1>13 DEF DiscardPromotion, TypeOK, Promos, Owned, OneHome, Popped
  <2>2. QueueIs(<<promo.row>> \o queue, ToSet(queue) \cup {promo.row})
    BY <1>1, <2>1, ConsFacts DEF QueueIs
  <2>3. LogOK(LogRemoved(log, promo.row)) /\ ToSet(LogRemoved(log, promo.row).order) \subseteq ToSet(log.order)
    BY <1>1, LogRemovedFacts
  <2>4. LogOK(log') /\ ToSet(log'.order) \subseteq ToSet(log.order)
    BY <1>1, <1>13, <2>3 DEF DiscardPromotion
  <2>5. TypeOK'
    <3>1. promo' \in Promos
      BY <1>1, <1>2, <1>3, <1>13, <2>1, <2>2, <2>3, <2>4 DEF TypeOK, Promos, DiscardPromotion,
         AbandonAttempt,
         RequeueTurnFront, NoPromo
    <3>2. QED
      BY <1>1, <1>2, <1>3, <1>13, <2>1, <2>2, <2>3, <2>4, <3>1 DEF TypeOK, LogOK, QueueIs,
         DiscardPromotion, AbandonAttempt,
         RequeueTurnFront, NoPromo
  <2>6. Owned'
    BY <1>1, <1>2, <1>3, <1>13, <2>1, <2>2, <2>3, <2>4 DEF TypeOK, LogOK, QueueIs,
         Owned, OneHome, InMemory, Detached, Popped, Promoted, Native, DiscardPromotion,
         AbandonAttempt,
         RequeueTurnFront, NoPromo
  <2>7. OneHome'
    BY <1>1, <1>2, <1>3, <1>13, <2>1, <2>2, <2>3, <2>4 DEF TypeOK, LogOK, QueueIs,
         Owned, OneHome, InMemory, Detached, Popped, Promoted, Native, DiscardPromotion,
         AbandonAttempt,
         RequeueTurnFront, NoPromo
  <2>8. QED
    BY <2>5, <2>6, <2>7
<1>14. CASE DirectTurn
  BY <1>1, <1>2, <1>3, <1>14 DEF TypeOK, LogOK, QueueIs, Owned, OneHome, InMemory, Detached,
     Popped, Promoted, Native, DirectTurn,
     mem, ghost
<1>15. CASE PromoteNothing
  <2>1. /\ UNCHANGED <<up, queue, runNow, steering, provisional, paused, fenced>>
        /\ UNCHANGED <<promo, force, waiter, slot, stop, log, used>>
        /\ UNCHANGED <<fresh, launches, burnt, held>>
    BY <1>15 DEF PromoteNothing, mem, ghost
  <2>2. wake' \in BOOLEAN /\ retry' \in {"none", "sleeping", "firing"}
    BY <1>15 DEF TypeOK, PromoteNothing, Begin
  <2>3. TypeOK'
    BY <2>1, <2>2 DEF TypeOK
  <2>4. Owned' /\ OneHome'
    BY <2>1 DEF Owned, OneHome, InMemory, Detached, Popped, Promoted, Native
  <2>5. QED
    BY <2>3, <2>4
<1>16. CASE PromotionAlreadyOwned
  BY <1>1, <1>2, <1>3, <1>16 DEF TypeOK, LogOK, QueueIs, Owned, OneHome, InMemory, Detached,
     Popped, Promoted, Native, PromotionAlreadyOwned,
     mem, ghost
<1>17. CASE RetryTimer
  BY <1>1, <1>2, <1>3, <1>17 DEF TypeOK, LogOK, QueueIs, Owned, OneHome, InMemory, Detached,
     Popped, Promoted, Native, RetryTimer,
     mem, ghost
<1>18. CASE Reserve
  <2>1. TypeOK'
    <3>1. promo' \in Promos
      BY <1>1, <1>2, <1>3, <1>18 DEF TypeOK, Promos, Reserve, mem, ghost
    <3>2. QED
      BY <1>1, <1>2, <1>3, <1>18, <3>1 DEF TypeOK, LogOK, QueueIs, Reserve, mem, ghost
  <2>2. Owned'
    BY <1>1, <1>2, <1>3, <1>18 DEF TypeOK, LogOK, QueueIs,
         Owned, OneHome, InMemory, Detached, Popped, Promoted, Native, Reserve, mem, ghost
  <2>3. OneHome'
    BY <1>1, <1>2, <1>3, <1>18 DEF TypeOK, LogOK, QueueIs,
         Owned, OneHome, InMemory, Detached, Popped, Promoted, Native, Reserve, mem, ghost
  <2>4. QED
    BY <2>1, <2>2, <2>3
<1>19. CASE ProviderReady
  BY <1>1, <1>2, <1>3, <1>19 DEF TypeOK, LogOK, QueueIs, Owned, OneHome, InMemory, Detached,
     Popped, Promoted, Native, ProviderReady,
     mem, ghost
<1>20. CASE ProviderFinish
  BY <1>1, <1>2, <1>3, <1>20 DEF TypeOK, LogOK, QueueIs, Owned, OneHome, InMemory, Detached,
     Popped, Promoted, Native, ProviderFinish,
     mem, ghost
<1>21. CASE StopAdmit
  <2>1. TypeOK'
    <3>1. used' \in Counts
      <4>1. used' = [used EXCEPT !.stops = used.stops + 1]
        BY <1>21 DEF StopAdmit
      <4>2. used \in Counts
        BY DEF TypeOK
      <4>3. QED
        BY <4>1, <4>2 DEF Counts
    <3>2. QED
      BY <1>1, <1>2, <1>3, <1>21, <3>1 DEF TypeOK, LogOK, QueueIs, StopAdmit, mem, ghost,
         LifecycleFree
  <2>2. Owned'
    BY <1>1, <1>2, <1>3, <1>21 DEF TypeOK, LogOK, QueueIs,
         Owned, OneHome, InMemory, Detached, Popped, Promoted, Native, StopAdmit, mem, ghost,
         LifecycleFree
  <2>3. OneHome'
    BY <1>1, <1>2, <1>3, <1>21 DEF TypeOK, LogOK, QueueIs,
         Owned, OneHome, InMemory, Detached, Popped, Promoted, Native, StopAdmit, mem, ghost,
         LifecycleFree
  <2>4. QED
    BY <2>1, <2>2, <2>3
<1>22. CASE StopKeepsQueue
  BY <1>1, <1>2, <1>3, <1>22 DEF TypeOK, LogOK, QueueIs, Owned, OneHome, InMemory, Detached,
     Popped, Promoted, Native, StopKeepsQueue,
     mem, ghost
<1>23. CASE StopFinish
  BY <1>1, <1>2, <1>3, <1>23 DEF TypeOK, LogOK, QueueIs, Owned, OneHome, InMemory, Detached,
     Popped, Promoted, Native, StopFinish,
     mem, ghost
<1>24. CASE HandOff
  <2>1. TypeOK'
    <3>1. force' \in Forces
      BY <1>1, <1>2, <1>3, <1>24 DEF TypeOK, Forces, HandOff, mem, ghost
    <3>2. QED
      BY <1>1, <1>2, <1>3, <1>24, <3>1 DEF TypeOK, LogOK, QueueIs, HandOff, mem, ghost
  <2>2. Owned'
    BY <1>1, <1>2, <1>3, <1>24 DEF TypeOK, LogOK, QueueIs,
         Owned, OneHome, InMemory, Detached, Popped, Promoted, Native, HandOff, mem, ghost
  <2>3. OneHome'
    BY <1>1, <1>2, <1>3, <1>24 DEF TypeOK, LogOK, QueueIs,
         Owned, OneHome, InMemory, Detached, Popped, Promoted, Native, HandOff, mem, ghost
  <2>4. QED
    BY <2>1, <2>2, <2>3
<1>25. CASE AcceptSteer
  <2>1. TypeOK'
    <3>1. force' \in Forces
      BY <1>1, <1>2, <1>3, <1>25 DEF TypeOK, Forces, AcceptSteer, mem, ghost
    <3>2. QED
      BY <1>1, <1>2, <1>3, <1>25, <3>1 DEF TypeOK, LogOK, QueueIs, AcceptSteer, mem, ghost
  <2>2. Owned'
    BY <1>1, <1>2, <1>3, <1>25 DEF TypeOK, LogOK, QueueIs,
         Owned, OneHome, InMemory, Detached, Popped, Promoted, Native, AcceptSteer, mem, ghost
  <2>3. OneHome'
    BY <1>1, <1>2, <1>3, <1>25 DEF TypeOK, LogOK, QueueIs,
         Owned, OneHome, InMemory, Detached, Popped, Promoted, Native, AcceptSteer, mem, ghost
  <2>4. QED
    BY <2>1, <2>2, <2>3
<1>26. CASE SteerUncertain
  <2>1. TypeOK'
    <3>1. force' \in Forces
      BY <1>1, <1>2, <1>3, <1>26 DEF TypeOK, Forces, SteerUncertain, ReleaseNativeFence,
         NoForce, ghost
    <3>2. QED
      BY <1>1, <1>2, <1>3, <1>26, <3>1 DEF TypeOK, LogOK, QueueIs, SteerUncertain,
         ReleaseNativeFence, NoForce, ghost
  <2>2. Owned'
    BY <1>1, <1>2, <1>3, <1>26 DEF TypeOK, LogOK, QueueIs,
         Owned, OneHome, InMemory, Detached, Popped, Promoted, Native, SteerUncertain,
         ReleaseNativeFence, NoForce, ghost
  <2>3. OneHome'
    BY <1>1, <1>2, <1>3, <1>26 DEF TypeOK, LogOK, QueueIs,
         Owned, OneHome, InMemory, Detached, Popped, Promoted, Native, SteerUncertain,
         ReleaseNativeFence, NoForce, ghost
  <2>4. QED
    BY <2>1, <2>2, <2>3
<1>27. CASE InterruptForForceSend
  <2>1. TypeOK'
    <3>1. force' \in Forces
      BY <1>1, <1>2, <1>3, <1>27 DEF TypeOK, Forces, InterruptForForceSend, mem, ghost
    <3>2. QED
      BY <1>1, <1>2, <1>3, <1>27, <3>1 DEF TypeOK, LogOK, QueueIs, InterruptForForceSend, mem, ghost
  <2>2. Owned'
    BY <1>1, <1>2, <1>3, <1>27 DEF TypeOK, LogOK, QueueIs,
         Owned, OneHome, InMemory, Detached, Popped, Promoted, Native, InterruptForForceSend,
         mem, ghost
  <2>3. OneHome'
    BY <1>1, <1>2, <1>3, <1>27 DEF TypeOK, LogOK, QueueIs,
         Owned, OneHome, InMemory, Detached, Popped, Promoted, Native, InterruptForForceSend,
         mem, ghost
  <2>4. QED
    BY <2>1, <2>2, <2>3
<1>28. CASE ReleaseWaiterFence
  BY <1>1, <1>2, <1>3, <1>28 DEF TypeOK, LogOK, QueueIs, Owned, OneHome, InMemory, Detached,
     Popped, Promoted, Native, ReleaseWaiterFence,
     ghost
<1>29. CASE ReconcileIdleQueue
  BY <1>1, <1>2, <1>3, <1>29 DEF TypeOK, LogOK, QueueIs, Owned, OneHome, InMemory, Detached,
     Popped, Promoted, Native, ReconcileIdleQueue,
     ghost
<1>30. CASE Launch
  <2>1. promo.row \in Rows
    BY <1>30 DEF Launch, TypeOK, Promos, Owned
  <2>2. TypeOK'
    <3>1. promo' \in Promos
      BY <1>1, <1>2, <1>3, <1>30, <2>1 DEF TypeOK, Promos, Launch, mem, NoPromo
    <3>2. launches' \in [Rows -> Nat]
      BY <1>30, <2>1 DEF TypeOK, Launch, Launch
    <3>3. QED
      BY <1>1, <1>2, <1>3, <1>30, <2>1, <3>1, <3>2 DEF TypeOK, LogOK, QueueIs, Launch, mem, NoPromo
  <2>3. Owned'
    BY <1>1, <1>2, <1>3, <1>30, <2>1 DEF TypeOK, LogOK, QueueIs,
         Owned, OneHome, InMemory, Detached, Popped, Promoted, Native, Launch, mem, NoPromo
  <2>4. OneHome'
    BY <1>1, <1>2, <1>3, <1>30, <2>1 DEF TypeOK, LogOK, QueueIs,
         Owned, OneHome, InMemory, Detached, Popped, Promoted, Native, Launch, mem, NoPromo
  <2>5. QED
    BY <2>2, <2>3, <2>4
<1>31. CASE DeliverSteer
  <2>1. force.row \in Rows
    BY <1>31 DEF DeliverSteer, TypeOK, Forces, Owned
  <2>2. TypeOK'
    <3>1. force' \in Forces
      BY <1>1, <1>2, <1>3, <1>31, <2>1 DEF TypeOK, Forces, DeliverSteer, mem
    <3>2. launches' \in [Rows -> Nat]
      BY <1>31, <2>1 DEF TypeOK, DeliverSteer, DeliverSteer
    <3>3. QED
      BY <1>1, <1>2, <1>3, <1>31, <2>1, <3>1, <3>2 DEF TypeOK, LogOK, QueueIs, DeliverSteer, mem
  <2>3. Owned'
    BY <1>1, <1>2, <1>3, <1>31, <2>1 DEF TypeOK, LogOK, QueueIs,
         Owned, OneHome, InMemory, Detached, Popped, Promoted, Native, DeliverSteer, mem
  <2>4. OneHome'
    BY <1>1, <1>2, <1>3, <1>31, <2>1 DEF TypeOK, LogOK, QueueIs,
         Owned, OneHome, InMemory, Detached, Popped, Promoted, Native, DeliverSteer, mem
  <2>5. QED
    BY <2>2, <2>3, <2>4
<1>32. CASE StopPause
  <2>1. ToSet(log.order) \subseteq Rows /\ Promoted \subseteq Rows
    BY <1>1, ToSetFacts DEF TypeOK, LogOK, Logs, Promoted
  <2>2. /\ paused' \subseteq Rows /\ provisional' \subseteq Rows /\ held' \subseteq Rows
        /\ wake' \in BOOLEAN
    BY <1>1, <1>32, <2>1 DEF StopPause, TypeOK
  <2>3. LogOK(log') /\ log'.order = log.order
    BY <1>1, <1>32, LogPausedFacts DEF StopPause
  <2>4. QED
    BY <1>1, <1>2, <1>3, <1>32, <2>1, <2>2, <2>3 DEF TypeOK, LogOK, QueueIs,
         Owned, OneHome, InMemory, Detached, Popped, Promoted, Native, StopPause, ghost
<1>33. ASSUME NEW r \in Rows, SelectNative(r)
      PROVE  TypeOK' /\ Owned' /\ OneHome'
  <2>1. r \in ToSet(queue) /\ IndexOf(queue, r) \in 1..Len(queue)
    BY <1>1, <1>33, IndexOfFacts DEF SelectNative, Detach, QueueIs
  <2>2. QueueIs(queue', ToSet(queue) \ {r})
    BY <1>1, <1>33, WithoutFacts DEF SelectNative, Detach, QueueIs
  <2>3. force' \in [pc : {"handoff", "selected"}, row : {r}, idx : Nat \ {0},
                  pred : Rows \cup {NoRow}, succ : Rows \cup {NoRow}, wasPaused : BOOLEAN]
    BY <1>1, <1>33, <2>1 DEF SelectNative, Detach, QueueIs
  <2>4. force'.row = r
    BY <2>3
  <2>5. force'.pc = "handoff"
    BY <1>33 DEF SelectNative, Detach
  <2>6. TypeOK'
    <3>1. force' \in Forces
      BY <1>1, <1>2, <1>3, <1>33, <2>1, <2>2, <2>3, <2>4, <2>5 DEF TypeOK, Forces,
         SelectNative, Detach
    <3>2. used' \in Counts
      <4>1. used' = [used EXCEPT !.forces = used.forces + 1]
        BY <1>33 DEF SelectNative, Detach
      <4>2. used \in Counts
        BY DEF TypeOK
      <4>3. QED
        BY <4>1, <4>2 DEF Counts
    <3>3. QED
      BY <1>1, <1>2, <1>3, <1>33, <2>1, <2>2, <2>3, <2>4, <2>5, <3>1, <3>2 DEF TypeOK, LogOK,
         QueueIs, SelectNative, Detach
  <2>7. Owned'
    BY <1>1, <1>2, <1>3, <1>33, <2>1, <2>2, <2>3, <2>4, <2>5 DEF TypeOK, LogOK, QueueIs,
         Owned, OneHome, InMemory, Detached, Popped, Promoted, Native, SelectNative, Detach
  <2>8. OneHome'
    BY <1>1, <1>2, <1>3, <1>33, <2>1, <2>2, <2>3, <2>4, <2>5 DEF TypeOK, LogOK, QueueIs,
         Owned, OneHome, InMemory, Detached, Popped, Promoted, Native, SelectNative, Detach
  <2>9. QED
    BY <2>6, <2>7, <2>8
<1>34. ASSUME NEW r \in Rows, SelectForStop(r)
      PROVE  TypeOK' /\ Owned' /\ OneHome'
  <2>1. r \in ToSet(queue) /\ IndexOf(queue, r) \in 1..Len(queue)
    BY <1>1, <1>34, IndexOfFacts DEF SelectForStop, Detach, QueueIs
  <2>2. QueueIs(queue', ToSet(queue) \ {r})
    BY <1>1, <1>34, WithoutFacts DEF SelectForStop, Detach, QueueIs
  <2>3. force' \in [pc : {"handoff", "selected"}, row : {r}, idx : Nat \ {0},
                  pred : Rows \cup {NoRow}, succ : Rows \cup {NoRow}, wasPaused : BOOLEAN]
    BY <1>1, <1>34, <2>1 DEF SelectForStop, Detach, QueueIs
  <2>4. force'.row = r
    BY <2>3
  <2>5. force'.pc = "selected"
    BY <1>34 DEF SelectForStop, Detach
  <2>6. TypeOK'
    <3>1. force' \in Forces
      BY <1>1, <1>2, <1>3, <1>34, <2>1, <2>2, <2>3, <2>4, <2>5 DEF TypeOK, Forces,
         SelectForStop, Detach, LifecycleFree
    <3>2. used' \in Counts
      <4>1. used' = [used EXCEPT !.forces = used.forces + 1]
        BY <1>34 DEF SelectForStop, Detach
      <4>2. used \in Counts
        BY DEF TypeOK
      <4>3. QED
        BY <4>1, <4>2 DEF Counts
    <3>3. QED
      BY <1>1, <1>2, <1>3, <1>34, <2>1, <2>2, <2>3, <2>4, <2>5, <3>1, <3>2 DEF TypeOK, LogOK,
         QueueIs, SelectForStop, Detach, LifecycleFree
  <2>7. Owned'
    BY <1>1, <1>2, <1>3, <1>34, <2>1, <2>2, <2>3, <2>4, <2>5 DEF TypeOK, LogOK, QueueIs,
         Owned, OneHome, InMemory, Detached, Popped, Promoted, Native, SelectForStop, Detach,
         LifecycleFree
  <2>8. OneHome'
    BY <1>1, <1>2, <1>3, <1>34, <2>1, <2>2, <2>3, <2>4, <2>5 DEF TypeOK, LogOK, QueueIs,
         Owned, OneHome, InMemory, Detached, Popped, Promoted, Native, SelectForStop, Detach,
         LifecycleFree
  <2>9. QED
    BY <2>6, <2>7, <2>8
<1>35. CASE FenceNativeSteerDelivery
  <2>1. force.row \in Rows /\ force.row \notin ToSet(queue) /\ force.idx \in Nat \ {0}
    BY <1>35 DEF FenceNativeSteerDelivery, TypeOK, Forces, Owned, OneHome,
         Detached
  <2>2. LogOK(log') /\ ToSet(log'.order) = ToSet(log.order) \cup {force.row}
    BY <1>1, <1>35, <2>1, FenceLogFacts DEF FenceNativeSteerDelivery
  <2>3. TypeOK'
    <3>1. force' \in Forces
      BY <1>1, <1>2, <1>3, <1>35, <2>1, <2>2 DEF TypeOK, Forces, FenceNativeSteerDelivery, ghost
    <3>2. QED
      BY <1>1, <1>2, <1>3, <1>35, <2>1, <2>2, <3>1 DEF TypeOK, LogOK, QueueIs,
         FenceNativeSteerDelivery, ghost
  <2>4. Owned'
    BY <1>1, <1>2, <1>3, <1>35, <2>1, <2>2 DEF TypeOK, LogOK, QueueIs,
         Owned, OneHome, InMemory, Detached, Popped, Promoted, Native,
         FenceNativeSteerDelivery, ghost
  <2>5. OneHome'
    BY <1>1, <1>2, <1>3, <1>35, <2>1, <2>2 DEF TypeOK, LogOK, QueueIs,
         Owned, OneHome, InMemory, Detached, Popped, Promoted, Native,
         FenceNativeSteerDelivery, ghost
  <2>6. QED
    BY <2>3, <2>4, <2>5
<1>36. CASE CommitSteer
  <2>1. force.row \in Rows /\ force.row \notin ToSet(queue) /\ force.idx \in Nat \ {0}
    BY <1>36 DEF CommitSteer, TypeOK, Forces, Owned, OneHome,
         Detached
  <2>2. LogOK(LogRunNow(log, force.row)) /\ ToSet(LogRunNow(log, force.row).order) = ToSet(log.order)
    BY <1>1, <2>1, LogRunNowFacts
  <2>3. LogOK(log') /\ ToSet(log'.order) = ToSet(log.order) \ {force.row}
    BY <1>36, <2>2, LogRemovedFacts DEF CommitSteer
  <2>4. TypeOK'
    <3>1. force' \in Forces
      BY <1>1, <1>2, <1>3, <1>36, <2>1, <2>2, <2>3 DEF TypeOK, Forces, CommitSteer,
         ReleaseNativeFence,
         NoForce, ghost
    <3>2. QED
      BY <1>1, <1>2, <1>3, <1>36, <2>1, <2>2, <2>3, <3>1 DEF TypeOK, LogOK, QueueIs,
         CommitSteer, ReleaseNativeFence,
         NoForce, ghost
  <2>5. Owned'
    BY <1>1, <1>2, <1>3, <1>36, <2>1, <2>2, <2>3 DEF TypeOK, LogOK, QueueIs,
         Owned, OneHome, InMemory, Detached, Popped, Promoted, Native, CommitSteer,
         ReleaseNativeFence,
         NoForce, ghost
  <2>6. OneHome'
    BY <1>1, <1>2, <1>3, <1>36, <2>1, <2>2, <2>3 DEF TypeOK, LogOK, QueueIs,
         Owned, OneHome, InMemory, Detached, Popped, Promoted, Native, CommitSteer,
         ReleaseNativeFence,
         NoForce, ghost
  <2>7. QED
    BY <2>4, <2>5, <2>6
<1>37. CASE RequeueRejectedSteer
  <2>1. force.row \in Rows /\ force.row \notin ToSet(queue) /\ force.idx \in Nat \ {0}
    BY <1>37 DEF RequeueRejectedSteer, TypeOK, Forces, Owned, OneHome,
         Detached
  <2>2. ReturnIndex(queue, force) \in 1..(Len(queue) + 1)
    BY <1>1, <2>1, ReturnIndexFacts DEF QueueIs
  <2>3. QueueIs(queue', ToSet(queue) \cup {force.row})
    BY <1>1, <1>37, <2>1, <2>2, InsertAtFacts DEF RequeueRejectedSteer, QueueIs
  <2>4. /\ LogOK(log') /\ ToSet(log'.order) \subseteq ToSet(log.order) \cup {force.row}
        /\ paused' \subseteq paused \cup {force.row} /\ fenced' \subseteq fenced
    <3> DEFINE q == LogQueued(log, force.row)
    <3>1. /\ LogOK(q) /\ ToSet(q.order) = ToSet(log.order) \cup {force.row}
          /\ q.paused \subseteq log.paused /\ q.fenced \subseteq log.fenced
      <4>1. /\ LogOK(q) /\ ToSet(q.order) = ToSet(log.order) \cup {force.row}
            /\ q.paused = log.paused \ {force.row} /\ q.fenced = log.fenced \ {force.row}
        BY <1>1, <2>1, LogQueuedFacts
      <4>2. QED
        BY <4>1
    <3>2. CASE UNCHANGED <<log, fenced>> /\ paused' = paused \cup {force.row}
      BY <1>1, <3>2
    <3>3. ASSUME NEW keep \in BOOLEAN, NEW t \in Reorderings(q.order, queue'),
                 log' = IF keep THEN LogPaused([q EXCEPT !.order = t], {force.row})
                                ELSE [q EXCEPT !.order = t],
                 paused' = IF keep THEN paused \cup {force.row} ELSE paused \ {force.row},
                 fenced' = fenced \ {force.row}
          PROVE  /\ LogOK(log') /\ ToSet(log'.order) \subseteq ToSet(log.order) \cup {force.row}
                 /\ paused' \subseteq paused \cup {force.row} /\ fenced' \subseteq fenced
      <4> HIDE DEF q
      <4>1. t \in Seq(Rows) /\ Distinct(t) /\ ToSet(t) = ToSet(q.order)
        BY <3>1, ReorderingsFacts DEF LogOK, Logs
      <4>2. LogOK([q EXCEPT !.order = t]) /\ [q EXCEPT !.order = t].order = t
        BY <3>1, <4>1 DEF LogOK, Logs
      <4>3. /\ LogOK(LogPaused([q EXCEPT !.order = t], {force.row}))
            /\ LogPaused([q EXCEPT !.order = t], {force.row}).order = t
        BY <4>2, LogPausedFacts
      <4>4. QED
        BY <3>1, <3>3, <4>1, <4>2, <4>3
    <3>4. QED
      BY <1>37, <3>2, <3>3 DEF RequeueRejectedSteer
  <2>5. TypeOK'
    <3>1. force' \in Forces
      BY <1>1, <1>2, <1>3, <1>37, <2>1, <2>3, <2>4 DEF TypeOK, Forces, RequeueRejectedSteer,
         ReleaseNativeFence, NoForce, ghost
    <3>2. QED
      BY <1>1, <1>2, <1>3, <1>37, <2>1, <2>3, <2>4, <3>1 DEF TypeOK, LogOK, QueueIs,
         RequeueRejectedSteer, ReleaseNativeFence, NoForce, ghost
  <2>6. Owned'
    BY <1>1, <1>2, <1>3, <1>37, <2>1, <2>3, <2>4 DEF TypeOK, LogOK, QueueIs,
         Owned, OneHome, InMemory, Detached, Popped, Promoted, Native, RequeueRejectedSteer,
         ReleaseNativeFence, NoForce, ghost
  <2>7. OneHome'
    BY <1>1, <1>2, <1>3, <1>37, <2>1, <2>3, <2>4 DEF TypeOK, LogOK, QueueIs,
         Owned, OneHome, InMemory, Detached, Popped, Promoted, Native, RequeueRejectedSteer,
         ReleaseNativeFence, NoForce, ghost
  <2>8. QED
    BY <2>5, <2>6, <2>7
<1>38. CASE ExpireSteerOwner
  <2>1. force.row \in Rows /\ force.row \notin ToSet(queue) /\ force.idx \in Nat \ {0}
    BY <1>38 DEF ExpireSteerOwner, TypeOK, Forces, Owned, OneHome,
         Detached
  <2>2. PICK l \in {log, FenceLog(log)} :
          /\ log' = l
          /\ queue' = IF force.row \in ToSet(l.order)
                      THEN InsertAt(queue, RestoreIndex(queue, l.order, force.row), force.row)
                      ELSE queue
          /\ paused' = (paused \ {force.row}) \cup ({force.row} \cap l.paused)
          /\ fenced' = (fenced \ {force.row}) \cup ({force.row} \cap l.fenced)
          /\ held' = held \cup ({force.row} \cap (l.paused \ l.fenced))
    BY <1>38 DEF ExpireSteerOwner
  <2>3. LogOK(l) /\ ToSet(l.order) \subseteq ToSet(log.order) \cup {force.row}
    BY <1>1, <2>1, <2>2, FenceLogFacts
  <2>4. QueueIs(queue', ToSet(queue')) /\ ToSet(queue') \subseteq ToSet(queue) \cup {force.row}
    <3>1. CASE force.row \in ToSet(l.order)
      <4>1. RestoreIndex(queue, l.order, force.row) \in 1..(Len(queue) + 1)
        BY <1>1, <2>3, <3>1, RestoreIndexFacts DEF QueueIs, LogOK, Logs
      <4>2. QED
        BY <1>1, <2>1, <2>2, <3>1, <4>1, InsertAtFacts DEF QueueIs
    <3>2. CASE force.row \notin ToSet(l.order)
      BY <1>1, <2>2, <3>2 DEF QueueIs
    <3>3. QED
      BY <3>1, <3>2
  <2>5. TypeOK'
    <3>1. force' \in Forces
      BY <1>1, <1>2, <1>3, <1>38, <2>1, <2>2, <2>3, <2>4 DEF TypeOK, Forces, ExpireSteerOwner,
         ReleaseNativeFence, NoForce
    <3>2. QED
      BY <1>1, <1>2, <1>3, <1>38, <2>1, <2>2, <2>3, <2>4, <3>1 DEF TypeOK, LogOK, QueueIs,
         ExpireSteerOwner, ReleaseNativeFence, NoForce
  <2>6. Owned'
    BY <1>1, <1>2, <1>3, <1>38, <2>1, <2>2, <2>3, <2>4 DEF TypeOK, LogOK, QueueIs,
         Owned, OneHome, InMemory, Detached, Popped, Promoted, Native, ExpireSteerOwner,
         ReleaseNativeFence, NoForce
  <2>7. OneHome'
    BY <1>1, <1>2, <1>3, <1>38, <2>1, <2>2, <2>3, <2>4 DEF TypeOK, LogOK, QueueIs,
         Owned, OneHome, InMemory, Detached, Popped, Promoted, Native, ExpireSteerOwner,
         ReleaseNativeFence, NoForce
  <2>8. QED
    BY <2>5, <2>6, <2>7
<1>39. CASE DeferForceSend
  <2>1. force.row \in Rows /\ force.row \notin ToSet(queue) /\ force.idx \in Nat \ {0}
    BY <1>39 DEF DeferForceSend, TypeOK, Forces, Owned, OneHome,
         Detached
  <2>2. AtMost(force.idx, Len(queue) + 1) \in 1..(Len(queue) + 1)
    BY <1>1, <2>1 DEF AtMost, QueueIs
  <2>3. QueueIs(queue', ToSet(queue) \cup {force.row})
    BY <1>1, <1>39, <2>1, <2>2, InsertAtFacts DEF DeferForceSend, QueueIs
  <2>4. TypeOK'
    <3>1. force' \in Forces
      BY <1>1, <1>2, <1>3, <1>39, <2>1, <2>2, <2>3 DEF TypeOK, Forces, DeferForceSend, NoForce,
         ghost
    <3>2. QED
      BY <1>1, <1>2, <1>3, <1>39, <2>1, <2>2, <2>3, <3>1 DEF TypeOK, LogOK, QueueIs,
         DeferForceSend, NoForce, ghost
  <2>5. Owned'
    BY <1>1, <1>2, <1>3, <1>39, <2>1, <2>2, <2>3 DEF TypeOK, LogOK, QueueIs,
         Owned, OneHome, InMemory, Detached, Popped, Promoted, Native, DeferForceSend, NoForce,
         ghost
  <2>6. OneHome'
    BY <1>1, <1>2, <1>3, <1>39, <2>1, <2>2, <2>3 DEF TypeOK, LogOK, QueueIs,
         Owned, OneHome, InMemory, Detached, Popped, Promoted, Native, DeferForceSend, NoForce,
         ghost
  <2>7. QED
    BY <2>4, <2>5, <2>6
<1>40. CASE CommitForceSend
  <2>1. force.row \in Rows /\ force.row \notin ToSet(queue) /\ force.idx \in Nat \ {0}
    BY <1>40 DEF CommitForceSend, TypeOK, Forces, Owned, OneHome,
         Detached
  <2>2. LogOK(log') /\ ToSet(log'.order) = ToSet(log.order)
    BY <1>1, <1>40, <2>1, LogRunNowFacts DEF CommitForceSend
  <2>3. TypeOK'
    <3>1. force' \in Forces
      BY <1>1, <1>2, <1>3, <1>40, <2>1, <2>2 DEF TypeOK, Forces, CommitForceSend, NoForce, mem,
         ghost
    <3>2. QED
      BY <1>1, <1>2, <1>3, <1>40, <2>1, <2>2, <3>1 DEF TypeOK, LogOK, QueueIs, CommitForceSend,
         NoForce, mem, ghost
  <2>4. Owned'
    BY <1>1, <1>2, <1>3, <1>40, <2>1, <2>2 DEF TypeOK, LogOK, QueueIs,
         Owned, OneHome, InMemory, Detached, Popped, Promoted, Native, CommitForceSend,
         NoForce, mem, ghost
  <2>5. OneHome'
    BY <1>1, <1>2, <1>3, <1>40, <2>1, <2>2 DEF TypeOK, LogOK, QueueIs,
         Owned, OneHome, InMemory, Detached, Popped, Promoted, Native, CommitForceSend,
         NoForce, mem, ghost
  <2>6. QED
    BY <2>3, <2>4, <2>5
<1>41. CASE RestoreUncommitted
  <2>1. force.row \in Rows /\ force.row \notin ToSet(queue) /\ force.idx \in Nat \ {0}
    BY <1>41 DEF RestoreUncommitted, TypeOK, Forces, Owned, OneHome,
         Detached
  <2>2. ReturnIndex(queue, force) \in 1..(Len(queue) + 1)
    BY <1>1, <2>1, ReturnIndexFacts DEF QueueIs
  <2>3. QueueIs(queue', ToSet(queue) \cup {force.row})
    BY <1>1, <1>41, <2>1, <2>2, InsertAtFacts DEF RestoreUncommitted, QueueIs
  <2>4. TypeOK'
    <3>1. force' \in Forces
      BY <1>1, <1>2, <1>3, <1>41, <2>1, <2>2, <2>3 DEF TypeOK, Forces, RestoreUncommitted, NoForce
    <3>2. QED
      BY <1>1, <1>2, <1>3, <1>41, <2>1, <2>2, <2>3, <3>1 DEF TypeOK, LogOK, QueueIs,
         RestoreUncommitted, NoForce
  <2>5. Owned'
    BY <1>1, <1>2, <1>3, <1>41, <2>1, <2>2, <2>3 DEF TypeOK, LogOK, QueueIs,
         Owned, OneHome, InMemory, Detached, Popped, Promoted, Native, RestoreUncommitted, NoForce
  <2>6. OneHome'
    BY <1>1, <1>2, <1>3, <1>41, <2>1, <2>2, <2>3 DEF TypeOK, LogOK, QueueIs,
         Owned, OneHome, InMemory, Detached, Popped, Promoted, Native, RestoreUncommitted, NoForce
  <2>7. QED
    BY <2>4, <2>5, <2>6
<1>42. CASE Crash
  <2>1. TypeOK'
    <3>1. force' \in Forces
      BY <1>1, <1>2, <1>3, <1>42 DEF TypeOK, Forces, Crash, NoPromo, NoForce, ghost
    <3>2. promo' \in Promos
      BY <1>1, <1>2, <1>3, <1>42 DEF TypeOK, Promos, Crash, NoPromo, NoForce, ghost
    <3>3. used' \in Counts
      <4>1. used' = [used EXCEPT !.crashes = used.crashes + 1]
        BY <1>42 DEF Crash
      <4>2. used \in Counts
        BY DEF TypeOK
      <4>3. QED
        BY <4>1, <4>2 DEF Counts
    <3>4. QED
      BY <1>1, <1>2, <1>3, <1>42, <3>1, <3>2, <3>3 DEF TypeOK, LogOK, QueueIs, Crash, NoPromo,
         NoForce, ghost
  <2>2. Owned'
    BY <1>1, <1>2, <1>3, <1>42 DEF TypeOK, LogOK, QueueIs,
         Owned, OneHome, InMemory, Detached, Popped, Promoted, Native, Crash, NoPromo, NoForce,
         ghost
  <2>3. OneHome'
    BY <1>1, <1>2, <1>3, <1>42 DEF TypeOK, LogOK, QueueIs,
         Owned, OneHome, InMemory, Detached, Popped, Promoted, Native, Crash, NoPromo, NoForce,
         ghost
  <2>4. QED
    BY <2>1, <2>2, <2>3
<1>43. ASSUME NEW r \in Rows, DiscardRecovered(r)
      PROVE  TypeOK' /\ Owned' /\ OneHome'
  <2>1. LogOK(log') /\ ToSet(log'.order) = ToSet(log.order) \ {r}
    BY <1>1, <1>43, LogRemovedFacts DEF DiscardRecovered
  <2>2. QED
    BY <1>1, <1>2, <1>3, <1>43, <2>1 DEF TypeOK, LogOK, QueueIs,
         Owned, OneHome, InMemory, Detached, Popped, Promoted, Native, DiscardRecovered, mem, ghost
<1>44. CASE RecoverQueuedTurns
  <2>1. QueueIs(queue', ToSet(log.order))
    BY <1>1, <1>44 DEF RecoverQueuedTurns, LogOK, Logs, QueueIs
  <2>2. log.paused \subseteq Rows /\ log.fenced \subseteq Rows
    BY <1>1 DEF LogOK, Logs
  <2>3. QED
    BY <1>1, <1>2, <1>3, <1>44, <2>1, <2>2 DEF TypeOK, LogOK, QueueIs,
         Owned, OneHome, InMemory, Detached, Popped, Promoted, Native, RecoverQueuedTurns, ghost
<1>45. CASE UNCHANGED vars
  BY <1>45 DEF TypeOK, Owned, OneHome, InMemory, Detached, Popped, Promoted, Native, LogOK,
         QueueIs, vars, mem, ghost
<1>46. QED
  BY <1>4, <1>5, <1>6, <1>7, <1>8, <1>9, <1>10, <1>11, <1>12, <1>13, <1>14,
     <1>15, <1>16, <1>17, <1>18, <1>19, <1>20, <1>21, <1>22, <1>23, <1>24,
     <1>25, <1>26, <1>27, <1>28, <1>29, <1>30, <1>31, <1>32, <1>33, <1>34,
     <1>35, <1>36, <1>37, <1>38, <1>39, <1>40, <1>41, <1>42, <1>43, <1>44,
     <1>45 DEF Next

(* The initial state has no rows anywhere. *)
LEMMA HomesInit == Init => TypeOK /\ Owned /\ OneHome
<1> SUFFICES ASSUME Init PROVE TypeOK /\ Owned /\ OneHome
  OBVIOUS
<1>1. Distinct(<<>>) /\ ToSet(<<>>) = {}
  BY DEF Distinct, ToSet
<1>2. promo \in Promos /\ force \in Forces /\ log \in Logs /\ used \in Counts
  BY DEF Init, NoPromo, NoForce, EmptyLog, Promos, Forces, Logs, Counts
<1>3. TypeOK
  <2>1. queue \in Seq(Rows) /\ launches \in [Rows -> Nat]
    BY DEF Init
  <2>2. /\ runNow = NoRow /\ provisional = {} /\ paused = {} /\ fenced = {}
        /\ fresh = Rows /\ burnt = {} /\ held = {}
        /\ slot = "free" /\ stop = "none" /\ retry = "none"
    BY DEF Init
  <2>3. up \in BOOLEAN /\ steering \in BOOLEAN /\ waiter \in BOOLEAN /\ wake \in BOOLEAN
    BY DEF Init
  <2>4. QED
    BY <1>2, <2>1, <2>2, <2>3 DEF TypeOK
<1>4. Owned /\ OneHome
  BY <1>1 DEF Init, NoPromo, NoForce, EmptyLog, Owned, OneHome, InMemory, Detached,
     Popped, Promoted, Native
<1>5. QED
  BY <1>3, <1>4

Homes == TypeOK /\ Owned /\ OneHome

(* The inductive invariant of ownership. *)
LEMMA HomesAlways == Spec => []Homes
<1>1. Init => Homes
  BY HomesInit DEF Homes
<1>2. Homes /\ [Next]_vars => Homes'
  BY HomesStep DEF Homes
<1>3. QED
  BY <1>1, <1>2, PTL DEF Spec

(* The queue, its journal and every owner keep their types. *)
THEOREM TypeCorrect == Spec => []TypeOK
<1>1. Homes => TypeOK
  BY DEF Homes
<1>2. QED
  BY <1>1, HomesAlways, PTL

(* A queued message has one home at a time, whatever requeue, restore,     *)
(* rejection and recovery path put it there.                               *)
THEOREM RowsHaveOneHome == Spec => []OneHome
<1>1. Homes => OneHome
  BY DEF Homes
<1>2. QED
  BY <1>1, HomesAlways, PTL

-----------------------------------------------------------------------------
(* Promises: nothing is sent twice, the journal is exact and a hold is     *)
(* honoured.  The parts need one another: what was delivered is listed     *)
(* only under its fence, so a pop never meets it; what is popped or        *)
(* detached is not held, so removing it from the journal lifts no hold.    *)
Promises == SentOnce /\ Delivered /\ JournalExact /\ Holds /\ HoldDurable /\ HoldListed

(* Only a row that nobody holds is handed to a provider. *)
Lawful == \A r \in Rows : launches'[r] > launches[r] => r \notin held

(* Steps that move no row: what the promises speak of stays. *)
Quiet ==
    /\ UNCHANGED <<up, runNow, paused, fenced>>
    /\ UNCHANGED <<fresh, launches, burnt, held>>
    /\ queue' = queue /\ log' = log
    /\ promo'.row = promo.row /\ (promo'.pc = "started") = (promo.pc = "started")
    /\ force'.row = force.row
    /\ \A pc \in {"idle", "fenced", "delivered"} : (force'.pc = pc) = (force.pc = pc)

LEMMA QuietKeeps ==
    ASSUME Homes, Promises, Quiet
    PROVE  Promises' /\ Lawful
<1>1. /\ InMemory' = InMemory /\ Popped' = Popped /\ Promoted' = Promoted
      /\ Detached' = Detached
  BY DEF Quiet, InMemory, Popped, Promoted, Detached
<1>2. SentOnce'
  BY DEF Promises, Quiet, SentOnce, AtMostOnce, ReplayFenced
<1>3. Delivered'
  BY <1>1 DEF Promises, Quiet, Delivered
<1>4. JournalExact'
  BY <1>1 DEF Promises, Quiet, JournalExact, JournalCoversMemory, NoDiskOnlyRow
<1>5. Holds' /\ HoldDurable' /\ HoldListed'
  BY <1>1 DEF Promises, Quiet, Holds, HoldDurable, HoldListed
<1>6. Lawful
  <2>1. \A r \in Rows : launches[r] \in Nat
    BY DEF Homes, TypeOK
  <2>2. QED
    BY <2>1 DEF Quiet, Lawful
<1>7. QED
  BY <1>2, <1>3, <1>4, <1>5, <1>6 DEF Promises

(* What the proofs below use of the ownership facts. *)
LEMMA HomesFacts ==
    ASSUME Homes
    PROVE  /\ LogOK(log) /\ QueueIs(queue, ToSet(queue)) /\ ToSet(queue) \subseteq Rows
           /\ ToSet(log.order) \subseteq Rows
           /\ NoRow \notin Rows /\ Users \subseteq Rows /\ Deliveries \subseteq Rows
           /\ launches \in [Rows -> Nat] /\ fresh \subseteq Rows
           /\ promo.row \in Rows \cup {NoRow} /\ force.row \in Rows \cup {NoRow}
           /\ runNow \in Rows \cup {NoRow} /\ force.idx \in Nat \ {0}
           /\ fresh \cap (InMemory \cup ToSet(log.order)) = {}
<1>1. LogOK(log) /\ QueueIs(queue, ToSet(queue)) /\ ToSet(queue) \subseteq Rows
  BY ToSetFacts DEF Homes, TypeOK, Owned, OneHome, LogOK, QueueIs
<1>2. ToSet(log.order) \subseteq Rows
  BY ToSetFacts DEF Homes, TypeOK, Logs
<1>3. NoRow \notin Rows /\ Users \subseteq Rows /\ Deliveries \subseteq Rows
  BY RowsAssumption DEF Rows
<1>4. promo.row \in Rows \cup {NoRow} /\ force.row \in Rows \cup {NoRow} /\ force.idx \in Nat \ {0}
  BY DEF Homes, TypeOK, Promos, Forces
<1>5. QED
  BY <1>1, <1>2, <1>3, <1>4 DEF Homes, TypeOK, Owned

(* The steps of timers, providers, Stop teardown and of owners that only   *)
(* go on.                                                                  *)
LEMMA QuietSteps ==
    ASSUME Homes,
           \/ DirectTurn \/ PromoteNothing \/ PromotionAlreadyOwned \/ RetryTimer \/ Reserve
           \/ ProviderReady \/ ProviderFinish \/ StopAdmit \/ StopKeepsQueue \/ StopFinish
           \/ HandOff \/ AcceptSteer \/ InterruptForForceSend \/ ReleaseWaiterFence
           \/ ReconcileIdleQueue \/ UNCHANGED vars
    PROVE  Quiet
<1>1. promo \in Promos /\ force \in Forces
  BY DEF Homes, TypeOK
<1>2. CASE DirectTurn
  BY <1>2 DEF DirectTurn, Quiet, mem, ghost
<1>3. CASE PromoteNothing
  BY <1>3 DEF PromoteNothing, Quiet, mem, ghost, Begin
<1>4. CASE PromotionAlreadyOwned
  BY <1>4 DEF PromotionAlreadyOwned, Quiet, mem, ghost
<1>5. CASE RetryTimer
  BY <1>5 DEF RetryTimer, Quiet, mem, ghost
<1>6. CASE Reserve
  <2>1. promo' = [promo EXCEPT !.pc = "reserved"] /\ promo.pc = "popped"
    BY <1>6 DEF Reserve
  <2>2. promo'.row = promo.row /\ promo'.pc = "reserved"
    BY <1>1, <2>1 DEF Promos
  <2>3. QED
    BY <1>6, <2>1, <2>2 DEF Reserve, Quiet, mem, ghost
<1>7. CASE ProviderReady
  BY <1>7 DEF ProviderReady, Quiet, mem, ghost
<1>8. CASE ProviderFinish
  BY <1>8 DEF ProviderFinish, Quiet, mem, ghost
<1>9. CASE StopAdmit
  BY <1>9 DEF StopAdmit, Quiet, mem, ghost
<1>10. CASE StopKeepsQueue
  BY <1>10 DEF StopKeepsQueue, Quiet, mem, ghost
<1>11. CASE StopFinish
  BY <1>11 DEF StopFinish, Quiet, mem, ghost
<1>12. CASE HandOff
  <2>1. force' = [force EXCEPT !.pc = "queued"] /\ force.pc = "handoff"
    BY <1>12 DEF HandOff
  <2>2. force'.row = force.row /\ force'.pc = "queued"
    BY <1>1, <2>1 DEF Forces
  <2>3. QED
    BY <1>12, <2>1, <2>2 DEF HandOff, Quiet, mem, ghost
<1>13. CASE AcceptSteer
  <2>1. force' = [force EXCEPT !.pc = "accepted"] /\ force.pc = "queued"
    BY <1>13 DEF AcceptSteer
  <2>2. force'.row = force.row /\ force'.pc = "accepted"
    BY <1>1, <2>1 DEF Forces
  <2>3. QED
    BY <1>13, <2>1, <2>2 DEF AcceptSteer, Quiet, mem, ghost
<1>14. CASE InterruptForForceSend
  <2>1. force' = [force EXCEPT !.pc = "stopping"] /\ force.pc = "selected"
    BY <1>14 DEF InterruptForForceSend
  <2>2. force'.row = force.row /\ force'.pc = "stopping"
    BY <1>1, <2>1 DEF Forces
  <2>3. QED
    BY <1>14, <2>1, <2>2 DEF InterruptForForceSend, Quiet, mem, ghost
<1>15. CASE ReleaseWaiterFence
  BY <1>15 DEF ReleaseWaiterFence, Quiet, mem, ghost
<1>16. CASE ReconcileIdleQueue
  BY <1>16 DEF ReconcileIdleQueue, Quiet, mem, ghost
<1>17. CASE UNCHANGED vars
  BY <1>17 DEF vars, Quiet, mem, ghost
<1>18. QED
  BY <1>2, <1>3, <1>4, <1>5, <1>6, <1>7, <1>8, <1>9, <1>10, <1>11, <1>12, <1>13, <1>14, <1>15,
     <1>16, <1>17

(* enqueue_turn *)
LEMMA EnqueueKeeps ==
    ASSUME Homes, Promises, NEW r \in Rows, Enqueue(r)
    PROVE  Promises' /\ Lawful
<1> USE HomesFacts
<1>1. /\ r \in fresh /\ fresh' = fresh \ {r} /\ promo.pc = "idle" /\ promo.row = NoRow
      /\ ToSet(queue') = ToSet(queue) \cup {r} /\ ToSet(log'.order) = ToSet(log.order) \cup {r}
      /\ log'.paused = log.paused \ {r} /\ log'.fenced = log.fenced \ {r}
      /\ UNCHANGED <<up, runNow, paused, fenced, promo, force>>
      /\ UNCHANGED <<launches, burnt, held>>
  <2>1. r \in fresh /\ r \notin ToSet(queue)
    BY DEF Enqueue, InMemory
  <2>2. ToSet(queue') = ToSet(queue) \cup {r}
    BY <2>1, AppendFacts DEF Enqueue, QueueIs
  <2>3. /\ ToSet(log'.order) = ToSet(log.order) \cup {r}
        /\ log'.paused = log.paused \ {r} /\ log'.fenced = log.fenced \ {r}
    BY LogQueuedFacts DEF Enqueue
  <2>4. promo.pc = "idle" /\ promo.row = NoRow
    BY DEF Enqueue, LifecycleFree, Homes, Owned
  <2>5. QED
    BY <2>1, <2>2, <2>3, <2>4 DEF Enqueue
<1>2. SentOnce' /\ Delivered'
  BY <1>1 DEF Promises, SentOnce, AtMostOnce, ReplayFenced, Delivered,
     Homes, Owned, OneHome, InMemory, Popped, Promoted, Detached
<1>3. JournalExact'
  BY <1>1 DEF Promises, JournalExact, JournalCoversMemory, NoDiskOnlyRow, Delivered,
     Homes, Owned, OneHome, InMemory, Popped, Promoted, Detached
<1>4. Holds' /\ HoldDurable' /\ HoldListed'
  BY <1>1 DEF Promises, Holds, HoldDurable, HoldListed,
     Homes, Owned, OneHome, InMemory, Popped, Promoted, Detached
<1>5. Lawful
  BY <1>1 DEF Promises, Lawful, Holds,
     Homes, Owned, OneHome, InMemory, Popped, Promoted, Detached
<1>6. QED
  BY <1>2, <1>3, <1>4, <1>5 DEF Promises

(* enqueue_turn of a delivery that is compensated at once *)
LEMMA EnqueueRevokedKeeps ==
    ASSUME Homes, Promises, NEW r \in Rows, EnqueueRevoked(r)
    PROVE  Promises' /\ Lawful
<1> USE HomesFacts
<1>1. /\ r \in fresh /\ fresh' = fresh \ {r}
      /\ ToSet(queue') = ToSet(queue) /\ ToSet(log'.order) = ToSet(log.order) \ {r}
      /\ log'.paused = log.paused \ {r} /\ log'.fenced = log.fenced \ {r}
      /\ UNCHANGED <<up, runNow, paused, fenced, promo, force>>
      /\ UNCHANGED <<launches, burnt, held>>
  <2>1. /\ LogOK(LogQueued(log, r))
        /\ ToSet(LogQueued(log, r).order) = ToSet(log.order) \cup {r}
        /\ LogQueued(log, r).paused = log.paused \ {r}
        /\ LogQueued(log, r).fenced = log.fenced \ {r}
    BY LogQueuedFacts
  <2>2. /\ ToSet(log'.order) = (ToSet(log.order) \cup {r}) \ {r}
        /\ log'.paused = (log.paused \ {r}) \ {r} /\ log'.fenced = (log.fenced \ {r}) \ {r}
    BY <2>1, LogRemovedFacts DEF EnqueueRevoked
  <2>3. QED
    BY <2>2 DEF EnqueueRevoked, mem
<1>2. SentOnce' /\ Delivered'
  BY <1>1 DEF Promises, SentOnce, AtMostOnce, ReplayFenced, Delivered,
     Homes, Owned, OneHome, InMemory, Popped, Promoted, Detached
<1>3. JournalExact'
  BY <1>1 DEF Promises, JournalExact, JournalCoversMemory, NoDiskOnlyRow, Delivered,
     Homes, Owned, OneHome, InMemory, Popped, Promoted, Detached
<1>4. Holds' /\ HoldDurable' /\ HoldListed'
  BY <1>1 DEF Promises, Holds, HoldDurable, HoldListed,
     Homes, Owned, OneHome, InMemory, Popped, Promoted, Detached
<1>5. Lawful
  BY <1>1 DEF Promises, Lawful, Holds,
     Homes, Owned, OneHome, InMemory, Popped, Promoted, Detached
<1>6. QED
  BY <1>2, <1>3, <1>4, <1>5 DEF Promises

(* delete_queued_turn *)
LEMMA UnqueueTurnKeeps ==
    ASSUME Homes, Promises, NEW r \in Rows, UnqueueTurn(r)
    PROVE  Promises' /\ Lawful
<1> USE HomesFacts
<1>1. /\ r \in ToSet(queue)
      /\ ToSet(queue') = ToSet(queue) \ {r} /\ ToSet(log'.order) = ToSet(log.order) \ {r}
      /\ log'.paused = log.paused \ {r} /\ log'.fenced = log.fenced \ {r} /\ held' = held \ {r}
      /\ UNCHANGED <<up, runNow, paused, fenced, promo, force>>
      /\ UNCHANGED <<fresh, launches, burnt>>
  <2>1. ToSet(queue') = ToSet(queue) \ {r}
    BY WithoutFacts DEF UnqueueTurn, QueueIs
  <2>2. /\ ToSet(log'.order) = ToSet(log.order) \ {r}
        /\ log'.paused = log.paused \ {r} /\ log'.fenced = log.fenced \ {r}
    BY LogRemovedFacts DEF UnqueueTurn
  <2>3. QED
    BY <2>1, <2>2 DEF UnqueueTurn
<1>2. SentOnce' /\ Delivered'
  BY <1>1 DEF Promises, SentOnce, AtMostOnce, ReplayFenced, Delivered,
     Homes, Owned, OneHome, InMemory, Popped, Promoted, Detached
<1>3. JournalExact'
  BY <1>1 DEF Promises, JournalExact, JournalCoversMemory, NoDiskOnlyRow, Delivered,
     Homes, Owned, OneHome, InMemory, Popped, Promoted, Detached
<1>4. Holds' /\ HoldDurable' /\ HoldListed'
  BY <1>1 DEF Promises, Holds, HoldDurable, HoldListed,
     Homes, Owned, OneHome, InMemory, Popped, Promoted, Detached
<1>5. Lawful
  BY <1>1 DEF Promises, Lawful, Holds,
     Homes, Owned, OneHome, InMemory, Popped, Promoted, Detached
<1>6. QED
  BY <1>2, <1>3, <1>4, <1>5 DEF Promises

(* move_queued_turn *)
LEMMA MoveQueuedTurnKeeps ==
    ASSUME Homes, Promises, MoveQueuedTurn
    PROVE  Promises' /\ Lawful
<1> USE HomesFacts
<1>1. /\ ToSet(queue') = ToSet(queue) /\ ToSet(log'.order) = ToSet(log.order)
      /\ log'.paused = log.paused /\ log'.fenced = log.fenced
      /\ UNCHANGED <<up, runNow, paused, fenced, promo, force>>
      /\ UNCHANGED <<fresh, launches, burnt, held>>
  <2>1. ToSet(queue') = ToSet(queue)
    BY SwapFacts DEF MoveQueuedTurn, QueueIs
  <2>2. PICK t \in Reorderings(log.order, queue') : log' = [log EXCEPT !.order = t]
    BY DEF MoveQueuedTurn
  <2>3. ToSet(t) = ToSet(log.order)
    BY <2>2, ReorderingsFacts DEF LogOK, Logs
  <2>4. log'.order = t /\ log'.paused = log.paused /\ log'.fenced = log.fenced
    BY <2>2 DEF LogOK, Logs
  <2>5. QED
    BY <2>1, <2>3, <2>4 DEF MoveQueuedTurn, ghost
<1>2. SentOnce' /\ Delivered'
  BY <1>1 DEF Promises, SentOnce, AtMostOnce, ReplayFenced, Delivered,
     Homes, Owned, OneHome, InMemory, Popped, Promoted, Detached
<1>3. JournalExact'
  BY <1>1 DEF Promises, JournalExact, JournalCoversMemory, NoDiskOnlyRow, Delivered,
     Homes, Owned, OneHome, InMemory, Popped, Promoted, Detached
<1>4. Holds' /\ HoldDurable' /\ HoldListed'
  BY <1>1 DEF Promises, Holds, HoldDurable, HoldListed,
     Homes, Owned, OneHome, InMemory, Popped, Promoted, Detached
<1>5. Lawful
  BY <1>1 DEF Promises, Lawful, Holds,
     Homes, Owned, OneHome, InMemory, Popped, Promoted, Detached
<1>6. QED
  BY <1>2, <1>3, <1>4, <1>5 DEF Promises

(* _start_next_queued_turn_locked: the Stop wins over the promotion *)
LEMMA ReturnPausedPromotionKeeps ==
    ASSUME Homes, Promises, ReturnPausedPromotion
    PROVE  Promises' /\ Lawful
<1> USE HomesFacts
<1>1. /\ runNow \in Rows /\ runNow' = NoRow /\ runNow \in paused
      /\ ToSet(queue') = ToSet(queue) \cup {runNow} /\ log' = log
      /\ UNCHANGED <<up, paused, fenced, promo, force>>
      /\ UNCHANGED <<fresh, launches, burnt, held>>
      /\ promo.pc = "idle" /\ promo.row = NoRow /\ force.row # runNow
  <2>1. runNow \in Rows /\ runNow \notin ToSet(queue)
    BY DEF ReturnPausedPromotion, Homes, OneHome, Promoted
  <2>2. ToSet(queue') = ToSet(queue) \cup {runNow}
    BY <2>1, ConsFacts DEF ReturnPausedPromotion, QueueIs
  <2>3. promo.pc = "idle" /\ promo.row = NoRow /\ force.row # runNow
    BY <2>1 DEF ReturnPausedPromotion, Begin, LifecycleFree, Homes, Owned, OneHome, Promoted,
       Detached
  <2>4. QED
    BY <2>1, <2>2, <2>3 DEF ReturnPausedPromotion, ghost
<1>2. SentOnce' /\ Delivered'
  BY <1>1 DEF Promises, SentOnce, AtMostOnce, ReplayFenced, Delivered,
     Homes, Owned, OneHome, InMemory, Popped, Promoted, Detached
<1>3. JournalExact'
  BY <1>1 DEF Promises, JournalExact, JournalCoversMemory, NoDiskOnlyRow, Delivered,
     Homes, Owned, OneHome, InMemory, Popped, Promoted, Detached
<1>4. Holds' /\ HoldDurable' /\ HoldListed'
  BY <1>1 DEF Promises, Holds, HoldDurable, HoldListed,
     Homes, Owned, OneHome, InMemory, Popped, Promoted, Detached
<1>5. Lawful
  BY <1>1 DEF Promises, Lawful, Holds,
     Homes, Owned, OneHome, InMemory, Popped, Promoted, Detached
<1>6. QED
  BY <1>2, <1>3, <1>4, <1>5 DEF Promises

(* _start_next_queued_turn_locked: the pop *)
LEMMA PopNextKeeps ==
    ASSUME Homes, Promises, PopNext
    PROVE  Promises' /\ Lawful
<1> USE HomesFacts
<1>1. /\ up /\ promo'.row \in ToSet(queue) \cup Promoted /\ promo'.row \notin paused
      /\ promo'.pc = "popped"
      /\ ToSet(queue') \cup Promoted' = (ToSet(queue) \cup Promoted) \ {promo'.row}
      /\ ToSet(queue') \subseteq ToSet(queue) /\ Promoted' \subseteq Promoted /\ log' = log
      /\ promo.pc = "idle" /\ promo.row = NoRow /\ force.row # promo'.row
      /\ UNCHANGED <<up, paused, fenced, force>>
      /\ UNCHANGED <<fresh, launches, burnt, held>>
  <2>1. /\ promo.pc = "idle" /\ promo.row = NoRow /\ up
        /\ force.pc \notin {"selected", "stopping"}
    BY DEF PopNext, Begin, LifecycleFree, Homes, Owned
  <2>2. promo' = [pc |-> "popped", row |-> Candidate] /\ Candidate \notin paused
    BY DEF PopNext, Startable
  <2>3. CASE runNow # NoRow
    <3>1. Candidate = runNow /\ runNow' = NoRow /\ queue' = queue /\ runNow \notin ToSet(queue)
      BY <2>3 DEF PopNext, Candidate, Homes, OneHome, Promoted
    <3>2. force.row # runNow
      BY <2>1, <2>3 DEF Homes, OneHome, Promoted, Detached
    <3>3. QED
      BY <2>1, <2>2, <2>3, <3>1, <3>2 DEF PopNext, Promoted, ghost
  <2>4. CASE runNow = NoRow
    <3>1. queue # <<>> /\ Candidate = Head(queue) /\ queue' = Tail(queue) /\ runNow' = NoRow
      BY <2>4 DEF PopNext, Candidate
    <3>2. Head(queue) \in ToSet(queue) /\ ToSet(queue') = ToSet(queue) \ {Head(queue)}
      BY <3>1, TailFacts DEF QueueIs
    <3>3. force.row # Head(queue)
      BY <3>2 DEF Homes, OneHome, Detached
    <3>4. QED
      BY <2>1, <2>2, <2>4, <3>1, <3>2, <3>3 DEF PopNext, Promoted, ghost
  <2>5. QED
    BY <2>3, <2>4
<1>2. SentOnce' /\ Delivered'
  BY <1>1 DEF Promises, SentOnce, AtMostOnce, ReplayFenced, Delivered,
     Homes, Owned, OneHome, InMemory, Popped, Promoted, Detached
<1>3. JournalExact'
  BY <1>1 DEF Promises, JournalExact, JournalCoversMemory, NoDiskOnlyRow, Delivered,
     Homes, Owned, OneHome, InMemory, Popped, Promoted, Detached
<1>4. Holds' /\ HoldDurable' /\ HoldListed'
  BY <1>1 DEF Promises, Holds, HoldDurable, HoldListed,
     Homes, Owned, OneHome, InMemory, Popped, Promoted, Detached
<1>5. Lawful
  BY <1>1 DEF Promises, Lawful, Holds,
     Homes, Owned, OneHome, InMemory, Popped, Promoted, Detached
<1>6. QED
  BY <1>2, <1>3, <1>4, <1>5 DEF Promises

(* persist_turn_acceptance: turn_started consumes the row *)
LEMMA PersistTurnAcceptanceKeeps ==
    ASSUME Homes, Promises, PersistTurnAcceptance
    PROVE  Promises' /\ Lawful
<1> USE HomesFacts
<1>1. /\ promo.row \in Rows /\ promo'.row = promo.row /\ promo'.pc = "started"
      /\ ToSet(log'.order) = ToSet(log.order) \ {promo.row} /\ queue' = queue
      /\ log'.paused = log.paused \ {promo.row} /\ log'.fenced = log.fenced \ {promo.row}
      /\ promo.row \notin held /\ promo.row # force.row
      /\ UNCHANGED <<up, runNow, paused, fenced, force>>
      /\ UNCHANGED <<fresh, launches, burnt, held>>
  <2>1. promo \in Promos /\ promo' = [promo EXCEPT !.pc = "started"] /\ promo.pc = "reserved"
    BY DEF Homes, TypeOK, PersistTurnAcceptance
  <2>2. promo'.row = promo.row /\ promo'.pc = "started"
    BY <2>1 DEF Promos
  <2>3. promo.row \in Rows
    BY <2>1 DEF Homes, Owned
  <2>4. promo.row \notin held /\ promo.row # force.row
    BY <2>3 DEF Promises, Holds, Homes, OneHome, Popped, Detached
  <2>5. /\ ToSet(log'.order) = ToSet(log.order) \ {promo.row}
        /\ log'.paused = log.paused \ {promo.row} /\ log'.fenced = log.fenced \ {promo.row}
    BY LogRemovedFacts DEF PersistTurnAcceptance
  <2>6. QED
    BY <2>2, <2>3, <2>4, <2>5 DEF PersistTurnAcceptance, mem, ghost
<1>2. SentOnce' /\ Delivered'
  BY <1>1 DEF Promises, SentOnce, AtMostOnce, ReplayFenced, Delivered,
     Homes, Owned, OneHome, InMemory, Popped, Promoted, Detached
<1>3. JournalExact'
  BY <1>1 DEF Promises, JournalExact, JournalCoversMemory, NoDiskOnlyRow, Delivered,
     Homes, Owned, OneHome, InMemory, Popped, Promoted, Detached
<1>4. Holds' /\ HoldDurable' /\ HoldListed'
  BY <1>1 DEF Promises, Holds, HoldDurable, HoldListed,
     Homes, Owned, OneHome, InMemory, Popped, Promoted, Detached
<1>5. Lawful
  BY <1>1 DEF Promises, Lawful, Holds,
     Homes, Owned, OneHome, InMemory, Popped, Promoted, Detached
<1>6. QED
  BY <1>2, <1>3, <1>4, <1>5 DEF Promises

(* _start_turn_locked: the message is handed to a provider task *)
LEMMA LaunchKeeps ==
    ASSUME Homes, Promises, Launch
    PROVE  Promises' /\ Lawful
<1> USE HomesFacts
<1>1. /\ promo.row \in Rows /\ promo.pc = "started" /\ promo'.row = NoRow /\ promo'.pc = "idle"
      /\ launches' = [launches EXCEPT ![promo.row] = launches[promo.row] + 1]
      /\ launches[promo.row] = 0
      /\ promo.row \notin held /\ promo.row # force.row /\ promo.row \notin ToSet(log.order)
      /\ queue' = queue /\ log' = log
      /\ UNCHANGED <<up, runNow, paused, fenced, force>>
      /\ UNCHANGED <<fresh, burnt, held>>
  <2>1. promo.row \in Rows /\ promo.pc = "started"
    BY DEF Launch, Homes, Owned
  <2>2. /\ promo.row \notin held /\ promo.row # force.row
        /\ launches[promo.row] = 0 /\ promo.row \notin ToSet(log.order)
    BY <2>1 DEF Promises, Holds, Delivered, Homes, OneHome, Popped, Detached
  <2>3. QED
    BY <2>1, <2>2 DEF Launch, mem, NoPromo
<1>2. SentOnce' /\ Delivered'
  BY <1>1 DEF Promises, SentOnce, AtMostOnce, ReplayFenced, Delivered,
     Homes, Owned, OneHome, InMemory, Popped, Promoted, Detached
<1>3. JournalExact'
  BY <1>1 DEF Promises, JournalExact, JournalCoversMemory, NoDiskOnlyRow, Delivered,
     Homes, Owned, OneHome, InMemory, Popped, Promoted, Detached
<1>4. Holds' /\ HoldDurable' /\ HoldListed'
  BY <1>1 DEF Promises, Holds, HoldDurable, HoldListed,
     Homes, Owned, OneHome, InMemory, Popped, Promoted, Detached
<1>5. Lawful
  BY <1>1 DEF Promises, Lawful, Holds,
     Homes, Owned, OneHome, InMemory, Popped, Promoted, Detached
<1>6. QED
  BY <1>2, <1>3, <1>4, <1>5 DEF Promises

(* requeue_turn_front with a retry armed *)
LEMMA DeferPromotionKeeps ==
    ASSUME Homes, Promises, DeferPromotion
    PROVE  Promises' /\ Lawful
<1> USE HomesFacts
<1>1. /\ promo.row \in Rows /\ promo'.row = NoRow /\ promo'.pc = "idle"
      /\ ToSet(queue') = ToSet(queue) \cup {promo.row} /\ log' = log
      /\ burnt' = (IF promo.pc = "started" THEN burnt \cup {promo.row} ELSE burnt)
      /\ promo.row \notin held /\ launches[promo.row] = 0 /\ promo.row # force.row
      /\ UNCHANGED <<up, runNow, paused, fenced, force>>
      /\ UNCHANGED <<fresh, launches, held>>
  <2>1. promo.row \in Rows /\ promo.row \notin ToSet(queue)
    BY DEF DeferPromotion, Homes, Owned, OneHome, Popped
  <2>2. ToSet(<<promo.row>> \o queue) = ToSet(queue) \cup {promo.row}
    BY <2>1, ConsFacts DEF QueueIs
  <2>3. promo.row \notin held /\ launches[promo.row] = 0 /\ promo.row # force.row
    BY <2>1 DEF Promises, Holds, Delivered, Homes, OneHome, Popped, Detached
  <2>4. QED
    BY <2>1, <2>2, <2>3 DEF DeferPromotion, AbandonAttempt, RequeueTurnFront, NoPromo
<1>2. SentOnce' /\ Delivered'
  BY <1>1 DEF Promises, SentOnce, AtMostOnce, ReplayFenced, Delivered,
     Homes, Owned, OneHome, InMemory, Popped, Promoted, Detached
<1>3. JournalExact'
  BY <1>1 DEF Promises, JournalExact, JournalCoversMemory, NoDiskOnlyRow, Delivered,
     Homes, Owned, OneHome, InMemory, Popped, Promoted, Detached
<1>4. Holds' /\ HoldDurable' /\ HoldListed'
  BY <1>1 DEF Promises, Holds, HoldDurable, HoldListed,
     Homes, Owned, OneHome, InMemory, Popped, Promoted, Detached
<1>5. Lawful
  BY <1>1 DEF Promises, Lawful, Holds,
     Homes, Owned, OneHome, InMemory, Popped, Promoted, Detached
<1>6. QED
  BY <1>2, <1>3, <1>4, <1>5 DEF Promises

(* requeue_turn_front of a cancelled task *)
LEMMA CancelPromotionKeeps ==
    ASSUME Homes, Promises, CancelPromotion
    PROVE  Promises' /\ Lawful
<1> USE HomesFacts
<1>1. /\ promo.row \in Rows /\ promo'.row = NoRow /\ promo'.pc = "idle"
      /\ ToSet(queue') = ToSet(queue) \cup {promo.row} /\ log' = log
      /\ burnt' = (IF promo.pc = "started" THEN burnt \cup {promo.row} ELSE burnt)
      /\ promo.row \notin held /\ launches[promo.row] = 0 /\ promo.row # force.row
      /\ UNCHANGED <<up, runNow, paused, fenced, force>>
      /\ UNCHANGED <<fresh, launches, held>>
  <2>1. promo.row \in Rows /\ promo.row \notin ToSet(queue)
    BY DEF CancelPromotion, Homes, Owned, OneHome, Popped
  <2>2. ToSet(<<promo.row>> \o queue) = ToSet(queue) \cup {promo.row}
    BY <2>1, ConsFacts DEF QueueIs
  <2>3. promo.row \notin held /\ launches[promo.row] = 0 /\ promo.row # force.row
    BY <2>1 DEF Promises, Holds, Delivered, Homes, OneHome, Popped, Detached
  <2>4. QED
    BY <2>1, <2>2, <2>3 DEF CancelPromotion, AbandonAttempt, RequeueTurnFront, NoPromo
<1>2. SentOnce' /\ Delivered'
  BY <1>1 DEF Promises, SentOnce, AtMostOnce, ReplayFenced, Delivered,
     Homes, Owned, OneHome, InMemory, Popped, Promoted, Detached
<1>3. JournalExact'
  BY <1>1 DEF Promises, JournalExact, JournalCoversMemory, NoDiskOnlyRow, Delivered,
     Homes, Owned, OneHome, InMemory, Popped, Promoted, Detached
<1>4. Holds' /\ HoldDurable' /\ HoldListed'
  BY <1>1 DEF Promises, Holds, HoldDurable, HoldListed,
     Homes, Owned, OneHome, InMemory, Popped, Promoted, Detached
<1>5. Lawful
  BY <1>1 DEF Promises, Lawful, Holds,
     Homes, Owned, OneHome, InMemory, Popped, Promoted, Detached
<1>6. QED
  BY <1>2, <1>3, <1>4, <1>5 DEF Promises

(* terminally_discard_queued_turn *)
LEMMA DiscardPromotionKeeps ==
    ASSUME Homes, Promises, DiscardPromotion
    PROVE  Promises' /\ Lawful
<1> USE HomesFacts
<1>1. /\ promo.row \in Rows /\ promo'.row = NoRow /\ promo'.pc = "idle"
      /\ \/ /\ ToSet(queue') = ToSet(queue) /\ ToSet(log'.order) = ToSet(log.order) \ {promo.row} /\ burnt' = burnt
            /\ log'.paused = log.paused \ {promo.row} /\ log'.fenced = log.fenced \ {promo.row}
         \/ /\ ToSet(queue') = ToSet(queue) \cup {promo.row} /\ log' = log
            /\ burnt' = (IF promo.pc = "started" THEN burnt \cup {promo.row} ELSE burnt)
      /\ promo.row \notin held /\ launches[promo.row] = 0 /\ promo.row # force.row
      /\ UNCHANGED <<up, runNow, paused, fenced, force>>
      /\ UNCHANGED <<fresh, launches, held>>
  <2>1. promo.row \in Rows /\ promo.row \notin ToSet(queue)
    BY DEF DiscardPromotion, Homes, Owned, OneHome, Popped
  <2>2. ToSet(<<promo.row>> \o queue) = ToSet(queue) \cup {promo.row}
    BY <2>1, ConsFacts DEF QueueIs
  <2>3. promo.row \notin held /\ launches[promo.row] = 0 /\ promo.row # force.row
    BY <2>1 DEF Promises, Holds, Delivered, Homes, OneHome, Popped, Detached
  <2>4. /\ ToSet(LogRemoved(log, promo.row).order) = ToSet(log.order) \ {promo.row}
        /\ LogRemoved(log, promo.row).paused = log.paused \ {promo.row}
        /\ LogRemoved(log, promo.row).fenced = log.fenced \ {promo.row}
    BY LogRemovedFacts
  <2>5. QED
    BY <2>1, <2>2, <2>3, <2>4 DEF DiscardPromotion, AbandonAttempt, RequeueTurnFront, NoPromo
<1>2. SentOnce' /\ Delivered'
  BY <1>1 DEF Promises, SentOnce, AtMostOnce, ReplayFenced, Delivered,
     Homes, Owned, OneHome, InMemory, Popped, Promoted, Detached
<1>3. JournalExact'
  BY <1>1 DEF Promises, JournalExact, JournalCoversMemory, NoDiskOnlyRow, Delivered,
     Homes, Owned, OneHome, InMemory, Popped, Promoted, Detached
<1>4. Holds' /\ HoldDurable' /\ HoldListed'
  BY <1>1 DEF Promises, Holds, HoldDurable, HoldListed,
     Homes, Owned, OneHome, InMemory, Popped, Promoted, Detached
<1>5. Lawful
  BY <1>1 DEF Promises, Lawful, Holds,
     Homes, Owned, OneHome, InMemory, Popped, Promoted, Detached
<1>6. QED
  BY <1>2, <1>3, <1>4, <1>5 DEF Promises

(* pause_queued_turns_after_explicit_stop *)
LEMMA StopPauseKeeps ==
    ASSUME Homes, Promises, StopPause
    PROVE  Promises' /\ Lawful
<1> USE HomesFacts
<1>1. /\ queue' = queue /\ ToSet(log'.order) = ToSet(log.order) /\ log'.fenced = log.fenced
      /\ \E S : /\ S = (ToSet(queue) \cup Promoted) \ Deliveries /\ paused' = paused \cup S
               /\ \/ log'.paused = log.paused \cup (S \cap ToSet(log.order)) /\ held' = held \cup (S \cap ToSet(log.order))
                  \/ log'.paused = log.paused /\ held' = held
      /\ Promoted \cap Detached = {}
      /\ UNCHANGED <<up, runNow, fenced, promo, force>>
      /\ UNCHANGED <<fresh, launches, burnt>>
  <2> DEFINE S == (ToSet(queue) \cup Promoted) \ Deliveries
  <2>1. /\ LogPaused(log, S).order = log.order /\ LogPaused(log, S).fenced = log.fenced
        /\ LogPaused(log, S).paused = log.paused \cup (S \cap ToSet(log.order))
    BY LogPausedFacts
  <2>2. Promoted \cap Detached = {}
    BY DEF StopPause, Homes, Owned, OneHome
  <2>3. /\ paused' = paused \cup S
        /\ \/ log' = LogPaused(log, S) /\ held' = held \cup (S \cap ToSet(log.order))
           \/ log' = log /\ held' = held
    BY DEF StopPause
  <2>4. QED
    BY <2>1, <2>2, <2>3 DEF StopPause
<1>2. SentOnce' /\ Delivered'
  BY <1>1 DEF Promises, SentOnce, AtMostOnce, ReplayFenced, Delivered,
     Homes, Owned, OneHome, InMemory, Popped, Promoted, Detached
<1>3. JournalExact'
  BY <1>1 DEF Promises, JournalExact, JournalCoversMemory, NoDiskOnlyRow, Delivered,
     Homes, Owned, OneHome, InMemory, Popped, Promoted, Detached
<1>4. Holds' /\ HoldDurable' /\ HoldListed'
  BY <1>1 DEF Promises, Holds, HoldDurable, HoldListed,
     Homes, Owned, OneHome, InMemory, Popped, Promoted, Detached
<1>5. Lawful
  BY <1>1 DEF Promises, Lawful, Holds,
     Homes, Owned, OneHome, InMemory, Popped, Promoted, Detached
<1>6. QED
  BY <1>2, <1>3, <1>4, <1>5 DEF Promises

(* _run_queued_turn_now_once, native steering: the row is detached *)
LEMMA SelectNativeKeeps ==
    ASSUME Homes, Promises, NEW r \in Rows, SelectNative(r)
    PROVE  Promises' /\ Lawful
<1> USE HomesFacts
<1>1. /\ r \in ToSet(queue) /\ r \notin fenced /\ launches[r] = 0 /\ runNow = NoRow
      /\ force.row = NoRow /\ r # promo.row
      /\ ToSet(queue') = ToSet(queue) \ {r} /\ log' = log
      /\ paused' = paused \ {r} /\ held' = held \ {r}
      /\ force'.row = r /\ force'.pc = "handoff" /\ runNow' = NoRow
      /\ UNCHANGED <<up, fenced, promo>>
      /\ UNCHANGED <<fresh, launches, burnt>>
  <2>1. /\ r \in ToSet(queue) /\ r \notin fenced /\ runNow = NoRow /\ force.row = NoRow
        /\ queue' = Without(queue, r) /\ paused' = paused \ {r} /\ held' = held \ {r}
        /\ force'.row = r /\ force'.pc = "handoff"
    BY DEF SelectNative, Detach, Homes, Owned
  <2>2. ToSet(queue') = ToSet(queue) \ {r}
    BY <2>1, WithoutFacts DEF QueueIs
  <2>3. launches[r] = 0
    <3>1. launches[r] \in Nat /\ ~(launches[r] > 0)
      BY <2>1 DEF Promises, Delivered
    <3>2. QED
      BY <3>1
  <2>4. r # promo.row
    BY <2>1 DEF Homes, OneHome, Popped
  <2>5. QED
    BY <2>1, <2>2, <2>3, <2>4 DEF SelectNative
<1>2. SentOnce' /\ Delivered'
  BY <1>1 DEF Promises, SentOnce, AtMostOnce, ReplayFenced, Delivered,
     Homes, Owned, OneHome, InMemory, Popped, Promoted, Detached
<1>3. JournalExact'
  BY <1>1 DEF Promises, JournalExact, JournalCoversMemory, NoDiskOnlyRow, Delivered,
     Homes, Owned, OneHome, InMemory, Popped, Promoted, Detached
<1>4. Holds' /\ HoldDurable' /\ HoldListed'
  BY <1>1 DEF Promises, Holds, HoldDurable, HoldListed,
     Homes, Owned, OneHome, InMemory, Popped, Promoted, Detached
<1>5. Lawful
  BY <1>1 DEF Promises, Lawful, Holds,
     Homes, Owned, OneHome, InMemory, Popped, Promoted, Detached
<1>6. QED
  BY <1>2, <1>3, <1>4, <1>5 DEF Promises

(* _run_queued_turn_now_once, non-native: the row is promoted *)
LEMMA SelectForStopKeeps ==
    ASSUME Homes, Promises, NEW r \in Rows, SelectForStop(r)
    PROVE  Promises' /\ Lawful
<1> USE HomesFacts
<1>1. /\ r \in ToSet(queue) /\ r \notin fenced /\ launches[r] = 0 /\ runNow = NoRow
      /\ force.row = NoRow /\ r # promo.row
      /\ ToSet(queue') = ToSet(queue) \ {r} /\ log' = log
      /\ paused' = paused \ {r} /\ held' = held \ {r}
      /\ force'.row = r /\ force'.pc = "selected" /\ runNow' = r
      /\ UNCHANGED <<up, fenced, promo>>
      /\ UNCHANGED <<fresh, launches, burnt>>
  <2>1. /\ r \in ToSet(queue) /\ r \notin fenced /\ runNow = NoRow /\ force.row = NoRow
        /\ queue' = Without(queue, r) /\ paused' = paused \ {r} /\ held' = held \ {r}
        /\ force'.row = r /\ force'.pc = "selected"
    BY DEF SelectForStop, Detach, Homes, Owned
  <2>2. ToSet(queue') = ToSet(queue) \ {r}
    BY <2>1, WithoutFacts DEF QueueIs
  <2>3. launches[r] = 0
    <3>1. launches[r] \in Nat /\ ~(launches[r] > 0)
      BY <2>1 DEF Promises, Delivered
    <3>2. QED
      BY <3>1
  <2>4. r # promo.row
    BY <2>1 DEF Homes, OneHome, Popped
  <2>5. QED
    BY <2>1, <2>2, <2>3, <2>4 DEF SelectForStop
<1>2. SentOnce' /\ Delivered'
  BY <1>1 DEF Promises, SentOnce, AtMostOnce, ReplayFenced, Delivered,
     Homes, Owned, OneHome, InMemory, Popped, Promoted, Detached
<1>3. JournalExact'
  BY <1>1 DEF Promises, JournalExact, JournalCoversMemory, NoDiskOnlyRow, Delivered,
     Homes, Owned, OneHome, InMemory, Popped, Promoted, Detached
<1>4. Holds' /\ HoldDurable' /\ HoldListed'
  BY <1>1 DEF Promises, Holds, HoldDurable, HoldListed,
     Homes, Owned, OneHome, InMemory, Popped, Promoted, Detached
<1>5. Lawful
  BY <1>1 DEF Promises, Lawful, Holds,
     Homes, Owned, OneHome, InMemory, Popped, Promoted, Detached
<1>6. QED
  BY <1>2, <1>3, <1>4, <1>5 DEF Promises

(* fence_native_steer_delivery *)
LEMMA FenceNativeSteerDeliveryKeeps ==
    ASSUME Homes, Promises, FenceNativeSteerDelivery
    PROVE  Promises' /\ Lawful
<1> USE HomesFacts
<1>1. /\ force.row \in Users /\ force.row \in Rows /\ force'.row = force.row
      /\ force.pc = "accepted" /\ force'.pc = "fenced"
      /\ ToSet(log'.order) = ToSet(log.order) \cup {force.row} /\ queue' = queue
      /\ log'.paused = log.paused \cup {force.row} /\ log'.fenced = log.fenced \cup {force.row}
      /\ paused' = paused \cup {force.row} /\ fenced' = fenced \cup {force.row}
      /\ force.row # promo.row /\ force.row \notin Deliveries
      /\ UNCHANGED <<up, runNow, promo>>
      /\ UNCHANGED <<fresh, launches, burnt, held>>
  <2>1. force \in Forces /\ force.pc = "accepted" /\ force' = [force EXCEPT !.pc = "fenced"]
    BY DEF FenceNativeSteerDelivery, Homes, TypeOK
  <2>2. force'.row = force.row /\ force'.pc = "fenced"
    BY <2>1 DEF Forces
  <2>3. force.row \in Users /\ force.row \in Rows /\ force.row \notin Deliveries
    BY <2>1, RowsAssumption DEF Homes, Owned, Native
  <2>4. force.row # promo.row
    BY <2>3 DEF Homes, OneHome, Popped, Detached
  <2>5. /\ ToSet(FenceLog(log).order) = ToSet(log.order) \cup {force.row}
        /\ FenceLog(log).paused = log.paused \cup {force.row}
        /\ FenceLog(log).fenced = log.fenced \cup {force.row}
    BY <2>3, FenceLogFacts
  <2>6. QED
    BY <2>1, <2>2, <2>3, <2>4, <2>5 DEF FenceNativeSteerDelivery, ghost
<1>2. SentOnce' /\ Delivered'
  BY <1>1 DEF Promises, SentOnce, AtMostOnce, ReplayFenced, Delivered,
     Homes, Owned, OneHome, InMemory, Popped, Promoted, Detached
<1>3. JournalExact'
  BY <1>1 DEF Promises, JournalExact, JournalCoversMemory, NoDiskOnlyRow, Delivered,
     Homes, Owned, OneHome, InMemory, Popped, Promoted, Detached
<1>4. Holds' /\ HoldDurable' /\ HoldListed'
  BY <1>1 DEF Promises, Holds, HoldDurable, HoldListed,
     Homes, Owned, OneHome, InMemory, Popped, Promoted, Detached
<1>5. Lawful
  BY <1>1 DEF Promises, Lawful, Holds,
     Homes, Owned, OneHome, InMemory, Popped, Promoted, Detached
<1>6. QED
  BY <1>2, <1>3, <1>4, <1>5 DEF Promises

(* the provider is given the fenced message *)
LEMMA DeliverSteerKeeps ==
    ASSUME Homes, Promises, DeliverSteer
    PROVE  Promises' /\ Lawful
<1> USE HomesFacts
<1>1. /\ force.row \in Rows /\ force'.row = force.row /\ force.pc = "fenced"
      /\ force'.pc = "delivered"
      /\ launches' = [launches EXCEPT ![force.row] = launches[force.row] + 1]
      /\ launches[force.row] = 0
      /\ force.row \notin held /\ force.row # promo.row /\ runNow = NoRow
      /\ force.row \in log.fenced \cap log.paused /\ queue' = queue /\ log' = log
      /\ UNCHANGED <<up, runNow, paused, fenced, promo>>
      /\ UNCHANGED <<fresh, burnt, held>>
  <2>1. force \in Forces /\ force.pc = "fenced" /\ force' = [force EXCEPT !.pc = "delivered"]
    BY DEF DeliverSteer, Homes, TypeOK
  <2>2. force'.row = force.row /\ force'.pc = "delivered"
    BY <2>1 DEF Forces
  <2>3. force.row \in Rows /\ runNow = NoRow
    BY <2>1 DEF Homes, Owned, Native
  <2>4. /\ launches[force.row] = 0 /\ force.row \in log.fenced \cap log.paused
        /\ force.row \notin held
    BY <2>1, <2>3 DEF Promises, Delivered, Holds, Detached
  <2>5. force.row # promo.row
    BY <2>3 DEF Homes, OneHome, Popped, Detached
  <2>6. QED
    BY <2>1, <2>2, <2>3, <2>4, <2>5 DEF DeliverSteer, mem
<1>2. SentOnce' /\ Delivered'
  BY <1>1 DEF Promises, SentOnce, AtMostOnce, ReplayFenced, Delivered,
     Homes, Owned, OneHome, InMemory, Popped, Promoted, Detached
<1>3. JournalExact'
  BY <1>1 DEF Promises, JournalExact, JournalCoversMemory, NoDiskOnlyRow, Delivered,
     Homes, Owned, OneHome, InMemory, Popped, Promoted, Detached
<1>4. Holds' /\ HoldDurable' /\ HoldListed'
  BY <1>1 DEF Promises, Holds, HoldDurable, HoldListed,
     Homes, Owned, OneHome, InMemory, Popped, Promoted, Detached
<1>5. Lawful
  BY <1>1 DEF Promises, Lawful, Holds,
     Homes, Owned, OneHome, InMemory, Popped, Promoted, Detached
<1>6. QED
  BY <1>2, <1>3, <1>4, <1>5 DEF Promises

(* turn_queue_run_now and turn_started consume the steered row *)
LEMMA CommitSteerKeeps ==
    ASSUME Homes, Promises, CommitSteer
    PROVE  Promises' /\ Lawful
<1> USE HomesFacts
<1>1. /\ force.row \in Rows /\ force'.row = NoRow /\ force'.pc = "idle" /\ queue' = queue
      /\ ToSet(log'.order) = ToSet(log.order) \ {force.row}
      /\ log.paused \ {force.row} = log'.paused /\ log.fenced \ {force.row} = log'.fenced
      /\ force.row \notin held /\ force.row # promo.row /\ runNow = NoRow
      /\ UNCHANGED <<up, runNow, paused, fenced, promo>>
      /\ UNCHANGED <<fresh, launches, burnt, held>>
  <2>1. force.pc = "delivered" /\ force' = NoForce
    BY DEF CommitSteer, ReleaseNativeFence
  <2>2. force.row \in Rows /\ runNow = NoRow
    BY <2>1 DEF Homes, Owned, Native
  <2>3. force.row # promo.row /\ force.row \notin held
    BY <2>2 DEF Promises, Holds, Homes, OneHome, Popped, Detached
  <2> DEFINE m == LogRunNow(log, force.row)
  <2>4. /\ LogOK(m) /\ ToSet(m.order) = ToSet(log.order)
        /\ log.paused \ {force.row} \subseteq m.paused /\ m.paused \subseteq log.paused
        /\ log.fenced \ {force.row} \subseteq m.fenced /\ m.fenced \subseteq log.fenced
    BY <2>2, LogRunNowFacts
  <2>5. log' = LogRemoved(m, force.row)
    BY DEF CommitSteer
  <2> HIDE DEF m
  <2>6. /\ ToSet(log'.order) = ToSet(m.order) \ {force.row}
        /\ log'.paused = m.paused \ {force.row} /\ log'.fenced = m.fenced \ {force.row}
    BY <2>4, <2>5, LogRemovedFacts
  <2>7. QED
    BY <2>1, <2>2, <2>3, <2>4, <2>6 DEF CommitSteer, ghost, NoForce
<1>2. SentOnce' /\ Delivered'
  BY <1>1 DEF Promises, SentOnce, AtMostOnce, ReplayFenced, Delivered,
     Homes, Owned, OneHome, InMemory, Popped, Promoted, Detached
<1>3. JournalExact'
  BY <1>1 DEF Promises, JournalExact, JournalCoversMemory, NoDiskOnlyRow, Delivered,
     Homes, Owned, OneHome, InMemory, Popped, Promoted, Detached
<1>4. Holds' /\ HoldDurable' /\ HoldListed'
  BY <1>1 DEF Promises, Holds, HoldDurable, HoldListed,
     Homes, Owned, OneHome, InMemory, Popped, Promoted, Detached
<1>5. Lawful
  BY <1>1 DEF Promises, Lawful, Holds,
     Homes, Owned, OneHome, InMemory, Popped, Promoted, Detached
<1>6. QED
  BY <1>2, <1>3, <1>4, <1>5 DEF Promises

(* the delivery is uncertain: the fence stays in the journal *)
LEMMA SteerUncertainKeeps ==
    ASSUME Homes, Promises, SteerUncertain
    PROVE  Promises' /\ Lawful
<1> USE HomesFacts
<1>1. /\ force.row \in Rows /\ force'.row = NoRow /\ force'.pc = "idle" /\ queue' = queue
      /\ log' = log
      /\ force.row \in log.fenced /\ runNow = NoRow
      /\ UNCHANGED <<up, runNow, paused, fenced, promo>>
      /\ UNCHANGED <<fresh, launches, burnt, held>>
  <2>1. force.pc \in {"fenced", "delivered"} /\ force' = NoForce
    BY DEF SteerUncertain, ReleaseNativeFence
  <2>2. force.row \in Rows /\ runNow = NoRow
    BY <2>1 DEF Homes, Owned, Native
  <2>3. force.row \in log.fenced
    BY <2>1 DEF Promises, Delivered
  <2>4. QED
    BY <2>1, <2>2, <2>3 DEF SteerUncertain, ghost, NoForce
<1>2. SentOnce' /\ Delivered'
  BY <1>1 DEF Promises, SentOnce, AtMostOnce, ReplayFenced, Delivered,
     Homes, Owned, OneHome, InMemory, Popped, Promoted, Detached
<1>3. JournalExact'
  BY <1>1 DEF Promises, JournalExact, JournalCoversMemory, NoDiskOnlyRow, Delivered,
     Homes, Owned, OneHome, InMemory, Popped, Promoted, Detached
<1>4. Holds' /\ HoldDurable' /\ HoldListed'
  BY <1>1 DEF Promises, Holds, HoldDurable, HoldListed,
     Homes, Owned, OneHome, InMemory, Popped, Promoted, Detached
<1>5. Lawful
  BY <1>1 DEF Promises, Lawful, Holds,
     Homes, Owned, OneHome, InMemory, Popped, Promoted, Detached
<1>6. QED
  BY <1>2, <1>3, <1>4, <1>5 DEF Promises

(* requeue_native_steer_after_safe_rejection *)
LEMMA RequeueRejectedSteerKeeps ==
    ASSUME Homes, Promises, RequeueRejectedSteer
    PROVE  Promises' /\ Lawful
<1> USE HomesFacts
<1>1. /\ force.row \in Rows /\ force'.row = NoRow /\ force'.pc = "idle" /\ runNow = NoRow
      /\ ToSet(queue') = ToSet(queue) \cup {force.row} /\ launches[force.row] = 0
      /\ force.row \notin held /\ force.row # promo.row /\ force.row \notin Deliveries
      /\ \/ /\ ToSet(log'.order) = ToSet(log.order) \cup {force.row}
            /\ log'.paused \cup {force.row} = log.paused \cup {force.row}
            /\ log'.fenced = log.fenced \ {force.row}
            /\ fenced' = fenced \ {force.row}
            /\ paused' \cup {force.row} = paused \cup {force.row}
         \/ log' = log /\ fenced' = fenced /\ paused' = paused \cup {force.row}
      /\ UNCHANGED <<up, runNow, promo>>
      /\ UNCHANGED <<fresh, launches, burnt, held>>
  <2>1. force.pc \in {"handoff", "queued", "accepted", "fenced"} /\ force' = NoForce
    BY DEF RequeueRejectedSteer, ReleaseNativeFence
  <2>2. /\ force.row \in Rows /\ runNow = NoRow /\ force.row \notin Deliveries
        /\ force.row \notin ToSet(queue)
    BY <2>1, RowsAssumption DEF Homes, Owned, Native, OneHome, Detached
  <2>3. launches[force.row] = 0 /\ force.row # promo.row /\ force.row \notin held
    BY <2>1, <2>2 DEF Promises, Delivered, Holds, Homes, OneHome, Popped, Detached
  <2>4. ReturnIndex(queue, force) \in 1..(Len(queue) + 1)
    BY ReturnIndexFacts DEF QueueIs
  <2>5. ToSet(queue') = ToSet(queue) \cup {force.row}
    BY <2>2, <2>4, InsertAtFacts DEF QueueIs, RequeueRejectedSteer
  <2> DEFINE m == LogQueued(log, force.row)
  <2>6. /\ LogOK(m) /\ ToSet(m.order) = ToSet(log.order) \cup {force.row}
        /\ m.paused = log.paused \ {force.row} /\ m.fenced = log.fenced \ {force.row}
    BY <2>2, LogQueuedFacts
  <2>7. CASE \E keep \in BOOLEAN, t \in Reorderings(m.order, queue') :
               /\ log' = IF keep THEN LogPaused([m EXCEPT !.order = t], {force.row})
                         ELSE [m EXCEPT !.order = t]
               /\ paused' = IF keep THEN paused \cup {force.row} ELSE paused \ {force.row}
               /\ fenced' = fenced \ {force.row}
    <3> HIDE DEF m
    <3>1. PICK keep \in BOOLEAN, t \in Reorderings(m.order, queue') :
               /\ log' = IF keep THEN LogPaused([m EXCEPT !.order = t], {force.row})
                         ELSE [m EXCEPT !.order = t]
               /\ paused' = IF keep THEN paused \cup {force.row} ELSE paused \ {force.row}
               /\ fenced' = fenced \ {force.row}
      BY <2>7
    <3> DEFINE k == [m EXCEPT !.order = t]
    <3>2. t \in Seq(Rows) /\ ToSet(t) = ToSet(m.order) /\ Distinct(t)
      BY <2>6, ReorderingsFacts DEF LogOK, Logs
    <3>3. LogOK(k) /\ k.order = t /\ k.paused = m.paused /\ k.fenced = m.fenced
      BY <2>6, <3>2 DEF LogOK, Logs
    <3>4. log' = IF keep THEN LogPaused(k, {force.row}) ELSE k
      BY <3>1
    <3> HIDE DEF k
    <3>5. /\ LogPaused(k, {force.row}).order = k.order
          /\ LogPaused(k, {force.row}).paused = k.paused \cup ({force.row} \cap ToSet(k.order))
          /\ LogPaused(k, {force.row}).fenced = k.fenced
      BY <3>3, LogPausedFacts
    <3>6. /\ log'.order = t /\ log'.fenced = m.fenced
          /\ log'.paused = m.paused \/ log'.paused = m.paused \cup ({force.row} \cap ToSet(t))
      BY <3>3, <3>4, <3>5
    <3>7. log'.paused \cup {force.row} = log.paused \cup {force.row}
      BY <2>6, <3>6
    <3>8. paused' \cup {force.row} = paused \cup {force.row} /\ fenced' = fenced \ {force.row}
      BY <3>1
    <3>9. QED
      BY <2>1, <2>2, <2>3, <2>5, <2>6, <3>2, <3>6, <3>7, <3>8
         DEF RequeueRejectedSteer, ghost, NoForce
  <2>8. CASE log' = log /\ fenced' = fenced /\ paused' = paused \cup {force.row}
    BY <2>1, <2>2, <2>3, <2>5, <2>8 DEF RequeueRejectedSteer, ghost, NoForce
  <2>9. QED
    BY <2>7, <2>8 DEF RequeueRejectedSteer
<1>2. SentOnce' /\ Delivered'
  BY <1>1 DEF Promises, SentOnce, AtMostOnce, ReplayFenced, Delivered,
     Homes, Owned, OneHome, InMemory, Popped, Promoted, Detached
<1>3. JournalExact'
  BY <1>1 DEF Promises, JournalExact, JournalCoversMemory, NoDiskOnlyRow, Delivered,
     Homes, Owned, OneHome, InMemory, Popped, Promoted, Detached
<1>4. Holds' /\ HoldDurable' /\ HoldListed'
  BY <1>1 DEF Promises, Holds, HoldDurable, HoldListed,
     Homes, Owned, OneHome, InMemory, Popped, Promoted, Detached
<1>5. Lawful
  BY <1>1 DEF Promises, Lawful, Holds,
     Homes, Owned, OneHome, InMemory, Popped, Promoted, Detached
<1>6. QED
  BY <1>2, <1>3, <1>4, <1>5 DEF Promises

(* expire_native_steer_owner and restore_missing_durable_force_send_row *)
LEMMA ExpireSteerOwnerKeeps ==
    ASSUME Homes, Promises, ExpireSteerOwner
    PROVE  Promises' /\ Lawful
<1> USE HomesFacts
<1>1. /\ force.row \in Rows /\ force'.row = NoRow /\ force'.pc = "idle" /\ runNow = NoRow
      /\ ToSet(queue') = (IF force.row \in ToSet(log'.order) THEN ToSet(queue) \cup {force.row} ELSE ToSet(queue))
      /\ force.row \notin held /\ force.row # promo.row /\ force.row \notin Deliveries
      /\ ToSet(log'.order) \cup {force.row} = ToSet(log.order) \cup {force.row}
      /\ ToSet(log.order) \subseteq ToSet(log'.order)
      /\ log'.paused \cup {force.row} = log.paused \cup {force.row}
      /\ log.paused \subseteq log'.paused
      /\ log'.fenced \cup {force.row} = log.fenced \cup {force.row}
      /\ log.fenced \subseteq log'.fenced
      /\ launches[force.row] > 0 => force.row \in log.fenced \cap log.paused
      /\ paused' = (paused \ {force.row}) \cup ({force.row} \cap log'.paused)
      /\ fenced' = (fenced \ {force.row}) \cup ({force.row} \cap log'.fenced)
      /\ held' = held \cup ({force.row} \cap (log'.paused \ log'.fenced))
      /\ UNCHANGED <<up, runNow, promo>>
      /\ UNCHANGED <<fresh, launches, burnt>>
  <2>1. force.pc \in {"handoff", "accepted", "fenced", "delivered"} /\ force' = NoForce
    BY DEF ExpireSteerOwner, ReleaseNativeFence
  <2>2. /\ force.row \in Rows /\ runNow = NoRow /\ force.row \notin Deliveries
        /\ force.row \notin ToSet(queue)
    BY <2>1, RowsAssumption DEF Homes, Owned, Native, OneHome, Detached
  <2>3. /\ force.row # promo.row /\ force.row \notin held
        /\ launches[force.row] > 0 => force.row \in log.fenced \cap log.paused
    BY <2>1, <2>2 DEF Promises, Delivered, Holds, Homes, OneHome, Popped, Detached
  <2>4. /\ LogOK(FenceLog(log)) /\ ToSet(FenceLog(log).order) = ToSet(log.order) \cup {force.row}
        /\ FenceLog(log).paused = log.paused \cup {force.row}
        /\ FenceLog(log).fenced = log.fenced \cup {force.row}
    BY <2>2, FenceLogFacts
  <2>5. log' \in {log, FenceLog(log)}
    BY DEF ExpireSteerOwner
  <2>6. /\ queue' = IF force.row \in ToSet(log'.order)
                     THEN InsertAt(queue, RestoreIndex(queue, log'.order, force.row), force.row)
                     ELSE queue
        /\ paused' = (paused \ {force.row}) \cup ({force.row} \cap log'.paused)
        /\ fenced' = (fenced \ {force.row}) \cup ({force.row} \cap log'.fenced)
        /\ held' = held \cup ({force.row} \cap (log'.paused \ log'.fenced))
    BY DEF ExpireSteerOwner
  <2>7. LogOK(log')
    BY <2>4, <2>5
  <2>8. force.row \in ToSet(log'.order) => ToSet(queue') = ToSet(queue) \cup {force.row}
    <3>1. SUFFICES ASSUME force.row \in ToSet(log'.order)
                   PROVE  ToSet(queue') = ToSet(queue) \cup {force.row}
      OBVIOUS
    <3>2. RestoreIndex(queue, log'.order, force.row) \in 1..(Len(queue) + 1)
      BY <2>7, <3>1, RestoreIndexFacts DEF QueueIs, LogOK, Logs
    <3>3. QED
      BY <2>2, <2>6, <3>1, <3>2, InsertAtFacts DEF QueueIs
  <2>9. QED
    BY <2>1, <2>2, <2>3, <2>4, <2>5, <2>6, <2>8 DEF ExpireSteerOwner, NoForce
<1>2. SentOnce' /\ Delivered'
  BY <1>1 DEF Promises, SentOnce, AtMostOnce, ReplayFenced, Delivered,
     Homes, Owned, OneHome, InMemory, Popped, Promoted, Detached
<1>3. JournalExact'
  BY <1>1 DEF Promises, JournalExact, JournalCoversMemory, NoDiskOnlyRow, Delivered,
     Homes, Owned, OneHome, InMemory, Popped, Promoted, Detached
<1>4. Holds' /\ HoldDurable' /\ HoldListed'
  BY <1>1 DEF Promises, Holds, HoldDurable, HoldListed,
     Homes, Owned, OneHome, InMemory, Popped, Promoted, Detached
<1>5. Lawful
  BY <1>1 DEF Promises, Lawful, Holds,
     Homes, Owned, OneHome, InMemory, Popped, Promoted, Detached
<1>6. QED
  BY <1>2, <1>3, <1>4, <1>5 DEF Promises

(* the selected row returns to its index *)
LEMMA DeferForceSendKeeps ==
    ASSUME Homes, Promises, DeferForceSend
    PROVE  Promises' /\ Lawful
<1> USE HomesFacts
<1>1. /\ force.row \in Rows /\ force'.row = NoRow /\ force'.pc = "idle" /\ runNow = force.row
      /\ runNow' = NoRow
      /\ ToSet(queue') = ToSet(queue) \cup {force.row} /\ log' = log
      /\ force.row \notin held /\ launches[force.row] = 0 /\ promo.row = NoRow
      /\ UNCHANGED <<up, paused, fenced, promo>>
      /\ UNCHANGED <<fresh, launches, burnt, held>>
  <2>1. force.pc = "selected" /\ force' = NoForce /\ runNow' = NoRow
    BY DEF DeferForceSend
  <2>2. /\ force.row \in Rows /\ runNow = force.row /\ promo.row = NoRow
        /\ force.row \notin ToSet(queue)
    BY <2>1 DEF Homes, Owned, OneHome, Detached
  <2>3. launches[force.row] = 0 /\ force.row \notin held
    BY <2>1, <2>2 DEF Promises, Delivered, Holds, Detached
  <2>4. AtMost(force.idx, Len(queue) + 1) \in 1..(Len(queue) + 1)
    BY DEF AtMost, QueueIs
  <2>5. ToSet(queue') = ToSet(queue) \cup {force.row}
    BY <2>2, <2>4, InsertAtFacts DEF QueueIs, DeferForceSend
  <2>6. QED
    BY <2>1, <2>2, <2>3, <2>5 DEF DeferForceSend, ghost, NoForce
<1>2. SentOnce' /\ Delivered'
  BY <1>1 DEF Promises, SentOnce, AtMostOnce, ReplayFenced, Delivered,
     Homes, Owned, OneHome, InMemory, Popped, Promoted, Detached
<1>3. JournalExact'
  BY <1>1 DEF Promises, JournalExact, JournalCoversMemory, NoDiskOnlyRow, Delivered,
     Homes, Owned, OneHome, InMemory, Popped, Promoted, Detached
<1>4. Holds' /\ HoldDurable' /\ HoldListed'
  BY <1>1 DEF Promises, Holds, HoldDurable, HoldListed,
     Homes, Owned, OneHome, InMemory, Popped, Promoted, Detached
<1>5. Lawful
  BY <1>1 DEF Promises, Lawful, Holds,
     Homes, Owned, OneHome, InMemory, Popped, Promoted, Detached
<1>6. QED
  BY <1>2, <1>3, <1>4, <1>5 DEF Promises

(* turn_queue_run_now is fsynced *)
LEMMA CommitForceSendKeeps ==
    ASSUME Homes, Promises, CommitForceSend
    PROVE  Promises' /\ Lawful
<1> USE HomesFacts
<1>1. /\ force.row \in Rows /\ force'.row = NoRow /\ force'.pc = "idle" /\ runNow = force.row
      /\ queue' = queue
      /\ ToSet(log'.order) = ToSet(log.order)
      /\ log.paused \ {force.row} \subseteq log'.paused /\ log'.paused \subseteq log.paused
      /\ log.fenced \ {force.row} \subseteq log'.fenced /\ log'.fenced \subseteq log.fenced
      /\ force.row \notin held /\ launches[force.row] = 0 /\ promo.row = NoRow
      /\ UNCHANGED <<up, runNow, paused, fenced, promo>>
      /\ UNCHANGED <<fresh, launches, burnt, held>>
  <2>1. force.pc = "stopping" /\ force' = NoForce /\ log' = LogRunNow(log, force.row)
    BY DEF CommitForceSend
  <2>2. force.row \in Rows /\ runNow = force.row /\ promo.row = NoRow
    BY <2>1 DEF Homes, Owned
  <2>3. launches[force.row] = 0 /\ force.row \notin held
    BY <2>1, <2>2 DEF Promises, Delivered, Holds, Detached
  <2>4. /\ ToSet(log'.order) = ToSet(log.order)
        /\ log.paused \ {force.row} \subseteq log'.paused /\ log'.paused \subseteq log.paused
        /\ log.fenced \ {force.row} \subseteq log'.fenced /\ log'.fenced \subseteq log.fenced
    BY <2>1, <2>2, LogRunNowFacts
  <2>5. QED
    BY <2>1, <2>2, <2>3, <2>4 DEF CommitForceSend, mem, ghost, NoForce
<1>2. SentOnce' /\ Delivered'
  BY <1>1 DEF Promises, SentOnce, AtMostOnce, ReplayFenced, Delivered,
     Homes, Owned, OneHome, InMemory, Popped, Promoted, Detached
<1>3. JournalExact'
  BY <1>1 DEF Promises, JournalExact, JournalCoversMemory, NoDiskOnlyRow, Delivered,
     Homes, Owned, OneHome, InMemory, Popped, Promoted, Detached
<1>4. Holds' /\ HoldDurable' /\ HoldListed'
  BY <1>1 DEF Promises, Holds, HoldDurable, HoldListed,
     Homes, Owned, OneHome, InMemory, Popped, Promoted, Detached
<1>5. Lawful
  BY <1>1 DEF Promises, Lawful, Holds,
     Homes, Owned, OneHome, InMemory, Popped, Promoted, Detached
<1>6. QED
  BY <1>2, <1>3, <1>4, <1>5 DEF Promises

(* restore_uncommitted_promotion *)
LEMMA RestoreUncommittedKeeps ==
    ASSUME Homes, Promises, RestoreUncommitted
    PROVE  Promises' /\ Lawful
<1> USE HomesFacts
<1>1. /\ force.row \in Rows /\ force'.row = NoRow /\ force'.pc = "idle" /\ runNow = force.row
      /\ runNow' = NoRow
      /\ ToSet(queue') = ToSet(queue) \cup {force.row} /\ log' = log
      /\ force.row \notin held /\ launches[force.row] = 0 /\ promo.row = NoRow
      /\ \/ paused' = paused \cup {force.row} /\ held' = held \cup ({force.row} \cap (log.paused \ log.fenced))
         \/ paused' = paused /\ held' = held
      /\ UNCHANGED <<up, fenced, promo>>
      /\ UNCHANGED <<fresh, launches, burnt>>
  <2>1. force.pc \in {"selected", "stopping"} /\ force' = NoForce /\ runNow' = NoRow
    BY DEF RestoreUncommitted
  <2>2. /\ force.row \in Rows /\ runNow = force.row /\ promo.row = NoRow
        /\ force.row \notin ToSet(queue)
    BY <2>1 DEF Homes, Owned, OneHome, Detached
  <2>3. launches[force.row] = 0 /\ force.row \notin held
    BY <2>1, <2>2 DEF Promises, Delivered, Holds, Detached
  <2>4. ReturnIndex(queue, force) \in 1..(Len(queue) + 1)
    BY ReturnIndexFacts DEF QueueIs
  <2>5. ToSet(queue') = ToSet(queue) \cup {force.row}
    BY <2>2, <2>4, InsertAtFacts DEF QueueIs, RestoreUncommitted
  <2>6. QED
    BY <2>1, <2>2, <2>3, <2>5 DEF RestoreUncommitted, NoForce
<1>2. SentOnce' /\ Delivered'
  BY <1>1 DEF Promises, SentOnce, AtMostOnce, ReplayFenced, Delivered,
     Homes, Owned, OneHome, InMemory, Popped, Promoted, Detached
<1>3. JournalExact'
  BY <1>1 DEF Promises, JournalExact, JournalCoversMemory, NoDiskOnlyRow, Delivered,
     Homes, Owned, OneHome, InMemory, Popped, Promoted, Detached
<1>4. Holds' /\ HoldDurable' /\ HoldListed'
  BY <1>1 DEF Promises, Holds, HoldDurable, HoldListed,
     Homes, Owned, OneHome, InMemory, Popped, Promoted, Detached
<1>5. Lawful
  BY <1>1 DEF Promises, Lawful, Holds,
     Homes, Owned, OneHome, InMemory, Popped, Promoted, Detached
<1>6. QED
  BY <1>2, <1>3, <1>4, <1>5 DEF Promises

(* the process dies: memory is lost, the journal stays *)
LEMMA CrashKeeps ==
    ASSUME Homes, Promises, Crash
    PROVE  Promises' /\ Lawful
<1> USE HomesFacts
<1>1. /\ ToSet(queue') = {} /\ runNow' = NoRow /\ ~up' /\ log' = log
      /\ promo'.row = NoRow /\ promo'.pc = "idle" /\ force'.row = NoRow /\ force'.pc = "idle"
      /\ UNCHANGED <<fresh, launches, burnt, held>>
  <2>1. queue' = <<>>
    BY DEF Crash
  <2>2. ToSet(queue') = {}
    BY <2>1 DEF ToSet
  <2>3. QED
    BY <2>2 DEF Crash, ghost, NoPromo, NoForce
<1>2. SentOnce' /\ Delivered'
  BY <1>1 DEF Promises, SentOnce, AtMostOnce, ReplayFenced, Delivered,
     Homes, Owned, OneHome, InMemory, Popped, Promoted, Detached
<1>3. JournalExact'
  BY <1>1 DEF Promises, JournalExact, JournalCoversMemory, NoDiskOnlyRow, Delivered,
     Homes, Owned, OneHome, InMemory, Popped, Promoted, Detached
<1>4. Holds' /\ HoldDurable' /\ HoldListed'
  BY <1>1 DEF Promises, Holds, HoldDurable, HoldListed,
     Homes, Owned, OneHome, InMemory, Popped, Promoted, Detached
<1>5. Lawful
  BY <1>1 DEF Promises, Lawful, Holds,
     Homes, Owned, OneHome, InMemory, Popped, Promoted, Detached
<1>6. QED
  BY <1>2, <1>3, <1>4, <1>5 DEF Promises

(* a recovered delivery whose ledger names another owner *)
LEMMA DiscardRecoveredKeeps ==
    ASSUME Homes, Promises, NEW r \in Rows, DiscardRecovered(r)
    PROVE  Promises' /\ Lawful
<1> USE HomesFacts
<1>1. /\ r \in Deliveries /\ ~up /\ queue' = queue /\ ToSet(queue) = {} /\ runNow = NoRow
      /\ promo.row = NoRow /\ promo.pc = "idle" /\ force.row = NoRow /\ force.pc = "idle"
      /\ ToSet(log'.order) = ToSet(log.order) \ {r}
      /\ log'.paused = log.paused \ {r} /\ log'.fenced = log.fenced \ {r}
      /\ UNCHANGED <<up, runNow, paused, fenced, promo, force>>
      /\ UNCHANGED <<fresh, launches, burnt, held>>
  <2>1. /\ ToSet(log'.order) = ToSet(log.order) \ {r}
        /\ log'.paused = log.paused \ {r} /\ log'.fenced = log.fenced \ {r}
    BY LogRemovedFacts DEF DiscardRecovered
  <2>2. /\ queue = <<>> /\ runNow = NoRow /\ promo.pc = "idle" /\ promo.row = NoRow
        /\ force.pc = "idle" /\ force.row = NoRow
    BY DEF DiscardRecovered, Homes, Owned
  <2>3. ToSet(queue) = {}
    BY <2>2 DEF ToSet
  <2>4. QED
    BY <2>1, <2>2, <2>3 DEF DiscardRecovered, mem, ghost
<1>2. SentOnce' /\ Delivered'
  BY <1>1 DEF Promises, SentOnce, AtMostOnce, ReplayFenced, Delivered,
     Homes, Owned, OneHome, InMemory, Popped, Promoted, Detached
<1>3. JournalExact'
  BY <1>1 DEF Promises, JournalExact, JournalCoversMemory, NoDiskOnlyRow, Delivered,
     Homes, Owned, OneHome, InMemory, Popped, Promoted, Detached
<1>4. Holds' /\ HoldDurable' /\ HoldListed'
  BY <1>1 DEF Promises, Holds, HoldDurable, HoldListed,
     Homes, Owned, OneHome, InMemory, Popped, Promoted, Detached
<1>5. Lawful
  BY <1>1 DEF Promises, Lawful, Holds,
     Homes, Owned, OneHome, InMemory, Popped, Promoted, Detached
<1>6. QED
  BY <1>2, <1>3, <1>4, <1>5 DEF Promises

(* recover_queued_turns_after_start *)
LEMMA RecoverQueuedTurnsKeeps ==
    ASSUME Homes, Promises, RecoverQueuedTurns
    PROVE  Promises' /\ Lawful
<1> USE HomesFacts
<1>1. /\ ~up /\ up' /\ ToSet(queue') = ToSet(log.order) /\ log' = log /\ runNow = NoRow
      /\ promo.row = NoRow /\ promo.pc = "idle" /\ force.row = NoRow /\ force.pc = "idle"
      /\ paused' = log.paused /\ fenced' = log.fenced
      /\ UNCHANGED <<runNow, promo, force>>
      /\ UNCHANGED <<fresh, launches, burnt, held>>
  BY DEF RecoverQueuedTurns, Homes, Owned, ghost
<1>2. SentOnce' /\ Delivered'
  BY <1>1 DEF Promises, SentOnce, AtMostOnce, ReplayFenced, Delivered,
     Homes, Owned, OneHome, InMemory, Popped, Promoted, Detached
<1>3. JournalExact'
  BY <1>1 DEF Promises, JournalExact, JournalCoversMemory, NoDiskOnlyRow, Delivered,
     Homes, Owned, OneHome, InMemory, Popped, Promoted, Detached
<1>4. Holds' /\ HoldDurable' /\ HoldListed'
  BY <1>1 DEF Promises, Holds, HoldDurable, HoldListed,
     Homes, Owned, OneHome, InMemory, Popped, Promoted, Detached
<1>5. Lawful
  BY <1>1 DEF Promises, Lawful, Holds,
     Homes, Owned, OneHome, InMemory, Popped, Promoted, Detached
<1>6. QED
  BY <1>2, <1>3, <1>4, <1>5 DEF Promises

(* Every step keeps the promises. *)
LEMMA PromisesStep ==
    ASSUME Homes, Promises, [Next]_vars
    PROVE  Promises' /\ Lawful
<1>1. ASSUME NEW r \in Rows,
             \/ Enqueue(r) \/ EnqueueRevoked(r) \/ UnqueueTurn(r)
             \/ SelectNative(r) \/ SelectForStop(r) \/ DiscardRecovered(r)
      PROVE  Promises' /\ Lawful
  BY <1>1, EnqueueKeeps, EnqueueRevokedKeeps, UnqueueTurnKeeps, SelectNativeKeeps,
     SelectForStopKeeps, DiscardRecoveredKeeps
<1>2. CASE \/ DirectTurn \/ PromoteNothing \/ PromotionAlreadyOwned \/ RetryTimer \/ Reserve
           \/ ProviderReady \/ ProviderFinish \/ StopAdmit \/ StopKeepsQueue \/ StopFinish
           \/ HandOff \/ AcceptSteer \/ InterruptForForceSend \/ ReleaseWaiterFence
           \/ ReconcileIdleQueue \/ UNCHANGED vars
  <2>1. Quiet
    BY <1>2, QuietSteps
  <2>2. QED
    BY <2>1, QuietKeeps
<1>3. CASE \/ MoveQueuedTurn \/ ReturnPausedPromotion \/ PopNext \/ PersistTurnAcceptance
           \/ Launch \/ DeferPromotion \/ CancelPromotion \/ DiscardPromotion \/ StopPause
  BY <1>3, MoveQueuedTurnKeeps, ReturnPausedPromotionKeeps, PopNextKeeps,
     PersistTurnAcceptanceKeeps, LaunchKeeps, DeferPromotionKeeps, CancelPromotionKeeps,
     DiscardPromotionKeeps, StopPauseKeeps
<1>4. CASE \/ FenceNativeSteerDelivery \/ DeliverSteer \/ CommitSteer \/ SteerUncertain
           \/ RequeueRejectedSteer \/ ExpireSteerOwner
  BY <1>4, FenceNativeSteerDeliveryKeeps, DeliverSteerKeeps, CommitSteerKeeps,
     SteerUncertainKeeps, RequeueRejectedSteerKeeps, ExpireSteerOwnerKeeps
<1>5. CASE \/ DeferForceSend \/ CommitForceSend \/ RestoreUncommitted
           \/ Crash \/ RecoverQueuedTurns
  BY <1>5, DeferForceSendKeeps, CommitForceSendKeeps, RestoreUncommittedKeeps, CrashKeeps,
     RecoverQueuedTurnsKeeps
<1>6. QED
  BY <1>1, <1>2, <1>3, <1>4, <1>5 DEF Next

LEMMA PromisesInit == Init => Promises
<1> SUFFICES ASSUME Init PROVE Promises
  OBVIOUS
<1>1. /\ ToSet(queue) = {} /\ ToSet(log.order) = {} /\ log.paused = {} /\ log.fenced = {}
      /\ promo.row = NoRow /\ promo.pc = "idle" /\ force.row = NoRow /\ force.pc = "idle"
      /\ runNow = NoRow /\ held = {} /\ fresh = Rows
      /\ \A r \in Rows : launches[r] = 0
  BY DEF Init, EmptyLog, NoPromo, NoForce, ToSet
<1>2. InMemory = {} /\ Popped = {} /\ Promoted = {} /\ Detached = {}
  BY <1>1 DEF InMemory, Popped, Promoted, Detached
<1>3. QED
  BY <1>1, <1>2 DEF Promises, SentOnce, AtMostOnce, ReplayFenced, Delivered, JournalExact,
     JournalCoversMemory, NoDiskOnlyRow, Holds, HoldDurable, HoldListed

LEMMA PromisesAlways == Spec => [](Homes /\ Promises)
<1>1. Init => Homes /\ Promises
  BY HomesInit, PromisesInit DEF Homes
<1>2. Homes /\ Promises /\ [Next]_vars => Homes' /\ Promises'
  BY HomesStep, PromisesStep DEF Homes
<1>3. QED
  BY <1>1, <1>2, PTL DEF Spec

(* A message reaches a provider at most once, for every set of messages    *)
(* and any number of crashes, Stops, moves and Force Sends: no deferral,   *)
(* steer, rejection or recovery sends what a provider may have received    *)
(* (_start_turn_locked, fence_native_steer_delivery,                       *)
(* recover_queued_turns_after_start).                                      *)
THEOREM NothingSentTwice == Spec => []SentOnce
<1>1. Homes /\ Promises => SentOnce
  BY DEF Promises
<1>2. QED
  BY <1>1, PromisesAlways, PTL

(* Whatever a crash would lose and the queue still owes is pending in the  *)
(* journal, and the journal holds no row that nobody owns: what            *)
(* scan_queued_turns_from_events rebuilds is what enqueue_turn,            *)
(* requeue_turn_front and the Force Send paths had in memory.              *)
THEOREM JournalIsExact == Spec => []JournalExact
<1>1. Homes /\ Promises => JournalExact
  BY DEF Promises
<1>2. QED
  BY <1>1, PromisesAlways, PTL

(* A hold that an explicit Stop wrote stays in the journal and in memory,  *)
(* whatever write fails and whenever the process dies, and no held row is  *)
(* handed to a provider (pause_queued_turns_after_explicit_stop,           *)
(* start_next_queued_turn).                                                *)
THEOREM HoldsAreHonoured == Spec => HoldHonoured
<1>1. Homes /\ Promises => HoldDurable /\ HoldListed
  BY DEF Promises
<1>2. Homes /\ Promises /\ [Next]_vars
        => [\A r \in Rows : launches'[r] > launches[r] => r \notin held]_vars
  BY PromisesStep DEF Lawful
<1>3. QED
  BY <1>1, <1>2, PromisesAlways, PTL DEF Spec, HoldHonoured, HeldNeverLaunched

=============================================================================
