------------------------------- MODULE Queues -------------------------------
(***************************************************************************)
(* The list operations the durable queue is built from: looking a row up   *)
(* by id, removing it, putting it back at a remembered place, swapping     *)
(* neighbours, and replaying a logged order.  Rows of a queue are distinct.*)
(***************************************************************************)
EXTENDS Naturals, SequencesExt

Distinct(s) == \A i, j \in DOMAIN s : s[i] = s[j] => i = j

IndexOf(s, r) == CHOOSE i \in DOMAIN s : s[i] = r

Without(s, r) == IF r \in ToSet(s) THEN RemoveAt(s, IndexOf(s, r)) ELSE s

AtMost(i, n) == IF i <= n THEN i ELSE n

(* Where a detached row returns: before the row that followed it, else     *)
(* after the row that preceded it, else at its old index.                  *)
ReturnIndex(s, f) ==
    IF f.succ \in ToSet(s) THEN IndexOf(s, f.succ)
    ELSE IF f.pred \in ToSet(s) THEN IndexOf(s, f.pred) + 1
    ELSE AtMost(f.idx, Len(s) + 1)

(* Nearest row after, else before, the detached one in the journal's order.*)
RestoreIndex(s, o, r) ==
    LET i      == IndexOf(o, r)
        After  == {j \in DOMAIN o : j > i /\ o[j] \in ToSet(s)}
        Before == {j \in DOMAIN o : j < i /\ o[j] \in ToSet(s)}
    IN  IF After # {} THEN IndexOf(s, o[CHOOSE j \in After : \A k \in After : j <= k])
        ELSE IF Before # {}
             THEN IndexOf(s, o[CHOOSE j \in Before : \A k \in Before : k <= j]) + 1
        ELSE AtMost(i, Len(s) + 1)

Swap(s, i) == [s EXCEPT ![i] = s[i + 1], ![i + 1] = s[i]]

(* turn_queue_reordered names the rows of a live queue s.  The pending     *)
(* rows it names come first, in the order of s; the pending rows it does   *)
(* not name follow in their old order.  Those facts determine one sequence.*)
Reorderings(o, s) ==
    { t \in [1..Len(o) -> ToSet(o)] :
        /\ ToSet(t) = ToSet(o)
        /\ Distinct(t)
        /\ \A i, j \in DOMAIN t : i < j =>
             LET a == t[i] b == t[j] IN
             /\ b \in ToSet(s) =>
                  a \in ToSet(s) /\ IndexOf(s, a) < IndexOf(s, b)
             /\ a \notin ToSet(s) /\ b \notin ToSet(s) =>
                  IndexOf(o, a) < IndexOf(o, b) }
=============================================================================
