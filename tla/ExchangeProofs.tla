---------------------------- MODULE ExchangeProofs ----------------------------
(***************************************************************************)
(* What the ledger of a cross-chat exchange says is true, and its legs are *)
(* run lawfully, for every leg budget, with and without live calls,        *)
(* crashes and failure notices.                                            *)
(***************************************************************************)
EXTENDS CrossChatExchange, TLAPS

(* The ledger by itself: the legs are the ordinals up to used, all but the *)
(* last one are answered while the exchange is active, none is on its way  *)
(* to its target when it is closed, and no leg of a live exchange but the  *)
(* first is ever submitted as a turn.                                      *)
Sound(d) ==
    /\ d \in Ledgers
    /\ d.status = "waiting_request" => d.used = 0
    /\ d.status = "active" => d.used > 0
    /\ \A l \in Legs : d.leg[l].status = "absent" <=> l > d.used
    /\ d.status = "active" /\ d.leg[d.used].expects => d.used < MaxLegs
    /\ d.status = "active" =>
         \A l \in Legs : l < d.used => /\ d.leg[l].resp \in Committed
                                       /\ d.leg[l].status \in {"running", "delivered"}
    /\ d.status = "completed" => /\ d.used > 0
                                 /\ d.leg[d.used].status = "delivered"
                                 /\ ~d.leg[d.used].expects
    /\ d.status \in Closed => \A l \in Legs : d.leg[l].status \notin {"submitting", "queued"}
    /\ d.lease => \A l \in Legs : l > 1 =>
                    d.leg[l].status \in {"registered", "absent"} \cup Ended

(* What the owner in memory of leg l says about its row in the ledger. *)
OwnerTrue(l) ==
    LET s == db.leg[l].status IN
    /\ s = "absent" => owner[l] = "none" /\ l \notin submitter
    /\ owner[l] = "private" => l \in submitter
    /\ owner[l] \in {"private", "listed"} => s \in {"queued"} \cup Ended
    /\ owner[l] = "bound" => s \notin {"registered", "absent"}
    /\ owner[l] = "admitted" => /\ s = "running"
                                /\ l = Notice \/ (db.status = "active" /\ l = db.used)
    /\ owner[l] = "running" => s \in {"running"} \cup Ended
    /\ owner[l] \in {"admitted", "running"} => outcome[l] = "none"
    /\ outcome[l] # "none" => s \in {"running"} \cup Ended
    /\ l \in submitter => recon.leg # l
    /\ l \in direct => s \in Ended

(* A leg being handed to a waiting call is nobody else's. *)
HandingTrue ==
    handing # NoLeg => /\ handing > 1 /\ db.lease
                       /\ db.leg[handing].status = "registered"
                       /\ owner[handing] = "none" /\ handing \notin submitter

(* What reconciliation read is stale only in ways that its compare-and-set *)
(* catches.                                                                *)
ReconTrue ==
    recon # Idle =>
      LET l == recon.leg
          s == db.leg[l].status
      IN  /\ l \in LegIds /\ recon.status \in Pending /\ recon.todo # "none"
          /\ recon.todo = "lost" => l # Notice /\ s \in {"registered"} \cup Ended
          /\ recon.todo = "close" => l # Notice /\ db.status \in Closed
          /\ recon.todo = "queued" => recon.status = "queued"
          /\ recon.todo = "running" => /\ recon.status # "registered"
                                       /\ owner[l] = "listed" => s \in Ended
          /\ recon.todo \in {"settle", "resubmit"}
               => owner[l] \in {"none", "ended", "answering"}

DownTrue == ~up => recon = Idle /\ submitter = {} /\ handing = NoLeg

ExchangeInv ==
    /\ TypeOK /\ Sound(db)
    /\ \A l \in LegIds : OwnerTrue(l)
    /\ HandingTrue /\ ReconTrue /\ DownTrue


(* What every transaction of the ledger keeps: it is sound again, a closed *)
(* exchange and an ended leg stay as they are, and nothing but the leg l   *)
(* changes in the legs that exist.                                         *)
Ends(d, e) ==
    /\ d.status \in Closed => e.status = d.status /\ e.used = d.used
    /\ \A l \in LegIds : d.leg[l].status \in Ended => e.leg[l].status = d.leg[l].status
Only(d, e, l) == \A k \in LegIds : k # l => e.leg[k] = d.leg[k]
Kept(d, e) == Sound(e) /\ Ends(d, e)

-----------------------------------------------------------------------------
(* The transactions of the ledger. *)

LEMMA LedgerShape ==
    ASSUME NEW d \in Ledgers
    PROVE  /\ d = [status |-> d.status, used |-> d.used, lease |-> d.lease,
                   requested |-> d.requested, leg |-> d.leg]
           /\ d.status \in Open \cup Closed /\ d.used \in LegIds
           /\ d.lease \in BOOLEAN /\ d.requested \in BOOLEAN
           /\ d.leg \in [LegIds -> LegRecords]
           /\ \A l \in LegIds : /\ d.leg[l].status \in Pending \cup Ended \cup {"absent"}
                                /\ d.leg[l].resp \in Committed \cup {"open", "closed"}
                                /\ d.leg[l].expects \in BOOLEAN
BY DEF Ledgers, LegRecords

(* create_initial_exchange_leg *)
LEMMA InitialLegFacts ==
    ASSUME NEW d, Sound(d), d.status = "waiting_request",
           NEW live \in BOOLEAN, NEW expects \in BOOLEAN
    PROVE  LET e == InitialLeg(d, live, expects)
           IN  /\ Kept(d, e) /\ Only(d, e, 1)
               /\ d.leg[1].status = "absent"
<1> DEFINE e == InitialLeg(d, live, expects)
<1>1. d \in Ledgers /\ d.used = 0
  BY DEF Sound
<1>2. /\ 1 \in LegIds /\ 1 \in Legs
      /\ \A l \in Legs : l \in LegIds /\ l \in Int /\ l > 0
  BY MaxLegsAssumption DEF Legs, LegIds
<1>3. \A l \in Legs : d.leg[l].status = "absent"
  BY <1>1, <1>2 DEF Sound
<1>4. /\ e.status = "active" /\ e.used = 1 /\ e.lease = live /\ e.requested = live
      /\ e.leg = [d.leg EXCEPT ![1] = NewLeg(expects)]
      /\ e = [status |-> "active", used |-> 1, lease |-> live, requested |-> live,
              leg |-> [d.leg EXCEPT ![1] = NewLeg(expects)]]
  BY DEF InitialLeg
<1>5. /\ NewLeg(expects) \in LegRecords /\ NewLeg(expects).status = "registered"
      /\ NewLeg(expects).expects = expects
  BY DEF NewLeg, LegRecords, Pending
<1>6. /\ e.leg \in [LegIds -> LegRecords] /\ e.leg[1] = NewLeg(expects)
      /\ \A k \in LegIds : k # 1 => e.leg[k] = d.leg[k]
  BY <1>1, <1>2, <1>4, <1>5, LedgerShape
<1>7. e \in Ledgers
  BY <1>2, <1>4, <1>6 DEF Ledgers, Open
<1>8. Sound(e)
  BY <1>2, <1>3, <1>4, <1>5, <1>6, <1>7, MaxLegsAssumption DEF Sound, Legs, Closed
<1>9. Ends(d, e)
  BY <1>2, <1>3, <1>6 DEF Ends, Closed, Ended
<1>10. QED
  BY <1>2, <1>3, <1>6, <1>8, <1>9 DEF Kept, Only

(* A transaction that rewrites a pending leg, or creates the notice, and,  *)
(* perhaps, ends the exchange.                                             *)
LEMMA WriteFacts ==
    ASSUME NEW d, Sound(d), NEW l \in LegIds,
           d.leg[l].status \in Pending \/ (l = Notice /\ d.leg[l].status = "absent"),
           NEW s \in Pending \cup Ended, NEW resp \in Committed \cup {"open", "closed"},
           NEW x \in {d.status} \cup Closed, d.status \in Closed => x = d.status,
           x = "active" /\ l # Notice /\ l < d.used
             => resp \in Committed /\ s \in {"running", "delivered"},
           x = "completed" /\ d.status # "completed"
             => l = d.used /\ l # Notice /\ s = "delivered" /\ ~d.leg[l].expects,
           x \in Closed /\ d.status \notin Closed => l = d.used /\ l # Notice,
           x \in Closed /\ l # Notice => s \notin {"submitting", "queued"},
           d.lease /\ l > 1 => s \in {"registered"} \cup Ended
    PROVE  LET e == Write(d, l, s, resp, x)
           IN  /\ Kept(d, e) /\ Only(d, e, l)
               /\ e.used = d.used /\ e.lease = d.lease /\ e.status = x
               /\ e.leg[l].status = s
<1> DEFINE e == Write(d, l, s, resp, x)
           r == [status |-> s, resp |-> resp, expects |-> d.leg[l].expects]
<1>1. d \in Ledgers
  BY DEF Sound
<1>2. /\ \A k \in Legs : k \in LegIds /\ k \in Int /\ k > 0
      /\ \A k \in LegIds : k # Notice => k \in Legs
      /\ Notice \in LegIds /\ Notice = 0
  BY MaxLegsAssumption DEF Legs, LegIds, Notice
<1>3. /\ e.used = d.used /\ e.lease = d.lease /\ e.status = x
      /\ e.requested = d.requested /\ e.leg = [d.leg EXCEPT ![l] = r]
  BY DEF Write
<1>4. /\ r \in LegRecords /\ r.status = s /\ s # "absent" /\ r.resp = resp
      /\ r.expects = d.leg[l].expects
  BY <1>1, LedgerShape DEF LegRecords, Pending, Ended
<1>5. /\ e.leg \in [LegIds -> LegRecords] /\ e.leg[l] = r
      /\ \A k \in LegIds : k # l => e.leg[k] = d.leg[k]
  BY <1>1, <1>3, <1>4, LedgerShape
<1>6. e \in Ledgers
  <2>1. x \in Open \cup Closed
    BY <1>1, LedgerShape
  <2>2. QED
    BY <1>1, <1>3, <1>5, <2>1, LedgerShape DEF Ledgers, Write
<1>7. d.used \in Int /\ d.used \in LegIds /\ l \in Int
  BY <1>1, LedgerShape, MaxLegsAssumption DEF LegIds
<1> HIDE DEF e, r
<1>8. Sound(e)
  <2>1. /\ e.status = "waiting_request" => e.used = 0
        /\ e.status = "active" => e.used > 0
    BY <1>3 DEF Sound, Closed
  <2>2. \A k \in Legs : e.leg[k].status = "absent" <=> k > e.used
    BY <1>2, <1>3, <1>4, <1>5 DEF Sound, Pending
  <2>3. e.status = "active" /\ e.leg[e.used].expects => e.used < MaxLegs
    BY <1>3, <1>4, <1>5, <1>7 DEF Sound, Closed
  <2>4. e.status = "active" =>
           \A k \in Legs : k < e.used => /\ e.leg[k].resp \in Committed
                                         /\ e.leg[k].status \in {"running", "delivered"}
    BY <1>2, <1>3, <1>4, <1>5 DEF Sound, Closed
  <2>5. e.status = "completed" => /\ e.used > 0
                                  /\ e.leg[e.used].status = "delivered"
                                  /\ ~e.leg[e.used].expects
    BY <1>2, <1>3, <1>4, <1>5, <1>7 DEF Sound, Pending
  <2>6. e.lease => \A k \in Legs : k > 1 =>
                      e.leg[k].status \in {"registered", "absent"} \cup Ended
    BY <1>2, <1>3, <1>4, <1>5 DEF Sound
  <2>7. ASSUME e.status \in Closed, NEW k \in Legs
        PROVE  e.leg[k].status \notin {"submitting", "queued"}
    <3>1. CASE k = l
      BY <1>2, <1>3, <1>4, <1>5, <2>7, <3>1
    <3>2. CASE k # l
      <4>1. e.leg[k] = d.leg[k] /\ d.status \in Open \cup Closed /\ k \in Int /\ k > 0
        BY <1>1, <1>2, <1>5, <3>2, LedgerShape
      <4>2. CASE d.status \in Closed
        BY <4>1, <4>2 DEF Sound
      <4>3. CASE d.status \notin Closed
        <5>1. k < d.used \/ k > d.used
          BY <1>3, <1>7, <2>7, <3>2, <4>1, <4>3
        <5>2. CASE k > d.used
          BY <4>1, <5>2 DEF Sound
        <5>3. CASE k < d.used
          <6>1. d.status = "active"
            BY <1>7, <4>1, <4>3, <5>3 DEF Sound, Open
          <6>2. QED
            BY <4>1, <5>3, <6>1 DEF Sound
        <5>4. QED
          BY <5>1, <5>2, <5>3
      <4>4. QED
        BY <4>2, <4>3
    <3>3. QED
      BY <3>1, <3>2
  <2>8. QED
    BY <1>6, <2>1, <2>2, <2>3, <2>4, <2>5, <2>6, <2>7 DEF Sound
<1>9. Ends(d, e)
  BY <1>3, <1>4, <1>5 DEF Ends, Ended, Pending
<1>10. QED
  BY <1>3, <1>4, <1>5, <1>8, <1>9 DEF Kept, Only, e

(* A transaction that writes the exchange alone: it is not completed so.   *)
LEMMA HeadFacts ==
    ASSUME NEW d, Sound(d), NEW e, NEW x \in {d.status} \cup Closed,
           d.status \in Closed => x = d.status,
           x = "completed" => d.status = "completed",
           d.status = "active" /\ x # "active"
             => d.leg[d.used].status \notin {"submitting", "queued"},
           NEW ls \in BOOLEAN, ls => d.lease,
           e = [status |-> x, used |-> d.used, lease |-> ls, requested |-> d.requested,
                leg |-> d.leg]
    PROVE  Kept(d, e)
<1>1. d \in Ledgers
  BY DEF Sound
<1>2. e \in Ledgers
  <2>1. x \in Open \cup Closed
    BY <1>1, LedgerShape
  <2>2. QED
    BY <1>1, <2>1, LedgerShape DEF Ledgers
<1>3. Sound(e)
  <2>1. ASSUME x \in Closed, NEW k \in Legs
        PROVE  d.leg[k].status \notin {"submitting", "queued"}
    <3>1. k \in Int /\ k > 0 /\ d.used \in Int /\ d.status \in Open \cup Closed
      BY <1>1, LedgerShape, MaxLegsAssumption DEF Legs, LegIds
    <3>2. CASE d.status \in Closed
      BY <3>2 DEF Sound
    <3>3. CASE d.status = "waiting_request"
      <4>1. d.leg[k].status = "absent"
        BY <3>1, <3>3 DEF Sound
      <4>2. QED
        BY <4>1
    <3>4. CASE d.status = "active"
      <4>1. k < d.used => d.leg[k].status \in {"running", "delivered"}
        BY <3>4 DEF Sound
      <4>2. k > d.used => d.leg[k].status = "absent"
        BY DEF Sound
      <4>3. k = d.used => d.leg[k].status \notin {"submitting", "queued"}
        BY <2>1, <3>4 DEF Closed
      <4>4. k < d.used \/ k > d.used \/ k = d.used
        BY <3>1
      <4>5. QED
        BY <4>1, <4>2, <4>3, <4>4
    <3>5. QED
      BY <3>1, <3>2, <3>3, <3>4 DEF Open
  <2>2. QED
    BY <1>2, <2>1 DEF Sound, Closed
<1>4. Ends(d, e)
  BY DEF Ends
<1>5. QED
  BY <1>3, <1>4 DEF Kept

(* update_exchange *)
LEMMA CloseFacts ==
    ASSUME NEW d, Sound(d), NEW s \in Closed \ {"completed"},
           d.status = "active" => d.leg[d.used].status \notin {"submitting", "queued"}
    PROVE  LET e == CloseExchange(d, s)
           IN  /\ Kept(d, e) /\ e.leg = d.leg /\ e.used = d.used /\ e.lease = d.lease
               /\ e.status = IF d.status \in Open THEN s ELSE d.status
<1> DEFINE e == CloseExchange(d, s)
           x == IF d.status \in Open THEN s ELSE d.status
<1>1. d \in Ledgers
  BY DEF Sound
<1>2. e = [status |-> x, used |-> d.used, lease |-> d.lease, requested |-> d.requested,
           leg |-> d.leg]
  BY <1>1 DEF CloseExchange, Ledgers
<1>3. /\ x \in {d.status} \cup Closed
      /\ d.status \in Closed => x = d.status
      /\ x = "completed" => d.status = "completed" 
  BY DEF Open, Closed
<1>4. Kept(d, e)
  BY <1>1, <1>2, <1>3, HeadFacts, LedgerShape
<1>5. QED
  BY <1>2, <1>4

(* downgrade_live_exchange *)
LEMMA DowngradeFacts ==
    ASSUME NEW d, Sound(d)
    PROVE  LET e == Downgrade(d)
           IN  /\ Kept(d, e) /\ e.leg = d.leg /\ e.used = d.used /\ e.status = d.status
               /\ e.lease = (d.lease /\ d.status # "active")
<1> DEFINE e  == Downgrade(d)
           ls == d.lease /\ d.status # "active"
<1>1. d \in Ledgers
  BY DEF Sound
<1>2. e = [status |-> d.status, used |-> d.used, lease |-> ls, requested |-> d.requested,
           leg |-> d.leg]
  BY <1>1 DEF Downgrade, Ledgers
<1>3. Kept(d, e)
  BY <1>1, <1>2, HeadFacts, LedgerShape
<1>4. QED
  BY <1>2, <1>3

(* finish_exchange_leg ends a pending leg.  A leg that was answered stands *)
(* as delivered whatever the end of its turn, so the exchange ends only    *)
(* with its last leg.                                                      *)
Fits(d, l, s, preserve) ==
    \/ s = "delivered" \/ (s = "failed" /\ preserve)
    \/ l \in {Notice, d.used} \/ d.leg[l].status # "running"
Finished(d, e, l) ==
    /\ Kept(d, e) /\ Only(d, e, l) /\ e.used = d.used /\ e.lease = d.lease
    /\ e.status # d.status => d.status = "active" /\ l = d.used /\ l # Notice
    /\ e.leg[l].status = d.leg[l].status \/ e.leg[l].status \in Ended
    /\ e.leg[l].status \notin Pending

LEMMA FinishLegFacts ==
    ASSUME NEW d, Sound(d), NEW l \in LegIds, NEW s \in Ended,
           NEW preserve \in BOOLEAN, Fits(d, l, s, preserve)
    PROVE  Finished(d, FinishLeg(d, l, s, preserve), l)
<1> DEFINE e  == FinishLeg(d, l, s, preserve)
           es == EffectiveStatus(d, l, s, preserve)
           fi == Final(d, l, es)
<1>1. d \in Ledgers
  BY DEF Sound
<1>2. d.leg[l].resp \in Committed \cup {"open", "closed"}
  BY <1>1, LedgerShape
<1>3. es \in Ended /\ es \notin Pending
  BY DEF EffectiveStatus, Ended, Pending
<1>4. CASE d.leg[l].status \notin Pending
  <2>1. e = d
    BY <1>4 DEF FinishLeg
  <2>2. Kept(d, d) /\ Only(d, d, l)
    BY DEF Kept, Ends, Only
  <2>3. QED
    BY <1>4, <2>1, <2>2 DEF Finished
<1>5. CASE d.leg[l].status \in Pending /\ (l = Notice \/ d.status # "active")
  <2>1. e = Write(d, l, es, d.leg[l].resp, d.status)
    BY <1>5 DEF FinishLeg
  <2>2. /\ Kept(d, e) /\ Only(d, e, l) /\ e.used = d.used /\ e.lease = d.lease
        /\ e.status = d.status /\ e.leg[l].status = es
    <3>1. d.status \in Open \cup Closed /\ es \notin {"submitting", "queued"}
      BY <1>1, <1>3, LedgerShape DEF Ended
    <3> HIDE DEF es, e
    <3>2. QED
      BY <1>2, <1>3, <1>5, <2>1, <3>1, WriteFacts
  <2>3. QED
    BY <1>3, <1>5, <2>2 DEF Finished
<1>6. CASE d.leg[l].status \in Pending /\ l # Notice /\ d.status = "active"
  <2> DEFINE p  == IF fi THEN "closed" ELSE d.leg[l].resp
             st == IF es # "delivered" THEN es ELSE IF fi THEN "completed" ELSE "active"
  <2>1. e = Write(d, l, es, p, st)
    BY <1>6 DEF FinishLeg
  <2>2. st \in {d.status} \cup Closed /\ d.status \notin Closed
    BY <1>3, <1>6 DEF Closed, Ended
  <2>3. l \in Legs /\ l \in Int /\ d.used \in Int /\ l <= d.used
    BY <1>1, <1>6, LedgerShape, MaxLegsAssumption DEF Sound, Pending, Legs, LegIds, Notice
  <2>4. ASSUME l < d.used
        PROVE  d.leg[l].resp \in Committed /\ es = "delivered" /\ ~fi
    <3>1. d.leg[l].resp \in Committed /\ d.leg[l].status = "running"
      BY <1>6, <2>3, <2>4 DEF Sound, Pending
    <3>2. es = "delivered"
      BY <2>3, <2>4, <3>1, <1>6 DEF EffectiveStatus, Fits
    <3>3. QED
      BY <3>1, <3>2 DEF Final, Committed
  <2>5. st = "completed" => l = d.used /\ es = "delivered" /\ ~d.leg[l].expects
    BY <1>3, <1>6, <2>3, <2>4 DEF Final, Ended
  <2>6. /\ p \in Committed \cup {"open", "closed"}
        /\ l < d.used => p \in Committed /\ es \in {"running", "delivered"}
    BY <1>2, <2>4
  <2>7. /\ st # d.status => l = d.used
        /\ st \in Closed /\ d.status \notin Closed => l = d.used
        /\ es \notin {"submitting", "queued"}
    BY <1>3, <1>6, <2>3, <2>4 DEF Closed, Ended
  <2> HIDE DEF p, st, es, fi, e
  <2>8. /\ Kept(d, e) /\ Only(d, e, l) /\ e.used = d.used /\ e.lease = d.lease
        /\ e.status = st /\ e.leg[l].status = es
    BY <1>3, <1>6, <2>1, <2>2, <2>5, <2>6, <2>7, WriteFacts
  <2>9. QED
    BY <1>3, <1>6, <2>7, <2>8 DEF e, Finished
<1>7. QED
  BY <1>4, <1>5, <1>6

(* update_exchange_leg: the compare-and-set never moves a leg that is not  *)
(* pending.                                                                *)
Moved(d, e, l, expected, s) ==
    /\ Kept(d, e) /\ Only(d, e, l)
    /\ e.used = d.used /\ e.lease = d.lease /\ e.status = d.status
    /\ e.leg[l].status = IF d.leg[l].status \in expected THEN s ELSE d.leg[l].status

LEMMA SetLegFacts ==
    ASSUME NEW d, Sound(d), NEW l \in LegIds, NEW expected \in SUBSET Pending,
           NEW s \in Pending, "running" \in expected => s = "running",
           l <= 1 \/ ~d.lease \/ "registered" \notin expected,
           \/ l = Notice \/ d.status = "active" \/ s \in {"registered", "running"}
           \/ expected \subseteq {"submitting", "queued"}
    PROVE  Moved(d, SetLeg(d, l, expected, s), l, expected, s)
<1> DEFINE e == SetLeg(d, l, expected, s)
<1>1. d \in Ledgers
  BY DEF Sound
<1>2. /\ d.leg[l].resp \in Committed \cup {"open", "closed"}
      /\ d.status \in Open \cup Closed /\ d.lease \in BOOLEAN
  BY <1>1, LedgerShape
<1>3. CASE d.leg[l].status \in expected
  <2>1. e = Write(d, l, s, d.leg[l].resp, d.status)
    BY <1>3 DEF SetLeg
  <2>2. l \in Int /\ (l # Notice => l \in Legs)
    BY MaxLegsAssumption DEF Legs, LegIds, Notice
  <2>3. d.status = "active" /\ l # Notice /\ l < d.used
          => d.leg[l].resp \in Committed /\ s \in {"running", "delivered"}
    BY <1>3, <2>2, MaxLegsAssumption DEF Sound, Pending, LegIds
  <2>4. d.lease /\ l > 1 => s \in {"registered"} \cup Ended
    <3>1. SUFFICES ASSUME d.lease, l > 1
                   PROVE  FALSE
      OBVIOUS
    <3>2. l \in Legs
      BY <2>2, <3>1, MaxLegsAssumption DEF LegIds, Legs
    <3>3. d.leg[l].status \in {"registered", "absent"} \cup Ended
      BY <3>1, <3>2 DEF Sound
    <3>4. l \in Int
      BY DEF LegIds
    <3>5. "registered" \notin expected
      BY <3>1, <3>4
    <3>6. QED
      BY <1>3, <3>3, <3>5 DEF Pending, Ended
  <2>5. d.status \in Closed /\ l # Notice => s \notin {"submitting", "queued"}
    BY <1>3, <2>2 DEF Sound, Closed
  <2>6. QED
    BY <1>2, <1>3, <2>1, <2>3, <2>4, <2>5, WriteFacts DEF Moved
<1>4. CASE d.leg[l].status \notin expected
  <2>1. e = d
    BY <1>4 DEF SetLeg
  <2>2. Kept(d, d) /\ Only(d, d, l)
    BY DEF Kept, Ends, Only
  <2>3. QED
    BY <1>4, <2>1, <2>2 DEF Moved
<1>5. QED
  BY <1>3, <1>4

(* commit_exchange_response answers the last leg and no other. *)
Answered(d, e) ==
    /\ Kept(d, e) /\ d.status = "active"
    /\ d.used + 1 \in Legs /\ d.leg[d.used + 1].status = "absent"
    /\ e.used = d.used + 1 /\ e.lease = d.lease /\ e.status = d.status
    /\ e.leg[d.used + 1].status = "registered"
    /\ \A k \in LegIds : k # d.used + 1 => e.leg[k].status = d.leg[k].status

LEMMA CommitFacts ==
    ASSUME NEW d, Sound(d), NEW l \in Legs, NEW request \in BOOLEAN,
           NEW how \in Committed, CanCommit(d, l, request)
    PROVE  l = d.used /\ Answered(d, CommitResponse(d, l, request, how))
<1> DEFINE e == CommitResponse(d, l, request, how)
           n == d.used + 1
<1>1. d \in Ledgers /\ d.status = "active" /\ d.used > 0
  BY DEF Sound, CanCommit
<1>2. /\ \A k \in Legs : k \in LegIds /\ k \in Int /\ k > 0
      /\ d.used \in Int /\ d.used \in LegIds /\ l \in Int /\ MaxLegs \in Int
  BY <1>1, LedgerShape, MaxLegsAssumption DEF Legs, LegIds
<1>3. l = d.used
  <2>1. l <= d.used
    BY <1>2 DEF CanCommit, Sound
  <2>2. ~(l < d.used)
    BY <1>1 DEF CanCommit, Sound, Committed
  <2>3. QED
    BY <1>2, <2>1, <2>2
<1>4. n \in Legs /\ n \in LegIds /\ (request => n < MaxLegs)
  BY <1>1, <1>2 DEF CanCommit, BudgetLeft, Legs, LegIds
<1>5. d.leg[n].status = "absent"
  BY <1>2, <1>4 DEF Sound
<1>6. /\ e.used = n /\ e.lease = d.lease /\ e.status = "active"
      /\ e.requested = d.requested
  BY <1>1 DEF CommitResponse
<1> DEFINE r == [status |-> d.leg[l].status, resp |-> how, expects |-> d.leg[l].expects]
<1>7. e.leg = [[d.leg EXCEPT ![l] = r] EXCEPT ![n] = NewLeg(request)]
  BY DEF CommitResponse, Write
<1>8. r \in LegRecords /\ r.status = d.leg[l].status /\ r.resp = how
  BY <1>1, <1>2, LedgerShape DEF LegRecords
<1>9. /\ NewLeg(request) \in LegRecords /\ NewLeg(request).status = "registered"
      /\ NewLeg(request).expects = request
  BY DEF NewLeg, LegRecords, Pending
<1> HIDE DEF r
<1>10. /\ e.leg \in [LegIds -> LegRecords] /\ e.leg[n] = NewLeg(request)
       /\ e.leg[l] = r
       /\ \A k \in LegIds : k # n /\ k # l => e.leg[k] = d.leg[k]
  <2>1. PICK g : g = [d.leg EXCEPT ![l] = r]
    OBVIOUS
  <2>2. /\ g \in [LegIds -> LegRecords] /\ g[l] = r
        /\ \A k \in LegIds : k # l => g[k] = d.leg[k]
    BY <1>1, <1>2, <1>8, <2>1, LedgerShape
  <2>3. e.leg = [g EXCEPT ![n] = NewLeg(request)]
    BY <1>7, <2>1
  <2>4. n # l
    BY <1>2, <1>3
  <2>5. QED
    BY <1>2, <1>4, <1>9, <2>2, <2>3, <2>4
<1>11. e \in Ledgers
  BY <1>1, <1>4, <1>6, <1>10, LedgerShape DEF Ledgers, CommitResponse, Open
<1> HIDE DEF e
<1>12. \A k \in LegIds : k # n => e.leg[k].status = d.leg[k].status
  BY <1>8, <1>10
<1>13. Sound(e)
  <2>1. ASSUME NEW k \in Legs
        PROVE  e.leg[k].status = "absent" <=> k > e.used
    <3>1. d.leg[k].status = "absent" <=> k > d.used
      BY DEF Sound
    <3>2. CASE k = n
      BY <1>2, <1>6, <1>9, <1>10, <3>2
    <3>3. CASE k # n
      <4>1. e.leg[k].status = d.leg[k].status
        BY <1>2, <1>12, <3>3
      <4>2. k \in Int /\ d.used \in Int /\ e.used = d.used + 1 /\ k # d.used + 1
        BY <1>2, <1>6, <3>3
      <4>3. QED
        <5>1. k > d.used <=> k > d.used + 1
          BY <4>2
        <5>2. QED
          BY <3>1, <4>1, <4>2, <5>1
    <3>4. QED
      BY <3>2, <3>3
  <2>2. \A k \in Legs : k < e.used => /\ e.leg[k].resp \in Committed
                                      /\ e.leg[k].status \in {"running", "delivered"}
    BY <1>1, <1>2, <1>3, <1>6, <1>8, <1>10, <1>12 DEF Sound, CanCommit
  <2>3. e.leg[e.used].expects => e.used < MaxLegs
    BY <1>4, <1>6, <1>9, <1>10
  <2>4. e.lease => \A k \in Legs : k > 1 =>
                      e.leg[k].status \in {"registered", "absent"} \cup Ended
    BY <1>2, <1>6, <1>9, <1>10, <1>12 DEF Sound
  <2>5. e.used > 0
    BY <1>1, <1>2, <1>6
  <2>6. QED
    BY <1>6, <1>11, <2>1, <2>2, <2>3, <2>4, <2>5 DEF Sound, Closed
<1>14. Ends(d, e)
  BY <1>1, <1>5, <1>12 DEF Ends, Closed, Ended
<1>15. QED
  BY <1>1, <1>3, <1>4, <1>5, <1>6, <1>9, <1>10, <1>12, <1>13, <1>14
     DEF Kept, Answered, e

(* cancel_exchange *)
LEMMA CancelFacts ==
    ASSUME NEW d, Sound(d), NEW s \in {"cancelled", "failed"}
    PROVE  LET e == CancelExchange(d, s)
           IN  /\ Kept(d, e) /\ Only(d, e, d.used)
               /\ e.used = d.used /\ e.lease = d.lease
               /\ e.leg[d.used].status \in {d.leg[d.used].status} \cup Ended
               /\ d.leg[d.used].status = "absent" => e.leg[d.used].status = "absent"
<1> DEFINE e == CancelExchange(d, s)
           l == d.used
<1>1. d \in Ledgers /\ d.used \in LegIds /\ s \in Closed \ {"completed"} /\ s \in Ended
  BY LedgerShape DEF Sound, Closed, Ended
<1>2. CASE d.status \in Open /\ d.used > 0 /\ d.leg[d.used].status \in Pending
  <2> DEFINE t == IF d.leg[d.used].status = "running" THEN "running" ELSE s
  <2>1. e = Write(d, l, t, "closed", s)
    BY <1>2 DEF CancelExchange
  <2>2. t \in {d.leg[l].status} \cup Ended /\ t \in Pending \cup Ended
    BY <1>1, <1>2
  <2>3. d.lease /\ l > 1 => t \in {"registered"} \cup Ended
    <3>1. l > 1 => l \in Legs
      BY <1>1, MaxLegsAssumption DEF LegIds, Legs
    <3>2. d.lease /\ l > 1 => d.leg[l].status # "running"
      BY <3>1 DEF Sound, Ended
    <3>3. QED
      BY <1>1, <3>2
  <2>4. d.status \notin Closed
    BY <1>2 DEF Open, Closed
  <2>5. d.leg[l].status # "absent" /\ l # Notice /\ t \notin {"submitting", "queued"}
    BY <1>1, <1>2 DEF Pending, Notice
  <2> HIDE DEF t
  <2>6. /\ Kept(d, e) /\ Only(d, e, l) /\ e.used = d.used /\ e.lease = d.lease
        /\ e.status = s /\ e.leg[l].status = t
    BY <1>1, <1>2, <2>1, <2>2, <2>3, <2>4, <2>5, WriteFacts DEF Closed
  <2>7. QED
    BY <2>2, <2>5, <2>6
<1>3. CASE ~(d.status \in Open /\ d.used > 0 /\ d.leg[d.used].status \in Pending)
  <2>1. e = CloseExchange(d, s)
    BY <1>3 DEF CancelExchange
  <2>2. Kept(d, e) /\ e.leg = d.leg /\ e.used = d.used /\ e.lease = d.lease
    <3>1. d.status = "active" => d.leg[d.used].status \notin {"submitting", "queued"}
      BY <1>3 DEF Sound, Open, Pending
    <3>2. QED
      BY <1>1, <2>1, <3>1, CloseFacts
  <2>3. QED
    BY <2>2 DEF Only
<1>4. QED
  BY <1>2, <1>3

(* cancel_exact_queued_exchange_leg *)
LEMMA CancelQueuedFacts ==
    ASSUME NEW d, Sound(d), NEW l \in LegIds, d.leg[l].status = "queued",
           l = Notice \/ d.status # "active" \/ l = d.used
    PROVE  LET e == CancelQueuedLeg(d, l)
           IN  /\ Kept(d, e) /\ Only(d, e, l) /\ e.used = d.used /\ e.lease = d.lease
               /\ e.leg[l].status = "cancelled"
<1> DEFINE e == CancelQueuedLeg(d, l)
           x == IF l # Notice /\ d.status = "active" THEN "cancelled" ELSE d.status
<1>1. e = Write(d, l, "cancelled", "closed", x)
  BY DEF CancelQueuedLeg
<1>2. d \in Ledgers /\ d.used \in Int /\ d.status \in Open \cup Closed
  BY LedgerShape DEF Sound, LegIds
<1>3. /\ x \in {d.status} \cup Closed
      /\ d.status \in Closed => x = d.status
      /\ ~(x = "active" /\ l # Notice)
      /\ x = "completed" => d.status = "completed"
      /\ x \in Closed /\ d.status \notin Closed => l = d.used /\ l # Notice
  BY DEF Closed
<1>4. "cancelled" \in Ended /\ "queued" \in Pending
  BY DEF Ended, Pending
<1> HIDE DEF x, e
<1>5. /\ Kept(d, e) /\ Only(d, e, l) /\ e.used = d.used /\ e.lease = d.lease
      /\ e.leg[l].status = "cancelled"
  BY <1>1, <1>2, <1>3, <1>4, WriteFacts
<1>6. QED
  BY <1>5 DEF e

(* create_exchange_status_leg *)
LEMMA StatusLegFacts ==
    ASSUME NEW d, Sound(d), d.leg[Notice].status = "absent"
    PROVE  LET e == CreateStatusLeg(d)
           IN  /\ Kept(d, e) /\ Only(d, e, Notice)
               /\ e.used = d.used /\ e.lease = d.lease /\ e.status = d.status
               /\ e.leg[Notice].status = "registered"
<1> DEFINE e == CreateStatusLeg(d)
<1>1. e = Write(d, Notice, "registered", "closed", d.status)
  BY DEF CreateStatusLeg
<1>2. Notice \in LegIds /\ Notice <= 1 /\ "registered" \in Pending
  BY MaxLegsAssumption DEF Notice, LegIds, Pending
<1>3. d.status \in Open \cup Closed
  BY LedgerShape DEF Sound
<1>4. QED
  BY <1>1, <1>2, <1>3, WriteFacts

(* bind_recovered_cross_chat_queue_item, for every row still owed. *)
LEMMA RebindFacts ==
    ASSUME NEW d, Sound(d), NEW R \in SUBSET LegIds,
           \A l \in R : d.leg[l].status \in {"submitting", "queued"},
           NEW g, g = [l \in LegIds |-> IF l \in R
                                        THEN [d.leg[l] EXCEPT !.status = "queued"]
                                        ELSE d.leg[l]]
    PROVE  LET e == [Downgrade(d) EXCEPT !.leg = g]
           IN  /\ Kept(d, e) /\ e.used = d.used /\ e.status = d.status
               /\ \A l \in LegIds : e.leg[l].status = IF l \in R THEN "queued"
                                                      ELSE d.leg[l].status
<1>1. PICK c : c = Downgrade(d)
  OBVIOUS
<1>2. /\ Sound(c) /\ c.leg = d.leg /\ c.used = d.used /\ c.status = d.status
      /\ c.lease = (d.lease /\ d.status # "active")
  BY <1>1, DowngradeFacts DEF Kept
<1>3. d \in Ledgers /\ c \in Ledgers
  BY <1>2 DEF Sound
<1>4. PICK e : e = [c EXCEPT !.leg = g]
  OBVIOUS
<1>5. /\ e.leg = g /\ e.used = c.used /\ e.status = c.status /\ e.lease = c.lease
      /\ e = [status |-> c.status, used |-> c.used, lease |-> c.lease,
              requested |-> c.requested, leg |-> g]
  BY <1>3, <1>4 DEF Ledgers
<1>6. ASSUME NEW l \in LegIds
      PROVE  /\ g[l] \in LegRecords /\ g[l].resp = d.leg[l].resp
             /\ g[l].expects = d.leg[l].expects
             /\ g[l].status = IF l \in R THEN "queued" ELSE d.leg[l].status
  <2>1. d.leg[l] \in LegRecords
    BY <1>3, LedgerShape
  <2>2. CASE l \in R
    <3>1. g[l] = [d.leg[l] EXCEPT !.status = "queued"]
      BY <2>2
    <3>2. QED
      BY <2>1, <2>2, <3>1 DEF LegRecords, Pending
  <2>3. CASE l \notin R
    <3>1. g[l] = d.leg[l]
      BY <2>3
    <3>2. QED
      BY <2>1, <2>3, <3>1
  <2>4. QED
    BY <2>2, <2>3
<1>7. g \in [LegIds -> LegRecords]
  <2>1. \A l \in LegIds : g[l] \in LegRecords
    BY <1>6
  <2>2. QED
    BY <2>1
<1>8. e \in Ledgers
  BY <1>3, <1>5, <1>7, LedgerShape DEF Ledgers
<1>9. /\ \A k \in Legs : k \in LegIds /\ k \in Int /\ k > 0
      /\ d.used \in Int /\ d.used \in LegIds
  BY <1>3, LedgerShape, MaxLegsAssumption DEF Legs, LegIds
<1>10. Sound(e)
  <2>1. \A k \in Legs : e.leg[k].status = "absent" <=> k > e.used
    BY <1>2, <1>5, <1>6, <1>9 DEF Sound
  <2>2. e.status = "active" =>
          \A k \in Legs : k < e.used => /\ e.leg[k].resp \in Committed
                                        /\ e.leg[k].status \in {"running", "delivered"}
    BY <1>2, <1>5, <1>6, <1>9 DEF Sound
  <2>3. e.status = "active" /\ e.leg[e.used].expects => e.used < MaxLegs
    BY <1>2, <1>5, <1>6, <1>9 DEF Sound
  <2>4. e.status = "completed" => /\ e.used > 0
                                  /\ e.leg[e.used].status = "delivered"
                                  /\ ~e.leg[e.used].expects
    BY <1>2, <1>5, <1>6, <1>9 DEF Sound
  <2>5. e.lease => \A k \in Legs : k > 1 =>
                      e.leg[k].status \in {"registered", "absent"} \cup Ended
    BY <1>2, <1>5, <1>6, <1>9 DEF Sound, Ended
  <2>6. /\ e.status = "waiting_request" => e.used = 0
        /\ e.status = "active" => e.used > 0
    BY <1>2, <1>5 DEF Sound
  <2>7. e.status \in Closed => \A k \in Legs : e.leg[k].status \notin {"submitting", "queued"}
    BY <1>2, <1>5, <1>6, <1>9 DEF Sound
  <2>8. QED
    BY <1>8, <2>1, <2>2, <2>3, <2>4, <2>5, <2>6, <2>7 DEF Sound
<1>11. Ends(d, e)
  BY <1>2, <1>5, <1>6 DEF Ends, Ended
<1>12. QED
  BY <1>1, <1>2, <1>4, <1>5, <1>6, <1>10, <1>11 DEF Kept

-----------------------------------------------------------------------------
(* What every step keeps. *)

Starts == \A l \in LegIds : owner'[l] = "running" /\ owner[l] # "running"
                              => owner[l] = "admitted"
Good == ExchangeInv' /\ Ends(db, db') /\ Starts

LEMMA LegBounds ==
    /\ \A k \in Legs : k \in LegIds /\ k \in Int /\ k > 0
    /\ \A k \in LegIds : k \in Int /\ k >= 0 /\ (k # Notice => k \in Legs)
    /\ Notice \in LegIds /\ Notice = 0 /\ 1 \in Legs /\ NoLeg = -1 /\ NoLeg \notin LegIds
BY MaxLegsAssumption DEF Legs, LegIds, Notice, NoLeg

LEMMA AskGood ==
    ASSUME ExchangeInv, NEW live \in LiveCalls, NEW expects \in BOOLEAN, Ask(live, expects)
    PROVE  Good
<1>1. live \in BOOLEAN
  BY ExchangeAssumption
<1>2. /\ Kept(db, db') /\ Only(db, db', 1) /\ db.leg[1].status = "absent"
      /\ db.status = "waiting_request"
      /\ db'.leg[1].status = "registered" /\ db'.status = "active"
  <2>1. db' = InitialLeg(db, live, expects) /\ Sound(db) /\ db.status = "waiting_request"
    BY DEF Ask, ExchangeInv
  <2>2. db'.leg[1] = NewLeg(expects) /\ db'.status = "active"
    BY <2>1, LegBounds DEF InitialLeg, Sound, Ledgers
  <2>3. QED
    BY <1>1, <2>1, <2>2, InitialLegFacts DEF NewLeg
<1>3. db.leg[1].status = "absent" /\ \A k \in Legs : db.leg[k].status = "absent"
  BY <1>2, LegBounds DEF ExchangeInv, Sound
<1>4. TypeOK'
  BY <1>2 DEF ExchangeInv, TypeOK, Ask, Kept, Sound
<1>5. ASSUME NEW k \in LegIds
      PROVE  OwnerTrue(k)'
  BY <1>2, <1>3, LegBounds DEF ExchangeInv, Ask, OwnerTrue, Only, Ended
<1>6. HandingTrue' /\ ReconTrue' /\ DownTrue'
  BY <1>2, <1>3, LegBounds DEF ExchangeInv, Ask, HandingTrue, ReconTrue, DownTrue, Only, Ended, Closed, TypeOK
<1>7. QED
  BY <1>2, <1>4, <1>5, <1>6 DEF Good, ExchangeInv, Kept, Starts, Ask

(* The frame: a leg that a step does not touch, and a reconciliation that  *)
(* is about another leg.                                                   *)
LEMMA OwnerFrame ==
    ASSUME NEW k \in LegIds, OwnerTrue(k),
           owner'[k] = owner[k], outcome'[k] = outcome[k],
           db'.leg[k].status = db.leg[k].status,
           (k \in submitter') = (k \in submitter),
           k \in direct' => k \in direct,
           k \in submitter => recon'.leg # k,
           k # Notice /\ owner[k] = "admitted" => db'.status = db.status /\ db'.used = db.used
    PROVE  OwnerTrue(k)'
BY DEF OwnerTrue

LEMMA ReconFrame ==
    ASSUME ReconTrue, recon' = recon, Ends(db, db'),
           recon # Idle => /\ db'.leg[recon.leg].status = db.leg[recon.leg].status
                           /\ owner'[recon.leg] = owner[recon.leg]
    PROVE  ReconTrue'
BY DEF ReconTrue, Ends, Idle

LEMMA SameKept == ASSUME Sound(db) PROVE Kept(db, db)
BY DEF Kept, Ends

LEMMA KeptTwice ==
    ASSUME NEW c, NEW d, NEW e, Kept(c, d), Kept(d, e)
    PROVE  Kept(c, e)
BY DEF Kept, Ends

LEMMA KeptTyped == ASSUME NEW d, NEW e, Kept(d, e) PROVE e \in Ledgers
BY DEF Kept, Sound

(* register_or_replay_cross_chat_live_waiter *)
LEMMA RegisterWaiterGood ==
    ASSUME ExchangeInv, RegisterWaiter
    PROVE  Good
<1>1. /\ Kept(db, db') /\ db'.leg = db.leg /\ db'.status = db.status
      /\ db'.used = db.used
  BY SameKept, DowngradeFacts DEF ExchangeInv, RegisterWaiter
<1>2. TypeOK'
  BY <1>1, KeptTyped, LegBounds DEF ExchangeInv, TypeOK, RegisterWaiter
<1>3. ASSUME NEW k \in LegIds
      PROVE  OwnerTrue(k)'
  BY <1>1, LegBounds DEF ExchangeInv, TypeOK, OwnerTrue, Only, RegisterWaiter
<1>4. HandingTrue' /\ DownTrue'
  BY <1>1, LegBounds DEF ExchangeInv, TypeOK, HandingTrue, DownTrue, Only,
     RegisterWaiter
<1>5. ReconTrue'
  BY <1>1, LegBounds DEF ExchangeInv, TypeOK, ReconTrue, OwnerTrue, Only, RegisterWaiter
<1>6. Starts
  BY DEF Starts, ExchangeInv, TypeOK, RegisterWaiter
<1>7. QED
  BY <1>1, <1>2, <1>3, <1>4, <1>5, <1>6 DEF Good, ExchangeInv, Kept

(* _revoke_cross_chat_capability, for the asking run *)
LEMMA SourceEndsGood ==
    ASSUME ExchangeInv, SourceEnds
    PROVE  Good
<1>1. /\ Kept(db, db') /\ db'.leg = db.leg /\ db'.status = db.status
      /\ db'.used = db.used
  BY SameKept, DowngradeFacts DEF ExchangeInv, SourceEnds, Detach
<1>2. TypeOK'
  BY <1>1, KeptTyped, LegBounds DEF ExchangeInv, TypeOK, SourceEnds, Detach
<1>3. ASSUME NEW k \in LegIds
      PROVE  OwnerTrue(k)'
  BY <1>1, LegBounds DEF ExchangeInv, TypeOK, OwnerTrue, Only, SourceEnds, Detach
<1>4. HandingTrue' /\ DownTrue'
  BY <1>1, LegBounds DEF ExchangeInv, TypeOK, HandingTrue, DownTrue, Only, SourceEnds,
     Detach
<1>5. ReconTrue'
  BY <1>1, LegBounds DEF ExchangeInv, TypeOK, ReconTrue, OwnerTrue, Only, SourceEnds,
     Detach
<1>6. Starts
  BY DEF Starts, ExchangeInv, TypeOK, SourceEnds, Detach
<1>7. QED
  BY <1>1, <1>2, <1>3, <1>4, <1>5, <1>6 DEF Good, ExchangeInv, Kept

(* The placeholder of a request that was never sent *)
LEMMA FailUnsentGood ==
    ASSUME ExchangeInv, FailUnsent
    PROVE  Good
<1>1. /\ Kept(db, db') /\ db'.leg = db.leg /\ db.status # "active"
      /\ db'.used = db.used /\ db'.lease = db.lease /\ db'.status \in Closed
  <2>1. "failed" \in Closed \ {"completed"} /\ db.status \in Open
    BY DEF FailUnsent, Closed, Open
  <2>2. QED
    BY <2>1, CloseFacts DEF ExchangeInv, FailUnsent
<1>2. TypeOK'
  BY <1>1, KeptTyped, LegBounds DEF ExchangeInv, TypeOK, FailUnsent
<1>3. ASSUME NEW k \in LegIds
      PROVE  OwnerTrue(k)'
  BY <1>1, LegBounds DEF ExchangeInv, TypeOK, OwnerTrue, Only, FailUnsent
<1>4. HandingTrue' /\ DownTrue'
  BY <1>1, LegBounds DEF ExchangeInv, TypeOK, HandingTrue, DownTrue, Only, FailUnsent
<1>5. ReconTrue'
  BY <1>1, LegBounds DEF ExchangeInv, TypeOK, ReconTrue, OwnerTrue, Only, FailUnsent
<1>6. Starts
  BY DEF Starts, ExchangeInv, TypeOK, FailUnsent
<1>7. QED
  BY <1>1, <1>2, <1>3, <1>4, <1>5, <1>6 DEF Good, ExchangeInv, Kept

(* _submit_cross_chat_exchange_leg_locked, the claim *)
LEMMA ClaimGood ==
    ASSUME ExchangeInv, NEW l \in LegIds, Claim(l)
    PROVE  Good
<1>1. /\ Kept(db, db') /\ Only(db, db', l) /\ db'.status = db.status
      /\ db'.used = db.used /\ db'.lease = db.lease
      /\ db.leg[l].status = "registered" /\ db'.leg[l].status = "submitting"
      /\ l <= 1 \/ ~db.lease
  <2>1. /\ l <= 1 \/ ~db.lease
        /\ l = Notice \/ db.status = "active"
        /\ db' = SetLeg(db, l, {"registered"}, "submitting") /\ Sound(db)
        /\ db.leg[l].status = "registered"
    BY LegBounds DEF Claim, Deliverable, ExchangeInv
  <2>2. {"registered"} \in SUBSET Pending /\ "submitting" \in Pending
    BY DEF Pending
  <2>3. Moved(db, db', l, {"registered"}, "submitting")
    BY <2>1, <2>2, SetLegFacts
  <2>4. QED
    BY <2>1, <2>3 DEF Moved
<1>2. TypeOK'
  BY <1>1, KeptTyped, LegBounds DEF ExchangeInv, TypeOK, Claim, LegUnlocked
<1>3. ASSUME NEW k \in LegIds
      PROVE  OwnerTrue(k)'
  BY <1>1, LegBounds DEF ExchangeInv, TypeOK, OwnerTrue, Only, Claim, LegUnlocked, Ended
<1>4. HandingTrue' /\ DownTrue'
  BY <1>1, LegBounds DEF ExchangeInv, TypeOK, HandingTrue, DownTrue, Only, Claim,
     LegUnlocked
<1>5. ReconTrue'
  BY <1>1, LegBounds DEF ExchangeInv, TypeOK, ReconTrue, OwnerTrue, Only, Claim,
     LegUnlocked, Ended, Idle
<1>6. Starts
  BY DEF Starts, ExchangeInv, TypeOK, Claim, LegUnlocked
<1>7. QED
  BY <1>1, <1>2, <1>3, <1>4, <1>5, <1>6 DEF Good, ExchangeInv, Kept

(* enqueue_turn, the queue owner *)
LEMMA BindQueueGood ==
    ASSUME ExchangeInv, NEW l \in LegIds, BindQueue(l)
    PROVE  Good
<1>1. /\ Kept(db, db') /\ Only(db, db', l) /\ db'.status = db.status
      /\ db'.used = db.used /\ db'.lease = db.lease
      /\ db.leg[l].status = "submitting" /\ db'.leg[l].status = "queued"
  <2>1. /\ db' = SetLeg(db, l, {"submitting"}, "queued") /\ Sound(db)
        /\ db.leg[l].status = "submitting"
    BY DEF BindQueue, ExchangeInv
  <2>2. {"submitting"} \in SUBSET Pending /\ "queued" \in Pending
    BY DEF Pending
  <2>3. Moved(db, db', l, {"submitting"}, "queued")
    BY <2>1, <2>2, SetLegFacts
  <2>4. QED
    BY <2>1, <2>3 DEF Moved
<1>2. TypeOK'
  BY <1>1, KeptTyped, LegBounds DEF ExchangeInv, TypeOK, BindQueue, Owners
<1>3. ASSUME NEW k \in LegIds
      PROVE  OwnerTrue(k)'
  BY <1>1, LegBounds, ZenonT(40) DEF ExchangeInv, TypeOK, OwnerTrue, Only, BindQueue, Ended
<1>4. HandingTrue' /\ DownTrue'
  BY <1>1, LegBounds DEF ExchangeInv, TypeOK, HandingTrue, DownTrue, Only, BindQueue
<1>5. ReconTrue'
  BY <1>1, LegBounds DEF ExchangeInv, TypeOK, ReconTrue, OwnerTrue, Only, BindQueue,
     Ended, Idle
<1>6. Starts
  BY DEF Starts, ExchangeInv, TypeOK, BindQueue
<1>7. QED
  BY <1>1, <1>2, <1>3, <1>4, <1>5, <1>6 DEF Good, ExchangeInv, Kept

(* enqueue_turn, the durable event *)
LEMMA PersistQueuedGood ==
    ASSUME ExchangeInv, NEW l \in LegIds, PersistQueued(l)
    PROVE  Good
<1>1. Kept(db, db') /\ db' = db
  BY SameKept DEF ExchangeInv, PersistQueued
<1>2. TypeOK'
  BY <1>1, KeptTyped, LegBounds DEF ExchangeInv, TypeOK, PersistQueued, Owners
<1>3. ASSUME NEW k \in LegIds
      PROVE  OwnerTrue(k)'
  BY <1>1, LegBounds DEF ExchangeInv, TypeOK, OwnerTrue, Only, PersistQueued
<1>4. HandingTrue' /\ DownTrue'
  BY <1>1, LegBounds DEF ExchangeInv, TypeOK, HandingTrue, DownTrue, Only, PersistQueued
<1>5. ReconTrue'
  BY <1>1, LegBounds DEF ExchangeInv, TypeOK, ReconTrue, OwnerTrue, Only,
     PersistQueued, Ended, Idle
<1>6. Starts
  BY DEF Starts, ExchangeInv, TypeOK, PersistQueued
<1>7. QED
  BY <1>1, <1>2, <1>3, <1>4, <1>5, <1>6 DEF Good, ExchangeInv, Kept

(* A claim lost to a cancellation *)
LEMMA SubmitAbandonedGood ==
    ASSUME ExchangeInv, NEW l \in LegIds, SubmitAbandoned(l)
    PROVE  Good
<1>1. Kept(db, db') /\ db' = db
  BY SameKept DEF ExchangeInv, SubmitAbandoned
<1>2. TypeOK'
  BY <1>1, KeptTyped, LegBounds DEF ExchangeInv, TypeOK, SubmitAbandoned
<1>3. ASSUME NEW k \in LegIds
      PROVE  OwnerTrue(k)'
  BY <1>1, LegBounds DEF ExchangeInv, TypeOK, OwnerTrue, Only, SubmitAbandoned
<1>4. HandingTrue' /\ DownTrue'
  BY <1>1, LegBounds DEF ExchangeInv, TypeOK, HandingTrue, DownTrue, Only,
     SubmitAbandoned
<1>5. ReconTrue'
  BY <1>1, LegBounds DEF ExchangeInv, TypeOK, ReconTrue, OwnerTrue, Only,
     SubmitAbandoned, Ended, Idle
<1>6. Starts
  BY DEF Starts, ExchangeInv, TypeOK, SubmitAbandoned
<1>7. QED
  BY <1>1, <1>2, <1>3, <1>4, <1>5, <1>6 DEF Good, ExchangeInv, Kept

(* CURRENT_TURNS gets the run *)
LEMMA BindRunGood ==
    ASSUME ExchangeInv, NEW l \in LegIds, BindRun(l)
    PROVE  Good
<1>1. Kept(db, db') /\ db' = db
  BY SameKept DEF ExchangeInv, BindRun
<1>2. TypeOK'
  BY <1>1, KeptTyped, LegBounds DEF ExchangeInv, TypeOK, BindRun, Owners
<1>3. ASSUME NEW k \in LegIds
      PROVE  OwnerTrue(k)'
  BY <1>1, LegBounds DEF ExchangeInv, TypeOK, OwnerTrue, Only, BindRun, Ended
<1>4. HandingTrue' /\ DownTrue'
  BY <1>1, LegBounds DEF ExchangeInv, TypeOK, HandingTrue, DownTrue, Only, BindRun
<1>5. ReconTrue'
  BY <1>1, LegBounds DEF ExchangeInv, TypeOK, ReconTrue, OwnerTrue, Only, BindRun,
     Ended, Idle
<1>6. Starts
  BY DEF Starts, ExchangeInv, TypeOK, BindRun
<1>7. QED
  BY <1>1, <1>2, <1>3, <1>4, <1>5, <1>6 DEF Good, ExchangeInv, Kept

(* remove_cross_chat_exchange_leg_queue_owner *)
LEMMA RemoveTerminalRowGood ==
    ASSUME ExchangeInv, NEW l \in LegIds, RemoveTerminalRow(l)
    PROVE  Good
<1>1. Kept(db, db') /\ db' = db
  BY SameKept DEF ExchangeInv, RemoveTerminalRow
<1>2. TypeOK'
  BY <1>1, KeptTyped, LegBounds DEF ExchangeInv, TypeOK, RemoveTerminalRow, Owners
<1>3. ASSUME NEW k \in LegIds
      PROVE  OwnerTrue(k)'
  BY <1>1, LegBounds, ZenonT(40) DEF ExchangeInv, TypeOK, OwnerTrue, Only, RemoveTerminalRow
<1>4. HandingTrue' /\ DownTrue'
  BY <1>1, LegBounds DEF ExchangeInv, TypeOK, HandingTrue, DownTrue, Only,
     RemoveTerminalRow
<1>5. ReconTrue'
  BY <1>1, LegBounds DEF ExchangeInv, TypeOK, ReconTrue, OwnerTrue, Only,
     RemoveTerminalRow, Ended, Idle
<1>6. Starts
  BY DEF Starts, ExchangeInv, TypeOK, RemoveTerminalRow
<1>7. QED
  BY <1>1, <1>2, <1>3, <1>4, <1>5, <1>6 DEF Good, ExchangeInv, Kept

(* The fsynced turn_started and the provider launch *)
LEMMA LaunchGood ==
    ASSUME ExchangeInv, NEW l \in LegIds, Launch(l)
    PROVE  Good
<1>1. Kept(db, db') /\ db' = db
  BY SameKept DEF ExchangeInv, Launch
<1>2. TypeOK'
  BY <1>1, KeptTyped, LegBounds DEF ExchangeInv, TypeOK, Launch, Owners
<1>3. ASSUME NEW k \in LegIds
      PROVE  OwnerTrue(k)'
  BY <1>1, LegBounds DEF ExchangeInv, TypeOK, OwnerTrue, Only, Launch, Ended
<1>4. HandingTrue' /\ DownTrue'
  BY <1>1, LegBounds DEF ExchangeInv, TypeOK, HandingTrue, DownTrue, Only, Launch
<1>5. ReconTrue'
  BY <1>1, LegBounds DEF ExchangeInv, TypeOK, ReconTrue, OwnerTrue, Only, Launch,
     Ended, Idle
<1>6. Starts
  BY DEF Starts, ExchangeInv, TypeOK, Launch
<1>7. QED
  BY <1>1, <1>2, <1>3, <1>4, <1>5, <1>6 DEF Good, ExchangeInv, Kept

(* settle_claimed_submission_failure *)
LEMMA SubmitFailsGood ==
    ASSUME ExchangeInv, NEW l \in LegIds, SubmitFails(l)
    PROVE  Good
<1>1. /\ Kept(db, db') /\ Only(db, db', l) /\ db'.status = db.status
      /\ db'.used = db.used /\ db'.lease = db.lease
      /\ \/ db'.leg[l].status = db.leg[l].status
         \/ db'.leg[l].status \in Ended /\ db.leg[l].status # "absent"
         \/ db'.leg[l].status = "registered" /\ db.leg[l].status \in {"submitting", "queued"}
  <2> DEFINE from == {"submitting", IF owner[l] = "private" THEN "queued" ELSE "submitting"}
  <2>1. Sound(db) /\ SettleFailure(l, from)
    BY DEF ExchangeInv, SubmitFails
  <2>2. from \in SUBSET Pending /\ from \subseteq {"submitting", "queued"}
        /\ "running" \notin from /\ "registered" \notin from
        /\ "registered" \in Pending /\ "failed" \in Ended
    BY DEF Pending, Ended
  <2> HIDE DEF from
  <2>3. CASE db' = SetLeg(db, l, from, "registered")
    <3>1. /\ Kept(db, db') /\ Only(db, db', l) /\ db'.status = db.status
          /\ db'.used = db.used /\ db'.lease = db.lease
          /\ db'.leg[l].status = IF db.leg[l].status \in from THEN "registered"
                                 ELSE db.leg[l].status
      <4>1. Moved(db, db', l, from, "registered")
        BY <2>1, <2>2, <2>3, SetLegFacts
      <4>2. QED
        BY <4>1 DEF Moved
    <3>2. QED
      BY <2>2, <3>1
  <2>4. CASE l = Notice /\ db' = FinishLeg(db, l, "failed", FALSE)
    <3>1. Fits(db, l, "failed", FALSE)
      BY <2>4 DEF Fits
    <3>2. Finished(db, db', l)
      BY <2>1, <2>2, <2>4, <3>1, FinishLegFacts
    <3>3. db.leg[l].status # "absent"
      BY DEF SubmitFails, ExchangeInv, OwnerTrue
    <3>4. QED
      BY <2>4, <3>2, <3>3 DEF Finished
  <2>5. QED
    BY <2>1, <2>3, <2>4 DEF SettleFailure
<1>2. TypeOK'
  BY <1>1, KeptTyped, LegBounds DEF ExchangeInv, TypeOK, SubmitFails, Owners
<1>3. ASSUME NEW k \in LegIds
      PROVE  OwnerTrue(k)'
  <2>1. OwnerTrue(k) /\ OwnerTrue(l)
    BY DEF ExchangeInv
  <2>2. CASE k # l
    <3>1. /\ owner'[k] = owner[k] /\ outcome'[k] = outcome[k]
          /\ (k \in submitter') = (k \in submitter) /\ direct' = direct /\ recon' = recon
      BY <2>2 DEF ExchangeInv, TypeOK, SubmitFails
    <3>2. db'.leg[k].status = db.leg[k].status
      BY <1>1, <2>2 DEF Only, Finished
    <3>3. k # Notice /\ owner[k] = "admitted" => db'.status = db.status /\ db'.used = db.used
      BY <1>1, <2>1, <2>2 DEF OwnerTrue, Finished
    <3>4. QED
      BY <2>1, <3>1, <3>2, <3>3, OwnerFrame DEF OwnerTrue
  <2>3. CASE k = l
    BY <1>1, <2>1, <2>3, LegBounds DEF ExchangeInv, TypeOK, OwnerTrue, Finished,
       SubmitFails, Ended
  <2>4. QED
    BY <2>2, <2>3
<1>4. HandingTrue' /\ DownTrue'
  BY <1>1, LegBounds DEF ExchangeInv, TypeOK, HandingTrue, DownTrue, Only, SubmitFails,
     Finished
<1>5. ReconTrue'
  <2>1. ReconTrue /\ recon' = recon /\ Ends(db, db') /\ OwnerTrue(l)
    BY <1>1 DEF ExchangeInv, Kept, Finished, SubmitFails
  <2>2. CASE recon.leg # l
    <3>1. ASSUME recon # Idle
          PROVE  /\ recon.leg \in LegIds
                 /\ db'.leg[recon.leg].status = db.leg[recon.leg].status
                 /\ owner'[recon.leg] = owner[recon.leg]
      <4>1. recon.leg \in LegIds
        BY <2>1, <3>1 DEF ReconTrue
      <4>2. QED
        BY <1>1, <2>2, <4>1 DEF Only, Finished, ExchangeInv, TypeOK, SubmitFails
    <3>2. QED
      BY <2>1, <3>1, ReconFrame
  <2>3. CASE recon.leg = l
    BY <1>1, <2>1, <2>3, LegBounds DEF ExchangeInv, TypeOK, ReconTrue, OwnerTrue, Ends,
       Finished, SubmitFails, Ended, Idle
  <2>4. QED
    BY <2>2, <2>3
<1>6. Starts
  BY DEF Starts, ExchangeInv, TypeOK, SubmitFails
<1>7. QED
  BY <1>1, <1>2, <1>3, <1>4, <1>5, <1>6 DEF Good, ExchangeInv, Kept

(* admit_cross_chat_delivery_run, the compare-and-set *)
LEMMA AdmitGood ==
    ASSUME ExchangeInv, NEW l \in LegIds, Admit(l)
    PROVE  Good
<1>1. /\ Kept(db, db') /\ Only(db, db', l) /\ db'.status = db.status
      /\ db'.used = db.used /\ db'.lease = db.lease
      /\ db.leg[l].status \in {"submitting", "queued"} /\ db'.leg[l].status = "running"
      /\ l = Notice \/ (db.status = "active" /\ l = db.used)
  <2>1. /\ db' = SetLeg(db, l, {Expected(l)}, "running") /\ Sound(db)
        /\ db.leg[l].status = Expected(l) /\ Expected(l) \in {"submitting", "queued"}
    BY DEF Admit, Admissible, Expected, ExchangeInv
  <2>2. {Expected(l)} \in SUBSET Pending /\ "running" \in Pending
    BY <2>1 DEF Pending
  <2>3. l = Notice \/ (db.status = "active" /\ l = db.used)
    <3>1. SUFFICES ASSUME l # Notice
                   PROVE  db.status = "active" /\ l = db.used
      OBVIOUS
    <3>2. /\ l \in Legs /\ l \in Int /\ l > 0 /\ db.used \in Int
          /\ db.status \in Open \cup Closed
      BY <2>1, <3>1, LegBounds, LedgerShape DEF Sound
    <3>3. db.status = "active"
      BY <2>1, <3>2 DEF Sound, Open
    <3>4. QED
      BY <2>1, <3>2, <3>3 DEF Sound
  <2>4. Moved(db, db', l, {Expected(l)}, "running")
    BY <2>1, <2>2, SetLegFacts
  <2>5. QED
    BY <2>1, <2>3, <2>4 DEF Moved
<1>2. TypeOK'
  BY <1>1, KeptTyped, LegBounds DEF ExchangeInv, TypeOK, Admit, Owners
<1>3. ASSUME NEW k \in LegIds
      PROVE  OwnerTrue(k)'
  BY <1>1, LegBounds, ZenonT(40) DEF ExchangeInv, TypeOK, OwnerTrue, Only, Admit, Ended
<1>4. HandingTrue' /\ DownTrue'
  BY <1>1, LegBounds DEF ExchangeInv, TypeOK, HandingTrue, DownTrue, Only, Admit
<1>5. ReconTrue'
  BY <1>1, LegBounds DEF ExchangeInv, TypeOK, ReconTrue, OwnerTrue, Only, Admit, Ended,
     Idle
<1>6. Starts
  BY DEF Starts, ExchangeInv, TypeOK, Admit
<1>7. QED
  BY <1>1, <1>2, <1>3, <1>4, <1>5, <1>6 DEF Good, ExchangeInv, Kept

(* A run whose admission was refused *)
LEMMA AdmitRejectedGood ==
    ASSUME ExchangeInv, NEW l \in LegIds, AdmitRejected(l)
    PROVE  Good
<1>1. /\ Kept(db, db') /\ Only(db, db', l) /\ db'.used = db.used /\ db'.lease = db.lease
      /\ db'.status # db.status => db.status = "active" /\ l = db.used /\ l # Notice
      /\ db'.leg[l].status = db.leg[l].status \/ db'.leg[l].status \in Ended
  <2>1. Sound(db) /\ "failed" \in Ended /\ Fits(db, l, "failed", TRUE)
    BY DEF ExchangeInv, Ended, Fits
  <2>2. CASE db' = db
    BY <2>1, <2>2, SameKept DEF Only
  <2>3. CASE db' = FinishLeg(db, l, "failed", TRUE)
    <3>1. Finished(db, db', l)
      BY <2>1, <2>3, FinishLegFacts
    <3>2. QED
      BY <3>1 DEF Finished
  <2>4. QED
    BY <2>2, <2>3 DEF AdmitRejected
<1>2. TypeOK'
  BY <1>1, KeptTyped, LegBounds DEF ExchangeInv, TypeOK, AdmitRejected, Owners
<1>3. ASSUME NEW k \in LegIds
      PROVE  OwnerTrue(k)'
  <2>1. OwnerTrue(k) /\ OwnerTrue(l)
    BY DEF ExchangeInv
  <2>2. CASE k # l
    <3>1. /\ owner'[k] = owner[k] /\ outcome'[k] = outcome[k]
          /\ (k \in submitter') = (k \in submitter) /\ direct' = direct /\ recon' = recon
      BY <2>2 DEF ExchangeInv, TypeOK, AdmitRejected
    <3>2. db'.leg[k].status = db.leg[k].status
      BY <1>1, <2>2 DEF Only, Finished
    <3>3. k # Notice /\ owner[k] = "admitted" => db'.status = db.status /\ db'.used = db.used
      BY <1>1, <2>1, <2>2 DEF OwnerTrue, Finished
    <3>4. QED
      BY <2>1, <3>1, <3>2, <3>3, OwnerFrame DEF OwnerTrue
  <2>3. CASE k = l
    BY <1>1, <2>1, <2>3, LegBounds DEF ExchangeInv, TypeOK, OwnerTrue, Finished,
       AdmitRejected, Ended
  <2>4. QED
    BY <2>2, <2>3
<1>4. HandingTrue' /\ DownTrue'
  BY <1>1, LegBounds DEF ExchangeInv, TypeOK, HandingTrue, DownTrue, Only,
     AdmitRejected, Finished
<1>5. ReconTrue'
  <2>1. ReconTrue /\ recon' = recon /\ Ends(db, db') /\ OwnerTrue(l)
    BY <1>1 DEF ExchangeInv, Kept, Finished, AdmitRejected
  <2>2. CASE recon.leg # l
    <3>1. ASSUME recon # Idle
          PROVE  /\ recon.leg \in LegIds
                 /\ db'.leg[recon.leg].status = db.leg[recon.leg].status
                 /\ owner'[recon.leg] = owner[recon.leg]
      <4>1. recon.leg \in LegIds
        BY <2>1, <3>1 DEF ReconTrue
      <4>2. QED
        BY <1>1, <2>2, <4>1 DEF Only, Finished, ExchangeInv, TypeOK, AdmitRejected
    <3>2. QED
      BY <2>1, <3>1, ReconFrame
  <2>3. CASE recon.leg = l
    BY <1>1, <2>1, <2>3, LegBounds, ZenonT(40) DEF ExchangeInv, TypeOK, ReconTrue, OwnerTrue, Ends,
       Finished, AdmitRejected, Ended, Idle
  <2>4. QED
    BY <2>2, <2>3
<1>6. Starts
  BY DEF Starts, ExchangeInv, TypeOK, AdmitRejected
<1>7. QED
  BY <1>1, <1>2, <1>3, <1>4, <1>5, <1>6 DEF Good, ExchangeInv, Kept

(* A launch that failed *)
LEMMA LaunchFailsGood ==
    ASSUME ExchangeInv, NEW l \in LegIds, LaunchFails(l)
    PROVE  Good
<1>1. Finished(db, db', l)
  <2>1. Sound(db) /\ "failed" \in Ended /\ Fits(db, l, "failed", TRUE)
    BY DEF ExchangeInv, Ended, Fits
  <2>2. QED
    BY <2>1, FinishLegFacts DEF LaunchFails
<1>2. TypeOK'
  <2>1. db' \in Ledgers
    BY <1>1, KeptTyped DEF Finished
  <2>2. owner' \in [LegIds -> Owners] /\ journal' \subseteq LegIds /\ submitter' \subseteq LegIds
    BY DEF ExchangeInv, TypeOK, LaunchFails, Owners
  <2>3. QED
    BY <2>1, <2>2 DEF ExchangeInv, TypeOK, LaunchFails
<1>3. ASSUME NEW k \in LegIds
      PROVE  OwnerTrue(k)'
  <2>1. OwnerTrue(k) /\ OwnerTrue(l)
    BY DEF ExchangeInv
  <2>2. CASE k # l
    <3>1. /\ owner'[k] = owner[k] /\ outcome'[k] = outcome[k]
          /\ (k \in submitter') = (k \in submitter) /\ direct' = direct /\ recon' = recon
      BY <2>2 DEF ExchangeInv, TypeOK, LaunchFails
    <3>2. db'.leg[k].status = db.leg[k].status
      BY <1>1, <2>2 DEF Only, Finished
    <3>3. k # Notice /\ owner[k] = "admitted" => db'.status = db.status /\ db'.used = db.used
      BY <1>1, <2>1, <2>2 DEF OwnerTrue, Finished
    <3>4. QED
      BY <2>1, <3>1, <3>2, <3>3, OwnerFrame DEF OwnerTrue
  <2>3. CASE k = l
    BY <1>1, <2>1, <2>3, LegBounds, ZenonT(40) DEF ExchangeInv, TypeOK, OwnerTrue, Finished,
       LaunchFails, Ended, Pending
  <2>4. QED
    BY <2>2, <2>3
<1>4. HandingTrue' /\ DownTrue'
  BY <1>1, LegBounds DEF ExchangeInv, TypeOK, HandingTrue, DownTrue, Only, LaunchFails,
     Finished
<1>5. ReconTrue'
  <2>1. ReconTrue /\ recon' = recon /\ Ends(db, db') /\ OwnerTrue(l)
    BY <1>1 DEF ExchangeInv, Kept, Finished, LaunchFails
  <2>2. CASE recon.leg # l
    <3>1. ASSUME recon # Idle
          PROVE  /\ recon.leg \in LegIds
                 /\ db'.leg[recon.leg].status = db.leg[recon.leg].status
                 /\ owner'[recon.leg] = owner[recon.leg]
      <4>1. recon.leg \in LegIds
        BY <2>1, <3>1 DEF ReconTrue
      <4>2. QED
        BY <1>1, <2>2, <4>1 DEF Only, Finished, ExchangeInv, TypeOK, LaunchFails
    <3>2. QED
      BY <2>1, <3>1, ReconFrame
  <2>3. CASE recon.leg = l
    BY <1>1, <2>1, <2>3, LegBounds DEF ExchangeInv, TypeOK, ReconTrue, OwnerTrue, Ends,
       Finished, LaunchFails, Ended, Idle, Pending
  <2>4. QED
    BY <2>2, <2>3
<1>6. Starts
  BY DEF Starts, ExchangeInv, TypeOK, LaunchFails
<1>7. QED
  BY <1>1, <1>2, <1>3, <1>4, <1>5, <1>6 DEF Good, ExchangeInv, Kept, Finished

(* The terminal event of the target run *)
LEMMA RunEndsGood ==
    ASSUME ExchangeInv, NEW l \in LegIds, NEW o \in {"ok", "failed"}, RunEnds(l, o)
    PROVE  Good
<1>1. /\ Kept(db, db') /\ db'.leg = db.leg /\ db'.status = db.status
      /\ db'.used = db.used
  BY SameKept, DowngradeFacts DEF ExchangeInv, RunEnds, Detach
<1>2. TypeOK'
  BY <1>1, KeptTyped, LegBounds DEF ExchangeInv, TypeOK, RunEnds, Detach, Owners
<1>3. ASSUME NEW k \in LegIds
      PROVE  OwnerTrue(k)'
  BY <1>1, LegBounds DEF ExchangeInv, TypeOK, OwnerTrue, Only, RunEnds, Detach, Ended
<1>4. HandingTrue' /\ DownTrue'
  BY <1>1, LegBounds DEF ExchangeInv, TypeOK, HandingTrue, DownTrue, Only, RunEnds,
     Detach
<1>5. ReconTrue'
  BY <1>1, LegBounds DEF ExchangeInv, TypeOK, ReconTrue, OwnerTrue, Only, RunEnds,
     Detach, Ended, Idle
<1>6. Starts
  BY DEF Starts, ExchangeInv, TypeOK, RunEnds, Detach
<1>7. QED
  BY <1>1, <1>2, <1>3, <1>4, <1>5, <1>6 DEF Good, ExchangeInv, Kept

(* finalize_cross_chat_exchange_run *)
LEMMA FinalizeGood ==
    ASSUME ExchangeInv, NEW l \in LegIds, Finalize(l)
    PROVE  Good
<1>1. Finished(db, db', l)
  <2>1. Sound(db) /\ "failed" \in Ended /\ "delivered" \in Ended
    BY DEF ExchangeInv, Ended
  <2>2. CASE db' = FinishLeg(db, l, "delivered", FALSE)
    <3>1. Fits(db, l, "delivered", FALSE)
      BY DEF Fits
    <3>2. QED
      BY <2>1, <2>2, <3>1, FinishLegFacts
  <2>3. CASE db' = FinishLeg(db, l, "failed", l # Notice)
    <3>1. (l # Notice) \in BOOLEAN /\ Fits(db, l, "failed", l # Notice)
      BY DEF Fits
    <3>2. QED
      BY <2>1, <2>3, <3>1, FinishLegFacts
  <2>4. QED
    BY <2>2, <2>3 DEF Finalize
<1>2. TypeOK'
  <2>1. db' \in Ledgers
    BY <1>1, KeptTyped DEF Finished
  <2>2. owner' \in [LegIds -> Owners]
    BY DEF ExchangeInv, TypeOK, Finalize, Owners
  <2>3. QED
    BY <2>1, <2>2 DEF ExchangeInv, TypeOK, Finalize
<1>3. ASSUME NEW k \in LegIds
      PROVE  OwnerTrue(k)'
  <2>1. OwnerTrue(k) /\ OwnerTrue(l)
    BY DEF ExchangeInv
  <2>2. CASE k # l
    <3>1. /\ owner'[k] = owner[k] /\ outcome'[k] = outcome[k]
          /\ (k \in submitter') = (k \in submitter) /\ direct' = direct /\ recon' = recon
      BY <2>2 DEF ExchangeInv, TypeOK, Finalize
    <3>2. db'.leg[k].status = db.leg[k].status
      BY <1>1, <2>2 DEF Only, Finished
    <3>3. k # Notice /\ owner[k] = "admitted" => db'.status = db.status /\ db'.used = db.used
      BY <1>1, <2>1, <2>2 DEF OwnerTrue, Finished
    <3>4. QED
      BY <2>1, <3>1, <3>2, <3>3, OwnerFrame DEF OwnerTrue
  <2>3. CASE k = l
    BY <1>1, <2>1, <2>3, LegBounds, ZenonT(40) DEF ExchangeInv, TypeOK, OwnerTrue, Finished,
       Finalize, Ended, Pending
  <2>4. QED
    BY <2>2, <2>3
<1>4. HandingTrue' /\ DownTrue'
  BY <1>1, LegBounds DEF ExchangeInv, TypeOK, HandingTrue, DownTrue, Only, Finalize,
     Finished
<1>5. ReconTrue'
  <2>1. ReconTrue /\ recon' = recon /\ Ends(db, db') /\ OwnerTrue(l)
    BY <1>1 DEF ExchangeInv, Kept, Finished, Finalize
  <2>2. CASE recon.leg # l
    <3>1. ASSUME recon # Idle
          PROVE  /\ recon.leg \in LegIds
                 /\ db'.leg[recon.leg].status = db.leg[recon.leg].status
                 /\ owner'[recon.leg] = owner[recon.leg]
      <4>1. recon.leg \in LegIds
        BY <2>1, <3>1 DEF ReconTrue
      <4>2. QED
        BY <1>1, <2>2, <4>1 DEF Only, Finished, ExchangeInv, TypeOK, Finalize
    <3>2. QED
      BY <2>1, <3>1, ReconFrame
  <2>3. CASE recon.leg = l
    <3>1. owner'[l] \in {"none", "answering"}
      BY DEF ExchangeInv, TypeOK, Finalize
    <3>2. QED
      BY <1>1, <2>1, <2>3, <3>1 DEF ReconTrue, Ends, Finished, Ended, Idle, Pending
  <2>4. QED
    BY <2>2, <2>3
<1>6. Starts
  BY DEF Starts, ExchangeInv, TypeOK, Finalize
<1>7. QED
  BY <1>1, <1>2, <1>3, <1>4, <1>5, <1>6 DEF Good, ExchangeInv, Kept, Finished

(* skip_queued_cross_chat_delivery *)
LEMMA SkipQueuedGood ==
    ASSUME ExchangeInv, NEW l \in LegIds, SkipQueued(l)
    PROVE  Good
<1>1. /\ Kept(db, db') /\ Only(db, db', l) /\ db'.used = db.used
      /\ db'.lease = db.lease /\ db'.leg[l].status = "cancelled"
      /\ \A k \in LegIds : owner[k] # "admitted"
  BY CancelQueuedFacts DEF SkipQueued, ExchangeInv, ExchangeUnlocked
<1>2. TypeOK'
  BY <1>1, KeptTyped, LegBounds DEF ExchangeInv, TypeOK, SkipQueued, Owners
<1>3. ASSUME NEW k \in LegIds
      PROVE  OwnerTrue(k)'
  <2>1. OwnerTrue(k) /\ OwnerTrue(l)
    BY DEF ExchangeInv
  <2>2. CASE k # l
    <3>1. /\ owner'[k] = owner[k] /\ outcome'[k] = outcome[k]
          /\ (k \in submitter') = (k \in submitter) /\ direct' = direct /\ recon' = recon
      BY <2>2 DEF ExchangeInv, TypeOK, SkipQueued
    <3>2. db'.leg[k].status = db.leg[k].status
      BY <1>1, <2>2 DEF Only, Finished
    <3>3. k # Notice /\ owner[k] = "admitted" => db'.status = db.status /\ db'.used = db.used
      BY <1>1, <2>1, <2>2 DEF OwnerTrue, Finished
    <3>4. QED
      BY <2>1, <3>1, <3>2, <3>3, OwnerFrame DEF OwnerTrue
  <2>3. CASE k = l
    BY <1>1, <2>1, <2>3, LegBounds DEF ExchangeInv, TypeOK, OwnerTrue, Finished,
       SkipQueued, Ended
  <2>4. QED
    BY <2>2, <2>3
<1>4. HandingTrue' /\ DownTrue'
  BY <1>1, LegBounds DEF ExchangeInv, TypeOK, HandingTrue, DownTrue, Only, SkipQueued,
     Finished
<1>5. ReconTrue'
  <2>1. ReconTrue /\ recon' = recon /\ Ends(db, db') /\ OwnerTrue(l)
    BY <1>1 DEF ExchangeInv, Kept, Finished, SkipQueued
  <2>2. CASE recon.leg # l
    <3>1. ASSUME recon # Idle
          PROVE  /\ recon.leg \in LegIds
                 /\ db'.leg[recon.leg].status = db.leg[recon.leg].status
                 /\ owner'[recon.leg] = owner[recon.leg]
      <4>1. recon.leg \in LegIds
        BY <2>1, <3>1 DEF ReconTrue
      <4>2. QED
        BY <1>1, <2>2, <4>1 DEF Only, Finished, ExchangeInv, TypeOK, SkipQueued
    <3>2. QED
      BY <2>1, <3>1, ReconFrame
  <2>3. CASE recon.leg = l
    BY <1>1, <2>1, <2>3, LegBounds DEF ExchangeInv, TypeOK, ReconTrue, OwnerTrue, Ends,
       Finished, SkipQueued, Ended, Idle
  <2>4. QED
    BY <2>2, <2>3
<1>6. Starts
  BY DEF Starts, ExchangeInv, TypeOK, SkipQueued
<1>7. QED
  BY <1>1, <1>2, <1>3, <1>4, <1>5, <1>6 DEF Good, ExchangeInv, Kept

(* reconcile_cross_chat_exchange_leg, the reads *)
LEMMA ReconcileReadGood ==
    ASSUME ExchangeInv, NEW l \in LegIds, ReconcileRead(l)
    PROVE  Good
<1>1. Kept(db, db') /\ db' = db
  BY SameKept DEF ExchangeInv, ReconcileRead
<1>2. TypeOK'
  BY <1>1, LegBounds DEF ExchangeInv, TypeOK, ReconcileRead, Todo, LiveState
<1>3. ASSUME NEW k \in LegIds
      PROVE  OwnerTrue(k)'
  BY <1>1, LegBounds DEF ExchangeInv, TypeOK, OwnerTrue, Only, ReconcileRead,
     LegUnlocked
<1>4. HandingTrue' /\ DownTrue'
  BY <1>1, LegBounds DEF ExchangeInv, TypeOK, HandingTrue, DownTrue, Only,
     ReconcileRead, LegUnlocked
<1>5. ReconTrue'
  <2>1. OwnerTrue(l) /\ Sound(db) /\ db.leg[l].status \in Pending /\ l \notin submitter
    BY DEF ExchangeInv, ReconcileRead, LegUnlocked
  <2>2. /\ recon'.leg = l /\ recon'.status = db.leg[l].status /\ recon'.todo = Todo(l)
        /\ db' = db /\ owner' = owner
    BY DEF ReconcileRead
  <2>3. Todo(l) # "none"
    BY DEF Todo, LiveState
  <2>4. ASSUME Todo(l) = "lost"
        PROVE  l # Notice /\ db.leg[l].status = "registered"
    <3>1. l > 1 /\ db.lease
      BY <2>4 DEF Todo, LiveState
    <3>2. QED
      BY <2>1, <3>1, LegBounds DEF Sound, Pending, Ended
  <2>5. ASSUME Todo(l) = "close"
        PROVE  l # Notice /\ db.status \in Closed
    <3>1. l # Notice /\ db.status # "active"
      BY <2>5 DEF Todo, LiveState, Deliverable
    <3>2. l \in Legs /\ l > 0 /\ db.status \in Open \cup Closed
      BY <2>1, <3>1, LegBounds, LedgerShape DEF Sound
    <3>3. db.status # "waiting_request"
      BY <2>1, <3>2 DEF Sound, Pending
    <3>4. QED
      BY <3>1, <3>2, <3>3 DEF Open
  <2>6. ASSUME Todo(l) = "queued"
        PROVE  db.leg[l].status = "queued"
    <3>1. owner[l] = "listed"
      BY <2>6 DEF Todo, LiveState
    <3>2. QED
      BY <2>1, <3>1 DEF OwnerTrue, Pending, Ended
  <2>7. ASSUME Todo(l) = "running"
        PROVE  db.leg[l].status # "registered" /\ owner[l] # "listed"
    <3>1. owner[l] \in {"bound", "admitted", "running"}
      BY <2>7 DEF Todo, LiveState
    <3>2. QED
      BY <2>1, <3>1 DEF OwnerTrue, Ended
  <2>8. ASSUME Todo(l) \in {"settle", "resubmit"}
        PROVE  owner[l] \in {"none", "ended", "answering"}
    <3>1. owner[l] \in Owners /\ owner[l] \notin {"listed", "bound", "admitted", "running"}
      BY <2>8 DEF Todo, LiveState, ExchangeInv, TypeOK
    <3>2. QED
      BY <2>1, <3>1 DEF OwnerTrue, Owners
  <2>9. QED
    BY <2>1, <2>2, <2>3, <2>4, <2>5, <2>6, <2>7, <2>8 DEF ReconTrue
<1>6. Starts
  BY DEF Starts, ExchangeInv, TypeOK, ReconcileRead, LegUnlocked
<1>7. QED
  BY <1>1, <1>2, <1>3, <1>4, <1>5, <1>6 DEF Good, ExchangeInv, Kept

(* commit_exchange_response without a lease *)
LEMMA ReplyAsyncGood ==
    ASSUME ExchangeInv, NEW l \in Legs, NEW request \in BOOLEAN, ReplyAsync(l, request)
    PROVE  Good
<1>1. /\ Kept(db, db') /\ db.used + 1 \in Legs /\ db.leg[db.used + 1].status = "absent"
      /\ db'.used = db.used + 1 /\ db'.status = db.status /\ db.status = "active"
      /\ db'.leg[db.used + 1].status = "registered"
      /\ \A k \in LegIds : k # db.used + 1 => db'.leg[k].status = db.leg[k].status
      /\ \A k \in LegIds : k # Notice => owner[k] # "admitted"
  <2>1. /\ Sound(db) /\ CanCommit(db, l, request) /\ "explicit_committed" \in Committed
        /\ db' = CommitResponse(db, l, request, "explicit_committed") /\ RunAlive(l)
        /\ l \in LegIds /\ l = db.used
    BY CommitFacts, LegBounds DEF ExchangeInv, ReplyAsync, Committed
  <2>2. \A k \in LegIds : k # Notice => owner[k] # "admitted"
    <3>1. ASSUME NEW k \in LegIds, k # Notice, owner[k] = "admitted"
          PROVE  FALSE
      <4>1. k = db.used /\ db.leg[k].status = "running" /\ OwnerTrue(l)
        BY <3>1, LegBounds DEF ExchangeInv, OwnerTrue
      <4>2. owner[l] = "running" \/ db.leg[l].status \in Ended
        BY <4>1, LegBounds DEF ReplyAsync, RunAlive, OwnerTrue
      <4>3. QED
        BY <2>1, <3>1, <4>1, <4>2 DEF Ended
    <3>2. QED
      BY <3>1
  <2>3. Answered(db, db')
    BY <2>1, CommitFacts
  <2>4. QED
    BY <2>2, <2>3 DEF Answered
<1>2. TypeOK'
  BY <1>1, KeptTyped, LegBounds DEF ExchangeInv, TypeOK, ReplyAsync
<1>3. ASSUME NEW k \in LegIds
      PROVE  OwnerTrue(k)'
  BY <1>1, LegBounds DEF ExchangeInv, TypeOK, OwnerTrue, Only, ReplyAsync, Ended
<1>4. HandingTrue' /\ DownTrue'
  BY <1>1, LegBounds DEF ExchangeInv, TypeOK, HandingTrue, DownTrue, Only, ReplyAsync
<1>5. ReconTrue'
  <2>1. /\ ReconTrue /\ recon' = recon /\ Ends(db, db')
        /\ recon # Idle => owner'[recon.leg] = owner[recon.leg] \/ owner'[recon.leg] = "none"
    BY <1>1 DEF ExchangeInv, Kept, ReplyAsync, ReconTrue, TypeOK
  <2>2. CASE recon.leg = db.used + 1
    BY <1>1, <2>1, <2>2, LegBounds DEF ExchangeInv, ReconTrue, OwnerTrue, Ends, Ended,
       Closed
  <2>3. CASE recon.leg # db.used + 1
    <3>1. recon # Idle => recon.leg \in LegIds /\ db'.leg[recon.leg].status = db.leg[recon.leg].status
      BY <1>1, <2>1, <2>3 DEF ReconTrue
    <3>2. QED
      BY <2>1, <3>1 DEF ReconTrue, Ends, Idle
  <2>4. QED
    BY <2>2, <2>3
<1>6. Starts
  BY DEF Starts, ExchangeInv, TypeOK, ReplyAsync
<1>7. QED
  BY <1>1, <1>2, <1>3, <1>4, <1>5, <1>6 DEF Good, ExchangeInv, Kept

(* commit_exchange_response for a waiting call *)
LEMMA ReplyLiveGood ==
    ASSUME ExchangeInv, NEW l \in Legs, NEW request \in BOOLEAN, ReplyLive(l, request)
    PROVE  Good
<1>1. /\ Kept(db, db') /\ db.used + 1 \in Legs /\ db.leg[db.used + 1].status = "absent"
      /\ db'.used = db.used + 1 /\ db'.status = db.status /\ db.status = "active"
      /\ db'.leg[db.used + 1].status = "registered"
      /\ \A k \in LegIds : k # db.used + 1 => db'.leg[k].status = db.leg[k].status
      /\ \A k \in LegIds : k # Notice => owner[k] # "admitted"
      /\ db'.lease /\ handing' = db.used + 1
  <2>1. /\ Sound(db) /\ CanCommit(db, l, request) /\ "explicit_committed" \in Committed
        /\ db' = CommitResponse(db, l, request, "explicit_committed") /\ RunAlive(l)
        /\ l \in LegIds /\ l = db.used
    BY CommitFacts, LegBounds DEF ExchangeInv, ReplyLive, CommitLive, Committed
  <2>2. \A k \in LegIds : k # Notice => owner[k] # "admitted"
    <3>1. ASSUME NEW k \in LegIds, k # Notice, owner[k] = "admitted"
          PROVE  FALSE
      <4>1. k = db.used /\ db.leg[k].status = "running" /\ OwnerTrue(l)
        BY <3>1, LegBounds DEF ExchangeInv, OwnerTrue
      <4>2. owner[l] = "running" \/ db.leg[l].status \in Ended
        BY <4>1, LegBounds DEF ReplyLive, RunAlive, OwnerTrue
      <4>3. QED
        BY <2>1, <3>1, <4>1, <4>2 DEF Ended
    <3>2. QED
      BY <3>1
  <2>3. Answered(db, db')
    BY <2>1, CommitFacts
  <2>4. QED
    BY <2>2, <2>3 DEF Answered, ReplyLive, CommitLive
<1>2. TypeOK'
  BY <1>1, KeptTyped, LegBounds DEF ExchangeInv, TypeOK, ReplyLive, CommitLive
<1>3. ASSUME NEW k \in LegIds
      PROVE  OwnerTrue(k)'
  BY <1>1, LegBounds DEF ExchangeInv, TypeOK, OwnerTrue, Only, ReplyLive, CommitLive,
     Ended
<1>4. HandingTrue' /\ DownTrue'
  <2>1. db.used \in Int /\ db.used > 0 /\ OwnerTrue(db.used + 1)
    BY <1>1, LegBounds, LedgerShape DEF ExchangeInv, Sound
  <2>2. QED
    BY <1>1, <2>1 DEF ExchangeInv, HandingTrue, DownTrue, OwnerTrue, ReplyLive,
       CommitLive
<1>5. ReconTrue'
  <2>1. /\ ReconTrue /\ recon' = recon /\ Ends(db, db')
        /\ recon # Idle => owner'[recon.leg] = owner[recon.leg] \/ owner'[recon.leg] = "none"
    BY <1>1 DEF ExchangeInv, Kept, ReplyLive, ReconTrue, TypeOK
  <2>2. CASE recon.leg = db.used + 1
    BY <1>1, <2>1, <2>2, LegBounds DEF ExchangeInv, ReconTrue, OwnerTrue, Ends, Ended,
       Closed
  <2>3. CASE recon.leg # db.used + 1
    <3>1. recon # Idle => recon.leg \in LegIds /\ db'.leg[recon.leg].status = db.leg[recon.leg].status
      BY <1>1, <2>1, <2>3 DEF ReconTrue
    <3>2. QED
      BY <2>1, <3>1 DEF ReconTrue, Ends, Idle
  <2>4. QED
    BY <2>2, <2>3
<1>6. Starts
  BY DEF Starts, ExchangeInv, TypeOK, ReplyLive, CommitLive
<1>7. QED
  BY <1>1, <1>2, <1>3, <1>4, <1>5, <1>6 DEF Good, ExchangeInv, Kept

(* commit_exchange_response finds the exchange overdue *)
LEMMA ReplyExpiredGood ==
    ASSUME ExchangeInv, NEW l \in Legs, ReplyExpired(l)
    PROVE  Good
<1>1. /\ Kept(db, db') /\ db'.leg = db.leg /\ db'.used = db.used /\ db'.lease = db.lease
      /\ \A k \in LegIds : k # Notice => owner[k] # "admitted"
  <2>0. /\ Sound(db) /\ CanCommit(db, l, FALSE) /\ RunAlive(l)
        /\ "automatic_committed" \in Committed /\ "expired" \in Closed \ {"completed"}
        /\ l \in LegIds /\ db' = CloseExchange(db, "expired")
    BY LegBounds DEF ExchangeInv, ReplyExpired, Committed, Closed
  <2>1. l = db.used
    BY <2>0, CommitFacts
  <2>2. \A k \in LegIds : k # Notice => owner[k] # "admitted"
    <3>1. ASSUME NEW k \in LegIds, k # Notice, owner[k] = "admitted"
          PROVE  FALSE
      <4>1. k = db.used /\ db.leg[k].status = "running" /\ OwnerTrue(l)
        BY <3>1, LegBounds DEF ExchangeInv, OwnerTrue
      <4>2. owner[l] = "running" \/ db.leg[l].status \in Ended
        BY <4>1, LegBounds DEF ReplyExpired, RunAlive, OwnerTrue
      <4>3. QED
        BY <2>1, <3>1, <4>1, <4>2 DEF Ended
    <3>2. QED
      BY <3>1
  <2>3. db.leg[db.used].status \notin {"submitting", "queued"}
    BY <2>0, <2>1 DEF CanCommit
  <2>4. QED
    BY <2>0, <2>1, <2>2, <2>3, CloseFacts
<1>2. TypeOK'
  BY <1>1, KeptTyped, LegBounds DEF ExchangeInv, TypeOK, ReplyExpired
<1>3. ASSUME NEW k \in LegIds
      PROVE  OwnerTrue(k)'
  BY <1>1, LegBounds DEF ExchangeInv, TypeOK, OwnerTrue, Only, ReplyExpired
<1>4. HandingTrue' /\ DownTrue'
  BY <1>1, LegBounds DEF ExchangeInv, TypeOK, HandingTrue, DownTrue, Only, ReplyExpired
<1>5. ReconTrue'
  BY <1>1, LegBounds DEF ExchangeInv, TypeOK, ReconTrue, OwnerTrue, Only, ReplyExpired,
     Ends, Kept, Idle
<1>6. Starts
  BY DEF Starts, ExchangeInv, TypeOK, ReplyExpired
<1>7. QED
  BY <1>1, <1>2, <1>3, <1>4, <1>5, <1>6 DEF Good, ExchangeInv, Kept

(* deliver_cross_chat_live_response *)
LEMMA DeliverLiveGood ==
    ASSUME ExchangeInv, DeliverLive
    PROVE  Good
<1>1. /\ Finished(db, db', handing) /\ handing \in Legs /\ handing \in LegIds
      /\ db.leg[handing].status = "registered" /\ owner[handing] = "none"
      /\ handing \notin submitter
  <2>1. /\ Sound(db) /\ handing \in Legs /\ handing \in LegIds /\ "delivered" \in Ended
        /\ db' = FinishLeg(db, handing, "delivered", FALSE)
        /\ db.leg[handing].status = "registered" /\ owner[handing] = "none"
        /\ handing \notin submitter
    BY LegBounds DEF ExchangeInv, DeliverLive, HandingTrue, TypeOK, Ended
  <2>2. Fits(db, handing, "delivered", FALSE)
    BY DEF Fits
  <2>3. QED
    BY <2>1, <2>2, FinishLegFacts
<1>2. TypeOK'
  <2>1. db' \in Ledgers
    BY <1>1, KeptTyped DEF Finished
  <2>2. QED
    BY <1>1, <2>1 DEF ExchangeInv, TypeOK, DeliverLive
<1>3. ASSUME NEW k \in LegIds
      PROVE  OwnerTrue(k)'
  <2>1. OwnerTrue(k) /\ db.leg[handing].status \in Pending
    BY <1>1 DEF ExchangeInv, Pending
  <2>2. CASE k # handing
    <3>1. /\ owner' = owner /\ outcome' = outcome /\ submitter' = submitter
          /\ direct' = direct \cup {handing} /\ recon' = recon
      BY DEF DeliverLive
    <3>2. db'.leg[k].status = db.leg[k].status
      BY <1>1, <2>2 DEF Only, Finished
    <3>3. k # Notice /\ owner[k] = "admitted" => db'.status = db.status /\ db'.used = db.used
      BY <1>1, <2>1, <2>2 DEF OwnerTrue, Finished
    <3>4. QED
      BY <2>1, <2>2, <3>1, <3>2, <3>3, OwnerFrame DEF OwnerTrue
  <2>3. CASE k = handing
    <3>1. db'.leg[k].status \in Ended
      BY <1>1, <2>1, <2>3 DEF Finished
    <3>2. QED
      BY <1>1, <2>1, <2>3, <3>1 DEF OwnerTrue, DeliverLive, Ended
  <2>4. QED
    BY <2>2, <2>3
<1>4. HandingTrue' /\ DownTrue'
  BY DEF ExchangeInv, HandingTrue, DownTrue, DeliverLive, NoLeg
<1>5. ReconTrue'
  <2>1. /\ ReconTrue /\ recon' = recon /\ owner' = owner /\ Ends(db, db')
        /\ db.leg[handing].status \in Pending
    BY <1>1 DEF ExchangeInv, Kept, Finished, DeliverLive, Pending
  <2>2. CASE recon.leg # handing
    <3>1. recon # Idle => recon.leg \in LegIds /\ db'.leg[recon.leg].status = db.leg[recon.leg].status
      BY <1>1, <2>1, <2>2 DEF Only, Finished, ReconTrue
    <3>2. QED
      BY <2>1, <3>1, ReconFrame
  <2>3. CASE recon.leg = handing
    BY <1>1, <2>1, <2>3 DEF ReconTrue, Ends, Finished
  <2>4. QED
    BY <2>2, <2>3
<1>6. Starts
  BY DEF Starts, ExchangeInv, TypeOK, DeliverLive
<1>7. QED
  BY <1>1, <1>2, <1>3, <1>4, <1>5, <1>6 DEF Good, ExchangeInv, Kept, Finished

(* The waiting caller is gone *)
LEMMA DeliverLiveFailsGood ==
    ASSUME ExchangeInv, DeliverLiveFails
    PROVE  Good
<1>1. /\ Kept(db, db') /\ db'.leg = db.leg /\ db'.status = db.status
      /\ db'.used = db.used
  BY DowngradeFacts DEF ExchangeInv, DeliverLiveFails
<1>2. TypeOK'
  BY <1>1, KeptTyped, LegBounds DEF ExchangeInv, TypeOK, DeliverLiveFails
<1>3. ASSUME NEW k \in LegIds
      PROVE  OwnerTrue(k)'
  BY <1>1, LegBounds DEF ExchangeInv, TypeOK, OwnerTrue, Only, DeliverLiveFails
<1>4. HandingTrue' /\ DownTrue'
  BY <1>1, LegBounds DEF ExchangeInv, TypeOK, HandingTrue, DownTrue, Only,
     DeliverLiveFails
<1>5. ReconTrue'
  BY <1>1, LegBounds DEF ExchangeInv, TypeOK, ReconTrue, OwnerTrue, Only,
     DeliverLiveFails
<1>6. Starts
  BY DEF Starts, ExchangeInv, TypeOK, DeliverLiveFails
<1>7. QED
  BY <1>1, <1>2, <1>3, <1>4, <1>5, <1>6 DEF Good, ExchangeInv, Kept

(* A live lease without a waiter *)
LEMMA ReconcileLeaseGood ==
    ASSUME ExchangeInv, ReconcileLease
    PROVE  Good
<1>1. /\ Kept(db, db') /\ db'.leg = db.leg /\ db'.status = db.status
      /\ db'.used = db.used
  BY DowngradeFacts DEF ExchangeInv, ReconcileLease
<1>2. TypeOK'
  BY <1>1, KeptTyped, LegBounds DEF ExchangeInv, TypeOK, ReconcileLease
<1>3. ASSUME NEW k \in LegIds
      PROVE  OwnerTrue(k)'
  BY <1>1, LegBounds DEF ExchangeInv, TypeOK, OwnerTrue, Only, ReconcileLease
<1>4. HandingTrue' /\ DownTrue'
  BY <1>1, LegBounds DEF ExchangeInv, TypeOK, HandingTrue, DownTrue, Only,
     ReconcileLease
<1>5. ReconTrue'
  BY <1>1, LegBounds DEF ExchangeInv, TypeOK, ReconTrue, OwnerTrue, Only, ReconcileLease
<1>6. Starts
  BY DEF Starts, ExchangeInv, TypeOK, ReconcileLease
<1>7. QED
  BY <1>1, <1>2, <1>3, <1>4, <1>5, <1>6 DEF Good, ExchangeInv, Kept

(* cancel_cross_chat_exchange *)
LEMMA CancelGood ==
    ASSUME ExchangeInv, NEW s \in {"cancelled", "failed"}, Cancel(s)
    PROVE  Good
<1>1. /\ Kept(db, db') /\ Only(db, db', db.used) /\ db'.used = db.used
      /\ db'.lease = db.lease /\ db.used \in LegIds
      /\ db'.leg[db.used].status \in {db.leg[db.used].status} \cup Ended
      /\ db.leg[db.used].status = "absent" => db'.leg[db.used].status = "absent"
      /\ handing = NoLeg /\ \A k \in LegIds : owner[k] \notin {"private", "admitted"}
  BY CancelFacts, LedgerShape DEF ExchangeInv, Cancel, ExchangeUnlocked, Sound
<1>2. TypeOK'
  BY <1>1, KeptTyped, LegBounds DEF ExchangeInv, TypeOK, Cancel
<1>3. ASSUME NEW k \in LegIds
      PROVE  OwnerTrue(k)'
  BY <1>1, LegBounds DEF ExchangeInv, TypeOK, OwnerTrue, Only, Cancel, Ended
<1>4. HandingTrue' /\ DownTrue'
  BY <1>1, LegBounds DEF ExchangeInv, TypeOK, HandingTrue, DownTrue, Only, Cancel
<1>5. ReconTrue'
  BY <1>1, LegBounds DEF ExchangeInv, TypeOK, ReconTrue, OwnerTrue, Only, Cancel,
     Ended, Ends, Kept, Idle
<1>6. Starts
  BY DEF Starts, ExchangeInv, TypeOK, Cancel
<1>7. QED
  BY <1>1, <1>2, <1>3, <1>4, <1>5, <1>6 DEF Good, ExchangeInv, Kept

(* reconcile_cross_chat_exchanges, expiry *)
LEMMA ExpireGood ==
    ASSUME ExchangeInv, Expire
    PROVE  Good
<1>1. /\ Kept(db, db') /\ Only(db, db', db.used) /\ db'.used = db.used
      /\ db'.lease = db.lease /\ db.used \in LegIds
      /\ db'.leg[db.used].status \in {db.leg[db.used].status} \cup Ended
      /\ db.leg[db.used].status = "absent" => db'.leg[db.used].status = "absent"
      /\ handing = NoLeg /\ \A k \in LegIds : owner[k] \notin {"private", "admitted"}
  <2>1. /\ Sound(db) /\ db.used \in LegIds /\ "expired" \in Closed \ {"completed"}
        /\ "expired" \in Ended
        /\ handing = NoLeg /\ \A k \in LegIds : owner[k] \notin {"private", "admitted"}
    BY LedgerShape DEF ExchangeInv, Sound, Expire, ExchangeUnlocked, Closed, Ended
  <2>2. CASE db.used = 0
    <3>1. db' = CloseExchange(db, "expired")
      BY <2>2 DEF Expire
    <3>2. db.status # "active"
      BY <2>1, <2>2 DEF Sound
    <3>3. QED
      BY <2>1, <3>1, <3>2, CloseFacts DEF Only
  <2>3. CASE db.used # 0
    <3>1. PICK d : d = FinishLeg(db, db.used, "expired", FALSE)
      OBVIOUS
    <3>2. db' = CloseExchange(d, "expired")
      BY <2>3, <3>1 DEF Expire
    <3>3. Fits(db, db.used, "expired", FALSE)
      BY DEF Fits
    <3>4. Finished(db, d, db.used)
      BY <2>1, <3>1, <3>3, FinishLegFacts
    <3>5. Sound(d) /\ d.leg[d.used].status \notin {"submitting", "queued"}
      BY <3>4 DEF Finished, Kept, Pending
    <3>6. Kept(d, db') /\ db'.leg = d.leg /\ db'.used = d.used /\ db'.lease = d.lease
      BY <2>1, <3>2, <3>5, CloseFacts
    <3>7. Kept(db, db')
      BY <3>4, <3>6, KeptTwice DEF Finished
    <3>8. db.used \in Legs /\ ~(db.used > db.used)
      BY <2>1, <2>3, LegBounds DEF Notice
    <3>9. db.leg[db.used].status # "absent"
      BY <2>1, <3>8 DEF Sound
    <3>10. QED
      BY <2>1, <3>4, <3>6, <3>7, <3>9 DEF Finished, Only
  <2>4. QED
    BY <2>2, <2>3
<1>2. TypeOK'
  BY <1>1, KeptTyped, LegBounds DEF ExchangeInv, TypeOK, Expire
<1>3. ASSUME NEW k \in LegIds
      PROVE  OwnerTrue(k)'
  <2>1. /\ owner' = owner /\ outcome' = outcome /\ submitter' = submitter
        /\ direct' = direct /\ recon' = recon /\ OwnerTrue(k)
    BY DEF Expire, ExchangeInv
  <2>2. QED
    BY <1>1, <2>1, LegBounds DEF OwnerTrue, Only, Ended
<1>4. HandingTrue' /\ DownTrue'
  BY <1>1, LegBounds DEF ExchangeInv, TypeOK, HandingTrue, DownTrue, Only, Expire
<1>5. ReconTrue'
  <2>1. owner' = owner /\ recon' = recon /\ ReconTrue
    BY DEF Expire, ExchangeInv
  <2>2. QED
    BY <1>1, <2>1 DEF ReconTrue, Only, Ends, Kept
<1>6. Starts
  BY DEF Starts, ExchangeInv, TypeOK, Expire
<1>7. QED
  BY <1>1, <1>2, <1>3, <1>4, <1>5, <1>6 DEF Good, ExchangeInv, Kept

(* maybe_deliver_cross_chat_exchange_failure_status *)
LEMMA CreateNoticeGood ==
    ASSUME ExchangeInv, CreateNotice
    PROVE  Good
<1>1. /\ Kept(db, db') /\ Only(db, db', Notice) /\ db'.used = db.used
      /\ db'.lease = db.lease /\ db'.status = db.status
      /\ db.leg[Notice].status = "absent"
      /\ db'.leg[Notice].status \in {"registered"} \cup Ended
  <2>1. Sound(db) /\ db.leg[Notice].status = "absent" /\ Notice \in LegIds
    BY LegBounds DEF ExchangeInv, CreateNotice
  <2>2. PICK d : d = CreateStatusLeg(db)
    OBVIOUS
  <2>3. /\ Kept(db, d) /\ Only(db, d, Notice) /\ d.used = db.used /\ d.lease = db.lease
        /\ d.status = db.status /\ d.leg[Notice].status = "registered"
    BY <2>1, <2>2, StatusLegFacts
  <2>4. CASE db' = d
    BY <2>1, <2>3, <2>4
  <2>5. CASE db' = FinishLeg(d, Notice, "failed", FALSE)
    <3>1. Fits(d, Notice, "failed", FALSE) /\ "failed" \in Ended /\ Sound(d)
      BY <2>3 DEF Fits, Ended, Kept
    <3>2. Finished(d, db', Notice)
      BY <2>1, <2>5, <3>1, FinishLegFacts
    <3>3. Kept(db, db')
      BY <2>3, <3>2, KeptTwice DEF Finished
    <3>4. QED
      BY <2>1, <2>3, <3>2, <3>3 DEF Finished, Only
  <2>6. QED
    BY <2>2, <2>4, <2>5 DEF CreateNotice
<1>2. TypeOK'
  BY <1>1, KeptTyped, LegBounds DEF ExchangeInv, TypeOK, CreateNotice
<1>3. ASSUME NEW k \in LegIds
      PROVE  OwnerTrue(k)'
  BY <1>1, LegBounds DEF ExchangeInv, TypeOK, OwnerTrue, Only, CreateNotice, Ended
<1>4. HandingTrue' /\ DownTrue'
  BY <1>1, LegBounds DEF ExchangeInv, TypeOK, HandingTrue, DownTrue, Only, CreateNotice
<1>5. ReconTrue'
  BY <1>1, LegBounds DEF ExchangeInv, TypeOK, ReconTrue, OwnerTrue, Only, CreateNotice,
     Ended, Ends, Kept, Idle
<1>6. Starts
  BY DEF Starts, ExchangeInv, TypeOK, CreateNotice
<1>7. QED
  BY <1>1, <1>2, <1>3, <1>4, <1>5, <1>6 DEF Good, ExchangeInv, Kept

(* reconcile_cross_chat_exchanges, active legs *)
LEMMA ReconcileActiveGood ==
    ASSUME ExchangeInv, ReconcileActive
    PROVE  Good
<1>1. /\ Kept(db, db') /\ db'.leg = db.leg /\ db'.used = db.used /\ db'.lease = db.lease
      /\ db.used \in LegIds /\ handing = NoLeg /\ owner[db.used] = "none"
      /\ db.leg[db.used].status # "absent"
      /\ \A k \in LegIds : k # Notice => owner[k] # "admitted"
      /\ \A k \in LegIds : owner'[k] = owner[k] \/ (owner[k] = "none" /\ owner'[k] = "ended" /\ db.leg[k].status # "absent")
  <2>1. /\ Sound(db) /\ db.used \in LegIds /\ handing = NoLeg /\ owner[db.used] = "none"
        /\ db.leg[db.used].status \in Ended /\ db.status = "active"
    BY LedgerShape DEF ExchangeInv, Sound, ReconcileActive, Ended
  <2>2. \A k \in LegIds : k # Notice => owner[k] # "admitted"
    BY <2>1 DEF ExchangeInv, OwnerTrue
  <2>3. db.leg[db.used].status \notin {"submitting", "queued", "absent"}
    BY <2>1 DEF Ended
  <2>4. /\ Kept(db, db') /\ db'.leg = db.leg /\ db'.used = db.used /\ db'.lease = db.lease
    <3>1. CASE db' = db
      BY <2>1, <3>1, SameKept
    <3>2. CASE db.leg[db.used].status # "delivered"
               /\ db' = CloseExchange(db, db.leg[db.used].status)
      <4>1. db.leg[db.used].status \in Closed \ {"completed"}
        BY <2>1, <3>2 DEF Ended, Closed
      <4>2. QED
        BY <2>1, <2>3, <3>2, <4>1, CloseFacts
    <3>3. QED
      BY <3>1, <3>2 DEF ReconcileActive
  <2>5. \A k \in LegIds : owner'[k] = owner[k]
          \/ (owner[k] = "none" /\ owner'[k] = "ended" /\ db.leg[k].status # "absent")
    BY <2>1, <2>3 DEF ReconcileActive, ExchangeInv, TypeOK
  <2>6. QED
    BY <2>1, <2>2, <2>3, <2>4, <2>5
<1>2. TypeOK'
  BY <1>1, KeptTyped, LegBounds DEF ExchangeInv, TypeOK, ReconcileActive, Owners
<1>3. ASSUME NEW k \in LegIds
      PROVE  OwnerTrue(k)'
  BY <1>1, LegBounds, ZenonT(40) DEF ExchangeInv, TypeOK, OwnerTrue, Only, ReconcileActive, Ended
<1>4. HandingTrue' /\ DownTrue'
  BY <1>1, LegBounds DEF ExchangeInv, TypeOK, HandingTrue, DownTrue, Only,
     ReconcileActive
<1>5. ReconTrue'
  BY <1>1, LegBounds, ZenonT(40) DEF ExchangeInv, TypeOK, ReconTrue, OwnerTrue, Only,
     ReconcileActive, Ends, Kept, Idle
<1>6. Starts
  BY DEF Starts, ExchangeInv, TypeOK, ReconcileActive
<1>7. QED
  BY <1>1, <1>2, <1>3, <1>4, <1>5, <1>6 DEF Good, ExchangeInv, Kept

(* The process dies *)
LEMMA CrashGood ==
    ASSUME ExchangeInv, Crash
    PROVE  Good
<1>1. Kept(db, db') /\ db' = db
  BY SameKept DEF ExchangeInv, Crash
<1>2. TypeOK'
  BY <1>1, KeptTyped, LegBounds DEF ExchangeInv, TypeOK, Crash, Owners, Idle, Pending
<1>3. ASSUME NEW k \in LegIds
      PROVE  OwnerTrue(k)'
  BY <1>1, LegBounds DEF ExchangeInv, TypeOK, OwnerTrue, Only, Crash, Idle
<1>4. HandingTrue' /\ DownTrue'
  BY DEF HandingTrue, DownTrue, Crash
<1>5. ReconTrue'
  BY DEF ReconTrue, Crash
<1>6. Starts
  BY DEF Starts, ExchangeInv, TypeOK, Crash
<1>7. QED
  BY <1>1, <1>2, <1>3, <1>4, <1>5, <1>6 DEF Good, ExchangeInv, Kept

(* bind_recovered_cross_chat_queue_item *)
LEMMA RecoverGood ==
    ASSUME ExchangeInv, Recover
    PROVE  Good
<1>1. /\ Kept(db, db') /\ db'.used = db.used /\ db'.status = db.status
      /\ journal' \subseteq LegIds /\ journal' \subseteq journal
      /\ \A k \in journal' : db.leg[k].status \in {"submitting", "queued"}
      /\ \A k \in LegIds : db'.leg[k].status = IF k \in journal' THEN "queued"
                                                ELSE db.leg[k].status
      /\ owner' = [k \in LegIds |-> IF k \in journal' THEN "listed" ELSE "none"]
      /\ recon = Idle /\ submitter = {} /\ handing = NoLeg
  <2>1. /\ Sound(db) /\ recon = Idle /\ submitter = {} /\ handing = NoLeg
        /\ journal' \subseteq LegIds /\ journal' \subseteq journal
        /\ \A k \in journal' : db.leg[k].status \in {"submitting", "queued"}
    BY DEF ExchangeInv, DownTrue, TypeOK, Recover, Recoverable
  <2>2. PICK g : g = [k \in LegIds |-> IF k \in journal'
                                       THEN [db.leg[k] EXCEPT !.status = "queued"]
                                       ELSE db.leg[k]]
    OBVIOUS
  <2>3. db' = [Downgrade(db) EXCEPT !.leg = g]
    BY <2>2 DEF Recover
  <2>4. /\ Kept(db, db') /\ db'.used = db.used /\ db'.status = db.status
        /\ \A k \in LegIds : db'.leg[k].status = IF k \in journal' THEN "queued"
                                                  ELSE db.leg[k].status
    BY <2>1, <2>2, <2>3, RebindFacts
  <2>5. QED
    BY <2>1, <2>4 DEF Recover
<1>2. TypeOK'
  <2>1. db' \in Ledgers
    BY <1>1, KeptTyped
  <2>2. owner' \in [LegIds -> Owners]
    BY <1>1 DEF Owners
  <2>3. QED
    BY <1>1, <2>1, <2>2 DEF ExchangeInv, TypeOK, Recover
<1>3. ASSUME NEW k \in LegIds
      PROVE  OwnerTrue(k)'
  <2>1. /\ outcome' = outcome /\ submitter' = {} /\ direct' = direct /\ OwnerTrue(k)
        /\ owner'[k] = IF k \in journal' THEN "listed" ELSE "none"
    BY <1>1 DEF ExchangeInv, Recover
  <2>2. QED
    BY <1>1, <2>1 DEF OwnerTrue, Ended
<1>4. HandingTrue' /\ DownTrue'
  BY <1>1 DEF HandingTrue, DownTrue, Recover
<1>5. ReconTrue'
  BY <1>1 DEF ReconTrue, Recover
<1>6. Starts
  BY <1>1 DEF Starts
<1>7. QED
  BY <1>1, <1>2, <1>3, <1>4, <1>5, <1>6 DEF Good, ExchangeInv, Kept

(* finalize_cross_chat_exchange_run, the automatic answer *)
LEMMA AutoAnswerGood ==
    ASSUME ExchangeInv, NEW l \in Legs, AutoAnswer(l)
    PROVE  Good
<1>1. /\ l \in LegIds /\ owner[l] = "answering"
      /\ owner' = [owner EXCEPT ![l] = "none"] /\ handing = NoLeg
      /\ \/ Kept(db, db') /\ db' = db /\ handing' = handing
         \/ /\ Kept(db, db') /\ db.used + 1 \in Legs /\ db.leg[db.used + 1].status = "absent"
            /\ db'.used = db.used + 1 /\ db'.status = db.status /\ db.status = "active"
            /\ db'.leg[db.used + 1].status = "registered"
            /\ \A k \in LegIds : k # db.used + 1 => db'.leg[k].status = db.leg[k].status
            /\ \A k \in LegIds : k # Notice => owner[k] # "admitted"
            /\ handing' = handing \/ (handing' = db.used + 1 /\ db'.lease)
  <2>1. /\ Sound(db) /\ l \in LegIds /\ owner[l] = "answering" /\ handing = NoLeg
        /\ owner' = [owner EXCEPT ![l] = "none"] /\ "automatic_committed" \in Committed
    BY LegBounds DEF ExchangeInv, AutoAnswer, Committed
  <2>2. CASE ~CanCommit(db, l, FALSE)
    <3>1. db' = db /\ handing' = handing
      BY <2>2 DEF AutoAnswer
    <3>2. QED
      BY <2>1, <3>1, SameKept
  <2>3. CASE CanCommit(db, l, FALSE)
    <3>1. l = db.used
      BY <2>1, <2>3, CommitFacts
    <3>2. \A k \in LegIds : k # Notice => owner[k] # "admitted"
      BY <2>1, <3>1 DEF ExchangeInv, OwnerTrue
    <3>3. CASE CommitLive(l, FALSE, "automatic_committed")
      <4>1. /\ db' = CommitResponse(db, l, FALSE, "automatic_committed") /\ db.lease
            /\ handing' = db.used + 1
        BY <3>3 DEF CommitLive
      <4>2. Answered(db, db')
        BY <2>1, <2>3, <4>1, CommitFacts
      <4>3. QED
        BY <2>1, <3>2, <4>1, <4>2 DEF Answered
    <3>4. CASE /\ db' = CommitResponse(Downgrade(db), l, FALSE, "automatic_committed")
               /\ handing' = handing
      <4>1. PICK d : d = Downgrade(db)
        OBVIOUS
      <4>2. Kept(db, d) /\ d.leg = db.leg /\ d.used = db.used /\ d.status = db.status
        BY <2>1, <4>1, DowngradeFacts
      <4>3. Sound(d) /\ CanCommit(d, l, FALSE)
        BY <2>3, <4>2 DEF CanCommit, BudgetLeft, Kept
      <4>4. Answered(d, db')
        BY <2>1, <3>4, <4>1, <4>3, CommitFacts
      <4>5. Kept(db, db')
        BY <4>2, <4>4, KeptTwice DEF Answered
      <4>6. QED
        BY <2>1, <3>2, <3>4, <4>2, <4>4, <4>5 DEF Answered
    <3>5. QED
      BY <2>3, <3>3, <3>4 DEF AutoAnswer
  <2>4. QED
    BY <2>2, <2>3
<1>2. TypeOK'
  <2>1. db' \in Ledgers /\ handing' \in Legs \cup {NoLeg}
    BY <1>1, KeptTyped
  <2>2. owner' \in [LegIds -> Owners]
    BY <1>1 DEF ExchangeInv, TypeOK, Owners
  <2>3. waiter' \in Legs \cup {NoLeg}
    BY DEF ExchangeInv, TypeOK, AutoAnswer
  <2>4. QED
    BY <2>1, <2>2, <2>3 DEF ExchangeInv, TypeOK, AutoAnswer
<1>3. ASSUME NEW k \in LegIds
      PROVE  OwnerTrue(k)'
  <2>1. /\ outcome' = outcome /\ submitter' = submitter /\ direct' = direct /\ recon' = recon
        /\ OwnerTrue(k) /\ owner'[k] = IF k = l THEN "none" ELSE owner[k]
    BY <1>1 DEF ExchangeInv, TypeOK, AutoAnswer
  <2>2. QED
    BY <1>1, <2>1, LegBounds DEF OwnerTrue, Ended
<1>4. HandingTrue' /\ DownTrue'
  <2>1. DownTrue'
    BY <1>1 DEF ExchangeInv, DownTrue, AutoAnswer
  <2>2. HandingTrue'
    <3>1. CASE handing' = NoLeg
      BY <3>1 DEF HandingTrue
    <3>2. CASE handing' # NoLeg
      <4>1. /\ handing' = db.used + 1 /\ db'.lease /\ db'.leg[db.used + 1].status = "registered"
            /\ db.leg[db.used + 1].status = "absent" /\ db.used + 1 \in Legs
            /\ db.status = "active"
        BY <1>1, <3>2
      <4>2. db.used \in Int /\ db.used > 0 /\ OwnerTrue(db.used + 1) /\ db.used + 1 \in LegIds
        BY <4>1, LegBounds, LedgerShape DEF ExchangeInv, Sound
      <4>3. owner'[db.used + 1] = "none" /\ db.used + 1 \notin submitter'
        BY <1>1, <4>1, <4>2 DEF OwnerTrue, AutoAnswer, ExchangeInv, TypeOK
      <4>4. QED
        BY <4>1, <4>2, <4>3 DEF HandingTrue
    <3>3. QED
      BY <3>1, <3>2
  <2>3. QED
    BY <2>1, <2>2
<1>5. ReconTrue'
  <2>1. /\ ReconTrue /\ recon' = recon /\ Ends(db, db')
        /\ recon # Idle => /\ recon.leg \in LegIds /\ OwnerTrue(recon.leg)
                           /\ owner'[recon.leg] = owner[recon.leg] \/ owner'[recon.leg] = "none"
    BY <1>1 DEF ExchangeInv, Kept, AutoAnswer, ReconTrue, TypeOK
  <2>2. CASE db' = db
    BY <2>1, <2>2 DEF ReconTrue
  <2>3. CASE db' # db /\ recon.leg = db.used + 1
    BY <1>1, <2>1, <2>3 DEF ReconTrue, OwnerTrue, Ends, Ended, Closed
  <2>4. CASE db' # db /\ recon.leg # db.used + 1
    <3>1. recon # Idle => db'.leg[recon.leg].status = db.leg[recon.leg].status
      BY <1>1, <2>1, <2>4
    <3>2. QED
      BY <2>1, <3>1 DEF ReconTrue, Ends
  <2>5. QED
    BY <2>2, <2>3, <2>4
<1>6. Starts
  BY <1>1 DEF Starts, ExchangeInv, TypeOK
<1>7. QED
  BY <1>1, <1>2, <1>3, <1>4, <1>5, <1>6 DEF Good, ExchangeInv, Kept

(* reconcile_cross_chat_exchange_leg, the repair of the ledger: what was   *)
(* read is compared again, so it cannot undo what happened since.          *)
Repair(d, e, l) ==
    /\ Kept(d, e) /\ Only(d, e, l) /\ e.used = d.used /\ e.lease = d.lease
    /\ e.status # d.status => /\ d.status = "active" /\ l = d.used
                              /\ owner[l] # "admitted"
    /\ \/ e.leg[l].status = d.leg[l].status
       \/ e.leg[l].status \in Ended /\ owner[l] # "admitted" /\ d.leg[l].status # "absent"
       \/ e.leg[l].status = "running" /\ d.leg[l].status \in Pending /\ owner[l] # "listed"
          /\ d.leg[l].status # "registered"
       \/ e.leg[l].status = "registered" /\ d.leg[l].status = "submitting"
          /\ owner[l] \in {"none", "ended", "answering"}

LEMMA RepairedFacts ==
    ASSUME ExchangeInv, recon # Idle
    PROVE  Repair(db, Repaired(recon.leg, recon.status, recon.todo), recon.leg)
<1> DEFINE l == recon.leg
           s == db.leg[l].status
           e == Repaired(l, recon.status, recon.todo)
<1>1. /\ Sound(db) /\ ReconTrue /\ l \in LegIds /\ recon.status \in Pending /\ OwnerTrue(l)
      /\ recon.todo \in {"lost", "close", "queued", "running", "settle", "resubmit"}
  BY DEF ExchangeInv, ReconTrue, TypeOK
<1>2. s \in Pending \cup Ended \cup {"absent"} /\ db.status \in Open \cup Closed
      /\ db.used \in Int
  BY <1>1, LedgerShape, LegBounds DEF Sound
<1>3. ASSUME e = db
      PROVE  Repair(db, e, l)
  BY <1>1, <1>3, SameKept DEF Repair, Only
<1>4. CASE recon.todo = "lost"
  <2>1. l # Notice /\ s \in {"registered"} \cup Ended
    BY <1>1, <1>4 DEF ReconTrue
  <2>2. CASE s \notin Pending
    <3>1. e = db
      BY <1>4, <2>2 DEF Repaired
    <3>2. QED
      BY <1>3, <3>1
  <2>3. CASE s \in Pending
    <3>1. s = "registered" /\ owner[l] # "admitted"
      BY <1>1, <2>1, <2>3 DEF Pending, Ended, OwnerTrue
    <3>2. PICK d : d = FinishLeg(db, l, "failed", FALSE)
      OBVIOUS
    <3>3. e = CloseExchange(d, "failed")
      BY <1>4, <2>3, <3>2 DEF Repaired
    <3>4. Fits(db, l, "failed", FALSE) /\ "failed" \in Ended
          /\ "failed" \in Closed \ {"completed"}
      BY <3>1 DEF Fits, Ended, Closed
    <3>5. Finished(db, d, l)
      BY <1>1, <3>2, <3>4, FinishLegFacts
    <3>6. l \in Legs /\ l \in Int /\ l > 0
      BY <1>1, <2>1, LegBounds
    <3>7. l <= db.used /\ (db.status = "active" => l = db.used)
          /\ db.status # "waiting_request"
      BY <1>1, <1>2, <3>1, <3>6 DEF Sound
    <3>8. Sound(d) /\ d.used = db.used /\ d.leg[l].status \in Ended
      BY <3>1, <3>5 DEF Finished, Kept, Pending
    <3>9. d.status = "active" => db.status = "active" /\ d.leg[d.used].status \in Ended
      BY <3>5, <3>7, <3>8 DEF Finished
    <3>10. /\ Kept(d, e) /\ e.leg = d.leg /\ e.used = d.used /\ e.lease = d.lease
           /\ e.status = IF d.status \in Open THEN "failed" ELSE d.status
      BY <3>3, <3>4, <3>8, <3>9, CloseFacts DEF Ended
    <3>11. Kept(db, e)
      BY <3>5, <3>10, KeptTwice DEF Finished
    <3>12. db.status \in Closed => e.status = db.status
      BY <3>11 DEF Kept, Ends
    <3>13. e.status # db.status => db.status = "active" /\ l = db.used
      BY <1>2, <3>7, <3>12 DEF Open
    <3>14. QED
      BY <3>1, <3>5, <3>8, <3>10, <3>11, <3>13 DEF Repair, Finished, Only
  <2>4. QED
    BY <2>2, <2>3
<1>5. CASE recon.todo = "close"
  <2>1. l # Notice /\ db.status \in Closed /\ owner[l] # "admitted"
    BY <1>1, <1>5 DEF ReconTrue, OwnerTrue, Closed
  <2>2. CASE s # recon.status
    <3>1. e = db
      BY <1>5, <2>2 DEF Repaired
    <3>2. QED
      BY <1>3, <3>1
  <2>3. CASE s = recon.status
    <3>1. e = Write(db, l, "cancelled", "closed", db.status)
      BY <1>5, <2>3 DEF Repaired
    <3>2. "cancelled" \in Ended /\ db.status # "active" /\ s \in Pending /\ s # "absent"
      BY <1>1, <2>1, <2>3 DEF Ended, Closed, Pending
    <3>3. /\ Kept(db, e) /\ Only(db, e, l) /\ e.used = db.used /\ e.lease = db.lease
          /\ e.status = db.status /\ e.leg[l].status = "cancelled"
      BY <1>1, <2>1, <3>1, <3>2, WriteFacts
    <3>4. QED
      BY <2>1, <3>2, <3>3 DEF Repair
  <2>4. QED
    BY <2>2, <2>3
<1>6. CASE recon.todo \in {"queued", "running"}
  <2>1. e = SetLeg(db, l, {recon.status}, recon.todo)
    BY <1>6 DEF Repaired
  <2>2. /\ {recon.status} \in SUBSET Pending /\ recon.todo \in Pending
        /\ recon.status = "running" => recon.todo = "running"
        /\ recon.status # "registered"
        /\ recon.todo \in {"registered", "running"} \/ {recon.status} \subseteq {"submitting", "queued"}
        /\ recon.todo = "queued" => recon.status = "queued"
        /\ recon.todo = "running" => (owner[l] = "listed" => s \in Ended)
    BY <1>1, <1>6 DEF ReconTrue, Pending
  <2>3. /\ Kept(db, e) /\ Only(db, e, l) /\ e.used = db.used /\ e.lease = db.lease
        /\ e.status = db.status
        /\ e.leg[l].status = IF s = recon.status THEN recon.todo ELSE s
    <3> DEFINE from == {recon.status}
    <3>1. /\ e = SetLeg(db, l, from, recon.todo)
          /\ from \in SUBSET Pending /\ recon.todo \in Pending
          /\ "running" \in from => recon.todo = "running"
          /\ "registered" \notin from
          /\ recon.todo \in {"registered", "running"} \/ from \subseteq {"submitting", "queued"}
          /\ s \in from <=> s = recon.status
      BY <2>1, <2>2
    <3> HIDE DEF from
    <3>2. Moved(db, e, l, from, recon.todo)
      BY <1>1, <3>1, SetLegFacts
    <3>3. QED
      BY <3>1, <3>2 DEF Moved
  <2>4. QED
    BY <1>1, <1>6, <2>2, <2>3 DEF Repair, Pending, Ended
<1>7. CASE recon.todo = "settle"
  <2>1. owner[l] # "admitted"
    BY <1>1, <1>7 DEF ReconTrue
  <2>2. CASE outcome[l] = "none"
    <3>1. e = FinishLeg(db, l, "failed", TRUE)
      BY <1>7, <2>2 DEF Repaired
    <3>2. Fits(db, l, "failed", TRUE) /\ "failed" \in Ended
      BY DEF Fits, Ended
    <3>3. Finished(db, e, l)
      BY <1>1, <3>1, <3>2, FinishLegFacts
    <3>4. s = "absent" => e.leg[l].status = s
      <4>1. s = "absent" => e = db
        BY <3>1 DEF FinishLeg, Pending
      <4>2. QED
        BY <4>1
    <3>5. QED
      BY <2>1, <3>3, <3>4 DEF Repair, Finished
  <2>3. CASE outcome[l] # "none"
    <3>1. e = db
      BY <1>7, <2>3 DEF Repaired
    <3>2. QED
      BY <1>3, <3>1
  <2>4. QED
    BY <2>2, <2>3
<1>8. CASE recon.todo = "resubmit"
  <2> DEFINE from == {"submitting"} \cap {recon.status}
  <2>1. e = SetLeg(db, l, from, "registered")
    BY <1>8 DEF Repaired
  <2>2. /\ from \in SUBSET Pending /\ "running" \notin from /\ "registered" \notin from
        /\ "registered" \in Pending /\ from \subseteq {"submitting"}
        /\ owner[l] \in {"none", "ended", "answering"}
    BY <1>1, <1>8 DEF ReconTrue, Pending
  <2> HIDE DEF from
  <2>3. /\ Kept(db, e) /\ Only(db, e, l) /\ e.used = db.used /\ e.lease = db.lease
        /\ e.status = db.status
        /\ e.leg[l].status = IF s \in from THEN "registered" ELSE s
    <3>1. Moved(db, e, l, from, "registered")
      BY <1>1, <2>1, <2>2, SetLegFacts
    <3>2. QED
      BY <3>1 DEF Moved
  <2>4. QED
    BY <2>2, <2>3 DEF Repair
<1>9. QED
  BY <1>1, <1>4, <1>5, <1>6, <1>7, <1>8

(* reconcile_cross_chat_exchange_leg, the repairs *)
LEMMA ReconcileApplyGood ==
    ASSUME ExchangeInv, ReconcileApply
    PROVE  Good
<1>1. /\ Repair(db, db', recon.leg) /\ recon.leg \in LegIds /\ OwnerTrue(recon.leg)
      /\ recon.leg \notin submitter /\ handing = NoLeg /\ recon' = Idle
      /\ owner' \in [LegIds -> Owners] /\ journal' \subseteq LegIds
      /\ \A k \in LegIds : k # recon.leg => owner'[k] = owner[k]
      /\ \/ owner'[recon.leg] = owner[recon.leg]
         \/ owner[recon.leg] # "none" /\ owner'[recon.leg] = "none"
         \/ outcome[recon.leg] # "none" /\ owner'[recon.leg] = "ended"
  <2>1. /\ db' = Repaired(recon.leg, recon.status, recon.todo) /\ recon # Idle
        /\ handing = NoLeg /\ recon' = Idle /\ journal' \subseteq journal
    BY DEF ReconcileApply
  <2>2. recon.leg \in LegIds /\ OwnerTrue(recon.leg) /\ journal \subseteq LegIds
        /\ owner \in [LegIds -> Owners]
    BY <2>1 DEF ExchangeInv, ReconTrue, TypeOK
  <2>3. recon.leg \notin submitter
    BY <2>2 DEF OwnerTrue
  <2>4. Repair(db, db', recon.leg)
    BY <2>1, RepairedFacts
  <2>5. /\ owner' \in [LegIds -> Owners]
        /\ \A k \in LegIds : k # recon.leg => owner'[k] = owner[k]
        /\ \/ owner'[recon.leg] = owner[recon.leg]
           \/ owner[recon.leg] # "none" /\ owner'[recon.leg] = "none"
           \/ outcome[recon.leg] # "none" /\ owner'[recon.leg] = "ended"
    BY <2>2 DEF ReconcileApply, Owners
  <2>6. QED
    BY <2>1, <2>2, <2>3, <2>4, <2>5
<1>2. TypeOK'
  <2>1. db' \in Ledgers
    BY <1>1, KeptTyped DEF Repair
  <2>2. waiter' \in Legs \cup {NoLeg}
    BY DEF ExchangeInv, TypeOK, ReconcileApply
  <2>3. recon' \in [leg : LegIds \cup {NoLeg}, status : Pending \cup {"absent"},
                   todo : {"none", "lost", "close", "queued", "running", "settle", "resubmit"}]
    BY <1>1 DEF Idle
  <2>4. QED
    BY <1>1, <2>1, <2>2, <2>3 DEF ExchangeInv, TypeOK, ReconcileApply
<1>3. ASSUME NEW k \in LegIds
      PROVE  OwnerTrue(k)'
  <2>1. /\ OwnerTrue(k) /\ outcome' = outcome /\ submitter' = submitter /\ direct' = direct
        /\ recon'.leg = NoLeg /\ k # NoLeg
    BY <1>1, LegBounds DEF ExchangeInv, ReconcileApply, Idle
  <2>2. CASE k # recon.leg
    <3>1. db'.leg[k].status = db.leg[k].status /\ owner'[k] = owner[k]
      BY <1>1, <2>2 DEF Repair, Only
    <3>2. k # Notice /\ owner[k] = "admitted" => db'.status = db.status /\ db'.used = db.used
      BY <1>1, <2>1, <2>2 DEF OwnerTrue, Repair
    <3>3. QED
      BY <2>1, <3>1, <3>2, OwnerFrame
  <2>3. CASE k = recon.leg
    <3>1. owner[k] = "admitted" => db'.status = db.status /\ db'.used = db.used
      BY <1>1, <2>3 DEF Repair
    <3>2. k \notin submitter /\ owner[k] # "private"
      BY <1>1, <2>1, <2>3 DEF OwnerTrue
    <3>3. QED
      BY <1>1, <2>1, <2>3, <3>1, <3>2 DEF OwnerTrue, Repair, Ended, Pending
  <2>4. QED
    BY <2>2, <2>3
<1>4. HandingTrue' /\ DownTrue'
  BY <1>1 DEF ExchangeInv, HandingTrue, DownTrue, ReconcileApply
<1>5. ReconTrue'
  BY <1>1 DEF ReconTrue
<1>6. Starts
  BY <1>1 DEF Starts, ExchangeInv, OwnerTrue
<1>7. QED
  BY <1>1, <1>2, <1>3, <1>4, <1>5, <1>6 DEF Good, ExchangeInv, Kept, Repair

-----------------------------------------------------------------------------
(* The exchange as a whole. *)

LEMMA ExchangeInit == Init => ExchangeInv
<1> SUFFICES ASSUME Init PROVE ExchangeInv
  OBVIOUS
<1>1. /\ db = NewExchange /\ db.status = "waiting_request" /\ db.used = 0 /\ ~db.lease
      /\ \A l \in LegIds : db.leg[l].status = "absent"
  BY DEF Init, NewExchange, Absent
<1>2. db \in Ledgers
  BY <1>1, LegBounds, MaxLegsAssumption
     DEF NewExchange, Absent, Ledgers, LegRecords, Open, Closed, LegIds, Pending, Ended, Committed
<1>3. Sound(db)
  BY <1>1, <1>2, LegBounds DEF Sound, Closed
<1>4. TypeOK
  BY <1>2, LegBounds DEF Init, TypeOK, Owners, Idle, NoLeg, Pending
<1>5. \A l \in LegIds : OwnerTrue(l)
  BY <1>1, LegBounds DEF Init, OwnerTrue, Idle
<1>6. HandingTrue /\ ReconTrue /\ DownTrue
  BY DEF Init, HandingTrue, ReconTrue, DownTrue
<1>7. QED
  BY <1>3, <1>4, <1>5, <1>6 DEF ExchangeInv

(* Every step keeps the invariant, the endings, and starts runs of         *)
(* admitted legs only.                                                     *)
LEMMA ExchangeStep == ExchangeInv /\ [Next]_vars => Good
<1> SUFFICES ASSUME ExchangeInv, [Next]_vars PROVE Good
  OBVIOUS
<1>1. CASE UNCHANGED vars
  <2>1. ExchangeInv'
    BY <1>1 DEF ExchangeInv, TypeOK, OwnerTrue, HandingTrue, ReconTrue, DownTrue, vars
  <2>2. Ends(db, db') /\ Starts
    BY <1>1 DEF Ends, Starts, vars
  <2>3. QED
    BY <2>1, <2>2 DEF Good
<1>2. CASE \E live \in LiveCalls, expects \in BOOLEAN : Ask(live, expects)
  BY <1>2, AskGood
<1>3. CASE RegisterWaiter \/ SourceEnds \/ FailUnsent
  BY <1>3, RegisterWaiterGood, SourceEndsGood, FailUnsentGood
<1>4. ASSUME NEW l \in LegIds,
             \/ Claim(l) \/ BindQueue(l) \/ PersistQueued(l) \/ SubmitFails(l)
             \/ SubmitAbandoned(l) \/ BindRun(l)
      PROVE  Good
  BY <1>4, ClaimGood, BindQueueGood, PersistQueuedGood, SubmitFailsGood,
     SubmitAbandonedGood, BindRunGood
<1>5. ASSUME NEW l \in LegIds,
             \/ Admit(l) \/ AdmitRejected(l) \/ Launch(l) \/ LaunchFails(l)
             \/ \E o \in {"ok", "failed"} : RunEnds(l, o)
             \/ Finalize(l) \/ SkipQueued(l) \/ RemoveTerminalRow(l) \/ ReconcileRead(l)
      PROVE  Good
  BY <1>5, AdmitGood, AdmitRejectedGood, LaunchGood, LaunchFailsGood, RunEndsGood,
     FinalizeGood, SkipQueuedGood, RemoveTerminalRowGood, ReconcileReadGood
<1>6. ASSUME NEW l \in Legs,
             \/ \E request \in BOOLEAN : ReplyAsync(l, request) \/ ReplyLive(l, request)
             \/ AutoAnswer(l) \/ ReplyExpired(l)
      PROVE  Good
  BY <1>6, ReplyAsyncGood, ReplyLiveGood, AutoAnswerGood, ReplyExpiredGood
<1>7. CASE DeliverLive \/ DeliverLiveFails \/ \E s \in {"cancelled", "failed"} : Cancel(s)
  BY <1>7, DeliverLiveGood, DeliverLiveFailsGood, CancelGood
<1>8. CASE \/ Expire \/ CreateNotice \/ ReconcileLease \/ ReconcileActive \/ ReconcileApply
           \/ Crash \/ Recover
  BY <1>8, ExpireGood, CreateNoticeGood, ReconcileLeaseGood, ReconcileActiveGood,
     ReconcileApplyGood, CrashGood, RecoverGood
<1>9. QED
  BY <1>1, <1>2, <1>3, <1>4, <1>5, <1>6, <1>7, <1>8 DEF Next

LEMMA ExchangeAlways == Spec => []ExchangeInv
<1>1. ExchangeInv /\ [Next]_vars => ExchangeInv'
  BY ExchangeStep DEF Good
<1>2. QED
  BY <1>1, ExchangeInit, PTL DEF Spec

(* What the ledger says of an exchange is true in every reachable state    *)
(* and for every leg budget: completed means that the last leg was         *)
(* delivered and expects nothing, an open request keeps a leg of the       *)
(* budget for its answer, and every leg that was answered got through      *)
(* (CrossChatStore.commit_exchange_response, finish_exchange_leg).         *)
THEOREM LedgerTrue == Spec => []LedgerSound
<1>1. ExchangeInv => LedgerSound
  <2> SUFFICES ASSUME ExchangeInv PROVE LedgerSound
    OBVIOUS
  <2>1. TypeOK /\ Sound(db) /\ db \in Ledgers
    BY DEF ExchangeInv, Sound
  <2>2. db.used \in Int /\ db.used <= MaxLegs
    BY <2>1, MaxLegsAssumption DEF Ledgers, LegIds
  <2>3. CompletedMeansAnswered /\ ReplySlotReserved
    BY <2>1 DEF Sound, CompletedMeansAnswered, ReplySlotReserved
  <2>4. ChainCommitted
    <3> SUFFICES ASSUME db.status = "active", NEW l \in 1..(db.used - 1)
                 PROVE  /\ db.leg[l].resp \in Committed
                        /\ db.leg[l].status \in {"running", "delivered"}
      BY DEF ChainCommitted
    <3>1. l \in Legs /\ l < db.used
      BY <2>2, MaxLegsAssumption DEF Legs
    <3>2. QED
      BY <2>1, <3>1 DEF Sound
  <2>5. QED
    BY <2>1, <2>3, <2>4 DEF LedgerSound
<1>2. QED
  BY <1>1, ExchangeAlways, PTL

(* A leg is run lawfully, whatever races its admission: endings are final, *)
(* a provider run starts only for a leg that the ledger says is running    *)
(* in an exchange still open, and only once                                *)
(* (cross_chat_exchange_leg_admission, update_exchange_leg,                *)
(* finish_exchange_leg).                                                   *)
THEOREM LegsRunLawfully == Spec => LegsLawful
<1>1. ExchangeInv /\ [Next]_vars
        => [ /\ db.status \in Closed => db'.status = db.status /\ db'.used = db.used
             /\ \A l \in LegIds : db.leg[l].status \in Ended
                                    => db'.leg[l].status = db.leg[l].status ]_db
  BY ExchangeStep DEF Good, Ends
<1>2. ExchangeInv /\ [Next]_vars
        => [ \A l \in LegIds : owner[l] # "running" /\ owner'[l] = "running"
               => db.leg[l].status = "running" /\ Deliverable(l) ]_owner
  <2> SUFFICES ASSUME ExchangeInv, [Next]_vars, NEW l \in LegIds,
                      owner[l] # "running", owner'[l] = "running"
               PROVE  db.leg[l].status = "running" /\ Deliverable(l)
    OBVIOUS
  <2>1. owner[l] = "admitted" /\ OwnerTrue(l)
    BY ExchangeStep DEF Good, Starts, ExchangeInv
  <2>2. QED
    BY <2>1 DEF OwnerTrue, Deliverable
<1>3. ExchangeInv /\ [Next]_vars
        => [ \A l \in LegIds : owner'[l] = "running" /\ owner[l] # "running"
               => outcome[l] = "none" ]_owner
  <2> SUFFICES ASSUME ExchangeInv, [Next]_vars, NEW l \in LegIds,
                      owner[l] # "running", owner'[l] = "running"
               PROVE  outcome[l] = "none"
    OBVIOUS
  <2>1. owner[l] = "admitted" /\ OwnerTrue(l)
    BY ExchangeStep DEF Good, Starts, ExchangeInv
  <2>2. QED
    BY <2>1 DEF OwnerTrue
<1>4. QED
  BY <1>1, <1>2, <1>3, ExchangeAlways, PTL
     DEF Spec, LegsLawful, EndingsFinal, LaunchAuthorized, RunsOnce

=============================================================================
