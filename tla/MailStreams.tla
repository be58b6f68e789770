----------------------------- MODULE MailStreams -----------------------------
(***************************************************************************)
(* The passive notification path of the Team Hub, from a committed message *)
(* to the desktops of a member server:                                     *)
(*                                                                         *)
(*   hub database --> hub broker --> gateway stream --> member feed        *)
(*        --> member broker --> lease of a desktop --> its websocket       *)
(*                                                                         *)
(* There is no acknowledgement, no timer and no polling on this path.  A   *)
(* hint only says how far a lane has come (mail or bulletin), so hints may *)
(* be coalesced and dropped as long as the stream that lost one is closed: *)
(* the reader then comes back, with the cursor it last saw, and reads a    *)
(* durable snapshot.  The model is the second version of the protocol; the *)
(* first is the same with the mail lane alone.                             *)
(*                                                                         *)
(* A history is the sequence of the epochs in which its entries were made, *)
(* so that entry k of a restored hub differs from entry k of the hub       *)
(* before.  A cursor is a length n and the epoch e of entry n.             *)
(***************************************************************************)
EXTENDS Naturals, Integers, Sequences, FiniteSets

CONSTANTS
  Desktops,      \* desktop clients of the member server
  Feeds,         \* upstream connections of the member, used again when closed
  MaxEntries,    \* entries of both lanes in one history
  MaxFaults      \* crashes, restored backups, failed publications, lost readers

VARIABLES
  hist,          \* lane -> history in the hub database
  epoch,         \* how often the database was replaced by a backup
  due,           \* committed changes whose handler has still to publish them
  faults,
  ust,           \* feed -> stage of its stream in the hub's gateway
  usub,          \* feed -> subscription at the hub's broker
  wire,          \* feed -> frames written and not yet read
  fst,           \* feed -> the member's reader: off, on, or detached and closing
  fprev,         \* feed -> cursors it published last (none before the snapshot)
  member,        \* the feed the runtime serves desktops from, or None
  dst,           \* desktop -> stage of its subscription
  dfeed,         \* desktop -> the feed it subscribed through
  dsub,          \* desktop -> subscription at the feed's broker
  desk           \* desktop -> cursors the desktop knows and comes back with

hubVars == <<hist, epoch, due, faults>>
upVars == <<ust, usub>>
feedVars == <<wire, fst, fprev, member>>
deskVars == <<dst, dfeed, dsub, desk>>
vars == <<hubVars, upVars, feedVars, deskVars>>

Lanes == {"mail", "bulletin"}
None == [n |-> -1, e |-> 0]
Cursor == [n : Nat, e : Nat]
NoFeed == "none"
NoCursors == [l \in Lanes |-> None]
NoSub == [open |-> FALSE, seen |-> NoCursors, snap |-> NoCursors, seeded |-> FALSE, pend |-> FALSE]

(* The last entry of a history, and the pair of them a snapshot reads.     *)
HeadOf(h) == [n |-> Len(h), e |-> IF h = <<>> THEN 0 ELSE h[Len(h)]]
Heads == [l \in Lanes |-> HeadOf(hist[l])]

-----------------------------------------------------------------------------
(* Subscriptions, the same class at the hub and at the member.             *)

(* An older value is ignored; the same sequence under another identity is  *)
(* an incompatible history and closes the subscription.                    *)
Published(s, l, c) ==
  IF ~s.open \/ c.n < s.seen[l].n \/ c = s.seen[l] THEN s
  ELSE IF c.n = s.seen[l].n THEN NoSub
  ELSE [s EXCEPT !.seen[l] = c, !.pend = TRUE]

(* Fault: a subscription forgets what was published after its snapshot.    *)
SeededQuiet(s) == [s EXCEPT !.seen = s.snap, !.snap = NoCursors, !.seeded = TRUE, !.pend = FALSE]

(* The snapshot read after subscribing meets what was published meanwhile. *)
Seeded(s) ==
  LET cur == s.snap
      ahead == {l \in Lanes : s.seen[l].n > cur[l].n}
      clash == \E l \in Lanes : s.seen[l].n = cur[l].n /\ s.seen[l] # cur[l]
  IN IF clash THEN NoSub
     ELSE [s EXCEPT !.snap = NoCursors,
                    !.seen = [l \in Lanes |-> IF l \in ahead THEN s.seen[l] ELSE cur[l]],
                    !.seeded = TRUE, !.pend = ahead # {}]

Takeable(s) == s.open /\ s.seeded /\ s.pend
Taken(s) == [s EXCEPT !.pend = FALSE]

(* A lease hands a cursor on when no lane goes back or changes identity.   *)
LeaseAccepts(last, cur) ==
  \A l \in Lanes : cur[l].n > last[l].n \/ cur[l] = last[l]

-----------------------------------------------------------------------------
(* Hub: a change is committed first and published afterwards.              *)

Commit(l) ==
  /\ Len(hist["mail"]) + Len(hist["bulletin"]) < MaxEntries
  /\ hist' = [hist EXCEPT ![l] = Append(@, epoch)]
  /\ due' = due \cup {[lane |-> l, cur |-> HeadOf(hist'[l])]}
  /\ UNCHANGED <<epoch, faults, upVars, feedVars, deskVars>>

CreateMessage == Commit("mail")
CreateBulletin == Commit("bulletin")
ReviseBulletin == Commit("bulletin")
DeleteBulletin == Commit("bulletin")

PublishedToAll(l, c) == [f \in Feeds |-> Published(usub[f], l, c)]

PublishMail(p) ==
  /\ p.lane = "mail"
  /\ usub' = PublishedToAll("mail", p.cur)
  /\ due' = due \ {p}
  /\ UNCHANGED <<hist, epoch, faults, ust, feedVars, deskVars>>

(* The bulletin handler reads the head again: a later change may be there. *)
PublishBulletin(p) ==
  /\ p.lane = "bulletin"
  /\ usub' = PublishedToAll("bulletin", HeadOf(hist["bulletin"]))
  /\ due' = due \ {p}
  /\ UNCHANGED <<hist, epoch, faults, ust, feedVars, deskVars>>

(* Fault: a failed publication leaves the streams as they are.             *)
InvalidatedNot == usub
Invalidated == [f \in Feeds |-> NoSub]

PublishFails(p) ==
  /\ faults < MaxFaults
  /\ faults' = faults + 1
  /\ usub' = Invalidated
  /\ due' = due \ {p}
  /\ UNCHANGED <<hist, epoch, ust, feedVars, deskVars>>

(* A crash takes every stream along, and the publications still due.       *)
HubStops ==
  /\ faults < MaxFaults
  /\ faults' = faults + 1
  /\ due' = {}
  /\ ust' = [f \in Feeds |-> "none"]
  /\ usub' = [f \in Feeds |-> NoSub]
  /\ UNCHANGED <<feedVars, deskVars>>

HubCrash == HubStops /\ UNCHANGED <<hist, epoch>>

(* The operator brings a backup back: a prefix of every lane.              *)
HubRestore ==
  /\ HubStops
  /\ epoch' = epoch + 1
  /\ \E m \in 0..Len(hist["mail"]), b \in 0..Len(hist["bulletin"]) :
       hist' = [l \in Lanes |-> SubSeq(hist[l], 1, IF l = "mail" THEN m ELSE b)]

-----------------------------------------------------------------------------
(* Gateway: one thread per stream.                                         *)

(* The stream's mailbox is bound by a first read and subscribed to; the    *)
(* snapshot the reader starts from is read afterwards.                     *)
UpSubscribe(f) ==
  /\ ust[f] = "asked"
  /\ ust' = [ust EXCEPT ![f] = "subscribed"]
  /\ usub' = [usub EXCEPT ![f] = [NoSub EXCEPT !.open = TRUE]]
  /\ UNCHANGED <<hubVars, feedVars, deskVars>>

(* A frame for a reader that is gone is lost.                              *)
Sent(f, cur) == [wire EXCEPT ![f] = IF fst[f] = "off" THEN @ ELSE Append(@, cur)]

UpSnapshot(f) ==
  /\ ust[f] = "subscribed" /\ usub[f].snap = NoCursors
  /\ usub' = [usub EXCEPT ![f].snap = Heads]
  /\ UNCHANGED <<ust, hubVars, feedVars, deskVars>>

UpStart(f) ==
  /\ ust[f] = "subscribed" /\ usub[f].open /\ usub[f].snap # NoCursors
  /\ usub' = [usub EXCEPT ![f] = Seeded(@)]
  /\ IF usub'[f].open
     THEN ust' = [ust EXCEPT ![f] = "live"] /\ wire' = Sent(f, usub[f].snap)
     ELSE ust' = [ust EXCEPT ![f] = "none"] /\ UNCHANGED wire
  /\ UNCHANGED <<fst, fprev, member, hubVars, deskVars>>

(* The gateway's lease hands the cursor on.  Its own check that no lane    *)
(* goes back never fires: the subscription only moves forward.             *)
UpWrite(f) ==
  /\ ust[f] = "live" /\ Takeable(usub[f])
  /\ usub' = [usub EXCEPT ![f] = Taken(@)]
  /\ wire' = Sent(f, usub[f].seen)
  /\ UNCHANGED <<ust, fst, fprev, member, hubVars, deskVars>>

(* A closed subscription ends the stream; so does the watcher that sees    *)
(* the member's socket close.                                              *)
UpEnds(f) ==
  /\ ust[f] # "none"
  /\ (ust[f] \in {"subscribed", "live"} /\ ~usub[f].open) \/ fst[f] = "off"
  /\ ust' = [ust EXCEPT ![f] = "none"]
  /\ usub' = [usub EXCEPT ![f] = NoSub]
  /\ UNCHANGED <<hubVars, feedVars, deskVars>>

-----------------------------------------------------------------------------
(* Member: one feed serves every desktop.  A feed belongs to the desktops  *)
(* that are subscribing or subscribed; the last one to leave detaches it   *)
(* under the runtime's guard and closes it after.                          *)

FeedOn(f) == f \in Feeds /\ fst[f] = "on"
Reusable(f) == fst[f] = "off" /\ ust[f] = "none" /\ \A d \in Desktops : dfeed[d] # f

(* A desktop asks for its stream: it joins the feed, or starts one.        *)
Subscribe(d) ==
  /\ dst[d] = "idle"
  /\ dst' = [dst EXCEPT ![d] = "waiting"]
  /\ \/ /\ FeedOn(member)
        /\ dfeed' = [dfeed EXCEPT ![d] = member]
        /\ UNCHANGED <<ust, fst, member>>
     \/ /\ ~FeedOn(member)
        /\ \E f \in Feeds :
             /\ Reusable(f)
             /\ fst' = [fst EXCEPT ![f] = "on"]
             /\ ust' = [ust EXCEPT ![f] = "asked"]
             /\ member' = f
             /\ dfeed' = [dfeed EXCEPT ![d] = f]
  /\ UNCHANGED <<usub, wire, fprev, dsub, desk, hubVars>>

KeepsFeed(d) == dst[d] # "idle"

(* What leaving does to the runtime's feed.                                *)
Detach(ds) ==
  IF \E x \in Desktops \ ds : KeepsFeed(x)
  THEN UNCHANGED <<member, fst>>
  ELSE /\ member' = NoFeed
       /\ fst' = [f \in Feeds |-> IF f = member /\ fst[f] = "on" THEN "closing" ELSE fst[f]]

(* Leases are closed and forgotten by the runtime.                         *)
Leave(ds) ==
  /\ dst' = [d \in Desktops |-> IF d \in ds THEN "idle" ELSE dst[d]]
  /\ dfeed' = [d \in Desktops |-> IF d \in ds THEN NoFeed ELSE dfeed[d]]
  /\ dsub' = [d \in Desktops |-> IF d \in ds THEN NoSub ELSE dsub[d]]
  /\ Detach(ds)
  /\ UNCHANGED <<desk, wire, fprev, upVars>>

(* The feed has its snapshot: the desktop subscribes to the feed's broker, *)
DeskSubscribe(d) ==
  /\ dst[d] = "waiting" /\ fst[dfeed[d]] # "off" /\ fprev[dfeed[d]] # NoCursors
  /\ dst' = [dst EXCEPT ![d] = "subscribed"]
  /\ dsub' = [dsub EXCEPT ![d] = [NoSub EXCEPT !.open = TRUE]]
  /\ UNCHANGED <<dfeed, desk, hubVars, upVars, feedVars>>

StillServed(d) == FeedOn(dfeed[d]) /\ member = dfeed[d]

(* and only then asks the hub for a snapshot of its own,                   *)
DeskSnapshot(d) ==
  /\ dst[d] = "subscribed" /\ dsub[d].open /\ dsub[d].snap = NoCursors
  /\ dsub' = [dsub EXCEPT ![d].snap = Heads]
  /\ UNCHANGED <<dst, dfeed, desk, hubVars, upVars, feedVars>>

(* which the lease hands to the websocket.                                 *)
DeskStart(d) ==
  /\ dst[d] = "subscribed" /\ dsub[d].open /\ dsub[d].snap # NoCursors
  /\ LET s == Seeded(dsub[d]) IN
       IF s.open /\ StillServed(d)
       THEN /\ dst' = [dst EXCEPT ![d] = "live"]
            /\ dsub' = [dsub EXCEPT ![d] = s]
            /\ desk' = [desk EXCEPT ![d] = dsub[d].snap]
            /\ UNCHANGED <<dfeed, hubVars, upVars, feedVars>>
       ELSE Leave({d}) /\ UNCHANGED hubVars

DeskWrite(d) ==
  /\ dst[d] = "live" /\ Takeable(dsub[d]) /\ StillServed(d)
  /\ IF LeaseAccepts(desk[d], dsub[d].seen)
     THEN /\ desk' = [desk EXCEPT ![d] = dsub[d].seen]
          /\ dsub' = [dsub EXCEPT ![d] = Taken(@)]
          /\ UNCHANGED <<dst, dfeed, hubVars, upVars, feedVars>>
     ELSE Leave({d}) /\ UNCHANGED hubVars

(* A desktop that is not served any more is sent away, to come back.       *)
DeskEnds(d) ==
  /\ dst[d] # "idle"
  /\ \/ dst[d] \in {"subscribed", "live"} /\ ~dsub[d].open
     \/ ~StillServed(d)
  /\ Leave({d})
  /\ UNCHANGED hubVars

DeskDisconnects(d) ==
  /\ dst[d] # "idle" /\ faults < MaxFaults
  /\ faults' = faults + 1
  /\ Leave({d})
  /\ UNCHANGED <<hist, epoch, due>>

(* The member's connection to its hub changed: everyone starts over.       *)
Invalidate ==
  /\ faults < MaxFaults
  /\ faults' = faults + 1
  /\ \E d \in Desktops : dst[d] # "idle"
  /\ Leave(Desktops)
  /\ UNCHANGED <<hist, epoch, due>>

FeedClosed(f) ==
  /\ fst' = [fst EXCEPT ![f] = "off"]
  /\ fprev' = [fprev EXCEPT ![f] = NoCursors]
  /\ wire' = [wire EXCEPT ![f] = <<>>]
  /\ dsub' = [d \in Desktops |-> IF dfeed[d] = f THEN NoSub ELSE dsub[d]]
  /\ UNCHANGED <<member, dst, dfeed, desk, hubVars, upVars>>

FeedCloses(f) == fst[f] = "closing" /\ FeedClosed(f)

(* The reader sees the end of its stream, with or without the last frames. *)
FeedEnds(f) == fst[f] # "off" /\ ust[f] = "none" /\ FeedClosed(f)

(* A frame: the first is the snapshot, and every lane that moved is        *)
(* published to the desktops.                                              *)
FeedRead(f) ==
  /\ fst[f] # "off" /\ wire[f] # <<>>
  /\ LET cur == Head(wire[f])
         Lane(s, l) == IF cur[l] # fprev[f][l] THEN Published(s, l, cur[l]) ELSE s
     IN /\ dsub' = [d \in Desktops |-> IF dfeed[d] = f
                       THEN Lane(Lane(dsub[d], "mail"), "bulletin") ELSE dsub[d]]
        /\ fprev' = [fprev EXCEPT ![f] = cur]
  /\ wire' = [wire EXCEPT ![f] = Tail(@)]
  /\ UNCHANGED <<fst, member, dst, dfeed, desk, hubVars, upVars>>

-----------------------------------------------------------------------------
Init ==
  /\ hist = [l \in Lanes |-> <<>>] /\ epoch = 0 /\ due = {} /\ faults = 0
  /\ ust = [f \in Feeds |-> "none"] /\ usub = [f \in Feeds |-> NoSub]
  /\ wire = [f \in Feeds |-> <<>>] /\ fst = [f \in Feeds |-> "off"]
  /\ fprev = [f \in Feeds |-> NoCursors] /\ member = NoFeed
  /\ dst = [d \in Desktops |-> "idle"] /\ dfeed = [d \in Desktops |-> NoFeed]
  /\ dsub = [d \in Desktops |-> NoSub]
  /\ desk = [d \in Desktops |-> NoCursors]

HubStep ==
  \/ CreateMessage \/ CreateBulletin \/ ReviseBulletin \/ DeleteBulletin
  \/ \E p \in due : PublishMail(p) \/ PublishBulletin(p) \/ PublishFails(p)
  \/ HubCrash \/ HubRestore
FeedStep(f) ==
  UpSubscribe(f) \/ UpSnapshot(f) \/ UpStart(f) \/ UpWrite(f) \/ UpEnds(f)
  \/ FeedRead(f) \/ FeedEnds(f) \/ FeedCloses(f)
DeskStep(d) ==
  Subscribe(d) \/ DeskSubscribe(d) \/ DeskSnapshot(d) \/ DeskStart(d) \/ DeskWrite(d) \/ DeskEnds(d)

Next ==
  \/ HubStep
  \/ \E f \in Feeds : FeedStep(f)
  \/ \E d \in Desktops : DeskStep(d) \/ DeskDisconnects(d)
  \/ Invalidate

Spec == Init /\ [][Next]_vars

(* Every thread of the hub and of the member keeps running, and a desktop  *)
(* without a stream asks for one.                                          *)
FairSpec ==
  /\ Spec
  /\ WF_vars(\E p \in due : PublishMail(p) \/ PublishBulletin(p))
  /\ \A f \in Feeds : WF_vars(FeedStep(f))
  /\ \A d \in Desktops : WF_vars(DeskStep(d))

-----------------------------------------------------------------------------
(* Stages, subscriptions and cursors have the shapes the code gives them.  *)
TypeOK ==
  LET Cursors == [Lanes -> Cursor \cup {None}]
      Sub == [open : BOOLEAN, seen : Cursors, snap : Cursors, seeded : BOOLEAN, pend : BOOLEAN]
  IN /\ hist \in [Lanes -> Seq(0..epoch)]
     /\ due \subseteq [lane : Lanes, cur : Cursor]
     /\ ust \in [Feeds -> {"none", "asked", "subscribed", "live"}]
     /\ usub \in [Feeds -> Sub]
     /\ wire \in [Feeds -> Seq([Lanes -> Cursor])] /\ fst \in [Feeds -> {"off", "on", "closing"}]
     /\ fprev \in [Feeds -> Cursors] /\ member \in Feeds \cup {NoFeed}
     /\ dst \in [Desktops -> {"idle", "waiting", "subscribed", "live"}]
     /\ dfeed \in [Desktops -> Feeds \cup {NoFeed}] /\ dsub \in [Desktops -> Sub]
     /\ desk \in [Desktops -> Cursors]
     /\ \A d \in Desktops : (dst[d] = "idle") <=> (dfeed[d] = NoFeed)

(* Nothing of a change is on its way to desktop d any more.                *)
Quiet(d) ==
  LET f == dfeed[d]
  IN /\ due = {} /\ dst[d] = "live" /\ StillServed(d)
     /\ ust[f] = "live" /\ usub[f].open /\ ~usub[f].pend
     /\ wire[f] = <<>> /\ dsub[d].open /\ ~dsub[d].pend

(* A healthy looking idle stream misses nothing: when a desktop is         *)
(* connected all the way to the hub and nothing is in flight, it knows the *)
(* last committed entry of both lanes, by length and identity.  Nothing    *)
(* would ever repair the contrary, since the path has no timer.            *)
IdleIsCurrent == \A d \in Desktops : Quiet(d) => desk[d] = Heads

(* No upstream outlives its readers, and none is taken from them: an open  *)
(* feed is the runtime's, and a desktop that subscribes or is subscribed   *)
(* keeps it.                                                               *)
NoOrphanFeed ==
  \A f \in Feeds : fst[f] = "on" => member = f /\ \E d \in Desktops : dst[d] # "idle"

(* A desktop that is waiting for its stream is not cut off by another one  *)
(* leaving: its feed is only detached when everybody is sent away.         *)
WaitersKeepFeed ==
  [][\A d \in Desktops : dst[d] # "idle" /\ dst'[d] # "idle" /\ StillServed(d)
        => fst'[dfeed[d]] # "closing"]_vars

(* Whatever crashes, fails to publish or disconnects, every desktop in the *)
(* end knows the hub's last entries.                                       *)
CatchesUp == \A d \in Desktops : []<>(desk[d] = Heads)

(* A desktop that sleeps has seen the newest change, and a member has a feed  *)
(* exactly while somebody waits on it (mail_hint_streams, team_mail_runtime). *)
StreamsSound ==
  /\ [](TypeOK /\ IdleIsCurrent /\ NoOrphanFeed)
  /\ WaitersKeepFeed

=============================================================================
