----------------------------- MODULE HistorySync -----------------------------
(***************************************************************************)
(* The catch-up of a chat with the transcript its provider keeps.  The same *)
(* conversation can be continued in the provider's own client, so the       *)
(* transcript holds messages of this chat, which its timeline shows, and    *)
(* messages from elsewhere, which it does not.  A sync compares the two,    *)
(* appends what is missing as one batch that carries the next cursor, and   *)
(* then saves the cursor in the session registry.  Turns here and messages  *)
(* elsewhere go on, the process can die anywhere, and the save can fail.    *)
(***************************************************************************)
EXTENDS Integers, Sequences, SequencesExt, FiniteSetsExt

CONSTANTS
  Texts,       \* what messages say, speaker included
  None,        \* no cursor
  Limit,       \* MAX_IMPORT_MESSAGES of one pass
  MaxSource,   \* messages of the transcript
  MaxRewrites, \* times the provider rewrites its transcript
  MaxTroubles  \* crashes, failed saves, prompts that never arrive, rewrites

VARIABLES
  source,      \* the messages of the transcript
  gen,         \* which rewriting of the transcript this is
  timeline,    \* events.jsonl; the sequence number of an event is its place
  cursor,      \* _history_sync_cursor in memory
  disk,        \* _history_sync_cursor in sessions.json
  turn,        \* the turn that runs here
  job,         \* the sync or import that runs
  mishaps,     \* what happened that a sync cannot make good
  troubles

vars == <<source, gen, timeline, cursor, disk, turn, job, mishaps, troubles>>
outside == <<source, gen>>

Idle == [pc |-> "idle"]
NoTurn == [st |-> "none"]
Init ==
  /\ source = <<>> /\ gen = 0 /\ timeline = <<>>
  /\ cursor = None /\ disk = None
  /\ turn = NoTurn /\ job = Idle
  /\ mishaps = {} /\ troubles = 0

Trouble == troubles < MaxTroubles /\ troubles' = troubles + 1
Own(x) == [k |-> "msg", txt |-> x, n |-> 0, imp |-> FALSE]
Imported(m) == [k |-> "msg", txt |-> m.txt, n |-> m.n, imp |-> TRUE]
(* Two adjacent equal records are one message to the parser.                *)
Speakable(x) == Len(source) < MaxSource /\ (source # <<>> => Last(source) # x)

-----------------------------------------------------------------------------
(* The conversation.                                                        *)

SayElsewhere(x) ==
  /\ Speakable(x)
  /\ source' = Append(source, x)
  /\ UNCHANGED <<gen, timeline, cursor, disk, turn, job, mishaps, troubles>>

(* A turn holds the chat, so no sync runs beside it.                        *)
StartTurn(x) ==
  /\ job = Idle /\ turn = NoTurn /\ Speakable(x)
  /\ timeline' = Append(timeline, Own(x))
  /\ turn' = [st |-> "sent", m |-> x]
  /\ UNCHANGED <<source, gen, cursor, disk, job, mishaps, troubles>>

PromptLands ==
  /\ turn.st = "sent" /\ Speakable(turn.m)
  /\ source' = Append(source, turn.m) /\ turn' = [st |-> "runs"]
  /\ UNCHANGED <<gen, timeline, cursor, disk, job, mishaps, troubles>>

PromptLost ==
  /\ turn.st = "sent" /\ Trouble
  /\ mishaps' = mishaps \cup {"lost"} /\ turn' = NoTurn
  /\ UNCHANGED <<source, gen, timeline, cursor, disk, job>>

Answer(x) ==
  /\ turn.st = "runs" /\ Speakable(x)
  /\ source' = Append(source, x)
  /\ turn' = [st |-> "answered", m |-> x]
  /\ UNCHANGED <<gen, timeline, cursor, disk, job, mishaps, troubles>>

FinishTurn ==
  /\ turn.st \in {"runs", "answered"}
  /\ timeline' = IF turn.st = "answered" THEN Append(timeline, Own(turn.m)) ELSE timeline
  /\ turn' = NoTurn
  /\ UNCHANGED <<source, gen, cursor, disk, job, mishaps, troubles>>

(* The provider compacts its file: what is left no longer extends a prefix. *)
Rewrite ==
  /\ turn = NoTurn /\ Trouble /\ gen < MaxRewrites /\ Len(source) > 1
  /\ gen' = gen + 1 /\ source' = Tail(source)
  /\ UNCHANGED <<timeline, cursor, disk, turn, job, mishaps>>

-----------------------------------------------------------------------------
(* What a sync reads.                                                       *)

(* provider_history_source_snapshot: the file still begins with the bytes   *)
(* the cursor has consumed, whatever its name and inode are now.            *)
Extends(c) == c.off <= Len(source) /\ (c.off = 0 \/ c.gen = gen)
(* history_cursor_matches_source_stamp *)
Unchanged(c) == c # None /\ c.off = Len(source) /\ c.gen = gen

(* The messages of the timeline in a range, by their places.                *)
Places(after, own) ==
  SelectSeq([i \in 1..Len(timeline) |-> i],
            LAMBDA i : i > after /\ timeline[i].k = "msg" /\ (own => ~timeline[i].imp))

(* reconcile_cursor_history_items: every message of this chat behind the    *)
(* watermark is one credit, used once and in order against the delta.       *)
Credited(items, after) ==
  LET credits == Places(after, TRUE)
      used[i \in 0..Len(items)] ==
        IF i = 0 THEN 0
        ELSE LET u == used[i - 1]
             IN IF u < Len(credits) /\ timeline[credits[u + 1]].txt = items[i].txt THEN u + 1 ELSE u
      all == used[Len(items)]
      left == SelectSeq([i \in 1..Len(items) |-> i], LAMBDA i : used[i] = used[i - 1])
  IN [fresh |-> [j \in 1..Len(left) |-> items[left[j]]],
      tl |-> IF all = Len(credits) THEN Len(timeline) ELSE IF all = 0 THEN after ELSE credits[all]]

(* unsynced_history_items: without a cursor the whole timeline is the       *)
(* transcript's prefix, or its newest messages are aligned from the back,   *)
(* and only what follows the newest match is new.                           *)
Aligned(items) ==
  LET places == Places(0, FALSE)
      T == [i \in 1..Len(places) |-> timeline[places[i]].txt]
      back[k \in 0..Len(T)] ==
        IF k = 0 THEN [lim |-> Len(items), last |-> 0]
        ELSE LET b == back[k - 1]
                 found == {i \in 1..b.lim : items[i].txt = T[Len(T) + 1 - k]}
             IN IF found = {} THEN b ELSE [lim |-> Max(found) - 1, last |-> Max({b.last, Max(found)})]
      last == back[Len(T)].last
  IN IF T # <<>> /\ Len(T) <= Len(items) /\ \A i \in 1..Len(T) : T[i] = items[i].txt
     THEN SubSeq(items, Len(T) + 1, Len(items))
     ELSE IF last = 0 /\ T # <<>> THEN <<>>
     ELSE SubSeq(items, last + 1, Len(items))

(* The end of the batch that begins at a place, if it is all there.         *)
EndOf(h) ==
  LET ends == {i \in (h + 1)..Len(timeline) :
                 timeline[i].k = "end" /\ \A j \in (h + 1)..(i - 1) : timeline[j].k = "msg"}
  IN IF ends = {} THEN 0 ELSE Min(ends)

(* committed_history_sync_checkpoint: the newest whole batch that began at  *)
(* the cursor in hand and went beyond it.                                   *)
From(c) == IF c = None THEN [present |-> FALSE, off |-> 0, gen |-> 0]
           ELSE [present |-> TRUE, off |-> c.off, gen |-> IF c.off = 0 THEN 0 ELSE c.gen]
Committed(c) ==
  {h \in 1..Len(timeline) :
     /\ timeline[h].k = "head" /\ h > (IF c = None THEN 0 ELSE c.ck)
     /\ timeline[h].from = From(c) /\ EndOf(h) # 0
     /\ timeline[h].next.off > From(c).off}
Recovered(h) ==
  LET e == timeline[h]
  IN [e.next EXCEPT !.tl = IF e.caught THEN Max({@, EndOf(h)}) ELSE @,
                    !.ck = Max({@, EndOf(h)})]

(* load_provider_history_with_cursor: the front of the delta, or the newest *)
(* messages of a transcript that is read for the first time.                *)
Read(from, to) == [i \in 1..(to - from) |-> [txt |-> source[from + i], n |-> from + i]]
Delta(c) == Read(c.off, Min({c.off + Limit, Len(source)}))
Newest == Read(Max({0, Len(source) - Limit}), Len(source))

-----------------------------------------------------------------------------
(* sync_provider_history and import_session_history, under the lock of the  *)
(* chat's lifecycle.                                                        *)

Ask(kind) ==
  /\ job = Idle /\ turn = NoTurn
  /\ kind = "sync" => ~Unchanged(cursor)
  /\ kind = "import" => \A i \in 1..Len(timeline) : timeline[i].k # "head"
  /\ job' = [pc |-> "plan", kind |-> kind]
  /\ UNCHANGED <<outside, timeline, cursor, disk, turn, mishaps, troubles>>

Sought == Committed(cursor)
Continues == cursor # None /\ Extends(cursor)
(* The checkpoint of an earlier batch comes first; without a cursor it is   *)
(* looked for only when something seems new.                                *)
Items == IF Continues THEN Delta(cursor) ELSE Newest
Fresh == IF Continues THEN Credited(Items, cursor.tl).fresh ELSE Aligned(Items)
MustRecover == Sought # {} /\ (cursor = None => Fresh # <<>>)
Readable == cursor # None => Extends(cursor) \/ job.kind = "force"
Proceeds == job.pc = "plan" /\ Readable /\ ~MustRecover

(* A transcript that no longer extends the cursor, or the checkpoint, is    *)
(* left alone.                                                              *)
Refuse ==
  /\ job.pc = "plan"
  /\ ~Readable \/ (MustRecover /\ ~Extends(timeline[Max(Sought)].next))
  /\ job' = Idle
  /\ UNCHANGED <<outside, timeline, cursor, disk, turn, mishaps, troubles>>

Recover ==
  /\ job.pc = "plan" /\ Readable /\ MustRecover /\ Extends(timeline[Max(Sought)].next)
  /\ job' = [pc |-> "persist", next |-> Recovered(Max(Sought))]
  /\ UNCHANGED <<outside, timeline, cursor, disk, turn, mishaps, troubles>>

(* The cursor after this pass: where it got to, which of the chat's own     *)
(* messages it has used, and, for the properties, where the first one stood.*)
Caught == Continues => cursor.off + Len(Items) = Len(source)
Batched == IF Fresh = <<>> THEN 0 ELSE Len(Fresh) + 2
NextCursor ==
  LET off == IF Continues THEN cursor.off + Len(Items) ELSE Len(source)
      tl == IF Caught THEN Len(timeline) ELSE Credited(Items, cursor.tl).tl
  IN [off |-> off, gen |-> gen, tl |-> tl, ck |-> Max({Len(timeline), IF Continues THEN cursor.ck ELSE 0}),
      bs |-> IF Continues THEN cursor.bs ELSE Len(source),
      bt |-> IF Continues THEN cursor.bt ELSE Len(timeline) + Batched]
AfterBatch ==
  [NextCursor EXCEPT !.tl = IF Caught THEN Len(timeline) + Batched ELSE @,
                     !.ck = Max({@, Len(timeline) + Batched})]
Opening == [k |-> "head", from |-> From(cursor), caught |-> Caught, next |-> NextCursor]

NothingNew ==
  /\ Proceeds /\ Fresh = <<>>
  /\ job' = [pc |-> "persist", next |-> NextCursor]
  /\ UNCHANGED <<outside, timeline, cursor, disk, turn, mishaps, troubles>>

(* Fault: the checkpoint names the position it leads to as the one it began at. *)
AppendMisplaced ==
  /\ Proceeds /\ Fresh # <<>>
  /\ timeline' = timeline \o <<[Opening EXCEPT !.from = From(NextCursor)]>>
                          \o [i \in 1..Len(Fresh) |-> Imported(Fresh[i])] \o <<[k |-> "end"]>>
  /\ job' = [pc |-> "persist", next |-> AfterBatch]
  /\ UNCHANGED <<outside, cursor, disk, turn, mishaps, troubles>>
AppendBatch ==
  /\ Proceeds /\ Fresh # <<>>
  /\ timeline' = timeline \o <<Opening>> \o [i \in 1..Len(Fresh) |-> Imported(Fresh[i])] \o <<[k |-> "end"]>>
  /\ job' = [pc |-> "persist", next |-> AfterBatch]
  /\ UNCHANGED <<outside, cursor, disk, turn, mishaps, troubles>>

(* The write failed and was taken back, or the proof that Codex messages    *)
(* are foreign is not to be had now.                                        *)
BatchFails ==
  /\ Proceeds /\ Fresh # <<>> /\ Trouble
  /\ job' = Idle
  /\ UNCHANGED <<outside, timeline, cursor, disk, turn, mishaps>>

(* persist_history_sync_cursor: durable, and taken back in memory when the  *)
(* write fails, which the disk may have seen all the same.                  *)
Persist ==
  /\ job.pc = "persist"
  /\ cursor' = job.next /\ disk' = job.next /\ job' = Idle
  /\ UNCHANGED <<outside, timeline, turn, mishaps, troubles>>

PersistFails ==
  /\ job.pc = "persist" /\ Trouble
  /\ disk' \in {disk, job.next} /\ job' = Idle
  /\ UNCHANGED <<outside, timeline, cursor, turn, mishaps>>

(* A failed save reached the disk, a later batch did not start from it, and *)
(* the restart will: what that batch committed cannot be recognized.        *)
Stranded ==
  disk # cursor /\ disk # None /\ \E h \in Committed(cursor) : timeline[h].next.off > disk.off

(* The process dies: a prompt on its way is lost, a batch that was being    *)
(* written can be there in part.                                            *)
Crash ==
  /\ Trouble
  /\ \E cut \in BOOLEAN :
       /\ cut => Proceeds /\ Fresh # <<>>
       /\ timeline' = IF cut THEN timeline \o <<Opening, Imported(Fresh[1])>> ELSE timeline
       /\ mishaps' = mishaps \cup (IF cut THEN {"torn"} ELSE {})
                            \cup (IF turn.st = "sent" THEN {"lost"} ELSE {})
                            \cup (IF Stranded THEN {"stranded"} ELSE {})
  /\ cursor' = disk /\ job' = Idle /\ turn' = NoTurn
  /\ UNCHANGED <<source, gen, disk>>

Next ==
  \/ \E x \in Texts : SayElsewhere(x) \/ StartTurn(x) \/ Answer(x)
  \/ PromptLands \/ PromptLost \/ FinishTurn \/ Rewrite
  \/ \E kind \in {"sync", "import", "force"} : Ask(kind)
  \/ Refuse \/ Recover \/ NothingNew \/ AppendBatch \/ BatchFails \/ Persist \/ PersistFails \/ Crash

Spec == Init /\ [][Next]_vars

-----------------------------------------------------------------------------
(* What must hold.                                                          *)

Times(x, s) == Cardinality({i \in 1..Len(s) : s[i] = x})
TimesShown(x, after) ==
  Cardinality({i \in (after + 1)..Len(timeline) : timeline[i].k = "msg" /\ timeline[i].txt = x})
Pending(x) == IF turn.st = "sent" /\ turn.m = x THEN 1 ELSE 0

(* While the transcript was never rewritten, the timeline shows no message   *)
(* more often than it was said, over turns here, messages elsewhere, saves   *)
(* that fail and crashes, with three exceptions that are not claimed: a      *)
(* prompt the provider never wrote down, a batch a crash cut in two (the     *)
(* batch is one append and one fsync, and its front can be there), and a     *)
(* batch stranded by a cursor save that was reported as failed, was there    *)
(* after a restart all the same, and has a later batch behind it.  In the    *)
(* last two the recovery promised at append_imported_history's call finds no *)
(* checkpoint of the cursor it has, and messages can come a second time.     *)
NothingTwice ==
  mishaps = {} /\ gen = 0 => \A x \in Texts : TimesShown(x, 0) <= Times(x, source) + Pending(x)

(* Behind its first position a cursor of the present transcript passes no    *)
(* message that the timeline does not show, whatever went wrong.             *)
NothingMissed ==
  cursor # None /\ cursor.gen = gen =>
    \A x \in Texts : Times(x, SubSeq(source, cursor.bs + 1, cursor.off)) <= TimesShown(x, cursor.bt)

(* What is imported stands in the order in which it was said, with the       *)
(* exceptions of NothingTwice but for the lost prompt.                       *)
InOrder ==
  mishaps \subseteq {"lost"} /\ gen = 0 =>
    \A i, j \in 1..Len(timeline) :
      i < j /\ timeline[i].k = "msg" /\ timeline[j].k = "msg" /\ timeline[i].imp /\ timeline[j].imp =>
        timeline[i].n < timeline[j].n

(* A restart never finds a cursor behind the one that was in use.           *)
CursorDurable ==
  cursor # None => disk # None /\ (disk.gen = cursor.gen => disk.off >= cursor.off)

(* The four together: nothing passed over and no cursor that goes back, always; *)
(* no repetition and the order, with the exceptions above.                     *)
HistoryWhole == NothingTwice /\ NothingMissed /\ InOrder /\ CursorDurable
=============================================================================
