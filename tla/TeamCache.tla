----------------------------- MODULE TeamCache -----------------------------
(***************************************************************************)
(* The attachment cache of a server that is a member of a Team Network       *)
(* (secure_peer_runtime.py). A request resolves a batch of attachments: each *)
(* is verified in the cache or downloaded into it, the batch holds a lease   *)
(* on every one, and is then copied into an export directory that outlives   *)
(* the cache entry. The cache and the exports are bounded. Requests run in   *)
(* threads; _team_cache_guard makes a step atomic, downloads, hashing and    *)
(* copying run outside it. A crash forgets locks, pins and reservations and  *)
(* keeps the files.                                                          *)
(***************************************************************************)
EXTENDS Integers, Sequences, FiniteSets, SequencesExt, FiniteSetsExt

CONSTANTS
  Items,       \* the attachments, of one unit each
  Threads,     \* the request threads
  Batches,     \* the batches a request may ask for
  Cap,         \* team_cache_max_bytes, in units; a sidecar takes one
  MaxExports,  \* _TEAM_EXPORT_MAX_BATCHES
  MaxInodes,   \* bound: files ever downloaded
  MaxRequests, \* bound: requests
  MaxTroubles  \* bound: crashes, failed downloads, damaged files

VARIABLES
  disk,        \* the cache directory
  bad,         \* the files whose bytes are not the attachment's
  inodes,      \* files downloaded so far
  pins,        \* _team_cache_pins
  resv,        \* _team_cache_reservations: the threads that hold one
  thr,         \* the request threads
  exports,     \* the export directory
  xresv,       \* _team_export_reservations: the batches that hold one
  requests, troubles

vars == <<disk, bad, inodes, pins, resv, thr, exports, xresv, requests, troubles>>
cache == <<disk, bad, inodes, pins, resv>>

Inodes == 1 .. MaxInodes
Meta == 1
Need == 1 + Meta          \* required_cache_bytes

Idle == [pc |-> "idle", batch |-> <<>>, i |-> 0, fd |-> 0, leases |-> <<>>, pin |-> TRUE, failed |-> FALSE, exp |-> 0]
Item(t) == thr[t].batch[thr[t].i]
(* _team_cache_entry_locks: the threads that refer to the entry's lock.        *)
Users(e) == {t \in Threads : thr[t].pc \in {"lock", "verify", "hash", "stage", "load", "publish", "free"} /\ Item(t) = e}
(* The thread that has acquired it.                                            *)
Holder(e) == {t \in Users(e) : thr[t].pc # "lock"}

TypeOK ==
  /\ \A e \in Items : /\ disk.file[e] \in {0} \cup Inodes /\ disk.side[e] \in {0} \cup Inodes /\ disk.dir[e] \in BOOLEAN
                      /\ disk.file[e] # 0 => disk.dir[e]
                      /\ Cardinality(Holder(e)) <= 1
  /\ disk.stage \subseteq [item : Items, by : {0} \cup Threads, ino : {0} \cup Inodes] /\ Range(disk.used) \subseteq Items
  /\ bad \subseteq Inodes /\ inodes \in {0} \cup Inodes /\ pins \in [Items -> Nat] /\ resv \subseteq Threads
  /\ \A x \in exports : x.st \in {"temp", "final"} /\ x.old \in BOOLEAN
  /\ xresv \subseteq {x.id : x \in exports}

-----------------------------------------------------------------------------
(* Bytes.                                                                      *)
Weight(d, e) == (IF d.file[e] = 0 THEN 0 ELSE 1) + (IF d.side[e] = 0 THEN 0 ELSE Meta)
Total(d) == MapThenSumSet(LAMBDA e : Weight(d, e), Items)
Reserved(R) == Need * Cardinality(R)

(* The directories a prune keeps: of a referenced lock, a pin, a reservation.  *)
Protected(e, P, R) == Users(e) # {} \/ P[e] > 0 \/ \E t \in R : Item(t) = e

(* _prune_empty_team_cache_directories_locked.                                 *)
Pruned(d, P, R) ==
  [d EXCEPT !.dir = [e \in Items |-> @[e] /\ (\/ d.file[e] # 0 \/ d.side[e] # 0 \/ Protected(e, P, R)
                                              \/ \E s \in d.stage : s.item = e)]]

(* Fault: eviction takes an entry whose bytes somebody reads.                  *)
EvictableAny(e, P, keep) == e # keep

(* What eviction may take: nothing pinned, and not the entry it makes room for.*)
Evictable(e, P, keep) == e # keep /\ P[e] = 0

Dropped(d, e) == [d EXCEPT !.file[e] = 0, !.side[e] = 0, !.used = SelectSeq(@, LAMBDA x : x # e)]

(* _evict_team_cache: leftovers of a crash and sidecars without a payload go   *)
(* first, then the entries, the least recently used first. The files that were *)
(* removed stay removed when the room is still not enough.                     *)
Evict(d, P, R, keep, more) ==
  LET clean == [d EXCEPT !.stage = {s \in @ : s.by \in R}, !.side = [e \in Items |-> IF d.file[e] = 0 THEN 0 ELSE @[e]]]
      fits(x) == Total(x) + Reserved(R) + more <= Cap
      step(x, e) == IF fits(x) \/ x.file[e] = 0 \/ ~Evictable(e, P, keep) THEN x ELSE Dropped(x, e)
      left == FoldLeft(step, clean, d.used) IN
  IF Reserved(R) + more > Cap THEN [disk |-> d, ok |-> FALSE]
  ELSE [disk |-> IF more = 0 THEN Pruned(left, P, R) ELSE left, ok |-> fits(left)]

Used(d, e) == [d EXCEPT !.used = Append(SelectSeq(@, LAMBDA x : x # e), e)]

-----------------------------------------------------------------------------
(* A request: team_attachment_local_paths for a batch, cache_team_attachment   *)
(* (no pin) for one attachment.                                                *)
Request(t) ==
  /\ thr[t].pc = "idle" /\ requests < MaxRequests /\ requests' = requests + 1
  /\ \E b \in Batches, pin \in BOOLEAN :
       /\ ~pin => Len(b) = 1
       /\ thr' = [thr EXCEPT ![t] = [Idle EXCEPT !.pc = "next", !.batch = b, !.i = 1, !.pin = pin]]
  /\ UNCHANGED <<cache, exports, xresv, troubles>>

(* The entry's directory is made and its lock referenced in one step.          *)
Refer(t) ==
  /\ thr[t].pc = "next"
  /\ thr' = [thr EXCEPT ![t].pc = "lock"]
  /\ disk' = [disk EXCEPT !.dir[Item(t)] = TRUE]
  /\ UNCHANGED <<bad, inodes, pins, resv, exports, xresv, requests, troubles>>
Acquire(t) ==
  /\ thr[t].pc = "lock" /\ Holder(Item(t)) = {}
  /\ thr' = [thr EXCEPT ![t].pc = "verify"]
  /\ UNCHANGED <<cache, exports, xresv, requests, troubles>>

(* _verified_team_cache_descriptor: the sidecar names the very file; it is     *)
(* pinned and hashed outside the guard.                                        *)
Verify(t) ==
  LET e == Item(t)  ok == disk.file[e] # 0 /\ disk.side[e] = disk.file[e] IN
  /\ thr[t].pc = "verify"
  /\ thr' = [thr EXCEPT ![t].pc = IF ok THEN "hash" ELSE "stage", ![t].fd = IF ok THEN disk.file[e] ELSE 0]
  /\ pins' = IF ok THEN [pins EXCEPT ![e] = @ + 1] ELSE pins
  /\ UNCHANGED <<disk, bad, inodes, resv, exports, xresv, requests, troubles>>

(* _release_team_cache_descriptor_locked.                                      *)
Unpinned(P, e) == [P EXCEPT ![e] = @ - 1]

(* The digest of the file is the attachment's.                                 *)
Hashed(ino) == ino \notin bad

Leased(t, e, ino) == [thr EXCEPT ![t].pc = "free", ![t].fd = 0, ![t].leases = IF thr[t].pin THEN Append(@, [item |-> e, ino |-> ino]) ELSE @]
Failed(t) == [thr EXCEPT ![t].pc = "free", ![t].fd = 0, ![t].failed = TRUE]

Hash(t) ==
  LET e == Item(t)  same == disk.file[e] = thr[t].fd /\ disk.side[e] = thr[t].fd
      v == Evict(Used(disk, e), pins, resv, e, 0) IN
  /\ thr[t].pc = "hash"
  /\ IF ~Hashed(thr[t].fd) \/ ~same
     THEN /\ thr' = [thr EXCEPT ![t].pc = "stage", ![t].fd = 0] /\ pins' = Unpinned(pins, e) /\ UNCHANGED disk
     ELSE /\ disk' = v.disk
          /\ IF v.ok THEN /\ thr' = Leased(t, e, thr[t].fd)
                          /\ pins' = IF thr[t].pin THEN pins ELSE Unpinned(pins, e)
             ELSE thr' = Failed(t) /\ pins' = Unpinned(pins, e)
  /\ UNCHANGED <<bad, inodes, resv, exports, xresv, requests, troubles>>

(* A file that fails its check while somebody reads it is left alone.          *)
InUse(e) == pins[e] > 0

More == Need

(* Room is made and reserved before the first byte is asked for.               *)
Stage(t) ==
  LET e == Item(t)  v == Evict(disk, pins, resv, 0, More) IN
  /\ thr[t].pc = "stage"
  /\ IF InUse(e) THEN thr' = Failed(t) /\ disk' = Pruned(disk, pins, resv) /\ UNCHANGED resv
     ELSE IF ~v.ok THEN thr' = Failed(t) /\ disk' = Pruned(v.disk, pins, resv) /\ UNCHANGED resv
     ELSE /\ thr' = [thr EXCEPT ![t].pc = "load"] /\ resv' = resv \cup {t}
          /\ disk' = [v.disk EXCEPT !.stage = @ \cup {[item |-> e, by |-> t, ino |-> 0]}]
  /\ UNCHANGED <<bad, inodes, pins, exports, xresv, requests, troubles>>

(* The download, from a peer or from the hub of this server. The peer may      *)
(* send other bytes of the same length.                                        *)
Download(t) ==
  /\ thr[t].pc = "load" /\ inodes < MaxInodes /\ inodes' = inodes + 1
  /\ \E wrong \in BOOLEAN :
       /\ wrong => troubles < MaxTroubles
       /\ troubles' = troubles + (IF wrong THEN 1 ELSE 0)
       /\ bad' = IF wrong THEN bad \cup {inodes + 1} ELSE bad
  /\ disk' = [disk EXCEPT !.stage = {IF s.by = t THEN [s EXCEPT !.ino = inodes + 1] ELSE s : s \in @}]
  /\ thr' = [thr EXCEPT ![t].pc = "publish"]
  /\ UNCHANGED <<pins, resv, exports, xresv, requests>>

Unstaged(d, t) == [d EXCEPT !.stage = {s \in @ : s.by # t}]

(* The download fails, or the connection is no longer the active one when its  *)
(* bytes are to be published.                                                  *)
DownloadFails(t) ==
  /\ thr[t].pc \in {"load", "publish"} /\ troubles < MaxTroubles /\ troubles' = troubles + 1
  /\ thr' = Failed(t) /\ resv' = resv \ {t}
  /\ disk' = Pruned(Unstaged(disk, t), pins, resv \ {t})
  /\ UNCHANGED <<bad, inodes, pins, exports, xresv, requests>>

(* publish_locked: the staged file takes the entry's name, then the sidecar is *)
(* written, the reservation given back and the bound applied.                  *)
Publish(t) ==
  LET e == Item(t)  s == CHOOSE x \in disk.stage : x.by = t  R == resv \ {t}
      v == Evict(Used([Unstaged(disk, t) EXCEPT !.file[e] = s.ino, !.side[e] = s.ino], e), pins, R, e, 0) IN
  /\ thr[t].pc = "publish" /\ resv' = R
  /\ IF ~Hashed(s.ino) THEN thr' = Failed(t) /\ disk' = Pruned(Unstaged(disk, t), pins, R) /\ UNCHANGED pins
     ELSE IF v.ok
     THEN /\ disk' = v.disk /\ thr' = Leased(t, e, s.ino)
          /\ pins' = IF thr[t].pin THEN [pins EXCEPT ![e] = @ + 1] ELSE pins
     ELSE thr' = Failed(t) /\ disk' = Pruned(Dropped(v.disk, e), pins, R) /\ UNCHANGED pins
  /\ UNCHANGED <<bad, inodes, exports, xresv, requests, troubles>>

(* The lock is released; the last to go prunes. A request that failed closes   *)
(* its leases, the others go on with their batch.                              *)
Free(t) ==
  LET r == thr[t]  e == Item(t)  more == r.i < Len(r.batch)  d == Pruned(disk, pins, resv)
      empty == disk.file[e] = 0 /\ disk.side[e] = 0 /\ pins[e] = 0 /\ ~\E s \in disk.stage : s.item = e
      x == IF r.failed \/ ~r.pin THEN [r EXCEPT !.pc = "close"]
           ELSE IF more THEN [r EXCEPT !.pc = "next", !.i = @ + 1]
           ELSE [r EXCEPT !.pc = "export"] IN
  /\ r.pc = "free"
  /\ disk' = IF Users(e) # {t} THEN disk ELSE IF empty THEN [d EXCEPT !.dir[e] = FALSE] ELSE d
  /\ thr' = [thr EXCEPT ![t] = x]
  /\ UNCHANGED <<bad, inodes, pins, resv, exports, xresv, requests, troubles>>

(* Every lease of the request is closed.                                       *)
Close(t) ==
  LET L == thr[t].leases IN
  /\ thr[t].pc = "close"
  /\ pins' = [e \in Items |-> pins[e] - Cardinality({k \in DOMAIN L : L[k].item = e})]
  /\ thr' = [thr EXCEPT ![t] = Idle]
  /\ UNCHANGED <<disk, bad, inodes, resv, exports, xresv, requests, troubles>>

-----------------------------------------------------------------------------

(* A temporary batch nobody writes.                                            *)
Leftover(x) == x.st = "temp" /\ x.id \notin xresv

Bytes(S) == MapThenSumSet(LAMBDA x : x.n, S)

(* Finished batches are counted on disk, batches that are written by their     *)
(* reservations.                                                               *)
RoomFor(S, n) == Cardinality(S) + 1 <= MaxExports /\ Bytes(S) + n <= Cap

(* _reserve_team_export_locked: expired batches and leftovers are removed, one *)
(* more batch is reserved. Before it the batch's names are compared with its   *)
(* leases.                                                                     *)
Reserve(t) ==
  LET r == thr[t]
      kept == {x \in exports : ~Leftover(x) /\ ~(x.st = "final" /\ x.old)}
      n == Len(r.batch)
      id == CHOOSE k \in 1 .. MaxRequests : \A x \in exports : x.id # k
      named == \A k \in DOMAIN r.leases : disk.file[r.leases[k].item] = r.leases[k].ino IN
  /\ r.pc = "export"
  /\ IF ~named THEN thr' = [thr EXCEPT ![t].pc = "close"] /\ UNCHANGED <<exports, xresv>>
     ELSE IF RoomFor(kept, n)
     THEN /\ exports' = kept \cup {[id |-> id, st |-> "temp", n |-> n, old |-> FALSE]}
          /\ xresv' = xresv \cup {id} /\ thr' = [thr EXCEPT ![t].pc = "copy", ![t].exp = id]
     ELSE exports' = kept /\ thr' = [thr EXCEPT ![t].pc = "close"] /\ UNCHANGED xresv
  /\ UNCHANGED <<cache, requests, troubles>>

Without(id) == {x \in exports : x.id # id}

(* _export_team_attachment_batch: copied and renamed, or removed again.        *)
Export(t) ==
  /\ thr[t].pc = "copy" /\ xresv' = xresv \ {thr[t].exp}
  /\ exports' = {IF x.id = thr[t].exp THEN [x EXCEPT !.st = "final"] ELSE x : x \in exports}
  /\ thr' = [thr EXCEPT ![t].pc = "close", ![t].exp = 0]
  /\ UNCHANGED <<cache, requests, troubles>>
ExportFails(t) ==
  /\ thr[t].pc = "copy" /\ troubles < MaxTroubles /\ troubles' = troubles + 1
  /\ exports' = Without(thr[t].exp) /\ xresv' = xresv \ {thr[t].exp}
  /\ thr' = [thr EXCEPT ![t].pc = "close", ![t].exp = 0]
  /\ UNCHANGED <<cache, requests>>

(* An hour passes.                                                             *)
Expire ==
  /\ exports' = {IF x.st = "final" THEN [x EXCEPT !.old = TRUE] ELSE x : x \in exports} /\ exports' # exports
  /\ UNCHANGED <<cache, thr, xresv, requests, troubles>>

-----------------------------------------------------------------------------
(* A file that nobody reads is damaged on disk.                                *)
Damage(e) ==
  /\ troubles < MaxTroubles /\ troubles' = troubles + 1
  /\ disk.file[e] \notin bad \cup {0} /\ pins[e] = 0
  /\ bad' = bad \cup {disk.file[e]}
  /\ UNCHANGED <<disk, inodes, pins, resv, thr, exports, xresv, requests>>

(* The server dies, perhaps between the rename of a download and its sidecar.  *)
Crash ==
  /\ troubles < MaxTroubles /\ troubles' = troubles + 1
  /\ \E torn \in {0} \cup {t \in Threads : thr[t].pc = "publish"} :
       LET d == IF torn = 0 THEN disk
                ELSE LET s == CHOOSE x \in disk.stage : x.by = torn IN
                     IF Hashed(s.ino) THEN Used([Unstaged(disk, torn) EXCEPT !.file[s.item] = s.ino], s.item) ELSE disk IN
       disk' = [d EXCEPT !.stage = {[s EXCEPT !.by = 0] : s \in @}]
  /\ pins' = [e \in Items |-> 0] /\ resv' = {} /\ xresv' = {}
  /\ thr' = [t \in Threads |-> Idle]
  /\ UNCHANGED <<bad, inodes, exports, requests>>

Init ==
  /\ disk = [file |-> [e \in Items |-> 0], side |-> [e \in Items |-> 0], dir |-> [e \in Items |-> FALSE], stage |-> {}, used |-> <<>>]
  /\ bad = {} /\ inodes = 0 /\ pins = [e \in Items |-> 0] /\ resv = {} /\ thr = [t \in Threads |-> Idle]
  /\ exports = {} /\ xresv = {} /\ requests = 0 /\ troubles = 0

Step(t) ==
  \/ Refer(t) \/ Acquire(t) \/ Verify(t) \/ Hash(t) \/ Stage(t) \/ Download(t) \/ Publish(t) \/ Free(t) \/ Close(t)
  \/ Reserve(t) \/ Export(t)

Next ==
  \/ Crash \/ Expire \/ (\E e \in Items : Damage(e))
  \/ \E t \in Threads : Step(t) \/ Request(t) \/ DownloadFails(t) \/ ExportFails(t)

Spec == Init /\ [][Next]_vars

-----------------------------------------------------------------------------
(* The files a thread has open that have no name any more.                     *)
Open == {l.ino : l \in UNION {Range(thr[t].leases) : t \in Threads}} \cup {thr[t].fd : t \in Threads}
Unnamed == (Open \ {0}) \ {disk.file[e] : e \in Items}

(* Payloads, sidecars, files that are read but have lost their name, staged    *)
(* downloads and the bytes promised to them stay within the bound of the cache,*)
(* whatever requests overlap and wherever the server dies (_evict_team_cache). *)
CacheBounded ==
  Total(disk) + Cardinality(Unnamed) + Need * Cardinality(disk.stage) <= Cap

(* What a request is given is the attachment, after damage, wrong downloads    *)
(* and crashes between a download and its sidecar.                             *)
LeasesGood == \A t \in Threads : \A k \in DOMAIN thr[t].leases : thr[t].leases[k].ino \notin bad

(* An entry is pinned as long as somebody reads it and no longer: a pin that   *)
(* is left behind makes the entry immortal (_team_cache_pins).                 *)
PinsExact ==
  \A e \in Items : pins[e] =
    Cardinality({<<t, k>> \in Threads \X (1 .. 3) : k \in DOMAIN thr[t].leases /\ thr[t].leases[k].item = e})
    + Cardinality({t \in Threads : thr[t].fd # 0 /\ Item(t) = e})

(* The directory a download is staged and published in is not pruned by a      *)
(* request that finds it empty.                                                *)
DirectoryKept == \A e \in Items : Users(e) # {} => disk.dir[e]

(* Exports stay within their bounds, and a batch that is being written keeps   *)
(* its directory although others clean up (_reserve_team_export_locked).       *)
ExportsBounded == Cardinality(exports) <= MaxExports /\ Bytes(exports) <= Cap
WriterKept == \A t \in Threads : thr[t].pc = "copy" => \E x \in exports : x.id = thr[t].exp /\ x.st = "temp"

(* The cache stays within its size, hands out only good files, and takes      *)
(* nothing away from a request that uses it (_evict_team_cache,               *)
(* _verified_team_cache_descriptor, _reserve_team_export_locked).             *)
CacheSound ==
  /\ TypeOK
  /\ CacheBounded
  /\ LeasesGood
  /\ PinsExact
  /\ DirectoryKept
  /\ ExportsBounded
  /\ WriterKept

=============================================================================
