---------------------------- MODULE HubAttachments ----------------------------
(***************************************************************************)
(* Attachments of the Team Hub: a row in the database, a staging file that *)
(* grows chunk by chunk, and a content file named by its hash that several *)
(* rows may share.  Row and files change in different steps, a crash or an *)
(* I/O error may come between any two of them, and nothing but the next    *)
(* request repairs what it leaves.  Declarations, chunks, downloads and    *)
(* the collector hold one lease on the attachment files; messages, which   *)
(* bind attachments for good, only take a database transaction.            *)
(***************************************************************************)
EXTENDS Integers, Sequences, FiniteSets

CONSTANTS
  Uploads,       \* declarations, each with a fresh attachment id
  Blobs, BlobOf, \* contents, and the content an upload declares
  Size,          \* chunks of a file
  Quota,         \* files the team may keep
  Letters,       \* messages, one idempotency key each
  NoLetter,
  MaxFaults      \* crashes, I/O errors and failing unlinks

VARIABLES
  row,           \* upload -> none, asked, uploading, ready, failed, gone
  got,           \* upload -> received_bytes, in chunks
  late,          \* upload -> expires_at has passed
  owner,         \* upload -> the message it is bound to
  part,          \* upload -> chunks in its staging file, -1 without the file
  bad,           \* upload -> chunks of the staging file with wrong bytes
  blob,          \* content -> its file exists
  queue,         \* committed cleanup tombstones
  lease,         \* the operation that holds the attachment lease
  sent,          \* letter -> none, sent, deleted
  faults

vars == <<row, got, late, owner, part, bad, blob, queue, lease, sent, faults>>
rowVars == <<row, got, late, owner>>
fileVars == <<part, bad, blob>>

Absent == -1
Free == [op |-> "free"]
Writing(u, step) == [op |-> step, u |-> u]
Draining(u, todo, done) == [op |-> "drain", u |-> u, todo |-> todo, done |-> done]
StagingKey(u) == [kind |-> "staging", key |-> u]
ContentKey(b) == [kind |-> "content", key |-> b]
Keys == {StagingKey(u) : u \in Uploads} \cup {ContentKey(b) : b \in Blobs}

Rows == {u \in Uploads : row[u] \in {"uploading", "ready", "failed"}}
Bound(u) == owner[u] # NoLetter
Referenced(b) == \E u \in Uploads : row[u] = "ready" /\ BlobOf[u] = b
Fault == faults < MaxFaults /\ faults' = faults + 1

-----------------------------------------------------------------------------
(* The collector runs at the start of a declaration.                       *)

Stale == {u \in Rows : late[u] /\ ~Bound(u)}

(* Contents whose last ready reference leaves with the rows us.  A row     *)
(* that is still uploading may have published its content before a crash.  *)
Orphans(us) ==
  {b \in Blobs : /\ \E u \in us : BlobOf[u] = b
                 /\ ~\E v \in Uploads \ us : row[v] = "ready" /\ BlobOf[v] = b}

(* Rows and tombstones change in one transaction; the files come after.    *)
Purge(u) ==
  /\ lease = Free /\ row[u] = "none"
  /\ row' = [v \in Uploads |-> IF v \in Stale THEN "gone" ELSE row[v]]
  /\ queue' = queue \cup {StagingKey(v) : v \in Stale} \cup {ContentKey(b) : b \in Orphans(Stale)}
  /\ lease' = Draining(u, queue', {})
  /\ UNCHANGED <<got, late, owner, fileVars, sent, faults>>

(* Fault: a tombstone is carried out whatever uses the file by now.        *)
ProtectedNever(k) == FALSE
(* A tombstone whose file is in use again is dropped.                      *)
Protected(k) ==
  IF k.kind = "staging" THEN k.key \in Rows ELSE Referenced(k.key)

Unlinked(k) ==
  IF k.kind = "staging"
  THEN part' = [part EXCEPT ![k.key] = Absent] /\ bad' = [bad EXCEPT ![k.key] = {}] /\ UNCHANGED blob
  ELSE blob' = [blob EXCEPT ![k.key] = FALSE] /\ UNCHANGED <<part, bad>>

Drain(k) ==
  /\ lease.op = "drain" /\ k \in lease.todo
  /\ lease' = Draining(lease.u, lease.todo \ {k}, lease.done \cup {k})
  /\ IF Protected(k) THEN UNCHANGED fileVars ELSE Unlinked(k)
  /\ UNCHANGED <<rowVars, queue, sent, faults>>

DrainFails(k) ==
  /\ lease.op = "drain" /\ k \in lease.todo /\ ~Protected(k)
  /\ Fault
  /\ lease' = Draining(lease.u, lease.todo \ {k}, lease.done)
  /\ UNCHANGED <<rowVars, fileVars, queue, sent>>

DrainCommit ==
  /\ lease.op = "drain" /\ lease.todo = {}
  /\ queue' = queue \ lease.done
  /\ row' = [row EXCEPT ![lease.u] = "asked"]
  /\ lease' = Free
  /\ UNCHANGED <<got, late, owner, fileVars, sent, faults>>

-----------------------------------------------------------------------------
(* Declaration: a fresh row, ready at once when a ready row of the same    *)
(* content exists and its file verifies.                                   *)

Counted == {v \in Rows : row[v] # "failed" /\ (Bound(v) \/ ~late[v])}

Stored(u) ==
  /\ \E v \in Uploads : row[v] = "ready" /\ BlobOf[v] = BlobOf[u] /\ (Bound(v) \/ ~late[v])
  /\ blob[BlobOf[u]]

Declare(u) ==
  /\ lease = Free /\ row[u] = "asked"
  /\ Cardinality(Counted) < Quota
  /\ row' = [row EXCEPT ![u] = IF Stored(u) THEN "ready" ELSE "uploading"]
  /\ got' = [got EXCEPT ![u] = IF Stored(u) THEN Size ELSE 0]
  /\ UNCHANGED <<late, owner, fileVars, queue, lease, sent, faults>>

DeclareRefused(u) ==
  /\ lease = Free /\ row[u] = "asked"
  /\ Cardinality(Counted) >= Quota
  /\ row' = [row EXCEPT ![u] = "none"]
  /\ UNCHANGED <<got, late, owner, fileVars, queue, lease, sent, faults>>

-----------------------------------------------------------------------------
(* A chunk.  Its time was read before the wait for the lease, so a row may *)
(* expire in between and still be written.                                 *)

Final(u) == got[u] + 1 = Size
MarkReady(u) ==
  /\ row' = [row EXCEPT ![u] = "ready"]
  /\ got' = [got EXCEPT ![u] = Size]
  /\ late' = [late EXCEPT ![u] = FALSE]
  /\ UNCHANGED owner
(* Fault: a refused chunk leaves the row as it was.                        *)
MarkFailedNot(u) == UNCHANGED rowVars
MarkFailed(u) == row' = [row EXCEPT ![u] = "failed"] /\ UNCHANGED <<got, late, owner>>

(* The last chunk again, after the file was published and the commit lost. *)
Published(u) == Final(u) /\ part[u] = Absent /\ blob[BlobOf[u]]

(* A first chunk creates the file; a later one cuts what a crash left.     *)
Appended(u) == got[u] + 1
Appendable(u) == IF got[u] = 0 THEN part[u] = Absent ELSE part[u] >= got[u]

WriteReplay(u) ==
  /\ lease = Free /\ row[u] = "uploading" /\ Published(u)
  /\ MarkReady(u)
  /\ UNCHANGED <<fileVars, queue, lease, sent, faults>>

WriteChunk(u) ==
  /\ lease = Free /\ row[u] = "uploading" /\ ~Published(u) /\ Appendable(u)
  /\ part' = [part EXCEPT ![u] = Appended(u)]
  /\ \E wrong \in BOOLEAN :
       /\ wrong => Fault
       /\ ~wrong => UNCHANGED faults
       /\ bad' = [bad EXCEPT ![u] = {c \in @ : c <= got[u]} \cup (IF wrong THEN {got[u] + 1} ELSE {})]
  /\ lease' = Writing(u, "staged")
  /\ UNCHANGED <<rowVars, blob, queue, sent>>

(* An unusable staging file, or an expired row, ends the upload.           *)
WriteFails(u) ==
  /\ lease = Free /\ row[u] = "uploading"
  /\ late[u] \/ (~Published(u) /\ ~Appendable(u))
  /\ MarkFailed(u)
  /\ UNCHANGED <<fileVars, queue, lease, sent, faults>>

WriteCommit(u) ==
  /\ lease = Writing(u, "staged") /\ ~Final(u)
  /\ got' = [got EXCEPT ![u] = @ + 1]
  /\ lease' = Free
  /\ UNCHANGED <<row, late, owner, fileVars, queue, sent, faults>>

Verified(u) == bad[u] = {}

WriteMismatch(u) ==
  /\ lease = Writing(u, "staged") /\ Final(u) /\ ~Verified(u)
  /\ \/ part' = [part EXCEPT ![u] = Absent] /\ bad' = [bad EXCEPT ![u] = {}]
     \/ UNCHANGED <<part, bad>>
  /\ MarkFailed(u)
  /\ lease' = Free
  /\ UNCHANGED <<blob, queue, sent, faults>>

WritePublish(u) ==
  /\ lease = Writing(u, "staged") /\ Final(u) /\ Verified(u)
  /\ part' = [part EXCEPT ![u] = Absent]
  /\ bad' = [bad EXCEPT ![u] = {}]
  /\ blob' = [blob EXCEPT ![BlobOf[u]] = TRUE]
  /\ lease' = Writing(u, "published")
  /\ UNCHANGED <<rowVars, queue, sent, faults>>

WriteReady(u) ==
  /\ lease = Writing(u, "published")
  /\ MarkReady(u)
  /\ lease' = Free
  /\ UNCHANGED <<fileVars, queue, sent, faults>>

(* The process dies, or an error rolls the transaction back: the database  *)
(* stays as it was, the files stay as they are.                            *)
Lost ==
  /\ lease # Free /\ Fault
  /\ lease' = Free
  /\ UNCHANGED <<rowVars, fileVars, queue, sent>>

-----------------------------------------------------------------------------
(* Messages.  Sending again under the same key returns the first answer.   *)

Attachable(u) == row[u] = "ready" /\ ~Bound(u) /\ ~late[u]

SendMessage(m) ==
  /\ sent[m] = "none"
  /\ sent' = [sent EXCEPT ![m] = "sent"]
  /\ \E us \in SUBSET {u \in Uploads : Attachable(u)} :
       owner' = [u \in Uploads |-> IF u \in us THEN m ELSE owner[u]]
  /\ UNCHANGED <<row, got, late, fileVars, queue, lease, faults>>

(* A deleted message keeps its attachments, out of sight.                  *)
DeleteMessage(m) ==
  /\ sent[m] = "sent"
  /\ sent' = [sent EXCEPT ![m] = "deleted"]
  /\ UNCHANGED <<rowVars, fileVars, queue, lease, faults>>

(* The time to live of a row passes.                                       *)
Expire(u) ==
  /\ u \in Rows /\ ~late[u]
  /\ late' = [late EXCEPT ![u] = TRUE]
  /\ UNCHANGED <<row, got, owner, fileVars, queue, lease, sent, faults>>

-----------------------------------------------------------------------------
Init ==
  /\ row = [u \in Uploads |-> "none"] /\ got = [u \in Uploads |-> 0]
  /\ late = [u \in Uploads |-> FALSE] /\ owner = [u \in Uploads |-> NoLetter]
  /\ part = [u \in Uploads |-> Absent] /\ bad = [u \in Uploads |-> {}]
  /\ blob = [b \in Blobs |-> FALSE] /\ queue = {} /\ lease = Free
  /\ sent = [m \in Letters |-> "none"] /\ faults = 0

Collect == DrainCommit \/ \E k \in Keys : Drain(k)
Write(u) ==
  WriteReplay(u) \/ WriteChunk(u) \/ WriteFails(u) \/ WriteCommit(u)
  \/ WriteMismatch(u) \/ WritePublish(u) \/ WriteReady(u)

Next ==
  \/ Collect \/ Lost
  \/ \E k \in Keys : DrainFails(k)
  \/ \E u \in Uploads : Purge(u) \/ Declare(u) \/ DeclareRefused(u) \/ Write(u) \/ Expire(u)
  \/ \E m \in Letters : SendMessage(m) \/ DeleteMessage(m)

Spec == Init /\ [][Next]_vars

(* The holder of the lease goes on, and a client resends its chunk until   *)
(* it has had the lease: no request holds it for ever.                     *)
FairSpec == Spec /\ WF_vars(Collect) /\ \A u \in Uploads : SF_vars(Write(u))

-----------------------------------------------------------------------------
(* Shapes of the rows, the files and the lease.                            *)
TypeOK ==
  /\ row \in [Uploads -> {"none", "asked", "uploading", "ready", "failed", "gone"}]
  /\ got \in [Uploads -> 0..Size] /\ late \in [Uploads -> BOOLEAN]
  /\ owner \in [Uploads -> Letters \cup {NoLetter}]
  /\ part \in [Uploads -> Absent..Size] /\ bad \in [Uploads -> SUBSET (1..Size)]
  /\ blob \in [Blobs -> BOOLEAN] /\ queue \subseteq Keys
  /\ lease \in {Free} \cup {Writing(u, s) : u \in Uploads, s \in {"staged", "published"}}
             \cup [op : {"drain"}, u : Uploads, todo : SUBSET Keys, done : SUBSET Keys]
  /\ sent \in [Letters -> {"none", "sent", "deleted"}]

(* Whoever may see a ready attachment can read it: its content file is     *)
(* there, whatever was collected, shared, retried or cut off by a crash.   *)
ReadyHasBytes == \A u \in Uploads : row[u] = "ready" => blob[BlobOf[u]]

(* No file is forgotten: a staging file has its row or a tombstone, and a  *)
(* content file has a row that declares it or a tombstone.                 *)
NothingLeaked ==
  /\ \A u \in Uploads : part[u] # Absent => u \in Rows \/ StagingKey(u) \in queue
  /\ \A b \in Blobs : blob[b] => (\E u \in Rows : BlobOf[u] = b) \/ ContentKey(b) \in queue

(* What a message has bound stays bound, ready and on disk for good.       *)
BoundForGood ==
  [][\A u \in Uploads : Bound(u) =>
        row'[u] = "ready" /\ owner'[u] = owner[u] /\ blob'[BlobOf[u]]]_vars

(* A wrong byte never becomes content: only a file whose chunks are all    *)
(* there and all right is published.                                       *)
ContentExact ==
  [][\A b \in Blobs : ~blob[b] /\ blob'[b] =>
        \E u \in Uploads : BlobOf[u] = b /\ part[u] = Size /\ bad[u] = {}]_vars

(* An upload its client keeps sending comes to an end, ready or failed.    *)
UploadSettles == \A u \in Uploads : row[u] = "uploading" ~> row[u] # "uploading"

(* A ready attachment has exactly its bytes, a bound one stays, and no file   *)
(* is forgotten (write_team_attachment_chunk,                                 *)
(* purge_expired_team_attachments).                                           *)
BlobsSound ==
  /\ [](TypeOK /\ ReadyHasBytes /\ NothingLeaked)
  /\ BoundForGood
  /\ ContentExact

===============================================================================
