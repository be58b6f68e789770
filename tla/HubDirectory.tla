---------------------------- MODULE HubDirectory ----------------------------
(***************************************************************************)
(* The servers of a team network (agentsdock_team_hub/store.py): the host's *)
(* own node and the nodes of paired servers, the bindings that let a peer   *)
(* act for its node, their presence, the pages in which a client lists      *)
(* them, and mail that is addressed to the one incarnation of a server its  *)
(* sender has looked up.                                                    *)
(*                                                                          *)
(* A node is numbered by the place its id has in the order of ids. Times    *)
(* are ages: how long ago something happened, up to Never.                  *)
(***************************************************************************)
EXTENDS Integers, Sequences, FiniteSets, FiniteSetsExt

CONSTANTS
  Host,        \* the node of the hub's own server
  Peers,       \* the nodes of other servers
  Beating,     \* those that send heartbeats
  Lease,       \* SECURE_PEER_LEASE_SECONDS
  WriteEvery,  \* SECURE_PEER_HEARTBEAT_WRITE_INTERVAL_SECONDS
  MaxBinds,    \* bound: bindings of one node
  MaxLetters,  \* bound: letters
  Limit        \* servers on a page

Nodes == {Host} \cup Peers
Never == Lease + 1
Ages == 0 .. Never
Older(a) == IF a < Never THEN a + 1 ELSE a

VARIABLES
  node,     \* nodes: status, age of last_seen_at
  binds,    \* network_peer_bindings of each node, in order of their creation
  beat,     \* a heartbeat between its first look and its transaction
  heard,    \* ghost: age of the last heartbeat the hub has answered
  draft,    \* the server a sender has looked up, with its lifecycle id
  letters,  \* team messages by recipient, with the incarnation each one reached
  list      \* a client's listing of the network

vars == <<node, binds, beat, heard, draft, letters, list>>

Statuses == {"none", "offline", "active"}
NoBeat == [bind |-> 0, age |-> 0]
NoDraft == [to |-> 0, life |-> 0]
NoList == [on |-> FALSE, after |-> 0, got |-> {}, always |-> {}, more |-> FALSE]

TypeOK ==
  /\ node \in [Nodes -> [status : Statuses, age : Ages]]
  /\ \A n \in Nodes : binds[n] \in Seq({"active", "revoked"}) /\ Len(binds[n]) <= MaxBinds
  /\ beat \in [Peers -> [bind : 0 .. MaxBinds, age : Ages]] /\ heard \in [Peers -> Ages]
  /\ draft \in [to : Nodes \cup {0}, life : Int]
  /\ \A l \in DOMAIN letters : letters[l] \in [to : Nodes, life : Int, got : Int]
  /\ list.after \in Nodes \cup {0} /\ list.got \subseteq Nodes /\ list.always \subseteq Nodes

-----------------------------------------------------------------------------
Live(n) == {i \in DOMAIN binds[n] : binds[n][i] = "active"}

(* A server is listed unless its peer authority was retired; presence does not *)
(* matter, and a node that never had a binding does not depend on one.         *)
Visible(n) == node[n].status # "none" /\ (n = Host \/ binds[n] = <<>> \/ Live(n) # {})

(* _network_server_mail_route_lifecycle: which incarnation of a server an      *)
(* address means. 0: none, -1: the host, -2: a node without a peer.            *)
Lifecycle(n) ==
  IF node[n].status = "none" THEN 0
  ELSE IF n = Host THEN -1
  ELSE IF binds[n] = <<>> THEN -2
  ELSE IF Live(n) = {} THEN 0 ELSE Max(Live(n))

Sendable(d) == node[d.to].status # "none" /\ d.life = Lifecycle(d.to)

-----------------------------------------------------------------------------
(* Time passes.                                                                *)
Tick ==
  /\ node' = [n \in Nodes |-> [node[n] EXCEPT !.age = Older(@)]]
  /\ beat' = [n \in Peers |-> IF beat[n] = NoBeat THEN NoBeat ELSE [beat[n] EXCEPT !.age = Older(@)]]
  /\ heard' = [n \in Peers |-> Older(heard[n])]
  /\ UNCHANGED <<binds, draft, letters, list>>

(* What a listing has to give: the servers that were visible all the time.     *)
Relist(l) == [l EXCEPT !.always = @ \cap {n \in Nodes : Visible(n)'}]

(* _ensure_managed_host_node.                                                  *)
HostUp(nd) == [nd EXCEPT ![Host] = IF @.status = "active" THEN @ ELSE [status |-> "active", age |-> 0]]

(* redeem_node_challenge: a node without a peer.                               *)
Enroll(n) ==
  /\ node[n].status = "none"
  /\ node' = [node EXCEPT ![n] = [status |-> "active", age |-> Never]] /\ UNCHANGED binds
  /\ list' = Relist(list)
  /\ UNCHANGED <<beat, heard, draft, letters>>

(* ensure_secure_peer_service: an approved peer is bound to its server's node, *)
(* which has at most one. Doing it again changes nothing.                      *)
Bind(n) ==
  /\ Live(n) = {} /\ Len(binds[n]) < MaxBinds
  /\ node' = HostUp([node EXCEPT ![n] = IF @.status = "none" THEN [status |-> "offline", age |-> Never] ELSE @])
  /\ binds' = [binds EXCEPT ![n] = Append(@, "active")]
  /\ heard' = [heard EXCEPT ![n] = Never]
  /\ list' = Relist(list)
  /\ UNCHANGED <<beat, draft, letters>>

(* revoke_secure_peer_service.                                                 *)
Unbind(n) ==
  /\ Live(n) # {}
  /\ binds' = [binds EXCEPT ![n] = [i \in DOMAIN @ |-> "revoked"]]
  /\ node' = [node EXCEPT ![n] = IF @.status = "active" THEN [status |-> "offline", age |-> 0] ELSE @]
  /\ list' = Relist(list)
  /\ UNCHANGED <<beat, heard, draft, letters>>

-----------------------------------------------------------------------------
(* record_secure_peer_heartbeat. A first look without a transaction: a recent  *)
(* one is not written again.                                                   *)
Recent(n, age) == node[n].status = "active" /\ node[n].age - age < WriteEvery

Beat(n) ==
  /\ n \in Beating /\ Live(n) # {} /\ beat[n] = NoBeat
  /\ IF Recent(n, 0)
     THEN heard' = [heard EXCEPT ![n] = 0] /\ UNCHANGED beat
     ELSE beat' = [beat EXCEPT ![n] = [bind |-> Max(Live(n)), age |-> 0]] /\ UNCHANGED heard
  /\ UNCHANGED <<node, binds, draft, letters, list>>

(* Fault: the transaction trusts the first look.                               *)
StillBoundOnce(n) == TRUE

(* The binding is looked up again under the write lock.                        *)
StillBound(n) == binds[n][beat[n].bind] = "active"

BeatCommit(n) ==
  /\ beat[n] # NoBeat /\ beat' = [beat EXCEPT ![n] = NoBeat]
  /\ IF ~StillBound(n)
     THEN UNCHANGED <<node, heard>>
     ELSE /\ heard' = [heard EXCEPT ![n] = Min({@, beat[n].age})]
          /\ IF Recent(n, beat[n].age) THEN UNCHANGED node
             ELSE node' = [node EXCEPT ![n] = [status |-> "active", age |-> Min({@.age, beat[n].age})]]
  /\ UNCHANGED <<binds, draft, letters, list>>

(* expire_secure_peer_leases.                                                  *)
Stale(n) == node[n].age > Lease

Lapsed(n) == node[n].status = "active" /\ Stale(n) /\ Live(n) # {}
Expire ==
  /\ \E n \in Peers : Lapsed(n)
  /\ node' = [n \in Nodes |-> IF n \in Peers /\ Lapsed(n) THEN [node[n] EXCEPT !.status = "offline"] ELSE node[n]]
  /\ UNCHANGED <<binds, beat, heard, draft, letters, list>>

-----------------------------------------------------------------------------
(* get_network_server: what a sender's @@ mention keeps of a server.           *)
Look(n) ==
  /\ Visible(n)
  /\ draft' = [to |-> n, life |-> Lifecycle(n)]
  /\ UNCHANGED <<node, binds, beat, heard, letters, list>>

(* create_team_message to that server, at any later time.                      *)
Send ==
  /\ draft # NoDraft /\ Sendable(draft) /\ Len(letters) < MaxLetters
  /\ letters' = Append(letters, [to |-> draft.to, life |-> draft.life, got |-> Lifecycle(draft.to)])
  /\ UNCHANGED <<node, binds, beat, heard, draft, list>>

-----------------------------------------------------------------------------
(* get_network: a page of visible servers behind the last one of the page      *)
(* before, fewer than Limit when they would be too large; whether there are    *)
(* more is decided by one more row.                                            *)
Behind(after) == {n \in Nodes : Visible(n) /\ n > after}
Front(S, k) == {n \in S : Cardinality({m \in S : m <= n}) <= k}

Page(after, k) == Front(Behind(after), k)

ListBegins ==
  /\ ~list.on
  /\ list' = [NoList EXCEPT !.on = TRUE, !.more = TRUE, !.always = {n \in Nodes : Visible(n)}]
  /\ UNCHANGED <<node, binds, beat, heard, draft, letters>>
ListPage ==
  /\ list.on /\ list.more
  /\ \E k \in 1 .. Limit : LET page == Page(list.after, k) IN
     list' = [list EXCEPT !.got = @ \cup page,
                          !.after = IF page = {} THEN 0 ELSE Max(page),
                          !.more = page # {} /\ Behind(list.after) # page]
  /\ UNCHANGED <<node, binds, beat, heard, draft, letters>>
ListEnds ==
  /\ list.on /\ ~list.more /\ list' = NoList
  /\ UNCHANGED <<node, binds, beat, heard, draft, letters>>

-----------------------------------------------------------------------------
Init ==
  /\ node = [n \in Nodes |-> [status |-> "none", age |-> Never]]
  /\ binds = [n \in Nodes |-> <<>>] /\ beat = [n \in Peers |-> NoBeat] /\ heard = [n \in Peers |-> Never]
  /\ draft = NoDraft /\ letters = <<>> /\ list = NoList

Next ==
  \/ Tick \/ Expire \/ Send \/ ListBegins \/ ListPage \/ ListEnds
  \/ \E n \in Peers : Enroll(n) \/ Bind(n) \/ Unbind(n) \/ Beat(n) \/ BeatCommit(n)
  \/ \E n \in Nodes : Look(n)

Spec == Init /\ [][Next]_vars
FairSpec == Spec /\ WF_vars(Tick) /\ WF_vars(Expire) /\ \A n \in Peers : WF_vars(BeatCommit(n))

-----------------------------------------------------------------------------
(* A server that has had a peer is shown online only while one is bound: a     *)
(* heartbeat that looked before the revocation does not bring it back.         *)
PresenceBacked == \A n \in Peers : binds[n] # <<>> /\ node[n].status = "active" => Live(n) # {}

(* A server whose heartbeats are answered stays online: its lease runs out no  *)
(* earlier than a lease less one write interval after the last of them         *)
(* (expire_secure_peer_leases against record_secure_peer_heartbeat).           *)
NotDropped ==
  [][\A n \in Peers : node[n].status = "active" /\ node'[n].status = "offline" /\ binds'[n] = binds[n]
       => heard[n] > Lease - WriteEvery]_vars

(* A letter reaches the incarnation of the server its sender had chosen, not   *)
(* one that was paired in its place (mail_route_lifecycle_id).                 *)
RouteKept == \A l \in DOMAIN letters : letters[l].got = letters[l].life /\ letters[l].got # 0

(* A finished listing holds every server that was visible while it ran         *)
(* (get_network).                                                              *)
ListedAll == list.on /\ ~list.more => list.always \subseteq list.got

(* A server that stops beating is shown offline.                               *)
GoesOffline == \A n \in Beating : Live(n) # {} /\ heard[n] = Never /\ beat[n] = NoBeat
                  ~> node[n].status # "active" \/ heard[n] # Never \/ beat[n] # NoBeat \/ Live(n) = {}

(* A server is listed, online and reachable under the identity that beats for *)
(* it: presence has a bound peer, a beating server is not dropped, a letter's *)
(* route is the one its sender saw, and a paged listing has everyone          *)
(* (record_secure_peer_heartbeat, get_network).                               *)
DirectoryTrue ==
  /\ [](TypeOK /\ PresenceBacked /\ RouteKept /\ ListedAll)
  /\ NotDropped

=============================================================================
