----------------------------- MODULE SecurePairing -----------------------------
(***************************************************************************)
(* How a member server pairs with a Team Network host over mutual TLS: the *)
(* member's pairing attempts and connections, the host's pairing requests, *)
(* peers and client certificates, their bindings in the team hub, and the  *)
(* renewal of a certificate.  Every remote call is a step of the host and  *)
(* an answer that waits in the member's thread (`call`) until the member   *)
(* commits it; the answer may be lost, and either side may restart between *)
(* two steps.  All requests come from one member, so that every new peer   *)
(* supersedes the ones before it.                                          *)
(***************************************************************************)
EXTENDS Integers, FiniteSets, Functions

CONSTANTS
  MaxPairings,   \* pairing requests the member ever makes
  Durable,       \* those whose host announces durable approvals: they never expire
  MaxRenewals,   \* certificates of one peer after its first
  MaxEffort,     \* two for a pairing, one for a renewal
  MaxMishaps,    \* lost answers, restarts and expired certificates
  MaxActs        \* interventions of users: cancel, forget, deactivate, pause, revoke, approve again

VARIABLES
  hostUp,      \* the host runs, with the team hub attached
  req,         \* the host's pairing requests
  peer,        \* the host's peers
  cert,        \* the host's client certificates of each peer
  bound,       \* the team hub's binding of each peer
  prov,        \* approvals that still have to unbind and bind
  conn,        \* the member's attempts and connections
  ren,         \* the member's certificate renewals
  files,       \* key and certificate files of the member
  active,      \* the member's active connection
  paused,      \* the connection that host mode has paused
  hosting,     \* the member itself is in host mode
  cancelling,  \* cancels waiting for the pairing guard
  call,        \* the answer each thread of the member waits for
  mishaps,
  acts         \* interventions of the users on both sides so far

hostVars == <<hostUp, req, peer, cert, bound, prov>>
roleVars == <<active, paused, hosting>>
budget == <<mishaps, acts>>
vars == <<hostVars, conn, ren, files, roleVars, cancelling, call, budget>>

Pairings == 1..MaxPairings
Gens == 0..MaxRenewals
None == 0

(* A pairing that ended as rejected, cancelled or expired is "ended".        *)
Closed == {"ended", "revoked"}
Usable == {"approved", "connected", "deactivated"}
ConnStates == {"none", "attempt", "pending"} \cup Usable \cup Closed
CertStates == {"none", "waiting", "stale", "live", "overlap", "dead", "expired"}
Threads == {"pair", "route", "maint", "own"}

Idle == [op |-> "idle", k |-> None, n |-> 0, ans |-> "none"]
Answer(op, k, n, ans) == [op |-> op, k |-> k, n |-> n, ans |-> ans]
IsIdle(t) == call[t] = Idle
Hears(t, op) == call[t].op = op
Put(t, a) == call' = [call EXCEPT ![t] = a]

Acting == acts < MaxActs /\ acts' = acts + 1

Effort == 2 * Cardinality({k \in Pairings : conn[k].st # "none"}) + FoldFunction(LAMBDA r, sum : r.n + sum, 0, ren)
Key(k, n) == <<"key", k, n>>
Cert(k, n) == <<"cert", k, n>>
Material(k) == {"key", "cert"} \X {k} \X Gens

NoRen(n) == [n |-> n, st |-> "none", late |-> FALSE]

(* _invalidate_auto_completion: the pending join intents of K end.         *)
Invalidated(c, K) ==
  [k \in Pairings |->
     IF k \in K /\ c[k].intent = "pending" THEN [c[k] EXCEPT !.intent = "ended"] ELSE c[k]]

(* The row is terminal or deleted, and its key material retired.           *)
Over == [st |-> "ended", cert |-> 0, intent |-> "none"]
End(k) ==
  /\ conn' = [conn EXCEPT ![k] = Over]
  /\ files' = files \ Material(k)

-----------------------------------------------------------------------------
(* The host's side.                                                        *)

(* authenticate_peer: with a pending renewal only where it is allowed.     *)
Authentic(k, n, renewing) ==
  /\ peer[k] = "active"
  /\ cert[k][n] \in {"live", "overlap"} \cup (IF renewing THEN {"waiting", "stale"} ELSE {})

(* A certificate past its own date does not get through the handshake.     *)
Refusal(k, n) == IF cert[k][n] = "expired" THEN "failed" ELSE "revoked"

(* _revoke_peer_in_transaction                                             *)
Revoked(p, K) == [k \in Pairings |-> IF k \in K /\ p[k] = "active" THEN "revoked" ELSE p[k]]

(* reconcile_active_logical_peers, approve_pairing: whoever is active goes. *)
Superseded(p, k) == [Revoked(p, Pairings \ {k}) EXCEPT ![k] = "active"]

Priors(p, k) == {j \in Pairings \ {k} : p[j] = "revoked"}

Approve(k) ==
  /\ hostUp /\ req[k] = "pending"
  /\ req' = [req EXCEPT ![k] = "approved"]
  /\ peer' = Superseded(peer, k)
  /\ cert' = [cert EXCEPT ![k][0] = "live"]
  /\ prov' = [prov EXCEPT ![k] = [on |-> TRUE, todo |-> Priors(peer', k)]]
  /\ UNCHANGED <<hostUp, bound, conn, ren, files, roleVars, cancelling, call, budget>>

(* Approving again what is approved repeats its effect on the team hub,     *)
(* whatever has become of the peer.                                         *)
ApproveAgain(k) ==
  /\ Acting
  /\ hostUp /\ req[k] = "approved" /\ ~prov[k].on /\ bound[k] # "active"
  /\ prov' = [prov EXCEPT ![k] = [on |-> TRUE, todo |-> Priors(peer, k)]]
  /\ UNCHANGED <<hostUp, req, peer, cert, bound, conn, ren, files, roleVars, cancelling, call, mishaps>>

(* SecurePeerHubAdapter.revoke_peer                                         *)
Unbound(b, K) == [k \in Pairings |-> IF k \in K /\ b[k] = "active" THEN "revoked" ELSE b[k]]

UnbindPrior(k) ==
  /\ prov[k].on
  /\ \E j \in prov[k].todo :
       /\ bound' = Unbound(bound, {j})
       /\ prov' = [prov EXCEPT ![k].todo = @ \ {j}]
  /\ UNCHANGED <<hostUp, req, peer, cert, conn, ren, files, roleVars, cancelling, call, budget>>

(* ensure_secure_peer_service: one active binding per server, and a revoked *)
(* one never comes back.                                                    *)
Bindable(k) == bound[k] # "revoked" /\ \A j \in Pairings \ {k} : bound[j] # "active"

Provision(k) ==
  /\ prov[k].on /\ prov[k].todo = {}
  /\ prov' = [prov EXCEPT ![k].on = FALSE]
  /\ bound' = IF Bindable(k) THEN [bound EXCEPT ![k] = "active"] ELSE bound
  /\ UNCHANGED <<hostUp, req, peer, cert, conn, ren, files, roleVars, cancelling, call, budget>>

Reject(k) ==
  /\ hostUp /\ req[k] = "pending"
  /\ req' = [req EXCEPT ![k] = "ended"]
  /\ UNCHANGED <<hostUp, peer, cert, bound, prov, conn, ren, files, roleVars, cancelling, call, budget>>

(* _expire_pending_pairings                                                 *)
HostExpire(k) ==
  /\ hostUp /\ req[k] = "pending" /\ k \notin Durable
  /\ req' = [req EXCEPT ![k] = "ended"]
  /\ UNCHANGED <<hostUp, peer, cert, bound, prov, conn, ren, files, roleVars, cancelling, call, budget>>

(* revoke_peer by the operator; its unbinding is Unbind, now or later.      *)
RevokePeer(k) ==
  /\ Acting
  /\ hostUp /\ peer[k] = "active"
  /\ peer' = Revoked(peer, {k})
  /\ UNCHANGED <<hostUp, req, cert, bound, prov, conn, ren, files, roleVars, cancelling, call, mishaps>>

(* The maintenance pass replays unbindings that were missed.                *)
(* Fault: a peer whose approval is still binding is passed over for good.   *)
UnbindNever(k) ==
  /\ hostUp /\ peer[k] = "revoked" /\ bound[k] = "active" /\ req[k] # "approved"
  /\ bound' = Unbound(bound, {k})
  /\ UNCHANGED <<hostUp, req, peer, cert, prov, conn, ren, files, roleVars, cancelling, call, budget>>
Unbind(k) ==
  /\ hostUp /\ peer[k] = "revoked" /\ bound[k] = "active"
  /\ bound' = Unbound(bound, {k})
  /\ UNCHANGED <<hostUp, req, peer, cert, prov, conn, ren, files, roleVars, cancelling, call, budget>>

HostCrash ==
  /\ hostUp /\ mishaps < MaxMishaps
  /\ hostUp' = FALSE
  /\ prov' = [k \in Pairings |-> [on |-> FALSE, todo |-> {}]]
  /\ mishaps' = mishaps + 1
  /\ UNCHANGED <<req, peer, cert, bound, conn, ren, files, roleVars, cancelling, call, acts>>

(* _attach_host_hub_locked: before anyone is served, revoked peers are      *)
(* unbound and active ones bound.                                           *)
HostStart ==
  /\ ~hostUp
  /\ hostUp' = TRUE
  /\ LET freed == Unbound(bound, {k \in Pairings : peer[k] # "active"})
     IN bound' = [k \in Pairings |-> IF peer[k] = "active" THEN "active" ELSE freed[k]]
  /\ UNCHANGED <<req, peer, cert, prov, conn, ren, files, roleVars, cancelling, call, budget>>

(* The clock: an overlap or a renewal ends, a certificate expires.          *)
OverlapEnds(k, n) ==
  /\ cert[k][n] = "overlap"
  /\ cert' = [cert EXCEPT ![k][n] = "dead"]
  /\ UNCHANGED <<hostUp, req, peer, bound, prov, conn, ren, files, roleVars, cancelling, call, budget>>

RenewalEnds(k, n) ==
  /\ cert[k][n] = "waiting"
  /\ cert' = [cert EXCEPT ![k][n] = "stale"]
  /\ UNCHANGED <<hostUp, req, peer, bound, prov, conn, ren, files, roleVars, cancelling, call, budget>>

CertExpires(k, n) ==
  /\ mishaps < MaxMishaps
  /\ cert[k][n] \notin {"none", "expired"}
  /\ cert' = [cert EXCEPT ![k] = [m \in Gens |-> IF m <= n /\ @[m] # "none" THEN "expired" ELSE @[m]]]
  /\ mishaps' = mishaps + 1
  /\ UNCHANGED <<hostUp, req, peer, bound, prov, conn, ren, files, roleVars, cancelling, call, acts>>

-----------------------------------------------------------------------------
(* The member pairs.  The pairing guard admits one of these calls at a time. *)

(* begin_pairing up to the call: key file, attempt row and join intent.     *)
Begin(k, auto) ==
  /\ Effort + 2 <= MaxEffort
  /\ IsIdle("pair") /\ conn[k].st = "none" /\ \A j \in 1..(k - 1) : conn[j].st # "none"
  /\ auto => ~hosting /\ active = None /\ paused = None
  /\ conn' = [Invalidated(conn, IF auto THEN Pairings ELSE {}) EXCEPT
                ![k] = [st |-> "attempt", cert |-> 0, intent |-> IF auto THEN "pending" ELSE "none"]]
  /\ files' = files \cup {Key(k, 0)}
  /\ Put("pair", Answer("begin", k, 0, "none"))
  /\ UNCHANGED <<hostVars, ren, roleVars, cancelling, budget>>

(* The user's request goes to the host, in host mode too. An attempt without  *)
(* an answer is sent again by the maintenance pass (recover_pairing_attempts), *)
(* which returns before that in host mode.                                    *)
MayPost(k) == (Hears("pair", "begin") /\ call["pair"].k = k) \/ (IsIdle("pair") /\ ~hosting)
PostOp(k) == IF IsIdle("pair") THEN "replay" ELSE "post"

(* The host stores the request or answers a repeated one with what became of  *)
(* it (submit_pairing).                                                       *)
Post(k) ==
  /\ hostUp /\ conn[k].st = "attempt" /\ MayPost(k)
  /\ req' = [req EXCEPT ![k] = IF @ = "none" THEN "pending" ELSE @]
  /\ Put("pair", Answer(PostOp(k), k, 0, req'[k]))
  /\ UNCHANGED <<hostUp, peer, cert, bound, prov, conn, ren, files, roleVars, cancelling, budget>>

(* It finds a first request too old, or has no room for one more.             *)
PostLate(k) ==
  /\ hostUp /\ conn[k].st = "attempt" /\ MayPost(k) /\ req[k] = "none"
  /\ Put("pair", Answer(PostOp(k), k, 0, "late"))
  /\ UNCHANGED <<hostVars, conn, ren, files, roleVars, cancelling, budget>>
PostFull(k) ==
  /\ hostUp /\ conn[k].st = "attempt" /\ MayPost(k) /\ req[k] = "none"
  /\ mishaps < MaxMishaps /\ mishaps' = mishaps + 1
  /\ Put("pair", Answer(PostOp(k), k, 0, "full"))
  /\ UNCHANGED <<hostVars, conn, ren, files, roleVars, cancelling, acts>>

(* An attempt that came too late is retired by the maintenance pass alone;    *)
(* one the host had no room for is kept.                                      *)
PostAnswered ==
  /\ Hears("pair", "post") \/ Hears("pair", "replay")
  /\ Put("pair", Idle)
  /\ LET k == call["pair"].k  ans == call["pair"].ans IN
       CASE ans = "ended" \/ (ans = "late" /\ Hears("pair", "replay")) -> End(k)
         [] ans \in {"pending", "approved"} -> conn' = [conn EXCEPT ![k].st = "pending"] /\ UNCHANGED files
         [] OTHER -> UNCHANGED <<conn, files>>
  /\ UNCHANGED <<hostVars, ren, roleVars, cancelling, budget>>

(* recover_pairing_attempts gives up on an attempt that is a week old.      *)
AttemptAges(k) ==
  /\ IsIdle("pair") /\ conn[k].st = "attempt" /\ ~hosting /\ k \notin Durable
  /\ End(k)
  /\ UNCHANGED <<hostVars, ren, roleVars, cancelling, call, budget>>

(* _expire_pending_pairings_locked on the member.                           *)
ExpireLocal(k) ==
  /\ IsIdle("pair") /\ conn[k].st = "pending" /\ k \notin Durable
  /\ End(k)
  /\ UNCHANGED <<hostVars, ren, roleVars, cancelling, call, budget>>

Poll(k) ==
  /\ IsIdle("pair") /\ hostUp /\ conn[k].st = "pending"
  /\ Put("pair", Answer("poll", k, 0, req[k]))
  /\ UNCHANGED <<hostVars, conn, ren, files, roleVars, cancelling, budget>>

(* The certificate file is written before the row that names it.            *)
PollSave ==
  /\ Hears("pair", "poll") /\ call["pair"].ans = "approved"
  /\ Cert(call["pair"].k, 0) \notin files
  /\ files' = files \cup {Cert(call["pair"].k, 0)}
  /\ UNCHANGED <<hostVars, conn, ren, roleVars, cancelling, call, budget>>

(* An intent that has lapsed meanwhile turns the approval into an expiry.   *)
PollAnswered ==
  /\ Hears("pair", "poll") /\ Put("pair", Idle)
  /\ call["pair"].ans = "approved" => Cert(call["pair"].k, 0) \in files
  /\ LET k == call["pair"].k IN
       \E seen \in {call["pair"].ans, "ended"} :
         /\ seen # call["pair"].ans => conn[k].intent # "none" /\ k \notin Durable
         /\ IF seen = "ended" THEN End(k)
            ELSE conn' = [conn EXCEPT ![k].st = seen] /\ UNCHANGED files
  /\ UNCHANGED <<hostVars, ren, roleVars, cancelling, budget>>

-----------------------------------------------------------------------------
(* Cancelling: the intent at once, the rest behind the pairing guard.       *)

CancelAsked(k) ==
  /\ Acting
  /\ cancelling[k] = "no" /\ conn[k].st \in {"pending", "approved"}
  /\ IF conn[k].intent = "pending" /\ active # k
     THEN conn' = Invalidated(conn, {k}) /\ cancelling' = [cancelling EXCEPT ![k] = "auto"]
     ELSE cancelling' = [cancelling EXCEPT ![k] = "plain"] /\ UNCHANGED conn
  /\ UNCHANGED <<hostVars, ren, files, roleVars, call, mishaps>>

(* Consent can be taken back until the automatic join has consumed it.      *)
CancelApproved(k) ==
  /\ IsIdle("pair") /\ cancelling[k] # "no" /\ conn[k].st # "pending"
  /\ IF /\ conn[k].st = "approved" /\ active # k
        /\ conn[k].intent = (IF cancelling[k] = "auto" THEN "ended" ELSE "pending")
     THEN End(k)
     ELSE UNCHANGED <<conn, files>>
  /\ cancelling' = [cancelling EXCEPT ![k] = "no"]
  /\ UNCHANGED <<hostVars, ren, roleVars, call, budget>>

(* The host is told while the request is pending, as far as it can be.      *)
CancelPending(k) ==
  /\ IsIdle("pair") /\ cancelling[k] # "no" /\ conn[k].st = "pending"
  /\ \/ hostUp /\ req' = [req EXCEPT ![k] = IF @ = "pending" THEN "ended" ELSE @]
     \/ UNCHANGED req
  /\ Put("pair", Answer("cancel", k, 0, "any"))
  /\ cancelling' = [cancelling EXCEPT ![k] = "no"]
  /\ UNCHANGED <<hostUp, peer, cert, bound, prov, conn, ren, files, roleVars, budget>>

CancelAnswered ==
  /\ Hears("pair", "cancel") /\ Put("pair", Idle)
  /\ End(call["pair"].k)
  /\ UNCHANGED <<hostVars, ren, roleVars, cancelling, budget>>

-----------------------------------------------------------------------------
(* The route guard: health checks, and what the member does on an answer.   *)

(* require_pending of activate_auto_connection                              *)
Joinable(k) == conn[k].intent = "pending" /\ conn[k].st = "approved" /\ active = None /\ paused = None

MayCheck(k, why) ==
  CASE why = "auto" -> Joinable(k) /\ ~hosting
    [] why = "manual" -> ~hosting /\ conn[k].st \in Usable /\ active \in {None, k} /\ IsIdle("own")
    [] why = "restore" -> hosting /\ paused = k /\ IsIdle("own")
    [] why = "check" -> ~hosting /\ active = k /\ IsIdle("maint")

Health(k, why) ==
  /\ IsIdle("route") /\ hostUp /\ MayCheck(k, why)
  /\ LET n == conn[k].cert IN
       Put("route", Answer(why, k, n, IF Authentic(k, n, FALSE) THEN "ok" ELSE Refusal(k, n)))
  /\ UNCHANGED <<hostVars, conn, ren, files, roleVars, cancelling, budget>>

(* Everybody's automatic join ends when somebody is activated.              *)
Activated(k) ==
  /\ conn' = [Invalidated(conn, Pairings \ {k}) EXCEPT ![k].st = "connected",
                ![k].intent = IF @ = "pending" THEN (IF call["route"].op = "auto" THEN "completed" ELSE "ended") ELSE @]
  /\ active' = k

(* activate_auto_connection asks its conditions again after the health check. *)
AutoAnswered ==
  /\ Hears("route", "auto") /\ Put("route", Idle)
  /\ IF call["route"].ans = "ok" /\ Joinable(call["route"].k)
     THEN Activated(call["route"].k) ELSE UNCHANGED <<conn, active>>
  /\ UNCHANGED <<hostVars, ren, files, paused, hosting, cancelling, budget>>

(* set_active_connection                                                     *)
ManualAnswered ==
  /\ Hears("route", "manual") /\ Put("route", Idle)
  /\ LET k == call["route"].k IN
       IF call["route"].ans = "ok" /\ conn[k].st \in Usable /\ conn[k].cert = call["route"].n
       THEN Activated(k) ELSE UNCHANGED <<conn, active>>
  /\ UNCHANGED <<hostVars, ren, files, paused, hosting, cancelling, budget>>

(* restore_host_paused_connection: host mode stays when it fails.            *)
RestoreAnswered ==
  /\ Hears("route", "restore") /\ Put("route", Idle)
  /\ IF call["route"].ans = "ok"
     THEN Activated(call["route"].k) /\ paused' = None /\ hosting' = FALSE
     ELSE UNCHANGED <<conn, roleVars>>
  /\ UNCHANGED <<hostVars, ren, files, cancelling, budget>>

(* resume_member_after_host with nothing paused.                             *)
Resume ==
  /\ hosting /\ paused = None /\ IsIdle("route") /\ IsIdle("own")
  /\ hosting' = FALSE
  /\ UNCHANGED <<hostVars, conn, ren, files, active, paused, cancelling, call, budget>>

(* A refusal alone retires nothing: the host is asked for the peer's status, *)
(* with any certificate that has not expired (peer_revocation_status).       *)
Confirm ==
  /\ Hears("route", "check") /\ call["route"].ans = "revoked" /\ hostUp /\ IsIdle("maint")
  /\ LET k == call["route"].k  n == conn[k].cert IN
       call' = [call EXCEPT !["route"] = Idle,
                  !["maint"] = Answer("confirm", k, n, IF cert[k][n] = "expired" THEN "failed" ELSE peer[k])]
  /\ UNCHANGED <<hostVars, conn, ren, files, roleVars, cancelling, budget>>

CheckAnswered ==
  /\ Hears("route", "check") /\ call["route"].ans # "revoked"
  /\ Put("route", Idle)
  /\ UNCHANGED <<hostVars, conn, ren, files, roleVars, cancelling, budget>>

(* retire_remote_revoked_connection                                          *)
Retire(k) ==
  /\ conn' = [Invalidated(conn, Pairings) EXCEPT ![k].st = "revoked"]
  /\ ren' = [ren EXCEPT ![k] = NoRen(@.n)]
  /\ active' = IF active = k THEN None ELSE active

Confirmed ==
  /\ Hears("maint", "confirm") /\ IsIdle("route") /\ IsIdle("own") /\ Put("maint", Idle)
  /\ LET k == call["maint"].k IN
       IF call["maint"].ans = "revoked" /\ conn[k].st \in Usable \cup {"revoked"} /\ conn[k].cert = call["maint"].n
       THEN Retire(k) ELSE UNCHANGED <<conn, ren, active>>
  /\ UNCHANGED <<hostVars, files, paused, hosting, cancelling, budget>>

-----------------------------------------------------------------------------
(* Host mode and the user's own operations.                                  *)

(* pause_active_connection_for_host                                          *)
Pause ==
  /\ Acting
  /\ ~hosting /\ IsIdle("route") /\ IsIdle("own")
  /\ hosting' = TRUE /\ paused' = active /\ active' = None
  /\ conn' = LET c == Invalidated(conn, Pairings) IN
             IF active = None THEN c ELSE [c EXCEPT ![active].st = "deactivated"]
  /\ UNCHANGED <<hostVars, ren, files, cancelling, call, mishaps>>

Deactivate(k) ==
  /\ Acting
  /\ ~hosting /\ IsIdle("route") /\ IsIdle("own") /\ conn[k].st \in Usable
  /\ active' = IF active = k THEN None ELSE active
  /\ conn' = [Invalidated(conn, Pairings) EXCEPT ![k].st = "deactivated"]
  /\ UNCHANGED <<hostVars, ren, files, paused, hosting, cancelling, call, mishaps>>

(* forget_connection: the host revokes first, with whatever certificate the  *)
(* member still has (authorize_peer_self_revocation, revoke_peer_for_self).  *)
ForgetAsk(k) ==
  /\ Acting
  /\ ~hosting /\ hostUp /\ IsIdle("own") /\ call["route"].op \notin {"manual", "restore"}
  /\ conn[k].st \in Usable \cup {"revoked"} /\ cert[k][conn[k].cert] # "expired"
  /\ peer' = Revoked(peer, {k})
  /\ Put("own", Answer("forget", k, conn[k].cert, "ok"))
  /\ UNCHANGED <<hostUp, req, cert, bound, prov, conn, ren, files, roleVars, cancelling, mishaps>>

ForgetRetire ==
  /\ Hears("own", "forget") /\ IsIdle("route")
  /\ LET k == call["own"].k IN
       IF conn[k].cert = call["own"].n
       THEN Retire(k) /\ Put("own", Answer("retired", k, call["own"].n, "ok"))
       ELSE Put("own", Idle) /\ UNCHANGED <<conn, ren, active>>
  /\ UNCHANGED <<hostVars, files, paused, hosting, cancelling, budget>>

(* _forget_connection_locked, forget_expired_connection                      *)
Gone(k) ==
  /\ conn' = [Invalidated(conn, Pairings) EXCEPT ![k] = Over]
  /\ files' = files \ Material(k)
  /\ ren' = [ren EXCEPT ![k] = NoRen(@.n)]
  /\ active' = IF active = k THEN None ELSE active

ForgetRow ==
  /\ Hears("own", "retired") /\ IsIdle("route") /\ Put("own", Idle)
  /\ Gone(call["own"].k)
  /\ UNCHANGED <<hostVars, paused, hosting, cancelling, budget>>

ForgetExpired(k) ==
  /\ ~hosting /\ IsIdle("own") /\ IsIdle("route")
  /\ conn[k].st \in Usable \cup {"revoked"} /\ cert[k][conn[k].cert] = "expired"
  /\ Gone(k)
  /\ UNCHANGED <<hostVars, paused, hosting, cancelling, call, budget>>

-----------------------------------------------------------------------------
(* Renewal of the active connection's certificate, by the maintenance pass.  *)

Renewing(k) == ~hosting /\ active = k /\ IsIdle("route") /\ IsIdle("maint")

(* The new key is on disk before the renewal row.                            *)
RenewStart(k) ==
  /\ Renewing(k) /\ ren[k].st = "none" /\ ren[k].n < MaxRenewals /\ Effort < MaxEffort
  /\ ren' = [ren EXCEPT ![k] = [n |-> @.n + 1, st |-> "pending", late |-> FALSE]]
  /\ files' = files \cup {Key(k, ren[k].n + 1)}
  /\ UNCHANGED <<hostVars, conn, roleVars, cancelling, call, budget>>

(* renew_peer: a repeated request gets its first answer, a new one only for  *)
(* the current certificate, and only one at a time.                          *)
Issued(k, n) == cert[k][n] # "none"
RenewalOpen(k, c) == cert[k][c] = "live" /\ \A m \in Gens : cert[k][m] # "waiting"

RenewPost(k) ==
  /\ Renewing(k) /\ hostUp /\ ren[k].st = "pending"
  /\ LET n == ren[k].n
         c == conn[k].cert
         Say(ans) == Put("route", Answer("renew", k, n, ans))
     IN
       IF ~Authentic(k, c, FALSE) THEN Say("refused") /\ UNCHANGED cert
       ELSE IF Issued(k, n)
       THEN Say(IF cert[k][n] = "stale" THEN "expired" ELSE "issued") /\ UNCHANGED cert
       ELSE \/ Say("expired") /\ UNCHANGED cert
            \/ /\ RenewalOpen(k, c)
               /\ Say("issued") /\ cert' = [cert EXCEPT ![k][n] = "waiting"]
            \/ ~RenewalOpen(k, c) /\ Say("refused") /\ UNCHANGED cert
  /\ UNCHANGED <<hostUp, req, peer, bound, prov, conn, ren, files, roleVars, cancelling, budget>>

(* _discard_expired_client_renewal: only when the host says expired and the  *)
(* member's own clock agrees.                                                *)
Discard(k) ==
  /\ ren' = [ren EXCEPT ![k] = NoRen(@.n)]
  /\ files' = files \ {Key(k, ren[k].n), Cert(k, ren[k].n)}

RenewAnswered ==
  /\ Hears("route", "renew") /\ Put("route", Idle)
  /\ LET k == call["route"].k  n == call["route"].n  ans == call["route"].ans IN
       IF ans = "issued" /\ ren[k].st = "pending"
       THEN ren' = [ren EXCEPT ![k].st = "saved"] /\ files' = files \cup {Cert(k, n)}
       ELSE IF ans = "expired" /\ ren[k].late /\ ren[k].st = "pending"
       THEN Discard(k)
       ELSE UNCHANGED <<ren, files>>
  /\ UNCHANGED <<hostVars, conn, roleVars, cancelling, budget>>

(* activate_renewal: repeated activations succeed even after the deadline.   *)
(* Fault: the deadline is looked at first.                                   *)
ActivationExpiredFirst(k, n) == cert[k][n] \in {"stale", "live"}
ActivationExpired(k, n) == cert[k][n] = "stale"

RenewActivate(k) ==
  /\ Renewing(k) /\ hostUp /\ ren[k].st = "saved"
  /\ LET n == ren[k].n
         c == conn[k].cert
         Say(ans) == Put("route", Answer("activate", k, n, ans))
     IN
       IF ~Authentic(k, n, TRUE) THEN Say("refused") /\ UNCHANGED cert
       ELSE IF ActivationExpired(k, n) THEN Say("expired") /\ UNCHANGED cert
       ELSE /\ Say("activated")
            /\ cert' = IF cert[k][n] = "waiting"
                       THEN [cert EXCEPT ![k][n] = "live", ![k][c] = IF @ = "live" THEN "overlap" ELSE @]
                       ELSE cert
  /\ UNCHANGED <<hostUp, req, peer, bound, prov, conn, ren, files, roleVars, cancelling, budget>>

(* The member switches over only now, and drops exactly the old files. An     *)
(* unavailable renewal is discarded as well; this host never says so, for it  *)
(* deletes no renewal that was not activated (activate_renewal).              *)
ActivateAnswered ==
  /\ Hears("route", "activate") /\ Put("route", Idle)
  /\ LET k == call["route"].k  n == call["route"].n  ans == call["route"].ans IN
       IF ans = "activated" /\ ren[k].st = "saved"
       THEN /\ conn' = [conn EXCEPT ![k].cert = n]
            /\ ren' = [ren EXCEPT ![k] = NoRen(@.n)]
            /\ files' = files \ {Key(k, conn[k].cert), Cert(k, conn[k].cert)}
       ELSE IF ans = "expired" /\ ren[k].late /\ ren[k].st = "saved"
       THEN Discard(k) /\ UNCHANGED conn
       ELSE UNCHANGED <<conn, ren, files>>
  /\ UNCHANGED <<hostVars, roleVars, cancelling, budget>>

(* A day after the renewal was started.                                      *)
RenewalAges(k) ==
  /\ ren[k].st # "none" /\ ~ren[k].late
  /\ ren' = [ren EXCEPT ![k].late = TRUE]
  /\ UNCHANGED <<hostVars, conn, files, roleVars, cancelling, call, budget>>

-----------------------------------------------------------------------------
(* Answers get lost, and the member restarts.                                *)

Lose(t) ==
  /\ mishaps < MaxMishaps /\ ~IsIdle(t)
  /\ call[t].op \notin {"cancel", "retired"}
  /\ Put(t, Idle)
  /\ mishaps' = mishaps + 1
  /\ UNCHANGED <<hostVars, conn, ren, files, roleVars, cancelling, acts>>

MemberRestart ==
  /\ mishaps < MaxMishaps
  /\ \E t \in Threads : ~IsIdle(t)
  /\ call' = [t \in Threads |-> Idle]
  /\ cancelling' = [k \in Pairings |-> "no"]
  /\ mishaps' = mishaps + 1
  /\ UNCHANGED <<hostVars, conn, ren, files, roleVars, acts>>

Init ==
  /\ hostUp = TRUE
  /\ req = [k \in Pairings |-> "none"] /\ peer = [k \in Pairings |-> "none"]
  /\ cert = [k \in Pairings |-> [n \in Gens |-> "none"]]
  /\ bound = [k \in Pairings |-> "none"]
  /\ prov = [k \in Pairings |-> [on |-> FALSE, todo |-> {}]]
  /\ conn = [k \in Pairings |-> [st |-> "none", cert |-> 0, intent |-> "none"]]
  /\ ren = [k \in Pairings |-> NoRen(0)]
  /\ files = {} /\ active = None /\ paused = None /\ hosting = FALSE
  /\ cancelling = [k \in Pairings |-> "no"]
  /\ call = [t \in Threads |-> Idle]
  /\ mishaps = 0 /\ acts = 0

Clock ==
  \/ \E k \in Pairings, n \in Gens : OverlapEnds(k, n) \/ RenewalEnds(k, n) \/ CertExpires(k, n)
  \/ \E k \in Pairings : RenewalAges(k) \/ AttemptAges(k) \/ ExpireLocal(k) \/ HostExpire(k)

HostSteps ==
  \/ \E k \in Pairings : \/ Approve(k) \/ ApproveAgain(k) \/ UnbindPrior(k) \/ Provision(k)
                         \/ Reject(k) \/ RevokePeer(k) \/ Unbind(k)
  \/ HostCrash \/ HostStart

MemberSteps ==
  \/ \E k \in Pairings, auto \in BOOLEAN : Begin(k, auto)
  \/ \E k \in Pairings : \/ Post(k) \/ PostLate(k) \/ PostFull(k) \/ Poll(k) \/ CancelAsked(k)
                         \/ CancelApproved(k) \/ CancelPending(k)
                         \/ Deactivate(k) \/ ForgetAsk(k) \/ ForgetExpired(k)
                         \/ RenewStart(k) \/ RenewPost(k) \/ RenewActivate(k)
  \/ \E k \in Pairings, why \in {"auto", "manual", "restore", "check"} : Health(k, why)
  \/ PostAnswered \/ PollSave \/ PollAnswered \/ CancelAnswered
  \/ AutoAnswered \/ ManualAnswered \/ RestoreAnswered \/ CheckAnswered \/ Confirm \/ Confirmed
  \/ Pause \/ Resume \/ ForgetRetire \/ ForgetRow \/ RenewAnswered \/ ActivateAnswered

Next == Clock \/ HostSteps \/ MemberSteps \/ MemberRestart \/ \E t \in Threads : Lose(t)

(* The maintenance passes of both sides come round, calls are answered or    *)
(* time out, and a host that went down is started again.                     *)
(* A thread of the member goes on with the answer it has heard.              *)
PairGoesOn == PostAnswered \/ PollSave \/ PollAnswered \/ CancelAnswered
RouteGoesOn ==
  AutoAnswered \/ ManualAnswered \/ RestoreAnswered \/ CheckAnswered \/ RenewAnswered \/ ActivateAnswered
OwnGoesOn == ForgetRetire \/ ForgetRow

Fairness ==
  /\ WF_vars(HostStart)
  /\ \A k \in Pairings :
       /\ WF_vars(Unbind(k)) /\ SF_vars(Post(k)) /\ SF_vars(Health(k, "check"))
       /\ SF_vars(RenewPost(k)) /\ SF_vars(RenewActivate(k)) /\ WF_vars(RenewalAges(k))
  /\ WF_vars(PairGoesOn) /\ WF_vars(RouteGoesOn) /\ WF_vars(OwnGoesOn) /\ WF_vars(Confirm) /\ SF_vars(Confirmed)

Spec == Init /\ [][Next]_vars
FairSpec == Spec /\ Fairness

-----------------------------------------------------------------------------
CallOps == {"idle", "begin", "post", "replay", "poll", "cancel", "auto", "manual", "restore", "check", "confirm", "forget", "retired",
            "renew", "activate"}

(* Connections, peers, certificates and calls take their documented values.  *)
TypeOK ==
  /\ hostUp \in BOOLEAN /\ hosting \in BOOLEAN
  /\ req \in [Pairings -> {"none", "pending", "approved", "ended"}]
  /\ peer \in [Pairings -> {"none", "active", "revoked"}]
  /\ cert \in [Pairings -> [Gens -> CertStates]]
  /\ bound \in [Pairings -> {"none", "active", "revoked"}]
  /\ \A k \in Pairings : prov[k].on \in BOOLEAN /\ prov[k].todo \subseteq Pairings
  /\ conn \in [Pairings -> [st : ConnStates, cert : Gens,
                            intent : {"none", "pending", "completed", "ended"}]]
  /\ ren \in [Pairings -> [n : Gens, st : {"none", "pending", "saved"}, late : BOOLEAN]]
  /\ files \subseteq {"key", "cert"} \X Pairings \X Gens
  /\ active \in 0..MaxPairings /\ paused \in 0..MaxPairings
  /\ cancelling \in [Pairings -> {"no", "plain", "auto"}]
  /\ \A t \in Threads : call[t].op \in CallOps
  /\ mishaps \in 0..MaxMishaps /\ acts \in 0..MaxActs

(* A connection the member may still use has the key and the certificate its *)
(* row names, and a saved renewal has both of its own (_poll_pairing_locked, *)
(* _renew_if_due_locked and the retirement of superseded files).             *)
CredentialsOnDisk ==
  \A k \in Pairings :
    /\ conn[k].st \in Usable => {Key(k, conn[k].cert), Cert(k, conn[k].cert)} \subseteq files
    /\ ren[k].st = "saved" => {Key(k, ren[k].n), Cert(k, ren[k].n)} \subseteq files

(* When the overlap of a superseded certificate has ended and the member has *)
(* not switched over, the renewal it holds is the certificate the host       *)
(* accepts (activate_renewal, _discard_expired_client_renewal).              *)
NeverLockedOut ==
  \A k \in Pairings :
    conn[k].st \in Usable /\ peer[k] = "active" /\ cert[k][conn[k].cert] \in {"overlap", "dead"} =>
      ren[k].st = "saved" /\ cert[k][ren[k].n] \in {"live", "expired"}

(* The member's server has at most one active peer and at most one active    *)
(* binding in the team hub (approve_pairing, ensure_secure_peer_service).    *)
OneIdentity ==
  /\ Cardinality({k \in Pairings : peer[k] = "active"}) <= 1
  /\ Cardinality({k \in Pairings : bound[k] = "active"}) <= 1

(* The active connection is connected, host mode has none, and the paused    *)
(* one waits deactivated, unless its revocation was confirmed just before    *)
(* the pause (pause_active_connection_for_host, activate_auto_connection).   *)
ActiveConsistent ==
  /\ active # None => conn[active].st = "connected" /\ paused = None /\ ~hosting
  /\ paused # None => hosting /\ conn[paused].st \in {"deactivated", "revoked"}

(* What was cancelled, rejected, expired or revoked is never usable again,   *)
(* and a revoked peer is never active again.                                 *)
ClosedForGood ==
  [][\A k \in Pairings :
       /\ conn[k].st \in Closed => conn'[k].st \in Closed
       /\ peer[k] = "revoked" => peer'[k] = "revoked"
       /\ conn[k].intent = "ended" /\ conn[k].st = "approved" /\ conn'[k].st = "connected" =>
            Hears("route", "manual")]_vars

(* Every attempt gets an answer or is given up, unless the member enters host *)
(* mode: there its maintenance returns before it would send the attempt again *)
(* (recover_pairing_attempts, _maintenance_once_unlocked), and the attempt    *)
(* waits until host mode ends.                                                *)
AttemptsSettle == \A k \in Pairings : conn[k].st = "attempt" ~> conn[k].st # "attempt" \/ hosting

(* The binding of a revoked peer is taken down, even if the approval that    *)
(* made it finished late (_maintenance_once_unlocked).                       *)
RevokedUnbound == \A k \in Pairings : peer[k] = "revoked" ~> bound[k] # "active"

(* A member whose peer was revoked stops using it, unless its certificate    *)
(* has expired meanwhile (_retire_remote_revoked_active_connection).         *)
ClientLearnsRevocation ==
  \A k \in Pairings :
    active = k /\ peer[k] = "revoked" ~> active # k \/ cert[k][conn[k].cert] = "expired"

(* A server has one active peer and a member a certificate its host accepts,  *)
(* with its files; what is revoked or forgotten does not come back            *)
(* (approve_pairing, activate_renewal, cancel_pairing).                       *)
PairingSound ==
  /\ [](TypeOK /\ CredentialsOnDisk /\ NeverLockedOut /\ OneIdentity /\ ActiveConsistent)
  /\ ClosedForGood

(* Pairing attempts settle outside host mode, the bindings of revoked peers   *)
(* go, and a member learns of its revocation (recover_pairing_attempts,        *)
(* revoke_secure_peer_service, peer_revocation_status).                       *)
PeersSettle ==
  /\ AttemptsSettle
  /\ RevokedUnbound
  /\ ClientLearnsRevocation

================================================================================
