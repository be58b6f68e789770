------------------------------- MODULE HubAccess -------------------------------
(***************************************************************************)
(* Who may use the team hub, and how that authority is handed on: first-   *)
(* owner bootstrap, invitations, memberships, device sessions with their   *)
(* rotating refresh tokens, device recovery and the enrolment of servers   *)
(* (agentsdock_team_hub/store.py and auth.py).                             *)
(*                                                                         *)
(* Every operation is one SQLite write transaction and so one action; what *)
(* can go wrong lies between operations: an answer that never arrives, a   *)
(* secret used long after it was issued, an authority that was withdrawn   *)
(* meanwhile, a crash around the secret file that goes with a transaction. *)
(* Rows are appended to sequences; an index stands for the row's id and    *)
(* for the secret whose hash it stores.                                    *)
(***************************************************************************)
EXTENDS Integers, Sequences, FiniteSets

CONSTANTS
  People,       \* humans, one e-mail address each
  Host,         \* the managed server's own principal, no human
  Servers,      \* server identities that may be enrolled
  MaxBoots, MaxSessions, MaxGen, MaxInvites, MaxClaims, MaxGrants,
                \* bounds on rows of each table, and on refreshes of a session
  MaxMishaps    \* bound on crashes, lost answers and expiries together

VARIABLES
  up,           \* the hub process runs
  team,         \* "none", "personal" (a human owns it) or "managed"
  boots,        \* live bootstrap_claims (a dead one is only ever refused) ...
  bootIds,      \* ... and how many have been made for a hub without owner
  bootFile,     \* claim whose secret the bootstrap proof file holds, 0: no file
  members,      \* memberships of the one team
  sessions,     \* device_sessions with their refresh_tokens
  invites,      \* invitations
  claims,       \* owner_recovery_claims
  proofs,       \* claims whose .proof file is on disk
  grants,       \* node_enrollment_grants with their challenge
  nodes,        \* grants whose server became a node
  mishaps       \* crashes, lost answers and expiries so far

vars == <<up, team, boots, bootIds, bootFile, members, sessions, invites, claims, proofs, grants, nodes, mishaps>>
bootVars == <<up, team, boots, bootIds, bootFile>>
recoveryVars == <<claims, proofs>>
nodeVars == <<grants, nodes>>

Orphan == MaxBoots + 1        \* a secret no claim stores
NoOne == [role |-> "none", status |-> "none"]
Row == {"live", "used", "revoked", "expired"}

(* The clock or the network does its worst, or does nothing. *)
Mishap == mishaps < MaxMishaps /\ mishaps' = mishaps + 1
Answered(got) == IF got THEN UNCHANGED mishaps ELSE Mishap

-----------------------------------------------------------------------------
(* Sessions. Generation g of a session's refresh token is tokens[g + 1]; held  *)
(* is the newest generation whose answer reached the device, -1 for none.      *)

CreateSession(p, got) ==
  Append(sessions, [owner |-> p, gen |-> 0, state |-> "live", tokens |-> <<"live">>,
                    held |-> IF got THEN 0 ELSE -1])

RevokeSession(s) ==
  [s EXCEPT !.state = "revoked",
            !.tokens = [i \in DOMAIN @ |-> IF @[i] = "live" THEN "revoked" ELSE @[i]]]

RevokeAllOf(p) ==
  [i \in DOMAIN sessions |-> IF sessions[i].owner = p THEN RevokeSession(sessions[i]) ELSE sessions[i]]

LiveSessions(p) == {i \in DOMAIN sessions : sessions[i].owner = p /\ sessions[i].state = "live"}

(* A device of p presents an access token its live session vouches for. *)
SignedIn(p) == \E i \in LiveSessions(p) : sessions[i].held >= 0

Member(p) == members[p].status = "active"
MayIssue(i) == i # Host => Member(i) /\ members[i].role \in {"owner", "admin"}

(* Fault: the authority of the issuer is not looked at again. *)
MayIssueOnce(i) == TRUE

(* The issuer as the redeeming transaction finds it. *)
StillIssuer(i) == MayIssue(i)

(* refresh: a token that was used already, or is not of the session's          *)
(* generation, ends the session; the newest one is exchanged for the next.     *)
RefreshReplay(i, g) ==
  /\ g <= sessions[i].held
  /\ sessions[i].tokens[g + 1] = "consumed" \/ g # sessions[i].gen
  /\ sessions' = [sessions EXCEPT ![i] = RevokeSession(@)] /\ UNCHANGED mishaps

Rotated(s, got) ==
  [s EXCEPT !.tokens = Append([@ EXCEPT ![s.gen + 1] = "consumed"], "live"),
            !.gen = @ + 1, !.held = IF got THEN s.gen + 1 ELSE @]

Refresh(i, got) ==
  LET s == sessions[i] IN
  /\ s.held = s.gen /\ s.gen < MaxGen
  /\ s.state = "live" /\ s.tokens[s.gen + 1] = "live"
  /\ sessions' = [sessions EXCEPT ![i] = Rotated(s, got)] /\ Answered(got)

Refreshes ==
  /\ UNCHANGED <<bootVars, members, invites, recoveryVars, nodeVars>>
  /\ \E i \in DOMAIN sessions : \/ \E g \in 0 .. MaxGen : RefreshReplay(i, g)
                                \/ \E got \in BOOLEAN : Refresh(i, got)

(* revoke_session and revoke_device_session: a signed-in person ends one of    *)
(* the sessions of hers.                                                       *)
EndSession(p, i) ==
  /\ SignedIn(p) /\ sessions[i].owner = p
  /\ sessions' = [sessions EXCEPT ![i] = RevokeSession(@)]
  /\ UNCHANGED <<bootVars, members, invites, recoveryVars, nodeVars, mishaps>>

ExpireSession(i) ==
  /\ sessions[i].state = "live" /\ Mishap
  /\ sessions' = [sessions EXCEPT ![i].state = "expired"]
  /\ UNCHANGED <<bootVars, members, invites, recoveryVars, nodeVars>>

-----------------------------------------------------------------------------
(* Bootstrap. A claim is made for the host's own console (by = Host, its secret *)
(* in the proof file) or for a person the host vouched for over the tailnet.   *)

GloballyEmpty == team = "none"

NewClaimBy(who) == {[id |-> bootIds + 1, by |-> who]}

(* _ensure_bootstrap_claim keeps the claim a start finds: a delegated one when *)
(* there is no proof file, or the one whose secret the file holds.             *)
ClaimStands == \E b \in boots : IF b.by = Host THEN bootFile = b.id ELSE bootFile = 0

LocalClaim ==
  /\ bootIds < MaxBoots /\ bootIds' = bootIds + 1
  /\ boots' = NewClaimBy(Host) /\ bootFile' = bootIds + 1

Start ==
  /\ ~up /\ up' = TRUE
  /\ IF GloballyEmpty /\ ~ClaimStands THEN LocalClaim ELSE UNCHANGED <<boots, bootIds, bootFile>>
  /\ UNCHANGED <<team, members, sessions, invites, recoveryVars, nodeVars, mishaps>>

RenewBootstrapProof ==
  /\ up /\ GloballyEmpty /\ LocalClaim
  /\ UNCHANGED <<up, team, members, sessions, invites, recoveryVars, nodeVars, mishaps>>

(* issue_tailnet_bootstrap_proof for a new request_id (a repeated one is       *)
(* answered from the ledger): another person's live confirmation is not        *)
(* pushed aside.                                                               *)
Delegate(p) ==
  /\ bootIds < MaxBoots /\ bootIds' = bootIds + 1
  /\ \A b \in boots : b.by \in {Host, p}
  /\ boots' = NewClaimBy(p)

(* The proof file goes once the transaction is committed. *)
IssueTailnetBootstrap(p) ==
  /\ up /\ GloballyEmpty /\ Delegate(p) /\ bootFile' = 0
  /\ UNCHANGED <<up, team, members, sessions, invites, recoveryVars, nodeVars, mishaps>>

(* The process dies before it commits a claim whose file it has replaced, or   *)
(* before it removes the file after the commit, or anywhere else.              *)
Crash ==
  /\ up /\ GloballyEmpty /\ Mishap /\ up' = FALSE
  /\ \/ bootFile' \in {bootFile, 0, Orphan} /\ UNCHANGED <<boots, bootIds>>
     \/ (\E p \in People : Delegate(p)) /\ UNCHANGED bootFile
  /\ UNCHANGED <<team, members, sessions, invites, recoveryVars, nodeVars>>

BootstrapOwner(b, p, got) ==
  /\ up /\ GloballyEmpty /\ b \in boots
  /\ IF b.by = Host THEN bootFile = b.id ELSE b.by = p
  /\ team' = "personal" /\ boots' = boots \ {b} /\ bootFile' = 0 /\ bootIds' = 0
  /\ members' = [members EXCEPT ![p] = [role |-> "owner", status |-> "active"]]
  /\ sessions' = CreateSession(p, got) /\ Answered(got)
  /\ UNCHANGED <<up, invites, recoveryVars, nodeVars>>

(* bootstrap_managed_network: a service owns the team, and no human yet. *)
BootstrapManagedNetwork ==
  /\ up /\ GloballyEmpty
  /\ team' = "managed" /\ boots' = {} /\ bootIds' = 0
  /\ UNCHANGED <<up, bootFile, members, sessions, invites, recoveryVars, nodeVars, mishaps>>

ExpireBoot(b) ==
  /\ GloballyEmpty /\ Mishap /\ boots' = boots \ {b}
  /\ UNCHANGED <<up, team, bootIds, bootFile, members, sessions, invites, recoveryVars, nodeVars>>

-----------------------------------------------------------------------------
(* Invitations and memberships. *)

IssueInvite(i, p, role) ==
  /\ ~GloballyEmpty /\ Len(invites) < MaxInvites
  /\ i = Host \/ SignedIn(i)
  /\ MayIssue(i)
  /\ invites' = Append(invites, [issuer |-> i, to |-> p, role |-> role, state |-> "live"])
  /\ UNCHANGED <<bootVars, members, sessions, recoveryVars, nodeVars, mishaps>>

(* redeem_invite is for an address without an account. *)
Unknown(p) == members[p] = NoOne

RedeemInvite(n, got) ==
  LET v == invites[n] IN
  /\ v.state = "live" /\ Unknown(v.to) /\ StillIssuer(v.issuer)
  /\ Len(sessions) < MaxSessions
  /\ members' = [members EXCEPT ![v.to] = [role |-> v.role, status |-> "active"]]
  /\ invites' = [invites EXCEPT ![n].state = "used"]
  /\ sessions' = CreateSession(v.to, got) /\ Answered(got)
  /\ UNCHANGED <<bootVars, recoveryVars, nodeVars>>

(* accept_invite, signed in: the membership there is must agree with it. *)
AcceptInvite(n) ==
  LET v == invites[n] IN
  /\ v.state = "live" /\ SignedIn(v.to) /\ StillIssuer(v.issuer)
  /\ members[v.to] = [role |-> v.role, status |-> "active"]
  /\ invites' = [invites EXCEPT ![n].state = "used"]
  /\ UNCHANGED <<bootVars, members, sessions, recoveryVars, nodeVars, mishaps>>

Owner(o) == SignedIn(o) /\ Member(o) /\ members[o].role = "owner"

RevokeInvite(o, n) ==
  /\ Owner(o) /\ invites[n].state = "live"
  /\ invites' = [invites EXCEPT ![n].state = "revoked"]
  /\ UNCHANGED <<bootVars, members, sessions, recoveryVars, nodeVars, mishaps>>

ExpireInvite(n) ==
  /\ invites[n].state = "live" /\ Mishap
  /\ invites' = [invites EXCEPT ![n].state = "expired"]
  /\ UNCHANGED <<bootVars, members, sessions, recoveryVars, nodeVars>>

(* update_human_membership: one change, of another human who is not the owner; *)
(* a revoked membership is final, a role changes only while it is active.      *)
MembershipChange(m, to) ==
  /\ m.status # "revoked" /\ m.role \notin {"none", "owner"}
  /\ \/ m.status = "active" /\ to.status = m.status /\ to.role \in {"admin", "member"}
     \/ to.role = m.role /\ to.status \in {"active", "suspended", "revoked"}

UpdateMembership(o, p) ==
  /\ Owner(o) /\ p # o
  /\ \E to \in [role : {"admin", "member"}, status : {"active", "suspended", "revoked"}] :
        /\ MembershipChange(members[p], to)
        /\ members' = [members EXCEPT ![p] = to]
  /\ UNCHANGED <<bootVars, sessions, invites, recoveryVars, nodeVars, mishaps>>

-----------------------------------------------------------------------------
(* Device recovery: the host ends every session of a member and writes the     *)
(* secret of a claim into a file; the member's device redeems it.              *)

ClaimsOf(p) == {c \in DOMAIN claims : claims[c].to = p}

(* The claims of p that are live are withdrawn, the others keep their fate.     *)
NewClaim(p) ==
  Append([c \in DOMAIN claims |-> IF claims[c].to = p /\ claims[c].state = "live"
                                    THEN [claims[c] EXCEPT !.state = "revoked"] ELSE claims[c]],
         [to |-> p, state |-> "live"])

Superseded(p) == {c \in ClaimsOf(p) : claims[c].state = "live"}

Issued(p) == RevokeAllOf(p)

(* A crash after the commit leaves the superseded files. (One before it leaves *)
(* a file whose secret no row stores, which nothing reads.)                    *)
IssueRecovery(p) ==
  /\ Member(p) /\ Len(claims) < MaxClaims
  /\ sessions' = Issued(p) /\ claims' = NewClaim(p)
  /\ \/ proofs' = (proofs \cup {Len(claims) + 1}) \ Superseded(p) /\ UNCHANGED mishaps
     \/ Superseded(p) # {} /\ proofs' = proofs \cup {Len(claims) + 1} /\ Mishap
  /\ UNCHANGED <<bootVars, members, invites, nodeVars>>

MayRedeem(p) == Member(p)

RedeemRecovery(c, got) ==
  LET p == claims[c].to IN
  /\ claims[c].state = "live" /\ c \in proofs /\ MayRedeem(p)
  /\ Len(sessions) < MaxSessions
  /\ sessions' = Append(RevokeAllOf(p), CreateSession(p, got)[Len(sessions) + 1]) /\ Answered(got)
  /\ claims' = [claims EXCEPT ![c].state = "used"]
  /\ proofs' = proofs \ {c}
  /\ UNCHANGED <<bootVars, members, invites, nodeVars>>

ExpireClaim(c) ==
  /\ claims[c].state = "live" /\ Mishap
  /\ claims' = [claims EXCEPT ![c].state = "expired"]
  /\ UNCHANGED <<bootVars, members, sessions, invites, proofs, nodeVars>>

-----------------------------------------------------------------------------
(* Enrolment of servers: a grant bound to an identity and a key, one challenge *)
(* per grant, and the signature that turns both into a node.                   *)

LiveGrants(srv) == {g \in DOMAIN grants : grants[g].server = srv /\ grants[g].state = "live"}
Enrolled(srv) == \E g \in nodes : grants[g].server = srv

Enrollable(srv) == LiveGrants(srv) = {} /\ ~Enrolled(srv)

IssueNodeGrant(i, srv) ==
  /\ SignedIn(i) /\ MayIssue(i) /\ Enrollable(srv) /\ Len(grants) < MaxGrants
  /\ grants' = Append(grants, [issuer |-> i, server |-> srv, state |-> "live", challenge |-> "none"])
  /\ UNCHANGED <<bootVars, members, sessions, invites, recoveryVars, nodes, mishaps>>

(* A live challenge is handed out again unchanged; a spent one never is. *)
NodeChallenge(g) ==
  /\ grants[g].state = "live" /\ StillIssuer(grants[g].issuer) /\ grants[g].challenge = "none"
  /\ grants' = [grants EXCEPT ![g].challenge = "live"]
  /\ UNCHANGED <<bootVars, members, sessions, invites, recoveryVars, nodes, mishaps>>

RedeemNodeChallenge(g) ==
  /\ grants[g].state = "live" /\ grants[g].challenge = "live"
  /\ StillIssuer(grants[g].issuer) /\ ~Enrolled(grants[g].server)
  /\ grants' = [grants EXCEPT ![g].state = "used", ![g].challenge = "used"]
  /\ nodes' = nodes \cup {g}
  /\ UNCHANGED <<bootVars, members, sessions, invites, recoveryVars, mishaps>>

(* A challenge never outlives its grant. *)
ExpireGrant(g) ==
  /\ grants[g].state = "live" /\ Mishap
  /\ \/ grants[g].challenge = "live" /\ grants' = [grants EXCEPT ![g].challenge = "expired"]
     \/ grants' = [grants EXCEPT ![g].state = "expired",
                                 ![g].challenge = IF @ = "live" THEN "expired" ELSE @]
  /\ UNCHANGED <<bootVars, members, sessions, invites, recoveryVars, nodes>>

-----------------------------------------------------------------------------
Init ==
  /\ up = FALSE /\ team = "none" /\ boots = {} /\ bootIds = 0 /\ bootFile = 0
  /\ members = [p \in People |-> NoOne]
  /\ sessions = <<>> /\ invites = <<>> /\ claims = <<>> /\ proofs = {}
  /\ grants = <<>> /\ nodes = {} /\ mishaps = 0

Bootstraps ==
  \/ Start \/ RenewBootstrapProof \/ Crash \/ BootstrapManagedNetwork
  \/ \E p \in People : IssueTailnetBootstrap(p)
  \/ \E b \in boots : ExpireBoot(b) \/ \E p \in People, got \in BOOLEAN : BootstrapOwner(b, p, got)

Invites ==
  \/ \E i \in People \cup {Host}, p \in People, role \in {"admin", "member"} : IssueInvite(i, p, role)
  \/ \E n \in DOMAIN invites : \/ AcceptInvite(n) \/ ExpireInvite(n)
                               \/ \E got \in BOOLEAN : RedeemInvite(n, got)
                               \/ \E o \in People : RevokeInvite(o, n)

Devices ==
  \/ Refreshes
  \/ \E i \in DOMAIN sessions : ExpireSession(i) \/ \E p \in People : EndSession(p, i)
  \/ \E o, p \in People : UpdateMembership(o, p)
  \/ \E p \in People : IssueRecovery(p)
  \/ \E c \in DOMAIN claims : ExpireClaim(c) \/ \E got \in BOOLEAN : RedeemRecovery(c, got)

Enrolments ==
  \/ \E i \in People, srv \in Servers : IssueNodeGrant(i, srv)
  \/ \E g \in DOMAIN grants : NodeChallenge(g) \/ RedeemNodeChallenge(g) \/ ExpireGrant(g)

Next == Bootstraps \/ Invites \/ Devices \/ Enrolments

Spec == Init /\ [][Next]_vars

-----------------------------------------------------------------------------
TypeOK ==
  /\ up \in BOOLEAN /\ team \in {"none", "personal", "managed"} /\ bootFile \in 0 .. Orphan
  /\ boots \subseteq [id : 1 .. bootIds, by : People \cup {Host}]
  /\ bootIds \in 0 .. MaxBoots /\ mishaps \in 0 .. MaxMishaps
  /\ members \in [People -> [role : {"none", "owner", "admin", "member"},
                             status : {"none", "active", "suspended", "revoked"}]]
  /\ sessions \in Seq([owner : People, gen : 0 .. MaxGen, state : Row, held : -1 .. MaxGen,
                       tokens : Seq({"live", "consumed", "revoked"})])
  /\ invites \in Seq([issuer : People \cup {Host}, to : People, role : {"admin", "member"}, state : Row])
  /\ claims \in Seq([to : People, state : Row]) /\ proofs \subseteq DOMAIN claims
  /\ grants \in Seq([issuer : People, server : Servers, state : Row, challenge : Row \cup {"none"}])
  /\ nodes \subseteq DOMAIN grants

(* RotationExact: a live session has exactly one usable refresh token, that of  *)
(* its own generation, and a revoked session has none, whatever refreshes,      *)
(* replays, sign-outs and recoveries came before (refresh, revoke_session).     *)
RotationExact ==
  \A i \in DOMAIN sessions : LET s == sessions[i] IN
     {g \in DOMAIN s.tokens : s.tokens[g] = "live"} = IF s.state = "revoked" THEN {} ELSE {s.gen + 1}

(* OneLiveSession: a person never has two live sessions: the only ways to a new *)
(* one are a first invitation, the bootstrap and a recovery, which ends the     *)
(* others.                                                                      *)
OneLiveSession == \A p \in People : Cardinality(LiveSessions(p)) <= 1

(* RecoveryExclusive: while a recovery claim can be redeemed, its secret is on  *)
(* the host's disk and no session of that person is live: the device that was   *)
(* lost cannot act in the meantime (issue_device_recovery).                     *)
RecoveryExclusive ==
  \A c \in DOMAIN claims : claims[c].state = "live" => c \in proofs /\ LiveSessions(claims[c].to) = {}

(* EnrolmentExclusive: a server identity has at most one live grant, none once  *)
(* it is enrolled, and never becomes two nodes.                                 *)
EnrolmentExclusive ==
  \A srv \in Servers :
    /\ Cardinality(LiveGrants(srv)) + Cardinality({g \in nodes : grants[g].server = srv}) <= 1

(* BootstrapOpen: a hub that runs without an owner has at most one live         *)
(* bootstrap claim, and whoever holds it can use it: a local claim's secret is  *)
(* the one in the proof file, crashes between file and commit notwithstanding;  *)
(* a hub with an owner has none.                                                *)
BootstrapOpen ==
  /\ Cardinality(boots) <= IF GloballyEmpty THEN 1 ELSE 0
  /\ up => \A b \in boots : b.by = Host => bootFile = b.id

(* RevokedStaysOut: a revoked membership is final, and from then on no          *)
(* invitation and no recovery claim issued before gives that person a session.  *)
RevokedStaysOut ==
  [][\A p \in People : members[p].status = "revoked" =>
        /\ members'[p] = members[p]
        /\ LiveSessions(p)' \subseteq LiveSessions(p)]_vars

(* AuthorityAtUse: nobody joins and no server is enrolled under an invitation   *)
(* or a grant whose issuer has lost the authority to issue it since.            *)
AuthorityAtUse ==
  [][/\ \A n \in DOMAIN invites : invites[n].state = "live" /\ invites'[n].state = "used"
                                    => MayIssue(invites[n].issuer)
     /\ \A g \in nodes' \ nodes : MayIssue(grants[g].issuer)]_vars

(* Every secret works once and for one holder, and authority is looked up     *)
(* when it is used: rotation, recovery, enrolment and bootstrap leave one     *)
(* usable credential, and revoked people stay out (refresh, redeem_invite,    *)
(* redeem_node_challenge, _require_session).                                  *)
AccessSound ==
  /\ [](TypeOK /\ RotationExact /\ OneLiveSession /\ RecoveryExclusive /\ EnrolmentExclusive /\ BootstrapOpen)
  /\ RevokedStaysOut
  /\ AuthorityAtUse

================================================================================
