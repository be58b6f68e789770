------------------------------- MODULE HubTeam -------------------------------
(***************************************************************************)
(* What the members of a team write and find at their hub: the requests of *)
(* servers, executed once each (HubMail, extended), the channels in which  *)
(* posts are read, answered and deleted (HubChannels), the directory of    *)
(* the servers themselves (HubDirectory), and who may do any of it         *)
(* (HubAccess). Each abstracts what it needs of the others, so they share  *)
(* no variable.                                                            *)
(***************************************************************************)
EXTENDS HubMail

CONSTANTS
  o, m, a, MaxMsgs, Limit, Window, PageSize,                                    \* of the channels
  HubNode, Peers, Beating, Lease, WriteEvery, MaxBinds, MaxLetters, PerPage,    \* of the directory
  People, Host, Servers, MaxBoots, MaxSessions, MaxGen, MaxInvites, MaxClaims, MaxGrants, MaxMishaps   \* of access

VARIABLES open, posts, next, gone, outbox, bucket, log, kind, fwd, back
VARIABLES node, binds, beat, heard, draft, letters, list
VARIABLES up, team, boots, bootIds, bootFile, members, sessions, invites, claims, proofs, grants, nodes, mishaps

Chan == INSTANCE HubChannels WITH msgs <- posts

Dir == INSTANCE HubDirectory WITH Host <- HubNode, Limit <- PerPage

Access == INSTANCE HubAccess

(* Threads, deletions, rates and pages of a channel stay consistent while    *)
(* posts are written and deleted (create_message,                            *)
(* delete_network_bulletin_post, list_messages).                             *)
BoardWhole == Chan!BoardWhole

(* A server is listed, online and reachable under the identity that beats for *)
(* it: presence has a bound peer, a beating server is not dropped, a letter's *)
(* route is the one its sender saw, and a paged listing has everyone          *)
(* (record_secure_peer_heartbeat, get_network).                               *)
DirectoryTrue == Dir!DirectoryTrue

(* Every secret works once and for one holder, and authority is looked up     *)
(* when it is used: rotation, recovery, enrolment and bootstrap leave one     *)
(* usable credential, and revoked people stay out (refresh, redeem_invite,    *)
(* redeem_node_challenge, _require_session).                                  *)
AccessSound == Access!AccessSound

=============================================================================
