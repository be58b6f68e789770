-------------------------------- MODULE MCHub --------------------------------
(***************************************************************************)
(* What the team hub keeps in its database and a server of what it reads    *)
(* there, in parts that share no state, model-checked in one run: what its  *)
(* members write and find there, and who may (HubTeam: the requests of      *)
(* HubMail, the channels of HubChannels, the directory of HubDirectory and  *)
(* the credentials of HubAccess) and the cache in which an agents server    *)
(* keeps the attachments it exports (TeamCache). A behaviour is one of one  *)
(* component, the others rest in their initial states, so that the state    *)
(* spaces add up instead of multiplying.                                    *)
(***************************************************************************)
EXTENDS HubTeam, TLC

CONSTANTS p1, p2

VARIABLES disk, bad, inodes, pins, resv, thr, exports, xresv, requests, troubles
VARIABLE part       \* the component that moves

Cache == INSTANCE TeamCache WITH
           Items <- {1, 2, 3}, Threads <- {1, 2}, Batches <- {<<1>>, <<1, 2>>, <<3>>}, Cap <- 4,
           MaxExports <- 2, MaxInodes <- 4, MaxRequests <- 3, MaxTroubles <- 1

accessVars == <<up, team, boots, bootIds, bootFile, members, sessions, invites, claims, proofs, grants, nodes,
    mishaps>>
mailVars == <<wire, ledger, msgs, dels, skill, asks, replies, reader>>
directoryVars == <<node, binds, beat, heard, draft, letters, list>>
channelsVars == <<open, posts, next, gone, outbox, bucket, log, kind, fwd, back>>
cacheVars == <<disk, bad, inodes, pins, resv, thr, exports, xresv, requests, troubles>>
allVars == <<accessVars, mailVars, directoryVars, channelsVars, cacheVars, part>>

AllInit ==
  /\ part \in {"access", "mail", "directory", "channels", "cache"}
  /\ Access!Init
  /\ Init
  /\ Dir!Init
  /\ Chan!Init /\ (part # "channels" => kind = "time")
  /\ Cache!Init

AccessOnly == UNCHANGED <<mailVars, directoryVars, channelsVars, cacheVars, part>>
MailOnly == UNCHANGED <<accessVars, directoryVars, channelsVars, cacheVars, part>>
DirectoryOnly == UNCHANGED <<accessVars, mailVars, channelsVars, cacheVars, part>>
ChannelsOnly == UNCHANGED <<accessVars, mailVars, directoryVars, cacheVars, part>>
CacheOnly == UNCHANGED <<accessVars, mailVars, directoryVars, channelsVars, part>>

AllNext ==
  \/ part = "access" /\ Access!Next /\ AccessOnly
  \/ part = "mail" /\ Next /\ MailOnly
  \/ part = "directory" /\ Dir!Next /\ DirectoryOnly
  \/ part = "channels" /\ Chan!Next /\ ChannelsOnly
  \/ part = "cache" /\ Cache!Next /\ CacheOnly

AllSpec == AllInit /\ [][AllNext]_allVars

Symmetry == Permutations({p1, p2})

-----------------------------------------------------------------------------
(* The cache stays within its size, hands out only good files, and takes      *)
(* nothing away from a request that uses it (_evict_team_cache,               *)
(* _verified_team_cache_descriptor, _reserve_team_export_locked).             *)
CacheSound == part = "cache" => Cache!CacheSound

==============================================================================
