------------------------------- MODULE WatchCache ------------------------------
(***************************************************************************)
(* The watch cache (watch_stream.py) behind the REST endpoints of          *)
(* streaming.py.  POST /cache/resync copies the latest state of every      *)
(* cluster from the database into the cache; a follower takes the current  *)
(* version from GET /cache/status, then the state of every cluster from    *)
(* GET /watch/state, and from then on polls GET /watch/state with the      *)
(* highest version it has seen.  The handlers run one after the other on   *)
(* the event loop; writers change the database on other threads meanwhile. *)
(* Nothing fills the cache but resync, and nothing deletes from it.  The   *)
(* follower is external: it is the client the endpoints are made for.      *)
(*                                                                         *)
(* A definition placed just before another, with its name and a suffix, is *)
(* a variant with a plausible mistake, which the properties must notice.   *)
(***************************************************************************)
EXTENDS Naturals, Sequences

CONSTANTS
  Clusters,    \* cluster ids, never used twice
  MaxVersions, \* the versions of a key the cache keeps
  Followers,
  Resyncers,   \* requests POST /cache/resync
  MaxSaves,    \* bound: states saved for a cluster
  MaxResyncs,  \* bound: resyncs in one life of the server
  MaxRestarts  \* bound: restarts of the server

ASSUME WatchAssumption ==
  /\ MaxVersions \in Nat \ {0}
  /\ MaxSaves \in Nat /\ MaxResyncs \in Nat /\ MaxRestarts \in Nat

VARIABLES
  registered,  \* the clusters of the database
  latest,      \* latest[c]: the number of its latest state, 0: it has none
  current,     \* _current_version
  cache,       \* _cache: the state of c, 0: not in the cache
  versions,    \* _versions: the retained [ver, state] of c
  resync,      \* resync[s]: [on, toRead, items, changed]: the clusters still
               \*   to read, the <<c, state>> read, and (history) the
               \*   clusters written to since it began
  resyncs,     \* resyncs in this life of the server
  epoch,       \* restarts of the server
  follower,    \* follower[f]: [pc, since, view, epoch]
  dirty        \* history: the clusters whose state is not from a resync
               \*   that began after the last write to them

dbVars == <<registered, latest>>
cacheVars == <<current, cache, versions>>
vars == <<dbVars, cacheVars, resync, resyncs, epoch, follower, dirty>>

NoState == [c \in Clusters |-> 0]
NoResync == [on |-> FALSE, toRead |-> {}, items |-> <<>>, changed |-> {}]
NewFollower == [pc |-> "new", since |-> 0, view |-> NoState, epoch |-> 0]

States == 0..MaxSaves

TypeOK ==
  /\ registered \subseteq Clusters
  /\ latest \in [Clusters -> States] /\ cache \in [Clusters -> States]
  /\ current \in Nat
  /\ versions \in [Clusters -> Seq([ver : Nat, state : States])]
  /\ resync \in [Resyncers -> [on : BOOLEAN, toRead : SUBSET Clusters,
                               items : Seq(Clusters \X States), changed : SUBSET Clusters]]
  /\ resyncs \in 0..MaxResyncs /\ epoch \in 0..MaxRestarts
  /\ follower \in [Followers -> [pc : {"new", "list", "on"}, since : Nat,
                                 view : [Clusters -> States], epoch : Nat]]
  /\ dirty \subseteq Clusters

Init ==
  /\ registered = Clusters /\ latest = NoState
  /\ current = 0 /\ cache = NoState /\ versions = [c \in Clusters |-> <<>>]
  /\ resync = [s \in Resyncers |-> NoResync] /\ resyncs = 0 /\ epoch = 0
  /\ follower = [f \in Followers |-> NewFollower]
  /\ dirty = Clusters

-------------------------------------------------------------------------------
(* A write to the database by another thread, at any time.                 *)
Written(c) ==
  /\ dirty' = dirty \cup {c}
  /\ resync' = [s \in Resyncers |-> [resync[s] EXCEPT !.changed = @ \cup {c}]]
  /\ UNCHANGED <<cacheVars, resyncs, epoch, follower>>

SaveState(c) ==
  /\ c \in registered /\ latest[c] < MaxSaves
  /\ latest' = [latest EXCEPT ![c] = @ + 1]
  /\ UNCHANGED registered
  /\ Written(c)

DeleteCluster(c) ==
  /\ c \in registered
  /\ registered' = registered \ {c}
  /\ latest' = [latest EXCEPT ![c] = 0]
  /\ Written(c)

-------------------------------------------------------------------------------
(* A handler runs when no other does: the event loop is free.              *)
LoopFree == \A s \in Resyncers : ~resync[s].on

ResyncBeginThreaded(s) ==
  /\ ~resync[s].on /\ resyncs < MaxResyncs
  /\ resync' = [resync EXCEPT ![s] = [NoResync EXCEPT !.on = TRUE, !.toRead = registered]]
  /\ resyncs' = resyncs + 1
  /\ UNCHANGED <<dbVars, cacheVars, epoch, follower, dirty>>

(* list_clusters of the source function ...                                *)
ResyncBegin(s) ==
  /\ LoopFree /\ resyncs < MaxResyncs
  /\ resync' = [resync EXCEPT ![s] = [NoResync EXCEPT !.on = TRUE, !.toRead = registered]]
  /\ resyncs' = resyncs + 1
  /\ UNCHANGED <<dbVars, cacheVars, epoch, follower, dirty>>

(* ... and latest_state of one cluster after the other.  The source may    *)
(* raise, and then nothing is set.                                         *)
ResyncRead(s) ==
  LET toRead == resync[s].toRead
      items == resync[s].items IN
  /\ \E c \in toRead :
       resync' = [resync EXCEPT ![s] =
         [@ EXCEPT !.toRead = toRead \ {c},
                   !.items = IF latest[c] = 0 THEN items ELSE Append(items, <<c, latest[c]>>)]]
  /\ UNCHANGED <<dbVars, cacheVars, resyncs, epoch, follower, dirty>>

ResyncFails(s) ==
  /\ resync[s].toRead # {}
  /\ resync' = [resync EXCEPT ![s] = NoResync]
  /\ UNCHANGED <<dbVars, cacheVars, resyncs, epoch, follower, dirty>>

(* ResourceCache.set: the version counts every set, and the newest         *)
(* MaxVersions of a key are kept.                                          *)
NewestOldest(seq) == SubSeq(seq, 1, IF Len(seq) < MaxVersions THEN Len(seq) ELSE MaxVersions)

Newest(seq) == SubSeq(seq, IF Len(seq) > MaxVersions THEN Len(seq) - MaxVersions + 1 ELSE 1,
                      Len(seq))

Set(c, state) ==
  /\ current' = current + 1
  /\ cache' = [cache EXCEPT ![c] = state]
  /\ versions' = [versions EXCEPT ![c] =
       Newest(Append(@, [ver |-> current + 1, state |-> state]))]

(* The items that were read are set one by one.                            *)
ResyncSetNew(s) ==
  LET item == Head(resync[s].items) IN
  /\ resync[s].toRead = {} /\ resync[s].items # <<>>
  /\ IF cache[item[1]] = 0 THEN Set(item[1], item[2]) ELSE UNCHANGED cacheVars
  /\ resync' = [resync EXCEPT ![s].items = Tail(@)]
  /\ UNCHANGED <<dbVars, resyncs, epoch, follower, dirty>>

ResyncSet(s) ==
  LET item == Head(resync[s].items) IN
  /\ resync[s].toRead = {} /\ resync[s].items # <<>>
  /\ Set(item[1], item[2])
  /\ resync' = [resync EXCEPT ![s].items = Tail(@)]
  /\ UNCHANGED <<dbVars, resyncs, epoch, follower, dirty>>

ResyncEnd(s) ==
  /\ resync[s].on /\ resync[s].toRead = {} /\ resync[s].items = <<>>
  /\ dirty' = resync[s].changed
  /\ resync' = [resync EXCEPT ![s] = NoResync]
  /\ UNCHANGED <<dbVars, cacheVars, resyncs, epoch, follower>>

-------------------------------------------------------------------------------
(* The retained versions of c above since.  They are delivered in their    *)
(* order, so that the last is what a follower ends with.                   *)
GetChangesSince(c, since) ==
  {versions[c][i] : i \in {j \in 1..Len(versions[c]) : versions[c][j].ver > since}}

LastOfReversed(events) == CHOOSE v \in events : \A u \in events : u.ver >= v.ver

LastOf(events) == CHOOSE v \in events : \A u \in events : u.ver <= v.ver

(* GET /cache/status: a follower begins, or begins again.                  *)
Status(f) ==
  /\ LoopFree
  /\ follower' = [follower EXCEPT ![f] =
       [NewFollower EXCEPT !.pc = "list", !.since = current, !.epoch = epoch]]
  /\ UNCHANGED <<dbVars, cacheVars, resync, resyncs, epoch, dirty>>

(* GET /watch/state?since_version=0: what is in the cache, unversioned.    *)
List(f) ==
  /\ LoopFree
  /\ \/ follower[f].pc = "list"
     \/ follower[f].pc = "on" /\ follower[f].since = 0
  /\ follower' = [follower EXCEPT ![f] =
       [@ EXCEPT !.pc = "on",
                 !.view = [c \in Clusters |->
                    IF cache[c] = 0 THEN follower[f].view[c] ELSE cache[c]]]]
  /\ UNCHANGED <<dbVars, cacheVars, resync, resyncs, epoch, dirty>>

(* GET /watch/state?since_version=n: the events, applied in their order.   *)
Poll(f) ==
  LET since == follower[f].since
      view == follower[f].view
      events(c) == GetChangesSince(c, since)
      seen == {since} \cup {v.ver : v \in UNION {events(c) : c \in Clusters}} IN
  /\ LoopFree
  /\ follower[f].pc = "on" /\ since > 0
  /\ \E high \in seen :
       /\ \A ver \in seen : ver <= high
       /\ follower' = [follower EXCEPT ![f] =
            [@ EXCEPT !.since = high,
                      !.view = [c \in Clusters |->
                         IF events(c) = {} THEN view[c] ELSE LastOf(events(c)).state]]]
  /\ UNCHANGED <<dbVars, cacheVars, resync, resyncs, epoch, dirty>>

(* The server restarts with an empty cache and version 0; the followers    *)
(* stay.                                                                   *)
Restart ==
  /\ epoch < MaxRestarts
  /\ epoch' = epoch + 1
  /\ current' = 0 /\ cache' = NoState /\ versions' = [c \in Clusters |-> <<>>]
  /\ resync' = [s \in Resyncers |-> NoResync] /\ resyncs' = 0
  /\ dirty' = Clusters
  /\ UNCHANGED <<dbVars, follower>>

-------------------------------------------------------------------------------
Next ==
  \/ \E c \in Clusters : SaveState(c) \/ DeleteCluster(c)
  \/ \E s \in Resyncers :
       ResyncBegin(s) \/ ResyncRead(s) \/ ResyncFails(s) \/ ResyncSet(s) \/ ResyncEnd(s)
  \/ \E f \in Followers : Status(f) \/ List(f) \/ Poll(f)
  \/ Restart

Spec == Init /\ [][Next]_vars

-------------------------------------------------------------------------------
GetResourceVersion(c) == IF versions[c] = <<>> THEN 0 ELSE versions[c][Len(versions[c])].ver

(* PROPERTY.  A follower misses nothing that lasts, however far behind it  *)
(* was and however few versions a key keeps: in the life of the server it  *)
(* began in, whatever is in the cache with a version it has passed is in   *)
(* its view with the same content.                                         *)
ViewIsCurrent ==
  \A f \in Followers, c \in Clusters :
    /\ follower[f].pc = "on" /\ follower[f].epoch = epoch
    /\ GetResourceVersion(c) \in 1..follower[f].since
    => follower[f].view[c] = cache[c]

(* PROPERTY.  A quiet resync is exact: a registered cluster that nothing   *)
(* has written to since the last complete resync began is in the cache as  *)
(* it is in the database, though its rows were read one after the other.   *)
QuietResyncIsExact ==
  \A c \in registered \ dirty : cache[c] = latest[c]

(* PROPERTY.  Nothing goes back in time while the server lives: neither    *)
(* the cache nor a follower replaces a state by an older one.              *)
NothingGoesBack ==
  [][/\ epoch' = epoch => \A c \in Clusters : cache'[c] >= cache[c]
     /\ \A f \in Followers, c \in Clusters :
          follower[f].pc = "on" /\ follower'[f].pc = "on" /\ follower[f].epoch = epoch
            => follower'[f].view[c] >= follower[f].view[c]]_vars

Feed == INSTANCE ClusterFeed WITH
  view      <- [f \in Followers |-> follower[f].view],
  following <- {f \in Followers : follower[f].pc = "on" /\ follower[f].epoch = epoch}

(* PROPERTY.  Polling for versions is as good as reading all of the cache: *)
(* however many versions are kept and however late it polls, an answer     *)
(* leaves a follower with every state in the cache, as long as the server  *)
(* it began with lives.                                                    *)
ImplementsFeed == Feed!FeedSpec
===============================================================================
