---------------------------- MODULE WatchCacheProofs ---------------------------
(***************************************************************************)
(* Proofs about WatchCache: followers have what they have passed, a quiet  *)
(* resync is exact, and nothing goes back in time, for any number of       *)
(* clusters, followers, saves, resyncs, restarts and kept versions.        *)
(***************************************************************************)
EXTENDS WatchCache, SequenceTheorems, TLAPS

Version == [ver : Nat, state : States]
Item    == Clusters \X States
Resync  == [on : BOOLEAN, toRead : SUBSET Clusters, items : Seq(Item), changed : SUBSET Clusters]
Client  == [pc : {"new", "list", "on"}, since : Nat, view : [Clusters -> States], epoch : Nat]

(* The retained versions of a key rise to the last one, which is what the  *)
(* cache holds.                                                            *)
Ordered(vs, state, cur) ==
  /\ \A i \in 1..Len(vs) :
       vs[i].ver \in 1..cur /\ (i < Len(vs) => vs[i].ver < vs[Len(vs)].ver)
  /\ vs # <<>> => vs[Len(vs)].state = state /\ state # 0
  /\ vs = <<>> => state = 0

CacheInv == \A c \in Clusters : Ordered(versions[c], cache[c], current)

(* The cache is never ahead of the database, as long as there is a cluster *)
(* in it.                                                                  *)
DbInv ==
  \A c \in Clusters :
    /\ c \in registered => cache[c] <= latest[c]
    /\ c \notin registered => latest[c] = 0

(* What a resync r has read is not older than the cache ca, and it is what *)
(* the database db holds unless the cluster was written to meanwhile.      *)
ItemInv(r, reg, db, ca) ==
  \A i \in 1..Len(r.items) :
    /\ r.items[i][1] \notin r.toRead /\ r.items[i][2] # 0
    /\ ca[r.items[i][1]] <= r.items[i][2]
    /\ r.items[i][1] \in reg => r.items[i][2] <= db[r.items[i][1]]
    /\ \A j \in 1..Len(r.items) : r.items[j][1] = r.items[i][1] => j = i

DoneInv(r, reg, db, ca) ==
  \A c \in reg \ r.changed :
    \/ c \in r.toRead \/ ca[c] = db[c]
    \/ \E i \in 1..Len(r.items) : r.items[i] = <<c, db[c]>>

ResyncInv ==
  \A s \in Resyncers :
    /\ ~resync[s].on => resync[s].toRead = {} /\ resync[s].items = <<>>
    /\ resync[s].on => /\ \A t \in Resyncers : resync[t].on => t = s
                       /\ ItemInv(resync[s], registered, latest, cache)
                       /\ DoneInv(resync[s], registered, latest, cache)

(* A follower in the life of the server it began in.                       *)
LastVer(vs) == IF vs = <<>> THEN 0 ELSE vs[Len(vs)].ver

FollowerInv ==
  \A f \in Followers :
    /\ follower[f].epoch <= epoch
    /\ follower[f].pc = "list" => follower[f].view = NoState
    /\ follower[f].pc # "new" /\ follower[f].epoch = epoch => follower[f].since <= current
    /\ follower[f].pc = "on" /\ follower[f].epoch = epoch =>
         \A c \in Clusters :
           /\ follower[f].view[c] <= cache[c]
           /\ LastVer(versions[c]) \in 1..follower[f].since => follower[f].view[c] = cache[c]

(* Together they are inductive.                                            *)
WatchInv ==
  /\ TypeOK /\ CacheInv /\ DbInv /\ ResyncInv /\ FollowerInv /\ QuietResyncIsExact

-------------------------------------------------------------------------------
(* The numbers that states and bounds are.                                 *)
LEMMA Numbers == States \in SUBSET Nat /\ 0 \in States /\ MaxSaves \in Nat
                 /\ MaxVersions \in Nat \ {0}
  BY WatchAssumption DEF WatchAssumption, States

(* A new version goes to the end, and what is kept is in order.            *)
LEMMA NewestIsOrdered ==
  ASSUME NEW vs \in Seq(Version), NEW old, NEW cur \in Nat, Ordered(vs, old, cur),
         NEW state \in States \ {0}
  PROVE  LET new == Newest(Append(vs, [ver |-> cur + 1, state |-> state])) IN
           /\ new \in Seq(Version) /\ Ordered(new, state, cur + 1)
           /\ new # <<>> /\ new[Len(new)].ver = cur + 1
<1> DEFINE elt == [ver |-> cur + 1, state |-> state]
           app == Append(vs, elt)
           from == IF Len(app) > MaxVersions THEN Len(app) - MaxVersions + 1 ELSE 1
           new == SubSeq(app, from, Len(app))
<1>1. elt \in Version
  BY DEF Version
<1>2. /\ app \in Seq(Version) /\ Len(app) = Len(vs) + 1
      /\ \A i \in 1..Len(vs) : app[i] = vs[i]
      /\ app[Len(app)] = elt
  BY <1>1, AppendProperties
<1>3. from \in 1..Len(app) /\ Len(app) \in Nat /\ Len(vs) \in Nat
  BY <1>2, Numbers
<1>4. \A i \in from..Len(app) : app[i] \in Version
  BY <1>2, <1>3, ElementOfSeq
<1> HIDE DEF from, app, elt
<1>5. /\ new \in Seq(Version) /\ Len(new) = Len(app) - from + 1
      /\ \A i \in 1..Len(app) - from + 1 : new[i] = app[from + i - 1]
  <2>1. from \in Int /\ Len(app) \in Int /\ from <= Len(app)
    BY <1>3
  <2>2. QED BY <2>1, <1>4, SubSeqProperties
<1> HIDE DEF new
<1>6. Len(new) \in Nat \ {0} /\ new[Len(new)] = elt
  BY <1>5, <1>3, <1>2
<1>7. ASSUME NEW i \in 1..Len(new)
      PROVE  new[i].ver \in 1..cur + 1 /\ (i < Len(new) => new[i].ver < cur + 1)
  <2>1. from + i - 1 \in 1..Len(app) /\ new[i] = app[from + i - 1]
        /\ (i < Len(new) => from + i - 1 \in 1..Len(vs))
    BY <1>5, <1>3, <1>2, <1>7
  <2>2. CASE from + i - 1 \in 1..Len(vs)
    <3>1. new[i] = vs[from + i - 1] /\ vs[from + i - 1].ver \in 1..cur
      BY <2>1, <2>2, <1>2 DEF Ordered
    <3>2. QED BY <3>1
  <2>3. CASE from + i - 1 = Len(app)
    <3>1. new[i].ver = cur + 1 /\ ~(i < Len(new))
      BY <2>1, <2>3, <1>2, <1>3 DEF elt
    <3>2. QED BY <3>1
  <2>4. QED BY <2>1, <2>2, <2>3, <1>2, <1>3
<1>8. new # <<>>
  BY <1>6
<1>9. Ordered(new, state, cur + 1)
  BY <1>6, <1>7, <1>8 DEF Ordered, elt
<1>10. Newest(Append(vs, [ver |-> cur + 1, state |-> state])) = new
  BY DEF Newest, new, app, from, elt
<1>11. QED BY <1>5, <1>6, <1>8, <1>9, <1>10 DEF elt

(* The last event that a follower gets for a key is its last version.      *)
LEMMA LastIsNewest ==
  ASSUME TypeOK, CacheInv, NEW c \in Clusters, NEW since \in Nat
  PROVE  /\ GetChangesSince(c, since) # {} <=> LastVer(versions[c]) > since
         /\ GetChangesSince(c, since) # {} =>
              LastOf(GetChangesSince(c, since)).state = cache[c] /\ cache[c] \in States
         /\ \A v \in GetChangesSince(c, since) : v.ver \in 1..LastVer(versions[c])
         /\ LastVer(versions[c]) \in 0..current
<1> DEFINE vs == versions[c]
           n == Len(vs)
           events == GetChangesSince(c, since)
<1>1. vs \in Seq(Version) /\ n \in Nat /\ current \in Nat /\ cache[c] \in States
  <2>1. vs \in Seq(Version)
    BY DEF TypeOK, Version
  <2>2. QED BY <2>1, LenProperties DEF TypeOK
<1>2. Ordered(vs, cache[c], current)
  BY DEF CacheInv
<1>3. CASE vs = <<>>
  <2>1. events = {} /\ LastVer(vs) = 0
    BY <1>3 DEF GetChangesSince, LastVer
  <2>2. QED BY <2>1, <1>1
<1>4. CASE vs # <<>>
  <2>1. n \in 1..n /\ LastVer(vs) = vs[n].ver /\ vs[n].state = cache[c]
    BY <1>1, <1>2, <1>4, EmptySeq DEF Ordered, LastVer
  <2>2. vs[n].ver \in 1..current
    BY <2>1, <1>2 DEF Ordered
  <2>3. \A i \in 1..n : /\ vs[i].ver \in 1..current
                        /\ vs[i].ver <= vs[n].ver /\ (vs[i].ver = vs[n].ver => i = n)
    BY <2>1, <2>2, <1>1, <1>2 DEF Ordered
  <2> DEFINE above == {j \in 1..n : vs[j].ver > since}
  <2>4. events = {vs[i] : i \in above}
    BY DEF GetChangesSince
  <2> HIDE DEF events, n
  <2>5. \A v \in events : \E i \in 1..n : v = vs[i] /\ vs[i].ver > since
    BY <2>4
  <2>6. vs[n].ver > since => vs[n] \in events
    BY <2>1, <2>4
  <2> HIDE DEF vs
  <2>7. events # {} => vs[n].ver > since
    BY <2>3, <2>5, <2>2
  <2>8. \A v \in events : v.ver \in 1..vs[n].ver
    BY <2>3, <2>5
  <2>9. ASSUME events # {} PROVE LastOf(events) = vs[n]
    <3>1. vs[n] \in events /\ \A u \in events : u.ver <= vs[n].ver
      BY <2>9, <2>6, <2>7, <2>8, <2>2
    <3>2. ASSUME NEW v \in events, \A u \in events : u.ver <= v.ver PROVE v = vs[n]
      <4>1. PICK i \in 1..n : v = vs[i]
        BY <2>5
      <4>2. vs[n].ver <= vs[i].ver
        BY <3>1, <3>2, <4>1
      <4>3. QED BY <4>1, <4>2, <2>3, <2>2
    <3>3. QED BY <3>1, <3>2 DEF LastOf
  <2>10. QED BY <2>1, <2>2, <2>6, <2>7, <2>8, <2>9, <1>1 DEF vs, events
<1>5. QED BY <1>3, <1>4

-------------------------------------------------------------------------------
(* What an action leaves alone keeps the parts that are about it.          *)
LEMMA Frame ==
  /\ CacheInv /\ UNCHANGED cacheVars => CacheInv'
  /\ DbInv /\ UNCHANGED <<dbVars, cacheVars>> => DbInv'
  /\ ResyncInv /\ UNCHANGED <<dbVars, cacheVars, resync>> => ResyncInv'
  /\ FollowerInv /\ UNCHANGED <<cacheVars, epoch, follower>> => FollowerInv'
  /\ QuietResyncIsExact /\ UNCHANGED <<dbVars, cacheVars, dirty>> => QuietResyncIsExact'
<1>1. CacheInv /\ UNCHANGED cacheVars => CacheInv'
  BY DEF CacheInv, cacheVars
<1>2. DbInv /\ UNCHANGED <<dbVars, cacheVars>> => DbInv'
  BY DEF DbInv, dbVars, cacheVars
<1>3. ResyncInv /\ UNCHANGED <<dbVars, cacheVars, resync>> => ResyncInv'
  BY DEF ResyncInv, dbVars, cacheVars
<1>4. FollowerInv /\ UNCHANGED <<cacheVars, epoch, follower>> => FollowerInv'
  BY DEF FollowerInv, cacheVars
<1>5. QuietResyncIsExact /\ UNCHANGED <<dbVars, cacheVars, dirty>> => QuietResyncIsExact'
  BY DEF QuietResyncIsExact, dbVars, cacheVars
<1>6. QED BY <1>1, <1>2, <1>3, <1>4, <1>5

(* What a step of the server never does to the cache and the followers.    *)
GoesForward ==
  /\ epoch' = epoch => \A c \in Clusters : cache'[c] >= cache[c]
  /\ \A f \in Followers, c \in Clusters :
       follower[f].pc = "on" /\ follower'[f].pc = "on" /\ follower[f].epoch = epoch
         => follower'[f].view[c] >= follower[f].view[c]

(* States compare with themselves, wherever they are.                      *)
LEMMA Comparable ==
  TypeOK => \A c \in Clusters : cache[c] >= cache[c]
                                /\ \A f \in Followers : follower[f].view[c] >= follower[f].view[c]
<1> SUFFICES ASSUME TypeOK, NEW c \in Clusters
             PROVE  cache[c] >= cache[c]
                    /\ \A f \in Followers : follower[f].view[c] >= follower[f].view[c]
  OBVIOUS
<1>1. cache[c] \in States /\ \A f \in Followers : follower[f].view[c] \in States
  BY DEF TypeOK
<1>2. \A n \in States : n >= n
  BY Numbers
<1>3. QED BY <1>1, <1>2

(* A step that leaves the followers alone, and the cache unless the server *)
(* restarts, does not take anything back.                                  *)
LEMMA Still == TypeOK /\ UNCHANGED follower /\ (epoch' = epoch => UNCHANGED cache) => GoesForward
<1> SUFFICES ASSUME TypeOK, UNCHANGED follower, epoch' = epoch => UNCHANGED cache
             PROVE  GoesForward
  OBVIOUS
<1>1. QED BY Comparable DEF GoesForward

(* Nothing is cached, read or followed at first.                           *)
LEMMA InitHolds == Init => WatchInv
<1> SUFFICES ASSUME Init PROVE WatchInv
  OBVIOUS
<1> USE DEF Init
<1>1. TypeOK
  <2>1. NoState \in [Clusters -> States]
    BY Numbers DEF NoState
  <2>2. NoResync \in Resync
    BY DEF NoResync, Resync, Item
  <2>3. NewFollower \in Client
    BY <2>1 DEF NewFollower, Client
  <2>4. versions \in [Clusters -> Seq(Version)]
    BY DEF Version
  <2>5. QED BY <2>1, <2>2, <2>3, <2>4, WatchAssumption
        DEF TypeOK, Resync, Item, Client, Version, WatchAssumption
<1>2. CacheInv
  <2>1. \A c \in Clusters : versions[c] = <<>> /\ cache[c] = 0
    BY DEF NoState
  <2>2. Ordered(<<>>, 0, current)
    BY EmptySeq DEF Ordered
  <2>3. QED BY <2>1, <2>2 DEF CacheInv
<1>3. DbInv /\ QuietResyncIsExact
  BY DEF DbInv, QuietResyncIsExact, NoState
<1>4. ResyncInv
  BY DEF ResyncInv, NoResync
<1>5. FollowerInv
  BY DEF FollowerInv, NewFollower
<1>6. QED BY <1>1, <1>2, <1>3, <1>4, <1>5 DEF WatchInv

-------------------------------------------------------------------------------
(* A write to the database: the state of a cluster only grows, or it is    *)
(* gone, and every resync under way notes it.                              *)
LEMMA WriteKeeps ==
  ASSUME WatchInv, NEW c \in Clusters, SaveState(c) \/ DeleteCluster(c)
  PROVE  WatchInv'
<1> USE DEF WatchInv
<1>1. /\ UNCHANGED <<cacheVars, resyncs, epoch, follower>> /\ dirty' = dirty \cup {c}
      /\ resync' = [s \in Resyncers |-> [resync[s] EXCEPT !.changed = @ \cup {c}]]
  BY DEF SaveState, DeleteCluster, Written
<1>2. /\ registered' \subseteq registered /\ latest' \in [Clusters -> States]
      /\ \A d \in Clusters \ {c} :
           latest'[d] = latest[d] /\ (d \in registered' <=> d \in registered)
      /\ c \in registered' => latest[c] <= latest'[c]
      /\ c \notin registered' => latest'[c] = 0
  <2>1. CASE SaveState(c)
    BY <2>1, Numbers DEF SaveState, TypeOK, States
  <2>2. CASE DeleteCluster(c)
    BY <2>2, Numbers DEF DeleteCluster, TypeOK
  <2>3. QED BY <2>1, <2>2
<1>3. ASSUME NEW s \in Resyncers
      PROVE  /\ resync'[s] \in Resync
             /\ resync'[s].on = resync[s].on /\ resync'[s].toRead = resync[s].toRead
             /\ resync'[s].items = resync[s].items
             /\ resync'[s].changed = resync[s].changed \cup {c}
  BY <1>1 DEF TypeOK, Resync, Item
<1>4. TypeOK'
  <2>1. resync' \in [Resyncers -> Resync]
    BY <1>1, <1>3
  <2>2. QED BY <1>1, <1>2, <2>1 DEF TypeOK, cacheVars, Resync, Item
<1>5. CacheInv' /\ FollowerInv'
  BY <1>1, Frame
<1>6. DbInv'
  <2> SUFFICES ASSUME NEW d \in Clusters
               PROVE  /\ d \in registered' => cache'[d] <= latest'[d]
                      /\ d \notin registered' => latest'[d] = 0
    BY DEF DbInv
  <2>1. cache' = cache /\ cache[d] \in Nat /\ latest[d] \in Nat /\ latest'[d] \in Nat
    BY <1>1, <1>2, Numbers DEF cacheVars, TypeOK
  <2>2. CASE d = c
    BY <2>1, <2>2, <1>2 DEF DbInv
  <2>3. CASE d # c
    BY <2>1, <2>3, <1>2 DEF DbInv
  <2>4. QED BY <2>2, <2>3
<1>7. QuietResyncIsExact'
  BY <1>1, <1>2 DEF QuietResyncIsExact, TypeOK, cacheVars
<1>8. ResyncInv'
  <2>1. ASSUME NEW s \in Resyncers, ItemInv(resync[s], registered, latest, cache)
        PROVE  ItemInv(resync'[s], registered', latest', cache')
    <3>1. /\ cache' = cache /\ cache \in [Clusters -> Nat] /\ latest \in [Clusters -> Nat]
          /\ latest' \in [Clusters -> Nat] /\ resync[s].items \in Seq(Item)
      BY <1>1, <1>2, Numbers DEF cacheVars, TypeOK, Item
    <3>2. \A i \in 1..Len(resync[s].items) :
            resync[s].items[i][1] \in Clusters /\ resync[s].items[i][2] \in Nat
      <4>1. \A i \in 1..Len(resync[s].items) : resync[s].items[i] \in Item
        BY <3>1, ElementOfSeq
      <4>2. QED BY <4>1, Numbers DEF Item
    <3>3. ASSUME NEW d \in registered'
          PROVE  latest[d] <= latest'[d] /\ d \in registered /\ d \in Clusters
      <4>1. d \in registered /\ d \in Clusters
        BY <1>2 DEF TypeOK
      <4>2. latest[d] \in Nat /\ latest'[d] \in Nat
        BY <4>1, <3>1
      <4>3. QED BY <4>1, <4>2, <1>2
    <3>4. ASSUME NEW i \in 1..Len(resync[s].items), resync[s].items[i][1] \in registered'
          PROVE  resync[s].items[i][2] <= latest'[resync[s].items[i][1]]
      <4> DEFINE d == resync[s].items[i][1]
                 state == resync[s].items[i][2]
      <4>1. d \in registered' /\ d \in registered /\ d \in Clusters /\ latest[d] <= latest'[d]
        BY <3>3, <3>4
      <4>2. state <= latest[d]
        BY <2>1, <4>1 DEF ItemInv
      <4>3. latest[d] \in Nat /\ latest'[d] \in Nat /\ state \in Nat
        BY <3>1, <3>2, <4>1
      <4> HIDE DEF d, state
      <4>4. state <= latest'[d]
        BY <4>1, <4>2, <4>3
      <4>5. QED BY <4>4 DEF d, state
    <3>5. QED BY <2>1, <3>1, <3>4, <1>3 DEF ItemInv
  <2>2. ASSUME NEW s \in Resyncers, DoneInv(resync[s], registered, latest, cache)
        PROVE  DoneInv(resync'[s], registered', latest', cache')
    <3>1. cache' = cache
      BY <1>1 DEF cacheVars
    <3>2. \A d \in registered' \ resync'[s].changed :
            latest'[d] = latest[d] /\ d \in registered \ resync[s].changed
      BY <1>2, <1>3 DEF TypeOK
    <3>3. QED BY <2>2, <3>1, <3>2, <1>3 DEF DoneInv
  <2>3. QED BY <2>1, <2>2, <1>3 DEF ResyncInv
<1>9. QED BY <1>4, <1>5, <1>6, <1>7, <1>8

-------------------------------------------------------------------------------
(* A resync begins alone and has read nothing; one that stops leaves       *)
(* nothing behind.                                                         *)
LEMMA BeginKeeps ==
  ASSUME WatchInv, NEW s \in Resyncers, ResyncBegin(s) \/ ResyncFails(s)
  PROVE  WatchInv'
<1> USE DEF WatchInv
<1> DEFINE begun == [NoResync EXCEPT !.on = TRUE, !.toRead = registered]
<1>1. /\ UNCHANGED <<dbVars, cacheVars, epoch, follower, dirty>>
      /\ resyncs' \in 0..MaxResyncs
      /\ \/ LoopFree /\ resync' = [resync EXCEPT ![s] = begun]
         \/ resync' = [resync EXCEPT ![s] = NoResync]
  BY WatchAssumption DEF ResyncBegin, ResyncFails, TypeOK, WatchAssumption
<1>2. /\ begun \in Resync /\ begun.on /\ begun.toRead = registered /\ begun.items = <<>>
      /\ begun.changed = {}
      /\ NoResync \in Resync /\ ~NoResync.on /\ NoResync.toRead = {} /\ NoResync.items = <<>>
  <2>1. <<>> \in Seq(Item) /\ registered \in SUBSET Clusters
    BY DEF TypeOK
  <2>2. /\ NoResync \in Resync /\ ~NoResync.on /\ NoResync.toRead = {}
        /\ NoResync.items = <<>> /\ NoResync.changed = {}
    BY <2>1 DEF NoResync, Resync
  <2>3. QED BY <2>1, <2>2 DEF Resync
<1> HIDE DEF begun
<1>3. resync \in [Resyncers -> Resync]
  BY DEF TypeOK, Resync, Item
<1>4. \A t \in Resyncers \ {s} : resync'[t] = resync[t]
  BY <1>1, <1>3
<1>5. \/ LoopFree /\ resync'[s] = begun
      \/ resync'[s] = NoResync
  BY <1>1, <1>3
<1>6. TypeOK'
  <2>1. resync' \in [Resyncers -> Resync]
    BY <1>1, <1>2, <1>3
  <2>2. QED BY <1>1, <2>1 DEF TypeOK, dbVars, cacheVars, Resync, Item
<1>7. CacheInv' /\ DbInv' /\ FollowerInv' /\ QuietResyncIsExact'
  BY <1>1, Frame
<1>8. ResyncInv'
  <2>1. registered' = registered /\ latest' = latest /\ cache' = cache
    BY <1>1 DEF dbVars, cacheVars
  <2>2. CASE LoopFree /\ resync'[s] = begun
    <3>1. \A t \in Resyncers \ {s} : ~resync'[t].on
      BY <2>2, <1>4 DEF LoopFree
    <3>2. ItemInv(begun, registered, latest, cache)
      BY <1>2, EmptySeq DEF ItemInv
    <3>3. DoneInv(begun, registered, latest, cache)
      BY <1>2 DEF DoneInv
    <3>4. QED BY <2>1, <2>2, <3>1, <3>2, <3>3, <1>2, <1>4 DEF ResyncInv
  <2>3. CASE resync'[s] = NoResync
    BY <2>1, <2>3, <1>2, <1>4 DEF ResyncInv
  <2>4. QED BY <1>5, <2>2, <2>3
<1>9. QED BY <1>6, <1>7, <1>8

(* Reading the latest state of a cluster.                                  *)
LEMMA ReadKeeps ==
  ASSUME WatchInv, NEW s \in Resyncers, ResyncRead(s)
  PROVE  WatchInv'
<1> USE DEF WatchInv
<1> DEFINE r == resync[s]
<1>1. PICK c \in r.toRead :
        resync' = [resync EXCEPT ![s] =
          [@ EXCEPT !.toRead = r.toRead \ {c},
                    !.items = IF latest[c] = 0 THEN r.items
                              ELSE Append(r.items, <<c, latest[c]>>)]]
  BY DEF ResyncRead
<1>2. UNCHANGED <<dbVars, cacheVars, resyncs, epoch, follower, dirty>>
  BY DEF ResyncRead
<1>3. resync \in [Resyncers -> Resync] /\ r \in Resync
  BY DEF TypeOK, Resync, Item
<1>4. /\ c \in Clusters /\ latest[c] \in States /\ cache[c] \in States
      /\ latest[c] \in Nat /\ cache[c] \in Nat
  BY <1>3, Numbers DEF Resync, TypeOK
<1> DEFINE more == IF latest[c] = 0 THEN r.items ELSE Append(r.items, <<c, latest[c]>>)
           new == resync'[s]
<1>5. r.items \in Seq(Item) /\ more \in Seq(Item)
  <2>1. r.items \in Seq(Item) /\ <<c, latest[c]>> \in Item
    BY <1>3, <1>4 DEF Resync, Item
  <2>2. QED BY <2>1, AppendProperties
<1>6. new = [r EXCEPT !.toRead = r.toRead \ {c}, !.items = more]
  BY <1>1, <1>3
<1>7. /\ new \in Resync /\ new.on = r.on /\ new.toRead = r.toRead \ {c}
      /\ new.items = more /\ new.changed = r.changed
  BY <1>6, <1>3, <1>5 DEF Resync
<1> HIDE DEF more
<1>8. \A t \in Resyncers \ {s} : resync'[t] = resync[t]
  BY <1>1, <1>3
<1>9. TypeOK'
  <2>1. resync' \in [Resyncers -> Resync]
    BY <1>1, <1>3, <1>7, <1>8
  <2>2. QED BY <1>2, <2>1 DEF TypeOK, dbVars, cacheVars, Resync, Item
<1> HIDE DEF new
<1>10. CacheInv' /\ DbInv' /\ FollowerInv' /\ QuietResyncIsExact'
  BY <1>2, Frame
<1>11. r.on /\ ItemInv(r, registered, latest, cache) /\ DoneInv(r, registered, latest, cache)
       /\ \A t \in Resyncers : resync[t].on => t = s
  BY <1>1 DEF ResyncInv
<1>12. ItemInv(new, registered, latest, cache) /\ DoneInv(new, registered, latest, cache)
  <2>1. CASE latest[c] = 0
    <3>1. more = r.items
      BY <2>1 DEF more
    <3>2. c \in registered => cache[c] = latest[c]
      BY <2>1, <1>4 DEF DbInv
    <3>3. new.items = r.items /\ new.toRead \subseteq r.toRead
      BY <3>1, <1>7
    <3>4. ItemInv(new, registered, latest, cache)
      BY <3>3, <1>11 DEF ItemInv
    <3>5. DoneInv(new, registered, latest, cache)
      BY <3>2, <3>3, <1>7, <1>11 DEF DoneInv
    <3>6. QED BY <3>4, <3>5
  <2>2. CASE latest[c] # 0
    <3>1. /\ Len(r.items) \in Nat /\ Len(more) = Len(r.items) + 1
          /\ more[Len(more)] = <<c, latest[c]>>
          /\ \A i \in 1..Len(r.items) : more[i] = r.items[i]
      <4>1. more = Append(r.items, <<c, latest[c]>>)
        BY <2>2 DEF more
      <4>2. <<c, latest[c]>> \in Item
        BY <1>4 DEF Item
      <4>3. QED BY <4>1, <4>2, <1>5, AppendProperties, LenProperties
    <3>2. c \in registered /\ cache[c] <= latest[c]
      BY <2>2, <1>4 DEF DbInv
    <3>3. \A i \in 1..Len(r.items) : r.items[i][1] # c
      BY <1>1, <1>11 DEF ItemInv
    <3>4. ItemInv(new, registered, latest, cache)
      <4> SUFFICES ASSUME NEW i \in 1..Len(more)
                   PROVE  /\ more[i][1] \notin new.toRead /\ more[i][2] # 0
                          /\ cache[more[i][1]] <= more[i][2]
                          /\ more[i][1] \in registered => more[i][2] <= latest[more[i][1]]
                          /\ \A j \in 1..Len(more) : more[j][1] = more[i][1] => j = i
        BY <1>7 DEF ItemInv
      <4>1. CASE i \in 1..Len(r.items)
        <5>1. more[i] = r.items[i] /\ i # Len(more) /\ r.items[i][1] # c
          BY <4>1, <3>1, <3>3
        <5>2. \A j \in 1..Len(more) : more[j][1] = more[i][1] => j = i
          <6> SUFFICES ASSUME NEW j \in 1..Len(more), more[j][1] = more[i][1] PROVE j = i
            OBVIOUS
          <6>1. j \in 1..Len(r.items)
            BY <5>1, <3>1
          <6>2. QED BY <6>1, <5>1, <4>1, <3>1, <1>11 DEF ItemInv
        <5>3. QED BY <5>1, <5>2, <4>1, <1>7, <1>11 DEF ItemInv
      <4>2. CASE i = Len(more)
        <5>1. more[i][1] = c /\ more[i][2] = latest[c]
          BY <4>2, <3>1
        <5>2. \A j \in 1..Len(more) : more[j][1] = c => j = i
          BY <4>2, <3>1, <3>3
        <5>3. latest[c] <= latest[c]
          BY <1>4
        <5>4. QED BY <5>1, <5>2, <5>3, <3>2, <2>2, <1>7
      <4>3. QED BY <4>1, <4>2, <3>1
    <3>5. DoneInv(new, registered, latest, cache)
      <4> SUFFICES ASSUME NEW d \in registered \ r.changed
                   PROVE  \/ d \in new.toRead \/ cache[d] = latest[d]
                          \/ \E i \in 1..Len(more) : more[i] = <<d, latest[d]>>
        BY <1>7 DEF DoneInv
      <4>1. CASE d = c
        <5>1. Len(more) \in 1..Len(more)
          BY <3>1
        <5>2. QED BY <4>1, <5>1, <3>1
      <4>2. CASE d # c
        <5>1. 1..Len(r.items) \subseteq 1..Len(more)
          BY <3>1
        <5>2. QED BY <4>2, <5>1, <3>1, <1>7, <1>11 DEF DoneInv
      <4>3. QED BY <4>1, <4>2
    <3>6. QED BY <3>4, <3>5
  <2>3. QED BY <2>1, <2>2
<1>13. ResyncInv'
  <2>1. registered' = registered /\ latest' = latest /\ cache' = cache
    BY <1>2 DEF dbVars, cacheVars
  <2>2. new.on
    BY <1>7, <1>11
  <2>3. \A t \in Resyncers \ {s} :
          ~resync'[t].on /\ resync'[t].toRead = {} /\ resync'[t].items = <<>>
    BY <1>8, <1>11 DEF ResyncInv
  <2>4. QED BY <2>1, <2>2, <2>3, <1>8, <1>12 DEF ResyncInv, new
<1>14. QED BY <1>9, <1>10, <1>13

-------------------------------------------------------------------------------
(* Setting the first of the items: the cache gets what was read, which is  *)
(* not older, with a version that no follower has passed.                  *)
LEMMA SetKeeps ==
  ASSUME WatchInv, NEW s \in Resyncers, ResyncSet(s)
  PROVE  WatchInv' /\ GoesForward
<1> USE DEF WatchInv
<1> DEFINE r == resync[s]
           c == r.items[1][1]
           state == r.items[1][2]
           new == resync'[s]
<1>1. /\ r.toRead = {} /\ r.items # <<>> /\ Set(Head(r.items)[1], Head(r.items)[2])
      /\ resync' = [resync EXCEPT ![s].items = Tail(r.items)]
      /\ UNCHANGED <<dbVars, resyncs, epoch, follower, dirty>>
  BY DEF ResyncSet
<1>2. resync \in [Resyncers -> Resync] /\ r \in Resync /\ r.items \in Seq(Item)
  BY DEF TypeOK, Resync, Item
<1>3. /\ Head(r.items) = r.items[1] /\ Len(r.items) \in Nat \ {0}
      /\ Tail(r.items) \in Seq(Item) /\ Len(Tail(r.items)) = Len(r.items) - 1
      /\ \A i \in 1..Len(Tail(r.items)) : Tail(r.items)[i] = r.items[i + 1]
  BY <1>1, <1>2, HeadTailProperties, EmptySeq, LenProperties
<1>4. /\ new \in Resync /\ new.on = r.on /\ new.toRead = {} /\ new.changed = r.changed
      /\ new.items = Tail(r.items)
      /\ \A t \in Resyncers \ {s} : resync'[t] = resync[t]
  BY <1>1, <1>2, <1>3 DEF Resync
<1>5. resync' \in [Resyncers -> Resync]
  BY <1>1, <1>2, <1>4
<1>6. r.on /\ ItemInv(r, registered, latest, cache) /\ DoneInv(r, registered, latest, cache)
      /\ \A t \in Resyncers : resync[t].on => t = s
  BY <1>1 DEF ResyncInv
<1>7. c \in Clusters /\ state \in States \ {0} /\ state \in Nat
  <2>1. 1 \in 1..Len(r.items)
    BY <1>3
  <2>2. r.items[1] \in Item
    BY <2>1, <1>2, ElementOfSeq
  <2>3. state # 0
    BY <2>1, <1>6 DEF ItemInv
  <2>4. QED BY <2>2, <2>3, Numbers DEF Item
<1>8. /\ cache[c] <= state /\ (c \in registered => state <= latest[c])
      /\ \A j \in 1..Len(r.items) : r.items[j][1] = c => j = 1
  <2>1. 1 \in 1..Len(r.items)
    BY <1>3
  <2>2. QED BY <2>1, <1>6 DEF ItemInv
<1>9. /\ current' = current + 1 /\ cache' = [cache EXCEPT ![c] = state]
      /\ versions' = [versions EXCEPT ![c] =
           Newest(Append(versions[c], [ver |-> current + 1, state |-> state]))]
  BY <1>1, <1>3 DEF Set
<1>10. /\ current \in Nat /\ cache \in [Clusters -> States]
       /\ latest \in [Clusters -> States] /\ versions \in [Clusters -> Seq(Version)]
       /\ \A d \in Clusters : cache[d] \in Nat /\ latest[d] \in Nat
       /\ registered' = registered /\ latest' = latest /\ registered \subseteq Clusters
  BY <1>1, Numbers DEF TypeOK, Version, dbVars
<1> HIDE DEF new
<1>11. /\ cache'[c] = state /\ \A d \in Clusters \ {c} : cache'[d] = cache[d]
       /\ cache' \in [Clusters -> States]
  BY <1>7, <1>9, <1>10
<1> HIDE DEF c, state
<1>12. /\ versions'[c] \in Seq(Version) /\ Ordered(versions'[c], state, current')
       /\ versions'[c] # <<>> /\ LastVer(versions'[c]) = current + 1
       /\ \A d \in Clusters \ {c} : versions'[d] = versions[d]
       /\ versions' \in [Clusters -> Seq(Version)]
  <2>1. versions[c] \in Seq(Version) /\ Ordered(versions[c], cache[c], current)
    BY <1>7, <1>10 DEF CacheInv
  <2> DEFINE kept == Newest(Append(versions[c], [ver |-> current + 1, state |-> state]))
  <2>2. /\ kept \in Seq(Version) /\ Ordered(kept, state, current + 1)
        /\ kept # <<>> /\ kept[Len(kept)].ver = current + 1
    BY <2>1, <1>7, <1>10, NewestIsOrdered
  <2> HIDE DEF kept
  <2>3. versions' = [versions EXCEPT ![c] = kept]
    BY <1>9 DEF kept
  <2>4. QED BY <2>2, <2>3, <1>7, <1>9, <1>10 DEF LastVer
<1>13. TypeOK'
  <2>1. current' \in Nat
    BY <1>9, <1>10
  <2>2. QED BY <1>1, <1>5, <1>10, <1>11, <1>12, <2>1 DEF TypeOK, dbVars, Resync, Item, Version
<1>14. CacheInv'
  <2>1. ASSUME NEW d \in Clusters PROVE Ordered(versions'[d], cache'[d], current')
    <3>1. CASE d = c
      BY <3>1, <1>11, <1>12
    <3>2. CASE d # c
      <4>1. Ordered(versions[d], cache[d], current) /\ current' = current + 1
        BY <1>9 DEF CacheInv
      <4>2. Ordered(versions[d], cache[d], current')
        BY <4>1, <1>10 DEF Ordered
      <4>3. QED BY <3>2, <4>2, <1>11, <1>12
    <3>3. QED BY <3>1, <3>2
  <2>2. QED BY <2>1 DEF CacheInv
<1>15. DbInv'
  BY <1>8, <1>10, <1>11 DEF DbInv
<1>16. ASSUME NEW d \in registered, cache[d] = latest[d] PROVE cache'[d] = latest[d]
  <2>1. CASE d = c
    BY <2>1, <1>16, <1>7, <1>8, <1>10, <1>11
  <2>2. CASE d # c
    BY <2>2, <1>16, <1>10, <1>11
  <2>3. QED BY <2>1, <2>2
<1>17. QuietResyncIsExact'
  BY <1>1, <1>10, <1>16 DEF QuietResyncIsExact
<1>18. FollowerInv'
  <2> SUFFICES ASSUME NEW f \in Followers
               PROVE  /\ follower[f].epoch <= epoch
                      /\ follower[f].pc = "list" => follower[f].view = NoState
                      /\ follower[f].pc # "new" /\ follower[f].epoch = epoch =>
                           follower[f].since <= current'
                      /\ follower[f].pc = "on" /\ follower[f].epoch = epoch =>
                           \A d \in Clusters :
                             /\ follower[f].view[d] <= cache'[d]
                             /\ LastVer(versions'[d]) \in 1..follower[f].since =>
                                  follower[f].view[d] = cache'[d]
    BY <1>1 DEF FollowerInv
  <2>1. follower[f] \in Client
    BY DEF TypeOK, Client
  <2>2. /\ follower[f].epoch <= epoch
        /\ follower[f].pc = "list" => follower[f].view = NoState
    BY DEF FollowerInv
  <2>3. ASSUME follower[f].pc # "new", follower[f].epoch = epoch
        PROVE  follower[f].since <= current /\ follower[f].since <= current'
    <3>1. follower[f].since <= current
      BY <2>3 DEF FollowerInv
    <3>2. QED BY <3>1, <2>1, <1>9, <1>10 DEF Client
  <2>4. ASSUME follower[f].pc = "on", follower[f].epoch = epoch, NEW d \in Clusters
        PROVE  /\ follower[f].view[d] <= cache'[d]
               /\ LastVer(versions'[d]) \in 1..follower[f].since => follower[f].view[d] = cache'[d]
    <3>1. follower[f].view[d] <= cache[d]
          /\ (LastVer(versions[d]) \in 1..follower[f].since => follower[f].view[d] = cache[d])
      BY <2>4 DEF FollowerInv
    <3>2. follower[f].view[d] \in Nat /\ follower[f].since \in Nat
      BY <2>1, Numbers DEF Client
    <3>3. CASE d = c
      <4>1. follower[f].view[d] <= cache'[d]
        BY <3>1, <3>2, <3>3, <1>7, <1>8, <1>10, <1>11
      <4>2. LastVer(versions'[d]) \notin 1..follower[f].since
        BY <2>3, <2>4, <3>2, <3>3, <1>10, <1>12
      <4>3. QED BY <4>1, <4>2
    <3>4. CASE d # c
      BY <3>1, <3>4, <1>11, <1>12
    <3>5. QED BY <3>3, <3>4
  <2>5. QED BY <2>2, <2>3, <2>4
<1>19. ItemInv(new, registered, latest, cache')
  <2> SUFFICES ASSUME NEW i \in 1..Len(Tail(r.items))
               PROVE  /\ new.items[i][1] \notin new.toRead /\ new.items[i][2] # 0
                      /\ cache'[new.items[i][1]] <= new.items[i][2]
                      /\ new.items[i][1] \in registered =>
                           new.items[i][2] <= latest[new.items[i][1]]
                      /\ \A j \in 1..Len(Tail(r.items)) :
                           new.items[j][1] = new.items[i][1] => j = i
    BY <1>4 DEF ItemInv
  <2>1. i + 1 \in 1..Len(r.items) /\ new.items[i] = r.items[i + 1]
    BY <1>3, <1>4
  <2>2. r.items[i + 1] \in Item
    BY <2>1, <1>2, ElementOfSeq
  <2>3. r.items[i + 1][1] \in Clusters \ {c}
    BY <2>1, <2>2, <1>8 DEF Item
  <2>4. cache'[r.items[i + 1][1]] = cache[r.items[i + 1][1]]
    BY <2>3, <1>11
  <2>5. /\ r.items[i + 1][2] # 0 /\ cache[r.items[i + 1][1]] <= r.items[i + 1][2]
        /\ r.items[i + 1][1] \in registered => r.items[i + 1][2] <= latest[r.items[i + 1][1]]
        /\ \A j \in 1..Len(r.items) : r.items[j][1] = r.items[i + 1][1] => j = i + 1
    BY <2>1, <1>6 DEF ItemInv
  <2>6. \A j \in 1..Len(Tail(r.items)) : new.items[j][1] = new.items[i][1] => j = i
    <3> SUFFICES ASSUME NEW j \in 1..Len(Tail(r.items)), new.items[j][1] = new.items[i][1]
                 PROVE  j = i
      OBVIOUS
    <3>1. j + 1 \in 1..Len(r.items) /\ new.items[j] = r.items[j + 1]
      BY <1>3, <1>4
    <3>2. j + 1 = i + 1
      BY <2>1, <2>5, <3>1
    <3>3. QED BY <3>2
  <2>7. QED BY <2>1, <2>4, <2>5, <2>6, <1>4
<1>20. DoneInv(new, registered, latest, cache')
  <2> SUFFICES ASSUME NEW d \in registered \ r.changed
               PROVE  \/ cache'[d] = latest[d]
                      \/ \E i \in 1..Len(new.items) : new.items[i] = <<d, latest[d]>>
    BY <1>4 DEF DoneInv
  <2>1. CASE cache[d] = latest[d]
    BY <2>1, <1>16
  <2>2. CASE \E i \in 1..Len(r.items) : r.items[i] = <<d, latest[d]>>
    <3>1. PICK i \in 1..Len(r.items) : r.items[i] = <<d, latest[d]>>
      BY <2>2
    <3>2. CASE i = 1
      BY <3>1, <3>2, <1>11 DEF c, state
    <3>3. CASE i # 1
      <4>1. i - 1 \in 1..Len(new.items) /\ new.items[i - 1] = r.items[i]
        BY <3>3, <1>3, <1>4
      <4>2. QED BY <4>1, <3>1
    <3>4. QED BY <3>2, <3>3
  <2>3. QED BY <2>1, <2>2, <1>1, <1>6 DEF DoneInv
<1>21. ResyncInv'
  <2>1. \A t \in Resyncers \ {s} :
          ~resync'[t].on /\ resync'[t].toRead = {} /\ resync'[t].items = <<>>
    BY <1>4, <1>6 DEF ResyncInv
  <2>2. new.on
    BY <1>4, <1>6
  <2>3. QED BY <2>1, <2>2, <1>10, <1>19, <1>20 DEF ResyncInv, new
<1>22. GoesForward
  <2>1. \A d \in Clusters : cache'[d] >= cache[d]
    <3>1. cache'[c] >= cache[c]
      BY <1>7, <1>8, <1>10, <1>11
    <3>2. QED BY <3>1, <1>11, Comparable
  <2>2. \A f \in Followers, d \in Clusters : follower'[f].view[d] >= follower[f].view[d]
    BY <1>1, Comparable
  <2>3. QED BY <2>1, <2>2 DEF GoesForward
<1>23. QED BY <1>13, <1>14, <1>15, <1>17, <1>18, <1>21, <1>22

(* A resync that is done has set everything it read.                       *)
LEMMA EndKeeps ==
  ASSUME WatchInv, NEW s \in Resyncers, ResyncEnd(s)
  PROVE  WatchInv'
<1> USE DEF WatchInv
<1>1. /\ resync[s].on /\ resync[s].toRead = {} /\ resync[s].items = <<>>
      /\ dirty' = resync[s].changed /\ resync' = [resync EXCEPT ![s] = NoResync]
      /\ UNCHANGED <<dbVars, cacheVars, resyncs, epoch, follower>>
  BY DEF ResyncEnd
<1>2. resync \in [Resyncers -> Resync] /\ resync[s] \in Resync
  BY DEF TypeOK, Resync, Item
<1>3. NoResync \in Resync /\ ~NoResync.on /\ NoResync.toRead = {} /\ NoResync.items = <<>>
  BY DEF NoResync, Resync, Item
<1>4. resync'[s] = NoResync /\ \A t \in Resyncers \ {s} : resync'[t] = resync[t]
  BY <1>1, <1>2
<1>5. TypeOK'
  <2>1. resync' \in [Resyncers -> Resync] /\ dirty' \subseteq Clusters
    BY <1>1, <1>2, <1>3 DEF Resync
  <2>2. QED BY <1>1, <2>1 DEF TypeOK, dbVars, cacheVars, Resync, Item
<1>6. CacheInv' /\ DbInv' /\ FollowerInv'
  BY <1>1, Frame
<1>7. registered' = registered /\ latest' = latest /\ cache' = cache
  BY <1>1 DEF dbVars, cacheVars
<1>8. ResyncInv'
  BY <1>3, <1>4, <1>7 DEF ResyncInv
<1>9. QuietResyncIsExact'
  <2>1. DoneInv(resync[s], registered, latest, cache)
    BY <1>1 DEF ResyncInv
  <2>2. \A i \in 1..Len(resync[s].items) : FALSE
    BY <1>1, EmptySeq
  <2>3. QED BY <2>1, <2>2, <1>1, <1>7 DEF DoneInv, QuietResyncIsExact
<1>10. QED BY <1>5, <1>6, <1>8, <1>9

-------------------------------------------------------------------------------
(* What the record of a follower must be after a step of its own.          *)
Follows(old, r) ==
  /\ r \in Client /\ r.epoch <= epoch
  /\ r.pc = "list" => r.view = NoState
  /\ r.pc # "new" /\ r.epoch = epoch => r.since <= current
  /\ r.pc = "on" /\ r.epoch = epoch =>
       \A c \in Clusters :
         /\ r.view[c] <= cache[c]
         /\ LastVer(versions[c]) \in 1..r.since => r.view[c] = cache[c]
         /\ old.pc = "on" => r.view[c] >= old.view[c]

(* It is enough for an endpoint, which only answers, to leave its follower *)
(* in such a record.                                                       *)
LEMMA FollowerKeeps ==
  ASSUME WatchInv, NEW f \in Followers, NEW r, Follows(follower[f], r),
         r.pc = "on" => r.epoch = follower[f].epoch,
         follower' = [follower EXCEPT ![f] = r],
         UNCHANGED <<dbVars, cacheVars, resync, resyncs, epoch, dirty>>
  PROVE  WatchInv' /\ GoesForward
<1> USE DEF WatchInv
<1>1. follower \in [Followers -> Client] /\ r \in Client
  BY DEF TypeOK, Client, Follows
<1>2. follower' \in [Followers -> Client]
      /\ follower'[f] = r /\ \A g \in Followers \ {f} : follower'[g] = follower[g]
  BY <1>1
<1>3. TypeOK'
  BY <1>2 DEF TypeOK, Client, dbVars, cacheVars
<1>4. CacheInv' /\ DbInv' /\ ResyncInv' /\ QuietResyncIsExact'
  BY Frame
<1>5. FollowerInv'
  <2>1. /\ current' = current /\ cache' = cache /\ versions' = versions /\ epoch' = epoch
    BY DEF cacheVars
  <2>2. QED BY <2>1, <1>2 DEF FollowerInv, Follows
<1>6. GoesForward
  <2>1. \A c \in Clusters : cache'[c] >= cache[c]
    BY Comparable DEF cacheVars
  <2>2. ASSUME NEW g \in Followers, NEW c \in Clusters, follower[g].pc = "on",
               follower'[g].pc = "on", follower[g].epoch = epoch
        PROVE  follower'[g].view[c] >= follower[g].view[c]
    <3>1. CASE g = f
      BY <2>2, <3>1, <1>2 DEF Follows
    <3>2. CASE g # f
      BY <3>2, <1>2, Comparable
    <3>3. QED BY <3>1, <3>2
  <2>3. QED BY <2>1, <2>2 DEF GoesForward
<1>7. QED BY <1>3, <1>4, <1>5, <1>6

(* GET /cache/status: the follower has the version, and no state yet.      *)
LEMMA StatusKeeps ==
  ASSUME WatchInv, NEW f \in Followers, Status(f)
  PROVE  WatchInv' /\ GoesForward
<1> USE DEF WatchInv
<1> DEFINE r == [NewFollower EXCEPT !.pc = "list", !.since = current, !.epoch = epoch]
<1>1. NoState \in [Clusters -> States] /\ current \in Nat /\ epoch \in Nat
  BY Numbers, WatchAssumption DEF NoState, TypeOK, WatchAssumption
<1>2. NewFollower \in Client /\ NewFollower.view = NoState
  BY <1>1 DEF NewFollower, Client
<1>3. r \in Client /\ r.pc = "list" /\ r.since = current /\ r.epoch = epoch /\ r.view = NoState
  BY <1>1, <1>2 DEF Client
<1>4. follower' = [follower EXCEPT ![f] = r]
  BY DEF Status
<1> HIDE DEF r
<1>5. Follows(follower[f], r)
  BY <1>1, <1>3 DEF Follows
<1>6. QED BY <1>3, <1>4, <1>5, FollowerKeeps DEF Status

(* The list gives the follower what the cache has.                         *)
LEMMA ListKeeps ==
  ASSUME WatchInv, NEW f \in Followers, List(f)
  PROVE  WatchInv' /\ GoesForward
<1> USE DEF WatchInv
<1> DEFINE old == follower[f]
           view == [c \in Clusters |-> IF cache[c] = 0 THEN old.view[c] ELSE cache[c]]
           r == [old EXCEPT !.pc = "on", !.view = view]
<1>1. old \in Client /\ \A c \in Clusters : cache[c] \in States /\ cache[c] \in Nat
  BY Numbers DEF TypeOK, Client
<1>2. old.pc \in {"list", "on"} /\ follower' = [follower EXCEPT ![f] = r]
  BY DEF List
<1>3. view \in [Clusters -> States]
  BY <1>1 DEF Client
<1>4. \A c \in Clusters : view[c] = IF cache[c] = 0 THEN old.view[c] ELSE cache[c]
  OBVIOUS
<1> HIDE DEF view
<1>5. r \in Client /\ r.pc = "on" /\ r.view = view /\ r.since = old.since /\ r.epoch = old.epoch
  BY <1>1, <1>3 DEF Client
<1>6. old.epoch <= epoch /\ (old.epoch = epoch => old.since <= current)
  BY <1>2 DEF FollowerInv
<1>7. ASSUME old.epoch = epoch, NEW c \in Clusters
      PROVE  /\ view[c] = cache[c] /\ view[c] <= cache[c]
             /\ old.pc = "on" => view[c] >= old.view[c]
  <2>1. old.view[c] \in Nat
    BY <1>1, Numbers DEF Client
  <2>2. CASE old.pc = "on"
    <3>1. old.view[c] <= cache[c]
      BY <1>7, <2>2 DEF FollowerInv
    <3>2. QED BY <3>1, <2>1, <1>1, <1>4
  <2>3. CASE old.pc = "list"
    <3>1. old.view[c] = 0
      BY <2>3 DEF FollowerInv, NoState
    <3>2. QED BY <3>1, <1>1, <1>4
  <2>4. QED BY <1>2, <2>2, <2>3
<1> HIDE DEF r
<1>8. Follows(old, r)
  BY <1>5, <1>6, <1>7 DEF Follows
<1>9. QED BY <1>2, <1>5, <1>8, FollowerKeeps DEF List

(* The events of a poll bring the follower to the version it has seen.     *)
LEMMA PollKeeps ==
  ASSUME WatchInv, NEW f \in Followers, Poll(f)
  PROVE  WatchInv' /\ GoesForward
<1> USE DEF WatchInv
<1> DEFINE old == follower[f]
           events(c) == GetChangesSince(c, old.since)
           view == [c \in Clusters |->
                      IF events(c) = {} THEN old.view[c] ELSE LastOf(events(c)).state]
           seen == {old.since} \cup {v.ver : v \in UNION {events(c) : c \in Clusters}}
<1>1. PICK high \in seen :
        /\ \A ver \in seen : ver <= high
        /\ follower' = [follower EXCEPT ![f] = [@ EXCEPT !.since = high, !.view = view]]
  BY DEF Poll
<1> DEFINE r == [old EXCEPT !.since = high, !.view = view]
<1>2. old \in Client /\ old.pc = "on" /\ old.since \in Nat /\ follower' = [follower EXCEPT ![f] = r]
  BY <1>1 DEF TypeOK, Client, Poll
<1>3. ASSUME NEW c \in Clusters
      PROVE  /\ events(c) # {} <=> LastVer(versions[c]) > old.since
             /\ events(c) # {} => LastOf(events(c)).state = cache[c]
             /\ \A v \in events(c) : v.ver \in 1..LastVer(versions[c])
             /\ LastVer(versions[c]) \in 0..current /\ cache[c] \in States
  BY <1>2, LastIsNewest DEF TypeOK
<1>4. ASSUME NEW c \in Clusters
      PROVE  /\ view[c] \in States
             /\ LastVer(versions[c]) > old.since => view[c] = cache[c]
             /\ ~(LastVer(versions[c]) > old.since) => view[c] = old.view[c]
  <2>1. old.view[c] \in States
    BY <1>2 DEF Client
  <2>2. QED BY <2>1, <1>3
<1>5. current \in Nat /\ \A ver \in seen : ver \in Nat /\ (ver = old.since \/ ver <= current)
  <2>1. current \in Nat
    BY DEF TypeOK
  <2>2. ASSUME NEW ver \in seen, ver # old.since PROVE ver \in Nat /\ ver <= current
    <3>1. PICK c \in Clusters : \E v \in events(c) : ver = v.ver
      BY <2>2
    <3>2. ver \in 1..LastVer(versions[c]) /\ LastVer(versions[c]) \in 0..current
      BY <3>1, <1>3
    <3>3. QED BY <3>2, <2>1
  <2>3. QED BY <2>1, <2>2, <1>2
<1>6. view \in [Clusters -> States]
  <2>1. view = [c \in Clusters |-> view[c]]
    OBVIOUS
  <2>2. QED BY <2>1, <1>4
<1>7. high \in Nat /\ old.since <= high /\ (high = old.since \/ high <= current)
  BY <1>1, <1>5
<1> HIDE DEF view, seen, events
<1>8. /\ r \in Client /\ r.pc = "on" /\ r.view = view /\ r.since = high /\ r.epoch = old.epoch
  BY <1>2, <1>6, <1>7 DEF Client
<1>9. old.epoch <= epoch /\ (old.epoch = epoch => old.since <= current)
  BY <1>2 DEF FollowerInv
<1>10. ASSUME old.epoch = epoch, NEW c \in Clusters
       PROVE  /\ view[c] <= cache[c] /\ view[c] >= old.view[c]
              /\ LastVer(versions[c]) \in 1..high => view[c] = cache[c]
  <2>1. /\ old.view[c] <= cache[c]
        /\ LastVer(versions[c]) \in 1..old.since => old.view[c] = cache[c]
    BY <1>2, <1>10 DEF FollowerInv
  <2>2. cache[c] \in Nat /\ LastVer(versions[c]) \in Nat /\ old.view[c] \in Nat
    <3>1. cache[c] \in States /\ LastVer(versions[c]) \in 0..current
      BY <1>3
    <3>2. old.view[c] \in States
      BY <1>2 DEF Client
    <3>3. cache[c] \in Nat /\ old.view[c] \in Nat
      <4> HIDE DEF old
      <4>1. QED BY <3>1, <3>2, Numbers
    <3>4. LastVer(versions[c]) \in Nat
      BY <3>1, <1>5
    <3>5. QED BY <3>3, <3>4
  <2>3. QED BY <2>1, <2>2, <1>2, <1>4, <1>7
<1> HIDE DEF r
<1>11. Follows(old, r)
  BY <1>7, <1>8, <1>9, <1>10 DEF Follows
<1>12. QED BY <1>2, <1>8, <1>11, FollowerKeeps DEF Poll

-------------------------------------------------------------------------------
(* A restart empties the cache, and no follower is of the new life yet.    *)
LEMMA RestartKeeps ==
  ASSUME WatchInv, Restart
  PROVE  WatchInv' /\ GoesForward
<1> USE DEF WatchInv
<1>1. /\ epoch \in Nat /\ epoch' = epoch + 1 /\ epoch' \in 0..MaxRestarts
      /\ current' = 0 /\ cache' = NoState /\ versions' = [c \in Clusters |-> <<>>]
      /\ resync' = [s \in Resyncers |-> NoResync] /\ resyncs' = 0 /\ dirty' = Clusters
      /\ registered' = registered /\ latest' = latest /\ follower' = follower
  BY WatchAssumption DEF Restart, TypeOK, dbVars, WatchAssumption
<1>2. /\ NoState \in [Clusters -> States] /\ \A c \in Clusters : NoState[c] = 0
      /\ NoResync \in Resync /\ ~NoResync.on /\ NoResync.toRead = {} /\ NoResync.items = <<>>
  BY Numbers DEF NoState, NoResync, Resync, Item
<1>3. TypeOK'
  <2>1. /\ resync' \in [Resyncers -> Resync] /\ resyncs' \in 0..MaxResyncs
        /\ versions' \in [Clusters -> Seq(Version)]
    BY <1>1, <1>2, WatchAssumption DEF WatchAssumption
  <2>2. QED BY <1>1, <1>2, <2>1 DEF TypeOK, Resync, Item, Version
<1>4. CacheInv'
  <2>1. \A c \in Clusters : versions'[c] = <<>> /\ cache'[c] = 0
    BY <1>1, <1>2
  <2>2. Ordered(<<>>, 0, current')
    BY EmptySeq DEF Ordered
  <2>3. QED BY <2>1, <2>2 DEF CacheInv
<1>5. DbInv' /\ QuietResyncIsExact'
  <2>1. \A c \in Clusters : latest[c] \in Nat /\ cache'[c] = 0
    BY <1>1, <1>2, Numbers DEF TypeOK
  <2>2. registered \subseteq Clusters
    BY DEF TypeOK
  <2>3. QED BY <1>1, <2>1, <2>2 DEF DbInv, QuietResyncIsExact
<1>6. ResyncInv'
  BY <1>1, <1>2 DEF ResyncInv
<1>7. FollowerInv'
  <2>1. \A f \in Followers : follower[f].epoch \in Nat /\ follower[f].epoch <= epoch
    BY DEF TypeOK, FollowerInv
  <2>2. \A f \in Followers : follower[f].epoch <= epoch' /\ follower[f].epoch # epoch'
    BY <1>1, <2>1
  <2>3. QED BY <1>1, <2>2 DEF FollowerInv
<1>8. GoesForward
  BY <1>1, Still
<1>9. QED BY <1>3, <1>4, <1>5, <1>6, <1>7, <1>8

(* Every step keeps the invariant and takes nothing back.                  *)
LEMMA StepHolds == WatchInv /\ [Next]_vars => WatchInv' /\ GoesForward
<1> SUFFICES ASSUME WatchInv, [Next]_vars PROVE WatchInv' /\ GoesForward
  OBVIOUS
<1>1. ASSUME NEW c \in Clusters, SaveState(c) \/ DeleteCluster(c)
      PROVE  WatchInv' /\ GoesForward
  <2>1. UNCHANGED <<cache, follower>>
    BY <1>1 DEF SaveState, DeleteCluster, Written, cacheVars
  <2>2. QED BY <1>1, <2>1, WriteKeeps, Still DEF WatchInv
<1>2. ASSUME NEW s \in Resyncers,
             ResyncBegin(s) \/ ResyncRead(s) \/ ResyncFails(s) \/ ResyncEnd(s)
      PROVE  WatchInv' /\ GoesForward
  <2>1. UNCHANGED <<cache, follower>>
    BY <1>2 DEF ResyncBegin, ResyncRead, ResyncFails, ResyncEnd, cacheVars
  <2>2. QED BY <1>2, <2>1, BeginKeeps, ReadKeeps, EndKeeps, Still DEF WatchInv
<1>3. ASSUME NEW s \in Resyncers, ResyncSet(s) PROVE WatchInv' /\ GoesForward
  BY <1>3, SetKeeps
<1>4. ASSUME NEW f \in Followers, Status(f) \/ List(f) \/ Poll(f)
      PROVE  WatchInv' /\ GoesForward
  BY <1>4, StatusKeeps, ListKeeps, PollKeeps
<1>5. CASE Restart
  BY <1>5, RestartKeeps
<1>6. CASE UNCHANGED vars
  <2>1. /\ UNCHANGED <<dbVars, cacheVars, resync, epoch, follower, dirty>>
        /\ UNCHANGED <<cache, follower>>
    BY <1>6 DEF vars, cacheVars
  <2>2. TypeOK'
    BY <1>6 DEF WatchInv, TypeOK, vars, dbVars, cacheVars
  <2>3. QED BY <2>1, <2>2, Frame, Still DEF WatchInv
<1>7. QED BY <1>1, <1>2, <1>3, <1>4, <1>5, <1>6 DEF Next

-------------------------------------------------------------------------------
(* THEOREM.  The cache, its versions, the resyncs under way and the        *)
(* followers stay consistent: WatchInv holds for any number of clusters,   *)
(* followers, concurrent resync requests, writes and restarts.             *)
THEOREM WatchHolds == Spec => []WatchInv
<1>1. QED BY InitHolds, StepHolds, PTL DEF Spec

(* THEOREM.  All variables keep to their sets, whatever the numbers of     *)
(* states, resyncs and restarts are.                                       *)
THEOREM CacheIsTyped == Spec => []TypeOK
<1>1. WatchInv => TypeOK
  BY DEF WatchInv
<1>2. QED BY <1>1, WatchHolds, PTL

(* THEOREM.  A follower has what it has passed: in the life of the server  *)
(* it began in, get_changes_since skips no state that lasts, whatever      *)
(* max_versions is and however late the follower polls.                    *)
THEOREM FollowersAreCurrent == Spec => []ViewIsCurrent
<1>1. WatchInv => ViewIsCurrent
  BY DEF WatchInv, FollowerInv, ViewIsCurrent, GetResourceVersion, LastVer
<1>2. QED BY <1>1, WatchHolds, PTL

(* THEOREM.  A quiet resync is exact: cache_resync reads the clusters one  *)
(* by one, and still leaves the cache as the database is wherever nothing  *)
(* has been written since it began.                                        *)
THEOREM QuietResyncsAreExact == Spec => []QuietResyncIsExact
<1>1. WatchInv => QuietResyncIsExact
  BY DEF WatchInv
<1>2. QED BY <1>1, WatchHolds, PTL

(* THEOREM.  Nothing goes back in time while the server lives, because the *)
(* event loop runs one resync to its end before the next one reads.        *)
THEOREM NothingRewinds == Spec => NothingGoesBack
<1>1. WatchInv /\ [Next]_vars =>
        [/\ epoch' = epoch => \A c \in Clusters : cache'[c] >= cache[c]
         /\ \A f \in Followers, c \in Clusters :
              follower[f].pc = "on" /\ follower'[f].pc = "on" /\ follower[f].epoch = epoch
                => follower'[f].view[c] >= follower[f].view[c]]_vars
  BY StepHolds DEF GoesForward
<1>2. QED BY <1>1, WatchHolds, PTL DEF Spec, NothingGoesBack

-------------------------------------------------------------------------------
(* What the feed sees of the followers.                                    *)
ViewOf(fs)          == [f \in Followers |-> fs[f].view]
FollowingOf(fs, ep) == {f \in Followers : fs[f].pc = "on" /\ fs[f].epoch = ep}

LEMMA OneFollower ==
  ASSUME TypeOK, NEW f \in Followers, NEW r, follower' = [follower EXCEPT ![f] = r],
         epoch' = epoch
  PROVE  /\ ViewOf(follower') = [ViewOf(follower) EXCEPT ![f] = r.view]
         /\ FollowingOf(follower', epoch') =
              IF r.pc = "on" /\ r.epoch = epoch
                THEN FollowingOf(follower, epoch) \cup {f}
                ELSE FollowingOf(follower, epoch) \ {f}
<1>1. \A g \in Followers : follower'[g] = IF g = f THEN r ELSE follower[g]
  BY DEF TypeOK
<1>2. ViewOf(follower') = [ViewOf(follower) EXCEPT ![f] = r.view]
  <2>1. \A g \in Followers : follower'[g].view = IF g = f THEN r.view ELSE follower[g].view
    BY <1>1
  <2>2. [g \in Followers |-> follower'[g].view]
          = [[g \in Followers |-> follower[g].view] EXCEPT ![f] = r.view]
    BY <2>1
  <2>3. QED BY <2>2 DEF ViewOf
<1>3. ASSUME NEW g \in Followers
      PROVE  g \in FollowingOf(follower', epoch') <=>
               IF g = f THEN r.pc = "on" /\ r.epoch = epoch
               ELSE g \in FollowingOf(follower, epoch)
  BY <1>1 DEF FollowingOf
<1>4. \A fs, ep : FollowingOf(fs, ep) \subseteq Followers
  BY DEF FollowingOf
<1>5. CASE r.pc = "on" /\ r.epoch = epoch
  <2>1. FollowingOf(follower', epoch') = FollowingOf(follower, epoch) \cup {f}
    BY <1>3, <1>4, <1>5
  <2>2. QED BY <1>2, <1>5, <2>1
<1>6. CASE ~(r.pc = "on" /\ r.epoch = epoch)
  <2>1. FollowingOf(follower', epoch') = FollowingOf(follower, epoch) \ {f}
    BY <1>3, <1>4, <1>6
  <2>2. QED BY <1>2, <1>6, <2>1
<1>7. QED BY <1>5, <1>6

(* A key that is in the cache has a last version, and no other has.        *)
LEMMA CachedIsVersioned ==
  ASSUME TypeOK, CacheInv, NEW c \in Clusters
  PROVE  cache[c] # 0 <=> LastVer(versions[c]) >= 1
<1>1. versions[c] \in Seq(Version) /\ Ordered(versions[c], cache[c], current) /\ current \in Nat
  BY DEF TypeOK, Version, CacheInv
<1>2. CASE versions[c] = <<>>
  BY <1>1, <1>2 DEF Ordered, LastVer
<1>3. CASE versions[c] # <<>>
  <2>1. Len(versions[c]) \in 1..Len(versions[c])
    BY <1>1, <1>3, EmptySeq, LenProperties
  <2>2. LastVer(versions[c]) \in 1..current
    BY <1>1, <1>3, <2>1 DEF Ordered, LastVer
  <2>3. QED BY <1>1, <1>3, <2>2 DEF Ordered
<1>4. QED BY <1>2, <1>3

(* What a set publishes is at least as new as what is there.               *)
LEMMA SetPublishes ==
  ASSUME WatchInv, NEW s \in Resyncers, ResyncSet(s)
  PROVE  \E c \in Clusters : Feed!Publish(c)
<1> USE DEF WatchInv
<1> DEFINE r == resync[s]
           c == Head(r.items)[1]
           state == Head(r.items)[2]
<1>1. /\ r.items # <<>> /\ Set(c, state) /\ epoch' = epoch /\ follower' = follower
  BY DEF ResyncSet
<1>2. r.items \in Seq(Item) /\ r.on
  BY <1>1 DEF TypeOK, ResyncInv, Item
<1>3. 1 \in 1..Len(r.items) /\ Head(r.items) = r.items[1] /\ Head(r.items) \in Item
  BY <1>1, <1>2, EmptySeq, LenProperties, ElementOfSeq
<1>4. c \in Clusters /\ state \in States /\ state # 0 /\ cache[c] <= state
  BY <1>2, <1>3 DEF Item, ResyncInv, ItemInv
<1>5. cache[c] \in States /\ cache' = [cache EXCEPT ![c] = state]
  BY <1>1, <1>4 DEF Set, TypeOK
<1> HIDE DEF c, state
<1>6. state \in 1..MaxSaves /\ state >= cache[c]
  BY <1>4, <1>5, Numbers DEF States
<1>7. QED BY <1>1, <1>4, <1>5, <1>6 DEF Feed!Publish

(* A status request forgets what the follower had.                         *)
LEMMA StatusBegins ==
  ASSUME WatchInv, NEW f \in Followers, Status(f)
  PROVE  Feed!Begin(f)
<1> DEFINE r == [NewFollower EXCEPT !.pc = "list", !.since = current, !.epoch = epoch]
<1>1. r.pc = "list" /\ r.view = NoState
  BY DEF NewFollower
<1>2. follower' = [follower EXCEPT ![f] = r] /\ UNCHANGED <<cacheVars, epoch>>
  BY DEF Status
<1> HIDE DEF r
<1>3. /\ ViewOf(follower') = [ViewOf(follower) EXCEPT ![f] = NoState]
      /\ FollowingOf(follower', epoch') = FollowingOf(follower, epoch) \ {f}
  BY <1>1, <1>2, OneFollower DEF WatchInv
<1>4. QED
  BY <1>2, <1>3 DEF Feed!Begin, Feed!NoState, NoState, ViewOf, FollowingOf, cacheVars

(* An answer that tells a follower of some clusters, all of them if it is  *)
(* of this life, is a step of the feed.                                    *)
LEMMA AnswerIsStep ==
  ASSUME WatchInv, NEW f \in Followers, NEW r, NEW told \in SUBSET Clusters,
         follower' = [follower EXCEPT ![f] = r], UNCHANGED <<cacheVars, epoch>>,
         r.pc = "on", r.epoch = follower[f].epoch,
         follower[f].pc = "on" \/ follower[f].view = NoState,
         r.view = [c \in Clusters |-> IF c \in told /\ cache[c] # 0 THEN cache[c]
                                      ELSE follower[f].view[c]],
         follower[f].epoch = epoch =>
           \A c \in Clusters : cache[c] # 0 => r.view[c] = cache[c]
  PROVE  Feed!CatchUp(f) \/ Feed!Stray(f)
<1> USE DEF WatchInv
<1>1. /\ ViewOf(follower') = [ViewOf(follower) EXCEPT ![f] = r.view]
      /\ FollowingOf(follower', epoch') =
           IF follower[f].epoch = epoch THEN FollowingOf(follower, epoch) \cup {f}
           ELSE FollowingOf(follower, epoch) \ {f}
      /\ ViewOf(follower)[f] = follower[f].view /\ cache' = cache
  BY OneFollower DEF ViewOf, cacheVars
<1>2. CASE follower[f].epoch = epoch
  <2>1. r.view = [c \in Clusters |-> IF cache[c] = 0 THEN follower[f].view[c] ELSE cache[c]]
    BY <1>2
  <2>2. f \in FollowingOf(follower, epoch) \/ ViewOf(follower)[f] = NoState
    BY <1>1, <1>2 DEF FollowingOf
  <2>3. QED
    BY <1>1, <1>2, <2>1, <2>2
    DEF Feed!CatchUp, Feed!UpToDate, Feed!NoState, NoState, ViewOf, FollowingOf
<1>3. CASE follower[f].epoch # epoch
  <2>1. f \notin FollowingOf(follower, epoch)
        /\ FollowingOf(follower', epoch') = FollowingOf(follower, epoch)
    BY <1>1, <1>3 DEF FollowingOf
  <2>2. r.view = [c \in Clusters |-> IF c \in told
                    THEN [d \in Clusters |-> IF cache[d] = 0 THEN ViewOf(follower)[f][d]
                                             ELSE cache[d]][c]
                    ELSE ViewOf(follower)[f][c]]
    BY <1>1
  <2>3. QED BY <1>1, <2>1, <2>2 DEF Feed!Stray, Feed!UpToDate, ViewOf, FollowingOf
<1>4. QED BY <1>2, <1>3

LEMMA ListIsStep ==
  ASSUME WatchInv, NEW f \in Followers, List(f)
  PROVE  Feed!CatchUp(f) \/ Feed!Stray(f)
<1> USE DEF WatchInv
<1> DEFINE old == follower[f]
           view == [c \in Clusters |-> IF cache[c] = 0 THEN old.view[c] ELSE cache[c]]
           r == [old EXCEPT !.pc = "on", !.view = view]
<1>1. old \in Client
  BY DEF TypeOK, Client
<1>2. follower' = [follower EXCEPT ![f] = r] /\ UNCHANGED <<cacheVars, epoch>>
  BY DEF List
<1>3. old.pc = "on" \/ old.view = NoState
  BY DEF List, FollowerInv
<1>4. view = [c \in Clusters |-> IF c \in Clusters /\ cache[c] # 0 THEN cache[c] ELSE old.view[c]]
      /\ \A c \in Clusters : cache[c] # 0 => view[c] = cache[c]
  OBVIOUS
<1> HIDE DEF view
<1>5. r.pc = "on" /\ r.epoch = old.epoch /\ r.view = view
  BY <1>1 DEF Client
<1> HIDE DEF r
<1>6. QED BY <1>2, <1>3, <1>4, <1>5, AnswerIsStep

(* The events of a poll tell of the clusters whose last version is above   *)
(* since; of the others the follower has what is in the cache.             *)
LEMMA PollIsStep ==
  ASSUME WatchInv, NEW f \in Followers, Poll(f)
  PROVE  Feed!CatchUp(f) \/ Feed!Stray(f)
<1> USE DEF WatchInv
<1> DEFINE old == follower[f]
           events(c) == GetChangesSince(c, old.since)
           view == [c \in Clusters |->
                      IF events(c) = {} THEN old.view[c] ELSE LastOf(events(c)).state]
           told == {c \in Clusters : events(c) # {}}
<1>1. PICK high :
        follower' = [follower EXCEPT ![f] = [@ EXCEPT !.since = high, !.view = view]]
  BY DEF Poll
<1> DEFINE r == [old EXCEPT !.since = high, !.view = view]
<1>2. old \in Client /\ old.pc = "on" /\ old.since \in Nat
      /\ follower' = [follower EXCEPT ![f] = r] /\ UNCHANGED <<cacheVars, epoch>>
  BY <1>1 DEF TypeOK, Client, Poll
<1>3. ASSUME NEW c \in Clusters
      PROVE  /\ events(c) # {} <=> LastVer(versions[c]) > old.since
             /\ events(c) # {} => LastOf(events(c)).state = cache[c]
             /\ LastVer(versions[c]) \in 0..current
             /\ cache[c] # 0 <=> LastVer(versions[c]) >= 1
  BY <1>2, LastIsNewest, CachedIsVersioned
<1>4. current \in Nat /\ told \in SUBSET Clusters
  BY DEF TypeOK
<1>5. ASSUME NEW c \in Clusters
      PROVE  view[c] = IF c \in told /\ cache[c] # 0 THEN cache[c] ELSE old.view[c]
  <2>1. events(c) # {} => cache[c] # 0
    BY <1>2, <1>3, <1>4
  <2>2. QED BY <1>3, <2>1
<1>6. view = [c \in Clusters |-> IF c \in told /\ cache[c] # 0 THEN cache[c] ELSE old.view[c]]
  BY <1>5
<1>7. ASSUME old.epoch = epoch, NEW c \in Clusters, cache[c] # 0 PROVE view[c] = cache[c]
  <2>1. CASE c \in told
    BY <1>5, <1>7, <2>1
  <2>2. CASE c \notin told
    <3>1. LastVer(versions[c]) \in 1..old.since
      BY <1>2, <1>3, <1>4, <1>7, <2>2
    <3>2. old.view[c] = cache[c]
      BY <1>2, <1>7, <3>1 DEF FollowerInv
    <3>3. QED BY <1>5, <2>2, <3>2
  <2>3. QED BY <2>1, <2>2
<1> HIDE DEF view, told, events
<1>8. r.pc = "on" /\ r.epoch = old.epoch /\ r.view = view
  BY <1>2 DEF Client
<1> HIDE DEF r
<1>9. QED BY <1>2, <1>4, <1>6, <1>7, <1>8, AnswerIsStep

LEMMA RestartIsStep == WatchInv /\ Restart => Feed!Restart
<1> SUFFICES ASSUME WatchInv, Restart PROVE Feed!Restart
  OBVIOUS
<1>1. /\ epoch \in Nat /\ epoch' = epoch + 1 /\ cache' = NoState /\ follower' = follower
  BY WatchAssumption DEF Restart, WatchInv, TypeOK, WatchAssumption
<1>2. \A f \in Followers : follower[f].epoch \in Nat /\ follower[f].epoch <= epoch
  BY DEF WatchInv, TypeOK, FollowerInv
<1>3. FollowingOf(follower', epoch') = {}
  BY <1>1, <1>2 DEF FollowingOf
<1>4. QED BY <1>1, <1>3 DEF Feed!Restart, Feed!NoState, NoState, FollowingOf

(* THEOREM.  The watch endpoints implement ClusterFeed: a poll for the     *)
(* versions above the last one seen tells a follower all that is in the    *)
(* cache, though the cache keeps only max_versions of a key, and what is   *)
(* published never goes back.                                              *)
THEOREM ImplementsTheFeed == Spec => ImplementsFeed
<1>1. Init => Feed!FeedInit
  <2> SUFFICES ASSUME Init PROVE Feed!FeedInit
    OBVIOUS
  <2>1. \A f \in Followers : follower[f].pc = "new" /\ follower[f].view = NoState
    BY DEF Init, NewFollower
  <2>2. QED BY <2>1 DEF Init, Feed!FeedInit, Feed!NoState, NoState
<1>2. WatchInv /\ [Next]_vars => [Feed!FeedNext]_(Feed!feedVars)
  <2> SUFFICES ASSUME WatchInv, [Next]_vars PROVE Feed!FeedNext \/ UNCHANGED Feed!feedVars
    OBVIOUS
  <2>1. ASSUME UNCHANGED <<cache, follower, epoch>> PROVE UNCHANGED Feed!feedVars
    BY <2>1 DEF Feed!feedVars
  <2>2. ASSUME NEW c \in Clusters, SaveState(c) \/ DeleteCluster(c)
        PROVE  UNCHANGED Feed!feedVars
    BY <2>1, <2>2 DEF SaveState, DeleteCluster, Written, cacheVars
  <2>3. ASSUME NEW s \in Resyncers,
               ResyncBegin(s) \/ ResyncRead(s) \/ ResyncFails(s) \/ ResyncEnd(s)
        PROVE  UNCHANGED Feed!feedVars
    BY <2>1, <2>3 DEF ResyncBegin, ResyncRead, ResyncFails, ResyncEnd, cacheVars
  <2>4. ASSUME NEW s \in Resyncers, ResyncSet(s) PROVE Feed!FeedNext
    BY <2>4, SetPublishes DEF Feed!FeedNext
  <2>5. ASSUME NEW f \in Followers, Status(f) \/ List(f) \/ Poll(f) PROVE Feed!FeedNext
    BY <2>5, StatusBegins, ListIsStep, PollIsStep DEF Feed!FeedNext
  <2>6. CASE Restart
    BY <2>6, RestartIsStep DEF Feed!FeedNext
  <2>7. CASE UNCHANGED vars
    BY <2>1, <2>7 DEF vars, cacheVars
  <2>8. QED BY <2>2, <2>3, <2>4, <2>5, <2>6, <2>7 DEF Next
<1>3. QED BY <1>1, <1>2, WatchHolds, PTL DEF Spec, ImplementsFeed, Feed!FeedSpec
===============================================================================
