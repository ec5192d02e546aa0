------------------------------ MODULE ClusterFeed ------------------------------
(***************************************************************************)
(* What the watch endpoints promise a follower: each answer brings it up   *)
(* to date with all of the cache at once, and the cache never goes back.   *)
(* There are no versions here, no events and no limit on what is kept.     *)
(* The promise ends with the life of the server that the follower began    *)
(* in: until it begins again, an answer may leave out any cluster.         *)
(*                                                                         *)
(* WatchCache, where a follower polls for the versions above the highest   *)
(* it has seen, implements this specification.                             *)
(***************************************************************************)
EXTENDS Naturals

CONSTANTS
  Clusters,
  Followers,
  MaxSaves       \* the latest state a cluster can have

VARIABLES
  cache,         \* cache[c]: the published state of c, 0: none
  view,          \* view[f]: the states follower f has
  following      \* the followers the promise is made to

feedVars == <<cache, view, following>>

NoState == [c \in Clusters |-> 0]

FeedInit ==
  /\ cache = NoState
  /\ view = [f \in Followers |-> NoState]
  /\ following = {}

Publish(c) ==
  /\ \E state \in 1..MaxSaves :
       /\ state >= cache[c]
       /\ cache' = [cache EXCEPT ![c] = state]
  /\ UNCHANGED <<view, following>>

Begin(f) ==
  /\ view' = [view EXCEPT ![f] = NoState]
  /\ following' = following \ {f}
  /\ UNCHANGED cache

(* What f has when it has been told all there is.                          *)
UpToDate(f) == [c \in Clusters |-> IF cache[c] = 0 THEN view[f][c] ELSE cache[c]]

CatchUp(f) ==
  /\ f \in following \/ view[f] = NoState
  /\ view' = [view EXCEPT ![f] = UpToDate(f)]
  /\ following' = following \cup {f}
  /\ UNCHANGED cache

Stray(f) ==
  /\ f \notin following
  /\ \E told \in SUBSET Clusters :
       view' = [view EXCEPT ![f] =
                  [c \in Clusters |-> IF c \in told THEN UpToDate(f)[c] ELSE view[f][c]]]
  /\ UNCHANGED <<cache, following>>

Restart ==
  /\ cache' = NoState
  /\ following' = {}
  /\ UNCHANGED view

FeedNext ==
  \/ \E c \in Clusters : Publish(c)
  \/ \E f \in Followers : Begin(f) \/ CatchUp(f) \/ Stray(f)
  \/ Restart

FeedSpec == FeedInit /\ [][FeedNext]_feedVars
===============================================================================
