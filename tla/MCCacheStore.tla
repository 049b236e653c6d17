---------------------------- MODULE MCCacheStore ----------------------------
(* The cache on small instances: the file store with entries of one or two   *)
(* units in a cache of two, and the in-memory cache with values of one to    *)
(* five units in a cache of four.  They share nothing, so that a behaviour   *)
(* in which both take steps is no more than two behaviours: here only one of *)
(* them leaves its initial state.                                            *)
EXTENDS CacheStore, LruCache

MCInit == Init /\ LruInit
MCNext ==
    \/ LruInit /\ Next /\ UNCHANGED lru
    \/ Init /\ LruNext /\ UNCHANGED vars
MCSpec ==
    /\ MCInit /\ [][MCNext]_<<vars, lru>>
    /\ WF_vars(Initialize \/ InitializeFails)
    /\ WF_vars(Mutation)
=============================================================================
