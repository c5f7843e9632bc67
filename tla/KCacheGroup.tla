---------------------------- MODULE KCacheGroup -----------------------------
(***************************************************************************)
(* kcache::KCacheGroup (src/src/include/kcache/group.h, src/src/group/     *)
(* group.cpp): a look-through cache.  The group owns an LRUCache and a     *)
(* SingleFlight and shares no lock with them, so a Get is a sequence of    *)
(* their operations: the lookup, the SingleFlight around the getter, and   *)
(* the Set of what came back, each a step that any other thread can come   *)
(* between.                                                                *)
(*                                                                         *)
(* is_close_ is never set, and a call with the empty key returns before    *)
(* it touches anything; neither has an action.  The statistics of status_, *)
(* which no operation reads, are left out.                                 *)
(***************************************************************************)
EXTENDS Integers, Sequences

CONSTANTS
    Threads, Keys, Calls, NoCall, Pending, MayThrow,        \* of SingleFlight
    Values, KeyLen, ValLen, Capacities, IntMod,             \* of LRUCache
    None            \* the getter found nothing: std::nullopt

ASSUME NoneAssumption == None \notin Values

\* What SingleFlight and LRUCache assume of their constants.
ASSUME LoaderAssumption ==
    /\ NoCall \notin Calls \cup Values \cup {None, Pending}
    /\ Pending \notin Values \cup {None}
    /\ MayThrow \in BOOLEAN
ASSUME CacheAssumption ==
    /\ KeyLen \in [Keys -> Nat] /\ ValLen \in [Values -> Nat]
    /\ Capacities \subseteq Int /\ IntMod \in Nat \ {0}

VARIABLES
    map_, fut, pc, key, call, val,                          \* loader_
    capacity, max_bytes_, list_, cache_, bytes_, evicted,   \* *cache_
    at,         \* at[t]: how far thread t is in Get
    asked,      \* asked[t]: the key t called Get with
    source      \* source[k]: what the data source answers for k

loaderVars == <<map_, fut, pc, key, call, val>>
cacheVars == <<capacity, max_bytes_, list_, cache_, bytes_, evicted>>
getVars == <<at, asked>>
groupVars == <<loaderVars, cacheVars, getVars, source>>

loader_ == INSTANCE SingleFlight WITH Results <- Values \cup {None}
lru == INSTANCE LRUCache WITH HasEvictedFunc <- FALSE

Found == Values \cup {None}

GroupInit ==
    /\ loader_!Init
    /\ lru!LRUInit
    /\ at = [t \in Threads |-> "out"]
    /\ asked = key
    /\ source \in [Keys -> Found]

GoTo(t, where) == at' = [at EXCEPT ![t] = where]

-----------------------------------------------------------------------------
(* Get, lines 51-55: the key is cached.                                    *)
GetHit(t, k) ==
    /\ at[t] = "out"
    /\ lru!Hit(k)
    /\ UNCHANGED <<loaderVars, getVars, source>>

(* Get, lines 51-58: the key is not cached; Load will be called.           *)
GetMiss(t, k) ==
    /\ at[t] = "out"
    /\ lru!Miss(k)
    /\ GoTo(t, "load")
    /\ asked' = [asked EXCEPT ![t] = k]
    /\ UNCHANGED <<loaderVars, source>>

\* A bug: the loader is keyed by something all keys share.
EnterDoOfAnyKey(t) ==
    /\ at[t] = "load"
    /\ (\E k \in Keys : loader_!Join(t, k)) \/ loader_!Lead(t, asked[t])
    /\ GoTo(t, "do")
    /\ UNCHANGED <<cacheVars, asked, source>>

(* Load, line 106: the thread enters loader_.Do and leads or joins.        *)
EnterDo(t) ==
    /\ at[t] = "load"
    /\ loader_!Join(t, asked[t]) \/ loader_!Lead(t, asked[t])
    /\ GoTo(t, "do")
    /\ UNCHANGED <<cacheVars, asked, source>>

(* LoadData, lines 119-124: the getter answers from the source.            *)
Getter(t) ==
    /\ at[t] = "do"
    /\ loader_!FuncReturns(t, source[asked[t]])
    /\ UNCHANGED <<cacheVars, getVars, source>>

(* LoadData, line 119: the getter throws, through Do, Load and Get.        *)
GetterThrows(t) ==
    /\ at[t] = "do"
    /\ loader_!FuncThrows(t)
    /\ GoTo(t, "out")
    /\ UNCHANGED <<cacheVars, asked, source>>

(* Do goes on inside: the leader fulfils the promise.                      *)
Publish(t) ==
    /\ at[t] = "do"
    /\ loader_!SetValue(t)
    /\ UNCHANGED <<cacheVars, getVars, source>>

\* A bug: an empty result is not looked for.
DoReturnedUnchecked(t) ==
    /\ at[t] = "do"
    /\ loader_!Erase(t) \/ loader_!Await(t)
    /\ GoTo(t, "fill")
    /\ UNCHANGED <<cacheVars, asked, source>>

(* Load, lines 106-110: Do returns, to a leader or to a waiter; Get ends   *)
(* at once when nothing was found.                                         *)
DoReturned(t) ==
    /\ at[t] = "do"
    /\ loader_!Erase(t) \/ loader_!Await(t)
    /\ GoTo(t, IF val'[t] = None THEN "out" ELSE "fill")
    /\ UNCHANGED <<cacheVars, asked, source>>

(* Load, lines 111-113: the value is cached, by every thread Do returned   *)
(* it to, and Get ends.                                                    *)
Fill(t) ==
    /\ at[t] = "fill"
    /\ lru!Set(asked[t], val[t])
    /\ GoTo(t, "out")
    /\ UNCHANGED <<loaderVars, asked, source>>

(* Set, Delete and InvalidateFromPeer with a key that is not empty are one *)
(* operation of the cache each.                                            *)
SetKey(k, v) ==
    /\ lru!Set(k, v)
    /\ UNCHANGED <<loaderVars, getVars, source>>

\* A bug: the deletion does not reach the cache.
DeleteNothing(k) == k \in Keys /\ UNCHANGED groupVars

Delete(k) ==
    /\ lru!Delete(k) \/ lru!DeleteAbsent(k)
    /\ UNCHANGED <<loaderVars, getVars, source>>

InvalidateFromPeer(k) == Delete(k)

(* The data source is not part of the group: it changes when it likes.     *)
SourceChanges(k) ==
    /\ \E v \in Found : source' = [source EXCEPT ![k] = v]
    /\ UNCHANGED <<loaderVars, cacheVars, getVars>>

\* The steps of a Get that is under way.
Continue(t) ==
    \/ EnterDo(t) \/ Getter(t) \/ GetterThrows(t)
    \/ Publish(t) \/ DoReturned(t) \/ Fill(t)

GroupNext ==
    \/ \E t \in Threads :
        \/ \E k \in Keys : GetHit(t, k) \/ GetMiss(t, k)
        \/ Continue(t)
    \/ \E k \in Keys :
        \/ \E v \in Values : SetKey(k, v)
        \/ Delete(k) \/ InvalidateFromPeer(k)
        \/ SourceChanges(k)

GroupSpec == GroupInit /\ [][GroupNext]_groupVars

-----------------------------------------------------------------------------
(* The type invariant, with the place in Get agreeing with the place in    *)
(* Do: a thread is inside Do exactly when Load called it.                  *)
GroupTypeOK ==
    /\ loader_!TypeOK
    /\ lru!LRUTypeOK
    /\ at \in [Threads -> {"out", "load", "do", "fill"}]
    /\ asked \in [Threads -> Keys]
    /\ source \in [Keys -> Found]
    /\ \A t \in Threads :
        /\ at[t] = "do" <=> pc[t] # "idle"
        /\ at[t] = "do" => key[t] = asked[t]
        /\ at[t] = "fill" => val[t] \in Values
=============================================================================
