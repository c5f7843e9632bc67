------------------------- MODULE KCacheGroupProofs --------------------------
(***************************************************************************)
(* Proofs about KCacheGroup for any number of threads and keys, any source *)
(* and any capacity.  The group is a composition, and so are the proofs:   *)
(* the invariants of its SingleFlight and of its LRUCache are those of     *)
(* SingleFlightProofs and LRUCacheProofs, and what is proved here is what  *)
(* the steps of Get add between them.                                      *)
(***************************************************************************)
EXTENDS GroupHistory, TLAPS

sf == INSTANCE SingleFlightProofs WITH Results <- Found
ch == INSTANCE LRUCacheProofs WITH HasEvictedFunc <- FALSE, later <- {}, copy <- <<>>

-----------------------------------------------------------------------------
\* The group's loader is the SingleFlight of SingleFlightProofs,
LEMMA SameLoader ==
    /\ loader_!Init => sf!Init
    /\ sf!TypeOK <=> loader_!TypeOK
    /\ UNCHANGED loaderVars => UNCHANGED sf!vars
    /\ \A t \in Threads, k \in Keys :
           loader_!Join(t, k) \/ loader_!Lead(t, k) => sf!Next
    /\ \A t \in Threads, r \in Found : loader_!FuncReturns(t, r) => sf!Next
    /\ \A t \in Threads :
           \/ loader_!FuncThrows(t) \/ loader_!SetValue(t)
           \/ loader_!Erase(t) \/ loader_!Await(t)
           => sf!Next
<1>1. loader_!Init => sf!Init
  BY DEF loader_!Init, sf!Init
<1>2. sf!TypeOK <=> loader_!TypeOK
  BY DEF sf!TypeOK, loader_!TypeOK, sf!Leading, loader_!Leading, Found
<1>3. UNCHANGED loaderVars => UNCHANGED sf!vars
  BY DEF loaderVars, sf!vars
<1>4. ASSUME NEW t \in Threads, NEW k \in Keys, loader_!Join(t, k) \/ loader_!Lead(t, k)
      PROVE  sf!Next
  <2>1. sf!Join(t, k) \/ sf!Lead(t, k)
    BY <1>4 DEF loader_!Join, loader_!Lead, loader_!Free, sf!Join, sf!Lead, sf!Free
  <2> QED BY <2>1 DEF sf!Next
<1>5. ASSUME NEW t \in Threads, NEW r \in Found, loader_!FuncReturns(t, r)
      PROVE  sf!Next
  <2>1. sf!FuncReturns(t, r)
    BY <1>5 DEF loader_!FuncReturns, sf!FuncReturns
  <2> QED BY <2>1 DEF sf!Next, sf!Proceed
<1>6. ASSUME NEW t \in Threads,
             \/ loader_!FuncThrows(t) \/ loader_!SetValue(t)
             \/ loader_!Erase(t) \/ loader_!Await(t)
      PROVE  sf!Next
  <2>1. sf!FuncThrows(t) \/ sf!SetValue(t) \/ sf!Erase(t) \/ sf!Await(t)
    BY <1>6 DEF loader_!FuncThrows, loader_!SetValue, loader_!Erase, loader_!Await,
                sf!FuncThrows, sf!SetValue, sf!Erase, sf!Await
  <2> QED BY <2>1 DEF sf!Next, sf!Proceed
<1> QED BY <1>1, <1>2, <1>3, <1>4, <1>5, <1>6

\* and its cache the LRUCache of LRUCacheProofs.
LEMMA SameCache ==
    /\ lru!LRUInit => ch!LRUInit
    /\ ch!LRUTypeOK <=> lru!LRUTypeOK
    /\ UNCHANGED cacheVars => UNCHANGED ch!lruVars
    /\ \A k : lru!ValueOf(k) = ch!ValueOf(k)
    /\ \A k : lru!Miss(k) \/ lru!DeleteAbsent(k) => ch!Miss(k)
    /\ \A k : lru!Hit(k) => ch!Hit(k)
    /\ \A k : lru!Delete(k) => ch!Delete(k)
    /\ \A k, v : lru!Set(k, v) => ch!Set(k, v)
<1>1. lru!LRUInit => ch!LRUInit
  BY DEF lru!LRUInit, ch!LRUInit, lru!Narrow, ch!Narrow
<1>2. ch!LRUTypeOK <=> lru!LRUTypeOK
  BY DEF ch!LRUTypeOK, lru!LRUTypeOK, ch!Entry, lru!Entry, ch!KeysOf, lru!KeysOf,
         ch!Range, lru!Range
<1>3. UNCHANGED cacheVars => UNCHANGED ch!lruVars
  BY DEF cacheVars, ch!lruVars
<1>4. \A k : lru!ValueOf(k) = ch!ValueOf(k) /\ lru!Without(k) = ch!Without(k)
  BY DEF lru!ValueOf, ch!ValueOf, lru!Node, ch!Node, lru!Without, ch!Without,
         lru!RemoveAt, ch!RemoveAt
<1>5. \A k : lru!Miss(k) \/ lru!DeleteAbsent(k) => ch!Miss(k)
  BY DEF lru!Miss, lru!DeleteAbsent, ch!Miss
<1>6. \A k : lru!Hit(k) => ch!Hit(k)
  BY <1>4 DEF lru!Hit, ch!Hit
<1>7. \A k : lru!Delete(k) => ch!Delete(k)
  BY <1>4 DEF lru!Delete, ch!Delete, lru!Callbacks, ch!Callbacks
<1>8. \A k, v : lru!Set(k, v) <=> ch!Set(k, v)
  BY DEF lru!Set, ch!Set, lru!ValueOf, ch!ValueOf, lru!Node, ch!Node,
         lru!Without, ch!Without, lru!RemoveAt, ch!RemoveAt, lru!Kept, ch!Kept,
         lru!Weight, ch!Weight, lru!Bytes, ch!Bytes, lru!Size, ch!Size,
         lru!KeysOf, ch!KeysOf, lru!Callbacks, ch!Callbacks, lru!Range, ch!Range,
         lru!Max, ch!Max, lru!Reverse, ch!Reverse,
         lru!Cardinality, ch!Cardinality, lru!IsFiniteSet, ch!IsFiniteSet
<1> QED BY <1>1, <1>2, <1>3, <1>4, <1>5, <1>6, <1>7, <1>8

\* What the provers are told of the constants.
LEMMA Constants ==
    /\ NoCall \notin Calls /\ Pending \notin Found /\ NoCall \notin Found \cup {Pending}
    /\ MayThrow \in BOOLEAN /\ None \in Found /\ Values \subseteq Found
    /\ \A v \in Found : v # None => v \in Values
BY LoaderAssumption DEF Found

-----------------------------------------------------------------------------
\* A thread has its place in Do exactly while Load called it.
Places ==
    /\ at \in [Threads -> {"out", "load", "do", "fill"}]
    /\ asked \in [Threads -> Keys]
    /\ source \in [Keys -> Found]
    /\ \A t \in Threads :
        /\ at[t] = "do" <=> pc[t] # "idle"
        /\ at[t] = "do" => key[t] = asked[t]
        /\ at[t] = "fill" => val[t] \in Values

GroupInv == sf!IInv /\ ch!LRUInv /\ Places

LEMMA InvIsTyped == GroupInv => GroupTypeOK
BY SameLoader, SameCache DEF GroupInv, sf!IInv, ch!LRUInv, Places, GroupTypeOK

LEMMA InitGroup == GroupInit => GroupInv
<1> SUFFICES ASSUME GroupInit PROVE GroupInv
  OBVIOUS
<1>1. sf!IInv
  BY SameLoader, Constants, sf!InitIInv DEF GroupInit
<1>2. ch!LRUInv
  BY SameCache, CacheAssumption, ch!InitLRU DEF GroupInit
<1>3. Places
  BY DEF GroupInit, loader_!Init, Places
<1> QED BY <1>1, <1>2, <1>3 DEF GroupInv

\* What one step of the group is to its loader, and to its cache.
InLoader ==
    \/ UNCHANGED loaderVars
    \/ \E t \in Threads :
         EnterDo(t) \/ Getter(t) \/ GetterThrows(t) \/ Publish(t) \/ DoReturned(t)

InCache ==
    \/ UNCHANGED cacheVars
    \/ \E k \in Keys :
         \/ lru!Miss(k) \/ lru!Hit(k) \/ lru!Delete(k) \/ lru!DeleteAbsent(k)
         \/ \E v \in Values : lru!Set(k, v)

\* What a thread does in the loader keeps the loader's invariant.
LEMMA LoaderStep ==
    ASSUME GroupInv, InLoader
    PROVE  sf!IInv'
<1>1. [sf!Next]_sf!vars
  <2>1. CASE UNCHANGED loaderVars
    BY <2>1, SameLoader
  <2>2. ASSUME NEW t \in Threads,
               \/ EnterDo(t) \/ Getter(t) \/ GetterThrows(t) \/ Publish(t)
               \/ DoReturned(t)
        PROVE  sf!Next
    <3>1. asked[t] \in Keys /\ source[asked[t]] \in Found
      BY DEF GroupInv, Places
    <3>2. \/ \E k \in Keys : loader_!Join(t, k) \/ loader_!Lead(t, k)
          \/ \E r \in Found : loader_!FuncReturns(t, r)
          \/ loader_!FuncThrows(t) \/ loader_!SetValue(t)
          \/ loader_!Erase(t) \/ loader_!Await(t)
      BY <2>2, <3>1 DEF EnterDo, Getter, GetterThrows, Publish, DoReturned
    <3> QED BY <3>2, SameLoader
  <2> QED BY <2>1, <2>2 DEF InLoader
<1> QED BY <1>1, Constants, sf!NextIInv DEF GroupInv

\* What it does in the cache keeps the cache's invariant.
LEMMA CacheStep ==
    ASSUME GroupInv, InCache
    PROVE  ch!LRUInv'
<1>1. [ch!LRUNext]_ch!lruVars
  <2>1. CASE UNCHANGED cacheVars
    BY <2>1, SameCache
  <2>2. ASSUME NEW k \in Keys,
               \/ lru!Miss(k) \/ lru!Hit(k) \/ lru!Delete(k) \/ lru!DeleteAbsent(k)
               \/ \E v \in Values : lru!Set(k, v)
        PROVE  ch!LRUNext
    <3>1. \/ ch!Miss(k) \/ ch!Hit(k) \/ ch!Delete(k)
          \/ \E v \in Values : ch!Set(k, v)
      BY <2>2, SameCache
    <3> QED BY <3>1 DEF ch!LRUNext
  <2> QED BY <2>1, <2>2 DEF InCache
<1> QED BY <1>1, CacheAssumption, ch!NextLRU DEF GroupInv

\* What a thread returned from Do has is an answer of the source.
LEMMA ReturnedIsFound ==
    ASSUME GroupInv, NEW t \in Threads, DoReturned(t)
    PROVE  val'[t] \in Found
<1>1. CASE loader_!Erase(t)
  <2>1. val[t] \in Found
    BY <1>1 DEF GroupInv, sf!IInv, sf!PromiseFollowsLeader, loader_!Erase
  <2> QED BY <1>1, <2>1 DEF loader_!Erase
<1>2. CASE loader_!Await(t)
  <2>1. call[t] \in Calls
    BY <1>2 DEF GroupInv, sf!IInv, sf!TypeOK, loader_!Await
  <2>2. fut[call[t]] \in Found
    BY <1>2, <2>1 DEF GroupInv, sf!IInv, sf!TypeOK, loader_!Await
  <2>3. val'[t] = fut[call[t]]
    BY <1>2 DEF GroupInv, sf!IInv, sf!TypeOK, loader_!Await
  <2> QED BY <2>2, <2>3
<1> QED BY <1>1, <1>2 DEF DoReturned

LEMMA PlacesStep ==
    ASSUME GroupInv, [GroupNext]_groupVars
    PROVE  Places'
<1> USE DEF Places, GoTo
<1>0. /\ Places /\ pc \in [Threads -> {"idle", "wait", "func", "set", "erase"}]
      /\ key \in [Threads -> Keys] /\ val \in [Threads -> Found \cup {Pending}]
  BY DEF GroupInv, sf!IInv, sf!TypeOK, sf!Leading
<1>1. ASSUME NEW t \in Threads, NEW k \in Keys, GetHit(t, k) \/ GetMiss(t, k)
      PROVE  Places'
  BY <1>0, <1>1 DEF GetHit, GetMiss, loaderVars, getVars
<1>2. ASSUME NEW t \in Threads, EnterDo(t) PROVE Places'
  BY <1>0, <1>2 DEF EnterDo, loader_!Join, loader_!Lead
<1>3. ASSUME NEW t \in Threads, Getter(t) \/ GetterThrows(t) \/ Publish(t)
      PROVE  Places'
  BY <1>0, <1>3 DEF Getter, GetterThrows, Publish, getVars, loader_!FuncReturns,
                    loader_!FuncThrows, loader_!SetValue
<1>4. ASSUME NEW t \in Threads, DoReturned(t) PROVE Places'
  <2>1. val'[t] \in Found /\ (val'[t] # None => val'[t] \in Values)
    BY <1>4, ReturnedIsFound, Constants
  <2>2. /\ pc' = [pc EXCEPT ![t] = "idle"] /\ key' = key /\ pc[t] # "idle"
        /\ \A s \in Threads : s # t => val'[s] = val[s]
    BY <1>0, <1>4 DEF DoReturned, loader_!Erase, loader_!Await
  <2>3. /\ at' = [at EXCEPT ![t] = IF val'[t] = None THEN "out" ELSE "fill"]
        /\ UNCHANGED <<asked, source>> /\ at[t] = "do"
    BY <1>4 DEF DoReturned
  <2> QED BY <1>0, <2>1, <2>2, <2>3
<1>5. ASSUME NEW t \in Threads, Fill(t) PROVE Places'
  BY <1>0, <1>5 DEF Fill, loaderVars
<1>6. ASSUME NEW k \in Keys, (\E v \in Values : SetKey(k, v)) \/ Delete(k)
      PROVE  Places'
  BY <1>0, <1>6 DEF SetKey, Delete, loaderVars, getVars
<1>7. ASSUME NEW k \in Keys, SourceChanges(k) PROVE Places'
  BY <1>0, <1>7 DEF SourceChanges, loaderVars, getVars
<1>8. CASE UNCHANGED groupVars
  BY <1>0, <1>8 DEF groupVars, loaderVars, getVars
<1> QED BY <1>1, <1>2, <1>3, <1>4, <1>5, <1>6, <1>7, <1>8
        DEF GroupNext, Continue, InvalidateFromPeer

\* Every step of the group keeps the three invariants.
LEMMA NextGroup == GroupInv /\ [GroupNext]_groupVars => GroupInv'
<1> SUFFICES ASSUME GroupInv, [GroupNext]_groupVars PROVE GroupInv'
  OBVIOUS
<1>1. InLoader
  BY DEF InLoader, GroupNext, Continue, GetHit, GetMiss, Fill, SetKey, Delete,
         InvalidateFromPeer, SourceChanges, groupVars
<1>2. InCache
  <2> USE DEF InCache
  <2>1. ASSUME NEW t \in Threads, Fill(t) PROVE asked[t] \in Keys /\ val[t] \in Values
    BY <2>1 DEF Fill, GroupInv, Places
  <2>2. CASE UNCHANGED groupVars
    BY <2>2 DEF groupVars
  <2>3. ASSUME NEW t \in Threads, Continue(t) PROVE InCache
    BY <2>1, <2>3 DEF Continue, EnterDo, Getter, GetterThrows, Publish, DoReturned, Fill
  <2> QED BY <2>2, <2>3 DEF GroupNext, GetHit, GetMiss, SetKey, Delete,
                            InvalidateFromPeer, SourceChanges
<1> QED BY <1>1, <1>2, LoaderStep, CacheStep, PlacesStep DEF GroupInv

LEMMA GroupInvariant == GroupSpec => []GroupInv
<1> QED BY InitGroup, NextGroup, PTL DEF GroupSpec

\* The variables have their types, and a thread is where Get left it: inside
\* Do with the key it was asked for, or on its way to cache a value that Do
\* found, whatever the other threads, the cache's users and the source do.
THEOREM GroupTypeCorrect == GroupSpec => []GroupTypeOK
<1> QED BY GroupInvariant, InvIsTyped, PTL

-----------------------------------------------------------------------------
\* All that is under way to k, or cached for it, was at some time a value of k.
Genuine ==
    /\ genuine \in [Keys -> SUBSET Values]
    /\ \A k \in Keys : source[k] \in genuine[k] \cup {None}

CachedIsGenuine == \A k \in Keys : \A v : ch!Held(k, v) => v \in genuine[k]

CarriedIsGenuine ==
    /\ \A t \in Threads :
        /\ pc[t] \in {"set", "erase"} => val[t] \in genuine[key[t]] \cup {None}
        /\ pc[t] = "wait" /\ fut[call[t]] # Pending =>
               fut[call[t]] \in genuine[key[t]] \cup {None}
        /\ at[t] = "fill" => val[t] \in genuine[asked[t]]
    /\ \A k \in Keys : map_[k] # NoCall /\ fut[map_[k]] # Pending =>
           fut[map_[k]] \in genuine[k] \cup {None}

GenuineInv == GroupInv /\ Genuine /\ CachedIsGenuine /\ CarriedIsGenuine

LEMMA InitGenuine == HGInit => GenuineInv
<1> SUFFICES ASSUME HGInit PROVE GenuineInv
  OBVIOUS
<1>1. GroupInv
  BY InitGroup DEF HGInit
<1>2. Genuine
  BY DEF HGInit, GroupInit, Genuine, Found
<1>3. CachedIsGenuine
  BY ch!HeldIsShown, SameCache, CacheAssumption DEF HGInit, GroupInit, CachedIsGenuine
<1>4. CarriedIsGenuine
  BY DEF HGInit, GroupInit, loader_!Init, CarriedIsGenuine
<1> QED BY <1>1, <1>2, <1>3, <1>4 DEF GenuineInv

\* Nothing that was ever genuine stops being so, and what is set or is the
\* source's answer is.
LEMMA GenuineGrows ==
    ASSUME Genuine, Observe, source' \in [Keys -> Found]
    PROVE  /\ Genuine'
           /\ \A k \in Keys : genuine[k] \subseteq genuine'[k]
           /\ \A k \in Keys, v \in Values : SetKey(k, v) => v \in genuine'[k]
<1>1. ASSUME NEW k \in Keys
      PROVE  /\ genuine'[k] \in SUBSET Values /\ source'[k] \in genuine'[k] \cup {None}
             /\ genuine[k] \subseteq genuine'[k]
             /\ \A v \in Values : SetKey(k, v) => v \in genuine'[k]
  <2>1. genuine'[k] =
            (genuine[k] \cup {source'[k]} \cup {v \in Values : SetKey(k, v)}) \ {None}
    BY DEF Observe
  <2>2. source'[k] \in Values \cup {None} /\ genuine[k] \subseteq Values
    BY DEF Found, Genuine
  <2> QED BY <2>1, <2>2, NoneAssumption, Zenon
<1>2. genuine' = [k \in Keys |-> genuine'[k]]
  BY DEF Observe
<1> QED BY <1>1, <1>2 DEF Genuine

\* The cache holds genuine values: a Get fills in what it carries.
LEMMA CachedStep ==
    ASSUME GenuineInv, GroupNext, Genuine',
           \A k \in Keys : genuine[k] \subseteq genuine'[k],
           \A k \in Keys, v \in Values : SetKey(k, v) => v \in genuine'[k]
    PROVE  CachedIsGenuine'
<1>1. ASSUME NEW k \in Keys, NEW v, ch!Held(k, v)' PROVE v \in genuine'[k]
  <2>1. CASE ch!Held(k, v)
    BY <1>1, <2>1 DEF GenuineInv, CachedIsGenuine
  <2>2. ASSUME NEW j \in Keys, NEW w \in Values, lru!Set(j, w), w \in genuine'[j]
        PROVE  v \in genuine'[k]
    BY <1>1, <2>1, <2>2, SameCache, CacheAssumption, ch!SetHeld DEF GenuineInv, GroupInv
  <2>3. ASSUME NEW j \in Keys,
               lru!Hit(j) \/ lru!Miss(j) \/ lru!Delete(j) \/ lru!DeleteAbsent(j)
        PROVE  ch!Held(k, v)
    BY <1>1, <2>3, SameCache, CacheAssumption, ch!HitHeld, ch!DeleteHeld
       DEF GenuineInv, GroupInv
  <2>4. ASSUME UNCHANGED cacheVars PROVE ch!Held(k, v)
    BY <1>1, <2>4 DEF ch!Held, ch!Range, cacheVars
  <2>5. ASSUME NEW t \in Threads, Fill(t) PROVE v \in genuine'[k]
    <3>1. val[t] \in genuine[asked[t]] /\ val[t] \in Values /\ asked[t] \in Keys
      BY <2>5 DEF Fill, GenuineInv, CarriedIsGenuine, GroupInv, Places
    <3> QED BY <2>2, <2>5, <3>1 DEF Fill
  <2>6. ASSUME NEW j \in Keys, NEW w \in Values, SetKey(j, w) PROVE v \in genuine'[k]
    BY <2>2, <2>6 DEF SetKey
  <2>7. ASSUME NEW t \in Threads, Continue(t) PROVE v \in genuine'[k]
    BY <2>1, <2>4, <2>5, <2>7 DEF Continue, EnterDo, Getter, GetterThrows, Publish,
                                  DoReturned
  <2> QED BY <2>1, <2>3, <2>4, <2>6, <2>7
          DEF GroupNext, GetHit, GetMiss, Delete, InvalidateFromPeer, SourceChanges
<1> QED BY <1>1 DEF CachedIsGenuine

\* The loader carries genuine values: from the source to the leader, from the
\* leader to the waiters of its Call, who asked for the same key.
LEMMA CarriedStep ==
    ASSUME GenuineInv, GroupNext, Genuine',
           \A k \in Keys : genuine[k] \subseteq genuine'[k]
    PROVE  CarriedIsGenuine'
<1>0. /\ CarriedIsGenuine /\ Places /\ sf!IInv
      /\ \A k \in Keys : source[k] \in genuine[k] \cup {None}
  BY DEF GenuineInv, GroupInv, Genuine
<1>1. /\ pc \in [Threads -> {"idle", "wait", "func", "set", "erase"}]
      /\ key \in [Threads -> Keys] /\ val \in [Threads -> Found \cup {Pending}]
      /\ call \in [Threads -> Calls \cup {NoCall}] /\ map_ \in [Keys -> Calls \cup {NoCall}]
      /\ fut \in [Calls -> Found \cup {Pending}]
      /\ \A t \in Threads : pc[t] = "idle" <=> call[t] = NoCall
  BY <1>0 DEF sf!IInv, sf!TypeOK, sf!Leading
<1>2. ASSUME UNCHANGED <<loaderVars, getVars>> PROVE CarriedIsGenuine'
  BY <1>0, <1>1, <1>2 DEF loaderVars, getVars, CarriedIsGenuine, Places
<1>3. ASSUME NEW t \in Threads, NEW k \in Keys, GetMiss(t, k) PROVE CarriedIsGenuine'
  BY <1>0, <1>1, <1>3 DEF GetMiss, GoTo, loaderVars, CarriedIsGenuine, Places
<1>4. ASSUME NEW t \in Threads, EnterDo(t) PROVE CarriedIsGenuine'
  <2>1. CASE loader_!Join(t, asked[t])
    BY <1>0, <1>1, <1>4, <2>1, Constants
       DEF EnterDo, GoTo, loader_!Join, CarriedIsGenuine, Places
  <2>2. CASE loader_!Lead(t, asked[t])
    BY <1>0, <1>1, <1>4, <2>2, Constants
       DEF EnterDo, GoTo, loader_!Lead, loader_!Free, CarriedIsGenuine, Places
  <2> QED BY <1>4, <2>1, <2>2 DEF EnterDo
<1>5. ASSUME NEW t \in Threads, Getter(t) PROVE CarriedIsGenuine'
  BY <1>0, <1>1, <1>5 DEF Getter, getVars, loader_!FuncReturns, CarriedIsGenuine, Places
<1>6. ASSUME NEW t \in Threads, GetterThrows(t) PROVE CarriedIsGenuine'
  BY <1>0, <1>1, <1>6, Constants
     DEF GetterThrows, GoTo, loader_!FuncThrows, CarriedIsGenuine, Places
<1>7. ASSUME NEW t \in Threads, Publish(t) PROVE CarriedIsGenuine'
  <2>1. /\ pc[t] = "set" /\ pc' = [pc EXCEPT ![t] = "erase"]
        /\ fut' = [fut EXCEPT ![call[t]] = val[t]]
        /\ UNCHANGED <<map_, key, call, val, at, asked>>
    BY <1>7 DEF Publish, getVars, loader_!SetValue
  <2>2. call[t] # NoCall /\ call[t] \in Calls
    BY <1>1, <2>1
  <2>3. val[t] \in genuine'[key[t]] \cup {None} /\ fut'[call[t]] = val[t]
    BY <1>0, <1>1, <2>1, <2>2 DEF CarriedIsGenuine
  <2>4. ASSUME NEW c \in Calls, c # call[t] PROVE fut'[c] = fut[c]
    BY <1>1, <2>1, <2>4
  <2>5. ASSUME NEW u \in Threads
        PROVE  /\ pc'[u] \in {"set", "erase"} => val[u] \in genuine'[key[u]] \cup {None}
               /\ at[u] = "fill" => val[u] \in genuine'[asked[u]]
    BY <1>0, <1>1, <2>1 DEF CarriedIsGenuine, Places
  <2>6. ASSUME NEW u \in Threads, pc'[u] = "wait", fut'[call[u]] # Pending
        PROVE  fut'[call[u]] \in genuine'[key[u]] \cup {None}
    <3>1. pc[u] = "wait" /\ call[u] # NoCall /\ call[u] \in Calls
      BY <1>1, <2>1, <2>6
    <3>2. CASE call[u] = call[t]
      <4>1. key[u] = key[t]
        BY <1>0, <2>2, <3>2 DEF sf!IInv, sf!SameCallSameKey
      <4> QED BY <2>3, <3>2, <4>1
    <3>3. CASE call[u] # call[t]
      <4>1. fut'[call[u]] = fut[call[u]]
        BY <2>4, <3>1, <3>3
      <4>2. fut[call[u]] \in genuine[key[u]] \cup {None}
        BY <1>0, <2>6, <3>1, <4>1 DEF CarriedIsGenuine
      <4> QED BY <1>1, <4>1, <4>2
    <3> QED BY <3>2, <3>3
  <2>7. ASSUME NEW k \in Keys, map_[k] # NoCall, fut'[map_[k]] # Pending
        PROVE  fut'[map_[k]] \in genuine'[k] \cup {None}
    <3>1. CASE map_[k] = call[t]
      <4>1. key[t] = k
        BY <1>0, <2>2, <3>1 DEF sf!IInv, sf!EntryOfOneKey
      <4> QED BY <2>3, <3>1, <4>1
    <3>2. CASE map_[k] # call[t]
      <4>1. fut'[map_[k]] = fut[map_[k]]
        BY <1>1, <2>4, <2>7, <3>2
      <4>2. fut[map_[k]] \in genuine[k] \cup {None}
        BY <1>0, <2>7, <4>1 DEF CarriedIsGenuine
      <4> QED BY <4>1, <4>2
    <3> QED BY <3>1, <3>2
  <2> QED BY <2>1, <2>5, <2>6, <2>7 DEF CarriedIsGenuine
<1>8. ASSUME NEW t \in Threads, DoReturned(t) PROVE CarriedIsGenuine'
  <2>1. CASE loader_!Erase(t)
    BY <1>0, <1>1, <1>8, <2>1, Constants
       DEF DoReturned, GoTo, loader_!Erase, CarriedIsGenuine, Places
  <2>2. CASE loader_!Await(t)
    BY <1>0, <1>1, <1>8, <2>2, Constants
       DEF DoReturned, GoTo, loader_!Await, CarriedIsGenuine, Places
  <2> QED BY <1>8, <2>1, <2>2 DEF DoReturned
<1>9. ASSUME NEW t \in Threads, Fill(t) PROVE CarriedIsGenuine'
  BY <1>0, <1>1, <1>9 DEF Fill, GoTo, loaderVars, CarriedIsGenuine, Places
<1> QED BY <1>2, <1>3, <1>4, <1>5, <1>6, <1>7, <1>8, <1>9
        DEF GroupNext, Continue, GetHit, SetKey, Delete, InvalidateFromPeer,
            SourceChanges

LEMMA NextGenuine == GenuineInv /\ [GroupNext /\ Observe]_hgVars => GenuineInv'
<1> SUFFICES ASSUME GenuineInv, [GroupNext /\ Observe]_hgVars PROVE GenuineInv'
  OBVIOUS
<1>1. GroupInv'
  <2>1. [GroupNext]_groupVars
    BY DEF hgVars
  <2> QED BY <2>1, NextGroup DEF GenuineInv
<1>2. CASE GroupNext /\ Observe
  <2>1. /\ Genuine'
        /\ \A k \in Keys : genuine[k] \subseteq genuine'[k]
        /\ \A k \in Keys, v \in Values : SetKey(k, v) => v \in genuine'[k]
    BY <1>1, <1>2, GenuineGrows DEF GenuineInv, GroupInv, Places
  <2> QED BY <1>1, <1>2, <2>1, CachedStep, CarriedStep DEF GenuineInv
<1>3. CASE UNCHANGED hgVars
  <2>1. Genuine' /\ CarriedIsGenuine'
    BY <1>3 DEF hgVars, history, groupVars, loaderVars, getVars, GenuineInv, Genuine,
                CarriedIsGenuine
  <2>2. CachedIsGenuine'
    BY <1>3 DEF hgVars, history, groupVars, cacheVars, GenuineInv, CachedIsGenuine,
                ch!Held, ch!Range
  <2> QED BY <1>1, <2>1, <2>2 DEF GenuineInv
<1> QED BY <1>2, <1>3

LEMMA GenuineInvariant == HGSpec => []GenuineInv
<1> QED BY InitGenuine, NextGenuine, PTL DEF HGSpec

\* What is cached for a key, and what a Get is about to return and to cache,
\* was at some time the source's answer or a Set's value for that key: nothing
\* crosses between keys, through whichever threads and Calls it passes.
THEOREM NothingIsInvented == HGSpec => []NothingInvented
<1>1. GenuineInv => NothingInvented
  <2> SUFFICES ASSUME GenuineInv PROVE NothingInvented
    OBVIOUS
  <2>1. ASSUME NEW k \in cache_ PROVE lru!ValueOf(k) \in genuine[k]
    <3>1. k \in Keys
      BY SameCache DEF GenuineInv, GroupInv, ch!LRUInv, ch!LRUTypeOK
    <3>2. ch!Held(k, lru!ValueOf(k))
      BY SameCache, CacheAssumption, ch!HeldIsShown DEF GenuineInv, GroupInv
    <3> QED BY <3>1, <3>2 DEF GenuineInv, CachedIsGenuine
  <2> QED BY <2>1 DEF GenuineInv, CarriedIsGenuine, NothingInvented
<1> QED BY <1>1, GenuineInvariant, PTL

-----------------------------------------------------------------------------
\* A promise that is fulfilled and still registered has its leader yet to erase
\* it, so that a key no Get is working on has none.
FulfilledIsRetiring ==
    \A k \in Keys : map_[k] # NoCall /\ fut[map_[k]] # Pending =>
        \E t \in Threads : pc[t] = "erase" /\ key[t] = k

\* What no Get of k has of the source since the key was settled.
Untouched(k) ==
    /\ k \notin cache_
    /\ map_[k] # NoCall => fut[map_[k]] = Pending
    /\ \A t \in Threads :
        /\ at[t] = "fill" => asked[t] # k
        /\ pc[t] \in {"set", "erase"} => key[t] # k
        /\ pc[t] = "wait" /\ fut[call[t]] # Pending => key[t] # k

SettledInv ==
    /\ GroupInv /\ FulfilledIsRetiring
    /\ settled \subseteq Keys /\ \A k \in settled : Untouched(k)

LEMMA NextRetiring ==
    ASSUME GroupInv, FulfilledIsRetiring, [GroupNext]_groupVars
    PROVE  FulfilledIsRetiring'
<1>0. sf!IInv /\ Places
  BY DEF GroupInv
<1>1. /\ pc \in [Threads -> {"idle", "wait", "func", "set", "erase"}]
      /\ key \in [Threads -> Keys] /\ val \in [Threads -> Found \cup {Pending}]
      /\ call \in [Threads -> Calls \cup {NoCall}] /\ map_ \in [Keys -> Calls \cup {NoCall}]
      /\ fut \in [Calls -> Found \cup {Pending}]
      /\ \A t \in Threads : pc[t] = "idle" <=> call[t] = NoCall
  BY <1>0 DEF sf!IInv, sf!TypeOK, sf!Leading
<1>2. ASSUME UNCHANGED loaderVars PROVE FulfilledIsRetiring'
  BY <1>2 DEF loaderVars, FulfilledIsRetiring
<1>3. ASSUME NEW t \in Threads, EnterDo(t) PROVE FulfilledIsRetiring'
  <2>1. CASE loader_!Join(t, asked[t])
    BY <1>1, <2>1 DEF loader_!Join, FulfilledIsRetiring
  <2>2. CASE loader_!Lead(t, asked[t])
    BY <1>1, <2>2, Constants DEF loader_!Lead, loader_!Free, FulfilledIsRetiring
  <2> QED BY <1>3, <2>1, <2>2 DEF EnterDo
<1>4. ASSUME NEW t \in Threads, Getter(t) \/ GetterThrows(t) PROVE FulfilledIsRetiring'
  BY <1>1, <1>4 DEF Getter, GetterThrows, loader_!FuncReturns, loader_!FuncThrows,
                    FulfilledIsRetiring
<1>5. ASSUME NEW t \in Threads, Publish(t) PROVE FulfilledIsRetiring'
  BY <1>0, <1>1, <1>5 DEF Publish, loader_!SetValue, FulfilledIsRetiring,
                          sf!IInv, sf!EntryOfOneKey
<1>6. ASSUME NEW t \in Threads, DoReturned(t) PROVE FulfilledIsRetiring'
  BY <1>0, <1>1, <1>6 DEF DoReturned, loader_!Erase, loader_!Await, FulfilledIsRetiring
<1> QED BY <1>2, <1>3, <1>4, <1>5, <1>6
        DEF GroupNext, Continue, GetHit, GetMiss, Fill, SetKey, Delete,
            InvalidateFromPeer, SourceChanges, groupVars

\* A key that was settled stays untouched until it is set or loaded,
LEMMA UntouchedStays ==
    ASSUME GroupInv, GroupNext, NEW k \in Keys, Untouched(k), ~Sets(k), ~Loads(k)
    PROVE  Untouched(k)'
<1>0. sf!IInv /\ Places
  BY DEF GroupInv
<1>1. /\ pc \in [Threads -> {"idle", "wait", "func", "set", "erase"}]
      /\ key \in [Threads -> Keys] /\ val \in [Threads -> Found \cup {Pending}]
      /\ call \in [Threads -> Calls \cup {NoCall}] /\ map_ \in [Keys -> Calls \cup {NoCall}]
      /\ fut \in [Calls -> Found \cup {Pending}]
      /\ \A t \in Threads : pc[t] = "idle" <=> call[t] = NoCall
  BY <1>0 DEF sf!IInv, sf!TypeOK, sf!Leading
<1>2. ASSUME NEW t \in Threads, NEW j \in Keys, GetHit(t, j) \/ GetMiss(t, j)
      PROVE  Untouched(k)'
  BY <1>0, <1>2 DEF GetHit, GetMiss, GoTo, loaderVars, getVars, lru!Hit, lru!Miss,
                    Untouched, Places
<1>3. ASSUME NEW t \in Threads, EnterDo(t) PROVE Untouched(k)'
  <2>1. CASE loader_!Join(t, asked[t])
    BY <1>0, <1>1, <1>3, <2>1
       DEF EnterDo, GoTo, loader_!Join, cacheVars, Untouched, Places
  <2>2. CASE loader_!Lead(t, asked[t])
    BY <1>0, <1>1, <1>3, <2>2, Constants
       DEF EnterDo, GoTo, loader_!Lead, loader_!Free, cacheVars, Untouched, Places
  <2> QED BY <1>3, <2>1, <2>2 DEF EnterDo
<1>4. ASSUME NEW t \in Threads, Getter(t) PROVE Untouched(k)'
  BY <1>0, <1>1, <1>4 DEF Getter, Loads, getVars, cacheVars, loader_!FuncReturns,
                          Untouched, Places
<1>5. ASSUME NEW t \in Threads, GetterThrows(t) PROVE Untouched(k)'
  BY <1>0, <1>1, <1>5, Constants
     DEF GetterThrows, GoTo, cacheVars, loader_!FuncThrows, Untouched, Places
<1>6. ASSUME NEW t \in Threads, Publish(t) PROVE Untouched(k)'
  BY <1>0, <1>1, <1>6, Constants
     DEF Publish, getVars, cacheVars, loader_!SetValue, Untouched, Places,
         sf!IInv, sf!SameCallSameKey, sf!EntryOfOneKey
<1>7. ASSUME NEW t \in Threads, DoReturned(t) PROVE Untouched(k)'
  <2>1. CASE loader_!Erase(t)
    BY <1>0, <1>1, <1>7, <2>1
       DEF DoReturned, GoTo, cacheVars, loader_!Erase, Untouched, Places
  <2>2. CASE loader_!Await(t)
    BY <1>0, <1>1, <1>7, <2>2
       DEF DoReturned, GoTo, cacheVars, loader_!Await, Untouched, Places
  <2> QED BY <1>7, <2>1, <2>2 DEF DoReturned
<1>8. ASSUME NEW t \in Threads, Fill(t) PROVE Untouched(k)'
  <2>1. asked[t] # k /\ cache_' \subseteq cache_ \cup {asked[t]}
    BY <1>8 DEF Fill, Untouched, lru!Set
  <2> QED BY <1>0, <1>1, <1>8, <2>1 DEF Fill, GoTo, loaderVars, Untouched, Places
<1>9. ASSUME NEW j \in Keys, NEW v \in Values, SetKey(j, v) PROVE Untouched(k)'
  <2>1. j # k /\ cache_' \subseteq cache_ \cup {j}
    BY <1>9 DEF Sets, SetKey, lru!Set
  <2> QED BY <1>9, <2>1 DEF SetKey, loaderVars, getVars, Untouched
<1>10. ASSUME NEW j \in Keys, Delete(j) \/ SourceChanges(j) PROVE Untouched(k)'
  BY <1>10 DEF Delete, SourceChanges, lru!Delete, lru!DeleteAbsent, lru!Miss,
               loaderVars, getVars, cacheVars, Untouched
<1> QED BY <1>2, <1>3, <1>4, <1>5, <1>6, <1>7, <1>8, <1>9, <1>10
        DEF GroupNext, Continue, InvalidateFromPeer

\* and a Delete with no Get of the key under way leaves it untouched.
LEMMA DeleteSettles ==
    ASSUME GroupInv, FulfilledIsRetiring, NEW k \in Keys, Delete(k), ~InGet(k)
    PROVE  Untouched(k)'
<1>1. \A t \in Threads : key[t] = k => pc[t] = "idle"
  BY DEF GroupInv, Places, InGet
<1>2. \A t \in Threads : at[t] = "fill" => asked[t] # k
  BY DEF InGet
<1>3. k \notin cache_'
  BY DEF Delete, lru!Delete, lru!DeleteAbsent, lru!Miss
<1> QED BY <1>1, <1>2, <1>3 DEF Delete, loaderVars, getVars, FulfilledIsRetiring, Untouched

LEMMA NextSettled == SettledInv /\ [GroupNext /\ Observe]_hgVars => SettledInv'
<1> SUFFICES ASSUME SettledInv, [GroupNext /\ Observe]_hgVars PROVE SettledInv'
  OBVIOUS
<1>1. [GroupNext]_groupVars
  BY DEF hgVars
<1>2. GroupInv' /\ FulfilledIsRetiring'
  BY <1>1, NextGroup, NextRetiring DEF SettledInv
<1>3. CASE GroupNext /\ Observe
  <2>1. settled' = {k \in Keys :
            (Delete(k) /\ ~InGet(k)) \/ (k \in settled /\ ~Sets(k) /\ ~Loads(k))}
    BY <1>3 DEF Observe
  <2>2. ASSUME NEW k \in settled' PROVE Untouched(k)'
    <3>1. /\ k \in Keys
          /\ (Delete(k) /\ ~InGet(k)) \/ (k \in settled /\ ~Sets(k) /\ ~Loads(k))
      BY <2>1, <2>2, Zenon
    <3> QED BY <1>3, <3>1, DeleteSettles, UntouchedStays DEF SettledInv
  <2> QED BY <1>2, <2>1, <2>2, Zenon DEF SettledInv
<1>4. CASE UNCHANGED hgVars
  BY <1>2, <1>4 DEF hgVars, history, groupVars, loaderVars, cacheVars, getVars,
                    SettledInv, Untouched
<1> QED BY <1>3, <1>4

\* A Delete or an invalidation that no Get of the key overlaps is final: until
\* the key is set again or a Get loads it, the key is not in the cache, even if
\* Gets of it begin, wait, throw or give up.
THEOREM SettledPurgesReload == HGSpec => []SettledPurgeReloads
<1>1. HGInit => SettledInv
  BY InitGroup DEF HGInit, GroupInit, loader_!Init, SettledInv, FulfilledIsRetiring
<1>2. SettledInv => SettledPurgeReloads
  BY DEF SettledInv, Untouched, SettledPurgeReloads
<1> QED BY <1>1, <1>2, NextSettled, PTL DEF HGSpec

=============================================================================
