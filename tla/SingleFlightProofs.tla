------------------------- MODULE SingleFlightProofs -------------------------
(***************************************************************************)
(* Proofs about SingleFlight for any set of threads, keys and Calls.       *)
(*                                                                         *)
(* AtMostOneExecution and the others are not inductive: erase(key) removes *)
(* whatever Call is registered.  They follow from the fact that an entry,  *)
(* once registered, stays that of its leader until the leader erases it.   *)
(***************************************************************************)
EXTENDS SingleFlight, TLAPS

\* A leader's Call is the one registered for its key.
LeaderOwnsEntry ==
    \A t \in Threads : pc[t] \in Leading => map_[key[t]] = call[t]

\* No Call is registered for two keys, nor for a key its holders did not ask for.
EntryOfOneKey ==
    /\ \A j, k \in Keys : map_[j] = map_[k] /\ map_[j] # NoCall => j = k
    /\ \A t \in Threads, k \in Keys :
           map_[k] = call[t] /\ call[t] # NoCall => key[t] = k

\* Only one of the threads that hold a Call leads it.
OneLeaderPerCall ==
    \A s, t \in Threads :
        pc[s] \in Leading /\ pc[t] \in Leading /\ call[s] = call[t] => s = t

\* The promise is open until SetValue, and then holds the leader's value; a
\* Call whose promise is open is still registered.
PromiseFollowsLeader ==
    \A t \in Threads :
        /\ pc[t] \in {"func", "set"} => fut[call[t]] = Pending
        /\ pc[t] = "erase" => fut[call[t]] = val[t]
        /\ pc[t] \in {"set", "erase"} => val[t] \in Results
        /\ pc[t] = "func" => val[t] = Pending
        /\ pc[t] = "wait" /\ fut[call[t]] = Pending => map_[key[t]] = call[t]

\* If func always returns, every registered Call has its leader.
EntryHasLeader ==
    ~MayThrow =>
        \A k \in Keys : map_[k] # NoCall =>
            \E l \in Threads : pc[l] \in Leading /\ call[l] = map_[k]

\* If func always returns, a waiter whose future is open has a leader that
\* will fulfil it.
WaiterIsLed ==
    ~MayThrow =>
        \A t \in Threads :
            pc[t] = "wait" /\ fut[call[t]] = Pending =>
                \E l \in Threads : pc[l] \in {"func", "set"} /\ call[l] = call[t]

IInv ==
    /\ TypeOK
    /\ LeaderOwnsEntry
    /\ EntryOfOneKey
    /\ OneLeaderPerCall
    /\ SameCallSameKey
    /\ PromiseFollowsLeader
    /\ EntryHasLeader
    /\ WaiterIsLed

-----------------------------------------------------------------------------
\* The initial states satisfy the inductive invariant.
LEMMA InitIInv == Init => IInv
BY DEF Init, IInv, TypeOK, LeaderOwnsEntry, EntryOfOneKey, OneLeaderPerCall,
       SameCallSameKey, PromiseFollowsLeader, EntryHasLeader, WaiterIsLed,
       Leading

\* Entering Do on a registered key preserves the inductive invariant.
LEMMA JoinIInv ==
    ASSUME IInv, NEW t \in Threads, NEW k \in Keys, Join(t, k)
    PROVE  IInv'
<1> USE SentinelAssumption DEF Leading
<1>1. TypeOK'
  BY DEF IInv, TypeOK, Join
<1>2. LeaderOwnsEntry' /\ OneLeaderPerCall' /\ PromiseFollowsLeader'
  BY DEF IInv, TypeOK, Join, LeaderOwnsEntry, OneLeaderPerCall, PromiseFollowsLeader
<1>3. EntryOfOneKey' /\ SameCallSameKey'
  BY DEF IInv, TypeOK, Join, EntryOfOneKey, SameCallSameKey
<1>4. EntryHasLeader'
  BY DEF IInv, TypeOK, Join, EntryHasLeader
<1>5. WaiterIsLed'
  BY DEF IInv, TypeOK, Join, EntryHasLeader, WaiterIsLed, PromiseFollowsLeader
<1> QED BY <1>1, <1>2, <1>3, <1>4, <1>5 DEF IInv

\* Registering a new Call preserves the inductive invariant.
LEMMA LeadIInv ==
    ASSUME IInv, NEW t \in Threads, NEW k \in Keys, Lead(t, k)
    PROVE  IInv'
<1> USE SentinelAssumption DEF Leading
<1> PICK c \in Calls :
        /\ Free(c)
        /\ map_' = [map_ EXCEPT ![k] = c]
        /\ fut' = [fut EXCEPT ![c] = Pending]
        /\ call' = [call EXCEPT ![t] = c]
  BY DEF Lead
<1>1. TypeOK'
  BY DEF IInv, TypeOK, Lead
<1>2. LeaderOwnsEntry' /\ OneLeaderPerCall'
  BY DEF IInv, TypeOK, Lead, Free, LeaderOwnsEntry, OneLeaderPerCall
<1>3. EntryOfOneKey' /\ SameCallSameKey'
  BY DEF IInv, TypeOK, Lead, Free, EntryOfOneKey, SameCallSameKey
<1>4. PromiseFollowsLeader'
  BY DEF IInv, TypeOK, Lead, Free, PromiseFollowsLeader
<1>5. EntryHasLeader' /\ WaiterIsLed'
  BY DEF IInv, TypeOK, Lead, Free, EntryHasLeader, WaiterIsLed
<1> QED BY <1>1, <1>2, <1>3, <1>4, <1>5 DEF IInv

\* The return of func preserves the inductive invariant.
LEMMA FuncReturnsIInv ==
    ASSUME IInv, NEW t \in Threads, NEW r \in Results, FuncReturns(t, r)
    PROVE  IInv'
<1> USE SentinelAssumption DEF Leading
<1>1. TypeOK'
  BY DEF IInv, TypeOK, FuncReturns
<1>2. LeaderOwnsEntry' /\ OneLeaderPerCall' /\ PromiseFollowsLeader'
  BY DEF IInv, TypeOK, FuncReturns, LeaderOwnsEntry, OneLeaderPerCall,
         PromiseFollowsLeader
<1>3. EntryOfOneKey' /\ SameCallSameKey'
  BY DEF IInv, FuncReturns, EntryOfOneKey, SameCallSameKey
<1>4. EntryHasLeader' /\ WaiterIsLed'
  BY DEF IInv, TypeOK, FuncReturns, EntryHasLeader, WaiterIsLed
<1> QED BY <1>1, <1>2, <1>3, <1>4 DEF IInv

\* An exception out of func preserves the inductive invariant.
LEMMA FuncThrowsIInv ==
    ASSUME IInv, NEW t \in Threads, FuncThrows(t)
    PROVE  IInv'
<1> USE SentinelAssumption DEF Leading
<1>1. TypeOK'
  BY DEF IInv, TypeOK, FuncThrows
<1>2. LeaderOwnsEntry' /\ OneLeaderPerCall' /\ PromiseFollowsLeader'
  BY DEF IInv, TypeOK, FuncThrows, LeaderOwnsEntry, OneLeaderPerCall,
         PromiseFollowsLeader
<1>3. EntryOfOneKey' /\ SameCallSameKey'
  BY DEF IInv, TypeOK, FuncThrows, EntryOfOneKey, SameCallSameKey
<1>4. EntryHasLeader' /\ WaiterIsLed'
  BY DEF FuncThrows, EntryHasLeader, WaiterIsLed
<1> QED BY <1>1, <1>2, <1>3, <1>4 DEF IInv

\* Fulfilling the promise preserves the inductive invariant.
LEMMA SetValueIInv ==
    ASSUME IInv, NEW t \in Threads, SetValue(t)
    PROVE  IInv'
<1> USE SentinelAssumption DEF Leading
<1>1. TypeOK'
  BY DEF IInv, TypeOK, SetValue
<1>2. LeaderOwnsEntry' /\ OneLeaderPerCall'
  BY DEF IInv, TypeOK, SetValue, LeaderOwnsEntry, OneLeaderPerCall
<1>3. EntryOfOneKey' /\ SameCallSameKey'
  BY DEF IInv, SetValue, EntryOfOneKey, SameCallSameKey
<1>4. PromiseFollowsLeader'
  BY DEF IInv, TypeOK, SetValue, PromiseFollowsLeader, OneLeaderPerCall
<1>5. EntryHasLeader'
  BY DEF IInv, TypeOK, SetValue, EntryHasLeader
<1>6. WaiterIsLed'
  BY DEF IInv, TypeOK, SetValue, WaiterIsLed, PromiseFollowsLeader
<1> QED BY <1>1, <1>2, <1>3, <1>4, <1>5, <1>6 DEF IInv

\* Erasing the entry preserves the inductive invariant.
LEMMA EraseIInv ==
    ASSUME IInv, NEW t \in Threads, Erase(t)
    PROVE  IInv'
<1> USE SentinelAssumption DEF Leading
<1>1. TypeOK'
  BY DEF IInv, TypeOK, Erase
<1>2. LeaderOwnsEntry' /\ OneLeaderPerCall'
  BY DEF IInv, TypeOK, Erase, LeaderOwnsEntry, OneLeaderPerCall
<1>3. EntryOfOneKey' /\ SameCallSameKey'
  BY DEF IInv, TypeOK, Erase, EntryOfOneKey, SameCallSameKey
<1>4. PromiseFollowsLeader'
  BY DEF IInv, TypeOK, Erase, LeaderOwnsEntry, EntryOfOneKey, PromiseFollowsLeader
<1>5. EntryHasLeader'
  BY DEF IInv, TypeOK, Erase, EntryHasLeader, LeaderOwnsEntry, EntryOfOneKey
<1>6. WaiterIsLed'
  BY DEF IInv, TypeOK, Erase, WaiterIsLed
<1> QED BY <1>1, <1>2, <1>3, <1>4, <1>5, <1>6 DEF IInv

\* The return of a waiter preserves the inductive invariant.
LEMMA AwaitIInv ==
    ASSUME IInv, NEW t \in Threads, Await(t)
    PROVE  IInv'
<1> USE SentinelAssumption DEF Leading
<1>1. TypeOK'
  BY DEF IInv, TypeOK, Await
<1>2. LeaderOwnsEntry' /\ OneLeaderPerCall' /\ PromiseFollowsLeader'
  BY DEF IInv, TypeOK, Await, LeaderOwnsEntry, OneLeaderPerCall,
         PromiseFollowsLeader
<1>3. EntryOfOneKey' /\ SameCallSameKey'
  BY DEF IInv, TypeOK, Await, EntryOfOneKey, SameCallSameKey
<1>4. EntryHasLeader' /\ WaiterIsLed'
  BY DEF IInv, TypeOK, Await, EntryHasLeader, WaiterIsLed
<1> QED BY <1>1, <1>2, <1>3, <1>4 DEF IInv

-----------------------------------------------------------------------------
\* Every step of every thread preserves the inductive invariant.
LEMMA NextIInv == IInv /\ [Next]_vars => IInv'
<1> SUFFICES ASSUME IInv, [Next]_vars PROVE IInv'
  OBVIOUS
<1>1. CASE UNCHANGED vars
  BY <1>1 DEF vars, IInv, TypeOK, LeaderOwnsEntry, EntryOfOneKey,
     OneLeaderPerCall, SameCallSameKey, PromiseFollowsLeader, EntryHasLeader,
     WaiterIsLed
<1>2. CASE Next
  <2> PICK t \in Threads :
          (\E k \in Keys : Join(t, k) \/ Lead(t, k)) \/ Proceed(t)
    BY <1>2 DEF Next
  <2>1. ASSUME NEW k \in Keys, Join(t, k) PROVE IInv'
    BY <2>1, JoinIInv
  <2>2. ASSUME NEW k \in Keys, Lead(t, k) PROVE IInv'
    BY <2>2, LeadIInv
  <2>3. CASE Proceed(t)
    BY <2>3, FuncReturnsIInv, FuncThrowsIInv, SetValueIInv, EraseIInv, AwaitIInv
       DEF Proceed
  <2> QED BY <2>1, <2>2, <2>3
<1> QED BY <1>1, <1>2

\* The inductive invariant holds in every reachable state of Do.
THEOREM InductiveInvariant == Spec => []IInv
<1> QED BY InitIInv, NextIInv, PTL DEF Spec

\* Type correctness of the state of SingleFlight (map_, futures and threads).
THEOREM TypeCorrectness == Spec => []TypeOK
<1>1. IInv => TypeOK
  BY DEF IInv
<1> QED BY <1>1, InductiveInvariant, PTL

\* For any number of threads and keys, at most one thread at a time is between
\* the registration of a key and its removal (line 1 of singleflight.h).
THEOREM OneExecution == Spec => []AtMostOneExecution
<1>1. IInv => AtMostOneExecution
  BY DEF IInv, AtMostOneExecution, LeaderOwnsEntry, OneLeaderPerCall
<1> QED BY <1>1, InductiveInvariant, PTL

\* map_.erase(key) at line 47 removes the entry of the thread that calls it,
\* although nothing in the code compares the Calls.
THEOREM EraseIsOwn == Spec => []EraseRemovesOwnCall
<1>1. IInv => EraseRemovesOwnCall
  BY DEF IInv, EraseRemovesOwnCall, LeaderOwnsEntry, Leading
<1> QED BY <1>1, InductiveInvariant, PTL

\* Threads that share a Call share its key.
THEOREM CallsAreKeyed == Spec => []SameCallSameKey
<1>1. IInv => SameCallSameKey
  BY DEF IInv
<1> QED BY <1>1, InductiveInvariant, PTL

\* What a waiter is about to return is what its leader is about to return.
THEOREM WaitersShareValue == Spec => []WaiterSeesLeadersValue
<1>1. IInv => WaiterSeesLeadersValue
  BY DEF IInv, WaiterSeesLeadersValue, PromiseFollowsLeader, Leading
<1> QED BY <1>1, InductiveInvariant, PTL

\* A waiter with an open future has a leader, unless func threw, and then its
\* Call is still registered and nobody leads it.
THEOREM WaitersAreLed == Spec => []WaiterHasLeader
<1>1. IInv => WaiterHasLeader
  <2> SUFFICES ASSUME IInv, NEW t \in Threads,
                      pc[t] = "wait", fut[call[t]] = Pending,
                      ~\E l \in Threads : pc[l] \in {"func", "set"} /\ call[l] = call[t]
               PROVE  MayThrow /\ Abandoned(call[t])
    BY DEF WaiterHasLeader
  <2>1. MayThrow
    BY DEF IInv, WaiterIsLed
  <2>2. map_[key[t]] = call[t] /\ key[t] \in Keys
    BY DEF IInv, TypeOK, PromiseFollowsLeader
  <2>3. \A l \in Threads : call[l] = call[t] => pc[l] # "erase"
    BY SentinelAssumption DEF IInv, PromiseFollowsLeader
  <2> QED BY <2>1, <2>2, <2>3 DEF Abandoned, Leading
<1> QED BY <1>1, InductiveInvariant, PTL

\* A promise that someone can read is fulfilled once and keeps its value.
THEOREM PromisesAreStable == Spec => PromiseSetOnce
<1> DEFINE Kept ==
        \A c \in Calls : ~Free(c) /\ fut[c] # Pending => fut'[c] = fut[c]
<1> DEFINE NotAgain ==
        \A c \in Calls : ~Free(c) /\ fut[c] # Pending =>
            \A t \in Threads : call[t] = c => ~SetValue(t)
<1>1. IInv /\ Next => Kept
  <2> SUFFICES ASSUME IInv, Next PROVE Kept
    OBVIOUS
  <2> PICK t \in Threads :
          (\E k \in Keys : Join(t, k) \/ Lead(t, k)) \/ Proceed(t)
    BY DEF Next
  <2>1. ASSUME NEW k \in Keys, Join(t, k) PROVE Kept
    BY <2>1 DEF Join
  <2>2. ASSUME NEW k \in Keys, Lead(t, k) PROVE Kept
    BY <2>2 DEF Lead, IInv, TypeOK
  <2>3. CASE SetValue(t)
    BY <2>3 DEF SetValue, IInv, TypeOK, PromiseFollowsLeader
  <2>4. CASE Proceed(t) /\ ~SetValue(t)
    BY <2>4 DEF Proceed, FuncReturns, FuncThrows, Erase, Await
  <2> QED BY <2>1, <2>2, <2>3, <2>4
<1>2. IInv => NotAgain
  BY DEF IInv, PromiseFollowsLeader, SetValue
<1>3. IInv /\ [Next]_vars =>
        [\A c \in Calls : ~Free(c) /\ fut[c] # Pending =>
            /\ fut'[c] = fut[c]
            /\ \A t \in Threads : call[t] = c => ~SetValue(t)]_vars
  BY <1>1, <1>2
<1> QED BY <1>3, InductiveInvariant, PTL DEF Spec, PromiseSetOnce

-----------------------------------------------------------------------------
\* The initial states of Do are initial states of Coalescing.
LEMMA InitRefines == Init => Abstract!AInit
<1> SUFFICES ASSUME Init PROVE Abstract!AInit
  OBVIOUS
<1> QED BY DEF Init, Role, Board, Got, Abstract!AInit

\* Entering Do, on either side of the lookup, is Board.
LEMMA EnterRefines ==
    ASSUME IInv, NEW t \in Threads, NEW k \in Keys, Join(t, k) \/ Lead(t, k)
    PROVE  Abstract!Board(t, k)
<1> USE SentinelAssumption DEF Role, Board, Got
<1>1. CASE Join(t, k)
  <2>1. Role' = [Role EXCEPT ![t] = "passenger"]
    BY <1>1 DEF Join, IInv, TypeOK
  <2>2. Board[k] # NoCall /\ Board' = Board
    BY <1>1 DEF Join, IInv, TypeOK
  <2>3. Got' = [Got EXCEPT ![t] = Board[k]]
    BY <1>1 DEF Join, IInv, TypeOK
  <2> HIDE DEF Role, Board, Got
  <2>4. Role[t] = "out"
    BY <1>1 DEF Join, Role
  <2> QED BY <1>1, <2>1, <2>2, <2>3, <2>4 DEF Join, Abstract!Board
<1>2. CASE Lead(t, k)
  <2> PICK c \in Calls :
          /\ Free(c)
          /\ map_' = [map_ EXCEPT ![k] = c]
          /\ fut' = [fut EXCEPT ![c] = Pending]
          /\ call' = [call EXCEPT ![t] = c]
    BY <1>2 DEF Lead
  <2>1. Role' = [Role EXCEPT ![t] = "pilot"]
    BY <1>2 DEF Lead, IInv, TypeOK
  <2>2. Board[k] = NoCall /\ Board' = [Board EXCEPT ![k] = Pending]
    <3>1. Board[k] = NoCall /\ Board'[k] = Pending
      BY <1>2 DEF Lead, IInv, TypeOK
    <3>2. ASSUME NEW j \in Keys, j # k PROVE Board'[j] = Board[j]
      <4>1. map_'[j] = map_[j] /\ map_[j] # c
        BY <3>2 DEF Free, IInv, TypeOK
      <4> QED BY <4>1 DEF IInv, TypeOK
    <3>3. Board' = [j \in Keys |-> Board'[j]] /\ Board = [j \in Keys |-> Board[j]]
      OBVIOUS
    <3> HIDE DEF Board
    <3> QED BY <3>1, <3>2, <3>3
  <2>3. Got' = [Got EXCEPT ![t] = Pending]
    <3>1. Got'[t] = Pending
      BY <1>2 DEF Lead, IInv, TypeOK
    <3>2. ASSUME NEW s \in Threads, s # t PROVE Got'[s] = Got[s]
      BY <1>2, <3>2 DEF Lead, Free, IInv, TypeOK
    <3> QED BY <3>1, <3>2, ZenonT(60)
  <2> HIDE DEF Role, Board, Got
  <2>4. Role[t] = "out"
    BY <1>2 DEF Lead, Role
  <2> QED BY <1>2, <2>1, <2>2, <2>3, <2>4 DEF Lead, Abstract!Board
<1> QED BY <1>1, <1>2

\* The return of func changes nothing the callers can see.
LEMMA FuncReturnsRefines ==
    ASSUME IInv, NEW t \in Threads, NEW r \in Results, FuncReturns(t, r)
    PROVE  UNCHANGED Abstract!avars
<1>1. Role' = Role
  BY DEF FuncReturns, IInv, TypeOK, Role
<1>2. Board' = Board
  BY DEF FuncReturns, Board
<1>3. Got' = Got
  BY DEF FuncReturns, IInv, TypeOK, PromiseFollowsLeader, Got
<1> QED BY <1>1, <1>2, <1>3 DEF FuncReturns, Abstract!avars

\* Fulfilling the promise reaches every waiter of the key: a waiter with an
\* open future of the same key must hold the same Call.
LEMMA SetValueRefines ==
    ASSUME IInv, NEW t \in Threads, SetValue(t)
    PROVE  Abstract!Land(t, val[t])
<1> USE SentinelAssumption DEF Leading
<1>1. Role[t] = "pilot" /\ Got[t] = Pending /\ Role' = Role
  BY DEF SetValue, IInv, TypeOK, Role, Got
<1>2. Board' = [Board EXCEPT ![key[t]] = val[t]]
  <2>1. \A k \in Keys : map_[k] = call[t] <=> k = key[t]
    BY DEF SetValue, IInv, TypeOK, LeaderOwnsEntry, EntryOfOneKey
  <2> QED BY <2>1 DEF SetValue, IInv, TypeOK, Board
<1>3. ASSUME NEW s \in Threads
      PROVE  Got'[s] = IF Role[s] # "out" /\ key[s] = key[t] /\ Got[s] = Pending
                       THEN val[t] ELSE Got[s]
  <2>1. map_[key[t]] = call[t] /\ call[t] \in Calls /\ fut[call[t]] = Pending
    BY DEF SetValue, IInv, TypeOK, LeaderOwnsEntry, PromiseFollowsLeader
  <2>2. CASE pc[s] = "wait"
    <3>1. key[s] = key[t] /\ Got[s] = Pending <=> call[s] = call[t]
      BY <2>1, <2>2
         DEF SetValue, IInv, TypeOK, PromiseFollowsLeader, SameCallSameKey, Got
    <3>2. Got'[s] = fut'[call[s]] /\ call[s] \in Calls
      BY <2>2 DEF SetValue, IInv, TypeOK, Got
    <3> QED BY <2>1, <2>2, <3>1, <3>2 DEF SetValue, IInv, TypeOK, Role, Got
  <2>3. CASE pc[s] \in Leading
    <3>1. key[s] = key[t] <=> s = t
      BY <2>1, <2>3 DEF SetValue, IInv, LeaderOwnsEntry, OneLeaderPerCall
    <3>2. s # t => Got'[s] = Got[s]
      BY <2>3 DEF SetValue, IInv, TypeOK, Got
    <3>3. Got'[t] = val[t]
      BY DEF SetValue, IInv, TypeOK, Got
    <3> QED BY <1>1, <3>1, <3>2, <3>3
  <2>4. CASE pc[s] = "idle"
    BY <2>4 DEF SetValue, IInv, TypeOK, Role, Got
  <2> QED BY <2>2, <2>3, <2>4 DEF IInv, TypeOK
<1>4. Got' = [s \in Threads |->
                  IF Role[s] # "out" /\ key[s] = key[t] /\ Got[s] = Pending
                  THEN val[t] ELSE Got[s]]
  BY <1>3 DEF Got
<1> QED BY <1>1, <1>2, <1>4 DEF SetValue, Abstract!Land

\* Erasing the entry is Close.
LEMMA EraseRefines ==
    ASSUME IInv, NEW t \in Threads, Erase(t)
    PROVE  Abstract!Close(t)
<1> USE SentinelAssumption
<1>1. Role[t] = "pilot" /\ Role' = [Role EXCEPT ![t] = "out"]
  BY DEF Erase, IInv, TypeOK, Role
<1>2. Board' = [Board EXCEPT ![key[t]] = NoCall]
  BY DEF Erase, IInv, TypeOK, Board
<1>3. Got[t] # Pending /\ Got' = Got
  BY DEF Erase, IInv, TypeOK, PromiseFollowsLeader, Got
<1> QED BY <1>1, <1>2, <1>3 DEF Erase, Abstract!Close

\* The return of a waiter is Leave.
LEMMA AwaitRefines ==
    ASSUME IInv, NEW t \in Threads, Await(t)
    PROVE  Abstract!Leave(t)
<1> USE SentinelAssumption
<1>1. Role[t] = "passenger" /\ Role' = [Role EXCEPT ![t] = "out"]
  BY DEF Await, IInv, TypeOK, Role
<1>2. Got[t] # Pending /\ Got' = Got /\ Board' = Board
  BY DEF Await, IInv, TypeOK, Got, Board
<1> QED BY <1>1, <1>2 DEF Await, Abstract!Leave

\* An exception out of func is Eject.
LEMMA FuncThrowsRefines ==
    ASSUME IInv, NEW t \in Threads, FuncThrows(t)
    PROVE  Abstract!Eject(t)
<1> USE SentinelAssumption
<1>1. Role[t] = "pilot" /\ Role' = [Role EXCEPT ![t] = "out"]
  BY DEF FuncThrows, IInv, TypeOK, Role
<1>2. Got[t] = Pending /\ Got' = Got /\ Board' = Board
  BY DEF FuncThrows, IInv, TypeOK, PromiseFollowsLeader, Got, Board
<1> QED BY <1>1, <1>2 DEF FuncThrows, Abstract!Eject

\* SingleFlight implements Coalescing, for any number of threads and keys.
THEOREM Refinement == Spec => Coalesces
<1>1. IInv /\ [Next]_vars => [Abstract!ANext]_Abstract!avars
  <2> SUFFICES ASSUME IInv, [Next]_vars PROVE [Abstract!ANext]_Abstract!avars
    OBVIOUS
  <2>1. CASE UNCHANGED vars
    BY <2>1 DEF vars, Role, Board, Got, Abstract!avars
  <2>2. CASE Next
    <3> PICK t \in Threads :
            (\E k \in Keys : Join(t, k) \/ Lead(t, k)) \/ Proceed(t)
      BY <2>2 DEF Next
    <3>1. ASSUME NEW k \in Keys, Join(t, k) \/ Lead(t, k) PROVE Abstract!ANext
      BY <3>1, EnterRefines DEF Abstract!ANext
    <3>2. ASSUME NEW r \in Results, FuncReturns(t, r) PROVE UNCHANGED Abstract!avars
      BY <3>2, FuncReturnsRefines
    <3>3. CASE SetValue(t)
      <4>1. val[t] \in Results
        BY <3>3 DEF IInv, PromiseFollowsLeader, SetValue
      <4>2. Abstract!Land(t, val[t])
        BY <3>3, SetValueRefines
      <4> QED BY <4>1, <4>2 DEF Abstract!ANext
    <3>4. CASE Erase(t)
      BY <3>4, EraseRefines DEF Abstract!ANext
    <3>5. CASE Await(t)
      BY <3>5, AwaitRefines DEF Abstract!ANext
    <3>6. CASE FuncThrows(t)
      BY <3>6, FuncThrowsRefines DEF Abstract!ANext
    <3> QED BY <3>1, <3>2, <3>3, <3>4, <3>5, <3>6 DEF Proceed
  <2> QED BY <2>1, <2>2
<1> QED BY InitRefines, <1>1, InductiveInvariant, PTL
        DEF Spec, Coalesces, Abstract!ASpec
=============================================================================
