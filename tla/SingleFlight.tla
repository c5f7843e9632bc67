---------------------------- MODULE SingleFlight ----------------------------
(***************************************************************************)
(* kcache::SingleFlight (src/src/include/kcache/singleflight.h):           *)
(* concurrent calls of Do for one key execute the user function once; the  *)
(* thread that finds no entry in map_ leads, the ones that find one wait   *)
(* on its future.                                                          *)
(*                                                                         *)
(* A thread passes through one critical section when it enters Do and, if  *)
(* it leads, through another when it erases the entry.  Between the two it *)
(* runs func and fulfils the promise without the lock, so these are steps  *)
(* of their own.                                                           *)
(***************************************************************************)
CONSTANTS
    Threads,    \* the threads that call Do
    Keys,       \* the keys they call it with
    Calls,      \* the addresses a Call object can have
    Results,    \* what func may return
    NoCall,     \* no Call object: the key is not in map_
    Pending,    \* the shared state of a promise that is not fulfilled
    MayThrow    \* whether func can leave by an exception

ASSUME SentinelAssumption ==
    NoCall \notin Calls /\ Pending \notin Results /\ NoCall \notin Results \cup {Pending}
ASSUME MayThrowAssumption == MayThrow \in BOOLEAN

VARIABLES
    map_,   \* map_[k]: the Call registered for k, or NoCall
    fut,    \* fut[c]: what the future of c holds
    pc,     \* pc[t]: where in Do thread t is
    key,    \* key[t]: the key t called Do with
    call,   \* call[t]: the Call t holds a shared_ptr to (new_call, existing_call)
    val     \* val[t]: the value of func, and then what Do returned (or Pending)

vars == <<map_, fut, pc, key, call, val>>

Leading == {"func", "set", "erase"}

\* A Call is freed when neither the map nor a thread refers to it.
Free(c) == (\A k \in Keys : map_[k] # c) /\ (\A t \in Threads : call[t] # c)

Init ==
    /\ map_ = [k \in Keys |-> NoCall]
    /\ fut = [c \in Calls |-> Pending]
    /\ pc = [t \in Threads |-> "idle"]
    /\ key \in [Threads -> Keys]
    /\ call = [t \in Threads |-> NoCall]
    /\ val = [t \in Threads |-> Pending]

-----------------------------------------------------------------------------
(* Lines 24-34: under the lock the key is found, and the thread waits.     *)
Join(t, k) ==
    /\ pc[t] = "idle"
    /\ map_[k] # NoCall
    /\ pc' = [pc EXCEPT ![t] = "wait"]
    /\ key' = [key EXCEPT ![t] = k]
    /\ call' = [call EXCEPT ![t] = map_[k]]
    /\ val' = [val EXCEPT ![t] = Pending]
    /\ UNCHANGED <<map_, fut>>

\* A bug: the lookup and the registration are not one critical section.
LeadUnchecked(t, k) ==
    /\ pc[t] = "idle"
    /\ \E c \in Calls :
        /\ Free(c)
        /\ map_' = [map_ EXCEPT ![k] = c]
        /\ fut' = [fut EXCEPT ![c] = Pending]
        /\ call' = [call EXCEPT ![t] = c]
    /\ pc' = [pc EXCEPT ![t] = "func"]
    /\ key' = [key EXCEPT ![t] = k]
    /\ val' = [val EXCEPT ![t] = Pending]

(* Lines 24-39: under the lock the key is not found; a new Call with an    *)
(* unfulfilled promise is registered.                                      *)
Lead(t, k) ==
    /\ pc[t] = "idle"
    /\ map_[k] = NoCall
    /\ \E c \in Calls :
        /\ Free(c)
        /\ map_' = [map_ EXCEPT ![k] = c]
        /\ fut' = [fut EXCEPT ![c] = Pending]
        /\ call' = [call EXCEPT ![t] = c]
    /\ pc' = [pc EXCEPT ![t] = "func"]
    /\ key' = [key EXCEPT ![t] = k]
    /\ val' = [val EXCEPT ![t] = Pending]

(* Line 42: func returns a value.                                          *)
FuncReturns(t, r) ==
    /\ pc[t] = "func"
    /\ pc' = [pc EXCEPT ![t] = "set"]
    /\ val' = [val EXCEPT ![t] = r]
    /\ UNCHANGED <<map_, fut, key, call>>

(* Line 42: func throws.  Do is left at once: lines 43-47 do not run, and  *)
(* the map keeps the Call alive, so its promise is never even broken.      *)
FuncThrows(t) ==
    /\ MayThrow
    /\ pc[t] = "func"
    /\ pc' = [pc EXCEPT ![t] = "idle"]
    /\ call' = [call EXCEPT ![t] = NoCall]
    /\ UNCHANGED <<map_, fut, key, val>>

\* A bug: set_value is forgotten.
SetValueForgotten(t) ==
    /\ pc[t] = "set"
    /\ pc' = [pc EXCEPT ![t] = "erase"]
    /\ UNCHANGED <<map_, fut, key, call, val>>

(* Line 43: the promise is fulfilled; waiters become runnable.             *)
SetValue(t) ==
    /\ pc[t] = "set"
    /\ pc' = [pc EXCEPT ![t] = "erase"]
    /\ fut' = [fut EXCEPT ![call[t]] = val[t]]
    /\ UNCHANGED <<map_, key, call, val>>

\* A bug: the entry is never erased.
EraseForgotten(t) ==
    /\ pc[t] = "erase"
    /\ pc' = [pc EXCEPT ![t] = "idle"]
    /\ call' = [call EXCEPT ![t] = NoCall]
    /\ UNCHANGED <<map_, fut, key, val>>

(* Lines 46-49: under the lock again the entry of the key, whatever it is, *)
(* is erased, and Do returns.                                              *)
Erase(t) ==
    /\ pc[t] = "erase"
    /\ pc' = [pc EXCEPT ![t] = "idle"]
    /\ map_' = [map_ EXCEPT ![key[t]] = NoCall]
    /\ call' = [call EXCEPT ![t] = NoCall]
    /\ UNCHANGED <<fut, key, val>>

\* A bug: the waiter does not let go of its Call.
AwaitHoldsOn(t) ==
    /\ pc[t] = "wait"
    /\ fut[call[t]] # Pending
    /\ pc' = [pc EXCEPT ![t] = "idle"]
    /\ val' = [val EXCEPT ![t] = fut[call[t]]]
    /\ UNCHANGED <<map_, fut, key, call>>

(* Lines 32-33: the future is ready; the waiter returns its value.         *)
Await(t) ==
    /\ pc[t] = "wait"
    /\ fut[call[t]] # Pending
    /\ pc' = [pc EXCEPT ![t] = "idle"]
    /\ val' = [val EXCEPT ![t] = fut[call[t]]]
    /\ call' = [call EXCEPT ![t] = NoCall]
    /\ UNCHANGED <<map_, fut, key>>

\* The steps of a thread that is inside Do.
Proceed(t) ==
    \/ \E r \in Results : FuncReturns(t, r)
    \/ FuncThrows(t)
    \/ SetValue(t)
    \/ Erase(t)
    \/ Await(t)

Next ==
    \E t \in Threads :
        \/ \E k \in Keys : Join(t, k) \/ Lead(t, k)
        \/ Proceed(t)

Spec == Init /\ [][Next]_vars

(* A thread inside Do is scheduled again and again, and func comes to an   *)
(* end; nothing makes a thread call Do.                                    *)
FairSpec == Spec /\ \A t \in Threads : WF_vars(Proceed(t))

-----------------------------------------------------------------------------
(* The type invariant: every variable stays in its domain (a leader always *)
(* holds a Call, so SetValue and Await never dereference NoCall).          *)
TypeOK ==
    /\ map_ \in [Keys -> Calls \cup {NoCall}]
    /\ fut \in [Calls -> Results \cup {Pending}]
    /\ pc \in [Threads -> {"idle", "wait"} \cup Leading]
    /\ key \in [Threads -> Keys]
    /\ call \in [Threads -> Calls \cup {NoCall}]
    /\ val \in [Threads -> Results \cup {Pending}]
    /\ \A t \in Threads : pc[t] = "idle" <=> call[t] = NoCall

(* The promise of the class (comment at line 1): at no time are two        *)
(* threads executing func, publishing its result or retiring the entry for *)
(* the same key.                                                           *)
AtMostOneExecution ==
    \A s, t \in Threads :
        /\ pc[s] \in Leading /\ pc[t] \in Leading
        /\ key[s] = key[t]
        => s = t

(* Line 47 erases by key and does not look whose Call the entry holds: a   *)
(* leader must never remove the entry of a later leader of the same key.   *)
EraseRemovesOwnCall ==
    \A t \in Threads : pc[t] = "erase" => map_[key[t]] = call[t]

(* Threads that hold the same Call asked for the same key: nobody waits    *)
(* for, and returns, the value of another key.                             *)
SameCallSameKey ==
    \A s, t \in Threads :
        /\ call[s] = call[t] /\ call[s] # NoCall
        => key[s] = key[t]

\* An exception left Call c behind: it is registered and nobody leads it.
Abandoned(c) ==
    /\ \E k \in Keys : map_[k] = c
    /\ \A t \in Threads : call[t] = c => pc[t] \notin Leading

(* A waiter whose future is not ready has a leader still on the way to     *)
(* fulfil it, so that the wake-up at line 43 is never missed; only an      *)
(* exception leaves a waiter without one.                                  *)
WaiterHasLeader ==
    \A t \in Threads :
        pc[t] = "wait" /\ fut[call[t]] = Pending =>
            \/ \E l \in Threads : pc[l] \in {"func", "set"} /\ call[l] = call[t]
            \/ MayThrow /\ Abandoned(call[t])

(* A promise is fulfilled at most once (a second set_value would throw out *)
(* of Do before line 47) and its value never changes while anyone can      *)
(* still read it.                                                          *)
PromiseSetOnce ==
    [][\A c \in Calls : ~Free(c) /\ fut[c] # Pending =>
          /\ fut'[c] = fut[c]
          /\ \A t \in Threads : call[t] = c => ~SetValue(t)]_vars

(* Waiters reuse the result of the execution they joined: what Do returns  *)
(* to a waiter is what the leader of that Call returns, when the leader    *)
(* has not returned yet.                                                   *)
WaiterSeesLeadersValue ==
    \A t, l \in Threads :
        /\ pc[t] = "wait" /\ fut[call[t]] # Pending
        /\ pc[l] \in Leading /\ call[l] = call[t]
        => pc[l] = "erase" /\ fut[call[t]] = val[l]

(* The refinement: futures, Calls and the gap between the two critical     *)
(* sections implement boards on which a result reaches every waiter of its *)
(* key at once.                                                            *)
Role == [t \in Threads |->
            CASE pc[t] = "idle" -> "out"
              [] pc[t] = "wait" -> "passenger"
              [] OTHER -> "pilot"]
Board == [k \in Keys |-> IF map_[k] = NoCall THEN NoCall ELSE fut[map_[k]]]
Got == [t \in Threads |->
           CASE pc[t] = "wait" -> fut[call[t]]
             [] pc[t] = "set" -> Pending
             [] OTHER -> val[t]]

Abstract == INSTANCE Coalescing WITH
    Callers <- Threads, Closed <- NoCall,
    want <- key, role <- Role, board <- Board, got <- Got

\* Do coalesces concurrent calls (comment at line 1), as Coalescing states it.
Coalesces == Abstract!ASpec

(* Every call of Do returns, to leaders and waiters alike, unless the func *)
(* it waits for threw an exception.                                        *)
DoReturns ==
    \A t \in Threads : pc[t] # "idle" ~> pc[t] = "idle" \/ Abandoned(call[t])

(* The comment at line 45, "make sure the entry is removed from the map":  *)
(* the entry of every Call is eventually erased.                           *)
EntryEventuallyRemoved ==
    \A k \in Keys, c \in Calls : map_[k] = c ~> map_[k] # c
=============================================================================
