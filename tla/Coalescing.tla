----------------------------- MODULE Coalescing -----------------------------
(***************************************************************************)
(* What SingleFlight promises its callers, without Call objects, futures   *)
(* or steps between the critical sections: per key there is a board that   *)
(* is closed, announces an execution, or shows its result.  The caller     *)
(* that finds the board closed pilots the execution; whoever finds it open *)
(* is a passenger; the result reaches every passenger of the key in one    *)
(* step.  A pilot whose function throws leaves the board as it is.         *)
(***************************************************************************)
CONSTANTS Callers, Keys, Results, Closed, Pending, MayThrow

VARIABLES
    board,  \* board[k]: Closed, Pending, or the result of the execution
    role,   \* role[t]: "out", "pilot" or "passenger"
    want,   \* want[t]: the key t asked for
    got     \* got[t]: the result that reached t in its last call

avars == <<board, role, want, got>>

AInit ==
    /\ board = [k \in Keys |-> Closed]
    /\ role = [t \in Callers |-> "out"]
    /\ want \in [Callers -> Keys]
    /\ got = [t \in Callers |-> Pending]

Board(t, k) ==
    /\ role[t] = "out"
    /\ want' = [want EXCEPT ![t] = k]
    /\ \/ /\ board[k] = Closed
          /\ role' = [role EXCEPT ![t] = "pilot"]
          /\ got' = [got EXCEPT ![t] = Pending]
          /\ board' = [board EXCEPT ![k] = Pending]
       \/ /\ board[k] # Closed
          /\ role' = [role EXCEPT ![t] = "passenger"]
          /\ got' = [got EXCEPT ![t] = board[k]]
          /\ UNCHANGED board

\* The result reaches the pilot and everyone who still waits for the key.
Land(t, r) ==
    /\ role[t] = "pilot"
    /\ got[t] = Pending
    /\ board' = [board EXCEPT ![want[t]] = r]
    /\ got' = [s \in Callers |->
                  IF role[s] # "out" /\ want[s] = want[t] /\ got[s] = Pending
                  THEN r ELSE got[s]]
    /\ UNCHANGED <<role, want>>

\* The pilot closes the board behind it.
Close(t) ==
    /\ role[t] = "pilot"
    /\ got[t] # Pending
    /\ board' = [board EXCEPT ![want[t]] = Closed]
    /\ role' = [role EXCEPT ![t] = "out"]
    /\ UNCHANGED <<want, got>>

Leave(t) ==
    /\ role[t] = "passenger"
    /\ got[t] # Pending
    /\ role' = [role EXCEPT ![t] = "out"]
    /\ UNCHANGED <<board, want, got>>

\* The function throws: the pilot is gone, the board still announces it.
Eject(t) ==
    /\ MayThrow
    /\ role[t] = "pilot"
    /\ got[t] = Pending
    /\ role' = [role EXCEPT ![t] = "out"]
    /\ UNCHANGED <<board, want, got>>

ANext ==
    \E t \in Callers :
        \/ \E k \in Keys : Board(t, k)
        \/ \E r \in Results : Land(t, r)
        \/ Close(t) \/ Leave(t) \/ Eject(t)

ASpec == AInit /\ [][ANext]_avars
=============================================================================
