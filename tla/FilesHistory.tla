---------------------------- MODULE FilesHistory ----------------------------
(***************************************************************************)
(* NetdiskFiles with what properties cannot be stated without: who was     *)
(* hasty, and who was not told of a change.  The history constrains no     *)
(* step.                                                                   *)
(***************************************************************************)
EXTENDS NetdiskFiles

VARIABLES
    hasty,          \* the users that clicked before all answers had come
    unaware         \* the users that an operation failed for after it had
                    \* changed something, or in whose directory another user's
                    \* operation made something, until their list is made again

fhVars == <<filesVars, hasty, unaware>>

FHInit == FilesInit /\ hasty = {} /\ unaware = {}

Clicked == {u \in Acting : acts' # acts /\ requests'[u] # requests[u]}
Served(u, op) == Asked(u, op) /\ requests'[u] = Tail(requests[u])
Changing == {"mkdir", "delDir", "renameFile", "mvFile", "agree"}

HalfDone(u) == \E op \in Changing : Served(u, op) /\ fs' # fs /\ ~Last(answers'[u])[2]
Visited(u) ==
    \E v \in Users \ {u} :
        /\ \E op \in Changing : Served(v, op)
        /\ \E q \in DOMAIN fs' \ DOMAIN fs : q[1] = u

Observe ==
    /\ hasty' = hasty \cup {u \in Clicked : Pending(u) > 0}
    /\ unaware' =
        {u \in Users :
            ~Served(u, "flushFile") /\ (u \in unaware \/ HalfDone(u) \/ Visited(u))}

FHNext == FilesNext /\ Observe

FHSpec == FHInit /\ [][FHNext]_fhVars

-----------------------------------------------------------------------------
(* A user for whom nothing is under way sees the directory the client is   *)
(* in as it is, whatever was clicked while answers were outstanding; but   *)
(* neither an operation that failed half way is shown, nor what another    *)
(* user made here with a name that leads out of the own directory.         *)
ShownIsReal ==
    \A u \in Users \ unaware :
        Pending(u) = 0 /\ ~undefined[u] => list[u] = Entries(m_strCurPath[u])

(* The list is asked for of a directory that exists, by all who wait for   *)
(* their answers and whose own directory could be made, whatever others    *)
(* do.  (A second double click on a list that is not the one of the        *)
(* directory entered is how to get the wrapped length otherwise.)          *)
PatientUsersAreSafe == \A u \in Users : undefined[u] => u \in hasty \/ ~IsDir(<<u>>)

CopyComplete(src, dest) ==
    \A q \in Under(src) :
        LET r == dest \o Within(src, q) IN r \in DOMAIN fs' /\ fs'[r] = fs[q]

(* Accepting a share copies: what was there stays as it is and what is new *)
(* is below the one new name; and when that name was free, the source and  *)
(* the user's directory are there and the file system has no fault, the    *)
(* copy is complete and reported as done, whatever the shape of the tree.  *)
SharesCopy ==
    [][\A u \in Users : Served(u, "agree") =>
        LET src == Arg(u, 1)
            dest == <<u, Last(src)>>
        IN  /\ \A q \in DOMAIN fs : q \in DOMAIN fs' /\ fs'[q] = fs[q]
            /\ \A q \in DOMAIN fs' \ DOMAIN fs : IsPrefix(dest, q)
            /\ IsDir(<<u>>) /\ Exists(src) /\ ~Exists(dest) /\ faults' = faults
                   /\ (\A q \in Under(src) : 2 + Len(q) - Len(src) <= MaxDepth)
               => CopyComplete(src, dest) /\ Last(answers'[u])[2]
      ]_fhVars
=============================================================================
