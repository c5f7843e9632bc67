--------------------------- MODULE SessionHistory ---------------------------
(***************************************************************************)
(* NetdiskSession with what an observer remembers: the users whose online  *)
(* flag is blurred, since something befell them that a single flag per     *)
(* user cannot express, and they have not logged in afresh since; and the  *)
(* friendships that were ended for good.  The history constrains no step.  *)
(***************************************************************************)
EXTENDS NetdiskSession

VARIABLES
    blurred,
    ended       \* the pairs of which one deleted the other, with no question
                \* between them open then or asked since

shVars == <<sessionVars, blurred, ended>>

Sessions(u) == {s \in Sockets : m_strLoginName[s] = u}

SHInit == SessionInit /\ blurred = {} /\ ended = {}

-----------------------------------------------------------------------------
\* Two sockets have the same user's name.
Doubled == {u \in Users : \E s, r \in Sessions(u)' : s # r}

\* Their socket took another name, and stayed.
Renamed == {u \in Users : \E s \in Sessions(u) :
                peer'[s] = "here" /\ m_strLoginName'[s] # u}

\* They were logged in by a read that ended with another login.
Overtaken == {u \in Users : \E s \in Sockets :
                /\ u \in Range(unread[s])
                /\ unread'[s] = <<>> /\ m_strLoginName'[s] \notin {u, NoName}}

\* Their peer went and no one was told.
Vanished == {u \in Users : \E s \in Sessions(u) : peer'[s] # peer[s] /\ peer'[s] = "gone"}

\* They have just logged in, and are in no other socket.
Afresh == {u \in Users : \E s \in Sockets :
                s \notin Sessions(u) /\ Sessions(u)' = {s}}

Deleted == {{m_strLoginName[p[1]], p[2]} : p \in
                {q \in Sockets \X Users : DelFriend(q[1], q[2])}}
Asked == {{d[1], d[2]} : d \in dialogs'}

SHNext ==
    /\ \/ /\ Served
          /\ blurred' = (blurred \ Afresh) \cup Doubled \cup Renamed \cup Overtaken
                            \cup Vanished
       \/ \E s \in Sockets :
            /\ OfflineFails(s)
            /\ blurred' = blurred \cup ({m_strLoginName[s]} \cap Users)
       \/ /\ Restart
          /\ blurred' = blurred \cup online
    /\ ended' = (ended \cup Deleted) \ Asked

SHSpec == SHInit /\ [][SHNext]_shVars

-----------------------------------------------------------------------------
(* The column online of user_info, from which onlineUser, flushFriend and  *)
(* addFriend answer, is set for exactly those users whom resend reaches:   *)
(* a socket has their name, and there is a client at its other end.        *)
FlagTellsPresence ==
    \A u \in Users \ blurred :
        u \in online <=> \E s \in Recipients(u) : peer[s] = "here"

(* Deleting a friend is the end of it, whoever of the two had asked, and   *)
(* even if both had asked each other at once, until one of them asks again *)
(* (a question that was open at the time can still be answered with yes).  *)
EndedIsOver == \A a, b \in Users : {a, b} \in ended => ~AreFriends(a, b)
=============================================================================
