--------------------------- MODULE NetdiskSession ---------------------------
(***************************************************************************)
(* The sessions of the netdisk server: the sockets of MyTcpServer          *)
(* (src/Server/mytcpserver.cpp, clienttask.cpp, mytcpsocket.cpp), the      *)
(* handlers of MsgHandler (msghandler.cpp) that deal with users and        *)
(* friends, and the tables user_info and friend behind OperateDB           *)
(* (operatedb.cpp).                                                        *)
(*                                                                         *)
(* The sockets stay in the server's thread (only the thread that owns an   *)
(* object can move it, and a pool thread tries), so handlers run one after *)
(* the other and are one action each.  What does run beside them is        *)
(* ClientTask::run, which connects a socket's signals from a pool thread.  *)
(*                                                                         *)
(* The requests that change nothing (findUser, onlineUser, flushFriend and *)
(* chat) have no action.                                                   *)
(***************************************************************************)
EXTENDS Integers, FiniteSets, Sequences, Functions

CONSTANTS
    Users,
    Sockets,        \* the MyTcpSocket objects that exist at once
    NoName,         \* m_strLoginName is empty
    MaxUnread,      \* bound: logins that wait in a socket before it is hooked
    MaxQuestions    \* bound: a request is made only with fewer questions open

ASSUME SessionAssumption ==
    NoName \notin Users /\ MaxUnread \in Nat /\ MaxQuestions \in Nat

VARIABLES
    peer,           \* peer[s]: no socket ("none"), or its peer "here" or "gone"
    hooked,         \* hooked[s]: the signals of s that ClientTask connected
    unread,         \* unread[s]: the logins that arrived without readyRead
    m_strLoginName,
    user_info,      \* the users registered
    online,         \* those of them with online = 1
    friend,         \* the rows of the table friend
    dialogs         \* <<a, b, s>>: the client at s asks b whether a may be a friend

sessionVars == <<peer, hooked, unread, m_strLoginName, user_info, online, friend, dialogs>>
dbVars == <<user_info, online, friend>>

m_tcpSocketList == {s \in Sockets : peer[s] # "none"}

SessionInit ==
    /\ peer = [s \in Sockets |-> "none"]
    /\ hooked = [s \in Sockets |-> {}]
    /\ unread = [s \in Sockets |-> <<>>]
    /\ m_strLoginName = [s \in Sockets |-> NoName]
    /\ user_info = {}
    /\ online = {}
    /\ friend = {}
    /\ dialogs = {}

-----------------------------------------------------------------------------
(* incomingConnection: the socket is in the list before its task runs.     *)
IncomingConnection(s) ==
    /\ peer[s] = "none"
    /\ peer' = [peer EXCEPT ![s] = "here"]
    /\ UNCHANGED <<hooked, unread, m_strLoginName, dbVars, dialogs>>

(* ClientTask::run connects readyRead; data that is there already signals  *)
(* nothing any more.                                                       *)
HookReadyRead(s) ==
    /\ peer[s] # "none" /\ hooked[s] = {}
    /\ hooked' = [hooked EXCEPT ![s] = {"readyRead"}]
    /\ UNCHANGED <<peer, unread, m_strLoginName, dbVars, dialogs>>

(* ClientTask::run connects disconnected.                                  *)
HookDisconnected(s) ==
    /\ hooked[s] = {"readyRead"}
    /\ hooked' = [hooked EXCEPT ![s] = {"readyRead", "disconnected"}]
    /\ UNCHANGED <<peer, unread, m_strLoginName, dbVars, dialogs>>

(* regist, handleRegist: a name can be taken once.  That the user's        *)
(* directory is made next, which may fail unnoticed, concerns NetdiskFiles *)
(* alone: there a user may have no directory.                              *)
Regist(s, u) ==
    /\ peer[s] = "here" /\ hooked[s] # {}
    /\ u \notin user_info
    /\ user_info' = user_info \cup {u}
    /\ UNCHANGED <<peer, hooked, unread, m_strLoginName, online, friend, dialogs>>

(* A login arrives before readyRead is connected: nobody reads it until    *)
(* something else arrives.                                                 *)
LoginUnread(s, u) ==
    /\ peer[s] = "here" /\ hooked[s] = {}
    /\ Len(unread[s]) < MaxUnread
    /\ unread' = [unread EXCEPT ![s] = Append(@, u)]
    /\ UNCHANGED <<peer, hooked, m_strLoginName, dbVars, dialogs>>

\* The logins there are to read, with u as the last, and handleLogin: the
\* places of those that succeed.
Logins(s, u) == Append(unread[s], u)
handleLogin(s, u) == {i \in DOMAIN Logins(s, u) : Logins(s, u)[i] \in user_info}

\* A bug: the name is noted whether or not the login succeeds.
LoginAnyway(s, u) ==
    /\ peer[s] = "here" /\ hooked[s] # {}
    /\ online' = online \cup {Logins(s, u)[i] : i \in handleLogin(s, u)}
    /\ m_strLoginName' = [m_strLoginName EXCEPT ![s] = u]
    /\ unread' = [unread EXCEPT ![s] = <<>>]
    /\ UNCHANGED <<peer, hooked, user_info, friend, dialogs>>

(* A login arrives, and recvMsg handles all that is there: each one that   *)
(* succeeds sets the flag and renames the socket.                          *)
Login(s, u) ==
    /\ peer[s] = "here" /\ hooked[s] # {}
    /\ online' = online \cup {Logins(s, u)[i] : i \in handleLogin(s, u)}
    /\ \/ handleLogin(s, u) = {} /\ UNCHANGED m_strLoginName
       \/ \E last \in handleLogin(s, u) :
             /\ \A i \in handleLogin(s, u) : i <= last
             /\ m_strLoginName' = [m_strLoginName EXCEPT ![s] = Logins(s, u)[last]]
    /\ unread' = [unread EXCEPT ![s] = <<>>]
    /\ UNCHANGED <<peer, hooked, user_info, friend, dialogs>>

\* deleteSocket, on the signal disconnected; the questions asked of its client
\* go with the client.
DeleteSocket(s) ==
    /\ peer[s] = "here" /\ "disconnected" \in hooked[s]
    /\ peer' = [peer EXCEPT ![s] = "none"]
    /\ hooked' = [hooked EXCEPT ![s] = {}]
    /\ unread' = [unread EXCEPT ![s] = <<>>]
    /\ m_strLoginName' = [m_strLoginName EXCEPT ![s] = NoName]
    /\ dialogs' = {d \in dialogs : d[3] # s}
    /\ UNCHANGED <<user_info, friend>>

\* A bug: the flag is not cleared.
ClientOfflineSilently(s) == DeleteSocket(s) /\ UNCHANGED online

(* clientOffline: handleOffline clears the flag of the socket's name,      *)
(* whoever else has that name.                                             *)
ClientOffline(s) == DeleteSocket(s) /\ online' = online \ {m_strLoginName[s]}

(* clientOffline, when the UPDATE of handleOffline fails: nobody looks at  *)
(* its result, and the socket goes all the same.                           *)
OfflineFails(s) == DeleteSocket(s) /\ UNCHANGED online

(* The peer goes before disconnected is connected: the socket stays in the *)
(* list for good.                                                          *)
PeerGoesUnseen(s) ==
    /\ peer[s] = "here" /\ "disconnected" \notin hooked[s]
    /\ peer' = [peer EXCEPT ![s] = "gone"]
    /\ dialogs' = {d \in dialogs : d[3] # s}
    /\ UNCHANGED <<hooked, unread, m_strLoginName, dbVars>>

-----------------------------------------------------------------------------
\* resend writes to every socket of that name.
Recipients(u) == {s \in m_tcpSocketList : m_strLoginName[s] = u}

AreFriends(a, b) == {<<a, b>>, <<b, a>>} \cap friend # {}

\* handleAddFriend's answer.
AddFriendAnswer(a, b) ==
    IF AreFriends(a, b) THEN -2
    ELSE IF b \notin user_info THEN -1
    ELSE IF b \in online THEN 1 ELSE 0

\* The client at s has logged in, and names itself in its requests.
Requests(s) == peer[s] = "here" /\ hooked[s] # {} /\ m_strLoginName[s] # NoName

(* addFriend: the request is passed on when the flag says b is online; the *)
(* clients it reaches ask their users.                                     *)
AddFriend(s, b) ==
    /\ Requests(s) /\ Cardinality(dialogs) < MaxQuestions
    /\ AddFriendAnswer(m_strLoginName[s], b) = 1
    /\ dialogs' = dialogs \cup
           {<<m_strLoginName[s], b, r>> : r \in {q \in Recipients(b) : peer[q] = "here"}}
    /\ UNCHANGED <<peer, hooked, unread, m_strLoginName, dbVars>>

(* addFriendAgree, after the user's yes: a row, whatever has happened      *)
(* since the question.  A client asks one question at a time; the model    *)
(* lets its user answer them in any order.                                 *)
AddFriendAgree(d) ==
    /\ d \in dialogs
    /\ friend' = friend \cup {<<d[1], d[2]>>}
    /\ dialogs' = dialogs \ {d}
    /\ UNCHANGED <<peer, hooked, unread, m_strLoginName, user_info, online>>

(* The user says no; the server hears nothing of it.                       *)
Decline(d) ==
    /\ d \in dialogs
    /\ dialogs' = dialogs \ {d}
    /\ UNCHANGED <<peer, hooked, unread, m_strLoginName, dbVars>>

\* A bug: only the row of this direction is deleted.
handleDelFriendOneWay(a, b) == friend \ {<<a, b>>}

\* handleDelFriend deletes the rows of both directions.
handleDelFriend(a, b) == friend \ {<<a, b>>, <<b, a>>}

(* delFriend of users that are friends, in whatever direction.             *)
DelFriend(s, b) ==
    /\ Requests(s) /\ AreFriends(m_strLoginName[s], b)
    /\ friend' = handleDelFriend(m_strLoginName[s], b)
    /\ UNCHANGED <<peer, hooked, unread, m_strLoginName, user_info, online, dialogs>>

(* The server ends and starts again: the database keeps everything, the    *)
(* flags too.                                                              *)
Restart ==
    /\ peer' = [s \in Sockets |-> "none"]
    /\ hooked' = [s \in Sockets |-> {}]
    /\ unread' = [s \in Sockets |-> <<>>]
    /\ m_strLoginName' = [s \in Sockets |-> NoName]
    /\ dialogs' = {}
    /\ UNCHANGED dbVars

\* What happens while the server runs and the database does what it is told.
Served ==
    \/ \E s \in Sockets :
        \/ IncomingConnection(s) \/ HookReadyRead(s) \/ HookDisconnected(s)
        \/ ClientOffline(s) \/ PeerGoesUnseen(s)
        \/ \E u \in Users :
            \/ Regist(s, u) \/ LoginUnread(s, u) \/ Login(s, u)
            \/ AddFriend(s, u) \/ DelFriend(s, u)
    \/ \E d \in dialogs : AddFriendAgree(d) \/ Decline(d)

SessionNext == Served \/ (\E s \in Sockets : OfflineFails(s)) \/ Restart
SessionSpec == SessionInit /\ [][SessionNext]_sessionVars

-----------------------------------------------------------------------------
(* The type invariant: a socket has a name only once it was read from.     *)
SessionTypeOK ==
    /\ peer \in [Sockets -> {"none", "here", "gone"}]
    /\ hooked \in [Sockets -> {{}, {"readyRead"}, {"readyRead", "disconnected"}}]
    /\ unread \in [Sockets -> Seq(Users)]
    /\ m_strLoginName \in [Sockets -> user_info \cup {NoName}]
    /\ user_info \subseteq Users
    /\ online \subseteq user_info
    /\ friend \subseteq user_info \X user_info
    /\ dialogs \subseteq Users \X Users \X m_tcpSocketList
    /\ \A s \in Sockets : m_strLoginName[s] # NoName => hooked[s] # {}
=============================================================================
