---------------------------- MODULE NetdiskProofs ---------------------------
(***************************************************************************)
(* Proofs about the netdisk server, for any users and sockets and any      *)
(* files and uploader threads.  First NetdiskSession: when the online flag *)
(* can be trusted, and that a friendship that was ended is over.  Then     *)
(* NetdiskUpload: what the answer TRUE means, and when it comes.  The two  *)
(* share no state.                                                         *)
(***************************************************************************)
EXTENDS SessionHistory, UploadHistory, SequenceTheorems, TLAPS

\* A socket that is not in the list has no signals.
Unhooked == \A s \in Sockets : peer[s] = "none" => hooked[s] = {}

\* Whoever asks, or is asked, to be a friend is registered.
Registered == \A d \in dialogs : d[1] \in user_info /\ d[2] \in user_info

\* The types, with what they need to be inductive.
SessionInv == SessionTypeOK /\ Unhooked /\ Registered

\* A user whose flag is not blurred has at most one session, with a client at
\* its other end, and the flag tells whether they have it.
FlagOK(u) ==
    /\ \A s, r \in Sessions(u) : s = r
    /\ \A s \in Sessions(u) : peer[s] = "here"
    /\ u \in online <=> Sessions(u) # {}

PresenceInv == SessionInv /\ \A u \in Users \ blurred : FlagOK(u)

\* Between two users whose friendship was ended there is no row, and no
\* question that could bring one back.
EndedInv ==
    \A a, b \in Users : {a, b} \in ended =>
        /\ <<a, b>> \notin friend
        /\ \A d \in dialogs : {d[1], d[2]} # {a, b}

-----------------------------------------------------------------------------
\* The logins there are to read are names of users; all but the last were
\* unread before.
LEMMA LoginsRead ==
    ASSUME SessionTypeOK, NEW s \in Sockets, NEW u \in Users
    PROVE  /\ Len(Logins(s, u)) \in Nat
           /\ DOMAIN Logins(s, u) = 1..Len(Logins(s, u))
           /\ \A i \in DOMAIN Logins(s, u) :
                 /\ Logins(s, u)[i] \in Users
                 /\ i = Len(Logins(s, u)) \/ Logins(s, u)[i] \in Range(unread[s])
<1>1. unread[s] \in Seq(Users)
  BY DEF SessionTypeOK
<1>2. /\ Logins(s, u) \in Seq(Users)
      /\ Len(Logins(s, u)) = Len(unread[s]) + 1
      /\ \A i \in 1..Len(unread[s]) : Logins(s, u)[i] = unread[s][i]
  BY <1>1, AppendProperties DEF Logins
<1>3. Len(unread[s]) \in Nat /\ DOMAIN unread[s] = 1..Len(unread[s])
  BY <1>1
<1>4. DOMAIN Logins(s, u) = 1..Len(Logins(s, u))
  BY <1>2
<1>5. \A i \in 1..Len(Logins(s, u)) : Logins(s, u)[i] \in Users
  BY <1>2
<1>6. ASSUME NEW i \in 1..Len(Logins(s, u)), i # Len(Logins(s, u))
      PROVE  Logins(s, u)[i] \in Range(unread[s])
  <2>1. i \in 1..Len(unread[s])
    BY <1>2, <1>3, <1>6
  <2> QED BY <1>2, <1>3, <2>1 DEF Range
<1> QED BY <1>2, <1>3, <1>4, <1>5, <1>6

\* What becomes of a socket keeps the types: the questions it was asked go
\* with its client.
LEMMA TypeSockets ==
    ASSUME SessionInv, NEW s \in Sockets,
           \/ IncomingConnection(s) \/ HookReadyRead(s) \/ HookDisconnected(s)
           \/ ClientOffline(s) \/ OfflineFails(s) \/ PeerGoesUnseen(s)
    PROVE  SessionInv'
<1> USE DEF SessionInv, SessionTypeOK, Unhooked, Registered, dbVars, m_tcpSocketList
<1>1. CASE IncomingConnection(s)
  BY <1>1 DEF IncomingConnection
<1>2. CASE HookReadyRead(s)
  BY <1>2 DEF HookReadyRead
<1>3. CASE HookDisconnected(s)
  BY <1>3 DEF HookDisconnected
<1>4. CASE ClientOffline(s) \/ OfflineFails(s)
  <2>0. DeleteSocket(s) /\ online' \subseteq online
    BY <1>4 DEF ClientOffline, OfflineFails
  <2>1. \A q \in Sockets : q # s => (q \in m_tcpSocketList <=> peer'[q] # "none")
    BY <2>0 DEF DeleteSocket
  <2>2. \A d \in Users \X Users \X m_tcpSocketList :
            d[3] # s => d \in Users \X Users \X m_tcpSocketList'
    BY <2>1
  <2>3. dialogs' \subseteq Users \X Users \X m_tcpSocketList'
    BY <2>0, <2>2 DEF DeleteSocket
  <2>4. /\ peer' \in [Sockets -> {"none", "here", "gone"}]
        /\ hooked' \in [Sockets -> {{}, {"readyRead"}, {"readyRead", "disconnected"}}]
    BY <2>0 DEF DeleteSocket
  <2>5. unread' \in [Sockets -> Seq(Users)]
    <3>1. <<>> \in Seq(Users)
      OBVIOUS
    <3> QED BY <2>0, <3>1 DEF DeleteSocket
  <2>6. m_strLoginName' \in [Sockets -> user_info' \cup {NoName}]
    BY <2>0 DEF DeleteSocket
  <2>7. /\ user_info' \subseteq Users /\ online' \subseteq user_info'
        /\ friend' \subseteq user_info' \X user_info'
    BY <2>0 DEF DeleteSocket
  <2>8. \A r \in Sockets : m_strLoginName'[r] # NoName => hooked'[r] # {}
    BY <2>0 DEF DeleteSocket
  <2>9. Unhooked' /\ Registered'
    BY <2>0 DEF DeleteSocket
  <2> HIDE DEF m_tcpSocketList, Unhooked, Registered
  <2> QED BY <2>3, <2>4, <2>5, <2>6, <2>7, <2>8, <2>9
<1>5. CASE PeerGoesUnseen(s)
  BY <1>5 DEF PeerGoesUnseen
<1> QED BY <1>1, <1>2, <1>3, <1>4, <1>5

\* So do the requests that concern no friend: a name is given to a socket only
\* when it is registered.
LEMMA TypeUsers ==
    ASSUME SessionInv, NEW s \in Sockets, NEW u \in Users,
           Regist(s, u) \/ LoginUnread(s, u) \/ Login(s, u)
    PROVE  SessionInv'
<1> USE DEF SessionInv, SessionTypeOK, Unhooked, Registered, dbVars, m_tcpSocketList
<1>1. CASE Regist(s, u)
  BY <1>1 DEF Regist
<1>2. CASE LoginUnread(s, u)
  <2>1. unread[s] \in Seq(Users)
    OBVIOUS
  <2>2. Append(unread[s], u) \in Seq(Users)
    BY <2>1
  <2> QED BY <1>2, <2>2 DEF LoginUnread
<1>3. CASE Login(s, u)
  <2>1. \A i \in handleLogin(s, u) : Logins(s, u)[i] \in user_info
    BY DEF handleLogin
  <2>2. online' \subseteq user_info
    BY <1>3, <2>1 DEF Login
  <2>3. /\ m_strLoginName' \in [Sockets -> user_info \cup {NoName}]
        /\ \A r \in Sockets : m_strLoginName'[r] # NoName => hooked[r] # {}
    BY <1>3, <2>1 DEF Login
  <2>4. unread' \in [Sockets -> Seq(Users)]
    BY <1>3 DEF Login
  <2> QED BY <1>3, <2>2, <2>3, <2>4 DEF Login
<1> QED BY <1>1, <1>2, <1>3

\* So do those about friends, since the names in a question are registered.
LEMMA TypeFriends ==
    ASSUME SessionInv,
           \/ \E s \in Sockets, u \in Users : AddFriend(s, u) \/ DelFriend(s, u)
           \/ \E d \in dialogs : AddFriendAgree(d) \/ Decline(d)
    PROVE  SessionInv'
<1> USE DEF SessionInv, SessionTypeOK, Unhooked, Registered, dbVars, m_tcpSocketList
<1>1. ASSUME NEW s \in Sockets, NEW u \in Users, AddFriend(s, u) PROVE SessionInv'
  <2>1. u \in user_info
    BY <1>1 DEF AddFriend, AddFriendAnswer
  <2>2. m_strLoginName[s] \in user_info
    BY <1>1 DEF AddFriend, Requests
  <2>3. \A d \in dialogs' \ dialogs : \E r \in m_tcpSocketList :
            d = <<m_strLoginName[s], u, r>>
    BY <1>1 DEF AddFriend, Recipients
  <2>4. dialogs' \subseteq Users \X Users \X m_tcpSocketList
    BY <2>1, <2>2, <2>3
  <2>5. Registered'
    BY <1>1, <2>1, <2>2, <2>3 DEF AddFriend
  <2> QED BY <1>1, <2>4, <2>5 DEF AddFriend
<1>2. ASSUME NEW s \in Sockets, NEW u \in Users, DelFriend(s, u) PROVE SessionInv'
  BY <1>2 DEF DelFriend, handleDelFriend
<1>3. ASSUME NEW d \in dialogs, AddFriendAgree(d) PROVE SessionInv'
  <2>1. <<d[1], d[2]>> \in user_info \X user_info
    OBVIOUS
  <2> QED BY <1>3, <2>1 DEF AddFriendAgree
<1>4. ASSUME NEW d \in dialogs, Decline(d) PROVE SessionInv'
  BY <1>4 DEF Decline
<1> QED BY <1>1, <1>2, <1>3, <1>4

\* The types hold at the start, and every step keeps them.
LEMMA SessionTypeInit == SessionInit => SessionInv
BY DEF SessionInit, SessionInv, SessionTypeOK, Unhooked, Registered, m_tcpSocketList

\* See SessionTypeInit.
LEMMA TypeStep ==
    ASSUME SessionInv, [SessionNext]_sessionVars
    PROVE  SessionInv'
<1>1. CASE Served
  BY <1>1, TypeSockets, TypeUsers, TypeFriends DEF Served
<1>4. CASE \E s \in Sockets : OfflineFails(s)
  BY <1>4, TypeSockets
<1>2. CASE Restart
  BY <1>2 DEF Restart, SessionInv, SessionTypeOK, Unhooked, Registered, dbVars,
              m_tcpSocketList
<1>3. CASE UNCHANGED sessionVars
  BY <1>3 DEF sessionVars, SessionInv, SessionTypeOK, Unhooked, Registered,
              m_tcpSocketList
<1> QED BY <1>1, <1>2, <1>3, <1>4 DEF SessionNext

\* The rows of the tables, the sockets and the questions have their types in
\* every reachable state: a socket has a name only once it was read from, and
\* only that of a user who has registered, and friends are registered.
THEOREM SessionTypeCorrect == SessionSpec => []SessionTypeOK
<1>1. SessionInv => SessionTypeOK
  BY DEF SessionInv
<1> QED BY SessionTypeInit, TypeStep, <1>1, PTL DEF SessionSpec

-----------------------------------------------------------------------------
\* A user who neither loses nor gets a session, and whose flag stays, can be
\* trusted as before.
LEMMA StaysTrusted ==
    ASSUME NEW u \in Users, FlagOK(u),
           Sessions(u)' = Sessions(u), u \in online' <=> u \in online,
           \A s \in Sessions(u) : peer'[s] = peer[s]
    PROVE  FlagOK(u)'
BY DEF FlagOK


\* What becomes of blurred while the server runs.
Blurring == (blurred \ Afresh) \cup Doubled \cup Renamed \cup Overtaken \cup Vanished

\* A flag becomes trustworthy again only when the user's sessions change.
LEMMA TrustedBefore ==
    ASSUME PresenceInv, blurred' = Blurring,
           NEW u \in Users, u \notin blurred', Sessions(u)' = Sessions(u)
    PROVE  FlagOK(u)
<1>1. u \notin Afresh
  BY DEF Afresh
<1>2. u \notin blurred
  BY <1>1 DEF Blurring
<1> QED BY <1>2 DEF PresenceInv

\* The steps that give no socket another name leave the flags as they are, and
\* only when a client goes unseen does that make one wrong.
LEMMA PresenceNamesStay ==
    ASSUME PresenceInv, blurred' = Blurring, NEW u \in Users, u \notin blurred',
           \/ \E s \in Sockets :
                 \/ IncomingConnection(s) \/ HookReadyRead(s) \/ HookDisconnected(s)
                 \/ PeerGoesUnseen(s)
                 \/ \E v \in Users :
                       Regist(s, v) \/ LoginUnread(s, v) \/ AddFriend(s, v) \/ DelFriend(s, v)
           \/ \E d \in dialogs : AddFriendAgree(d) \/ Decline(d)
    PROVE  FlagOK(u)'
<1>1. m_strLoginName' = m_strLoginName /\ online' = online
  BY DEF IncomingConnection, HookReadyRead, HookDisconnected, PeerGoesUnseen, Regist,
         LoginUnread, AddFriend, DelFriend, AddFriendAgree, Decline, dbVars
<1>2. Sessions(u)' = Sessions(u)
  BY <1>1 DEF Sessions
<1>3. FlagOK(u)
  BY <1>2, TrustedBefore
<1>4. ASSUME NEW r \in Sessions(u) PROVE peer'[r] = peer[r]
  <2>1. r \in Sockets /\ peer[r] # "none" /\ peer \in [Sockets -> {"none", "here", "gone"}]
    BY <1>3 DEF FlagOK, Sessions, PresenceInv, SessionInv, SessionTypeOK
  <2>2. CASE peer' = peer
    BY <2>2
  <2>3. CASE \E s \in Sockets : IncomingConnection(s)
    BY <2>1, <2>3 DEF IncomingConnection
  <2>4. CASE \E s \in Sockets : PeerGoesUnseen(s)
    <3> PICK s \in Sockets : PeerGoesUnseen(s)
      BY <2>4
    <3>1. peer' = [peer EXCEPT ![s] = "gone"] /\ peer[s] = "here"
      BY DEF PeerGoesUnseen
    <3>2. s \notin Sessions(u)
      BY <2>1, <3>1 DEF Vanished, Blurring
    <3> QED BY <2>1, <3>1, <3>2
  <2> QED BY <2>2, <2>3, <2>4 DEF HookReadyRead, HookDisconnected, Regist,
                 LoginUnread, AddFriend, DelFriend, AddFriendAgree, Decline
<1> QED BY <1>1, <1>2, <1>3, <1>4, StaysTrusted

\* When a client goes and is seen to go, its user had no other session.
LEMMA PresenceOffline ==
    ASSUME PresenceInv, blurred' = Blurring, NEW u \in Users, u \notin blurred',
           NEW s \in Sockets, ClientOffline(s)
    PROVE  FlagOK(u)'
<1>1. /\ online' = online \ {m_strLoginName[s]}
      /\ peer' = [peer EXCEPT ![s] = "none"]
      /\ m_strLoginName' = [m_strLoginName EXCEPT ![s] = NoName]
  BY DEF ClientOffline, DeleteSocket
<1>2. /\ peer \in [Sockets -> {"none", "here", "gone"}]
      /\ m_strLoginName \in [Sockets -> user_info \cup {NoName}]
  BY DEF PresenceInv, SessionInv, SessionTypeOK
<1>3. u # NoName
  BY SessionAssumption
<1>4. Sessions(u)' = Sessions(u) \ {s}
  BY <1>1, <1>2, <1>3 DEF Sessions
<1>5. u \notin Afresh
  <2>1. SUFFICES ASSUME NEW r \in Sockets, r \notin Sessions(u), Sessions(u)' = {r}
                 PROVE  FALSE
    BY DEF Afresh
  <2> QED BY <1>4, <2>1
<1>6. FlagOK(u)
  BY <1>5 DEF Blurring, PresenceInv
<1>7. CASE m_strLoginName[s] = u
  <2>1. Sessions(u)' = {}
    BY <1>4, <1>6, <1>7 DEF FlagOK, Sessions
  <2>2. u \notin online'
    BY <1>1, <1>7
  <2> QED BY <2>1, <2>2 DEF FlagOK
<1>8. CASE m_strLoginName[s] # u
  <2>1. Sessions(u)' = Sessions(u) /\ s \notin Sessions(u)
    BY <1>4, <1>8 DEF Sessions
  <2>2. \A r \in Sessions(u) : peer'[r] = peer[r]
    BY <1>1, <1>2, <2>1 DEF Sessions
  <2> QED BY <1>1, <1>6, <1>8, <2>1, <2>2, StaysTrusted
<1> QED BY <1>7, <1>8

\* When the flag of a client that goes is not cleared, those of the others are
\* as they were.
LEMMA PresenceOfflineFails ==
    ASSUME PresenceInv, NEW u \in Users, NEW s \in Sockets, OfflineFails(s),
           blurred' = blurred \cup ({m_strLoginName[s]} \cap Users), u \notin blurred'
    PROVE  FlagOK(u)'
<1>1. /\ online' = online
      /\ peer' = [peer EXCEPT ![s] = "none"]
      /\ m_strLoginName' = [m_strLoginName EXCEPT ![s] = NoName]
  BY DEF OfflineFails, DeleteSocket
<1>2. /\ peer \in [Sockets -> {"none", "here", "gone"}]
      /\ m_strLoginName \in [Sockets -> user_info \cup {NoName}]
      /\ FlagOK(u)
  BY DEF PresenceInv, SessionInv, SessionTypeOK
<1>3. u # NoName /\ m_strLoginName[s] # u
  BY SessionAssumption
<1>4. Sessions(u)' = Sessions(u) /\ s \notin Sessions(u)
  BY <1>1, <1>2, <1>3 DEF Sessions
<1>5. \A q \in Sessions(u) : peer'[q] = peer[q]
  BY <1>1, <1>2, <1>4 DEF Sessions
<1> QED BY <1>1, <1>2, <1>4, <1>5, StaysTrusted

\* A login: who has the socket now is in no other, or is doubled; who had it
\* is renamed; who was only let through on the way is overtaken; all others
\* are as they were.
LEMMA PresenceLogin ==
    ASSUME PresenceInv, blurred' = Blurring, NEW u \in Users, u \notin blurred',
           NEW s \in Sockets, NEW v \in Users, Login(s, v)
    PROVE  FlagOK(u)'
<1> DEFINE In == {Logins(s, v)[i] : i \in handleLogin(s, v)}
<1>1. /\ peer' = peer /\ peer[s] = "here"
      /\ online' = online \cup In
      /\ unread' = [unread EXCEPT ![s] = <<>>]
  BY DEF Login
<1>2. /\ peer \in [Sockets -> {"none", "here", "gone"}]
      /\ m_strLoginName \in [Sockets -> user_info \cup {NoName}]
      /\ unread \in [Sockets -> Seq(Users)]
      /\ SessionTypeOK
  BY DEF PresenceInv, SessionInv, SessionTypeOK
<1>3. CASE handleLogin(s, v) = {} /\ UNCHANGED m_strLoginName
  <2>1. Sessions(u)' = Sessions(u)
    BY <1>3 DEF Sessions
  <2>2. FlagOK(u)
    BY <2>1, TrustedBefore
  <2>3. online' = online
    BY <1>1, <1>3
  <2> QED BY <1>1, <2>1, <2>2, <2>3, StaysTrusted
<1>4. ASSUME NEW last \in handleLogin(s, v),
             \A i \in handleLogin(s, v) : i <= last,
             m_strLoginName' = [m_strLoginName EXCEPT ![s] = Logins(s, v)[last]]
      PROVE  FlagOK(u)'
  <2> PICK n : n = Logins(s, v)[last]
    OBVIOUS
  <2>1. n \in In /\ n \in Users /\ n # NoName
    BY <1>2, LoginsRead, SessionAssumption DEF handleLogin
  <2>2. m_strLoginName' = [m_strLoginName EXCEPT ![s] = n] /\ m_strLoginName'[s] = n
    BY <1>2, <1>4
  <2>3. CASE u = n
    <3>1. s \in Sessions(u)'
      BY <2>2, <2>3 DEF Sessions
    <3>2. \A r \in Sessions(u)' : r = s
      BY <3>1 DEF Doubled, Blurring
    <3>3. u \in online'
      BY <1>1, <2>1, <2>3
    <3> QED BY <1>1, <3>1, <3>2, <3>3 DEF FlagOK
  <2>4. CASE u # n
    <3>1. m_strLoginName[s] # u
      <4>1. SUFFICES ASSUME m_strLoginName[s] = u PROVE u \in Renamed
        BY DEF Blurring
      <4>2. s \in Sessions(u) /\ peer'[s] = "here" /\ m_strLoginName'[s] # u
        BY <1>1, <2>2, <2>4, <4>1 DEF Sessions
      <4> QED BY <4>2 DEF Renamed
    <3>2. Sessions(u)' = Sessions(u)
      BY <1>2, <2>2, <2>4, <3>1 DEF Sessions
    <3>3. FlagOK(u)
      BY <3>2, TrustedBefore
    <3>4. u \notin In
      <4>1. SUFFICES ASSUME NEW i \in handleLogin(s, v), u = Logins(s, v)[i]
                     PROVE  u \in Overtaken
        BY DEF Blurring
      <4>2. i # Len(Logins(s, v))
        <5>1. i # last
          BY <2>4, <4>1
        <5>2. i \in DOMAIN Logins(s, v) /\ last \in DOMAIN Logins(s, v)
          BY DEF handleLogin
        <5>3. i \in Int /\ last \in Int /\ last <= Len(Logins(s, v)) /\ i <= last
              /\ Len(Logins(s, v)) \in Int
          BY <1>2, <1>4, <5>2, LoginsRead
        <5> QED BY <5>1, <5>3
      <4>3. u \in Range(unread[s])
        BY <1>2, <4>1, <4>2, LoginsRead DEF handleLogin
      <4>4. unread'[s] = <<>>
        BY <1>1, <1>2
      <4>5. m_strLoginName'[s] \notin {u, NoName}
        BY <2>1, <2>2, <2>4
      <4> QED BY <4>3, <4>4, <4>5 DEF Overtaken
    <3>5. u \in online' <=> u \in online
      BY <1>1, <3>4
    <3> QED BY <1>1, <3>2, <3>3, <3>5, StaysTrusted
  <2> QED BY <2>3, <2>4
<1> QED BY <1>3, <1>4 DEF Login

\* After a restart nobody has a session, and only the flags that were set
\* before are set.
LEMMA PresenceRestart ==
    ASSUME blurred' = blurred \cup online, NEW u \in Users, u \notin blurred', Restart
    PROVE  FlagOK(u)'
<1>1. u \notin online'
  BY DEF Restart, dbVars
<1>2. Sessions(u)' = {}
  BY SessionAssumption DEF Restart, Sessions
<1> QED BY <1>1, <1>2 DEF FlagOK

-----------------------------------------------------------------------------
\* The steps of the session with its history are steps of the session.
LEMMA SessionHistoryStep == ASSUME [SHNext]_shVars PROVE [SessionNext]_sessionVars
BY DEF SHNext, shVars, SessionNext

\* Every step keeps what is said of the flags.
LEMMA PresenceStep ==
    ASSUME PresenceInv, [SHNext]_shVars
    PROVE  PresenceInv'
<1>1. SessionInv'
  BY SessionHistoryStep, TypeStep DEF PresenceInv
<1>2. ASSUME NEW u \in Users, u \notin blurred' PROVE FlagOK(u)'
  <2>1. CASE Served /\ blurred' = Blurring
    BY <1>2, <2>1, PresenceNamesStay, PresenceOffline, PresenceLogin DEF Served
  <2>2. CASE Restart /\ blurred' = blurred \cup online
    BY <1>2, <2>2, PresenceRestart
  <2>3. CASE UNCHANGED shVars
    BY <1>2, <2>3 DEF shVars, sessionVars, PresenceInv, FlagOK, Sessions
  <2>4. CASE \E s \in Sockets :
                /\ OfflineFails(s)
                /\ blurred' = blurred \cup ({m_strLoginName[s]} \cap Users)
    BY <1>2, <2>4, PresenceOfflineFails
  <2> QED BY <2>1, <2>2, <2>3, <2>4 DEF SHNext, Blurring
<1> QED BY <1>1, <1>2 DEF PresenceInv

\* The column online, from which onlineUser, flushFriend and addFriend answer,
\* is set for exactly those users whom resend reaches, as long as none of the
\* things has befallen them that one flag per user cannot express.
THEOREM FlagIsTrusted == SHSpec => []FlagTellsPresence
<1>1. SHInit => PresenceInv
  BY SessionTypeInit, SessionAssumption
     DEF SHInit, SessionInit, PresenceInv, FlagOK, Sessions
<1>2. PresenceInv => FlagTellsPresence
  <2> SUFFICES ASSUME PresenceInv, NEW u \in Users \ blurred
               PROVE  u \in online <=> \E s \in Recipients(u) : peer[s] = "here"
    BY DEF FlagTellsPresence
  <2>1. FlagOK(u)
    BY DEF PresenceInv
  <2>2. \A s \in Sessions(u) : s \in Recipients(u)
    BY <2>1 DEF FlagOK, Sessions, Recipients, m_tcpSocketList
  <2>3. \A s \in Recipients(u) : s \in Sessions(u)
    BY DEF Sessions, Recipients, m_tcpSocketList
  <2> QED BY <2>1, <2>2, <2>3 DEF FlagOK
<1> QED BY <1>1, <1>2, PresenceStep, PTL DEF SHSpec

-----------------------------------------------------------------------------
\* Only a yes to an open question brings a row.
LEMMA RowsComeFromQuestions ==
    ASSUME [SessionNext]_sessionVars
    PROVE  \A row \in friend' \ friend : \E d \in dialogs : row = <<d[1], d[2]>>
<1>1. ASSUME NEW d \in dialogs, AddFriendAgree(d)
      PROVE  \A row \in friend' \ friend : row = <<d[1], d[2]>>
  BY <1>1 DEF AddFriendAgree
<1>2. ASSUME NEW s \in Sockets, NEW u \in Users, DelFriend(s, u)
      PROVE  friend' \subseteq friend
  BY <1>2 DEF DelFriend, handleDelFriend
<1>3. CASE friend' = friend
  BY <1>3
<1> QED BY <1>1, <1>2, <1>3
           DEF SessionNext, Served, Restart, IncomingConnection, HookReadyRead,
               HookDisconnected, ClientOffline, OfflineFails, DeleteSocket, PeerGoesUnseen, Regist, LoginUnread,
               Login, AddFriend, Decline, dbVars, sessionVars

\* When one deletes the other, the rows of both directions go.
LEMMA DeletedRowsGo ==
    ASSUME NEW a \in Users, NEW b \in Users, {a, b} \in Deleted
    PROVE  <<a, b>> \notin friend'
<1> PICK s \in Sockets, u \in Users : DelFriend(s, u) /\ {m_strLoginName[s], u} = {a, b}
  BY DEF Deleted
<1>1. friend' = friend \ {<<m_strLoginName[s], u>>, <<u, m_strLoginName[s]>>}
  BY DEF DelFriend, handleDelFriend
<1>2. \/ m_strLoginName[s] = a /\ u = b
      \/ m_strLoginName[s] = b /\ u = a
  OBVIOUS
<1> QED BY <1>1, <1>2

\* Every step keeps ended friendships without rows and without questions.
LEMMA EndedStep ==
    ASSUME EndedInv, [SHNext]_shVars
    PROVE  EndedInv'
<1>1. CASE UNCHANGED shVars
  BY <1>1 DEF shVars, sessionVars, EndedInv
<1>2. CASE SHNext
  <2> SUFFICES ASSUME NEW a \in Users, NEW b \in Users, {a, b} \in ended'
               PROVE  <<a, b>> \notin friend' /\ \A d \in dialogs' : {d[1], d[2]} # {a, b}
    BY DEF EndedInv
  <2>1. {a, b} \in ended \cup Deleted /\ {a, b} \notin Asked
    BY <1>2 DEF SHNext
  <2>2. \A d \in dialogs' : {d[1], d[2]} # {a, b}
    BY <2>1 DEF Asked
  <2>3. CASE {a, b} \in ended
    <3>1. <<a, b>> \notin friend /\ \A d \in dialogs : {d[1], d[2]} # {a, b}
      BY <2>3 DEF EndedInv
    <3>2. \A d \in dialogs : <<d[1], d[2]>> # <<a, b>>
      BY <3>1
    <3>3. <<a, b>> \notin friend'
      BY <3>1, <3>2, SessionHistoryStep, RowsComeFromQuestions
    <3> QED BY <2>2, <3>3
  <2>4. CASE {a, b} \in Deleted
    BY <2>2, <2>4, DeletedRowsGo
  <2> QED BY <2>1, <2>3, <2>4
<1> QED BY <1>1, <1>2

\* Deleting a friend is the end of it, until one of the two asks again,
\* whoever of them had asked before and in whatever direction the row is.
THEOREM EndedStaysOver == SHSpec => []EndedIsOver
<1>1. SHInit => EndedInv
  BY DEF SHInit, SessionInit, EndedInv
<1>2. EndedInv => EndedIsOver
  <2> SUFFICES ASSUME EndedInv, NEW a \in Users, NEW b \in Users, {a, b} \in ended
               PROVE  ~AreFriends(a, b)
    BY DEF EndedIsOver
  <2>1. {b, a} = {a, b}
    OBVIOUS
  <2>2. <<a, b>> \notin friend /\ <<b, a>> \notin friend
    BY <2>1 DEF EndedInv
  <2> QED BY <2>2 DEF AreFriends
<1> QED BY <1>1, <1>2, EndedStep, PTL DEF SHSpec

-----------------------------------------------------------------------------
\* The stages of an upload that no other overlaps.  Nothing is under way:
NoneRuns == \A i \in Uploaders : ~uploader[i].runs

\* the file is announced to the server;
Announced ==
    /\ m_strUploadFilePath \in Files /\ down = <<>> /\ NoneRuns
    /\ Len(up) = 1 /\ up[1].type = "init" /\ up[1].file = m_strUploadFilePath
    /\ ~spoiled => up[1].size = local[m_strUploadFilePath]

\* the server has opened its file, or could not;
Accepted ==
    /\ m_strUploadFilePath \in Files /\ up = <<>> /\ NoneRuns
    /\ down = <<Respond("init", TRUE)>>
    /\ m_fUploadFile = [name |-> m_strUploadFilePath, open |-> TRUE]
    /\ m_iReceiveSize = 0 /\ written = <<>>
    /\ ~spoiled => m_iUploadFileSize = local[m_strUploadFilePath]

Refused == up = <<>> /\ NoneRuns /\ down = <<Respond("init", FALSE)>>

\* and the chunks of the file are sent, by one uploader, in their order.
Prefix(f, n) == [j \in 1..n |-> <<f, j>>]

InFlight ==
    /\ \A j \in 1..Len(up) :
           up[j] = DataRequest(m_strUploadFilePath, m_iReceiveSize + j)
    /\ \A i \in Uploaders : uploader[i].runs =>
           /\ uploader[i].path = m_strUploadFilePath
           /\ uploader[i].sent = m_iReceiveSize + Len(up)
    /\ \A i, j \in Uploaders : uploader[i].runs /\ uploader[j].runs => i = j

Stored ==
    /\ m_fUploadFile.name = m_strUploadFilePath
    /\ m_fUploadFile.open =>
           /\ m_iReceiveSize = 0 \/ m_iReceiveSize < m_iUploadFileSize
           /\ ~full => written = Prefix(m_strUploadFilePath, m_iReceiveSize)
    /\ ~m_fUploadFile.open =>
           /\ m_iReceiveSize >= 1 /\ m_iReceiveSize >= m_iUploadFileSize
           /\ ~full /\ m_iUploadFileSize >= 1 =>
                  written = Prefix(m_strUploadFilePath, m_iUploadFileSize)

Answered ==
    \A j \in 1..Len(down) :
        /\ down[j].type = "data" /\ ~m_fUploadFile.open
        /\ down[j].ret => m_iUploadFileSize >= 1

\* When no file changed, what was announced is what is sent, and one answer.
Unspoiled ==
    /\ m_iUploadFileSize = local[m_strUploadFilePath]
    /\ m_iReceiveSize + Len(up) <= m_iUploadFileSize
    /\ NoneRuns => m_iReceiveSize + Len(up) = m_iUploadFileSize
    /\ Len(down) <= 1

Carrying ==
    /\ m_strUploadFilePath \in Files
    /\ InFlight /\ Stored /\ Answered
    /\ ~spoiled => Unspoiled

Stage ==
    \/ Quiet
    \/ /\ ~choosing
       /\ Announced \/ Accepted \/ Refused \/ Carrying

\* The inductive invariant.
UploadInv ==
    /\ UploadTypeOK
    /\ overlapped \in BOOLEAN /\ spoiled \in BOOLEAN /\ full \in BOOLEAN
    /\ ~overlapped => Stage

-----------------------------------------------------------------------------
\* Messages to the server and to the client, and the uploader threads.
UpMessages ==
    [type : {"init"}, file : Files, size : Nat] \cup {DataRequest(c[1], c[2]) : c \in Chunks}

DownMessages == [type : {"init", "data"}, ret : BOOLEAN]

Threads == [path : Files \cup {NoFile}, sent : Nat, runs : BOOLEAN]

\* A chunk of a file is one of the chunks there may be.
LEMMA ChunkOf ==
    ASSUME NEW f \in Files, NEW k \in 1..MaxLen[f]
    PROVE  <<f, k>> \in Chunks /\ DataRequest(f, k) \in UpMessages
<1>1. <<f, k>> \in {f} \X (1..MaxLen[f])
  OBVIOUS
<1>2. <<f, k>> \in Chunks
  BY <1>1 DEF Chunks
<1>3. DataRequest(f, k) = DataRequest(<<f, k>>[1], <<f, k>>[2])
  OBVIOUS
<1> QED BY <1>2, <1>3 DEF UpMessages

\* What a message to the server says.
LEMMA UpParts ==
    ASSUME NEW m \in UpMessages
    PROVE  /\ m.type \in {"init", "data"}
           /\ m.type = "init" => m.file \in Files /\ m.size \in Nat
           /\ m.type = "data" => <<m.file, m.chunk>> \in Chunks
<1>1. CASE m \in [type : {"init"}, file : Files, size : Nat]
  BY <1>1
<1>2. CASE m \in {DataRequest(c[1], c[2]) : c \in Chunks}
  <2> PICK c \in Chunks : m = DataRequest(c[1], c[2])
    BY <1>2
  <2>1. c = <<c[1], c[2]>>
    BY DEF Chunks
  <2>2. m.type = "data" /\ m.file = c[1] /\ m.chunk = c[2]
    BY DEF DataRequest
  <2> QED BY <2>1, <2>2
<1> QED BY <1>1, <1>2 DEF UpMessages

\* The first message is taken from a queue.
LEMMA TakeFirst ==
    ASSUME NEW S, NEW q \in Seq(S), q # <<>>
    PROVE  /\ Head(q) = q[1] /\ Head(q) \in S /\ Tail(q) \in Seq(S)
           /\ Len(q) \in Nat /\ Len(q) >= 1 /\ Len(Tail(q)) = Len(q) - 1
           /\ \A j \in 1..Len(Tail(q)) : Tail(q)[j] = q[j + 1]
BY HeadTailProperties

\* A message is put at the end of a queue.
LEMMA PutLast ==
    ASSUME NEW S, NEW q \in Seq(S), NEW e \in S
    PROVE  /\ Append(q, e) \in Seq(S) /\ Len(q) \in Nat
           /\ Len(Append(q, e)) = Len(q) + 1
           /\ \A j \in 1..Len(q) : Append(q, e)[j] = q[j]
           /\ Append(q, e)[Len(q) + 1] = e
BY AppendProperties

\* The sizes a file has are within its bound.
LEMMA LocalSize ==
    ASSUME UploadTypeOK, NEW f \in Files
    PROVE  local[f] \in Nat /\ local[f] <= MaxLen[f] /\ MaxLen[f] \in Nat
<1>1. MaxLen[f] \in Nat
  BY UploadAssumption
<1>2. local \in [Files -> UNION {0..MaxLen[g] : g \in Files}] /\ local[f] <= MaxLen[f]
  BY DEF UploadTypeOK, Sizes
<1>3. \A S : S \in {0..MaxLen[g] : g \in Files} => S \subseteq Nat
  BY UploadAssumption
<1> QED BY <1>1, <1>2, <1>3

\* recvMsg reads, waits for a dialog, and goes on, without handling anything.
LEMMA NothingHandled ==
    ASSUME Arrive \/ OtherMessage \/ CloseDialog
    PROVE  UNCHANGED <<local, choosing, m_strUploadFilePath, uploader, up, down, m_fUploadFile,
                       m_iUploadFileSize, m_iReceiveSize, written>>
BY DEF Arrive, RecvMsg, ArriveUnseen, OtherMessage, CloseDialog, clientVars, serverVars

\* What it handles is the first of the messages for the client.
LEMMA OneHandled ==
    ASSUME UploadTypeOK, HandlePDU
    PROVE  /\ down # <<>> /\ down' = Tail(down) /\ down' \in Seq(DownMessages)
           /\ read \in Nat /\ read' = read - 1 /\ read' \in Nat
           /\ Len(down) \in Nat /\ Len(down') = Len(down) - 1
<1>1. down \in Seq(DownMessages) /\ read \in Nat /\ unseen \in Nat
  BY DEF UploadTypeOK, DownMessages
<1>2. read > 0 /\ read' = read - 1 /\ down' = Tail(down) /\ read + unseen <= Len(down)
  BY DEF HandlePDU, UploadTypeOK
<1>3. down # <<>>
  BY <1>1, <1>2
<1> QED BY <1>1, <1>2, <1>3, TakeFirst

\* A message that is not taken leaves the counts of what is read as they are.
LEMMA CountsStay ==
    ASSUME UploadTypeOK, UNCHANGED recvVars, Len(down') >= Len(down), Len(down') \in Nat
    PROVE  /\ dialog' \in BOOLEAN /\ read' \in Nat /\ unseen' \in Nat
           /\ read' + unseen' <= Len(down')
<1>1. Len(down) \in Nat
  BY DEF UploadTypeOK
<1> QED BY <1>1 DEF UploadTypeOK, recvVars

-----------------------------------------------------------------------------
\* Each step of the client keeps the types.
LEMMA TypeClient ==
    ASSUME UploadTypeOK,
           \/ ClickUpload \/ (\E f \in Files : Choose(f)) \/ Cancel
           \/ Receive \/ \E f \in Files : Resize(f)
    PROVE  UploadTypeOK'
<1>1. CASE ClickUpload \/ Cancel
  BY <1>1 DEF UploadTypeOK, ClickUpload, Cancel, recvVars, serverVars
<1>2. ASSUME NEW f \in Files, Choose(f)
      PROVE  UploadTypeOK'
  <2>1. InitRequest(f, local[f]) \in UpMessages
    BY LocalSize DEF InitRequest, UpMessages
  <2>2. up \in Seq(UpMessages)
    BY DEF UploadTypeOK, UpMessages
  <2>3. up' \in Seq(UpMessages)
    BY <1>2, <2>1, <2>2, PutLast DEF Choose
  <2> QED BY <1>2, <2>3 DEF UploadTypeOK, Choose, recvVars, serverVars, UpMessages
<1>3. CASE Handle
  <2>1. HandlePDU /\ UNCHANGED <<local, choosing, m_strUploadFilePath, up, unseen, serverVars>>
    BY <1>3 DEF Handle, StartUpload, ShowAnswer, clientVars
  <2>2. /\ down' \in Seq(DownMessages) /\ read' \in Nat
        /\ read' + unseen' <= Len(down')
    BY <2>1, OneHandled DEF UploadTypeOK
  <2>3. uploader' \in [Uploaders -> Threads]
    <3>1. uploader \in [Uploaders -> Threads]
      BY DEF UploadTypeOK, Threads
    <3>2. [path |-> m_strUploadFilePath, sent |-> 0, runs |-> TRUE] \in Threads
      BY DEF UploadTypeOK, Threads
    <3> QED BY <1>3, <3>1, <3>2 DEF Handle, StartUpload, ShowAnswer
  <2>4. dialog' \in BOOLEAN
    BY <1>3 DEF UploadTypeOK, Handle, StartUpload, ShowAnswer
  <2> QED BY <2>1, <2>2, <2>3, <2>4
          DEF UploadTypeOK, serverVars, DownMessages, Threads
<1>5. CASE Arrive \/ OtherMessage \/ CloseDialog
  <2>1. Len(down) \in Nat /\ read \in Nat /\ unseen \in Nat /\ read + unseen <= Len(down)
    BY DEF UploadTypeOK
  <2>2. dialog' \in BOOLEAN
    BY <1>5 DEF UploadTypeOK, Arrive, RecvMsg, ArriveUnseen, OtherMessage, CloseDialog
  <2>3. read' \in Nat /\ unseen' \in Nat /\ read' + unseen' <= Len(down)
    BY <1>5, <2>1 DEF Arrive, RecvMsg, ArriveUnseen, OtherMessage, CloseDialog
  <2> QED BY <1>5, <2>2, <2>3, NothingHandled DEF UploadTypeOK
<1>4. ASSUME NEW f \in Files, Resize(f)
      PROVE  UploadTypeOK'
  <2> PICK n \in 0..MaxLen[f] : local' = [local EXCEPT ![f] = n]
    BY <1>4 DEF Resize
  <2>1. n \in UNION {0..MaxLen[g] : g \in Files} /\ n <= MaxLen[f]
    BY UploadAssumption
  <2>2. local' \in Sizes
    BY <2>1 DEF UploadTypeOK, Sizes
  <2> QED BY <1>4, <2>2 DEF UploadTypeOK, Resize, recvVars, serverVars, clientVars
<1> QED BY <1>1, <1>2, <1>3, <1>4, <1>5 DEF Receive

\* So does each step of an uploader,
LEMMA TypeUploader ==
    ASSUME UploadTypeOK, NEW i \in Uploaders, Upload(i) \/ UploadBreaks(i)
    PROVE  UploadTypeOK'
<1>1. CASE UploadChunk(i)
  <2> DEFINE f == uploader[i].path
             k == uploader[i].sent
  <2>1. f \in Files /\ k \in Nat /\ k < local[f]
    BY <1>1 DEF UploadTypeOK, UploadChunk
  <2>2. k + 1 \in 1..MaxLen[f]
    BY <2>1, LocalSize
  <2>3. up' \in Seq(UpMessages)
    <3>1. up \in Seq(UpMessages) /\ up' = Append(up, DataRequest(f, k + 1))
      BY <1>1 DEF UploadTypeOK, UpMessages, UploadChunk
    <3>2. DataRequest(f, k + 1) \in UpMessages
      BY <2>1, <2>2, ChunkOf
    <3> QED BY <3>1, <3>2, PutLast
  <2>4. uploader' \in [Uploaders -> Threads]
    <3>1. uploader \in [Uploaders -> Threads] /\ uploader[i] \in Threads
      BY DEF UploadTypeOK, Threads
    <3>2. [uploader[i] EXCEPT !.sent = @ + 1] \in Threads
      BY <3>1 DEF Threads
    <3> QED BY <1>1, <3>1, <3>2 DEF UploadChunk
  <2> QED BY <1>1, <2>3, <2>4
          DEF UploadTypeOK, UploadChunk, recvVars, serverVars, clientVars, UpMessages, Threads
<1>2. CASE UploadEnds(i) \/ UploadBreaks(i)
  <2>1. uploader' \in [Uploaders -> Threads]
    <3>1. uploader \in [Uploaders -> Threads] /\ Idle \in Threads
      BY DEF UploadTypeOK, Threads, Idle
    <3> QED BY <1>2, <3>1 DEF UploadEnds, UploadBreaks
  <2> QED BY <1>2, <2>1
          DEF UploadTypeOK, UploadEnds, UploadBreaks, recvVars, serverVars, clientVars, Threads
<1> QED BY <1>1, <1>2 DEF Upload

\* and each handler of the server.
LEMMA TypeServer ==
    ASSUME UploadTypeOK, Serve
    PROVE  UploadTypeOK'
<1>1. up \in Seq(UpMessages) /\ down \in Seq(DownMessages)
  BY DEF UploadTypeOK, UpMessages, DownMessages
<1>2. up # <<>> /\ up' = Tail(up)
  BY DEF Serve, UploadFileInit, UploadFileData
<1>3. Head(up) \in UpMessages /\ up' \in Seq(UpMessages)
  BY <1>1, <1>2, TakeFirst
<1>4. \A t \in {"init", "data"}, r \in BOOLEAN : Respond(t, r) \in DownMessages
  BY DEF Respond, DownMessages
<1>5. CASE UploadFileInit
  <2> PICK ret \in BOOLEAN :
          /\ m_fUploadFile' = [name |-> Head(up).file, open |-> ret]
          /\ down' = Append(down, Respond("init", ret))
    BY <1>5 DEF UploadFileInit
  <2>1. Head(up).file \in Files /\ Head(up).size \in Nat
    BY <1>3, <1>5, UpParts DEF UploadFileInit
  <2>2. down' \in Seq(DownMessages)
    BY <1>1, <1>4, PutLast
  <2>3. m_fUploadFile' \in [name : Files \cup {NoFile}, open : BOOLEAN]
    BY <2>1
  <2>4. /\ m_iUploadFileSize' \in Nat /\ m_iReceiveSize' \in Nat
        /\ written' \in Seq(Chunks)
    BY <1>5, <2>1 DEF UploadFileInit
  <2>5. /\ dialog' \in BOOLEAN /\ read' \in Nat /\ unseen' \in Nat
        /\ read' + unseen' <= Len(down')
    BY <1>1, <1>4, <1>5, <2>2, PutLast, CountsStay DEF UploadFileInit
  <2> QED BY <1>3, <1>5, <2>2, <2>3, <2>4, <2>5
          DEF UploadTypeOK, UploadFileInit, clientVars, UpMessages, DownMessages
<1>6. CASE UploadFileData
  <2> DEFINE received == m_iReceiveSize + 1
             answer == Respond("data", received = m_iUploadFileSize)
  <2>1. <<Head(up).file, Head(up).chunk>> \in Chunks
    BY <1>3, <1>6, UpParts DEF UploadFileData
  <2>2. answer \in DownMessages
    BY <1>4
  <2>3. down' \in Seq(DownMessages)
    BY <1>1, <1>6, <2>2, PutLast DEF UploadFileData
  <2>4. m_fUploadFile' \in [name : Files \cup {NoFile}, open : BOOLEAN]
    BY <1>6 DEF UploadTypeOK, UploadFileData, Done
  <2>5. m_iReceiveSize' \in Nat /\ m_iUploadFileSize' \in Nat
    BY <1>6 DEF UploadTypeOK, UploadFileData
  <2>6. written' \in Seq(Chunks)
    <3>1. written \in Seq(Chunks)
      BY DEF UploadTypeOK
    <3>2. Append(written, <<Head(up).file, Head(up).chunk>>) \in Seq(Chunks)
      BY <2>1, <3>1, PutLast
    <3> QED BY <1>6, <3>1, <3>2 DEF UploadFileData
  <2>7. Len(down') >= Len(down)
    <3>1. Len(Append(down, answer)) >= Len(down)
      BY <1>1, <2>2, PutLast
    <3> QED BY <1>1, <1>6, <3>1 DEF UploadFileData
  <2>8. /\ dialog' \in BOOLEAN /\ read' \in Nat /\ unseen' \in Nat
        /\ read' + unseen' <= Len(down')
    BY <1>6, <2>3, <2>7, CountsStay DEF UploadFileData
  <2> QED BY <1>3, <1>6, <2>3, <2>4, <2>5, <2>6, <2>8
          DEF UploadTypeOK, UploadFileData, clientVars, UpMessages, DownMessages
<1> QED BY <1>5, <1>6 DEF Serve

\* At the start, everything is empty.
LEMMA UploadTypeInit == UploadInit => UploadTypeOK
<1> SUFFICES ASSUME UploadInit PROVE UploadTypeOK
  OBVIOUS
<1>1. up \in Seq(UpMessages) /\ down \in Seq(DownMessages) /\ written \in Seq(Chunks)
  BY DEF UploadInit
<1>2. uploader \in [Uploaders -> Threads]
  BY DEF UploadInit, Idle, Threads
<1>3. dialog \in BOOLEAN /\ read \in Nat /\ unseen \in Nat /\ read + unseen <= Len(down)
  <2>1. dialog = FALSE /\ read = 0 /\ unseen = 0 /\ Len(down) = 0
    BY DEF UploadInit
  <2>2. 0 + 0 <= 0
    OBVIOUS
  <2>3. read + unseen <= Len(down)
    BY <2>1, <2>2
  <2>4. dialog \in BOOLEAN /\ read \in Nat /\ unseen \in Nat
    BY <2>1
  <2> QED BY <2>3, <2>4
<1> QED BY <1>1, <1>2, <1>3 DEF UploadInit, UploadTypeOK, UpMessages, DownMessages, Threads

\* Every step keeps the types.
LEMMA TypeNext == UploadTypeOK /\ [UploadNext]_uploadVars => UploadTypeOK'
<1> SUFFICES ASSUME UploadTypeOK, [UploadNext]_uploadVars PROVE UploadTypeOK'
  OBVIOUS
<1>1. CASE UNCHANGED uploadVars
  BY <1>1 DEF UploadTypeOK, uploadVars, clientVars, recvVars, serverVars
<1> QED BY <1>1, TypeClient, TypeUploader, TypeServer DEF UploadNext, User

\* What the connection carries and the server keeps is what it may be, for any
\* files and any number of uploads at once.
THEOREM UploadTypeCorrect == UploadSpec => []UploadTypeOK
BY UploadTypeInit, TypeNext, PTL DEF UploadSpec

-----------------------------------------------------------------------------
\* What the stages need of the types.
LEMMA Basics ==
    ASSUME UploadTypeOK
    PROVE  /\ up \in Seq(UpMessages) /\ down \in Seq(DownMessages)
           /\ Len(up) \in Nat /\ Len(down) \in Nat
           /\ m_iReceiveSize \in Nat /\ m_iUploadFileSize \in Nat
           /\ uploader \in [Uploaders -> Threads] /\ NoFile \notin Files
           /\ m_fUploadFile \in [name : Files \cup {NoFile}, open : BOOLEAN]
           /\ written \in Seq(Chunks)
BY UploadAssumption DEF UploadTypeOK, UpMessages, DownMessages, Threads

\* The chunks of a file up to one, and the next.
LEMMA PrefixGrows ==
    ASSUME NEW f \in Files, NEW n \in Nat
    PROVE  Append(Prefix(f, n), <<f, n + 1>>) = Prefix(f, n + 1)
<1> DEFINE C == Files \X Nat
           s == Prefix(f, n)
           t == Prefix(f, n + 1)
<1>1. s \in Seq(C) /\ Len(s) = n /\ \A j \in 1..n : s[j] = <<f, j>>
  BY DEF Prefix
<1>2. t \in Seq(C) /\ Len(t) = n + 1 /\ \A j \in 1..n + 1 : t[j] = <<f, j>>
  BY DEF Prefix
<1> HIDE DEF s, t
<1>3. <<f, n + 1>> \in C
  OBVIOUS
<1> HIDE DEF C
<1>4. /\ Append(s, <<f, n + 1>>) \in Seq(C) /\ Len(Append(s, <<f, n + 1>>)) = n + 1
      /\ \A j \in 1..n : Append(s, <<f, n + 1>>)[j] = s[j]
      /\ Append(s, <<f, n + 1>>)[n + 1] = <<f, n + 1>>
  BY <1>1, <1>3, PutLast
<1>5. ASSUME NEW j \in 1..n + 1
      PROVE  Append(s, <<f, n + 1>>)[j] = t[j]
  <2>1. j \in 1..n \/ j = n + 1
    OBVIOUS
  <2> QED BY <1>1, <1>2, <1>4, <2>1
<1>6. Append(s, <<f, n + 1>>) = t
  BY <1>2, <1>4, <1>5, SeqEqual
<1> QED BY <1>6 DEF s, t

\* When nothing is under way and no message or thread comes, that stays so.
LEMMA QuietStays ==
    ASSUME Quiet, up' = up, down' = down, uploader' = uploader
    PROVE  Quiet'
BY DEF Quiet

\* The user's steps: a click begins a stage only when nothing is under way.
LEMMA StageUser ==
    ASSUME UploadTypeOK, ~overlapped => Stage, ~overlapped',
           \/ ClickUpload /\ overlapped' = ~Quiet
           \/ (\E f \in Files : Choose(f)) /\ UNCHANGED <<overlapped, spoiled>>
           \/ Cancel /\ UNCHANGED <<overlapped, spoiled>>
    PROVE  Stage'
<1>1. CASE ClickUpload /\ overlapped' = ~Quiet
  <2>1. Quiet
    BY <1>1
  <2>2. up' = up /\ down' = down /\ uploader' = uploader
    BY <1>1 DEF ClickUpload
  <2>3. Quiet'
    BY <2>1, <2>2, QuietStays
  <2> QED BY <2>3 DEF Stage
<1>2. ASSUME NEW f \in Files, Choose(f), UNCHANGED <<overlapped, spoiled>>
      PROVE  Stage'
  <2>1. Quiet /\ ~choosing'
    BY <1>2 DEF Choose, Stage
  <2>2. up' = <<InitRequest(f, local[f])>>
    BY <1>2, <2>1 DEF Choose, Quiet
  <2>3. m_strUploadFilePath' = f /\ down' = <<>> /\ uploader' = uploader /\ local' = local
    BY <1>2, <2>1 DEF Choose, Quiet
  <2>4. NoneRuns'
    BY <2>1, <2>3 DEF Quiet, NoneRuns
  <2>5. /\ Len(up') = 1 /\ up'[1].type = "init" /\ up'[1].file = f
        /\ up'[1].size = local[f]
    BY <2>2 DEF InitRequest
  <2>6. Announced'
    BY <2>3, <2>4, <2>5 DEF Announced
  <2> QED BY <2>1, <2>6 DEF Stage
<1>3. CASE Cancel /\ UNCHANGED <<overlapped, spoiled>>
  <2>1. Quiet
    BY <1>3 DEF Cancel, Stage
  <2>2. up' = up /\ down' = down /\ uploader' = uploader
    BY <1>3 DEF Cancel
  <2>3. Quiet'
    BY <2>1, <2>2, QuietStays
  <2> QED BY <2>3 DEF Stage
<1> QED BY <1>1, <1>2, <1>3

\* A file changes its length, or cannot be read: the upload is spoiled.
LEMMA StageSpoil ==
    ASSUME UploadTypeOK, ~overlapped => Stage, ~overlapped',
           (\E i \in Uploaders : UploadBreaks(i)) \/ (\E f \in Files : Resize(f)),
           spoiled' = TRUE, UNCHANGED <<overlapped, full>>
    PROVE  Stage'
<1>1. ASSUME NEW i \in Uploaders, UploadBreaks(i)
      PROVE  Stage'
  <2>1. ~choosing /\ Carrying
    BY <1>1 DEF UploadBreaks, Stage, Quiet, Announced, Accepted, Refused, NoneRuns
  <2>2. UNCHANGED <<clientVars, up, down, serverVars>>
    BY <1>1 DEF UploadBreaks
  <2>3. \A j \in Uploaders : uploader'[j].runs => uploader[j].runs /\ uploader'[j] = uploader[j]
    BY <1>1, Basics DEF UploadBreaks, Idle
  <2>4. InFlight'
    BY <2>1, <2>2, <2>3 DEF Carrying, InFlight, clientVars, serverVars
  <2>5. Stored' /\ Answered'
    BY <2>1, <2>2 DEF Carrying, Stored, Answered, clientVars, serverVars
  <2> QED BY <2>1, <2>2, <2>4, <2>5 DEF Stage, Carrying, clientVars
<1>2. ASSUME NEW f \in Files, Resize(f)
      PROVE  Stage'
  <2>1. UNCHANGED <<choosing, m_strUploadFilePath, uploader, up, down,
                    m_fUploadFile, m_iUploadFileSize, m_iReceiveSize, written, full>>
    BY <1>2 DEF Resize, clientVars, serverVars
  <2>2. CASE Quiet
    <3>1. Quiet'
      BY <2>1, <2>2, QuietStays
    <3> QED BY <3>1 DEF Stage
  <2>3. CASE ~choosing /\ Announced
    BY <2>1, <2>3 DEF Stage, Announced, NoneRuns
  <2>4. CASE ~choosing /\ Accepted
    BY <2>1, <2>4 DEF Stage, Accepted, NoneRuns
  <2>5. CASE ~choosing /\ Refused
    BY <2>1, <2>5 DEF Stage, Refused, NoneRuns
  <2>6. CASE ~choosing /\ Carrying
    BY <2>1, <2>6 DEF Stage, Carrying, InFlight, Stored, Answered
  <2> QED BY <2>2, <2>3, <2>4, <2>5, <2>6 DEF Stage
<1> QED BY <1>1, <1>2

\* No stage mentions what recvMsg has read.
LEMMA StageStays ==
    ASSUME Stage,
           UNCHANGED <<local, choosing, m_strUploadFilePath, uploader, up, down, m_fUploadFile,
                       m_iUploadFileSize, m_iReceiveSize, written, spoiled, full>>
    PROVE  Stage'
<1>1. /\ Quiet' = Quiet /\ Announced' = Announced /\ Accepted' = Accepted
      /\ Refused' = Refused /\ Carrying' = Carrying /\ choosing' = choosing
  BY DEF Quiet, Announced, Accepted, Refused, Carrying, NoneRuns, InFlight, Stored, Answered,
         Unspoiled
<1> QED BY <1>1 DEF Stage

\* So recvMsg's reading and waiting leave it as it is.
LEMMA StageRead ==
    ASSUME UploadTypeOK, ~overlapped => Stage, ~overlapped',
           Arrive \/ OtherMessage \/ CloseDialog, UNCHANGED <<overlapped, spoiled>>,
           full \in BOOLEAN, full' = (full \/ Lost)
    PROVE  Stage'
<1>1. UNCHANGED <<local, choosing, m_strUploadFilePath, uploader, up, down, m_fUploadFile,
                  m_iUploadFileSize, m_iReceiveSize, written>>
  BY NothingHandled
<1>2. m_iReceiveSize \in Nat
  BY Basics
<1>3. ~Lost
  BY <1>1, <1>2 DEF Lost
<1>4. full' = full
  BY <1>3, Zenon
<1> QED BY <1>1, <1>4, StageStays

\* The answer to the announcement starts an uploader.
LEMMA StageStart ==
    ASSUME UploadTypeOK, ~overlapped => Stage, ~overlapped',
           NEW i \in Uploaders, StartUpload(i), UNCHANGED <<overlapped, spoiled>>
    PROVE  Stage'
<1>1. down # <<>> /\ Head(down) = Respond("init", TRUE) /\ down' = Tail(down)
  BY OneHandled DEF StartUpload
<1>2. down[1] = Respond("init", TRUE) /\ 1 \in 1..Len(down)
  <2>1. down \in Seq(DownMessages)
    BY Basics
  <2>2. Head(down) = down[1] /\ Len(down) \in Nat /\ Len(down) >= 1
    BY <1>1, <2>1, TakeFirst
  <2>3. 1 \in 1..Len(down)
    BY <2>2
  <2>4. down[1] = Respond("init", TRUE)
    BY <1>1, <2>2, Zenon
  <2> QED BY <2>3, <2>4
<1>3. ~choosing /\ Accepted
  <2>1. ~Quiet /\ ~Announced
    BY <1>1 DEF Quiet, Announced
  <2>2. ~Refused
    BY <1>2 DEF Refused, Respond
  <2>3. ~Carrying
    BY <1>2 DEF Carrying, Answered, Respond
  <2> QED BY <2>1, <2>2, <2>3 DEF Stage
<1>4. down' = <<>> /\ up' = <<>>
  BY <1>1, <1>3 DEF Accepted, StartUpload
<1>5. UNCHANGED <<local, choosing, m_strUploadFilePath, m_fUploadFile, m_iUploadFileSize,
                  m_iReceiveSize, written>>
  BY DEF StartUpload, clientVars, serverVars
<1>6. \A j \in Uploaders :
          uploader'[j].runs => j = i /\ uploader'[j].path = m_strUploadFilePath
                                     /\ uploader'[j].sent = 0
  BY <1>3, Basics DEF StartUpload, Accepted, NoneRuns
<1>7. uploader'[i].runs
  BY Basics DEF StartUpload
<1>8. InFlight'
  BY <1>3, <1>4, <1>5, <1>6 DEF InFlight, Accepted
<1>9. Stored'
  <2>1. Prefix(m_strUploadFilePath, 0) = <<>>
    BY DEF Prefix
  <2> QED BY <1>3, <1>5, <2>1 DEF Stored, Accepted
<1>10. Answered'
  BY <1>4 DEF Answered
<1>11. ~spoiled' => Unspoiled'
  <2> SUFFICES ASSUME ~spoiled' PROVE Unspoiled'
    OBVIOUS
  <2>1. m_iUploadFileSize' = local'[m_strUploadFilePath'] /\ m_iUploadFileSize' \in Nat
    BY <1>3, <1>5, Basics DEF Accepted
  <2>2. ~NoneRuns'
    BY <1>7 DEF NoneRuns
  <2>3. m_iReceiveSize' = 0 /\ Len(up') = 0 /\ Len(down') = 0
    BY <1>3, <1>4, <1>5 DEF Accepted
  <2> QED BY <2>1, <2>2, <2>3 DEF Unspoiled
<1> QED BY <1>3, <1>5, <1>8, <1>9, <1>10, <1>11 DEF Stage, Carrying, Accepted

\* Any other answer is shown to the user.
LEMMA StageShow ==
    ASSUME UploadTypeOK, ~overlapped => Stage, ~overlapped',
           ShowAnswer, UNCHANGED <<overlapped, spoiled>>, full' = (full \/ Lost)
    PROVE  Stage'
<1>1. /\ down # <<>> /\ Head(down) # Respond("init", TRUE) /\ down' = Tail(down)
      /\ UNCHANGED <<local, choosing, m_strUploadFilePath, uploader, up, m_fUploadFile,
                     m_iUploadFileSize, m_iReceiveSize, written>>
  BY OneHandled DEF ShowAnswer, clientVars, serverVars
<1>2. CASE ~choosing /\ Refused
  <2>1. down' = <<>>
    BY <1>1, <1>2 DEF Refused
  <2>2. up' = <<>>
    BY <1>1, <1>2 DEF Refused
  <2>3. \A i \in Uploaders : ~uploader'[i].runs
    BY <1>1, <1>2 DEF Refused, NoneRuns
  <2>4. Quiet'
    BY <2>1, <2>2, <2>3 DEF Quiet
  <2> QED BY <2>4 DEF Stage
<1>3. CASE ~choosing /\ Carrying
  <2>1. /\ Len(down') = Len(down) - 1 /\ Len(down) \in Nat
        /\ \A j \in 1..Len(down') : down'[j] = down[j + 1]
    BY <1>1, Basics, TakeFirst
  <2>2. \A j \in 1..Len(down') : j + 1 \in 1..Len(down)
    BY <2>1
  <2>3. Answered'
    BY <1>1, <1>3, <2>1, <2>2 DEF Carrying, Answered
  <2>4. ~full' => ~full
    BY DEF Lost
  <2>5. InFlight' /\ Stored'
    BY <1>1, <1>3, <2>4 DEF Carrying, InFlight, Stored
  <2>6. ~spoiled' => Unspoiled'
    BY <1>1, <1>3, <2>1 DEF Carrying, Unspoiled, NoneRuns
  <2> QED BY <1>1, <1>3, <2>3, <2>5, <2>6 DEF Stage, Carrying
<1>4. ~Quiet /\ ~Announced /\ ~Accepted
  <2>1. ~Quiet /\ ~Announced
    BY <1>1 DEF Quiet, Announced
  <2>2. down = <<Respond("init", TRUE)>> => Head(down) = Respond("init", TRUE)
    OBVIOUS
  <2> QED BY <1>1, <2>1, <2>2 DEF Accepted
<1> QED BY <1>2, <1>3, <1>4 DEF Stage

\* The uploader reads and sends a chunk.
LEMMA StageChunk ==
    ASSUME UploadTypeOK, ~overlapped => Stage, ~overlapped',
           NEW i \in Uploaders, UploadChunk(i), UNCHANGED <<overlapped, spoiled>>,
           full' = (full \/ Lost)
    PROVE  Stage'
<1> DEFINE f == m_strUploadFilePath
           m == DataRequest(uploader[i].path, uploader[i].sent + 1)
<1>1. /\ uploader[i].runs /\ uploader[i].path \in Files /\ uploader[i].sent \in Nat
      /\ uploader[i].sent < local[uploader[i].path] /\ up' = Append(up, m)
      /\ UNCHANGED <<local, choosing, m_strUploadFilePath, down, m_fUploadFile,
                     m_iUploadFileSize, m_iReceiveSize, written>>
  BY Basics DEF UploadChunk, clientVars, serverVars, Threads
<1>2. uploader' = [uploader EXCEPT ![i].sent = @ + 1]
  BY DEF UploadChunk
<1>3. ~choosing /\ Carrying
  BY <1>1 DEF Stage, Quiet, Announced, Accepted, Refused, NoneRuns
<1>4. /\ uploader[i].path = f
      /\ uploader[i].sent = m_iReceiveSize + Len(up)
      /\ \A j \in Uploaders : uploader[j].runs => j = i
  BY <1>1, <1>3 DEF Carrying, InFlight
<1>5. /\ Len(up') = Len(up) + 1
      /\ \A j \in 1..Len(up) : up'[j] = up[j]
      /\ up'[Len(up) + 1] = DataRequest(f, m_iReceiveSize + Len(up) + 1)
  <2>1. m \in UpMessages
    <3>1. uploader[i].sent + 1 \in 1..MaxLen[uploader[i].path]
      BY <1>1, LocalSize
    <3> QED BY <1>1, <3>1, ChunkOf
  <2>2. /\ Len(up') = Len(up) + 1 /\ \A j \in 1..Len(up) : up'[j] = up[j]
        /\ up'[Len(up) + 1] = m
    BY <1>1, <2>1, Basics, PutLast
  <2> QED BY <1>4, <2>2
<1>6. /\ \A j \in Uploaders : uploader'[j].runs => j = i
      /\ uploader'[i].runs /\ uploader'[i].path = f
      /\ uploader'[i].sent = uploader[i].sent + 1
  <2>1. \A j \in Uploaders : j # i => uploader'[j] = uploader[j]
    BY <1>2, Basics
  <2>2. /\ uploader'[i].runs = uploader[i].runs /\ uploader'[i].path = uploader[i].path
        /\ uploader'[i].sent = uploader[i].sent + 1
    BY <1>2, Basics DEF Threads
  <2> QED BY <1>1, <1>4, <2>1, <2>2
<1>7. InFlight'
  <2>1. ASSUME NEW j \in 1..Len(up')
        PROVE  up'[j] = DataRequest(f, m_iReceiveSize + j)
    <3>1. CASE j \in 1..Len(up)
      BY <1>3, <1>5, <3>1 DEF Carrying, InFlight
    <3>2. CASE j = Len(up) + 1
      <4>1. m_iReceiveSize + (Len(up) + 1) = m_iReceiveSize + Len(up) + 1
        BY Basics
      <4> QED BY <1>5, <3>2, <4>1
    <3>3. j \in 1..Len(up) \/ j = Len(up) + 1
      BY <1>5, Basics
    <3> QED BY <3>1, <3>2, <3>3
  <2>2. uploader'[i].sent = m_iReceiveSize + Len(up')
    BY <1>4, <1>5, <1>6, Basics
  <2> QED BY <1>1, <1>6, <2>1, <2>2 DEF InFlight
<1>8. ~full' => ~full
  BY DEF Lost
<1>9. Stored' /\ Answered'
  BY <1>1, <1>3, <1>8 DEF Carrying, Stored, Answered
<1>10. ~spoiled' => Unspoiled'
  <2> SUFFICES ASSUME ~spoiled' PROVE Unspoiled'
    OBVIOUS
  <2>1. Unspoiled
    BY <1>3 DEF Carrying
  <2>2. m_iReceiveSize + Len(up') <= m_iUploadFileSize
    <3>1. m_iReceiveSize + Len(up) < m_iUploadFileSize
      BY <1>1, <1>4, <2>1 DEF Unspoiled
    <3> QED BY <1>5, <3>1, Basics
  <2>3. ~NoneRuns'
    BY <1>6 DEF NoneRuns
  <2> QED BY <1>1, <2>1, <2>2, <2>3 DEF Unspoiled
<1> QED BY <1>1, <1>3, <1>7, <1>9, <1>10 DEF Stage, Carrying

\* The uploader finds nothing left to read.
LEMMA StageEnds ==
    ASSUME UploadTypeOK, ~overlapped => Stage, ~overlapped',
           NEW i \in Uploaders, UploadEnds(i), UNCHANGED <<overlapped, spoiled>>,
           full' = (full \/ Lost)
    PROVE  Stage'
<1>1. /\ uploader[i].runs
      /\ UNCHANGED <<local, choosing, m_strUploadFilePath, up, down, m_fUploadFile,
                     m_iUploadFileSize, m_iReceiveSize, written>>
  BY DEF UploadEnds, clientVars, serverVars
<1>2. ~choosing /\ Carrying
  BY <1>1 DEF Stage, Quiet, Announced, Accepted, Refused, NoneRuns
<1>3. \A j \in Uploaders : uploader'[j].runs => uploader[j].runs /\ uploader'[j] = uploader[j]
  BY Basics DEF UploadEnds, Idle
<1>4. InFlight'
  BY <1>1, <1>2, <1>3 DEF Carrying, InFlight
<1>5. ~full' => ~full
  BY DEF Lost
<1>6. Stored' /\ Answered'
  BY <1>1, <1>2, <1>5 DEF Carrying, Stored, Answered
<1>7. ~spoiled' => Unspoiled'
  <2> SUFFICES ASSUME ~spoiled' PROVE Unspoiled'
    OBVIOUS
  <2>1. Unspoiled
    BY <1>2 DEF Carrying
  <2>2. /\ uploader[i].path = m_strUploadFilePath /\ m_strUploadFilePath \in Files
        /\ uploader[i].sent = m_iReceiveSize + Len(up)
    BY <1>1, <1>2 DEF Carrying, InFlight
  <2>3. m_iReceiveSize + Len(up) >= local[m_strUploadFilePath]
    BY <2>2, Basics DEF UploadEnds
  <2>4. m_iReceiveSize + Len(up) = m_iUploadFileSize
    <3>1. /\ m_iReceiveSize + Len(up) >= m_iUploadFileSize
          /\ m_iReceiveSize + Len(up) <= m_iUploadFileSize
      BY <2>1, <2>3 DEF Unspoiled
    <3> QED BY <3>1, Basics
  <2> QED BY <1>1, <2>1, <2>4 DEF Unspoiled
<1> QED BY <1>1, <1>2, <1>4, <1>6, <1>7 DEF Stage, Carrying

\* The server opens the announced file, or cannot.
LEMMA StageInit ==
    ASSUME UploadTypeOK, ~overlapped => Stage, ~overlapped',
           UploadFileInit, UNCHANGED <<overlapped, spoiled>>, full' = (full \/ Lost)
    PROVE  Stage'
<1> DEFINE f == m_strUploadFilePath
<1>1. /\ up # <<>> /\ Head(up).type = "init" /\ up' = Tail(up)
      /\ m_iUploadFileSize' = Head(up).size /\ written' = <<>> /\ m_iReceiveSize' = 0
      /\ UNCHANGED <<local, choosing, m_strUploadFilePath, uploader>>
  BY DEF UploadFileInit, clientVars
<1>2. /\ Head(up) = up[1] /\ 1 \in 1..Len(up)
      /\ Len(up') = Len(up) - 1 /\ up' \in Seq(UpMessages)
  <2>1. up \in Seq(UpMessages)
    BY Basics
  <2>2. /\ Head(up) = up[1] /\ Len(up) \in Nat /\ Len(up) >= 1
        /\ Len(up') = Len(up) - 1 /\ up' \in Seq(UpMessages)
    BY <1>1, <2>1, TakeFirst
  <2> QED BY <2>2
<1>3. ~choosing /\ Announced
  <2>1. ~Quiet /\ ~Accepted /\ ~Refused
    BY <1>1 DEF Quiet, Accepted, Refused
  <2>2. ~Carrying
    BY <1>1, <1>2 DEF Carrying, InFlight, DataRequest
  <2> QED BY <2>1, <2>2 DEF Stage
<1>4. f \in Files /\ down = <<>> /\ Head(up).file = f /\ Len(up) = 1
  BY <1>2, <1>3 DEF Announced
<1>5. up' = <<>>
  BY <1>2, <1>4
<1>6. NoneRuns'
  BY <1>1, <1>3 DEF Announced, NoneRuns
<1> PICK ret \in BOOLEAN :
        /\ m_fUploadFile' = [name |-> Head(up).file, open |-> ret]
        /\ down' = Append(down, Respond("init", ret))
  BY DEF UploadFileInit
<1>7. down' = <<Respond("init", ret)>>
  BY <1>4
<1>8. CASE ret = TRUE
  <2>1. ~spoiled' => m_iUploadFileSize' = local'[m_strUploadFilePath']
    BY <1>1, <1>2, <1>3 DEF Announced
  <2>2. Accepted'
    BY <1>1, <1>4, <1>5, <1>6, <1>7, <1>8, <2>1 DEF Accepted
  <2> QED BY <1>1, <1>3, <2>2 DEF Stage
<1>9. CASE ret = FALSE
  BY <1>1, <1>3, <1>5, <1>6, <1>7, <1>9 DEF Stage, Refused
<1> QED BY <1>8, <1>9

\* A chunk arrives, is counted, and is written if the file is open and the disk
\* takes it; with the last one comes the answer.
LEMMA StageData ==
    ASSUME UploadTypeOK, ~overlapped => Stage, ~overlapped',
           UploadFileData, UNCHANGED <<overlapped, spoiled>>, full' = (full \/ Lost)
    PROVE  Stage'
<1> DEFINE f == m_strUploadFilePath
<1> PICK r \in Nat : r = m_iReceiveSize
  BY Basics
<1> PICK size \in Nat : size = m_iUploadFileSize
  BY Basics
<1>1. /\ up # <<>> /\ Head(up).type = "data" /\ up' = Tail(up)
      /\ m_iReceiveSize' = r + 1 /\ m_iUploadFileSize' = size
      /\ UNCHANGED <<local, choosing, m_strUploadFilePath, uploader>>
  BY DEF UploadFileData, clientVars
<1>2. /\ Head(up) = up[1] /\ Len(up) \in Nat /\ Len(up) >= 1
      /\ Len(up') = Len(up) - 1
      /\ \A j \in 1..Len(up') : up'[j] = up[j + 1]
  <2>1. up \in Seq(UpMessages)
    BY Basics
  <2> QED BY <1>1, <2>1, TakeFirst
<1>3. 1 \in 1..Len(up) /\ \A j \in 1..Len(up') : j + 1 \in 1..Len(up)
  BY <1>2
<1>4. ~choosing /\ Carrying
  <2>1. ~Quiet /\ ~Accepted /\ ~Refused
    BY <1>1 DEF Quiet, Accepted, Refused
  <2>2. ~Announced
    BY <1>1, <1>2 DEF Announced
  <2> QED BY <2>1, <2>2 DEF Stage
<1>5. f \in Files /\ Head(up) = DataRequest(f, r + 1)
  BY <1>2, <1>3, <1>4 DEF Carrying, InFlight
<1>6. InFlight'
  <2>1. ASSUME NEW j \in 1..Len(up')
        PROVE  up'[j] = DataRequest(f, r + 1 + j)
    <3>1. j + 1 \in 1..Len(up) /\ r + (j + 1) = r + 1 + j
      BY <1>3
    <3>2. up'[j] = up[j + 1] /\ up[j + 1] = DataRequest(f, r + (j + 1))
      BY <1>2, <1>4, <3>1 DEF Carrying, InFlight
    <3> QED BY <3>1, <3>2
  <2>2. r + 1 + Len(up') = r + Len(up)
    BY <1>2
  <2>3. \A i \in Uploaders : uploader'[i].runs =>
            uploader'[i].path = f /\ uploader'[i].sent = r + Len(up)
    BY <1>1, <1>4 DEF Carrying, InFlight
  <2>4. \A i, j \in Uploaders : uploader'[i].runs /\ uploader'[j].runs => i = j
    BY <1>1, <1>4 DEF Carrying, InFlight
  <2> QED BY <1>1, <2>1, <2>2, <2>3, <2>4 DEF InFlight
\* The file after the step, and the answer.
<1>7. /\ m_fUploadFile'.name = f
      /\ m_fUploadFile'.open <=> m_fUploadFile.open /\ r + 1 < size
  <2>1. /\ m_fUploadFile'.name = m_fUploadFile.name
        /\ m_fUploadFile'.open = (m_fUploadFile.open /\ ~(r + 1 >= size))
    BY Basics DEF UploadFileData, Done
  <2>2. m_fUploadFile.name = f
    BY <1>4 DEF Carrying, Stored
  <2>3. ~(r + 1 >= size) <=> r + 1 < size
    OBVIOUS
  <2> QED BY <2>1, <2>2, <2>3
<1>8. ~full' => ~full
  OBVIOUS
<1>9. CASE m_fUploadFile.open
  <2>1. r = 0 \/ r < size
    BY <1>4, <1>9 DEF Carrying, Stored
  <2>2. ~full' => written' = Prefix(f, r + 1)
    <3> SUFFICES ASSUME ~full' PROVE written' = Prefix(f, r + 1)
      OBVIOUS
    <3>1. written = Prefix(f, r)
      BY <1>4, <1>8, <1>9 DEF Carrying, Stored
    <3>2. written' = Append(written, <<f, r + 1>>)
      <4>1. written' # written
        BY <1>1, <1>9 DEF Lost
      <4>2. written' = Append(written, <<Head(up).file, Head(up).chunk>>)
        BY <4>1 DEF UploadFileData
      <4>3. Head(up).file = f /\ Head(up).chunk = r + 1
        BY <1>5 DEF DataRequest
      <4> QED BY <4>2, <4>3
    <3> QED BY <1>5, <3>1, <3>2, PrefixGrows
  <2>3. Stored'
    <3>1. ASSUME m_fUploadFile'.open
          PROVE  /\ r + 1 < size
                 /\ ~full' => written' = Prefix(f, r + 1)
      BY <1>7, <2>2, <3>1
    <3>2. ASSUME ~m_fUploadFile'.open
          PROVE  /\ r + 1 >= 1 /\ r + 1 >= size
                 /\ ~full' /\ size >= 1 => written' = Prefix(f, size)
      <4>1. r + 1 >= size
        BY <1>7, <1>9, <3>2
      <4>2. size >= 1 => size = r + 1
        BY <2>1, <4>1
      <4> QED BY <2>2, <4>1, <4>2
    <3> QED BY <1>1, <1>7, <3>1, <3>2 DEF Stored
  <2>4. down = <<>>
    <3>1. ~(1 \in 1..Len(down))
      BY <1>4, <1>9 DEF Carrying, Answered
    <3> QED BY <3>1, Basics
  <2>5. Answered' /\ Len(down') <= 1
    <3>1. CASE Done(r + 1)
      <4>1. down' = <<Respond("data", r + 1 = size)>>
        BY <2>4, <3>1 DEF UploadFileData
      <4>2. ~m_fUploadFile'.open
        BY <1>7, <3>1 DEF Done
      <4>3. r + 1 = size => size >= 1
        OBVIOUS
      <4>4. Len(down') = 1 /\ down'[1].type = "data" /\ down'[1].ret = (r + 1 = size)
        BY <4>1 DEF Respond
      <4>5. down'[1].ret => size >= 1
        BY <4>3, <4>4
      <4>6. \A j \in 1..Len(down') : j = 1
        BY <4>4
      <4>7. Answered'
        BY <1>1, <4>2, <4>4, <4>5, <4>6 DEF Answered
      <4> QED BY <4>4, <4>7
    <3>2. CASE ~Done(r + 1)
      <4>1. down' = <<>>
        BY <2>4, <3>2 DEF UploadFileData
      <4> QED BY <4>1 DEF Answered
    <3> QED BY <3>1, <3>2
  <2>6. ~spoiled' => Unspoiled'
    <3> SUFFICES ASSUME ~spoiled' PROVE Unspoiled'
      OBVIOUS
    <3>1. Unspoiled
      BY <1>4 DEF Carrying
    <3>2. r + 1 + Len(up') = r + Len(up)
      BY <1>2
    <3> QED BY <1>1, <2>5, <3>1, <3>2 DEF Unspoiled, NoneRuns
  <2> QED BY <1>1, <1>4, <1>6, <2>3, <2>5, <2>6 DEF Stage, Carrying
<1>10. CASE ~m_fUploadFile.open
  <2>1. r >= 1 /\ r >= size
    BY <1>4, <1>10 DEF Carrying, Stored
  <2>2. written' = written
    BY <1>10 DEF UploadFileData
  <2>3. ~m_fUploadFile'.open
    BY <1>7, <1>10
  <2>4. Stored'
    <3>1. ~full /\ size >= 1 => written = Prefix(f, size)
      BY <1>4, <1>10 DEF Carrying, Stored
    <3>2. r + 1 >= 1 /\ r + 1 >= size
      BY <2>1
    <3> QED BY <1>1, <1>7, <1>8, <2>2, <2>3, <3>1, <3>2 DEF Stored
  <2>5. Answered'
    <3>1. /\ Done(r + 1) /\ r + 1 # size
      BY <2>1 DEF Done
    <3>2. down' = Append(down, Respond("data", FALSE))
      BY <3>1 DEF UploadFileData
    <3>3. down \in Seq(DownMessages)
      BY Basics
    <3>a. PICK no \in DownMessages : no = Respond("data", FALSE)
      BY DEF Respond, DownMessages
    <3>b. down' = Append(down, no)
      BY <3>2, <3>a
    <3>4. /\ Len(down') = Len(down) + 1 /\ Len(down) \in Nat
          /\ \A j \in 1..Len(down) : down'[j] = down[j]
          /\ down'[Len(down) + 1] = no
      BY ONLY <3>3, <3>b, PutLast
    <3>5. ASSUME NEW j \in 1..Len(down')
          PROVE  down'[j].type = "data" /\ (down'[j].ret => size >= 1)
      <4>1. CASE j \in 1..Len(down)
        BY <1>4, <3>4, <4>1 DEF Carrying, Answered
      <4>2. CASE j = Len(down) + 1
        BY <3>a, <3>4, <4>2 DEF Respond
      <4> QED BY <3>4, <4>1, <4>2
    <3> QED BY <1>1, <2>3, <3>5 DEF Answered
  <2>6. spoiled'
    <3> SUFFICES ASSUME ~spoiled' PROVE FALSE
      OBVIOUS
    <3>1. r + Len(up) <= size
      BY <1>4 DEF Carrying, Unspoiled
    <3> QED BY <1>2, <2>1, <3>1
  <2> QED BY <1>1, <1>4, <1>6, <2>4, <2>5, <2>6 DEF Stage, Carrying
<1> QED BY <1>9, <1>10

-----------------------------------------------------------------------------
\* The history constrains no step.
LEMMA UploadHistoryStep == [UHNext]_uhVars => [UploadNext]_uploadVars
BY DEF UHNext, UploadNext, uhVars, User

\* At the start nothing is under way.
LEMMA InvInit == UHInit => UploadInv
<1> SUFFICES ASSUME UHInit PROVE UploadInv
  OBVIOUS
<1>1. UploadTypeOK
  BY UploadTypeInit DEF UHInit
<1>2. Quiet
  BY DEF UHInit, UploadInit, Quiet, Idle
<1> QED BY <1>1, <1>2 DEF UploadInv, Stage, UHInit

\* Every step keeps the invariant.
LEMMA InvNext == UploadInv /\ [UHNext]_uhVars => UploadInv'
<1> SUFFICES ASSUME UploadInv, [UHNext]_uhVars PROVE UploadInv'
  OBVIOUS
<1>1. UploadTypeOK /\ (~overlapped => Stage)
  BY DEF UploadInv
<1>2. UploadTypeOK'
  BY <1>1, UploadHistoryStep, TypeNext
<1>3. overlapped' \in BOOLEAN /\ spoiled' \in BOOLEAN /\ full' \in BOOLEAN
  BY DEF UploadInv, UHNext, uhVars
<1>4. ASSUME ~overlapped'
      PROVE  Stage'
  <2>1. CASE ClickUpload /\ overlapped' = ~Quiet /\ spoiled' = FALSE /\ full' = FALSE
    BY <1>1, <1>4, <2>1, StageUser
  <2>2. CASE /\ \/ \E f \in Files : Choose(f)
                \/ Cancel \/ Receive \/ Serve
                \/ \E i \in Uploaders : Upload(i)
             /\ full' = (full \/ Lost)
             /\ UNCHANGED <<overlapped, spoiled>>
    <3>1. CASE (\E f \in Files : Choose(f)) \/ Cancel
      BY <1>1, <1>4, <2>2, <3>1, StageUser
    <3>2. CASE Handle
      BY <1>1, <1>4, <2>2, <3>2, StageStart, StageShow DEF Handle
    <3>5. CASE Arrive \/ OtherMessage \/ CloseDialog
      BY <1>1, <1>4, <2>2, <3>5, StageRead DEF UploadInv
    <3>3. CASE Serve
      BY <1>1, <1>4, <2>2, <3>3, StageInit, StageData DEF Serve
    <3>4. CASE \E i \in Uploaders : Upload(i)
      BY <1>1, <1>4, <2>2, <3>4, StageChunk, StageEnds DEF Upload
    <3> QED BY <2>2, <3>1, <3>2, <3>3, <3>4, <3>5 DEF Receive
  <2>3. CASE /\ \/ \E i \in Uploaders : UploadBreaks(i)
                \/ \E f \in Files : Resize(f)
             /\ spoiled' = ~overlapped /\ UNCHANGED <<overlapped, full>>
    <3>1. spoiled' = TRUE
      BY <1>4, <2>3
    <3> QED BY <1>1, <1>4, <2>3, <3>1, StageSpoil
  <2>4. CASE UNCHANGED uhVars
    BY <1>1, <1>4, <2>4, StageStays DEF uhVars, uploadVars, clientVars, serverVars
  <2> QED BY <2>1, <2>2, <2>3, <2>4 DEF UHNext
<1> QED BY <1>2, <1>3, <1>4 DEF UploadInv

\* The invariant holds of every upload.
LEMMA InvHolds == UHSpec => []UploadInv
BY InvInit, InvNext, PTL DEF UHSpec

\* The answer TRUE to an upload that no other overlapped means that the
\* server's file is the user's, chunk by chunk and as long as announced, even
\* if the file changed on the way, unless the disk did not take a chunk.
THEOREM SuccessIsIntact == UHSpec => []SuccessMeansIntact
<1>1. UploadInv => SuccessMeansIntact
  <2> SUFFICES ASSUME UploadInv, ~overlapped, ~full, NEW j \in Answers, down[j].ret
               PROVE  /\ m_fUploadFile.name = m_strUploadFilePath
                      /\ written = [k \in 1..m_iUploadFileSize |-> <<m_strUploadFilePath, k>>]
    BY DEF SuccessMeansIntact
  <2>1. UploadTypeOK /\ Stage
    BY DEF UploadInv
  <2>2. j \in 1..Len(down) /\ down[j].type = "data"
    BY <2>1, Basics DEF Answers
  <2>3. ~Quiet /\ ~Announced
    BY <2>2 DEF Quiet, Announced
  <2>4. ~Accepted /\ ~Refused
    BY <2>2 DEF Accepted, Refused, Respond
  <2>5. Carrying
    BY <2>1, <2>3, <2>4 DEF Stage
  <2>6. ~m_fUploadFile.open /\ m_iUploadFileSize >= 1
    BY <2>2, <2>5 DEF Carrying, Answered
  <2> QED BY <2>5, <2>6 DEF Carrying, Stored, Prefix
<1> QED BY <1>1, InvHolds, PTL

\* When nothing went wrong the answer is the last of an upload: the server has
\* closed the file, nothing is on its way, and the uploader has sent it all.
THEOREM AnswerComesLast == UHSpec => []AnswerIsLast
<1>1. UploadInv => AnswerIsLast
  <2> SUFFICES ASSUME UploadInv, ~overlapped, ~spoiled, NEW j \in Answers
               PROVE  /\ Len(down) = 1 /\ up = <<>>
                      /\ ~m_fUploadFile.open
                      /\ \A i \in Uploaders :
                             uploader[i].runs => uploader[i].sent = local[uploader[i].path]
    BY DEF AnswerIsLast
  <2>1. UploadTypeOK /\ Stage
    BY DEF UploadInv
  <2>2. j \in 1..Len(down) /\ down[j].type = "data"
    BY <2>1, Basics DEF Answers
  <2>3. ~Quiet /\ ~Announced
    BY <2>2 DEF Quiet, Announced
  <2>4. ~Accepted /\ ~Refused
    BY <2>2 DEF Accepted, Refused, Respond
  <2>5. Carrying /\ Unspoiled
    BY <2>1, <2>3, <2>4 DEF Stage, Carrying
  <2>6. ~m_fUploadFile.open
    BY <2>2, <2>5 DEF Carrying, Answered
  <2>7. m_iReceiveSize >= m_iUploadFileSize
    BY <2>5, <2>6 DEF Carrying, Stored
  <2>8. m_iReceiveSize + Len(up) <= m_iUploadFileSize /\ Len(down) <= 1
    BY <2>5 DEF Unspoiled
  <2>9. Len(up) = 0 /\ m_iReceiveSize = m_iUploadFileSize /\ Len(down) = 1
    <3>1. /\ Len(up) \in Nat /\ Len(down) \in Nat
          /\ m_iReceiveSize \in Nat /\ m_iUploadFileSize \in Nat
      BY <2>1, Basics
    <3> PICK u \in Nat, d \in Nat, r \in Nat, size \in Nat :
            /\ u = Len(up) /\ d = Len(down)
            /\ r = m_iReceiveSize /\ size = m_iUploadFileSize
      BY <3>1
    <3>2. d >= 1
      BY <2>2
    <3>3. r >= size /\ r + u <= size /\ d <= 1
      BY <2>7, <2>8
    <3>4. u = 0 /\ r = size /\ d = 1
      BY <3>2, <3>3
    <3> QED BY <3>4
  <2>10. up = <<>>
    BY <2>1, <2>9, Basics
  <2>11. ASSUME NEW i \in Uploaders, uploader[i].runs
         PROVE  uploader[i].sent = local[uploader[i].path]
    <3>1. /\ uploader[i].path = m_strUploadFilePath
          /\ uploader[i].sent = m_iReceiveSize + Len(up)
      BY <2>5, <2>11 DEF Carrying, InFlight
    <3>2. local[m_strUploadFilePath] = m_iUploadFileSize
      BY <2>5 DEF Unspoiled
    <3> QED BY <2>1, <2>9, <3>1, <3>2, Basics
  <2> QED BY <2>6, <2>9, <2>10, <2>11
<1> QED BY <1>1, InvHolds, PTL
=============================================================================
