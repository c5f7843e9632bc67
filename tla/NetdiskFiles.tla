---------------------------- MODULE NetdiskFiles ----------------------------
(***************************************************************************)
(* The netdisk's directories and shares: the handlers of src/Server/       *)
(* msghandler.cpp over the server's file system, and the buttons of        *)
(* src/Client/file.cpp and sharefile.cpp with the answers that             *)
(* src/Client/reshandler.cpp handles.  A user has one connection.          *)
(*                                                                         *)
(* The file system is external: a function from the paths that exist to    *)
(* Dir or a file's content.  mkdir, rename and copy never replace what is  *)
(* there (QDir, QFile), and a path of more than MaxDepth names is refused. *)
(* A path is a sequence: a user and then names; names are numbers, in      *)
(* their order.  What lies beside the users' directories is taken for one  *)
(* more user's, who does nothing.                                          *)
(*                                                                         *)
(* Dialogs are left out: they are modal, and what the handler uses after   *)
(* one was read before it, or only the user could have changed it.  Nor is *)
(* the selected item: it may be any in the list, or none.                  *)
(***************************************************************************)
EXTENDS Integers, SequencesExt, FiniteSets

CONSTANTS
    Users,
    Acting,         \* the users that click; the others are asked to accept
    MaxName,        \* names are 1..MaxName
    Dir, Contents,
    Trees,          \* the file systems to begin with
    Beyond,         \* the paths that a typed name may lead to with .. or / in it
    NoPath,
    MaxDepth,       \* bound: the length of a path
    MaxActs,        \* bound: the clicks
    MaxPending,     \* bound: a user's messages under way at a click
    MaxFaults       \* bound: the operations the file system refuses for no
                    \* reason of this module: a full disk, permissions

Names == 1..MaxName

ASSUME FilesAssumption ==
    /\ Acting \subseteq Users /\ Dir \notin Contents
    /\ {MaxName, MaxDepth, MaxActs, MaxPending, MaxFaults} \subseteq Nat

VARIABLES
    fs,             \* the paths that exist, with what they are
    faults,
    requests,       \* requests[u]: from u to the server
    answers,        \* answers[u]: from the server to u, other users' included
    m_strCurPath,   \* m_strCurPath[u]: the directory u is in
    list,           \* m_pFileInfoList: names, each with whether it is a directory
    m_strMvFilePath,        \* what u is about to move, or NoPath when the
                            \* button does not say so
    m_strShareFilePath,     \* what u's share window is about
    undefined,      \* undefined[u]: the server's behaviour is, from an answer to u on
    acts

serverVars == <<fs, faults, undefined>>
windowVars == <<m_strCurPath, list, m_strMvFilePath, m_strShareFilePath>>
messageVars == <<requests, answers>>
filesVars == <<serverVars, windowVars, messageVars, acts>>

Paths ==
    UNION {{p \in [1..n -> Users \cup Names] :
                p[1] \in Users /\ \A i \in 2..n : p[i] \in Names} : n \in 1..MaxDepth}

\* A file system: trees below the users' directories, of which any may be missing:
\* nobody looks at the result of the mkdir in regist.
IsTree(t) ==
    /\ DOMAIN t \subseteq Paths
    /\ \A p \in DOMAIN t : t[p] \in {Dir} \cup Contents
    /\ \A p \in DOMAIN t : Len(p) > 1 => Front(p) \in DOMAIN t /\ t[Front(p)] = Dir

ASSUME PathsAssumption == Beyond \subseteq Paths /\ \A t \in Trees : IsTree(t)

Exists(p) == p \in DOMAIN fs
IsDir(p) == Exists(p) /\ fs[p] = Dir
HasParent(p) == Len(p) = 1 \/ IsDir(Front(p))
Under(p) == {q \in DOMAIN fs : IsPrefix(p, q)}
Within(p, q) == SubSeq(q, Len(p) + 1, Len(q))   \* q, as seen from p

\* What f has, over what g has.
Over(f, g) == [q \in DOMAIN f \cup DOMAIN g |-> IF q \in DOMAIN f THEN f[q] ELSE g[q]]

\* What entryInfoList says of the directory p, without . and ..
Entries(p) ==
    {<<n, IsDir(Append(p, n))>> : n \in {n \in Names : Exists(Append(p, n))}}

FlushOf(p) == <<"flushFile", p>>

(* File::File has asked for the list of the user's directory, and the list *)
(* is there if the directory is.                                           *)
FilesInit ==
    /\ fs \in Trees
    /\ faults = 0 /\ acts = 0
    /\ m_strCurPath = [u \in Users |-> <<u>>]
    /\ list = [u \in Users |-> Entries(<<u>>)]
    /\ requests = [u \in Users |-> IF IsDir(<<u>>) THEN <<>> ELSE <<FlushOf(<<u>>)>>]
    /\ answers = [u \in Users |-> <<>>]
    /\ m_strMvFilePath = [u \in Users |-> NoPath]
    /\ m_strShareFilePath = [u \in Users |-> NoPath]
    /\ undefined = [u \in Users |-> FALSE]

-----------------------------------------------------------------------------
Send(u, msg) == requests' = [requests EXCEPT ![u] = Append(@, msg)]
Pending(u) == Len(requests[u]) + Len(answers[u])

\* u clicks on something that sends msg.
Click(u, msg) ==
    /\ acts < MaxActs /\ Pending(u) < MaxPending
    /\ acts' = acts + 1
    /\ Send(u, msg)
    /\ UNCHANGED <<answers, serverVars>>

Here(u, n) == Append(m_strCurPath[u], n)

\* What a typed name leads to: the client asks that it be not empty nor too long.
Typed(u) == {Here(u, n) : n \in Names} \cup Beyond

(* Lines 103-106 and 157-179: the path changes at once, if it does, and    *)
(* the list when the answer comes.                                         *)
Enter(u, p) ==
    /\ m_strCurPath' = [m_strCurPath EXCEPT ![u] = p]
    /\ Click(u, FlushOf(p))
    /\ UNCHANGED <<list, m_strMvFilePath, m_strShareFilePath>>

\* A bug: it is not asked whether the item is a directory.
DoubleClickAny(u) == \E e \in list[u] : Enter(u, Here(u, e[1]))

DoubleClick(u) == \E e \in list[u] : e[2] /\ Enter(u, Here(u, e[1]))

\* A bug: it is not asked whether the user is at the top.
ClickReturnAnywhere(u) == Enter(u, Front(m_strCurPath[u]))

ClickReturn(u) == m_strCurPath[u] # <<u>> /\ Enter(u, Front(m_strCurPath[u]))

ClickFlush(u) == Enter(u, m_strCurPath[u])

(* Lines 90-155: the buttons that ask for one operation here.              *)
ClickMkdir(u) == \E p \in Typed(u) : Click(u, <<"mkdir", p>>) /\ UNCHANGED windowVars

ClickDeldir(u) ==
    \E e \in list[u] : e[2] /\ Click(u, <<"delDir", Here(u, e[1])>>) /\ UNCHANGED windowVars

ClickRename(u) ==
    \E e \in list[u], p \in Typed(u) :
        Click(u, <<"renameFile", Here(u, e[1]), p>>) /\ UNCHANGED windowVars

\* Lines 184-196: what to move is noted with its path.
ClickMove(u) ==
    /\ m_strMvFilePath[u] = NoPath /\ acts < MaxActs
    /\ \E e \in list[u] :
        m_strMvFilePath' = [m_strMvFilePath EXCEPT ![u] = Here(u, e[1])]
    /\ acts' = acts + 1
    /\ UNCHANGED <<serverVars, messageVars, m_strCurPath, list, m_strShareFilePath>>

\* Lines 198-230: to here or into a directory that is selected; the button
\* is back to what it was even if nothing is sent.
ClickMoveHere(u) ==
    /\ m_strMvFilePath[u] # NoPath
    /\ \E to \in {m_strCurPath[u]} \cup {Here(u, e[1]) : e \in {e \in list[u] : e[2]}} :
           Click(u, <<"mvFile", m_strMvFilePath[u], Append(to, Last(m_strMvFilePath[u]))>>)
    /\ m_strMvFilePath' = [m_strMvFilePath EXCEPT ![u] = NoPath]
    /\ UNCHANGED <<m_strCurPath, list, m_strShareFilePath>>

ClickMoveNot(u) ==
    /\ m_strMvFilePath[u] # NoPath
    /\ m_strMvFilePath' = [m_strMvFilePath EXCEPT ![u] = NoPath]
    /\ UNCHANGED <<serverVars, messageVars, m_strCurPath, list, m_strShareFilePath, acts>>

\* Lines 233-245: the share window opens on one path.
ClickShare(u) ==
    /\ acts < MaxActs
    /\ \E e \in list[u] :
        m_strShareFilePath' = [m_strShareFilePath EXCEPT ![u] = Here(u, e[1])]
    /\ acts' = acts + 1
    /\ UNCHANGED <<serverVars, messageVars, m_strCurPath, list, m_strMvFilePath>>

\* sharefile.cpp, 42-60: that path goes to the friends selected in it.
ClickOk(u) ==
    /\ m_strShareFilePath[u] # NoPath
    /\ \E to \in SUBSET (Users \ {u}) : Click(u, <<"shareFile", m_strShareFilePath[u], to>>)
    /\ UNCHANGED windowVars

Act(u) ==
    \/ DoubleClick(u) \/ ClickReturn(u) \/ ClickFlush(u)
    \/ ClickMkdir(u) \/ ClickDeldir(u) \/ ClickRename(u)
    \/ ClickMove(u) \/ ClickMoveHere(u) \/ ClickMoveNot(u)
    \/ ClickShare(u) \/ ClickOk(u)

-----------------------------------------------------------------------------
Asked(u, op) == requests[u] # <<>> /\ Head(requests[u])[1] = op
Arg(u, i) == Head(requests[u])[i + 1]
Took(u) == requests' = [requests EXCEPT ![u] = Tail(@)]
Reply(u, msg) == Took(u) /\ answers' = [answers EXCEPT ![u] = Append(@, msg)]

\* The file system does what it can, or has a fault.
Fault == faults < MaxFaults /\ faults' = faults + 1
Outcome(can, ok) ==
    IF ok THEN can /\ UNCHANGED faults
    ELSE IF can THEN Fault ELSE UNCHANGED faults

Mkdir(u) ==
    /\ Asked(u, "mkdir")
    /\ LET p == Arg(u, 1) IN
       \E ok \in BOOLEAN :
        /\ Outcome(HasParent(p) /\ ~Exists(p) /\ Len(p) <= MaxDepth, ok)
        /\ fs' = IF ok THEN Over([q \in {p} |-> Dir], fs) ELSE fs
        /\ Reply(u, <<"mkdir", ok>>)
    /\ UNCHANGED <<windowVars, undefined, acts>>

FlushFile(u) ==
    /\ Asked(u, "flushFile") /\ IsDir(Arg(u, 1))
    /\ Reply(u, <<"flushFile", Entries(Arg(u, 1))>>)
    /\ UNCHANGED <<windowVars, serverVars, acts>>

(* A directory that does not exist has no entries, . and .. included: the  *)
(* length wraps around and mkPDU fills in more than it has allocated.      *)
FlushNothing(u) ==
    /\ Asked(u, "flushFile") /\ ~IsDir(Arg(u, 1))
    /\ undefined' = [undefined EXCEPT ![u] = TRUE]
    /\ Took(u)
    /\ UNCHANGED <<fs, faults, windowVars, answers, acts>>

\* removeRecursively goes on after what it cannot remove.
DelDir(u) ==
    /\ Asked(u, "delDir")
    /\ LET p == Arg(u, 1) IN
       \E ok \in BOOLEAN, kept \in SUBSET Under(p) :
        /\ Outcome(IsDir(p), ok)
        /\ IF ok THEN kept = {}
           ELSE /\ Exists(p) => p \in kept
                /\ \A q \in kept : q = p \/ Front(q) \in kept
                /\ ~IsDir(p) => kept = Under(p)
        /\ fs' = [q \in (DOMAIN fs \ Under(p)) \cup kept |-> fs[q]]
        /\ Reply(u, <<"delDir", ok>>)
    /\ UNCHANGED <<windowVars, undefined, acts>>

CanRename(old, new) ==
    /\ Exists(old) /\ ~Exists(new) /\ HasParent(new) /\ ~IsPrefix(old, new)
    /\ \A q \in Under(old) : Len(new) + Len(q) - Len(old) <= MaxDepth

Moved(old, new) ==
    [q \in (DOMAIN fs \ Under(old)) \cup {new \o Within(old, q) : q \in Under(old)} |->
        IF IsPrefix(new, q) THEN fs[old \o Within(new, q)] ELSE fs[q]]

(* renameFile and mvFile are one call of QDir::rename.                     *)
RenameFile(u) ==
    \E op \in {"renameFile", "mvFile"}, ok \in BOOLEAN :
        /\ Asked(u, op)
        /\ Outcome(CanRename(Arg(u, 1), Arg(u, 2)), ok)
        /\ fs' = IF ok THEN Moved(Arg(u, 1), Arg(u, 2)) ELSE fs
        /\ Reply(u, <<op, ok>>)
        /\ UNCHANGED <<windowVars, undefined, acts>>

(* The path is passed on to every friend it is for, and u has an answer.   *)
ShareFile(u) ==
    /\ Asked(u, "shareFile")
    /\ Took(u)
    /\ answers' = [v \in Users |->
                      CASE v = u -> Append(answers[v], <<"shareFile", TRUE>>)
                        [] v \in Arg(u, 2) -> Append(answers[v], <<"resend", Arg(u, 1)>>)
                        [] OTHER -> answers[v]]
    /\ UNCHANGED <<windowVars, serverVars, acts>>

-----------------------------------------------------------------------------
\* What copyDir goes through: the path itself, taken for a directory when it
\* does not exist, and all that is under it, as seen from it.
Sources(src) == {<<>>} \cup {Within(src, q) : q \in Under(src)}

\* The directory of dest/r is there, or mkdir made it and all above it.
HasDir(dest, failing, r) ==
    \A i \in 0..(Len(r) - 1) :
        LET q == dest \o SubSeq(r, 1, i)
        IN  IsDir(q) \/ (~Exists(q) /\ q \notin failing)

\* A bug: an entry is copied over what is there.
CopiesOver(dest, failing, r) ==
    /\ IsDir(Front(dest)) /\ dest \o r \notin failing /\ Len(dest \o r) <= MaxDepth
    /\ HasDir(dest, failing, r)

\* Whether mkdir or QFile::copy makes dest/r.
Copies(dest, failing, r) ==
    /\ IsDir(Front(dest))
    /\ ~Exists(dest \o r) /\ dest \o r \notin failing /\ Len(dest \o r) <= MaxDepth
    /\ HasDir(dest, failing, r)

\* The entry whose result copyDir returns: the last one of the last one.
Deciding(src) ==
    CHOOSE r \in Sources(src) :
        \A s \in Sources(src) : \A i \in 1..Len(s) :
            SubSeq(s, 1, i - 1) = SubSeq(r, 1, i - 1) => Len(r) >= i /\ s[i] <= r[i]

(* shareFileAgree with copyDir: the result of mkdir and of every entry is  *)
(* overwritten by that of the next.                                        *)
ShareFileAgree(u) ==
    /\ Asked(u, "agree")
    /\ LET src == Arg(u, 1)
           dest == <<u, Last(src)>>
       IN  \E failing \in {{}} \cup {{dest \o r} : r \in Sources(src)} :
            /\ IF failing = {} THEN UNCHANGED faults ELSE Fault
            /\ LET made == {r \in Sources(src) : Copies(dest, failing, r)}
                   copy == [q \in {dest \o r : r \in made} |->
                               IF Exists(src) THEN fs[src \o Within(dest, q)] ELSE Dir]
               IN  /\ fs' = Over(copy, fs)
                   /\ Reply(u, <<"agree", Deciding(src) \in made>>)
    /\ UNCHANGED <<windowVars, undefined, acts>>

Serve(u) ==
    \/ Mkdir(u) \/ FlushFile(u) \/ FlushNothing(u) \/ DelDir(u) \/ RenameFile(u)
    \/ ShareFile(u) \/ ShareFileAgree(u)

-----------------------------------------------------------------------------
Answered(u, ops) == answers[u] # <<>> /\ Head(answers[u])[1] \in ops
Answer(u) == Head(answers[u])[2]
Heard(u) == answers' = [answers EXCEPT ![u] = Tail(@)]

(* ResHandler::flushFile and File::updateFileList.                         *)
UpdateFileList(u) ==
    /\ Answered(u, {"flushFile"})
    /\ list' = [list EXCEPT ![u] = Answer(u)]
    /\ Heard(u)
    /\ UNCHANGED <<serverVars, m_strCurPath, m_strMvFilePath, m_strShareFilePath, requests,
                   acts>>

\* A bug: the list is not asked for again.
ShowOutcome(u) ==
    /\ Answered(u, {"mkdir", "delDir", "renameFile", "mvFile", "agree"})
    /\ Heard(u)
    /\ UNCHANGED <<serverVars, windowVars, requests, acts>>

(* mkdir, delDir, renameFile, mvFile and shareFileAgree of ResHandler: the *)
(* list of wherever the user is by now is asked for if it was done.        *)
Refresh(u) ==
    /\ Answered(u, {"mkdir", "delDir", "renameFile", "mvFile", "agree"})
    /\ Heard(u)
    /\ IF Answer(u) THEN Send(u, FlushOf(m_strCurPath[u])) ELSE UNCHANGED requests
    /\ UNCHANGED <<serverVars, windowVars, acts>>

(* ResHandler::shareFile.                                                  *)
ShowShared(u) ==
    /\ Answered(u, {"shareFile"})
    /\ Heard(u)
    /\ UNCHANGED <<serverVars, windowVars, requests, acts>>

(* ResHandler::shareFileResend: the user accepts the file or does not.     *)
ShareFileResend(u) ==
    /\ Answered(u, {"resend"})
    /\ Heard(u)
    /\ Send(u, <<"agree", Answer(u)>>) \/ UNCHANGED requests
    /\ UNCHANGED <<serverVars, windowVars, acts>>

Hear(u) == UpdateFileList(u) \/ Refresh(u) \/ ShowShared(u) \/ ShareFileResend(u)

\* After undefined behaviour of the server there is nothing to say.
FilesNext ==
    /\ \A u \in Users : ~undefined[u]
    /\ \/ \E u \in Acting : Act(u)
       \/ \E u \in Users : Serve(u) \/ Hear(u)

FilesSpec == FilesInit /\ [][FilesNext]_filesVars

-----------------------------------------------------------------------------
(* The type invariant.  The file system stays a forest of the users'       *)
(* directories, whatever names are typed; a user is always somewhere in    *)
(* the own one.                                                            *)
FilesTypeOK ==
    /\ IsTree(fs)
    /\ \A u \in Users :
        /\ IsPrefix(<<u>>, m_strCurPath[u])
        /\ list[u] \subseteq Names \X BOOLEAN
        /\ m_strMvFilePath[u] = NoPath \/ m_strMvFilePath[u][1] = u
    /\ faults \in 0..MaxFaults /\ acts \in 0..MaxActs
=============================================================================
