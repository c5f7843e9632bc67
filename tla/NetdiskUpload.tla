--------------------------- MODULE NetdiskUpload ---------------------------
(***************************************************************************)
(* Uploads over one connection of the netdisk: the button and the answers  *)
(* in the client (src/Client/file.cpp, client.cpp, reshandler.cpp), the    *)
(* threads that read the files (uploader.cpp), and the one file the        *)
(* server's MsgHandler keeps open per connection                           *)
(* (src/Server/msghandler.cpp).                                            *)
(*                                                                         *)
(* A file is a sequence of chunks of 40960 bytes, <<f, i>> being chunk i   *)
(* of f.  The connection keeps the order; what an uploader emits is queued *)
(* for the client's thread, which is modelled as the uploader's writing    *)
(* later.                                                                  *)
(***************************************************************************)
EXTENDS Integers, Sequences

CONSTANTS
    Files,
    Uploaders,      \* bound: the uploader threads that exist at once
    NoFile,         \* an empty path
    MaxLen,         \* bound: the most chunks each file may have
    MaxPending      \* bound: messages under way when an upload or a chunk is sent

ASSUME UploadAssumption ==
    NoFile \notin Files /\ MaxLen \in [Files -> Nat] /\ MaxPending \in Nat \ {0}

VARIABLES
    local,              \* local[f]: the chunks of f on the user's disk
    choosing,           \* the file dialog is open
    m_strUploadFilePath,
    uploader,           \* uploader[i]: its path, the chunks it sent, whether it runs
    up, down,           \* messages to the server and to the client, which the
                        \* client has not handled yet
    dialog,             \* a handler's dialog is open inside the client's recvMsg
    read,               \* the messages of down that recvMsg has in its buffer
    unseen,             \* those after them that came in while a dialog was open
                        \* there: no readyRead tells of them
    m_fUploadFile,      \* the file's name and whether it is open
    m_iUploadFileSize, m_iReceiveSize,
    written             \* the chunks written to m_fUploadFile since it was opened

clientVars == <<choosing, m_strUploadFilePath>>
recvVars == <<dialog, read, unseen>>
serverVars == <<m_fUploadFile, m_iUploadFileSize, m_iReceiveSize, written>>
uploadVars == <<local, clientVars, uploader, up, down, recvVars, serverVars>>

Idle == [path |-> NoFile, sent |-> 0, runs |-> FALSE]
InitRequest(f, size) == [type |-> "init", file |-> f, size |-> size]
DataRequest(f, i) == [type |-> "data", file |-> f, chunk |-> i]
Respond(type, ret) == [type |-> type, ret |-> ret]

\* The sizes files may have, and the chunks there may be of them.
Sizes == {l \in [Files -> UNION {0..MaxLen[f] : f \in Files}] :
              \A f \in Files : l[f] <= MaxLen[f]}
Chunks == UNION {{f} \X (1..MaxLen[f]) : f \in Files}

UploadInit ==
    /\ local \in Sizes
    /\ choosing = FALSE
    /\ m_strUploadFilePath = NoFile
    /\ uploader = [i \in Uploaders |-> Idle]
    /\ up = <<>> /\ down = <<>>
    /\ dialog = FALSE /\ read = 0 /\ unseen = 0
    /\ m_fUploadFile = [name |-> NoFile, open |-> FALSE]
    /\ m_iUploadFileSize = 0 /\ m_iReceiveSize = 0
    /\ written = <<>>

-----------------------------------------------------------------------------
(* on_upload_PB_clicked: the path is cleared before the file dialog opens, *)
(* which lets everything else go on.                                       *)
ClickUpload ==
    /\ ~choosing /\ ~dialog
    /\ choosing' = TRUE
    /\ m_strUploadFilePath' = NoFile
    /\ UNCHANGED <<local, uploader, up, down, recvVars, serverVars>>

(* The user chooses f: its name and its present size are sent.             *)
Choose(f) ==
    /\ choosing /\ Len(up) + Len(down) < MaxPending
    /\ choosing' = FALSE
    /\ m_strUploadFilePath' = f
    /\ up' = Append(up, InitRequest(f, local[f]))
    /\ UNCHANGED <<local, uploader, down, recvVars, serverVars>>

(* The user chooses nothing: the path stays empty.                         *)
Cancel ==
    /\ choosing
    /\ choosing' = FALSE
    /\ UNCHANGED <<local, m_strUploadFilePath, uploader, up, down, recvVars, serverVars>>

(* recvMsg on a readyRead: all that has come is read, what a dialog kept   *)
(* from being signalled with it.                                           *)
RecvMsg ==
    /\ ~dialog /\ read = 0 /\ Len(down) > unseen
    /\ read' \in unseen + 1..Len(down) /\ unseen' = 0
    /\ UNCHANGED <<local, clientVars, uploader, up, down, dialog, serverVars>>

(* A message comes in while a dialog is open inside recvMsg: readyRead is  *)
(* not emitted from within itself.                                         *)
ArriveUnseen ==
    /\ dialog /\ Len(down) > read + unseen
    /\ unseen' = unseen + 1
    /\ UNCHANGED <<local, clientVars, uploader, up, down, dialog, read, serverVars>>

(* A message that is not about an upload, or a part of one: recvMsg reads  *)
(* what lies there and comes with it, and its handler may show a dialog.   *)
OtherMessage ==
    /\ ~dialog /\ read = 0
    /\ read' \in unseen..Len(down) /\ unseen' = 0
    /\ dialog' \in BOOLEAN
    /\ UNCHANGED <<local, clientVars, uploader, up, down, serverVars>>

(* The user closes the dialog, and the loop of recvMsg goes on.            *)
CloseDialog ==
    /\ dialog
    /\ dialog' = FALSE
    /\ UNCHANGED <<local, clientVars, uploader, up, down, read, unseen, serverVars>>

(* The loop of recvMsg hands the first message of its buffer to handlePDU. *)
HandlePDU ==
    /\ ~dialog /\ read > 0
    /\ read' = read - 1 /\ down' = Tail(down)

(* uploadFileInit of ResHandler, startUpload: a TRUE starts an uploader    *)
(* for the path as it is by now.                                           *)
StartUpload(i) ==
    /\ HandlePDU /\ Head(down) = Respond("init", TRUE)
    /\ ~uploader[i].runs
    /\ uploader' = [uploader EXCEPT
           ![i] = [path |-> m_strUploadFilePath, sent |-> 0, runs |-> TRUE]]
    /\ UNCHANGED <<local, clientVars, up, dialog, unseen, serverVars>>

(* uploadFileInit, uploadFileData of ResHandler: every other answer is a   *)
(* dialog for the user.                                                    *)
ShowAnswer ==
    /\ HandlePDU /\ Head(down) # Respond("init", TRUE)
    /\ dialog' = TRUE
    /\ UNCHANGED <<local, clientVars, uploader, up, unseen, serverVars>>

\* A bug: the end of the file is noticed one chunk late.
UploadChunkPastEnd(i) ==
    /\ uploader[i].runs /\ uploader[i].path # NoFile
    /\ uploader[i].sent <= local[uploader[i].path] /\ Len(up) + Len(down) < MaxPending
    /\ up' = Append(up, DataRequest(uploader[i].path, uploader[i].sent + 1))
    /\ uploader' = [uploader EXCEPT ![i].sent = @ + 1]
    /\ UNCHANGED <<local, clientVars, down, recvVars, serverVars>>

(* uploadFile: the next chunk is read and sent.                            *)
UploadChunk(i) ==
    /\ uploader[i].runs /\ uploader[i].path # NoFile
    /\ uploader[i].sent < local[uploader[i].path] /\ Len(up) + Len(down) < MaxPending
    /\ up' = Append(up, DataRequest(uploader[i].path, uploader[i].sent + 1))
    /\ uploader' = [uploader EXCEPT ![i].sent = @ + 1]
    /\ UNCHANGED <<local, clientVars, down, recvVars, serverVars>>

(* uploadFile: nothing is left to read, or an empty path cannot be opened. *)
UploadEnds(i) ==
    /\ uploader[i].runs
    /\ uploader[i].path # NoFile => uploader[i].sent >= local[uploader[i].path]
    /\ uploader' = [uploader EXCEPT ![i] = Idle]
    /\ UNCHANGED <<local, clientVars, up, down, recvVars, serverVars>>

(* uploadFile: the file cannot be opened or read (any more); the user sees *)
(* it, the server does not.                                                *)
UploadBreaks(i) ==
    /\ uploader[i].runs /\ uploader[i].path # NoFile
    /\ uploader' = [uploader EXCEPT ![i] = Idle]
    /\ UNCHANGED <<local, clientVars, up, down, recvVars, serverVars>>

\* External: a program on the user's machine makes f longer or shorter.
Resize(f) ==
    /\ \E n \in 0..MaxLen[f] : n # local[f] /\ local' = [local EXCEPT ![f] = n]
    /\ UNCHANGED <<clientVars, uploader, up, down, recvVars, serverVars>>

-----------------------------------------------------------------------------
\* A bug: the count of the upload before goes on.
UploadFileInitGoesOn ==
    /\ up # <<>> /\ Head(up).type = "init"
    /\ m_iUploadFileSize' = Head(up).size /\ written' = <<>>
    /\ \E ret \in BOOLEAN :
        /\ m_fUploadFile' = [name |-> Head(up).file, open |-> ret]
        /\ down' = Append(down, Respond("init", ret))
    /\ up' = Tail(up)
    /\ UNCHANGED <<local, clientVars, uploader, recvVars, m_iReceiveSize>>

(* uploadFileInit of MsgHandler: an open file is closed by setFileName;    *)
(* the new one is truncated, if it can be opened.                          *)
UploadFileInit ==
    /\ up # <<>> /\ Head(up).type = "init"
    /\ m_iUploadFileSize' = Head(up).size /\ written' = <<>>
    /\ m_iReceiveSize' = 0
    /\ \E ret \in BOOLEAN :
        /\ m_fUploadFile' = [name |-> Head(up).file, open |-> ret]
        /\ down' = Append(down, Respond("init", ret))
    /\ up' = Tail(up)
    /\ UNCHANGED <<local, clientVars, uploader, recvVars>>

\* A bug: the chunk in hand is counted twice.
DoneEarly(received) == received + 1 >= m_iUploadFileSize

\* A bug: one chunk more is awaited.
DoneLate(received) == received > m_iUploadFileSize

\* uploadFileData, line 344: all that was announced has arrived.
Done(received) == received >= m_iUploadFileSize

(* uploadFileData: the chunk is counted, and written if the file is open   *)
(* and the disk takes it, which nobody asks; from the announced size on    *)
(* the file is closed and an answer given.                                 *)
UploadFileData ==
    LET received == m_iReceiveSize + 1
    IN  /\ up # <<>> /\ Head(up).type = "data"
        /\ m_iReceiveSize' = received
        /\ \/ m_fUploadFile.open
              /\ written' = Append(written, <<Head(up).file, Head(up).chunk>>)
           \/ UNCHANGED written
        /\ m_fUploadFile' = [m_fUploadFile EXCEPT !.open = @ /\ ~Done(received)]
        /\ down' = IF Done(received)
                   THEN Append(down, Respond("data", received = m_iUploadFileSize))
                   ELSE down
        /\ up' = Tail(up)
        /\ UNCHANGED <<local, clientVars, uploader, recvVars, m_iUploadFileSize>>

User == ClickUpload \/ (\E f \in Files : Choose(f)) \/ Cancel
Serve == UploadFileInit \/ UploadFileData
Arrive == RecvMsg \/ ArriveUnseen
Handle == (\E i \in Uploaders : StartUpload(i)) \/ ShowAnswer
Receive == Arrive \/ OtherMessage \/ CloseDialog \/ Handle
Upload(i) == UploadChunk(i) \/ UploadEnds(i)

UploadNext ==
    \/ User \/ Receive \/ Serve
    \/ \E i \in Uploaders : Upload(i) \/ UploadBreaks(i)
    \/ \E f \in Files : Resize(f)

UploadSpec == UploadInit /\ [][UploadNext]_uploadVars

(* What comes in is signalled unless a dialog is open inside recvMsg, the  *)
(* loops and the threads run, and a user closes a dialog; other messages,  *)
(* users and failures are not obliged to come.                             *)
UploadFairness ==
    /\ WF_uploadVars(Arrive) /\ WF_uploadVars(Handle \/ CloseDialog)
    /\ WF_uploadVars(Serve)
    /\ \A i \in Uploaders : WF_uploadVars(Upload(i))

-----------------------------------------------------------------------------
(* The type invariant.                                                     *)
UploadTypeOK ==
    /\ local \in Sizes
    /\ choosing \in BOOLEAN
    /\ m_strUploadFilePath \in Files \cup {NoFile}
    /\ uploader \in [Uploaders -> [path : Files \cup {NoFile}, sent : Nat, runs : BOOLEAN]]
    /\ up \in Seq([type : {"init"}, file : Files, size : Nat]
                  \cup {DataRequest(c[1], c[2]) : c \in Chunks})
    /\ down \in Seq([type : {"init", "data"}, ret : BOOLEAN])
    /\ dialog \in BOOLEAN /\ read \in Nat /\ unseen \in Nat
    /\ read + unseen <= Len(down)
    /\ m_fUploadFile \in [name : Files \cup {NoFile}, open : BOOLEAN]
    /\ m_iUploadFileSize \in Nat /\ m_iReceiveSize \in Nat
    /\ written \in Seq(Chunks)
=============================================================================
