--------------------------- MODULE UploadHistory ---------------------------
(***************************************************************************)
(* NetdiskUpload with what may befall the upload that the last click of    *)
(* the button began.  The history constrains no step.                      *)
(***************************************************************************)
EXTENDS NetdiskUpload

VARIABLES
    overlapped,     \* another upload was under way at the click, or another
                    \* click came while this one was
    spoiled,        \* a file changed its size or could not be read since
    full            \* the server's disk did not take a chunk since

uhVars == <<uploadVars, overlapped, spoiled, full>>

\* Nothing of an earlier upload is left but the server's state.
Quiet == up = <<>> /\ down = <<>> /\ \A i \in Uploaders : ~uploader[i].runs

UHInit == UploadInit /\ overlapped = FALSE /\ spoiled = FALSE /\ full = FALSE

\* A chunk for an open file was counted and not written.  (Of an upload that is
\* overlapped no more is kept.)
Lost ==
    /\ ~overlapped /\ m_fUploadFile.open
    /\ m_iReceiveSize' = m_iReceiveSize + 1 /\ written' = written

UHNext ==
    \/ ClickUpload /\ overlapped' = ~Quiet /\ spoiled' = FALSE /\ full' = FALSE
    \/ /\ \/ \E f \in Files : Choose(f)
          \/ Cancel \/ Receive \/ Serve
          \/ \E i \in Uploaders : Upload(i)
       /\ full' = (full \/ Lost)
       /\ UNCHANGED <<overlapped, spoiled>>
    \/ /\ \/ \E i \in Uploaders : UploadBreaks(i)
          \/ \E f \in Files : Resize(f)
       /\ spoiled' = ~overlapped /\ UNCHANGED <<overlapped, full>>

UHSpec == UHInit /\ [][UHNext]_uhVars
FairUHSpec == UHSpec /\ UploadFairness

-----------------------------------------------------------------------------
Answers == {i \in DOMAIN down : down[i].type = "data"}

(* The answer TRUE to an upload that no other overlapped means that the    *)
(* server's file is the user's, chunk by chunk and as long as announced,   *)
(* even if the file changed on the way: unless the server's disk was full, *)
(* which uploadFileData does not notice.                                   *)
SuccessMeansIntact ==
    ~overlapped /\ ~full /\ (\E i \in Answers : down[i].ret) =>
        /\ m_fUploadFile.name = m_strUploadFilePath
        /\ written = [j \in 1..m_iUploadFileSize |-> <<m_strUploadFilePath, j>>]

(* The answer comes last: when nothing went wrong the server has let go of *)
(* the file, and there is no second answer under way or to come.           *)
AnswerIsLast ==
    ~overlapped /\ ~spoiled /\ Answers # {} =>
        /\ Len(down) = 1 /\ up = <<>>
        /\ ~m_fUploadFile.open
        /\ \A i \in Uploaders :
               uploader[i].runs => uploader[i].sent = local[uploader[i].path]

(* An upload of something (an empty file sends no data and is never        *)
(* answered) is answered, unless something befalls it: or the server's     *)
(* word lies in the client's socket for ever, because it came while a      *)
(* dialog was open inside recvMsg and nothing came after it.               *)
UploadAnswered ==
    (\E i \in DOMAIN up : up[i].type = "init" /\ up[i].size > 0)
        ~> \/ Answers # {} \/ (\E i \in DOMAIN down : down[i] = Respond("init", FALSE))
           \/ overlapped \/ spoiled
           \/ [](unseen > 0)
=============================================================================
