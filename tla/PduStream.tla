----------------------------- MODULE PduStream ------------------------------
(***************************************************************************)
(* One direction of a netdisk connection: sendMsg and mkPDU write messages *)
(* to a stream of bytes, and recvMsg of the other end (src/Server/         *)
(* mytcpsocket.cpp and, the same but for its handlers, src/Client/         *)
(* client.cpp) cuts the stream into messages again.                        *)
(*                                                                         *)
(* Qt is external.  Bytes reach the buffer of the socket in pieces of any  *)
(* length while the event loop runs, and each piece is signalled by        *)
(* readyRead, except while a slot of readyRead runs: a handler of the      *)
(* client that shows a modal dialog runs the event loop inside recvMsg,    *)
(* and what arrives then is not signalled.  Nor is what reaches the server *)
(* before ClientTask, on another thread, has connected the signal.         *)
(*                                                                         *)
(* The unit of length stands for some bytes; sizeof(PDU), which is the     *)
(* length of the shortest message, has Header of them.                     *)
(***************************************************************************)
EXTENDS Integers, SequencesExt

CONSTANTS
    Header,         \* sizeof(PDU)
    Lengths,        \* the values of uiPDULen
    Garbage,        \* handled in place of a message, if the cuts were wrong
    MaxSent         \* bound: the messages sent

ASSUME HeaderAssumption ==
    /\ Header \in Nat \ {0} /\ MaxSent \in Nat
    /\ Lengths \subseteq {n \in Nat : n >= Header}
    /\ Garbage \notin Nat

VARIABLES
    end,            \* which end receives: server or client
    hooked,         \* whether readyRead is connected to recvMsg
    uiPDULen,       \* uiPDULen[m]: the length of message m
    wire,           \* the bytes on their way; a byte is <<message, place>>
    arrived,        \* the bytes in the socket that recvMsg has not read
    buffer,         \* the member buffer
    pc,             \* recvMsg: idle, in its loop, or in a handler's dialog
    handled         \* the messages that were handed to handlePDU

streamVars == <<end, hooked, uiPDULen, wire, arrived, buffer, pc, handled>>

sent == Len(uiPDULen)
Bytes(m) == [i \in 1..uiPDULen[m] |-> <<m, i>>]

StreamInit ==
    /\ end \in {"server", "client"}
    /\ hooked = (end = "client")
    /\ uiPDULen = <<>> /\ wire = <<>> /\ arrived = <<>> /\ buffer = <<>>
    /\ pc = "idle"
    /\ handled = <<>>

-----------------------------------------------------------------------------
(* The sender writes a whole message at a time.                            *)
SendMsg ==
    /\ sent < MaxSent
    /\ \E len \in Lengths :
        /\ uiPDULen' = Append(uiPDULen, len)
        /\ wire' = wire \o [i \in 1..len |-> <<sent + 1, i>>]
    /\ UNCHANGED <<end, hooked, arrived, buffer, pc, handled>>

(* ClientTask::run connects the signal, at some time.                      *)
HookReadyRead ==
    /\ ~hooked
    /\ hooked' = TRUE
    /\ UNCHANGED <<end, uiPDULen, wire, arrived, buffer, pc, handled>>

\* Bytes that nobody is told of: the signal has no slot, or its slot runs.
ArriveUnseen ==
    /\ ~hooked \/ pc = "dialog"
    /\ \E k \in 1..Len(wire) :
        /\ arrived' = arrived \o SubSeq(wire, 1, k)
        /\ wire' = SubSeq(wire, k + 1, Len(wire))
    /\ UNCHANGED <<end, hooked, uiPDULen, buffer, pc, handled>>

\* A bug: only what was signalled is read, and what came unseen stays.
RecvMsgSignalled ==
    /\ hooked /\ pc = "idle"
    /\ \E k \in 1..Len(wire) :
        /\ buffer' = buffer \o SubSeq(wire, 1, k)
        /\ wire' = SubSeq(wire, k + 1, Len(wire))
    /\ pc' = "loop"
    /\ UNCHANGED <<end, hooked, uiPDULen, arrived, handled>>

(* recvMsg, up to the loop: bytes arrive, readyRead is emitted, and all    *)
(* that the socket has is appended to the buffer.                          *)
RecvMsg ==
    /\ hooked /\ pc = "idle"
    /\ \E k \in 1..Len(wire) :
        /\ buffer' = buffer \o arrived \o SubSeq(wire, 1, k)
        /\ wire' = SubSeq(wire, k + 1, Len(wire))
    /\ arrived' = <<>>
    /\ pc' = "loop"
    /\ UNCHANGED <<end, hooked, uiPDULen, handled>>

\* What the field uiPDULen at the front of the buffer reads as; the bytes of
\* a message from anywhere but its start would read as anything.
FrontLen == IF Head(buffer)[2] = 1 THEN uiPDULen[Head(buffer)[1]] ELSE Header

\* A bug: a message is taken for complete when its header is.
CompleteHeader == Len(buffer) >= Header

\* The two tests of the loop.
Complete == Len(buffer) >= Header /\ Len(buffer) >= FrontLen

\* The message that handlePDU finds at the front of the buffer.
FrontPDU ==
    LET m == Head(buffer)[1]
    IN  IF IsPrefix(Bytes(m), buffer) THEN m ELSE Garbage

RemoveFront == buffer' = SubSeq(buffer, FrontLen + 1, Len(buffer))

\* A bug: one message is handled for each signal.
HandleOnlyOne ==
    /\ pc = "loop" /\ Complete
    /\ handled' = Append(handled, FrontPDU)
    /\ RemoveFront
    /\ pc' = "idle"
    /\ UNCHANGED <<end, hooked, uiPDULen, wire, arrived>>

(* The loop: a message is handled and removed.                             *)
HandlePDU ==
    /\ pc = "loop" /\ Complete
    /\ handled' = Append(handled, FrontPDU)
    /\ RemoveFront
    /\ UNCHANGED <<end, hooked, uiPDULen, wire, arrived, pc>>

(* The loop of the client: the handler shows a dialog.                     *)
ShowDialog ==
    /\ end = "client"
    /\ pc = "loop" /\ Complete
    /\ handled' = Append(handled, FrontPDU)
    /\ pc' = "dialog"
    /\ UNCHANGED <<end, hooked, uiPDULen, wire, arrived, buffer>>

(* The user closes it, the handler returns, and the message is removed.    *)
CloseDialog ==
    /\ pc = "dialog"
    /\ RemoveFront
    /\ pc' = "loop"
    /\ UNCHANGED <<end, hooked, uiPDULen, wire, arrived, handled>>

(* The loop ends: what is left is not a message yet.                       *)
LoopEnds ==
    /\ pc = "loop" /\ ~Complete
    /\ pc' = "idle"
    /\ UNCHANGED <<end, hooked, uiPDULen, wire, arrived, buffer, handled>>

Receive == ArriveUnseen \/ RecvMsg \/ HandlePDU \/ ShowDialog \/ CloseDialog \/ LoopEnds

StreamNext == SendMsg \/ HookReadyRead \/ Receive

StreamSpec == StreamInit /\ [][StreamNext]_streamVars

(* Bytes on the wire arrive, the event loop runs, and a user closes the    *)
(* dialogs.  Nobody has to send.                                           *)
FairStreamSpec ==
    StreamSpec /\ WF_streamVars(Receive) /\ WF_streamVars(HookReadyRead)

-----------------------------------------------------------------------------
\* The messages that are handled and removed.
Finished == Len(handled) - (IF pc = "dialog" THEN 1 ELSE 0)

\* What is left of the stream, in the buffer, in the socket and on the wire.
rest == buffer \o arrived \o wire

\* Each byte of it is in its place in a whole message.
WholeMessages ==
    \A p \in DOMAIN rest :
        LET m == rest[p][1]
            start == p - rest[p][2]
        IN  /\ m \in 1..sent /\ rest[p][2] \in 1..uiPDULen[m]
            /\ start >= 0 /\ start + uiPDULen[m] <= Len(rest)
            /\ \A i \in 1..uiPDULen[m] : rest[start + i] = <<m, i>>

\* From the first message that is not finished to the last that was sent,
\* one follows the other.
OneAfterTheOther ==
    /\ Finished \in 0..sent
    /\ rest = <<>> <=> Finished = sent
    /\ rest # <<>> =>
           rest[1] = <<Finished + 1, 1>> /\ rest[Len(rest)] = <<sent, uiPDULen[sent]>>
    /\ \A p, q \in DOMAIN rest :
           /\ p <= q => rest[p][1] <= rest[q][1]
           /\ q = p + 1 => rest[q] \in {<<rest[p][1], rest[p][2] + 1>>, <<rest[p][1] + 1, 1>>}

(* The type invariant: the buffer starts with a message, and the buffer,   *)
(* the socket and the wire hold the rest of the stream without a gap.      *)
StreamTypeOK ==
    /\ end \in {"server", "client"} /\ hooked \in BOOLEAN
    /\ pc \in {"idle", "loop", "dialog"}
    /\ uiPDULen \in Seq(Lengths)
    /\ WholeMessages /\ OneAfterTheOther

fifo == INSTANCE Fifo

(* However the stream is cut, and whatever arrives while a dialog is open, *)
(* every message is handled once, whole and in order.                      *)
StreamIsFifo == fifo!Spec

(* Liveness: a message is handled, or some of it came while nobody was     *)
(* told: it lies in the socket until more arrives.  What recvMsg has read  *)
(* never waits for more when it is complete.                               *)
MessagesGetThrough ==
    \A m \in 1..MaxSent :
        m <= sent ~>
            \/ Len(handled) >= m
            \/ \E i \in 1..Len(arrived) : arrived[i][1] <= m
=============================================================================
