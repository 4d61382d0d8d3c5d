----------------------------- MODULE FrameStream ----------------------------
(***************************************************************************)
(* Frames from one TcpConnection to another: sendInLoop, handleWrite and   *)
(* shutdown of the sender, handleRead of the receiver                      *)
(* (src/code/MiniReactor/src/net/TcpConnection.cpp) and the loop of        *)
(* RpcServer::onMessage or RpcClient::onMessage around the codec.          *)
(*                                                                         *)
(* Each side has its loop thread; a step is one system call or one frame   *)
(* decoded. Between the sockets is a pipe of bounded size. Both channels   *)
(* are edge-triggered: an edge says that something has changed since it    *)
(* was taken, and whoever takes it has to go on until nothing is left to   *)
(* do. The sender sends on its loop thread.                                *)
(***************************************************************************)
EXTENDS Buffer, Codec

CONSTANTS
    Messages,     \* what may be sent
    Garbage,      \* frames no encoder makes, by type of the message expected
    Samples,      \* messages for the codec alone
    MaxMessages,  \* bound: frames sent in all
    PipeSize,     \* units the sockets hold between the two sides
    ReadSize      \* units one read(2) takes

ASSUME PipeAssumption == PipeSize \in Nat \ {0} /\ ReadSize \in Nat \ {0}
ASSUME MessagesAssumption == /\ MaxMessages \in Nat
                             /\ Messages \cup Samples \subseteq RequestRecords \cup ResponseRecords
ASSUME GarbageAssumption ==
    \A t \in {Request, Response} : \A frame \in Garbage[t] :
        /\ frame \in Seq(Nat) /\ frame # << >>
        /\ \A n \in 0 .. Len(frame) : TryDecode(SubSeq(frame, 1, n), t).status # "Complete"

VARIABLES
    type,         \* the type of message this direction carries
    sender,       \* pc of the sender's loop
    sending,      \* what send(2) has still to take of the frame
    outBuffer,    \* outputBuffer_ of the sender
    writing,      \* channel_.isWriting()
    senderState,  \* state_ of the sender
    receiver,     \* pc of the receiver's loop
    received,     \* receivedData in handleRead
    eof,          \* handleRead has read the end of the stream
    inBuffer,     \* inputBuffer_ of the receiver
    receiverState,
    pipe, fin,    \* what is in the sockets; the end of the stream behind it
    broken,       \* the connection was reset
    readEdge, writeEdge,
    sent,         \* the messages sent
    spoiled,      \* garbage was sent behind them; nothing follows it
    frames,       \* number of frames sent
    delivered     \* the messages handed to the receiver's user

senderVars   == <<sender, sending, outBuffer, writing, senderState, sent, spoiled, frames>>
receiverVars == <<receiver, received, eof, inBuffer, receiverState, delivered>>
networkVars  == <<pipe, fin, broken>>
vars == <<type, senderVars, receiverVars, networkVars, readEdge, writeEdge>>

Init == /\ type \in {Request, Response}
        /\ sender = "poll" /\ sending = << >> /\ outBuffer = EmptyBuffer /\ writing = FALSE
        /\ senderState = "Connected"
        /\ receiver = "poll" /\ received = FALSE /\ eof = FALSE
        /\ inBuffer = EmptyBuffer /\ receiverState = "Connected"
        /\ pipe = << >> /\ fin = FALSE /\ broken = FALSE
        /\ readEdge = FALSE /\ writeEdge = FALSE
        /\ sent = << >> /\ spoiled = FALSE /\ frames = 0 /\ delivered = << >>

Space == PipeSize - Len(pipe)
Smaller(a, b) == IF a < b THEN a ELSE b

\* The peer is gone: writing fails.
Unwritable == broken \/ receiverState = "Disconnected"

-----------------------------------------------------------------------------
(***************************************************************************)
(* The sender.                                                             *)
(***************************************************************************)

\* sendInLoop: behind what is left of earlier frames, or at once. The defect
\* does not look at what is left.
SendAtOnce(frame) == sender' = "sending" /\ sending' = frame /\ UNCHANGED outBuffer

SendInLoop(frame) ==
    IF writing \/ ReadableBytes(outBuffer) > 0
      THEN outBuffer' = AppendUnits(outBuffer, frame) /\ UNCHANGED <<sender, sending>>
      ELSE SendAtOnce(frame)

MaySend == /\ sender = "poll" /\ senderState = "Connected"
           /\ frames < MaxMessages /\ ~spoiled

Send(m) ==
    /\ MaySend /\ m.type = type /\ Encodable(m)
    /\ SendInLoop(Encode(m))
    /\ sent' = Append(sent, Normal(m))
    /\ frames' = frames + 1
    /\ UNCHANGED <<type, writing, senderState, spoiled, receiverVars, networkVars, readEdge,
                   writeEdge>>

SendGarbage ==
    /\ MaySend
    /\ \E frame \in Garbage[type] : SendInLoop(frame)
    /\ spoiled' = TRUE
    /\ frames' = frames + 1
    /\ UNCHANGED <<type, writing, senderState, sent, receiverVars, networkVars, readEdge,
                   writeEdge>>

\* send(2) takes n units of s: as many as fit.
Take(s, n) == /\ ~Unwritable /\ n > 0 /\ n = Smaller(Space, Len(s))
              /\ pipe' = pipe \o SubSeq(s, 1, n)
              /\ readEdge' = TRUE
              /\ UNCHANGED <<fin, broken>>

WriteSome ==
    /\ sender = "sending"
    /\ \E n \in 1 .. Len(sending) :
          /\ Take(sending, n)
          /\ sending' = SubSeq(sending, n + 1, Len(sending))
          /\ sender' = IF n = Len(sending) THEN "poll" ELSE "sending"
    /\ UNCHANGED <<type, outBuffer, writing, senderState, sent, spoiled, frames, receiverVars,
                   writeEdge>>

\* The rest waits in outputBuffer_ for the socket to become writable: the
\* loop is told to look for that, unless by the defect it is forgotten.
WriteBlocksThen(enable) ==
    /\ sender = "sending" /\ ~Unwritable /\ Space = 0
    /\ outBuffer' = AppendUnits(outBuffer, sending)
    /\ sending' = << >>
    /\ writing' = enable
    /\ sender' = "poll"
    /\ UNCHANGED <<type, senderState, sent, spoiled, frames, receiverVars, networkVars,
                   readEdge, writeEdge>>

WriteBlocksUnheard == WriteBlocksThen(FALSE)

WriteBlocks == WriteBlocksThen(TRUE)

OnWritable ==
    /\ sender = "poll" /\ writing /\ writeEdge
    /\ writeEdge' = FALSE
    /\ sender' = "draining"
    /\ UNCHANGED <<type, sending, outBuffer, writing, senderState, sent, spoiled, frames,
                   receiverVars, networkVars, readEdge>>

\* handleWrite: until the buffer is empty or the socket is full.
DrainSome ==
    /\ sender = "draining"
    /\ \E n \in 1 .. ReadableBytes(outBuffer) :
          /\ Take(Readable(outBuffer), n)
          /\ outBuffer' = Retrieve(outBuffer, n)
    /\ UNCHANGED <<type, sender, sending, writing, senderState, sent, spoiled, frames,
                   receiverVars, writeEdge>>

DrainBlocks ==
    /\ sender = "draining" /\ ~Unwritable /\ Space = 0 /\ ReadableBytes(outBuffer) > 0
    /\ sender' = "poll"
    /\ UNCHANGED <<type, sending, outBuffer, writing, senderState, sent, spoiled, frames,
                   receiverVars, networkVars, readEdge, writeEdge>>

\* shutdown(2): the end of the stream, behind everything that was written.
ShutdownWrite == fin' = TRUE /\ readEdge' = TRUE /\ UNCHANGED <<pipe, broken>>

DrainEnds ==
    /\ sender = "draining" /\ ReadableBytes(outBuffer) = 0
    /\ writing' = FALSE
    /\ IF senderState = "Disconnecting"
         THEN ShutdownWrite
         ELSE UNCHANGED <<networkVars, readEdge>>
    /\ sender' = "poll"
    /\ writeEdge' = FALSE
    /\ UNCHANGED <<type, sending, outBuffer, senderState, sent, spoiled, frames, receiverVars>>

\* shutdown(): while there is something to write the end has to wait.
Shutdown ==
    /\ sender = "poll" /\ senderState = "Connected"
    /\ senderState' = "Disconnecting"
    /\ IF writing THEN UNCHANGED <<networkVars, readEdge>> ELSE ShutdownWrite
    /\ UNCHANGED <<type, sender, sending, outBuffer, writing, sent, spoiled, frames,
                   receiverVars, writeEdge>>

\* handleClose of the sender: a write failed, or the poll reported the end.
SenderCloses ==
    /\ Unwritable /\ senderState # "Disconnected"
    /\ senderState' = "Disconnected"
    /\ sender' = "poll"
    /\ sending' = << >> /\ outBuffer' = EmptyBuffer
    /\ writing' = FALSE /\ writeEdge' = FALSE
    /\ UNCHANGED <<type, sent, spoiled, frames, receiverVars, networkVars, readEdge>>

-----------------------------------------------------------------------------
(***************************************************************************)
(* The receiver.                                                           *)
(***************************************************************************)
OnReadable ==
    /\ receiver = "poll" /\ receiverState = "Connected" /\ readEdge
    /\ readEdge' = FALSE
    /\ received' = FALSE
    /\ receiver' = "reading"
    /\ UNCHANGED <<type, senderVars, eof, inBuffer, receiverState, delivered, networkVars,
                   writeEdge>>

\* handleRead reads on until nothing is left.
Read ==
    /\ receiver = "reading" /\ pipe # << >>
    /\ LET n == Smaller(ReadSize, Len(pipe))
       IN  /\ inBuffer' = AppendUnits(inBuffer, SubSeq(pipe, 1, n))
           /\ pipe' = SubSeq(pipe, n + 1, Len(pipe))
    /\ received' = TRUE
    /\ writeEdge' = writing
    /\ UNCHANGED <<type, senderVars, receiver, eof, receiverState, delivered, fin, broken,
                   readEdge>>

\* handleClose of the receiver. What it has not decoded is lost.
Close == /\ receiverState' = "Disconnected"
         /\ receiver' = "poll"
         /\ eof' = FALSE /\ inBuffer' = EmptyBuffer
         /\ UNCHANGED <<type, senderVars, received, delivered, networkVars, readEdge, writeEdge>>

\* The end of the stream: what came before it is decoded first.
ReadEof ==
    /\ receiver = "reading" /\ pipe = << >> /\ fin /\ ~broken
    /\ IF received
         THEN /\ eof' = TRUE
              /\ receiver' = "decoding"
              /\ UNCHANGED <<type, senderVars, received, inBuffer, receiverState, delivered,
                             networkVars, readEdge, writeEdge>>
         ELSE Close

ReadBlocks ==
    /\ receiver = "reading" /\ pipe = << >> /\ ~fin /\ ~broken
    /\ receiver' = IF received THEN "decoding" ELSE "poll"
    /\ UNCHANGED <<type, senderVars, received, eof, inBuffer, receiverState, delivered,
                   networkVars, readEdge, writeEdge>>

\* A read fails, or the poll reports an error: what was read is not decoded.
ReadFails == /\ receiver \in {"poll", "reading"} /\ receiverState = "Connected" /\ broken
             /\ Close

\* onMessage takes frame after frame off the buffer.
Decoded == TryDecode(Readable(inBuffer), type)

DecodeComplete ==
    /\ receiver = "decoding" /\ Decoded.status = "Complete"
    /\ delivered' = Append(delivered, Decoded.message)
    /\ inBuffer' = Retrieve(inBuffer, TotalLength(Readable(inBuffer)))
    /\ UNCHANGED <<type, senderVars, receiver, received, eof, receiverState, networkVars,
                   readEdge, writeEdge>>

DecodeNeedsMore ==
    /\ receiver = "decoding" /\ Decoded.status = "NeedMoreData"
    /\ IF eof
         THEN Close
         ELSE /\ receiver' = "poll"
              /\ UNCHANGED <<type, senderVars, received, eof, inBuffer, receiverState,
                             delivered, networkVars, readEdge, writeEdge>>

\* The connection is forced to close.
DecodeFails == /\ receiver = "decoding" /\ Decoded.status = "ProtocolError"
               /\ Close

-----------------------------------------------------------------------------
\* The network gives the connection up, with what it holds.
Break == /\ ~broken
         /\ broken' = TRUE /\ pipe' = << >>
         /\ UNCHANGED <<type, senderVars, receiverVars, fin, readEdge, writeEdge>>

SenderStep == \/ WriteSome \/ WriteBlocks \/ OnWritable
              \/ DrainSome \/ DrainBlocks \/ DrainEnds \/ SenderCloses

ReceiverStep == \/ OnReadable \/ Read \/ ReadEof \/ ReadBlocks \/ ReadFails
                \/ DecodeComplete \/ DecodeNeedsMore \/ DecodeFails

Next == \/ \E m \in Messages : Send(m)
        \/ SendGarbage \/ Shutdown \/ Break
        \/ SenderStep \/ ReceiverStep

\* Both loops run; nobody has to send, to shut down or to break the network.
Spec == Init /\ [][Next]_vars /\ WF_vars(SenderStep) /\ WF_vars(ReceiverStep)

-----------------------------------------------------------------------------
(***************************************************************************)
(* Properties.                                                             *)
(***************************************************************************)

\* Types of the variables, and what is where: a frame that is being sent is
\* in nobody else's way, what waits in outputBuffer_ has the loop waiting for
\* the socket, and an index of a buffer never leaves its array.
IsBuffer(b) == /\ b.data \in Seq(Nat)
               /\ CheapPrepend <= b.readerIndex /\ b.readerIndex <= b.writerIndex
               /\ b.writerIndex <= Size(b)

TypeOK ==
    /\ type \in {Request, Response}
    /\ sender \in {"poll", "sending", "draining"}
    /\ receiver \in {"poll", "reading", "decoding"}
    /\ {senderState, receiverState} \subseteq {"Connected", "Disconnecting", "Disconnected"}
    /\ {writing, received, eof, fin, broken, readEdge, writeEdge, spoiled} \subseteq BOOLEAN
    /\ sending \in Seq(Nat) /\ pipe \in Seq(Nat) /\ Len(pipe) <= PipeSize
    /\ IsBuffer(outBuffer) /\ IsBuffer(inBuffer)
    /\ frames \in 0 .. MaxMessages /\ Len(sent) <= frames /\ Len(delivered) <= frames

NothingLeftBehind ==
    /\ TypeOK
    /\ (sender = "sending") <=> (sending # << >>)
    /\ sender = "sending" => ReadableBytes(outBuffer) = 0
    /\ ReadableBytes(outBuffer) > 0 => writing
    /\ writing => ReadableBytes(outBuffer) > 0 \/ sender = "draining"

\* The messages the receiver decodes are those the sender sent, in order,
\* whatever way writes, reads and both buffers cut the stream into pieces.
Channel == INSTANCE MessageChannel WITH Item <- {Normal(m) : m \in Messages}
ImplementsChannel == Channel!ChannelSpec

\* What was sent arrives, the end of the stream after it included, unless the
\* network breaks: no edge is taken without doing all there is to do.
EverythingArrives ==
    /\ \A n \in 1 .. MaxMessages : Len(sent) >= n ~> (Len(delivered) >= n \/ broken)
    /\ (senderState = "Disconnecting" \/ spoiled) ~> (receiverState = "Disconnected")

\* Each frame the encoder makes is recognised as soon as it is complete and
\* no sooner, whatever comes behind it; the limits of encoder and decoder
\* agree; and a frame is no message of the other type. (The frames of a type
\* do not depend on the state: they are looked at before anything is sent.)
FramesAreSelfDelimiting == frames = 0 =>
    \A m \in {s \in Samples : s.type = type} :
        LET f == Encode(m)
        IN  /\ \A t \in {<< >>, <<0>>, f} :
                  TryDecode(f \o t, m.type) = IF Encodable(m)
                    THEN [status |-> "Complete", message |-> Normal(m)]
                    ELSE ProtocolError
            /\ Encodable(m) => /\ TotalLength(f) = Len(f)
                               /\ \A i \in 0 .. Len(f) - 1 :
                                     TryDecode(SubSeq(f, 1, i), m.type) = NeedMoreData
            /\ TryDecode(f, 3 - m.type) = ProtocolError
=============================================================================
