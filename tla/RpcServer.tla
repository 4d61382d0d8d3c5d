----------------------------- MODULE RpcServer ------------------------------
(***************************************************************************)
(* An RpcServer: src/code/MiniRPC/src/rpc_server.cpp and                   *)
(* service_registry.cpp, on its TcpServer and a pool of workers. A         *)
(* connection's loop decodes requests and either answers them with an      *)
(* error or posts them to the pool; the worker that has called the handler *)
(* hands the answer to that loop, if the connection still exists.          *)
(*                                                                         *)
(* The pool is what TaskExecutor promises: tasks start once, in the order  *)
(* of its queue. Of a request counts its method and whether it is one that *)
(* the codec and the serializer accept; of an answer, its code.            *)
(***************************************************************************)
EXTENDS TcpServer, FiniteSets

CONSTANTS
    Registered,    \* the ServiceRegistry: pairs of a service and a method
    Messages,      \* Messages[n]: what the n-th thing the peers do may send, records
                   \* with a kind, "request", "serializer" or "garbage", and a method
    HandlerCodes,  \* codes answers may have after the handler was called
    QueueCapacity, \* of the pool
    MaxInputs      \* bound: what the peers do, connecting, sending and closing

ASSUME RpcServerAssumption ==
    /\ QueueCapacity \in Nat /\ MaxInputs \in Nat
    /\ DOMAIN Messages = 1 .. MaxInputs
    /\ IsFiniteSet(Threads)

Codes == HandlerCodes \cup
    {"ServiceNotFound", "MethodNotFound", "DeserializationError", "ServerError"}

VARIABLES
    inputs,     \* how many things the peers have done
    todo,       \* todo[l]: messages in inputBuffer_ of the connection l reads from
    eof,        \* eof[l]: and that handleRead has read its end
    step,       \* step[l]: of handleRequest for the first of them
    received,   \* messages that were read
    queue,      \* of the pool
    worker,     \* pc of a worker
    task,       \* its request
    code,       \* the answer's code
    total,      \* totalRequests_
    size,       \* currentQueueSize_
    rejected,   \* queueRejected_
    succeeded,  \* successResponses_
    failed,     \* failedResponses_
    recorded,   \* recorded[e]: those of them with code e
    answers     \* answers[c]: what was written to connection c

inputVars  == <<inputs, todo, eof, step, received>>
workerVars == <<queue, worker, task, code>>
responseVars == <<succeeded, failed, recorded>>
metricVars == <<total, size, rejected, responseVars>>
rpcVars    == <<inputVars, workerVars, metricVars, answers>>
vars       == <<queueVars, roundVars, serverVars, rpcVars>>

NoRequest == [id |-> 0, conn |-> None]

Init == /\ ServerInit
        /\ inputs = 0 /\ received = {}
        /\ todo   = [l \in Loops |-> << >>]
        /\ eof    = [l \in Loops |-> FALSE]
        /\ step   = [l \in Loops |-> "decode"]
        /\ queue  = << >>
        /\ worker = [w \in Workers |-> "idle"]
        /\ task   = [w \in Workers |-> NoRequest]
        /\ code   = [w \in Workers |-> "none"]
        /\ total = 0 /\ size = 0 /\ rejected = 0 /\ succeeded = 0 /\ failed = 0
        /\ recorded = [e \in Codes |-> 0]
        /\ answers  = [c \in Connections |-> << >>]

PeerActs == /\ inputs < MaxInputs
            /\ inputs' = inputs + 1
            /\ UNCHANGED <<todo, eof, step, received, workerVars, metricVars, answers>>

Input == /\ PeerActs
         /\ \/ Connect
            \/ \E c \in Connections :
                  \/ PeerCloses(c)
                  \/ \E m \in Messages[inputs'] :
                        PeerSends(c, [id |-> inputs', conn |-> c, message |-> m])

-----------------------------------------------------------------------------
(***************************************************************************)
(* Sending on the connection's loop.                                       *)
(***************************************************************************)
Answer(r, e) == [request |-> r, code |-> e]

\* sendInLoop writes, or finds that the peer is gone; the defect does not ask
\* whether the connection is still up.
Write(l, c, a) ==
    IF reset[c]
      THEN HandleClose(l, c) /\ UNCHANGED answers
      ELSE /\ answers' = [answers EXCEPT ![c] = Append(@, a)]
           /\ UNCHANGED <<queueVars, state, channelVars>>

SendInLoop(l, c, a) == IF state[c] = "Connected"
    THEN Write(l, c, a)
    ELSE UNCHANGED <<queueVars, state, channelVars, answers>>

CallSend(l) ==
    LET f == NextFunctor(l)
    IN  /\ Calling(l, "send")
        /\ SendInLoop(l, f.conn, f.arg)
        /\ UNCHANGED <<acceptVars, peerVars, table, locked, inputVars, workerVars, metricVars>>

-----------------------------------------------------------------------------
(***************************************************************************)
(* Reading.                                                                *)
(***************************************************************************)

\* handleRead: everything there is, up to the end of the stream. After a reset
\* it fails, or the error is what the event reports.
ReadEvent(l) ==
    \E c \in Connections :
        /\ ~reset[c]
        /\ Enter(l, c)
        /\ todo' = [todo EXCEPT ![l] = readable[c]]
        /\ eof' = [eof EXCEPT ![l] = fin[c]]
        /\ received' = received \cup {readable[c][i] : i \in 1 .. Len(readable[c])}
        /\ readable' = [readable EXCEPT ![c] = << >>]
        /\ UNCHANGED <<queueVars, acceptVars, channelVars, fin, reset, table, state, locked,
                       inputs, step, workerVars, metricVars, answers>>

CloseEvent(l) ==
    \E c \in Connections :
        /\ reset[c]
        /\ Handling(l, c) /\ UNCHANGED <<inside, eventfd>>
        /\ HandleClose(l, c)
        /\ UNCHANGED <<acceptVars, peerVars, table, locked, rpcVars>>

\* handleRead has called messageCallback_.
ReadEnds(l) ==
    \E c \in Connections :
        /\ Inside(l, c) /\ step[l] = "decode" /\ todo[l] = << >>
        /\ Leave(l)
        /\ eof' = [eof EXCEPT ![l] = FALSE]
        /\ IF eof[l] THEN HandleClose(l, c) ELSE UNCHANGED <<queueVars, state, channelVars>>
        /\ UNCHANGED <<acceptVars, peerVars, table, locked, inputs, todo, step,
                       received, workerVars, metricVars, answers>>

\* Loop l is at this step for the first message of connection c.
At(l, c, label) == /\ Inside(l, c) /\ step[l] = label /\ todo[l] # << >>
                   /\ UNCHANGED <<roundVars, acceptVars, peerVars, table, locked, inputs, eof>>

\* tryDecodeRequest refuses what was sent: the connection is forced to close.
DecodeFails(l) ==
    \E c \in Connections : LET r == Head(todo[l]) IN
        /\ At(l, c, "decode")
        /\ r.message.kind = "garbage"
        /\ todo' = [todo EXCEPT ![l] = << >>]
        /\ HandleClose(l, c)
        /\ UNCHANGED <<step, received, workerVars, metricVars, answers>>

RequestHandled(l) == /\ todo' = [todo EXCEPT ![l] = Tail(@)]
                     /\ step' = [step EXCEPT ![l] = "decode"]

\* recordResponse
RecordResponse(e) == /\ recorded' = [recorded EXCEPT ![e] = @ + 1]
                     /\ \/ e = "Ok" /\ succeeded' = succeeded + 1 /\ UNCHANGED failed
                        \/ e # "Ok" /\ failed' = failed + 1 /\ UNCHANGED succeeded

SendError(l, c, r, e) == /\ RecordResponse(e)
                         /\ SendInLoop(l, c, Answer(r, e))
                         /\ RequestHandled(l)

\* ServiceRegistry::findMethod
FindMethod(m) == IF m \in Registered THEN "Found"
                 ELSE IF \E n \in Registered : n[1] = m[1] THEN "MethodNotFound"
                 ELSE "ServiceNotFound"

Verdict(r) == IF r.message.kind = "serializer" THEN "DeserializationError" ELSE FindMethod(r.message.method)

\* handleRequest counts the request before anything else.
CountRequest(l) ==
    \E c \in Connections :
        /\ At(l, c, "decode") /\ Head(todo[l]).message.kind # "garbage"
        /\ total' = total + 1
        /\ step' = [step EXCEPT ![l] = "handle"]
        /\ UNCHANGED <<queueVars, channelVars, state, todo, received, workerVars, size, rejected,
                       responseVars, answers>>

Refuse(l) ==
    \E c \in Connections : LET r == Head(todo[l]) IN
        /\ At(l, c, "handle")
        /\ Verdict(r) # "Found"
        /\ SendError(l, c, r, Verdict(r))
        /\ UNCHANGED <<received, workerVars, total, size, rejected>>

\* The request is in the queue's size before it is posted; the defect counts it later.
AdmitCounting(l, n) ==
    \E c \in Connections :
        /\ At(l, c, "handle")
        /\ Verdict(Head(todo[l])) = "Found"
        /\ size' = size + n
        /\ step' = [step EXCEPT ![l] = "post"]
        /\ UNCHANGED <<queueVars, channelVars, state, todo, received, workerVars, total,
                       rejected, responseVars, answers>>

AdmitUncounted(l) == AdmitCounting(l, 0)

Admit(l) == AdmitCounting(l, 1)

\* try_post
PostAccepted(l) ==
    \E c \in Connections : LET r == Head(todo[l]) IN
        /\ At(l, c, "post")
        /\ Len(queue) < QueueCapacity
        /\ queue' = Append(queue, r)
        /\ RequestHandled(l)
        /\ UNCHANGED <<queueVars, channelVars, state, received, worker, task, code, metricVars,
                       answers>>

PostRejected(l) ==
    \E c \in Connections :
        /\ At(l, c, "post")
        /\ Len(queue) = QueueCapacity
        /\ size' = size - 1
        /\ rejected' = rejected + 1
        /\ step' = [step EXCEPT ![l] = "reject"]
        /\ UNCHANGED <<queueVars, channelVars, state, todo, received, workerVars, total,
                       responseVars, answers>>

\* The request has been moved into the task that was refused, its metadata too.
AnswerRejected(l) ==
    \E c \in Connections :
        /\ At(l, c, "reject")
        /\ SendError(l, c, Head(todo[l]), "ServerError")
        /\ UNCHANGED <<received, workerVars, total, size, rejected>>

-----------------------------------------------------------------------------
(***************************************************************************)
(* The workers.                                                            *)
(***************************************************************************)
WorkerGoes(w, from, to) == /\ worker[w] = from
                           /\ worker' = [worker EXCEPT ![w] = to]
                           /\ UNCHANGED <<acceptVars, channelVars, peerVars, table, state,
                                          inputVars, total, rejected, answers>>

Take(w) == /\ WorkerGoes(w, "idle", "handling")
           /\ queue # << >>
           /\ task' = [task EXCEPT ![w] = Head(queue)]
           /\ queue' = Tail(queue)
           /\ UNCHANGED <<queueVars, roundVars, locked, code, size, responseVars>>

\* The handler returns or throws: the request leaves the size.
HandlerEnds(w) ==
    /\ WorkerGoes(w, "handling", "encoding")
    /\ size' = size - 1
    /\ UNCHANGED <<queueVars, roundVars, locked, queue, task, code, responseVars>>

\* The answer has been encoded, late perhaps, or the error that it can not be;
\* recordResponse, weakConnection.lock().
RecordAnswer(w) ==
    /\ WorkerGoes(w, "encoding", "sending")
    /\ \E e \in HandlerCodes : /\ code' = [code EXCEPT ![w] = e]
                              /\ RecordResponse(e)
    /\ locked' = [locked EXCEPT ![w] = IF Referenced(task[w].conn) THEN task[w].conn ELSE None]
    /\ UNCHANGED <<queueVars, roundVars, queue, task, size>>

Send(w) == /\ locked[w] # None
           /\ WorkerGoes(w, "sending", "waking")
           /\ QueueInLoop(w, loopOf[locked[w]],
                   Functor("send", locked[w], Answer(task[w], code[w])))
           /\ UNCHANGED <<roundVars, locked, queue, task, code, size, responseVars>>

\* The task is destroyed, with its reference to the connection.
TaskEnds(w) == /\ locked' = [locked EXCEPT ![w] = None]
               /\ task' = [task EXCEPT ![w] = NoRequest]
               /\ code' = [code EXCEPT ![w] = "none"]
               /\ UNCHANGED <<queue, size, responseVars>>

WakeLoop(w) == /\ WorkerGoes(w, "waking", "idle")
               /\ \E l \in Loops : Wake(w, l)
               /\ TaskEnds(w)

NobodyToTell(w) == /\ locked[w] = None
                   /\ WorkerGoes(w, "sending", "idle")
                   /\ TaskEnds(w)
                   /\ UNCHANGED <<queueVars, roundVars>>

WorkerStep(w) == \/ Take(w) \/ HandlerEnds(w) \/ RecordAnswer(w)
                 \/ Send(w) \/ WakeLoop(w) \/ NobodyToTell(w)

LoopStep(l) == \/ ServerRound(l) /\ UNCHANGED rpcVars
               \/ l = Base /\ BaseStep /\ UNCHANGED rpcVars
               \/ ReadEvent(l) \/ CloseEvent(l) \/ ReadEnds(l) \/ CallSend(l)
               \/ DecodeFails(l) \/ CountRequest(l) \/ Refuse(l) \/ Admit(l)
               \/ PostAccepted(l) \/ PostRejected(l) \/ AnswerRejected(l)

Next == \/ Input
        \/ \E l \in Loops : LoopStep(l)
        \/ \E w \in Workers : WorkerStep(w)

\* Every thread goes on; handlers return. Nobody has to connect or to send.
Spec == /\ Init /\ [][Next]_vars
        /\ \A l \in Loops : WF_vars(LoopStep(l))
        /\ \A w \in Workers : WF_vars(WorkerStep(w))

-----------------------------------------------------------------------------
(***************************************************************************)
(* Properties.                                                             *)
(***************************************************************************)
TypeOK ==
    /\ \A l \in Loops : /\ stage[l] \in {"channels", "functors"}
                        /\ inside[l] \in Connections \cup {Acceptor, None}
                        /\ step[l] \in {"decode", "handle", "post", "reject"}
                        /\ called[l] \in 0 .. Len(batch[l])
    /\ \A c \in Connections : /\ index[c] \in {"New", "Added", "Deleted"}
                              /\ state[c] \in {"none", "Connecting", "Connected", "Disconnected"}
    /\ \A w \in Workers : /\ locked[w] \in Connections \cup {None}
                          /\ code[w] \in Codes \cup {"none"}
    /\ table \subseteq Connections
    /\ Len(queue) <= QueueCapacity
    /\ {total, size, rejected} \subseteq Nat

\* The channels that epoll, a loop or a poller's table may touch are those of
\* connections that exist, under the descriptor they own: no event and no
\* registration outlives its connection, also when a descriptor is reused.
\* (EpollPoller keeps plain pointers: the order of close, removal from the
\* table and destruction over two loops has to see to it.)
ChannelsAreAlive ==
    /\ TypeOK
    /\ \A l \in Loops, c \in Connections :
          /\ c \in epoll[l] \cup active[l] \cup {inside[l]} => Referenced(c) /\ loopOf[c] = l
          /\ index[c] = "New" => c \notin epoll[l]
    /\ \A l \in Loops, f \in Fds : channels[l][f] # None =>
          /\ Referenced(channels[l][f]) /\ fd[channels[l][f]] = f
          /\ index[channels[l][f]] # "New"
    /\ \A c \in Connections : state[c] = "Connected" => c \in table /\ c \in epoll[loopOf[c]]

\* What a reader of metrics() may see, at any place where loops and workers
\* may be: the size counts the requests in the queue, with a handler and about
\* to be posted (it is not the length of the queue alone), so that the unsigned
\* counter never wraps. Each request that total counts is in the size, in the
\* responses, or in the hand of a thread between two of the counters: a loop
\* that looks its method up or is about to tell that it was rejected, a worker
\* that encodes. An answer is recorded, under its code, before its peer sees it.
Admitted == Len(queue) + Cardinality({w \in Workers : worker[w] = "handling"}
                                         \cup {l \in Loops : step[l] = "post"})

InHand == Cardinality({w \in Workers : worker[w] = "encoding"}
                          \cup {l \in Loops : step[l] \in {"handle", "reject"}})

Written(e) == UNION {{<<c, i>> : i \in {j \in 1 .. Len(answers[c]) : answers[c][j].code = e}} :
                     c \in Connections}

MetricsExact ==
    /\ size = Admitted
    /\ total = succeeded + failed + Admitted + InHand
    /\ \A e \in Codes : Cardinality(Written(e)) <= recorded[e]

\* The server implements the service: a request is answered at most once, on
\* the connection it came on and not when that is down, whichever of loop and
\* worker answers it and however late.
Down == {c \in Connections : state[c] = "Disconnected"}

Service == INSTANCE RpcService
    WITH Connection <- Connections, Code <- Codes, down <- Down,
         Request <- [id : 1 .. MaxInputs, conn : Connections,
                     message : UNION {Messages[n] : n \in 1 .. MaxInputs}]

ImplementsService == Service!ServiceSpec

\* Every peer that connects is accepted, every request that was received is
\* answered unless its connection goes down, and every connection that either
\* end has closed goes down and gives its descriptor back: no event of an
\* edge-triggered channel and no functor is missed, and no reference is kept.
\* As all this is for good, and the peers rest in the end, it is enough that
\* again and again everything is settled.
Settled ==
    /\ accepted = connected
    /\ \A r \in received : \/ r.conn \in Down
                           \/ \E i \in 1 .. Len(answers[r.conn]) : answers[r.conn][i].request = r
    /\ \A c \in Connections : fin[c] \/ reset[c] \/ c \in Down => c \in Down /\ ~Referenced(c)

EverythingIsSettled == []<>Settled
=============================================================================
