----------------------------- MODULE TcpClient -----------------------------
(***************************************************************************)
(* A TcpClient with its Connector and its connections, and the event loop  *)
(* they live on: src/code/MiniReactor/src/net/TcpClient.cpp,               *)
(* Connector.cpp, TcpConnection.cpp and EventLoop.cpp.                     *)
(*                                                                         *)
(* The loop thread handles one event or one functor at a time. A step of   *)
(* it ends where another thread can see or change something, so a handler  *)
(* takes several; pc[Loop] is "poll" between handlers. The callbacks of    *)
(* the client's user are handlers of the module that extends this one: a   *)
(* step that invokes them ends at "onUp", "onDown" or "onError", for       *)
(* connectionCallback_ with the connection up or down and for              *)
(* connectionErrorCallback_.                                               *)
(*                                                                         *)
(* connect, stop and send may be called by any thread; called on another   *)
(* thread than the loop's they queue a functor.                            *)
(***************************************************************************)
EXTENDS Naturals, Sequences

CONSTANTS
    Users,           \* threads that use the client
    Loop,            \* the loop thread
    Calls,           \* what is sent
    MaxConnections   \* bound: connections established in all

ASSUME LoopAssumption == Loop \notin Users
ASSUME ConnectionsAssumption == MaxConnections \in Nat

Threads == Users \cup {Loop}
Connections == 1 .. MaxConnections
None == 0

VARIABLES
    pendingFunctors, \* EventLoop::pendingFunctors_
    batch,           \* the functors doPendingFunctors has still to call
    pc,
    requested,       \* Connector::connectRequested_
    connector,       \* Connector::state_
    connection,      \* TcpClient::connection_, None if null
    link,            \* link[c]: TcpConnection::state_ of the c-th connection
    hold,            \* hold[t]: the connection thread t has a reference to
    inbox            \* <<c, k>>: k reached the server on c, no answer yet

loopVars == <<pendingFunctors, batch>>
tcpVars  == <<requested, connector, connection, link, inbox>>


TcpInit == /\ pendingFunctors = << >> /\ batch = << >>
           /\ requested = FALSE /\ connector = "Disconnected"
           /\ connection = None
           /\ link = [c \in Connections |-> "none"]
           /\ hold = [t \in Threads |-> None]
           /\ inbox = {}

Goto(t, label) == pc' = [pc EXCEPT ![t] = label]

-----------------------------------------------------------------------------
(***************************************************************************)
(* The event loop. A round handles the events of a poll, then the functors *)
(* that were pending when it came to them.                                 *)
(***************************************************************************)

\* A functor: what to do, for which connection, call, timer or thread.
Functor(do, conn, arg) == [do |-> do, conn |-> conn, arg |-> arg]

QueueInLoop(f) == pendingFunctors' = Append(pendingFunctors, f)

Polling == pc[Loop] = "poll" /\ batch = << >>

SwapFunctors == /\ Polling /\ pendingFunctors # << >>
                /\ batch' = pendingFunctors
                /\ pendingFunctors' = << >>

\* The loop calls the next functor of its batch, which is a do.
Calling(do) == /\ pc[Loop] = "poll" /\ batch # << >> /\ Head(batch).do = do
               /\ batch' = Tail(batch)
               /\ UNCHANGED pendingFunctors

-----------------------------------------------------------------------------
(***************************************************************************)
(* Connector, on the loop thread.                                          *)
(***************************************************************************)

\* The attempt is under way, or connect(2) failed at once.
StartInLoop(wanted, next) ==
    IF wanted /\ connector = "Disconnected"
      THEN \/ connector' = "Connecting" /\ Goto(Loop, next)
           \/ UNCHANGED connector /\ Goto(Loop, "onError")
      ELSE UNCHANGED connector /\ Goto(Loop, next)

CallStart == /\ Calling("start")
             /\ StartInLoop(requested, "poll")
             /\ UNCHANGED <<requested, connection, link, hold, inbox>>

\* An attempt is given up; a connector that is connected forgets about it.
CallStop == /\ Calling("stop")
            /\ connector' = "Disconnected"
            /\ UNCHANGED <<pc, requested, connection, link, hold, inbox>>

\* handleWrite without an error: the connection is taken, or closed because
\* it is no longer wanted.
ConnectSucceeds ==
    /\ Polling /\ connector = "Connecting"
    /\ \E c \in Connections : link[c] = "none"
    /\ IF requested
         THEN connector' = "Connected" /\ Goto(Loop, "newConnection")
         ELSE connector' = "Disconnected" /\ UNCHANGED pc
    /\ UNCHANGED <<loopVars, requested, connection, link, hold, inbox>>

\* handleWrite with an error, or handleError.
ConnectFails ==
    /\ Polling /\ connector = "Connecting"
    /\ connector' = "Disconnected"
    /\ IF requested THEN Goto(Loop, "onError") ELSE UNCHANGED pc
    /\ UNCHANGED <<loopVars, requested, connection, link, hold, inbox>>

-----------------------------------------------------------------------------
(***************************************************************************)
(* Connections, on the loop thread.                                        *)
(***************************************************************************)

\* A connection lives as long as it is published or somebody, a thread or a
\* functor, has a reference to it. One that was replaced may outlive its
\* replacement, or vanish with what it received.
Live(c) == /\ link[c] = "Connected"
           /\ \/ c = connection
              \/ \E t \in Threads : hold[t] = c
              \/ \E i \in DOMAIN pendingFunctors : pendingFunctors[i].conn = c
              \/ \E i \in DOMAIN batch : batch[i].conn = c

\* newConnection publishes the connection and establishes it.
NewConnection ==
    /\ pc[Loop] = "newConnection"
    /\ \E c \in Connections :
          /\ link[c] = "none" /\ \A d \in 1 .. c - 1 : link[d] # "none"
          /\ connection' = c
          /\ link' = [link EXCEPT ![c] = "Connected"]
    /\ Goto(Loop, "onUp")
    /\ UNCHANGED <<loopVars, requested, connector, hold, inbox>>

\* handleClose up to the reset of connection_ in removeConnection. What the
\* server had not answered yet is lost.
HandleClose(c) ==
    /\ link' = [link EXCEPT ![c] = "Disconnected"]
    /\ connection' = IF connection = c THEN None ELSE connection
    /\ inbox' = {m \in inbox : m[1] # c}
    /\ Goto(Loop, "removeConnection")
    /\ UNCHANGED <<requested, connector>>

\* The rest of removeConnection: connector_->stop(), then connectDestroyed.
RemoveConnection ==
    /\ pc[Loop] = "removeConnection"
    /\ requested' = FALSE
    /\ connector' = "Disconnected"
    /\ Goto(Loop, "onDown")
    /\ UNCHANGED <<loopVars, connection, link, hold, inbox>>

\* The server closes a connection, or a read or a write on it fails.
PeerCloses(c) == /\ Polling /\ Live(c)
                 /\ HandleClose(c)
                 /\ UNCHANGED <<loopVars, hold>>

CallForceClose ==
    /\ Calling("forceClose")
    /\ LET c == Head(batch).conn
       IN  IF link[c] = "Connected"
             THEN HandleClose(c)
             ELSE UNCHANGED <<pc, tcpVars>>
    /\ UNCHANGED hold

\* sendInLoop: the frame reaches the server, or the socket turns out closed.
SendInLoop(c, k, next) ==
    \/ /\ link[c] = "Connected"
       /\ inbox' = inbox \cup {<<c, k>>}
       /\ Goto(Loop, next)
       /\ UNCHANGED <<requested, connector, connection, link>>
    \/ link[c] = "Connected" /\ HandleClose(c)
    \/ link[c] # "Connected" /\ Goto(Loop, next) /\ UNCHANGED tcpVars

CallSend == /\ Calling("send")
            /\ SendInLoop(Head(batch).conn, Head(batch).arg, "poll")
            /\ UNCHANGED hold

-----------------------------------------------------------------------------
(***************************************************************************)
(* The interface, called on a thread u other than the loop's. Each call    *)
(* stores the flag first and queues its functor afterwards.                *)
(***************************************************************************)
ConnectFlag(u, next) == /\ requested' = TRUE
                        /\ Goto(u, next)
                        /\ UNCHANGED <<loopVars, connector, connection, link, hold, inbox>>

ConnectQueue(u, next) == /\ QueueInLoop(Functor("start", None, None))
                         /\ Goto(u, next)
                         /\ UNCHANGED <<batch, tcpVars, hold>>

StopFlag(u, next) == /\ requested' = FALSE
                     /\ Goto(u, next)
                     /\ UNCHANGED <<loopVars, connector, connection, link, hold, inbox>>

StopQueue(u, next) == /\ QueueInLoop(Functor("stop", None, None))
                      /\ Goto(u, next)
                      /\ UNCHANGED <<batch, tcpVars, hold>>

\* The second half of stop(): force the active connection to close.
StopClose == /\ IF connection = None
                  THEN UNCHANGED pendingFunctors
                  ELSE QueueInLoop(Functor("forceClose", connection, None))
             /\ UNCHANGED <<batch, tcpVars, hold>>

\* The steps of the loop that do not reach the client's user.
TcpStep == \/ SwapFunctors /\ UNCHANGED <<pc, tcpVars, hold>>
           \/ CallStart \/ CallStop \/ CallForceClose \/ CallSend
           \/ NewConnection \/ RemoveConnection
=============================================================================
