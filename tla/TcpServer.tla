----------------------------- MODULE TcpServer ------------------------------
(***************************************************************************)
(* A TcpServer: TcpServer.cpp, Acceptor.cpp, EventLoopThreadPool.cpp, the  *)
(* channels of Channel.cpp and EpollPoller.cpp, and what TcpConnection.cpp *)
(* does about the life of a connection (all in                             *)
(* src/code/MiniReactor/src/net). The base loop accepts and keeps the      *)
(* table of connections; each connection lives on the loop it was given.   *)
(*                                                                         *)
(* A connection exists as long as somebody refers to it: the table, a      *)
(* functor, or a worker. Its descriptor is closed, and free for the next   *)
(* accept, when the last reference goes. A channel is registered by        *)
(* pointer in epoll and by descriptor in the table of the poller. What a   *)
(* peer sends is here a sequence of messages; FrameStream has the bytes.   *)
(***************************************************************************)
EXTENDS EventLoop

CONSTANTS
    Base,        \* the loop of the server itself
    IoLoops,     \* the loops of the threads it may start, a sequence
    MaxConnections, \* bound: connections in all
    Fds,         \* descriptors
    Acceptor     \* acceptChannel_

ASSUME ServerAssumption == /\ Base \in Loops /\ IoLoops \in Seq(Loops \ {Base})
                           /\ Fds \subseteq Nat \ {0}
                           /\ MaxConnections \in Nat

\* Connections by number, as nextConnectionId_ names them.
Connections == 1 .. MaxConnections

ASSUME ChannelsAssumption == {Acceptor, Wakeup, None} \cap Connections = {}

VARIABLES
    loops,     \* loops_ of the EventLoopThreadPool; none if it has no threads
    next,      \* next_, the position in it
    connected, \* the last connection a peer has made
    accepted,  \* nextConnectionId_ - 1: the last that was accepted
    table,     \* connections_
    state,     \* state_ of a connection, "none" before it was accepted
    loopOf,    \* its loop
    fd,        \* its descriptor
    index,     \* index_ of its channel
    epoll,     \* epoll[l]: the channels in the interest list of l
    channels,  \* channels[l][f]: channels_ of the poller of l
    ready,     \* channels something has happened to since epoll reported them
    locked,    \* locked[w]: the connection worker w has locked
    readable,  \* what the peer has sent and nobody has read
    fin,       \* the peer has closed
    reset      \* the connection was reset

acceptVars  == <<loops, next, connected, accepted, loopOf, fd>>
channelVars == <<index, epoll, channels, ready>>
peerVars    == <<readable, fin, reset>>
serverVars  == <<acceptVars, channelVars, peerVars, table, state, locked>>

ServerInit == /\ LoopInit
              /\ loops \in {SubSeq(IoLoops, 1, n) : n \in 0 .. Len(IoLoops)}
              /\ next = 0 /\ connected = 0 /\ accepted = 0 /\ table = {} /\ ready = {}
              /\ state    = [c \in Connections |-> "none"]
              /\ loopOf   = [c \in Connections |-> None]
              /\ fd       = [c \in Connections |-> 0]
              /\ index    = [c \in Connections |-> "New"]
              /\ epoll    = [l \in Loops |-> IF l = Base THEN {Acceptor} ELSE {}]
              /\ channels = [l \in Loops |-> [f \in Fds |-> None]]
              /\ locked   = [w \in Workers |-> None]
              /\ readable = [c \in Connections |-> << >>]
              /\ fin      = [c \in Connections |-> FALSE]
              /\ reset    = [c \in Connections |-> FALSE]

Referenced(c) == \/ c \in table
                 \/ \E f \in Functors : f.conn = c
                 \/ \E w \in Workers : locked[w] = c

-----------------------------------------------------------------------------
(***************************************************************************)
(* The peers, and what epoll makes of what they do.                        *)
(***************************************************************************)
Noted(ch) == ready' = IF \E l \in Loops : ch \in epoll[l] THEN ready \cup {ch} ELSE ready

Connect == /\ connected < MaxConnections
           /\ connected' = connected + 1
           /\ Noted(Acceptor)
           /\ UNCHANGED <<queueVars, roundVars, loops, next, accepted, loopOf, fd, index, epoll,
                          channels, peerVars, table, state, locked>>

Peer(c) == /\ c <= connected /\ ~fin[c] /\ ~reset[c]
           /\ Noted(c)
           /\ UNCHANGED <<queueVars, roundVars, acceptVars, index, epoll, channels, table, state,
                          locked>>

PeerSends(c, message) == /\ Peer(c)
                         /\ readable' = [readable EXCEPT ![c] = Append(@, message)]
                         /\ UNCHANGED <<fin, reset>>

PeerCloses(c) == /\ Peer(c)
                 /\ \/ fin' = [fin EXCEPT ![c] = TRUE] /\ UNCHANGED reset
                    \/ reset' = [reset EXCEPT ![c] = TRUE] /\ UNCHANGED fin
                 /\ UNCHANGED readable

\* EpollPoller::poll, edge-triggered: what it reports is not ready any more.
PollLoop(l) == /\ Poll(l, ready \cap epoll[l])
               /\ ready' = ready \ epoll[l]
               /\ UNCHANGED <<acceptVars, index, epoll, channels, peerVars, table, state, locked>>

-----------------------------------------------------------------------------
(***************************************************************************)
(* Accepting.                                                              *)
(***************************************************************************)

\* connectEstablished of c, whose descriptor is f, on loop l. The channel is
\* new to the poller; what has happened to it before is reported.
Established(l, c, f) ==
    /\ state' = [state EXCEPT ![c] = "Connected"]
    /\ channels' = [channels EXCEPT ![l][f] = IF @ = None THEN c ELSE @]
    /\ index' = [index EXCEPT ![c] = "Added"]
    /\ epoll' = [epoll EXCEPT ![l] = @ \cup {c}]
    /\ ready' = IF readable[c] # << >> \/ fin[c] \/ reset[c] THEN ready \cup {c} ELSE ready

UsedFds   == {fd[c] : c \in {d \in Connections : Referenced(d)}}
LowestFd(f) == f \in Fds \ UsedFds /\ \A g \in Fds \ UsedFds : f <= g

AcceptEvent == Enter(Base, Acceptor) /\ UNCHANGED <<queueVars, serverVars>>

\* getNextLoop
NextLoop == IF loops = << >> THEN Base ELSE loops[next + 1]

\* accept(2), newConnection.
Accept ==
    /\ Inside(Base, Acceptor) /\ accepted < connected
    /\ \E f \in Fds : LET c == accepted + 1 IN
           /\ LowestFd(f)
           /\ accepted' = c
           /\ next' = IF loops = << >> THEN next ELSE (next + 1) % Len(loops)
           /\ loopOf' = [loopOf EXCEPT ![c] = NextLoop]
           /\ fd' = [fd EXCEPT ![c] = f]
           /\ table' = table \cup {c}
           /\ IF NextLoop = Base
                THEN Established(Base, c, f) /\ UNCHANGED queueVars
                ELSE /\ QueueInLoop(Base, NextLoop, Functor("established", c, None))
                     /\ state' = [state EXCEPT ![c] = "Connecting"]
                     /\ UNCHANGED channelVars
    /\ UNCHANGED <<roundVars, loops, connected, peerVars, locked>>

\* EAGAIN. The defect accepts one connection for an event.
AcceptEnds(done) == /\ Inside(Base, Acceptor) /\ done
                    /\ Leave(Base)
                    /\ UNCHANGED <<queueVars, serverVars>>

AcceptOne == AcceptEnds(accepted > 0)

AcceptDone == AcceptEnds(accepted = connected)

CallEstablished(l) ==
    LET c == NextFunctor(l).conn
    IN  /\ Calling(l, "established")
        /\ Established(l, c, fd[c])
        /\ UNCHANGED <<queueVars, acceptVars, peerVars, table, locked>>

-----------------------------------------------------------------------------
(***************************************************************************)
(* Closing: the connection's loop stops listening, the base loop takes the *)
(* connection out of the table, and its own loop removes the channel.      *)
(***************************************************************************)

\* handleClose with removeConnection.
HandleClose(l, c) ==
    IF state[c] = "Disconnected"
      THEN UNCHANGED <<queueVars, state, channelVars>>
      ELSE /\ state' = [state EXCEPT ![c] = "Disconnected"]
           /\ index' = [index EXCEPT ![c] = "Deleted"]
           /\ epoll' = [epoll EXCEPT ![l] = @ \ {c}]
           /\ ready' = ready \ {c}
           /\ QueueInLoop(l, Base, Functor("remove", c, None))
           /\ UNCHANGED channels

\* removeConnectionInLoop
CallRemove ==
    LET c == NextFunctor(Base).conn
    IN  /\ Calling(Base, "remove")
        /\ IF c \in table
             THEN /\ table' = table \ {c}
                  /\ QueueInLoop(Base, loopOf[c], Functor("destroyed", c, None))
             ELSE UNCHANGED <<table, queueVars>>
        /\ UNCHANGED <<acceptVars, channelVars, peerVars, state, locked>>

\* EpollPoller::removeChannel; the defect leaves the table as it is.
StopListening(l, c) == /\ epoll' = [epoll EXCEPT ![l] = @ \ {c}]
                       /\ index' = [index EXCEPT ![c] = "New"]
                       /\ ready' = ready \ {c}

RemoveSilently(l, c) == StopListening(l, c) /\ UNCHANGED channels

RemoveChannel(l, c) ==
    IF channels[l][fd[c]] = None
      THEN UNCHANGED channelVars
      ELSE StopListening(l, c) /\ channels' = [channels EXCEPT ![l][fd[c]] = None]

\* connectDestroyed
CallDestroyed(l) ==
    LET c == NextFunctor(l).conn
    IN  /\ Calling(l, "destroyed")
        /\ state' = [state EXCEPT ![c] = "Disconnected"]
        /\ RemoveChannel(l, c)
        /\ UNCHANGED <<queueVars, acceptVars, peerVars, table, locked>>

-----------------------------------------------------------------------------
ServerRound(l) ==
    \/ PollLoop(l)
    \/ /\ \/ HandleWakeupRead(l) \/ SwapFunctors(l)
          \/ \E k \in Loops : Wake(l, k)
       /\ UNCHANGED serverVars
    \/ CallEstablished(l) \/ CallDestroyed(l)

BaseStep == AcceptEvent \/ Accept \/ AcceptDone \/ CallRemove
=============================================================================
