-------------------------- MODULE RpcServerProofs ---------------------------
(***************************************************************************)
(* Proofs about RpcServer and the layers under it, TcpServer and           *)
(* EventLoop, for any loops, workers, descriptors, messages and bounds.    *)
(*                                                                         *)
(* An action of the server changes its loop's round, the connections and   *)
(* the requests. Each of the three has an invariant of its own, and a step *)
(* is looked at once for each of them.                                     *)
(***************************************************************************)
EXTENDS RpcServer, FiniteSetTheorems, SequenceTheorems, TLAPS

-----------------------------------------------------------------------------
(***************************************************************************)
(* What the variables hold.                                                *)
(***************************************************************************)
Requests == [id : 1 .. MaxInputs, conn : Connections,
             message : UNION {Messages[n] : n \in 1 .. MaxInputs}]
Answers  == [request : Requests, code : Codes]

\* The functors: those that are about a connection, and those that send.
FunctorSet == [do : {"established", "remove", "destroyed"}, conn : Connections, arg : {None}]
              \cup [do : {"send"}, conn : Connections, arg : Answers]

Channels == Connections \cup {Acceptor, Wakeup}

\* The variables of EventLoop.
LoopTypes ==
    /\ stage   \in [Loops -> {"channels", "functors"}]
    /\ active  \in [Loops -> SUBSET Channels]
    /\ inside  \in [Loops -> Connections \cup {Acceptor, None}]
    /\ pending \in [Loops -> Seq(FunctorSet)]
    /\ batch   \in [Loops -> Seq(FunctorSet)]
    /\ called  \in [Loops -> Nat]
    /\ eventfd \in [Loops -> BOOLEAN]
    /\ waking \subseteq Threads \X Loops

\* A loop is either at the events of channels or at functors.
Rounds == \A l \in Loops :
    /\ called[l] <= Len(batch[l])
    /\ stage[l] = "functors" => active[l] = {} /\ inside[l] = None
    /\ stage[l] = "channels" => batch[l] = << >> /\ called[l] = 0

\* A loop that calls functors, or polls, looks again if more are pending.
Awake == \A l \in Loops : stage[l] = "functors" /\ pending[l] # << >> =>
            eventfd[l] \/ \E t \in Threads : <<t, l>> \in waking

LoopInv == LoopTypes /\ Rounds /\ Awake

\* The variables of TcpServer: of accepting, of the channels, of the peers and
\* of the workers' references.
AcceptTypes ==
    /\ loops \in Seq(Loops)
    /\ next \in Nat /\ (loops # << >> => next < Len(loops))
    /\ connected \in 0 .. MaxConnections
    /\ accepted \in 0 .. connected
    /\ loopOf \in [Connections -> Loops \cup {None}]
    /\ fd     \in [Connections -> Fds \cup {0}]
    /\ table \subseteq Connections

ChannelTypes ==
    /\ state  \in [Connections -> {"none", "Connecting", "Connected", "Disconnected"}]
    /\ index  \in [Connections -> {"New", "Added", "Deleted"}]
    /\ epoll  \in [Loops -> SUBSET (Connections \cup {Acceptor})]
    /\ channels \in [Loops -> [Fds -> Connections \cup {None}]]
    /\ ready \subseteq Connections \cup {Acceptor}

PeerTypes ==
    /\ locked \in [Workers -> Connections \cup {None}]
    /\ readable \in [Connections -> Seq(Requests)]
    /\ fin   \in [Connections -> BOOLEAN]
    /\ reset \in [Connections -> BOOLEAN]

ServerTypes == AcceptTypes /\ ChannelTypes /\ PeerTypes

\* The variables of RpcServer, without the counters: of reading, of the pool
\* and its workers, and the answers.
InputTypes ==
    /\ inputs \in 0 .. MaxInputs
    /\ todo \in [Loops -> Seq(Requests)]
    /\ eof  \in [Loops -> BOOLEAN]
    /\ step \in [Loops -> {"decode", "handle", "post", "reject"}]
    /\ received \subseteq Requests

WorkTypes ==
    /\ queue \in Seq(Requests) /\ Len(queue) <= QueueCapacity
    /\ worker \in [Workers -> {"idle", "handling", "encoding", "sending", "waking"}]
    /\ task \in [Workers -> Requests \cup {NoRequest}]
    /\ code \in [Workers -> Codes \cup {"none"}]
    /\ \A w \in Workers : /\ worker[w] # "idle" => task[w] \in Requests
                          /\ worker[w] \in {"sending", "waking"} => code[w] \in Codes

AnswerTypes == answers \in [Connections -> Seq(Answers)]

RequestTypes == InputTypes /\ WorkTypes /\ AnswerTypes

-----------------------------------------------------------------------------
(***************************************************************************)
(* The life of a connection.                                               *)
(***************************************************************************)

\* Functors that loop l has still to call: of its batch, and pending.
Rest(l) == {batch[l][i] : i \in called[l] + 1 .. Len(batch[l])}
Pend(l) == {pending[l][i] : i \in 1 .. Len(pending[l])}
Uncalled(l) == Rest(l) \cup Pend(l)

\* The functor that establishes c is not queued twice.
Establishes(f, c) == f.do = "established" /\ f.conn = c
EstablishedOnce == \A l \in Loops, c \in Connections :
    /\ \A i, j \in called[l] + 1 .. Len(batch[l]) :
          Establishes(batch[l][i], c) /\ Establishes(batch[l][j], c) => i = j
    /\ \A i, j \in 1 .. Len(pending[l]) :
          Establishes(pending[l][i], c) /\ Establishes(pending[l][j], c) => i = j
    /\ \A i \in called[l] + 1 .. Len(batch[l]), j \in 1 .. Len(pending[l]) :
          ~(Establishes(batch[l][i], c) /\ Establishes(pending[l][j], c))

\* What a functor that is still to be called relies on.
FunctorSound(l, f) ==
    /\ f.do = "established" => /\ f.conn \in table /\ loopOf[f.conn] = l
                               /\ state[f.conn] = "Connecting"
    /\ f.do = "remove" => l = Base /\ state[f.conn] = "Disconnected"
    /\ f.do = "destroyed" => /\ f.conn \notin table /\ loopOf[f.conn] = l
                             /\ state[f.conn] = "Disconnected"
    /\ f.do = "send" => loopOf[f.conn] = l

FunctorsSound == \A l \in Loops : \A f \in Uncalled(l) : FunctorSound(l, f)

\* The table has the connection, or the functor that destroys it.
Held(c) == c \in table \/ \E l \in Loops : Functor("destroyed", c, None) \in Uncalled(l)

Referred == \A c \in Connections : Referenced(c) =>
                c <= accepted /\ loopOf[c] \in Loops /\ fd[c] \in Fds

\* Accepted connections have a state; only channels that are not new are
\* registered, each in the poller of its loop and under its descriptor, and
\* only those of connections that are held.
RegisteredAtAll(c) ==
    /\ state[c] = "none" <=> c > accepted
    /\ state[c] \in {"none", "Connecting"} => index[c] = "New"
    /\ state[c] \in {"Connecting", "Connected"} => c \in table
    /\ index[c] # "New" => Held(c) /\ channels[loopOf[c]][fd[c]] = c
    /\ state[c] = "Connected" => index[c] = "Added" /\ c \in epoll[loopOf[c]]

RegisteredOn(l, c) ==
    /\ c \in epoll[l] => loopOf[c] = l /\ index[c] = "Added"
    /\ c \in active[l] \/ c = inside[l] => loopOf[c] = l /\ index[c] # "New"
    /\ \A f \in Fds : channels[l][f] = c => loopOf[c] = l /\ fd[c] = f /\ index[c] # "New"

DistinctFds == \A c, d \in Connections :
    Referenced(c) /\ Referenced(d) /\ fd[c] = fd[d] => c = d

ChannelsRegistered == \A c \in Connections : RegisteredAtAll(c) /\ \A l \in Loops : RegisteredOn(l, c)

ConnInv == EstablishedOnce /\ FunctorsSound /\ Referred /\ DistinctFds /\ ChannelsRegistered

-----------------------------------------------------------------------------
(***************************************************************************)
(* The rounds of a loop.                                                   *)
(***************************************************************************)

\* Thread t queues a functor, about a connection somebody refers to or a new
\* one, or does not.
Queueable(f) == IF f.do = "established" THEN Accept /\ f.conn = accepted + 1
                                        ELSE Referenced(f.conn)
Queues(t) == \/ UNCHANGED queueVars
             \/ \E k \in Loops, f \in FunctorSet : QueueInLoop(t, k, f) /\ Queueable(f)

\* What a step may do to the rounds.
Handles(l) == \E ch \in Channels :
    /\ Handling(l, ch)
    /\ \/ UNCHANGED inside
       \/ inside' = [inside EXCEPT ![l] = ch] /\ ch \in Connections \cup {Acceptor}
    /\ \/ UNCHANGED eventfd
       \/ eventfd' = [eventfd EXCEPT ![l] = FALSE]
Leaves(l) == (\E ch \in Channels : Inside(l, ch)) /\ Leave(l)
Calls(l) == \E do \in {"established", "remove", "destroyed", "send"} : Calling(l, do)

RoundStep ==
    \/ UNCHANGED <<queueVars, roundVars>>
    \/ \E t \in Threads : /\ UNCHANGED roundVars /\ Queues(t)
                          /\ t \in Loops => stage[t] = "channels"
    \/ \E t \in Threads, l \in Loops : Wake(t, l)
    \/ \E l \in Loops, others \in SUBSET Channels : Poll(l, others) /\ others \subseteq epoll[l]
    \/ \E l \in Loops : (Handles(l) \/ Leaves(l) \/ Calls(l)) /\ Queues(l)
    \/ \E l \in Loops : SwapFunctors(l)

\* Who queues a functor in a loop that calls functors is going to wake it.
LEMMA QueuesAwake ==
    ASSUME LoopTypes, NEW t \in Threads, Queues(t)
    PROVE  /\ pending' \in [Loops -> Seq(FunctorSet)]
           /\ waking' \subseteq Threads \X Loops /\ waking \subseteq waking'
           /\ \A l \in Loops : stage[l] = "functors" /\ pending'[l] # << >> =>
                 pending[l] # << >> \/ <<t, l>> \in waking'
<1>1. CASE UNCHANGED queueVars
  BY <1>1 DEF queueVars, LoopTypes
<1>2. CASE \E k \in Loops, f \in FunctorSet : QueueInLoop(t, k, f) /\ Queueable(f)
  <2>1. PICK k \in Loops, f \in FunctorSet : QueueInLoop(t, k, f)
    BY <1>2
  <2>2. pending' = [pending EXCEPT ![k] = Append(@, f)]
    BY <2>1 DEF QueueInLoop, QueueWaking
  <2>3. pending' \in [Loops -> Seq(FunctorSet)]
    BY <2>2 DEF LoopTypes
  <2>4. waking' = IF t # k \/ stage[k] = "functors" THEN waking \cup {<<t, k>>} ELSE waking
    BY <2>1 DEF QueueInLoop, QueueWaking
  <2>5. waking' \subseteq Threads \X Loops /\ waking \subseteq waking'
    BY <2>4 DEF LoopTypes
  <2>6. ASSUME NEW l \in Loops, stage[l] = "functors", pending'[l] # << >>
        PROVE  pending[l] # << >> \/ <<t, l>> \in waking'
    BY <2>2, <2>4, <2>6 DEF LoopTypes
  <2> QED BY <2>3, <2>5, <2>6
<1> QED BY <1>1, <1>2 DEF Queues

\* A step that leaves the round of every loop alone keeps the invariant.
LEMMA AsideKeepsLoop ==
    ASSUME LoopInv, NEW t \in Threads, UNCHANGED roundVars, Queues(t)
    PROVE  LoopInv'
<1>1. LoopTypes /\ Rounds /\ Awake
  BY DEF LoopInv
<1>2. UNCHANGED <<stage, active, inside, batch, called, eventfd>>
  BY DEF roundVars
<1>3. LoopTypes'
  BY <1>1, <1>2, QueuesAwake DEF LoopTypes
<1>4. Rounds'
  BY <1>1, <1>2 DEF Rounds
<1>5. Awake'
  BY <1>1, <1>2, QueuesAwake DEF Awake
<1> QED BY <1>3, <1>4, <1>5 DEF LoopInv

\* So does the write to the eventfd.
LEMMA WakeKeepsLoop ==
    ASSUME LoopInv, NEW t \in Threads, NEW l \in Loops, Wake(t, l)
    PROVE  LoopInv'
<1>1. LoopTypes /\ Rounds /\ Awake
  BY DEF LoopInv
<1>2. /\ waking' = waking \ {<<t, l>>}
      /\ eventfd' = [eventfd EXCEPT ![l] = TRUE]
      /\ UNCHANGED <<pending, stage, active, inside, batch, called>>
  BY DEF Wake
<1>3. LoopTypes'
  BY <1>1, <1>2 DEF LoopTypes
<1>4. Rounds'
  BY <1>1, <1>2 DEF Rounds
<1>5. ASSUME NEW k \in Loops, stage'[k] = "functors", pending'[k] # << >>
      PROVE  eventfd'[k] \/ \E s \in Threads : <<s, k>> \in waking'
  <2>1. CASE k = l
    BY <1>1, <1>2, <2>1 DEF LoopTypes
  <2>2. CASE k # l
    <3>1. eventfd'[k] = eventfd[k]
      BY <1>1, <1>2, <2>2 DEF LoopTypes
    <3>2. eventfd[k] \/ \E s \in Threads : <<s, k>> \in waking
      BY <1>1, <1>2, <1>5 DEF Awake
    <3>3. \A s \in Threads : <<s, k>> \in waking => <<s, k>> \in waking'
      BY <1>2, <2>2
    <3> QED BY <3>1, <3>2, <3>3
  <2> QED BY <2>1, <2>2
<1> QED BY <1>3, <1>4, <1>5 DEF LoopInv, Awake

\* So does a poll, which does not return with functors but before them.
LEMMA PollKeepsLoop ==
    ASSUME LoopInv, NEW l \in Loops, NEW others \in SUBSET Channels, Poll(l, others)
    PROVE  LoopInv'
<1>1. LoopTypes /\ Rounds /\ Awake
  BY DEF LoopInv
<1>2. PICK got \in SUBSET Channels : active' = [active EXCEPT ![l] = got]
  BY DEF Poll, Channels
<1>3. /\ stage' = [stage EXCEPT ![l] = "channels"]
      /\ batch' = [batch EXCEPT ![l] = << >>]
      /\ called' = [called EXCEPT ![l] = 0]
      /\ UNCHANGED <<pending, waking, inside, eventfd>>
      /\ stage[l] = "functors"
  BY DEF Poll, Polling, queueVars
<1>4. LoopTypes'
  BY <1>1, <1>2, <1>3 DEF LoopTypes
<1>5. Rounds'
  BY <1>1, <1>2, <1>3 DEF Rounds, LoopTypes
<1>6. Awake'
  BY <1>1, <1>3 DEF Awake, LoopTypes
<1> QED BY <1>4, <1>5, <1>6 DEF LoopInv

\* So does the handling of an event, which is no time to call functors.
LEMMA HandlesKeepsLoop ==
    ASSUME LoopInv, NEW l \in Loops, Handles(l) \/ Leaves(l), Queues(l)
    PROVE  LoopInv'
<1>1. LoopTypes /\ Rounds /\ Awake /\ l \in Threads
  BY DEF LoopInv, Threads
<1>2. stage[l] = "channels" /\ UNCHANGED <<stage, batch, called>>
  <2>1. CASE Handles(l)
    BY <2>1 DEF Handles, Handling
  <2>2. CASE Leaves(l)
    BY <1>1, <2>2 DEF Leaves, Leave, Inside, LoopTypes, Rounds
  <2> QED BY <2>1, <2>2
<1>3. /\ active' \in [Loops -> SUBSET Channels]
      /\ inside' \in [Loops -> Connections \cup {Acceptor, None}]
      /\ eventfd' \in [Loops -> BOOLEAN]
      /\ \A k \in Loops \ {l} : active'[k] = active[k] /\ inside'[k] = inside[k]
                                /\ eventfd'[k] = eventfd[k]
  <2>1. CASE Handles(l)
    <3>1. PICK ch \in Channels :
            /\ Handling(l, ch)
            /\ \/ UNCHANGED inside
               \/ inside' = [inside EXCEPT ![l] = ch] /\ ch \in Connections \cup {Acceptor}
            /\ \/ UNCHANGED eventfd
               \/ eventfd' = [eventfd EXCEPT ![l] = FALSE]
      BY <2>1 DEF Handles
    <3>2. active' = [active EXCEPT ![l] = @ \ {ch}]
      BY <3>1 DEF Handling
    <3>3. active' \in [Loops -> SUBSET Channels]
          /\ \A k \in Loops \ {l} : active'[k] = active[k]
      BY <1>1, <3>2 DEF LoopTypes
    <3>4. inside' \in [Loops -> Connections \cup {Acceptor, None}]
          /\ \A k \in Loops \ {l} : inside'[k] = inside[k]
      BY <1>1, <3>1 DEF LoopTypes
    <3>5. eventfd' \in [Loops -> BOOLEAN]
          /\ \A k \in Loops \ {l} : eventfd'[k] = eventfd[k]
      BY <1>1, <3>1 DEF LoopTypes
    <3> QED BY <3>3, <3>4, <3>5
  <2>2. CASE Leaves(l)
    BY <1>1, <2>2 DEF Leaves, Leave, LoopTypes
  <2> QED BY <2>1, <2>2
<1>4. LoopTypes'
  BY <1>1, <1>2, <1>3, QueuesAwake DEF LoopTypes
<1>5. Rounds'
  BY <1>1, <1>2, <1>3 DEF Rounds
<1>6. ASSUME NEW k \in Loops, stage'[k] = "functors", pending'[k] # << >>
      PROVE  eventfd'[k] \/ \E s \in Threads : <<s, k>> \in waking'
  <2>1. k # l /\ stage[k] = "functors"
    BY <1>2, <1>6
  <2>2. eventfd'[k] = eventfd[k]
    BY <1>3, <2>1
  <2>3. waking \subseteq waking' /\ (pending[k] # << >> \/ <<l, k>> \in waking')
    BY <1>1, <1>6, <2>1, QueuesAwake
  <2> QED BY <1>1, <2>1, <2>2, <2>3 DEF Awake
<1> QED BY <1>4, <1>5, <1>6 DEF LoopInv, Awake

\* So does the call of a functor, which may queue others.
LEMMA CallsKeepsLoop ==
    ASSUME LoopInv, NEW l \in Loops, Calls(l), Queues(l)
    PROVE  LoopInv'
<1>1. LoopTypes /\ Rounds /\ Awake /\ l \in Threads
  BY DEF LoopInv, Threads
<1>2. /\ stage[l] = "functors" /\ called[l] < Len(batch[l])
      /\ called' = [called EXCEPT ![l] = @ + 1]
      /\ UNCHANGED <<stage, active, inside, batch, eventfd>>
  BY DEF Calls, Calling
<1>3. LoopTypes'
  BY <1>1, <1>2, QueuesAwake DEF LoopTypes
<1>4. Rounds'
  <2>1. ASSUME NEW k \in Loops PROVE called'[k] <= Len(batch'[k])
    <3>1. Len(batch[k]) \in Nat /\ called[k] \in Nat /\ called[k] <= Len(batch[k])
      BY <1>1 DEF LoopTypes, Rounds
    <3>2. called'[k] = IF k = l THEN called[k] + 1 ELSE called[k]
      BY <1>1, <1>2 DEF LoopTypes
    <3> QED BY <1>2, <3>1, <3>2
  <2>2. ASSUME NEW k \in Loops, stage'[k] = "channels" PROVE called'[k] = 0
    BY <1>1, <1>2, <2>2 DEF LoopTypes, Rounds
  <2> QED BY <1>1, <1>2, <2>1, <2>2 DEF Rounds
<1>5. Awake'
  BY <1>1, <1>2, QueuesAwake DEF Awake
<1> QED BY <1>3, <1>4, <1>5 DEF LoopInv

\* So does the step that takes what is pending.
LEMMA SwapKeepsLoop ==
    ASSUME LoopInv, NEW l \in Loops, SwapFunctors(l)
    PROVE  LoopInv'
<1>1. LoopTypes /\ Rounds /\ Awake
  BY DEF LoopInv
<1>2. /\ stage[l] = "channels" /\ active[l] = {} /\ inside[l] = None
      /\ batch' = [batch EXCEPT ![l] = pending[l]]
      /\ pending' = [pending EXCEPT ![l] = << >>]
      /\ stage' = [stage EXCEPT ![l] = "functors"]
      /\ UNCHANGED <<waking, active, inside, called, eventfd>>
  BY DEF SwapFunctors
<1>3. LoopTypes'
  BY <1>1, <1>2 DEF LoopTypes
<1>4. Rounds'
  <2>1. called[l] = 0 /\ Len(pending[l]) \in Nat
    BY <1>1, <1>2 DEF Rounds, LoopTypes
  <2> QED BY <1>1, <1>2, <2>1 DEF Rounds, LoopTypes
<1>5. Awake'
  BY <1>1, <1>2 DEF Awake, LoopTypes
<1> QED BY <1>3, <1>4, <1>5 DEF LoopInv

\* The invariant of the rounds is inductive for what a step may do to them.
LEMMA RoundStepKeepsLoop ==
    ASSUME LoopInv, RoundStep PROVE LoopInv'
<1>1. CASE UNCHANGED <<queueVars, roundVars>>
  <2>1. Base \in Threads /\ Queues(Base)
    BY <1>1, ServerAssumption DEF Threads, Queues
  <2> QED BY <1>1, <2>1, AsideKeepsLoop
<1> QED BY <1>1, AsideKeepsLoop, WakeKeepsLoop, PollKeepsLoop, HandlesKeepsLoop, CallsKeepsLoop,
           SwapKeepsLoop DEF RoundStep

-----------------------------------------------------------------------------
(***************************************************************************)
(* What each action does to the rounds.                                    *)
(***************************************************************************)
TypesInv == LoopInv /\ ServerTypes /\ RequestTypes

\* The functors the server queues.
LEMMA FunctorIsTyped ==
    ASSUME NEW c \in Connections
    PROVE  /\ \A do \in {"established", "remove", "destroyed"} :
                 Functor(do, c, None) \in FunctorSet
           /\ \A a \in Answers : Functor("send", c, a) \in FunctorSet
BY DEF Functor, FunctorSet

\* The next functor of a loop that calls one.
LEMMA NextFunctorIsTyped ==
    ASSUME LoopInv, NEW l \in Loops, called[l] < Len(batch[l])
    PROVE  /\ called[l] + 1 \in 1 .. Len(batch[l])
           /\ NextFunctor(l) \in FunctorSet /\ NextFunctor(l).conn \in Connections
           /\ NextFunctor(l).do = "send" => NextFunctor(l).arg \in Answers
<1>1. called[l] \in Nat /\ batch[l] \in Seq(FunctorSet) /\ Len(batch[l]) \in Nat
  BY DEF LoopInv, LoopTypes
<1>2. called[l] + 1 \in 1 .. Len(batch[l])
  BY <1>1
<1>3. NextFunctor(l) \in FunctorSet
  BY <1>1, <1>2, ElementOfSeq DEF NextFunctor
<1> QED BY <1>2, <1>3 DEF FunctorSet

\* The loop a connection that is referred to lives on.
LEMMA LoopOfReferred ==
    ASSUME Referred, NEW c \in Connections, Referenced(c)
    PROVE  loopOf[c] \in Loops /\ fd[c] \in Fds /\ c <= accepted
BY DEF Referred

\* The loops that are given connections.
LEMMA NextLoopIsLoop ==
    ASSUME ServerTypes PROVE NextLoop \in Loops
<1>1. CASE loops = << >>
  BY <1>1, ServerAssumption DEF NextLoop
<1>2. CASE loops # << >>
  <2>1. next + 1 \in 1 .. Len(loops) /\ loops \in Seq(Loops)
    BY <1>2 DEF ServerTypes, AcceptTypes
  <2>2. loops[next + 1] \in Loops
    BY <2>1, ElementOfSeq
  <2> QED BY <1>2, <2>2 DEF NextLoop
<1> QED BY <1>1, <1>2

\* A loop that calls a functor still refers to its connection.
LEMMA NextIsReferenced ==
    ASSUME LoopInv, NEW l \in Loops, called[l] < Len(batch[l])
    PROVE  Referenced(NextFunctor(l).conn)
<1>1. called[l] + 1 \in 1 .. Len(batch[l])
  BY NextFunctorIsTyped
<1>2. called[l] \in Nat /\ Len(batch[l]) \in Nat
  BY DEF LoopInv, LoopTypes
<1>3. ~Polling(l)
  BY <1>2 DEF Polling
<1>4. NextFunctor(l) \in {batch[l][i] : i \in 1 .. Len(batch[l])}
  BY <1>1 DEF NextFunctor
<1>5. NextFunctor(l) \in Functors
  BY <1>3, <1>4 DEF Functors, HeldBy
<1> QED BY <1>5 DEF Referenced

\* So it is with what it has still to call, ...
LEMMA UncalledIsReferenced ==
    ASSUME LoopInv, NEW l \in Loops, NEW f \in Uncalled(l)
    PROVE  f \in FunctorSet /\ f.conn \in Connections /\ Referenced(f.conn)
<1>1. /\ called[l] \in Nat /\ Len(batch[l]) \in Nat
      /\ batch[l] \in Seq(FunctorSet) /\ pending[l] \in Seq(FunctorSet)
  BY DEF LoopInv, LoopTypes
<1>2. f \in FunctorSet /\ f \in HeldBy(l)
  <2>1. CASE f \in Pend(l)
    BY <1>1, <2>1, ElementOfSeq DEF Pend, HeldBy
  <2>2. CASE f \in Rest(l)
    <3>1. PICK i \in called[l] + 1 .. Len(batch[l]) : f = batch[l][i]
      BY <2>2 DEF Rest
    <3>2. i \in 1 .. Len(batch[l]) /\ called[l] # Len(batch[l])
      BY <1>1, <3>1
    <3>3. ~Polling(l)
      BY <3>2 DEF Polling
    <3> QED BY <1>1, <3>1, <3>2, <3>3, ElementOfSeq DEF HeldBy
  <2> QED BY <2>1, <2>2 DEF Uncalled
<1>3. f \in Functors
  BY <1>2 DEF Functors
<1> QED BY <1>2, <1>3 DEF FunctorSet, Referenced

\* ... with connections that are held, and with those whose events it handles.
LEMMA HeldIsReferenced ==
    ASSUME LoopInv, NEW c \in Connections, Held(c) PROVE Referenced(c)
<1>1. CASE c \in table
  BY <1>1 DEF Referenced
<1>2. ASSUME NEW l \in Loops, Functor("destroyed", c, None) \in Uncalled(l)
      PROVE  Referenced(c)
  <2>1. Functor("destroyed", c, None).conn = c
    BY DEF Functor
  <2> QED BY <1>2, <2>1, UncalledIsReferenced
<1> QED BY <1>1, <1>2 DEF Held

\* A channel whose events a loop handles is of a connection that exists, and
\* lives on this loop.
LEMMA ActiveIsReferenced ==
    ASSUME LoopInv, ConnInv, NEW l \in Loops, NEW c \in Connections, c \in active[l] \/ c = inside[l]
    PROVE  Referenced(c) /\ loopOf[c] = l /\ index[c] # "New"
BY HeldIsReferenced DEF ConnInv, ChannelsRegistered, RegisteredOn, RegisteredAtAll

\* Closing and sending queue at most a functor.
LEMMA CloseQueues ==
    ASSUME NEW l \in Loops, NEW c \in Connections, Referenced(c), HandleClose(l, c)
    PROVE  Queues(l)
<1>1. Functor("remove", c, None) \in FunctorSet /\ Base \in Loops
  BY FunctorIsTyped, ServerAssumption
<1>2. Queueable(Functor("remove", c, None))
  BY DEF Queueable, Functor
<1> QED BY <1>1, <1>2 DEF HandleClose, Queues

\* The same of sending.
LEMMA SendQueues ==
    ASSUME NEW l \in Loops, NEW c \in Connections, NEW a, Referenced(c), SendInLoop(l, c, a)
    PROVE  Queues(l)
<1>1. HandleClose(l, c) => Queues(l)
  BY CloseQueues
<1> QED BY <1>1 DEF SendInLoop, Write, Queues

\* The events of a channel, and the rest of a handler.
LEMMA HandlingIsActive ==
    ASSUME NEW l, NEW c PROVE /\ Handling(l, c) => c \in active[l]
                              /\ Inside(l, c) => c = inside[l] /\ inside[l] # None
BY DEF Handling, Inside

\* A loop in the middle of a handler is not calling functors.
LEMMA InsideIsAtChannels ==
    ASSUME LoopInv, NEW l \in Loops, NEW c, Inside(l, c) PROVE stage[l] = "channels"
BY DEF LoopInv, LoopTypes, Rounds, Inside

\* A loop's own steps, one by one.
LEMMA BaseStepIsRound ==
    ASSUME TypesInv, ConnInv, BaseStep
    PROVE  RoundStep
<1>1. Base \in Loops /\ Base \in Threads /\ Acceptor \in Channels
  BY ServerAssumption DEF Channels, Threads
<1>2. CASE AcceptEvent
  <2>1. Handles(Base)
    BY <1>1, <1>2 DEF AcceptEvent, Enter, Handles
  <2> QED BY <1>1, <1>2, <2>1 DEF AcceptEvent, RoundStep, Queues
<1>3. CASE Accept
  <2>1. UNCHANGED roundVars
    BY <1>3 DEF Accept
  <2>2. Queues(Base)
    <3>1. CASE UNCHANGED queueVars
      BY <3>1 DEF Queues
    <3>2. CASE ~UNCHANGED queueVars
      <4>1. QueueInLoop(Base, NextLoop, Functor("established", accepted + 1, None))
        BY <1>3, <3>2 DEF Accept
      <4>2. accepted + 1 \in Connections
        <5>1. accepted \in Nat /\ connected \in 0 .. MaxConnections /\ accepted < connected
          BY <1>3, ServerAssumption DEF Accept, TypesInv, ServerTypes, AcceptTypes
        <5> QED BY <5>1, ServerAssumption DEF Connections
      <4>3. Functor("established", accepted + 1, None) \in FunctorSet
        BY <4>2, FunctorIsTyped
      <4>4. NextLoop \in Loops
        BY NextLoopIsLoop DEF TypesInv
      <4>5. Queueable(Functor("established", accepted + 1, None))
        BY <1>3 DEF Queueable, Functor
      <4> QED BY <4>1, <4>3, <4>4, <4>5 DEF Queues
    <3> QED BY <3>1, <3>2
  <2>3. stage[Base] = "channels"
    BY <1>1, <1>3, InsideIsAtChannels DEF Accept, TypesInv
  <2> QED BY <1>1, <2>1, <2>2, <2>3 DEF RoundStep
<1>4. CASE AcceptDone
  <2>1. Leaves(Base)
    BY <1>1, <1>4 DEF AcceptDone, AcceptEnds, Leaves
  <2> QED BY <1>1, <1>4, <2>1 DEF AcceptDone, AcceptEnds, RoundStep, Queues
<1>5. CASE CallRemove
  <2>1. Calling(Base, "remove")
    BY <1>5 DEF CallRemove
  <2>2. called[Base] < Len(batch[Base])
    BY <2>1 DEF Calling
  <2>3. NextFunctor(Base).conn \in Connections /\ loopOf[NextFunctor(Base).conn] \in Loops
    BY <1>1, <2>2, NextFunctorIsTyped, NextIsReferenced, LoopOfReferred DEF TypesInv, ConnInv
  <2>4. Functor("destroyed", NextFunctor(Base).conn, None) \in FunctorSet
    BY <2>3, FunctorIsTyped
  <2>5. Queueable(Functor("destroyed", NextFunctor(Base).conn, None))
    BY <1>1, <2>2, NextIsReferenced DEF TypesInv, Queueable, Functor
  <2>6. Queues(Base)
    BY <1>5, <2>3, <2>4, <2>5 DEF CallRemove, Queues
  <2> QED BY <1>1, <2>1, <2>6 DEF RoundStep, Calls
<1> QED BY <1>2, <1>3, <1>4, <1>5 DEF BaseStep

\* The steps of the round itself.
LEMMA ServerRoundIsRound ==
    ASSUME TypesInv, NEW l \in Loops, ServerRound(l)
    PROVE  RoundStep
<1>1. l \in Threads /\ Wakeup \in Channels
  BY DEF Threads, Channels
<1>2. CASE PollLoop(l)
  <2>1. ready \cap epoll[l] \in SUBSET Channels
    BY DEF TypesInv, ServerTypes, ChannelTypes, Channels
  <2>2. ready \cap epoll[l] \subseteq epoll[l]
    OBVIOUS
  <2> QED BY <1>2, <2>1, <2>2 DEF PollLoop, RoundStep
<1>3. CASE HandleWakeupRead(l)
  <2>1. Handles(l)
    BY <1>1, <1>3 DEF HandleWakeupRead, Handles
  <2> QED BY <1>3, <2>1 DEF HandleWakeupRead, RoundStep, Queues
<1>4. CASE SwapFunctors(l)
  BY <1>4 DEF RoundStep
<1>5. CASE \E k \in Loops : Wake(l, k)
  BY <1>1, <1>5 DEF RoundStep
<1>6. CASE CallEstablished(l)
  BY <1>6 DEF CallEstablished, RoundStep, Calls, Queues
<1>7. CASE CallDestroyed(l)
  BY <1>7 DEF CallDestroyed, RoundStep, Calls, Queues
<1> QED BY <1>2, <1>3, <1>4, <1>5, <1>6, <1>7 DEF ServerRound

\* Reading, answering and posting.
LEMMA RpcStepIsRound ==
    ASSUME TypesInv, ConnInv, NEW l \in Loops,
           \/ ReadEvent(l) \/ CloseEvent(l) \/ ReadEnds(l) \/ CallSend(l)
           \/ DecodeFails(l) \/ CountRequest(l) \/ Refuse(l) \/ Admit(l)
           \/ PostAccepted(l) \/ PostRejected(l) \/ AnswerRejected(l)
    PROVE  RoundStep
<1>1. l \in Threads /\ Connections \subseteq Channels /\ LoopInv
  BY DEF Threads, Channels, TypesInv
<1>2. CASE ReadEvent(l)
  <2>1. Handles(l)
    BY <1>1, <1>2 DEF ReadEvent, Enter, Handles
  <2> QED BY <1>2, <2>1 DEF ReadEvent, RoundStep, Queues
<1>3. CASE CloseEvent(l)
  <2>1. PICK c \in Connections : Handling(l, c) /\ UNCHANGED <<inside, eventfd>> /\ HandleClose(l, c)
    BY <1>3 DEF CloseEvent
  <2>2. Handles(l)
    BY <1>1, <2>1 DEF Handles
  <2>3. Queues(l)
    BY <1>1, <2>1, HandlingIsActive, ActiveIsReferenced, CloseQueues
  <2> QED BY <2>2, <2>3 DEF RoundStep
<1>4. CASE ReadEnds(l)
  <2>1. PICK c \in Connections :
          /\ Inside(l, c) /\ Leave(l)
          /\ IF eof[l] THEN HandleClose(l, c) ELSE UNCHANGED <<queueVars, state, channelVars>>
    BY <1>4 DEF ReadEnds
  <2>2. Leaves(l)
    BY <1>1, <2>1 DEF Leaves
  <2>3. Queues(l)
    BY <1>1, <2>1, HandlingIsActive, ActiveIsReferenced, CloseQueues DEF Queues
  <2> QED BY <2>2, <2>3 DEF RoundStep
<1>5. CASE CallSend(l)
  <2>1. Calling(l, "send") /\ called[l] < Len(batch[l])
    BY <1>5 DEF CallSend, Calling
  <2>2. NextFunctor(l).conn \in Connections /\ Referenced(NextFunctor(l).conn)
    BY <1>1, <2>1, NextFunctorIsTyped, NextIsReferenced
  <2>3. Queues(l)
    BY <1>5, <2>2, SendQueues DEF CallSend
  <2> QED BY <2>1, <2>3 DEF RoundStep, Calls
<1>6. CASE \/ DecodeFails(l) \/ CountRequest(l) \/ Refuse(l) \/ Admit(l)
           \/ PostAccepted(l) \/ PostRejected(l) \/ AnswerRejected(l)
  <2>1. PICK c \in Connections :
          /\ Inside(l, c) /\ UNCHANGED roundVars
          /\ \/ UNCHANGED queueVars \/ HandleClose(l, c)
             \/ \E e : SendInLoop(l, c, Answer(Head(todo[l]), e))
    BY <1>6 DEF DecodeFails, Refuse, CountRequest, Admit, AdmitCounting, PostAccepted,
       PostRejected, AnswerRejected, SendError, At
  <2>2. Referenced(c)
    BY <1>1, <2>1, HandlingIsActive, ActiveIsReferenced
  <2>3. Queues(l)
    BY <2>1, <2>2, CloseQueues, SendQueues DEF Queues
  <2>4. stage[l] = "channels"
    BY <1>1, <2>1, InsideIsAtChannels
  <2> QED BY <1>1, <2>1, <2>3, <2>4 DEF RoundStep
<1> QED BY <1>2, <1>3, <1>4, <1>5, <1>6

\* A worker is no loop; when it sends, it hands over a functor from outside.
LEMMA WorkerStepIsRound ==
    ASSUME TypesInv, ConnInv, NEW w \in Workers, WorkerStep(w)
    PROVE  RoundStep
<1>1. w \in Threads /\ w \notin Loops
  BY ThreadsAssumption DEF Threads
<1>2. CASE Take(w) \/ HandlerEnds(w) \/ RecordAnswer(w) \/ NobodyToTell(w)
  BY <1>1, <1>2 DEF Take, HandlerEnds, RecordAnswer, NobodyToTell, RoundStep, Queues
<1>3. CASE Send(w)
  <2>1. locked[w] \in Connections /\ Referenced(locked[w])
    BY <1>3 DEF Send, TypesInv, ServerTypes, PeerTypes, Referenced
  <2>2. loopOf[locked[w]] \in Loops
    BY <2>1, LoopOfReferred DEF ConnInv
  <2>3. Answer(task[w], code[w]) \in Answers
    BY <1>3 DEF Send, WorkerGoes, TypesInv, RequestTypes, WorkTypes, Answer, Answers
  <2>4. Functor("send", locked[w], Answer(task[w], code[w])) \in FunctorSet
    BY <2>1, <2>3, FunctorIsTyped
  <2>5. Queueable(Functor("send", locked[w], Answer(task[w], code[w])))
    BY <2>1 DEF Queueable, Functor
  <2>6. Queues(w)
    BY <1>3, <2>2, <2>4, <2>5 DEF Send, Queues
  <2> QED BY <1>1, <1>3, <2>6 DEF Send, RoundStep
<1>4. CASE WakeLoop(w)
  BY <1>1, <1>4 DEF WakeLoop, RoundStep
<1> QED BY <1>2, <1>3, <1>4 DEF WorkerStep

\* So every step does to the rounds one of the things above, and keeps their
\* invariant.
LEMMA NextIsRound ==
    ASSUME TypesInv, ConnInv, Next PROVE RoundStep
<1>1. CASE Input
  <2>1. UNCHANGED <<queueVars, roundVars>>
    BY <1>1 DEF Input, Connect, PeerCloses, PeerSends, Peer
  <2> QED BY <2>1 DEF RoundStep
<1>2. CASE \E l \in Loops : LoopStep(l)
  BY <1>2, ServerRoundIsRound, BaseStepIsRound, RpcStepIsRound DEF LoopStep
<1>3. CASE \E w \in Workers : WorkerStep(w)
  BY <1>3, WorkerStepIsRound DEF ConnInv
<1> QED BY <1>1, <1>2, <1>3 DEF Next

\* The rounds keep their invariant.
LEMMA NextKeepsLoop ==
    ASSUME TypesInv, ConnInv, Next PROVE LoopInv'
BY NextIsRound, RoundStepKeepsLoop DEF TypesInv

-----------------------------------------------------------------------------
(***************************************************************************)
(* Types of the server's variables.                                        *)
(***************************************************************************)

\* The steps of the base loop and of the peers that accept and connect; no
\* other step changes what they change.
LEMMA AcceptFrame ==
    ASSUME Next
    PROVE  Connect \/ Accept \/ CallRemove \/ UNCHANGED <<acceptVars, table>>
<1>1. CASE Input
  BY <1>1 DEF Input, PeerCloses, PeerSends, Peer
<1>2. ASSUME NEW l \in Loops, LoopStep(l)
      PROVE  Accept \/ CallRemove \/ UNCHANGED <<acceptVars, table>>
  <2>1. CASE ServerRound(l)
    BY <2>1 DEF ServerRound, PollLoop, CallEstablished, CallDestroyed, serverVars
  <2>2. CASE BaseStep
    BY <2>2 DEF BaseStep, AcceptEvent, AcceptDone, AcceptEnds, serverVars
  <2>3. CASE ReadEvent(l) \/ CloseEvent(l) \/ ReadEnds(l) \/ CallSend(l)
    BY <2>3 DEF ReadEvent, CloseEvent, ReadEnds, CallSend
  <2>4. CASE \/ DecodeFails(l) \/ CountRequest(l) \/ Refuse(l) \/ Admit(l)
             \/ PostAccepted(l) \/ PostRejected(l) \/ AnswerRejected(l)
    BY <2>4 DEF DecodeFails, Refuse, CountRequest, Admit, AdmitCounting, PostAccepted,
       PostRejected, AnswerRejected, At
  <2> QED BY <1>2, <2>1, <2>2, <2>3, <2>4 DEF LoopStep
<1>3. ASSUME NEW w \in Workers, WorkerStep(w)
      PROVE  UNCHANGED <<acceptVars, table>>
  BY <1>3 DEF WorkerStep, Take, HandlerEnds, RecordAnswer, Send, WakeLoop, NobodyToTell, WorkerGoes
<1> QED BY <1>1, <1>2, <1>3 DEF Next

\* Only accepting, and the removal from the table, change these.
LEMMA NextKeepsAcceptTypes ==
    ASSUME TypesInv, Referred, Next PROVE AcceptTypes'
<1>1. AcceptTypes
  BY DEF TypesInv, ServerTypes
<1>2. CASE UNCHANGED <<acceptVars, table>>
  BY <1>1, <1>2 DEF AcceptTypes, acceptVars
<1>3. CASE Connect
  <2>1. UNCHANGED <<loops, next, accepted, loopOf, fd, table>>
    BY <1>3 DEF Connect
  <2>2. connected' = connected + 1 /\ connected < MaxConnections
    BY <1>3 DEF Connect
  <2>3. connected' \in 0 .. MaxConnections /\ accepted \in 0 .. connected'
    BY <1>1, <2>2, ServerAssumption DEF AcceptTypes
  <2> QED BY <1>1, <2>1, <2>3 DEF AcceptTypes
<1>4. CASE Accept
  <2>1. PICK f \in Fds :
          /\ next' = IF loops = << >> THEN next ELSE (next + 1) % Len(loops)
          /\ accepted' = accepted + 1
          /\ loopOf' = [loopOf EXCEPT ![accepted + 1] = NextLoop]
          /\ fd' = [fd EXCEPT ![accepted + 1] = f]
          /\ table' = table \cup {accepted + 1}
    BY <1>4 DEF Accept
  <2>2. UNCHANGED <<loops, connected>> /\ accepted < connected
    BY <1>4 DEF Accept
  <2>3. accepted \in Nat /\ connected \in Nat /\ connected <= MaxConnections
    BY <1>1, ServerAssumption DEF AcceptTypes
  <2>4. accepted + 1 \in Connections /\ accepted' \in 0 .. connected'
    BY <2>1, <2>2, <2>3, ServerAssumption DEF Connections
  <2>5. next' \in Nat /\ (loops # << >> => next' < Len(loops))
    <3>1. CASE loops = << >>
      BY <1>1, <2>1, <3>1 DEF AcceptTypes
    <3>2. CASE loops # << >>
      <4>1. \A a \in Nat, b \in Nat \ {0} : a % b \in Nat /\ a % b < b
        OBVIOUS
      <4>2. Len(loops) \in Nat \ {0} /\ next + 1 \in Nat
        BY <1>1, <3>2 DEF AcceptTypes
      <4> QED BY <2>1, <3>2, <4>1, <4>2
    <3> QED BY <3>1, <3>2
  <2>6. loopOf' \in [Connections -> Loops \cup {None}]
    BY <1>1, <2>1, <2>4, NextLoopIsLoop DEF AcceptTypes, TypesInv
  <2>7. fd' \in [Connections -> Fds \cup {0}] /\ table' \subseteq Connections
    BY <1>1, <2>1, <2>4 DEF AcceptTypes
  <2> QED BY <1>1, <2>2, <2>4, <2>5, <2>6, <2>7 DEF AcceptTypes
<1>5. CASE CallRemove
  <2>1. table' \subseteq table /\ UNCHANGED acceptVars
    BY <1>5 DEF CallRemove
  <2> QED BY <1>1, <2>1 DEF AcceptTypes, acceptVars
<1> QED BY <1>2, <1>3, <1>4, <1>5, AcceptFrame

\* What a step may do to the channels.
Recorded(c) == /\ state' = [state EXCEPT ![c] = "Connecting"]
               /\ UNCHANGED channelVars
Reported == /\ UNCHANGED <<state, index, epoll, channels>>
            /\ ready' \subseteq Connections \cup {Acceptor}
Destroyed(l, c) == /\ state' = [state EXCEPT ![c] = "Disconnected"]
                   /\ RemoveChannel(l, c)

ChannelStep ==
    \/ Reported
    \/ \E c \in Connections : Recorded(c)
    \/ \E l \in Loops, c \in Connections : \/ HandleClose(l, c) \/ Destroyed(l, c)
                                           \/ \E f \in Fds : Established(l, c, f)

\* Each of these keeps the types of the channels.
LEMMA ChannelStepKeepsTypes ==
    ASSUME ChannelTypes, ChannelStep PROVE ChannelTypes'
<1>1. CASE Reported
  BY <1>1 DEF Reported, ChannelTypes
<1>2. CASE \E c \in Connections : Recorded(c)
  BY <1>2 DEF Recorded, ChannelTypes, channelVars
<1>3. ASSUME NEW l \in Loops, NEW c \in Connections, HandleClose(l, c)
      PROVE  ChannelTypes'
  <2>1. CASE state[c] = "Disconnected"
    BY <1>3, <2>1 DEF HandleClose, ChannelTypes, channelVars
  <2>2. CASE state[c] # "Disconnected"
    BY <1>3, <2>2 DEF HandleClose, ChannelTypes
  <2> QED BY <2>1, <2>2
<1>4. ASSUME NEW l \in Loops, NEW c \in Connections, Destroyed(l, c)
      PROVE  ChannelTypes'
  <2>1. CASE channels[l][fd[c]] = None
    BY <1>4, <2>1 DEF Destroyed, RemoveChannel, ChannelTypes, channelVars
  <2>2. CASE channels[l][fd[c]] # None
    <3>1. channels' = [channels EXCEPT ![l][fd[c]] = None]
      BY <1>4, <2>2 DEF Destroyed, RemoveChannel
    <3>2. channels' \in [Loops -> [Fds -> Connections \cup {None}]]
      BY <3>1 DEF ChannelTypes
    <3> QED BY <1>4, <2>2, <3>2 DEF Destroyed, RemoveChannel, StopListening, ChannelTypes
  <2> QED BY <2>1, <2>2
<1>5. ASSUME NEW l \in Loops, NEW c \in Connections, NEW f \in Fds, Established(l, c, f)
      PROVE  ChannelTypes'
  <2>1. channels' = [channels EXCEPT ![l][f] = IF @ = None THEN c ELSE @]
    BY <1>5 DEF Established
  <2>2. channels' \in [Loops -> [Fds -> Connections \cup {None}]]
    BY <2>1 DEF ChannelTypes
  <2>3. ready' \subseteq Connections \cup {Acceptor}
    BY <1>5 DEF Established, ChannelTypes
  <2> QED BY <1>5, <2>2, <2>3 DEF Established, ChannelTypes
<1> QED BY <1>1, <1>2, <1>3, <1>4, <1>5 DEF ChannelStep

\* Which of them an action does.
LEMMA NothingIsReported ==
    ASSUME TypesInv, UNCHANGED <<state, channelVars>> PROVE ChannelStep
BY DEF TypesInv, ServerTypes, ChannelTypes, channelVars, Reported, ChannelStep

\* Sending closes the connection, or leaves the channels alone.
LEMMA SendIsChannelStep ==
    ASSUME TypesInv, NEW l \in Loops, NEW c \in Connections, NEW a, SendInLoop(l, c, a)
    PROVE  ChannelStep
<1>1. CASE UNCHANGED <<state, channelVars>>
  BY <1>1, NothingIsReported
<1>2. CASE HandleClose(l, c)
  BY <1>2 DEF ChannelStep
<1> QED BY <1>1, <1>2 DEF SendInLoop, Write

\* The steps of TcpServer.
LEMMA ServerStepIsChannelStep ==
    ASSUME TypesInv, Referred, NEW l \in Loops, ServerRound(l) \/ BaseStep
    PROVE  ChannelStep
<1>1. CASE PollLoop(l)
  BY <1>1 DEF PollLoop, TypesInv, ServerTypes, ChannelTypes, Reported, ChannelStep
<1>2. CASE UNCHANGED serverVars
  BY <1>2, NothingIsReported DEF serverVars
<1>3. CASE CallEstablished(l) \/ CallDestroyed(l)
  <2>1. called[l] < Len(batch[l])
    BY <1>3 DEF CallEstablished, CallDestroyed, Calling
  <2>2. NextFunctor(l).conn \in Connections /\ fd[NextFunctor(l).conn] \in Fds
    BY <2>1, NextFunctorIsTyped, NextIsReferenced, LoopOfReferred DEF TypesInv
  <2> QED BY <1>3, <2>2 DEF CallEstablished, CallDestroyed, Destroyed, ChannelStep
<1>4. CASE AcceptEvent \/ AcceptDone \/ CallRemove
  BY <1>4, NothingIsReported DEF AcceptEvent, AcceptDone, AcceptEnds, CallRemove, serverVars
<1>5. CASE Accept
  <2>1. accepted + 1 \in Connections /\ Base \in Loops
    <3>1. accepted \in Nat /\ connected \in 0 .. MaxConnections /\ accepted < connected
      BY <1>5, ServerAssumption DEF Accept, TypesInv, ServerTypes, AcceptTypes
    <3> QED BY <3>1, ServerAssumption DEF Connections
  <2>2. \/ \E f \in Fds : Established(Base, accepted + 1, f)
        \/ Recorded(accepted + 1)
    BY <1>5 DEF Accept, Recorded
  <2> QED BY <2>1, <2>2 DEF ChannelStep
<1> QED BY <1>1, <1>2, <1>3, <1>4, <1>5 DEF ServerRound, BaseStep

\* The steps of a connection's loop in RpcServer.
LEMMA RpcStepIsChannelStep ==
    ASSUME TypesInv, NEW l \in Loops,
           \/ ReadEvent(l) \/ CloseEvent(l) \/ ReadEnds(l) \/ CallSend(l)
           \/ DecodeFails(l) \/ CountRequest(l) \/ Refuse(l) \/ Admit(l)
           \/ PostAccepted(l) \/ PostRejected(l) \/ AnswerRejected(l)
    PROVE  ChannelStep
<1>1. CASE ReadEvent(l) \/ CountRequest(l) \/ Admit(l) \/ PostAccepted(l) \/ PostRejected(l)
  BY <1>1, NothingIsReported DEF ReadEvent, CountRequest, Admit, AdmitCounting, PostAccepted,
     PostRejected
<1>2. CASE CloseEvent(l) \/ ReadEnds(l) \/ DecodeFails(l)
  <2>1. PICK c \in Connections : HandleClose(l, c) \/ UNCHANGED <<state, channelVars>>
    BY <1>2 DEF CloseEvent, ReadEnds, DecodeFails
  <2> QED BY <2>1, NothingIsReported DEF ChannelStep
<1>3. CASE CallSend(l)
  <2>1. NextFunctor(l).conn \in Connections
    BY <1>3, NextFunctorIsTyped DEF TypesInv, CallSend, Calling
  <2> QED BY <1>3, <2>1, SendIsChannelStep DEF CallSend
<1>4. CASE Refuse(l) \/ AnswerRejected(l)
  <2>1. PICK c \in Connections, e \in {Verdict(Head(todo[l])), "ServerError"} :
          SendInLoop(l, c, Answer(Head(todo[l]), e))
    BY <1>4 DEF Refuse, AnswerRejected, SendError
  <2> QED BY <2>1, SendIsChannelStep
<1> QED BY <1>1, <1>2, <1>3, <1>4

\* So every step keeps them.
LEMMA NextKeepsChannelTypes ==
    ASSUME TypesInv, Referred, Next PROVE ChannelTypes'
<1>1. ChannelTypes
  BY DEF TypesInv, ServerTypes
<1>2. CASE Input
  <2>1. Reported
    BY <1>1, <1>2 DEF Input, Connect, PeerCloses, PeerSends, Peer, Noted, Reported, ChannelTypes
  <2> QED BY <1>1, <2>1, ChannelStepKeepsTypes DEF ChannelStep
<1>3. CASE \E l \in Loops : LoopStep(l)
  <2>1. ChannelStep
    BY <1>3, ServerStepIsChannelStep, RpcStepIsChannelStep DEF LoopStep
  <2> QED BY <1>1, <2>1, ChannelStepKeepsTypes
<1>4. CASE \E w \in Workers : WorkerStep(w)
  <2>1. UNCHANGED <<state, channelVars>>
    BY <1>4 DEF WorkerStep, Take, HandlerEnds, RecordAnswer, Send, WakeLoop, NobodyToTell,
       WorkerGoes
  <2> QED BY <1>1, <2>1, NothingIsReported, ChannelStepKeepsTypes
<1> QED BY <1>2, <1>3, <1>4 DEF Next

\* The references of workers and the peers.
LEMMA NextKeepsPeerTypes ==
    ASSUME TypesInv, Next PROVE PeerTypes'
<1>1. PeerTypes
  BY DEF TypesInv, ServerTypes
<1>2. CASE Input
  <2>1. CASE Connect
    BY <1>1, <2>1 DEF Connect, PeerTypes, peerVars
  <2>2. ASSUME NEW c \in Connections, PeerCloses(c) PROVE PeerTypes'
    BY <1>1, <2>2 DEF PeerCloses, Peer, PeerTypes
  <2>3. ASSUME NEW c \in Connections, NEW m \in Messages[inputs'],
               PeerSends(c, [id |-> inputs', conn |-> c, message |-> m])
        PROVE  PeerTypes'
    <3>1. inputs' \in 1 .. MaxInputs
      BY <1>2, RpcServerAssumption DEF Input, PeerActs, TypesInv, RequestTypes, InputTypes
    <3> DEFINE r == [id |-> inputs', conn |-> c, message |-> m]
    <3>2. m \in UNION {Messages[n] : n \in 1 .. MaxInputs}
      BY <3>1
    <3>3. r \in Requests
      BY <3>1, <3>2 DEF Requests
    <3> HIDE DEF r
    <3>4. readable' = [readable EXCEPT ![c] = Append(@, r)] /\ UNCHANGED <<fin, reset, locked>>
      BY <2>3 DEF PeerSends, Peer, r
    <3> QED BY <1>1, <3>3, <3>4 DEF PeerTypes
  <2> QED BY <1>2, <2>1, <2>2, <2>3 DEF Input
<1>3. ASSUME NEW l \in Loops, LoopStep(l) PROVE PeerTypes'
  <2>1. CASE ReadEvent(l)
    BY <1>1, <2>1, EmptySeq DEF ReadEvent, PeerTypes
  <2>2. CASE ~ReadEvent(l)
    <3>1. UNCHANGED <<peerVars, locked>>
      <4>1. CASE ServerRound(l)
        BY <4>1 DEF ServerRound, PollLoop, CallEstablished, CallDestroyed, serverVars
      <4>2. CASE BaseStep
        BY <4>2 DEF BaseStep, AcceptEvent, Accept, AcceptDone, AcceptEnds, CallRemove, serverVars
      <4>3. CASE CloseEvent(l) \/ ReadEnds(l) \/ CallSend(l)
        BY <4>3 DEF CloseEvent, ReadEnds, CallSend
      <4>4. CASE \/ DecodeFails(l) \/ CountRequest(l) \/ Refuse(l) \/ Admit(l)
                 \/ PostAccepted(l) \/ PostRejected(l) \/ AnswerRejected(l)
        BY <4>4 DEF DecodeFails, Refuse, CountRequest, Admit, AdmitCounting, PostAccepted,
           PostRejected, AnswerRejected, At
      <4> QED BY <1>3, <2>2, <4>1, <4>2, <4>3, <4>4 DEF LoopStep
    <3> QED BY <1>1, <3>1 DEF PeerTypes, peerVars
  <2> QED BY <2>1, <2>2
<1>4. ASSUME NEW w \in Workers, WorkerStep(w) PROVE PeerTypes'
  <2>1. UNCHANGED peerVars
    BY <1>4 DEF WorkerStep, Take, HandlerEnds, RecordAnswer, Send, WakeLoop, NobodyToTell,
       WorkerGoes
  <2>2. locked' \in [Workers -> Connections \cup {None}]
    <3>1. \/ UNCHANGED locked
          \/ locked' = [locked EXCEPT ![w] = None]
          \/ locked' = [locked EXCEPT ![w] = task[w].conn]
      BY <1>4 DEF WorkerStep, Take, HandlerEnds, RecordAnswer, Send, WakeLoop, NobodyToTell,
         TaskEnds
    <3>2. task[w].conn \in Connections \cup {None}
      BY DEF TypesInv, RequestTypes, WorkTypes, Requests, NoRequest
    <3> QED BY <1>1, <3>1, <3>2 DEF PeerTypes
  <2> QED BY <1>1, <2>1, <2>2 DEF PeerTypes, peerVars
<1> QED BY <1>2, <1>3, <1>4 DEF Next

-----------------------------------------------------------------------------
(***************************************************************************)
(* Types of the requests.                                                  *)
(***************************************************************************)

\* Steps of the layers below.
Below(l) == (ServerRound(l) \/ BaseStep) /\ UNCHANGED rpcVars

\* What is read are requests: only the events of a loop move them.
LEMMA NextKeepsInputTypes ==
    ASSUME TypesInv, Next PROVE InputTypes'
<1>1. InputTypes /\ readable \in [Connections -> Seq(Requests)] /\ fin \in [Connections -> BOOLEAN]
  BY DEF TypesInv, RequestTypes, ServerTypes, PeerTypes
<1>2. CASE Input
  BY <1>1, <1>2, RpcServerAssumption DEF Input, PeerActs, InputTypes
<1>3. ASSUME NEW l \in Loops, LoopStep(l) PROVE InputTypes'
  <2>1. CASE Below(l)
    BY <1>1, <2>1 DEF Below, rpcVars, inputVars, InputTypes
  <2>2. CASE ReadEvent(l)
    <3>1. PICK c \in Connections :
            /\ todo' = [todo EXCEPT ![l] = readable[c]]
            /\ eof' = [eof EXCEPT ![l] = fin[c]]
            /\ received' = received \cup {readable[c][i] : i \in 1 .. Len(readable[c])}
            /\ UNCHANGED <<inputs, step>>
      BY <2>2 DEF ReadEvent
    <3>2. \A i \in 1 .. Len(readable[c]) : readable[c][i] \in Requests
      BY <1>1, ElementOfSeq
    <3> QED BY <1>1, <3>1, <3>2 DEF InputTypes
  <2>3. CASE CloseEvent(l) \/ CallSend(l)
    BY <1>1, <2>3 DEF CloseEvent, CallSend, rpcVars, inputVars, InputTypes
  <2>4. CASE ReadEnds(l)
    BY <1>1, <2>4 DEF ReadEnds, InputTypes
  <2>5. CASE DecodeFails(l)
    BY <1>1, <2>5, EmptySeq DEF DecodeFails, At, InputTypes
  <2>6. CASE Refuse(l) \/ PostAccepted(l) \/ AnswerRejected(l)
    <3>1. RequestHandled(l) /\ todo[l] # << >> /\ UNCHANGED <<inputs, eof, received>>
      BY <2>6 DEF Refuse, SendError, PostAccepted, AnswerRejected, At
    <3>2. todo[l] \in Seq(Requests) /\ Tail(todo[l]) \in Seq(Requests)
      BY <1>1, <3>1, HeadTailProperties DEF InputTypes
    <3> QED BY <1>1, <3>1, <3>2 DEF RequestHandled, InputTypes
  <2>7. CASE CountRequest(l) \/ Admit(l) \/ PostRejected(l)
    BY <1>1, <2>7 DEF CountRequest, Admit, AdmitCounting, PostRejected, At, InputTypes
  <2> QED BY <1>3, <2>1, <2>2, <2>3, <2>4, <2>5, <2>6, <2>7 DEF LoopStep, Below
<1>4. ASSUME NEW w \in Workers, WorkerStep(w) PROVE InputTypes'
  <2>1. UNCHANGED inputVars
    BY <1>4 DEF WorkerStep, Take, HandlerEnds, RecordAnswer, Send, WakeLoop, NobodyToTell,
       WorkerGoes
  <2> QED BY <1>1, <2>1 DEF inputVars, InputTypes
<1> QED BY <1>2, <1>3, <1>4 DEF Next

\* A worker has a request as long as it is not idle, and a code once the
\* handler has ended.
LEMMA WorkerStepKeepsWorkTypes ==
    ASSUME WorkTypes, NEW w \in Workers, WorkerStep(w) PROVE WorkTypes'
<1>1. CASE Take(w)
  <2>1. /\ worker' = [worker EXCEPT ![w] = "handling"] /\ worker[w] = "idle"
        /\ task' = [task EXCEPT ![w] = Head(queue)] /\ queue' = Tail(queue)
        /\ queue # << >> /\ UNCHANGED code
    BY <1>1 DEF Take, WorkerGoes
  <2>2. Head(queue) \in Requests /\ Tail(queue) \in Seq(Requests) /\ Len(Tail(queue)) = Len(queue) - 1
    BY <2>1, HeadTailProperties DEF WorkTypes
  <2>3. Len(queue') <= QueueCapacity
    BY <2>1, <2>2, RpcServerAssumption DEF WorkTypes
  <2> QED BY <2>1, <2>2, <2>3 DEF WorkTypes
<1>2. CASE HandlerEnds(w)
  BY <1>2 DEF HandlerEnds, WorkerGoes, WorkTypes
<1>3. CASE RecordAnswer(w)
  <2>1. PICK e \in Codes : code' = [code EXCEPT ![w] = e]
    BY <1>3 DEF RecordAnswer, Codes
  <2>2. /\ worker' = [worker EXCEPT ![w] = "sending"] /\ worker[w] = "encoding"
        /\ UNCHANGED <<queue, task>>
    BY <1>3 DEF RecordAnswer, WorkerGoes
  <2> QED BY <2>1, <2>2 DEF WorkTypes
<1>4. CASE Send(w)
  BY <1>4 DEF Send, WorkerGoes, WorkTypes
<1>5. CASE WakeLoop(w) \/ NobodyToTell(w)
  BY <1>5 DEF WakeLoop, NobodyToTell, TaskEnds, WorkerGoes, WorkTypes
<1> QED BY <1>1, <1>2, <1>3, <1>4, <1>5 DEF WorkerStep

\* The pool's queue grows by what a loop posts, never beyond its capacity.
LEMMA NextKeepsWorkTypes ==
    ASSUME TypesInv, Next PROVE WorkTypes'
<1>1. WorkTypes /\ InputTypes
  BY DEF TypesInv, RequestTypes
<1>2. CASE Input
  BY <1>1, <1>2 DEF Input, PeerActs, workerVars, WorkTypes
<1>3. ASSUME NEW l \in Loops, LoopStep(l) PROVE WorkTypes'
  <2>1. CASE PostAccepted(l)
    <3>1. /\ queue' = Append(queue, Head(todo[l])) /\ Len(queue) < QueueCapacity
          /\ todo[l] # << >> /\ UNCHANGED <<worker, task, code>>
      BY <2>1 DEF PostAccepted, At
    <3>2. Head(todo[l]) \in Requests
      BY <1>1, <3>1, HeadTailProperties DEF InputTypes
    <3>3. queue' \in Seq(Requests) /\ Len(queue') = Len(queue) + 1
      BY <1>1, <3>1, <3>2, AppendProperties DEF WorkTypes
    <3>4. Len(queue') <= QueueCapacity
      BY <1>1, <3>1, <3>3, RpcServerAssumption DEF WorkTypes
    <3> QED BY <1>1, <3>1, <3>3, <3>4 DEF WorkTypes
  <2>2. CASE ~PostAccepted(l)
    <3>1. UNCHANGED workerVars
      BY <1>3, <2>2 DEF LoopStep, rpcVars, ReadEvent, CloseEvent, ReadEnds, CallSend, DecodeFails,
         Refuse, CountRequest, Admit, AdmitCounting, PostRejected, AnswerRejected
    <3> QED BY <1>1, <3>1 DEF workerVars, WorkTypes
  <2> QED BY <2>1, <2>2
<1>4. ASSUME NEW w \in Workers, WorkerStep(w) PROVE WorkTypes'
  BY <1>1, <1>4, WorkerStepKeepsWorkTypes
<1> QED BY <1>2, <1>3, <1>4 DEF Next

\* An answer is written as it was handed over.
LEMMA SendKeepsAnswerTypes ==
    ASSUME AnswerTypes, NEW l \in Loops, NEW c \in Connections, NEW a \in Answers,
           SendInLoop(l, c, a)
    PROVE  AnswerTypes'
<1>1. UNCHANGED answers \/ answers' = [answers EXCEPT ![c] = Append(@, a)]
  BY DEF SendInLoop, Write
<1>2. answers[c] \in Seq(Answers) /\ Append(answers[c], a) \in Seq(Answers)
  BY AppendProperties DEF AnswerTypes
<1> QED BY <1>1, <1>2 DEF AnswerTypes

\* What refuses a request is a code of an answer.
LEMMA VerdictIsCode ==
    ASSUME NEW r, Verdict(r) # "Found" PROVE Verdict(r) \in Codes
BY DEF Verdict, FindMethod, Codes

\* Answers are written by the three steps that send.
LEMMA NextKeepsAnswerTypes ==
    ASSUME TypesInv, Next PROVE AnswerTypes'
<1>1. AnswerTypes /\ InputTypes
  BY DEF TypesInv, RequestTypes
<1>2. CASE UNCHANGED answers
  BY <1>1, <1>2 DEF AnswerTypes
<1>3. ASSUME NEW l \in Loops, CallSend(l) PROVE AnswerTypes'
  <2>1. NextFunctor(l).conn \in Connections /\ NextFunctor(l).arg \in Answers
    BY <1>3, NextFunctorIsTyped DEF TypesInv, CallSend, Calling
  <2> QED BY <1>1, <1>3, <2>1, SendKeepsAnswerTypes DEF CallSend
<1>4. ASSUME NEW l \in Loops, Refuse(l) \/ AnswerRejected(l) PROVE AnswerTypes'
  <2>1. PICK c \in Connections, e \in Codes :
          SendInLoop(l, c, Answer(Head(todo[l]), e)) /\ todo[l] # << >>
    <3>1. CASE Refuse(l)
      BY <3>1, VerdictIsCode DEF Refuse, SendError, At
    <3>2. CASE AnswerRejected(l)
      BY <3>2 DEF AnswerRejected, SendError, At, Codes
    <3> QED BY <1>4, <3>1, <3>2
  <2>2. Head(todo[l]) \in Requests
    BY <1>1, <2>1, HeadTailProperties DEF InputTypes
  <2>3. Answer(Head(todo[l]), e) \in Answers
    BY <2>2 DEF Answer, Answers
  <2> QED BY <1>1, <2>1, <2>3, SendKeepsAnswerTypes
<1>5. ASSUME NEW l \in Loops, LoopStep(l), ~CallSend(l), ~Refuse(l), ~AnswerRejected(l)
      PROVE  UNCHANGED answers
  BY <1>5 DEF LoopStep, rpcVars, ReadEvent, CloseEvent, ReadEnds, DecodeFails, CountRequest, Admit,
     AdmitCounting, PostAccepted, PostRejected
<1>6. CASE Input \/ \E w \in Workers : WorkerStep(w)
  <2>1. UNCHANGED answers
    BY <1>6 DEF Input, PeerActs, WorkerStep, Take, HandlerEnds, RecordAnswer, Send, WakeLoop,
       NobodyToTell, WorkerGoes
  <2> QED BY <2>1, <1>2
<1>7. ASSUME NEW l \in Loops, LoopStep(l) PROVE AnswerTypes'
  BY <1>2, <1>3, <1>4, <1>5, <1>7
<1> QED BY <1>6, <1>7 DEF Next

\* The types are kept.
LEMMA NextKeepsTypes ==
    ASSUME TypesInv, ConnInv, Next PROVE TypesInv'
BY NextKeepsLoop, NextKeepsAcceptTypes, NextKeepsChannelTypes, NextKeepsPeerTypes,
   NextKeepsInputTypes, NextKeepsWorkTypes, NextKeepsAnswerTypes
   DEF TypesInv, ServerTypes, RequestTypes, ConnInv

-----------------------------------------------------------------------------
(***************************************************************************)
(* References to connections come only from references.                    *)
(***************************************************************************)

\* What queueing does to the functors that are pending.
LEMMA QueuePends ==
    ASSUME LoopTypes, NEW t, NEW k \in Loops, NEW f \in FunctorSet, QueueInLoop(t, k, f)
    PROVE  /\ Pend(k)' = Pend(k) \cup {f}
           /\ \A l \in Loops \ {k} : Pend(l)' = Pend(l)
           /\ waking \subseteq waking' /\ waking' \subseteq waking \cup {<<t, k>>}
<1>1. pending' = [pending EXCEPT ![k] = Append(@, f)] /\ pending \in [Loops -> Seq(FunctorSet)]
  BY DEF QueueInLoop, QueueWaking, LoopTypes
<1>2. /\ pending'[k] = Append(pending[k], f) /\ pending[k] \in Seq(FunctorSet)
      /\ \A l \in Loops \ {k} : pending'[l] = pending[l]
  BY <1>1
<1>3. /\ Len(pending'[k]) = Len(pending[k]) + 1 /\ Len(pending[k]) \in Nat
      /\ \A i \in 1 .. Len(pending[k]) : pending'[k][i] = pending[k][i]
      /\ pending'[k][Len(pending[k]) + 1] = f
  BY <1>2, AppendProperties
<1>4. Pend(k)' = Pend(k) \cup {f}
  <2> DEFINE n == Len(pending[k])
  <2>1. \A i : i \in 1 .. n + 1 <=> i \in 1 .. n \/ i = n + 1
    BY <1>3
  <2>2. \A g : g \in Pend(k)' <=> \E i \in 1 .. n + 1 : g = pending'[k][i]
    BY <1>3 DEF Pend
  <2>3. \A g : g \in Pend(k) <=> \E i \in 1 .. n : g = pending[k][i]
    BY DEF Pend
  <2> QED BY <1>3, <2>1, <2>2, <2>3
<1>5. \A l \in Loops \ {k} : Pend(l)' = Pend(l)
  BY <1>2 DEF Pend
<1>6. waking \subseteq waking' /\ waking' \subseteq waking \cup {<<t, k>>}
  BY DEF QueueInLoop, QueueWaking
<1> QED BY <1>4, <1>5, <1>6

\* Another thread does not take a loop away from its poll.
LEMMA QueuesLeaveFree ==
    ASSUME LoopTypes, NEW t \in Threads, Queues(t), NEW l \in Loops, t # l, Free(l)
    PROVE  Free(l)'
<1>1. CASE UNCHANGED queueVars
  BY <1>1 DEF queueVars, Free
<1>2. ASSUME NEW k \in Loops, NEW f \in FunctorSet, QueueInLoop(t, k, f) PROVE Free(l)'
  <2>1. waking' \subseteq waking \cup {<<t, k>>}
    BY <1>2, QueuePends
  <2> QED BY <2>1 DEF Free
<1> QED BY <1>1, <1>2 DEF Queues

\* A loop that polls goes on polling or drops its batch.
LEMMA PollingStays ==
    ASSUME LoopInv, RoundStep, NEW l \in Loops, Polling(l)
    PROVE  Polling(l)' \/ batch'[l] = << >>
<1>1. LoopTypes /\ Rounds /\ Free(l) /\ stage[l] = "functors" /\ called[l] = Len(batch[l])
  BY DEF LoopInv, Polling
<1>2. CASE UNCHANGED <<queueVars, roundVars>>
  BY <1>1, <1>2 DEF queueVars, roundVars, Polling, Free
<1>3. ASSUME NEW t \in Threads, UNCHANGED roundVars, Queues(t), t \in Loops => stage[t] = "channels"
      PROVE  Polling(l)'
  <2>1. t # l
    BY <1>1, <1>3
  <2>2. Free(l)'
    BY <1>1, <1>3, <2>1, QueuesLeaveFree
  <2> QED BY <1>1, <1>3, <2>2 DEF Polling, roundVars
<1>4. ASSUME NEW t \in Threads, NEW k \in Loops, Wake(t, k) PROVE Polling(l)'
  BY <1>1, <1>4 DEF Wake, Polling, Free
<1>5. ASSUME NEW k \in Loops, NEW others, Poll(k, others) PROVE Polling(l)' \/ batch'[l] = << >>
  <2>1. /\ stage' = [stage EXCEPT ![k] = "channels"] /\ called' = [called EXCEPT ![k] = 0]
        /\ batch' = [batch EXCEPT ![k] = << >>] /\ UNCHANGED waking
    BY <1>5 DEF Poll, queueVars
  <2>2. CASE k = l
    BY <1>1, <2>1, <2>2 DEF LoopTypes
  <2>3. CASE k # l
    BY <1>1, <2>1, <2>3 DEF LoopTypes, Polling, Free
  <2> QED BY <2>2, <2>3
<1>6. ASSUME NEW k \in Loops, Handles(k) \/ Leaves(k) \/ Calls(k), Queues(k) PROVE Polling(l)'
  <2>1. k \in Threads
    BY DEF Threads
  <2>2. k # l /\ stage'[l] = stage[l] /\ batch'[l] = batch[l] /\ called'[l] = called[l]
    <3>1. CASE Handles(k)
      BY <1>1, <3>1 DEF Handles, Handling
    <3>2. CASE Leaves(k)
      BY <1>1, <3>2 DEF Leaves, Leave, Inside, LoopTypes, Rounds
    <3>3. CASE Calls(k)
      <4>1. called[k] < Len(batch[k]) /\ called' = [called EXCEPT ![k] = @ + 1]
            /\ UNCHANGED <<stage, batch>>
        BY <3>3 DEF Calls, Calling
      <4>2. k # l
        BY <1>1, <4>1 DEF LoopTypes
      <4> QED BY <1>1, <4>1, <4>2 DEF LoopTypes
    <3> QED BY <1>6, <3>1, <3>2, <3>3
  <2>3. Free(l)'
    BY <1>1, <1>6, <2>1, <2>2, QueuesLeaveFree
  <2> QED BY <1>1, <2>2, <2>3 DEF Polling
<1>7. ASSUME NEW k \in Loops, SwapFunctors(k) PROVE Polling(l)'
  BY <1>1, <1>7 DEF SwapFunctors, LoopTypes, Polling, Free
<1> QED BY <1>2, <1>3, <1>4, <1>5, <1>6, <1>7 DEF RoundStep

\* A thread that queues adds what it may queue.
LEMMA QueuesPend ==
    ASSUME LoopTypes, NEW t, Queues(t), NEW l \in Loops, NEW f \in Pend(l)'
    PROVE  f \in Pend(l) \/ (f \in FunctorSet /\ Queueable(f))
<1>1. CASE UNCHANGED queueVars
  BY <1>1 DEF queueVars, Pend
<1>2. ASSUME NEW k \in Loops, NEW g \in FunctorSet, QueueInLoop(t, k, g), Queueable(g)
      PROVE  f \in Pend(l) \/ (f \in FunctorSet /\ Queueable(f))
  <2>1. f \in Pend(l) \/ f = g
    <3>1. Pend(k)' = Pend(k) \cup {g} /\ \A j \in Loops \ {k} : Pend(j)' = Pend(j)
      BY <1>2, QueuePends
    <3> QED BY <3>1
  <2> QED BY <1>2, <2>1
<1> QED BY <1>1, <1>2 DEF Queues

\* What is pending was pending, or somebody who may has queued it.
LEMMA RoundPends ==
    ASSUME LoopInv, RoundStep, NEW l \in Loops, NEW f \in Pend(l)'
    PROVE  f \in Pend(l) \/ (f \in FunctorSet /\ Queueable(f))
<1>1. LoopTypes
  BY DEF LoopInv
<1>2. CASE \E t : Queues(t)
  BY <1>1, <1>2, QueuesPend
<1>3. CASE UNCHANGED pending
  BY <1>3 DEF Pend
<1>4. ASSUME NEW k \in Loops, SwapFunctors(k) PROVE f \in Pend(l)
  <2>1. pending' = [pending EXCEPT ![k] = << >>]
    BY <1>4 DEF SwapFunctors
  <2>2. CASE k = l
    <3>1. pending'[l] = << >>
      BY <1>1, <2>1, <2>2 DEF LoopTypes
    <3>2. Pend(l)' = {}
      BY <3>1, EmptySeq DEF Pend
    <3> QED BY <3>2
  <2>3. CASE k # l
    BY <1>1, <2>1, <2>3 DEF LoopTypes, Pend
  <2> QED BY <2>2, <2>3
<1> QED BY <1>2, <1>3, <1>4 DEF RoundStep, Wake, Poll, queueVars

\* The batch of a loop changes when it takes what is pending, and when it polls.
LEMMA RoundBatch ==
    ASSUME LoopInv, RoundStep, NEW l \in Loops
    PROVE  batch'[l] \in {batch[l], pending[l], << >>}
<1>1. LoopTypes /\ Rounds
  BY DEF LoopInv
<1>2. CASE UNCHANGED batch
  BY <1>2
<1>3. ASSUME NEW k \in Loops, NEW others, Poll(k, others)
      PROVE  batch'[l] \in {batch[l], pending[l], << >>}
  BY <1>1, <1>3 DEF Poll, LoopTypes
<1>4. ASSUME NEW k \in Loops, SwapFunctors(k)
      PROVE  batch'[l] \in {batch[l], pending[l], << >>}
  BY <1>1, <1>4 DEF SwapFunctors, LoopTypes
<1>5. ASSUME NEW k \in Loops, Handles(k) \/ Leaves(k) \/ Calls(k) PROVE UNCHANGED batch
  BY <1>5 DEF Handles, Handling, Leaves, Leave, Calls, Calling
<1> QED BY <1>2, <1>3, <1>4, <1>5 DEF RoundStep, Wake, roundVars

\* The same of all the functors a loop holds.
LEMMA RoundHolds ==
    ASSUME LoopInv, RoundStep, NEW l \in Loops, NEW f \in HeldBy(l)'
    PROVE  f \in HeldBy(l) \/ (f \in FunctorSet /\ Queueable(f))
<1>1. CASE f \in Pend(l)'
  BY <1>1, RoundPends DEF Pend, HeldBy
<1>2. CASE ~Polling(l)' /\ f \in {batch'[l][i] : i \in 1 .. Len(batch'[l])}
  <2>1. batch'[l] # << >>
    BY <1>2, EmptySeq
  <2>2. ~Polling(l)
    BY <1>2, <2>1, PollingStays
  <2>3. batch'[l] = batch[l] \/ batch'[l] = pending[l]
    BY <2>1, RoundBatch
  <2> QED BY <1>2, <2>2, <2>3 DEF HeldBy
<1> QED BY <1>1, <1>2 DEF HeldBy, Pend

\* A connection somebody refers to was referred to before, or is accepted.
LEMMA ReferenceStays ==
    ASSUME TypesInv, ConnInv, Next, NEW c \in Connections, Referenced(c)'
    PROVE  Referenced(c) \/ (Accept /\ c = accepted + 1)
<1>1. CASE c \in table'
  <2>1. c \in table \/ (Accept /\ c = accepted + 1)
    BY <1>1, AcceptFrame DEF Accept, CallRemove, Connect
  <2> QED BY <2>1 DEF Referenced
<1>2. ASSUME NEW f \in Functors', f.conn = c
      PROVE  Referenced(c) \/ (Accept /\ c = accepted + 1)
  <2>1. PICK l \in Loops : f \in HeldBy(l)'
    BY <1>2 DEF Functors
  <2>2. f \in HeldBy(l) \/ Queueable(f)
    BY <2>1, NextIsRound, RoundHolds DEF TypesInv
  <2>3. f \in HeldBy(l) => Referenced(c)
    BY <1>2 DEF Functors, Referenced
  <2> QED BY <1>2, <2>2, <2>3 DEF Queueable
<1>3. ASSUME NEW w \in Workers, locked'[w] = c PROVE Referenced(c)
  <2>1. CASE locked'[w] = locked[w]
    BY <1>3, <2>1 DEF Referenced
  <2>2. CASE locked'[w] # locked[w]
    <3>1. locked \in [Workers -> Connections \cup {None}] /\ c # None
      BY ChannelsAssumption DEF TypesInv, ServerTypes, PeerTypes
    <3>2. PICK v \in Workers : WorkerStep(v)
      <4>1. CASE Input
        BY <2>2, <4>1 DEF Input, Connect, PeerCloses, PeerSends, Peer
      <4>2. ASSUME NEW l \in Loops, LoopStep(l) PROVE UNCHANGED locked
        <5>1. CASE ServerRound(l)
          BY <5>1 DEF ServerRound, PollLoop, CallEstablished, CallDestroyed, serverVars
        <5>2. CASE BaseStep
          BY <5>2 DEF BaseStep, AcceptEvent, Accept, AcceptDone, AcceptEnds, CallRemove, serverVars
        <5>3. CASE ReadEvent(l) \/ CloseEvent(l) \/ ReadEnds(l) \/ CallSend(l)
          BY <5>3 DEF ReadEvent, CloseEvent, ReadEnds, CallSend
        <5>4. CASE \/ DecodeFails(l) \/ CountRequest(l) \/ Refuse(l) \/ Admit(l)
                   \/ PostAccepted(l) \/ PostRejected(l) \/ AnswerRejected(l)
          BY <5>4 DEF DecodeFails, Refuse, CountRequest, Admit, AdmitCounting, PostAccepted,
             PostRejected, AnswerRejected, At
        <5> QED BY <4>2, <5>1, <5>2, <5>3, <5>4 DEF LoopStep
      <4> QED BY <2>2, <4>1, <4>2 DEF Next
    <3>3. \/ UNCHANGED locked
          \/ locked' = [locked EXCEPT ![v] = None]
          \/ locked' = [locked EXCEPT ![v] = IF Referenced(task[v].conn) THEN task[v].conn
                                             ELSE None]
      BY <3>2 DEF WorkerStep, Take, HandlerEnds, RecordAnswer, Send, WakeLoop, NobodyToTell,
         TaskEnds
    <3> QED BY <1>3, <2>2, <3>1, <3>3
  <2> QED BY <2>1, <2>2
<1> QED BY <1>1, <1>2, <1>3 DEF Referenced

\* The numbers, loops and descriptors of accepted connections stay.
LEMMA AcceptedStays ==
    ASSUME TypesInv, Next
    PROVE  /\ accepted \in Nat /\ accepted' \in {accepted, accepted + 1}
           /\ \A c \in Connections : c <= accepted => loopOf'[c] = loopOf[c] /\ fd'[c] = fd[c]
           /\ Accept => /\ accepted' = accepted + 1 /\ accepted + 1 \in Connections
                        /\ loopOf'[accepted + 1] = NextLoop /\ NextLoop \in Loops
                        /\ fd'[accepted + 1] \in Fds \ UsedFds
<1>1. AcceptTypes /\ accepted \in Nat
  BY ServerAssumption DEF TypesInv, ServerTypes, AcceptTypes
<1>2. CASE UNCHANGED acceptVars
  <2>1. ~Accept
    BY <1>1, <1>2 DEF Accept, acceptVars
  <2> QED BY <1>1, <1>2, <2>1 DEF acceptVars
<1>3. CASE Connect \/ CallRemove
  <2>1. UNCHANGED <<accepted, loopOf, fd>>
    BY <1>3 DEF Connect, CallRemove, acceptVars
  <2>2. ~Accept
    BY <1>1, <2>1 DEF Accept
  <2> QED BY <1>1, <2>1, <2>2
<1>4. CASE Accept
  <2>1. PICK f \in Fds : /\ LowestFd(f) /\ accepted' = accepted + 1
                         /\ loopOf' = [loopOf EXCEPT ![accepted + 1] = NextLoop]
                         /\ fd' = [fd EXCEPT ![accepted + 1] = f]
    BY <1>4 DEF Accept
  <2>2. accepted + 1 \in Connections
    <3>1. connected \in 0 .. MaxConnections /\ accepted < connected
      BY <1>1, <1>4 DEF Accept, AcceptTypes
    <3> QED BY <1>1, <3>1, ServerAssumption DEF Connections
  <2>3. \A c \in Connections : c <= accepted => c # accepted + 1
    BY <1>1 DEF Connections
  <2>4. NextLoop \in Loops
    BY NextLoopIsLoop DEF TypesInv
  <2>5. loopOf'[accepted + 1] = NextLoop /\ fd'[accepted + 1] = f
    BY <1>1, <2>1, <2>2 DEF AcceptTypes
  <2>6. f \in Fds \ UsedFds
    BY <2>1 DEF LowestFd
  <2> QED BY <1>1, <2>1, <2>2, <2>3, <2>4, <2>5, <2>6 DEF AcceptTypes
<1> QED BY <1>2, <1>3, <1>4, AcceptFrame

\* Every reference is to a connection that was accepted, and so has a loop and
\* a descriptor.
LEMMA NextKeepsReferred ==
    ASSUME TypesInv, ConnInv, Next PROVE Referred'
<1>1. ASSUME NEW c \in Connections, Referenced(c)'
      PROVE  c <= accepted' /\ loopOf'[c] \in Loops /\ fd'[c] \in Fds
  <2>1. CASE Referenced(c)
    <3>1. c <= accepted /\ loopOf[c] \in Loops /\ fd[c] \in Fds
      BY <2>1 DEF ConnInv, Referred
    <3> QED BY <3>1, AcceptedStays DEF Connections
  <2>2. CASE Accept /\ c = accepted + 1
    BY <2>2, AcceptedStays
  <2> QED BY <1>1, <2>1, <2>2, ReferenceStays
<1> QED BY <1>1 DEF Referred

\* accept(2) gives a descriptor that no connection still refers to.
LEMMA NextKeepsDistinctFds ==
    ASSUME TypesInv, ConnInv, Next PROVE DistinctFds'
<1>1. ASSUME NEW c \in Connections, Referenced(c)
      PROVE  c <= accepted /\ fd'[c] = fd[c] /\ fd[c] \in UsedFds
  BY <1>1, AcceptedStays DEF ConnInv, Referred, UsedFds
<1>2. ASSUME NEW c \in Connections, NEW d \in Connections,
             Referenced(c)', Referenced(d)', fd'[c] = fd'[d]
      PROVE  c = d
  <2>1. CASE Referenced(c) /\ Referenced(d)
    BY <1>1, <1>2, <2>1 DEF ConnInv, DistinctFds
  <2>2. ASSUME NEW x \in Connections, NEW y \in Connections, fd'[x] = fd'[y],
               Accept, x = accepted + 1, Referenced(y)
        PROVE  FALSE
    BY <1>1, <2>2, AcceptedStays
  <2>3. (Referenced(c) \/ (Accept /\ c = accepted + 1)) /\ (Referenced(d) \/ (Accept /\ d = accepted + 1))
    BY <1>2, ReferenceStays
  <2> QED BY <1>2, <2>1, <2>2, <2>3
<1> QED BY <1>2 DEF DistinctFds

-----------------------------------------------------------------------------
(***************************************************************************)
(* A connection is established once.                                       *)
(***************************************************************************)

\* What queueing does, place by place.
LEMMA QueuesPlace ==
    ASSUME LoopTypes, NEW t, Queues(t), NEW l \in Loops
    PROVE  \/ pending'[l] = pending[l]
           \/ \E f \in FunctorSet :
                 /\ Queueable(f) /\ Len(pending'[l]) = Len(pending[l]) + 1
                 /\ Len(pending[l]) \in Nat
                 /\ \A i \in 1 .. Len(pending[l]) : pending'[l][i] = pending[l][i]
                 /\ pending'[l][Len(pending[l]) + 1] = f
<1>1. CASE UNCHANGED queueVars
  BY <1>1 DEF queueVars
<1>2. ASSUME NEW k \in Loops, NEW f \in FunctorSet, QueueInLoop(t, k, f), Queueable(f), k = l
      PROVE  /\ Len(pending'[l]) = Len(pending[l]) + 1
             /\ Len(pending[l]) \in Nat
             /\ \A i \in 1 .. Len(pending[l]) : pending'[l][i] = pending[l][i]
             /\ pending'[l][Len(pending[l]) + 1] = f
  <2>1. pending'[l] = Append(pending[l], f) /\ pending[l] \in Seq(FunctorSet)
    BY <1>2 DEF QueueInLoop, QueueWaking, LoopTypes
  <2> QED BY <2>1, AppendProperties
<1>3. ASSUME NEW k \in Loops, NEW f \in FunctorSet, QueueInLoop(t, k, f), k # l
      PROVE  pending'[l] = pending[l]
  BY <1>3 DEF QueueInLoop, QueueWaking, LoopTypes
<1> QED BY <1>1, <1>2, <1>3 DEF Queues

\* One functor more that establishes nothing, or a connection no functor is about.
LEMMA QueuesEstablishedOnce ==
    ASSUME LoopInv, EstablishedOnce, NEW t, Queues(t), UNCHANGED batch,
           NEW l \in Loops, called'[l] \in {called[l], called[l] + 1},
           \A f \in Uncalled(l) : ~Establishes(f, accepted + 1),
           NEW c \in Connections
    PROVE  /\ \A i, j \in called'[l] + 1 .. Len(batch'[l]) :
                 Establishes(batch'[l][i], c) /\ Establishes(batch'[l][j], c) => i = j
           /\ \A i, j \in 1 .. Len(pending'[l]) :
                 Establishes(pending'[l][i], c) /\ Establishes(pending'[l][j], c) => i = j
           /\ \A i \in called'[l] + 1 .. Len(batch'[l]), j \in 1 .. Len(pending'[l]) :
                 ~(Establishes(batch'[l][i], c) /\ Establishes(pending'[l][j], c))
<1>1. called[l] \in Nat /\ Len(batch[l]) \in Nat /\ LoopTypes
  BY DEF LoopInv, LoopTypes
<1>2. \A i \in called'[l] + 1 .. Len(batch'[l]) :
         i \in called[l] + 1 .. Len(batch[l]) /\ batch'[l][i] = batch[l][i] /\ batch[l][i] \in Uncalled(l)
  BY <1>1 DEF Uncalled, Rest
<1>3. \A i \in 1 .. Len(pending[l]) : pending[l][i] \in Uncalled(l)
  BY DEF Uncalled, Pend
<1>4. \A i, j \in called'[l] + 1 .. Len(batch'[l]) :
         Establishes(batch'[l][i], c) /\ Establishes(batch'[l][j], c) => i = j
  BY <1>2 DEF EstablishedOnce
<1>5. CASE pending'[l] = pending[l]
  BY <1>2, <1>4, <1>5 DEF EstablishedOnce
<1>6. ASSUME NEW f \in FunctorSet, Queueable(f), Len(pending'[l]) = Len(pending[l]) + 1,
             Len(pending[l]) \in Nat,
             \A i \in 1 .. Len(pending[l]) : pending'[l][i] = pending[l][i],
             pending'[l][Len(pending[l]) + 1] = f
      PROVE  /\ \A i, j \in 1 .. Len(pending'[l]) :
                   Establishes(pending'[l][i], c) /\ Establishes(pending'[l][j], c) => i = j
             /\ \A i \in called'[l] + 1 .. Len(batch'[l]), j \in 1 .. Len(pending'[l]) :
                   ~(Establishes(batch'[l][i], c) /\ Establishes(pending'[l][j], c))
  <2>1. Establishes(f, c) => \A g \in Uncalled(l) : ~Establishes(g, c)
    BY <1>6 DEF Queueable, Establishes
  <2>2. \A j \in 1 .. Len(pending'[l]) :
           \/ j \in 1 .. Len(pending[l]) /\ pending'[l][j] = pending[l][j]
           \/ j = Len(pending[l]) + 1 /\ pending'[l][j] = f
    BY <1>6
  <2>3. ASSUME NEW i \in 1 .. Len(pending'[l]), NEW j \in 1 .. Len(pending'[l]),
               Establishes(pending'[l][i], c), Establishes(pending'[l][j], c)
        PROVE  i = j
    BY <1>3, <2>1, <2>2, <2>3 DEF EstablishedOnce
  <2>4. ASSUME NEW i \in called'[l] + 1 .. Len(batch'[l]), NEW j \in 1 .. Len(pending'[l]),
               Establishes(batch'[l][i], c), Establishes(pending'[l][j], c)
        PROVE  FALSE
    BY <1>2, <1>3, <2>1, <2>2, <2>4 DEF EstablishedOnce
  <2> QED BY <2>3, <2>4
<1> QED BY <1>1, <1>4, <1>5, <1>6, QueuesPlace

\* newConnection queues connectEstablished once, for a new connection.
LEMMA NextKeepsEstablishedOnce ==
    ASSUME TypesInv, ConnInv, Next PROVE EstablishedOnce'
<1>1. LoopInv /\ LoopTypes /\ Rounds /\ EstablishedOnce /\ accepted \in Nat
  BY AcceptedStays DEF TypesInv, LoopInv, ConnInv
<1>2. \A l \in Loops : \A f \in Uncalled(l) : ~Establishes(f, accepted + 1)
  <2>1. ASSUME NEW l \in Loops, NEW f \in Uncalled(l) PROVE f.conn # accepted + 1
    <3>1. f.conn \in Connections /\ f.conn <= accepted
      BY <1>1, UncalledIsReferenced DEF ConnInv, Referred
    <3> QED BY <1>1, <3>1 DEF Connections
  <2> QED BY <2>1 DEF Establishes
<1>3. CASE UNCHANGED <<batch, called, pending>>
  BY <1>1, <1>3 DEF EstablishedOnce
<1>4. ASSUME NEW t, Queues(t), UNCHANGED batch,
             \A l \in Loops : called'[l] \in {called[l], called[l] + 1}
      PROVE  EstablishedOnce'
  BY <1>1, <1>2, <1>4, QueuesEstablishedOnce DEF EstablishedOnce
<1>5. ASSUME NEW k \in Loops, Handles(k) \/ Leaves(k) \/ Calls(k), Queues(k)
      PROVE  EstablishedOnce'
  <2>1. UNCHANGED batch /\ (UNCHANGED called \/ called' = [called EXCEPT ![k] = @ + 1])
    BY <1>5 DEF Handles, Handling, Leaves, Leave, Calls, Calling
  <2>2. \A l \in Loops : called'[l] \in {called[l], called[l] + 1}
    BY <1>1, <2>1 DEF LoopTypes
  <2> QED BY <1>4, <1>5, <2>1, <2>2
<1>6. ASSUME NEW k \in Loops, NEW others, Poll(k, others) PROVE EstablishedOnce'
  <2>1. /\ UNCHANGED pending /\ batch' = [batch EXCEPT ![k] = << >>]
        /\ called' = [called EXCEPT ![k] = 0]
    BY <1>6 DEF Poll, queueVars
  <2>2. ASSUME NEW l \in Loops
        PROVE  \/ batch'[l] = batch[l] /\ called'[l] = called[l]
               \/ Len(batch'[l]) = 0 /\ called'[l] = 0
    BY <1>1, <2>1, EmptySeq DEF LoopTypes
  <2> QED BY <1>1, <2>1, <2>2 DEF EstablishedOnce
<1>7. ASSUME NEW k \in Loops, SwapFunctors(k) PROVE EstablishedOnce'
  <2>1. /\ UNCHANGED called /\ batch' = [batch EXCEPT ![k] = pending[k]]
        /\ pending' = [pending EXCEPT ![k] = << >>] /\ called[k] = 0
    BY <1>1, <1>7 DEF SwapFunctors, Rounds
  <2>2. ASSUME NEW l \in Loops
        PROVE  \/ batch'[l] = batch[l] /\ called'[l] = called[l] /\ pending'[l] = pending[l]
               \/ batch'[l] = pending[l] /\ called'[l] = 0 /\ Len(pending'[l]) = 0
    BY <1>1, <2>1, EmptySeq DEF LoopTypes
  <2>3. ASSUME NEW l \in Loops, NEW c \in Connections,
               batch'[l] = pending[l], called'[l] = 0, Len(pending'[l]) = 0
        PROVE  /\ \A i, j \in called'[l] + 1 .. Len(batch'[l]) :
                     Establishes(batch'[l][i], c) /\ Establishes(batch'[l][j], c) => i = j
               /\ \A j : j \notin 1 .. Len(pending'[l])
    <3>1. \A i, j \in 1 .. Len(pending[l]) :
             Establishes(pending[l][i], c) /\ Establishes(pending[l][j], c) => i = j
      BY <1>1 DEF EstablishedOnce
    <3>2. called'[l] + 1 .. Len(batch'[l]) = 1 .. Len(pending[l])
      BY <2>3
    <3>3. \A j : j \notin 1 .. Len(pending'[l])
      BY <2>3
    <3> QED BY <2>3, <3>1, <3>2, <3>3
  <2>4. ASSUME NEW l \in Loops, NEW c \in Connections,
               batch'[l] = batch[l], called'[l] = called[l], pending'[l] = pending[l]
        PROVE  /\ \A i, j \in called'[l] + 1 .. Len(batch'[l]) :
                     Establishes(batch'[l][i], c) /\ Establishes(batch'[l][j], c) => i = j
               /\ \A i, j \in 1 .. Len(pending'[l]) :
                     Establishes(pending'[l][i], c) /\ Establishes(pending'[l][j], c) => i = j
               /\ \A i \in called'[l] + 1 .. Len(batch'[l]), j \in 1 .. Len(pending'[l]) :
                     ~(Establishes(batch'[l][i], c) /\ Establishes(pending'[l][j], c))
    BY <1>1, <2>4 DEF EstablishedOnce
  <2> QED BY <2>2, <2>3, <2>4 DEF EstablishedOnce
<1>8. RoundStep
  BY NextIsRound
<1>9. CASE \E t \in Threads : UNCHANGED roundVars /\ Queues(t)
  BY <1>1, <1>4, <1>9 DEF roundVars, LoopTypes
<1> QED BY <1>3, <1>5, <1>6, <1>7, <1>8, <1>9 DEF RoundStep, Wake, queueVars, roundVars

-----------------------------------------------------------------------------
(***************************************************************************)
(* The functors that are to be called, and the channels a loop may touch.  *)
(***************************************************************************)

\* Calling one takes it away, the others stay.
LEMMA CallingTakes ==
    ASSUME LoopInv, NEW l \in Loops, NEW do, Calling(l, do)
    PROVE  /\ Rest(l) = Rest(l)' \cup {NextFunctor(l)}
           /\ \A k \in Loops \ {l} : Rest(k)' = Rest(k)
           /\ NextFunctor(l) \in FunctorSet /\ NextFunctor(l).conn \in Connections
           /\ NextFunctor(l).do = do /\ NextFunctor(l) \in Uncalled(l)
<1>1. /\ called[l] \in Nat /\ Len(batch[l]) \in Nat /\ called[l] < Len(batch[l])
      /\ called'[l] = called[l] + 1 /\ UNCHANGED batch /\ NextFunctor(l).do = do
      /\ \A k \in Loops \ {l} : called'[k] = called[k]
  BY DEF LoopInv, LoopTypes, Calling
<1>2. \A i : i \in called[l] + 1 .. Len(batch[l]) <=> i \in called'[l] + 1 .. Len(batch[l]) \/ i = called[l] + 1
  BY <1>1
<1>3. NextFunctor(l) = batch[l][called[l] + 1]
  BY DEF NextFunctor
<1>4. Rest(l) = Rest(l)' \cup {NextFunctor(l)}
  BY <1>1, <1>2, <1>3 DEF Rest
<1>5. \A k \in Loops \ {l} : Rest(k)' = Rest(k)
  BY <1>1 DEF Rest
<1> QED BY <1>1, <1>4, <1>5, NextFunctorIsTyped DEF Uncalled

\* Whatever happens, what is still to be called was so before or is queued by
\* the step, and what was to be called is, or is the next functor of a call.
LEMMA RoundUncalled ==
    ASSUME LoopInv, RoundStep, NEW l \in Loops
    PROVE  /\ \A f \in Uncalled(l)' : \/ f \in Uncalled(l)
                                      \/ f \in FunctorSet /\ \E t : QueueInLoop(t, l, f)
           /\ \A f \in Uncalled(l) : f \in Uncalled(l)' \/ (f = NextFunctor(l) /\ Calls(l))
<1>1. LoopTypes /\ Rounds
  BY DEF LoopInv
<1>2. CASE UNCHANGED <<batch, called, pending>>
  BY <1>2 DEF Uncalled, Rest, Pend
<1>3. ASSUME NEW t, Queues(t)
      PROVE  /\ \A f \in Pend(l)' : f \in Pend(l) \/ (f \in FunctorSet /\ QueueInLoop(t, l, f))
             /\ Pend(l) \subseteq Pend(l)'
  <2>1. CASE UNCHANGED queueVars
    BY <2>1 DEF queueVars, Pend
  <2>2. ASSUME NEW k \in Loops, NEW f \in FunctorSet, QueueInLoop(t, k, f)
        PROVE  /\ \A g \in Pend(l)' : g \in Pend(l) \/ (g \in FunctorSet /\ QueueInLoop(t, l, g))
               /\ Pend(l) \subseteq Pend(l)'
    <3>1. Pend(k)' = Pend(k) \cup {f} /\ \A j \in Loops \ {k} : Pend(j)' = Pend(j)
      BY <1>1, <2>2, QueuePends
    <3>2. CASE l = k
      BY <2>2, <3>1, <3>2
    <3>3. CASE l # k
      BY <3>1, <3>3
    <3> QED BY <3>2, <3>3
  <2> QED BY <1>3, <2>1, <2>2 DEF Queues
<1>4. ASSUME UNCHANGED <<batch, called>> PROVE Rest(l)' = Rest(l)
  BY <1>4 DEF Rest
<1>5. ASSUME NEW t, Queues(t), UNCHANGED <<batch, called>>
      PROVE  /\ \A f \in Uncalled(l)' : \/ f \in Uncalled(l)
                                        \/ f \in FunctorSet /\ QueueInLoop(t, l, f)
             /\ Uncalled(l) \subseteq Uncalled(l)'
  BY <1>3, <1>4, <1>5 DEF Uncalled
<1>6. ASSUME NEW k \in Loops, Calls(k), Queues(k)
      PROVE  /\ \A f \in Uncalled(l)' : \/ f \in Uncalled(l)
                                        \/ f \in FunctorSet /\ QueueInLoop(k, l, f)
             /\ \A f \in Uncalled(l) : f \in Uncalled(l)' \/ (f = NextFunctor(l) /\ Calls(l))
  <2>1. PICK do : Calling(k, do)
    BY <1>6 DEF Calls
  <2>2. /\ Rest(k) = Rest(k)' \cup {NextFunctor(k)}
        /\ \A j \in Loops \ {k} : Rest(j)' = Rest(j)
    BY <2>1, CallingTakes
  <2>3. CASE l = k
    BY <1>3, <1>6, <2>2, <2>3 DEF Uncalled
  <2>4. CASE l # k
    BY <1>3, <1>6, <2>2, <2>4 DEF Uncalled
  <2> QED BY <2>3, <2>4
<1>7. ASSUME NEW k \in Loops, NEW others, Poll(k, others) PROVE Uncalled(l)' = Uncalled(l)
  <2>1. /\ batch' = [batch EXCEPT ![k] = << >>] /\ called' = [called EXCEPT ![k] = 0]
        /\ UNCHANGED pending /\ called[k] = Len(batch[k])
    BY <1>7 DEF Poll, Polling, queueVars
  <2>2. CASE l = k
    <3>1. Len(batch'[l]) = 0 /\ called'[l] = 0
      BY <1>1, <2>1, <2>2, EmptySeq DEF LoopTypes
    <3>2. Rest(l)' = {}
      BY <3>1 DEF Rest
    <3>3. Rest(l) = {}
      BY <1>1, <2>1, <2>2 DEF Rest, LoopTypes
    <3> QED BY <2>1, <3>2, <3>3 DEF Uncalled, Pend
  <2>3. CASE l # k
    BY <1>1, <2>1, <2>3 DEF LoopTypes, Uncalled, Rest, Pend
  <2> QED BY <2>2, <2>3
<1>8. ASSUME NEW k \in Loops, SwapFunctors(k) PROVE Uncalled(l)' = Uncalled(l)
  <2>1. /\ UNCHANGED called /\ batch' = [batch EXCEPT ![k] = pending[k]]
        /\ pending' = [pending EXCEPT ![k] = << >>] /\ called[k] = 0 /\ batch[k] = << >>
    BY <1>1, <1>8 DEF SwapFunctors, Rounds
  <2>2. CASE l = k
    <3>1. batch'[l] = pending[l] /\ pending'[l] = << >> /\ called'[l] = 0
      BY <1>1, <2>1, <2>2 DEF LoopTypes
    <3>2. Rest(l)' = Pend(l)
      BY <3>1 DEF Rest, Pend
    <3>3. Pend(l)' = {}
      BY <3>1, EmptySeq DEF Pend
    <3>4. Rest(l) = {}
      BY <2>1, <2>2, EmptySeq DEF Rest
    <3> QED BY <3>2, <3>3, <3>4 DEF Uncalled
  <2>3. CASE l # k
    BY <1>1, <2>1, <2>3 DEF LoopTypes, Uncalled, Rest, Pend
  <2> QED BY <2>2, <2>3
<1>9. ASSUME NEW k \in Loops, Handles(k) \/ Leaves(k) PROVE UNCHANGED <<batch, called>>
  BY <1>9 DEF Handles, Handling, Leaves, Leave
<1> QED BY <1>2, <1>5, <1>6, <1>7, <1>8, <1>9 DEF RoundStep, Wake, queueVars, roundVars

\* A step queues one functor only.
LEMMA QueueIsOne ==
    ASSUME LoopTypes, NEW t, NEW u, NEW k \in Loops, NEW l \in Loops,
           NEW f \in FunctorSet, NEW g \in FunctorSet, QueueInLoop(t, k, f), QueueInLoop(u, l, g)
    PROVE  l = k /\ g = f
<1>1. /\ pending' = [pending EXCEPT ![k] = Append(@, f)]
      /\ pending' = [pending EXCEPT ![l] = Append(@, g)]
      /\ pending \in [Loops -> Seq(FunctorSet)]
  BY DEF QueueInLoop, QueueWaking, LoopTypes
<1>2. /\ pending'[k] = Append(pending[k], f) /\ pending'[l] = Append(pending[l], g)
      /\ (l # k => pending'[l] = pending[l])
  BY <1>1
<1>3. /\ Len(Append(pending[l], g)) = Len(pending[l]) + 1 /\ Len(pending[l]) \in Nat
      /\ Append(pending[l], g)[Len(pending[l]) + 1] = g
      /\ Append(pending[k], f)[Len(pending[k]) + 1] = f
  BY <1>1, AppendProperties
<1> QED BY <1>2, <1>3

\* Whoever queues a functor changes what is pending.
LEMMA NoQueue ==
    ASSUME LoopTypes, NEW u, NEW l \in Loops, NEW g \in FunctorSet, UNCHANGED pending
    PROVE  ~QueueInLoop(u, l, g)
<1>1. ASSUME QueueInLoop(u, l, g) PROVE FALSE
  <2>1. pending[l] = Append(pending[l], g) /\ pending[l] \in Seq(FunctorSet)
    BY <1>1 DEF QueueInLoop, QueueWaking, LoopTypes
  <2>2. Len(Append(pending[l], g)) = Len(pending[l]) + 1 /\ Len(pending[l]) \in Nat
    BY <2>1, AppendProperties
  <2> QED BY <2>1, <2>2
<1> QED BY <1>1

\* A loop comes to the channel of a connection by epoll only.
LEMMA RoundNarrows ==
    ASSUME LoopInv, RoundStep, NEW l \in Loops, NEW c \in Connections,
           c \in active'[l] \/ c = inside'[l]
    PROVE  c \in active[l] \/ c = inside[l] \/ c \in epoll[l]
<1>1. LoopTypes /\ c # Wakeup /\ c # None
  BY ChannelsAssumption DEF LoopInv
<1>2. CASE UNCHANGED <<active, inside>>
  BY <1>2
<1>3. ASSUME NEW k \in Loops, NEW others, Poll(k, others), others \subseteq epoll[k]
      PROVE  c \in active[l] \/ c = inside[l] \/ c \in epoll[l]
  <2>1. /\ active' = [active EXCEPT ![k] = others \cup (IF eventfd[k] THEN {Wakeup} ELSE {})]
        /\ UNCHANGED inside
    BY <1>3 DEF Poll
  <2> QED BY <1>1, <1>3, <2>1 DEF LoopTypes
<1>4. ASSUME NEW k \in Loops, Handles(k) PROVE c \in active[l] \/ c = inside[l]
  <2>1. PICK ch \in active[k] : /\ active' = [active EXCEPT ![k] = @ \ {ch}]
                                /\ UNCHANGED inside \/ inside' = [inside EXCEPT ![k] = ch]
    BY <1>4 DEF Handles, Handling
  <2> QED BY <1>1, <2>1 DEF LoopTypes
<1>5. ASSUME NEW k \in Loops, Leaves(k) PROVE c \in active[l] \/ c = inside[l]
  BY <1>1, <1>5 DEF Leaves, Leave, LoopTypes
<1>6. ASSUME NEW k \in Loops, Calls(k) PROVE UNCHANGED <<active, inside>>
  BY <1>6 DEF Calls, Calling
<1> QED BY <1>2, <1>3, <1>4, <1>5, <1>6 DEF RoundStep, Wake, SwapFunctors, roundVars


-----------------------------------------------------------------------------
(***************************************************************************)
(* The steps in the life of a connection: it is accepted, established,     *)
(* closed, removed from the table and destroyed. The others are quiet.     *)
(***************************************************************************)
NoneDestroyed == \A l \in Loops : Calls(l) => NextFunctor(l).do # "destroyed"

Quiet == /\ UNCHANGED <<accepted, loopOf, fd, table, state, index, epoll, channels>>
         /\ NoneDestroyed
         /\ \A t : \A l \in Loops, f \in FunctorSet :
               QueueInLoop(t, l, f) => /\ f.do = "send" /\ loopOf[f.conn] = l
                                       /\ \E w \in Workers : Send(w)

Closing(l, c) == /\ HandleClose(l, c) /\ state[c] # "Disconnected"
                 /\ loopOf[c] = l /\ index[c] # "New"
                 /\ UNCHANGED <<accepted, loopOf, fd, table>>
                 /\ NoneDestroyed

\* A loop that calls nothing, or something else, destroys nothing.
LEMMA CallsNothing ==
    ASSUME LoopInv, UNCHANGED called PROVE NoneDestroyed
<1> SUFFICES ASSUME NEW l \in Loops PROVE ~Calls(l)
  BY DEF NoneDestroyed
<1>1. called \in [Loops -> Nat]
  BY DEF LoopInv, LoopTypes
<1> QED BY <1>1 DEF Calls, Calling

\* One loop calls a functor in a step.
LEMMA CallsOne ==
    ASSUME LoopInv, NEW l \in Loops, NEW do, Calling(l, do), NEW k \in Loops, Calls(k)
    PROVE  k = l
<1>1. called \in [Loops -> Nat]
  BY DEF LoopInv, LoopTypes
<1>2. called' = [called EXCEPT ![l] = @ + 1] /\ called' = [called EXCEPT ![k] = @ + 1]
  BY DEF Calls, Calling
<1> QED BY <1>1, <1>2

\* Nor does it destroy a connection when it calls another functor.
LEMMA CallsAnother ==
    ASSUME LoopInv, NEW l \in Loops, NEW do, Calling(l, do), do # "destroyed"
    PROVE  NoneDestroyed
<1>1. NextFunctor(l).do = do
  BY DEF Calling
<1> QED BY <1>1, CallsOne DEF NoneDestroyed

\* A loop that queues nothing and leaves the channels alone is quiet.
LEMMA QueueingNothingIsQuiet ==
    ASSUME LoopInv, UNCHANGED <<accepted, loopOf, fd, table, state, index, epoll, channels>>,
           UNCHANGED pending, NoneDestroyed
    PROVE  Quiet
<1>1. LoopTypes
  BY DEF LoopInv
<1> QED BY <1>1, NoQueue DEF Quiet
\* Closing a connection of the loop closes it, or it was down and nothing
\* happens; sending closes it when the peer has reset it.
LEMMA CloseClosesOrNot ==
    ASSUME TypesInv, NEW l \in Loops, NEW c \in Connections, HandleClose(l, c),
           loopOf[c] = l, index[c] # "New", UNCHANGED <<acceptVars, table>>, NoneDestroyed
    PROVE  Quiet \/ Closing(l, c)
<1>1. LoopInv /\ UNCHANGED <<accepted, loopOf, fd>>
  BY DEF TypesInv, acceptVars
<1>2. CASE state[c] = "Disconnected"
  <2>1. UNCHANGED <<pending, state, index, epoll, channels>>
    BY <1>2 DEF HandleClose, queueVars, channelVars
  <2> QED BY <1>1, <2>1, QueueingNothingIsQuiet
<1>3. CASE state[c] # "Disconnected"
  BY <1>1, <1>3 DEF Closing
<1> QED BY <1>2, <1>3

\* Sending on a connection closes it, or is quiet.
LEMMA SendClosesOrNot ==
    ASSUME TypesInv, ChannelsRegistered, NEW l \in Loops, NEW c \in Connections, NEW a,
           SendInLoop(l, c, a), loopOf[c] = l, UNCHANGED <<acceptVars, table>>, NoneDestroyed
    PROVE  Quiet \/ Closing(l, c)
<1>1. LoopInv /\ UNCHANGED <<accepted, loopOf, fd>>
  BY DEF TypesInv, acceptVars
<1>2. CASE UNCHANGED <<queueVars, state, channelVars>>
  <2>1. UNCHANGED <<pending, state, index, epoll, channels>>
    BY <1>2 DEF queueVars, channelVars
  <2> QED BY <1>1, <2>1, QueueingNothingIsQuiet
<1>3. CASE state[c] = "Connected" /\ HandleClose(l, c)
  <2>1. index[c] # "New"
    BY <1>3 DEF ChannelsRegistered, RegisteredAtAll
  <2> QED BY <1>3, <2>1, CloseClosesOrNot
<1> QED BY <1>2, <1>3 DEF SendInLoop, Write

\* The events a loop handles, and the handler it is in, are of its connections.
LEMMA TouchesItsOwn ==
    ASSUME ChannelsRegistered, NEW l \in Loops, NEW c \in Connections, Handling(l, c) \/ Inside(l, c)
    PROVE  loopOf[c] = l /\ index[c] # "New"
BY HandlingIsActive DEF ChannelsRegistered, RegisteredOn

\* The steps of a loop, other than those of the life of a connection.
LEMMA ServerRoundKinds ==
    ASSUME TypesInv, NEW l \in Loops, ServerRound(l)
    PROVE  Quiet \/ CallEstablished(l) \/ CallDestroyed(l)
<1>1. LoopInv /\ LoopTypes
  BY DEF TypesInv, LoopInv
<1>2. CASE PollLoop(l)
  <2>1. called' = [called EXCEPT ![l] = 0] /\ called[l] = Len(batch[l]) /\ UNCHANGED pending
        /\ UNCHANGED <<accepted, loopOf, fd, table, state, index, epoll, channels>>
    BY <1>2 DEF PollLoop, Poll, Polling, queueVars, acceptVars
  <2>2. \A k \in Loops : ~Calls(k)
    BY <1>1, <2>1 DEF Calls, Calling, LoopTypes
  <2> QED BY <1>1, <2>1, <2>2, QueueingNothingIsQuiet DEF NoneDestroyed
<1>3. CASE HandleWakeupRead(l) /\ UNCHANGED serverVars
  <2>1. UNCHANGED <<called, pending, accepted, loopOf, fd, table, state, index, epoll, channels>>
    BY <1>3 DEF HandleWakeupRead, Handling, queueVars, serverVars, acceptVars, channelVars
  <2> QED BY <1>1, <2>1, QueueingNothingIsQuiet, CallsNothing
<1>4. CASE SwapFunctors(l) /\ UNCHANGED serverVars
  <2>1. UNCHANGED <<called, accepted, loopOf, fd, table, state, index, epoll, channels>>
    BY <1>4 DEF SwapFunctors, serverVars, acceptVars, channelVars
  <2>2. pending' = [pending EXCEPT ![l] = << >>]
    BY <1>4 DEF SwapFunctors
  <2>3. ASSUME NEW k \in Loops, NEW f \in FunctorSet, NEW t, QueueInLoop(t, k, f) PROVE FALSE
    <3>1. pending'[k] = Append(pending[k], f) /\ pending[k] \in Seq(FunctorSet)
      BY <1>1, <2>3 DEF QueueInLoop, QueueWaking, LoopTypes
    <3>2. Len(Append(pending[k], f)) = Len(pending[k]) + 1 /\ Len(pending[k]) \in Nat
      BY <3>1, AppendProperties
    <3>3. pending'[k] = << >> \/ pending'[k] = pending[k]
      BY <1>1, <2>2 DEF LoopTypes
    <3> QED BY <3>1, <3>2, <3>3, EmptySeq
  <2> QED BY <1>1, <2>1, <2>3, CallsNothing DEF Quiet
<1>5. CASE (\E k \in Loops : Wake(l, k)) /\ UNCHANGED serverVars
  <2>1. UNCHANGED <<called, pending, accepted, loopOf, fd, table, state, index, epoll, channels>>
    BY <1>5 DEF Wake, serverVars, acceptVars, channelVars
  <2> QED BY <1>1, <2>1, QueueingNothingIsQuiet, CallsNothing
<1> QED BY <1>2, <1>3, <1>4, <1>5 DEF ServerRound

\* Of which kind are the steps of the base loop.
LEMMA BaseStepKinds ==
    ASSUME TypesInv, BaseStep PROVE Quiet \/ Accept \/ CallRemove
<1>1. LoopInv
  BY DEF TypesInv
<1>2. CASE AcceptEvent \/ AcceptDone
  <2>1. UNCHANGED <<called, pending, accepted, loopOf, fd, table, state, index, epoll, channels>>
    BY <1>2 DEF AcceptEvent, AcceptDone, AcceptEnds, Enter, Handling, Leave, queueVars, serverVars,
                acceptVars, channelVars
  <2> QED BY <1>1, <2>1, QueueingNothingIsQuiet, CallsNothing
<1> QED BY <1>2 DEF BaseStep

\* Of which kind are the steps of a connection's loop.
LEMMA RpcStepKinds ==
    ASSUME TypesInv, ConnInv, NEW l \in Loops,
           \/ ReadEvent(l) \/ CloseEvent(l) \/ ReadEnds(l) \/ CallSend(l)
           \/ DecodeFails(l) \/ CountRequest(l) \/ Refuse(l) \/ Admit(l)
           \/ PostAccepted(l) \/ PostRejected(l) \/ AnswerRejected(l)
    PROVE  Quiet \/ \E c \in Connections : Closing(l, c)
<1>1. LoopInv /\ ChannelsRegistered /\ FunctorsSound
  BY DEF TypesInv, ConnInv
<1>2. CASE ReadEvent(l)
  <2>1. UNCHANGED <<called, pending, accepted, loopOf, fd, table, state, index, epoll, channels>>
    BY <1>2 DEF ReadEvent, Enter, Handling, queueVars, acceptVars, channelVars
  <2> QED BY <1>1, <2>1, QueueingNothingIsQuiet, CallsNothing
<1>3. CASE CloseEvent(l)
  <2>1. PICK c \in Connections : Handling(l, c) /\ HandleClose(l, c)
                                 /\ UNCHANGED <<acceptVars, table>>
    BY <1>3 DEF CloseEvent
  <2>2. UNCHANGED called
    BY <2>1 DEF Handling
  <2> QED BY <1>1, <2>1, <2>2, TouchesItsOwn, CallsNothing, CloseClosesOrNot
<1>4. CASE ReadEnds(l)
  <2>1. PICK c \in Connections : /\ Inside(l, c) /\ Leave(l) /\ UNCHANGED <<acceptVars, table>>
                                 /\ \/ HandleClose(l, c)
                                    \/ UNCHANGED <<queueVars, state, channelVars>>
    BY <1>4 DEF ReadEnds
  <2>2. UNCHANGED <<called, accepted, loopOf, fd>>
    BY <2>1 DEF Leave, acceptVars
  <2>3. CASE HandleClose(l, c)
    BY <1>1, <2>1, <2>2, <2>3, TouchesItsOwn, CallsNothing, CloseClosesOrNot
  <2>4. CASE UNCHANGED <<queueVars, state, channelVars>>
    <3>1. UNCHANGED <<pending, state, index, epoll, channels>>
      BY <2>4 DEF queueVars, channelVars
    <3> QED BY <1>1, <2>1, <2>2, <3>1, QueueingNothingIsQuiet, CallsNothing
  <2> QED BY <2>1, <2>3, <2>4
<1>5. CASE CallSend(l)
  <2> DEFINE f == NextFunctor(l)
  <2>1. Calling(l, "send") /\ SendInLoop(l, f.conn, f.arg) /\ UNCHANGED <<acceptVars, table>>
    BY <1>5 DEF CallSend
  <2>2. f \in Uncalled(l) /\ f.conn \in Connections /\ f.do = "send"
    BY <1>1, <2>1, CallingTakes
  <2>3. loopOf[f.conn] = l
    BY <1>1, <2>2 DEF FunctorsSound, FunctorSound
  <2>4. NoneDestroyed
    BY <1>1, <2>1, CallsAnother
  <2> QED BY <1>1, <2>1, <2>2, <2>3, <2>4, SendClosesOrNot
<1>6. ASSUME NEW c \in Connections, NEW label, At(l, c, label)
      PROVE  Inside(l, c) /\ UNCHANGED <<called, accepted, loopOf, fd, acceptVars, table>>
  BY <1>6 DEF At, roundVars, acceptVars
<1>7. CASE DecodeFails(l)
  <2>1. PICK c \in Connections : At(l, c, "decode") /\ HandleClose(l, c)
    BY <1>7 DEF DecodeFails
  <2> QED BY <1>1, <1>6, <2>1, TouchesItsOwn, CallsNothing, CloseClosesOrNot
<1>8. ASSUME NEW c \in Connections, NEW label, At(l, c, label), NEW a, SendInLoop(l, c, a)
      PROVE  Quiet \/ Closing(l, c)
  BY <1>1, <1>6, <1>8, TouchesItsOwn, CallsNothing, SendClosesOrNot
<1>9. CASE Refuse(l) \/ AnswerRejected(l)
  <2>1. PICK c \in Connections, label \in {"decode", "handle", "post", "reject"} :
          At(l, c, label) /\ \E a : SendInLoop(l, c, a)
    BY <1>9 DEF Refuse, AnswerRejected, SendError
  <2> QED BY <1>8, <2>1
<1>10. CASE CountRequest(l) \/ Admit(l) \/ PostAccepted(l) \/ PostRejected(l)
  <2>1. PICK c \in Connections, label \in {"decode", "handle", "post", "reject"} :
          At(l, c, label) /\ UNCHANGED <<queueVars, channelVars, state>>
    BY <1>10 DEF CountRequest, Admit, AdmitCounting, PostAccepted, PostRejected
  <2>2. UNCHANGED <<pending, state, index, epoll, channels>>
    BY <2>1 DEF queueVars, channelVars
  <2> QED BY <1>1, <1>6, <2>1, <2>2, QueueingNothingIsQuiet, CallsNothing
<1> QED BY <1>2, <1>3, <1>4, <1>5, <1>7, <1>9, <1>10

\* A worker's steps are quiet: a functor that sends is sound.
LEMMA WorkerStepKinds ==
    ASSUME TypesInv, ConnInv, NEW w \in Workers, WorkerStep(w) PROVE Quiet
<1>1. LoopInv /\ LoopTypes
  BY DEF TypesInv, LoopInv
<1>2. UNCHANGED <<accepted, loopOf, fd, table, state, index, epoll, channels>>
  BY DEF WorkerStep, Take, HandlerEnds, RecordAnswer, Send, WakeLoop, NobodyToTell, WorkerGoes,
     acceptVars, channelVars
<1>3. UNCHANGED called
  BY DEF WorkerStep, Take, HandlerEnds, RecordAnswer, Send, WakeLoop, NobodyToTell, Wake, roundVars
<1>4. CASE Send(w)
  <2> DEFINE f == Functor("send", locked[w], Answer(task[w], code[w]))
             l == loopOf[locked[w]]
  <2>1. QueueInLoop(w, l, f)
    BY <1>4 DEF Send
  <2>2. f.do = "send" /\ f.conn = locked[w]
    BY DEF Functor
  <2>3. ASSUME NEW k \in Loops, NEW g \in FunctorSet, NEW t, QueueInLoop(t, k, g)
        PROVE  g.do = "send" /\ loopOf[g.conn] = k
    <3>1. locked[w] \in Connections /\ Referenced(locked[w])
      BY <1>4 DEF Send, TypesInv, ServerTypes, PeerTypes, Referenced
    <3>2. l \in Loops
      BY <3>1, LoopOfReferred DEF ConnInv
    <3>3. Answer(task[w], code[w]) \in Answers
      BY <1>4 DEF Send, WorkerGoes, TypesInv, RequestTypes, WorkTypes, Answer, Answers
    <3>4. f \in FunctorSet
      BY <3>1, <3>3, FunctorIsTyped
    <3>5. k = l /\ g = f
      BY <1>1, <2>1, <2>3, <3>2, <3>4, QueueIsOne
    <3> QED BY <2>2, <3>5
  <2> QED BY <1>1, <1>2, <1>3, <1>4, <2>3, CallsNothing DEF Quiet
<1>5. CASE ~Send(w)
  <2>1. UNCHANGED pending
    BY <1>5 DEF WorkerStep, Take, HandlerEnds, RecordAnswer, WakeLoop, NobodyToTell, Wake, queueVars
  <2> QED BY <1>1, <1>2, <1>3, <2>1, QueueingNothingIsQuiet, CallsNothing
<1> QED BY <1>4, <1>5

\* So a step is quiet, or one of these.
LEMMA NextKinds ==
    ASSUME TypesInv, ConnInv, Next
    PROVE  \/ Quiet
           \/ \E l \in Loops, c \in Connections : Closing(l, c)
           \/ Accept \/ CallRemove
           \/ \E l \in Loops : CallEstablished(l) \/ CallDestroyed(l)
<1>1. CASE Input
  <2>1. UNCHANGED <<called, pending, accepted, loopOf, fd, table, state, index, epoll, channels>>
    BY <1>1 DEF Input, Connect, PeerCloses, PeerSends, Peer, roundVars, queueVars, acceptVars
  <2> QED BY <2>1, QueueingNothingIsQuiet, CallsNothing DEF TypesInv
<1>2. ASSUME NEW l \in Loops, LoopStep(l)
      PROVE  \/ Quiet
             \/ \E c \in Connections : Closing(l, c)
             \/ Accept \/ CallRemove \/ CallEstablished(l) \/ CallDestroyed(l)
  BY <1>2, ServerRoundKinds, BaseStepKinds, RpcStepKinds DEF LoopStep
<1>3. ASSUME NEW w \in Workers, WorkerStep(w) PROVE Quiet
  BY <1>3, WorkerStepKinds
<1> QED BY <1>1, <1>2, <1>3 DEF Next

-----------------------------------------------------------------------------
(***************************************************************************)
(* Each kind of step keeps the functors sound and the channels registered. *)
(***************************************************************************)

\* A connection that is held stays held, unless it is destroyed.
LEMMA HeldStays ==
    ASSUME LoopInv, RoundStep, NEW c \in Connections, Held(c), c \in table => Held(c)',
           \A l \in Loops : Calls(l) => NextFunctor(l) # Functor("destroyed", c, None)
    PROVE  Held(c)'
<1>1. CASE c \in table
  BY <1>1
<1>2. ASSUME NEW l \in Loops, Functor("destroyed", c, None) \in Uncalled(l) PROVE Held(c)'
  <2>1. Functor("destroyed", c, None) \in Uncalled(l)'
    BY <1>2, RoundUncalled
  <2> QED BY <2>1 DEF Held
<1> QED BY <1>1, <1>2 DEF Held

\* A functor to be called is about a connection that was accepted.
LEMMA UncalledIsAccepted ==
    ASSUME TypesInv, ConnInv, NEW l \in Loops, NEW f \in Uncalled(l)
    PROVE  f.conn \in Connections /\ Referenced(f.conn) /\ f.conn <= accepted
BY UncalledIsReferenced DEF ConnInv, Referred, TypesInv

\* What is known of a connection nobody has accepted.
LEMMA NewIsUnknown ==
    ASSUME TypesInv, ConnInv, NEW c \in Connections, c > accepted
    PROVE  /\ ~Referenced(c) /\ state[c] = "none" /\ index[c] = "New" /\ c \notin table
           /\ \A l \in Loops : /\ c \notin epoll[l] /\ c \notin active[l] /\ c # inside[l]
                               /\ \A f \in Fds : channels[l][f] # c
           /\ \A l \in Loops : \A f \in Uncalled(l) : f.conn # c
<1>1. accepted \in Nat /\ c \in Nat
  BY DEF TypesInv, ServerTypes, AcceptTypes, Connections
<1>2. ~Referenced(c)
  BY <1>1 DEF ConnInv, Referred
<1>3. state[c] = "none" /\ index[c] = "New"
  BY DEF ConnInv, ChannelsRegistered, RegisteredAtAll
<1>4. ASSUME NEW l \in Loops
      PROVE  /\ c \notin epoll[l] /\ c \notin active[l] /\ c # inside[l]
             /\ \A f \in Fds : channels[l][f] # c
  BY <1>3 DEF ConnInv, ChannelsRegistered, RegisteredOn
<1>5. \A l \in Loops : \A f \in Uncalled(l) : f.conn # c
  BY <1>2, UncalledIsAccepted
<1> QED BY <1>2, <1>3, <1>4, <1>5 DEF Referenced

\* A step that changes nothing of a connection but where its loop is.
LEMMA QuietKeeps ==
    ASSUME TypesInv, ConnInv, Next, Quiet PROVE FunctorsSound' /\ ChannelsRegistered'
<1>1. LoopInv /\ RoundStep /\ FunctorsSound /\ ChannelsRegistered
  BY NextIsRound DEF TypesInv, ConnInv
<1>2. UNCHANGED <<accepted, loopOf, fd, table, state, index, epoll, channels>> /\ NoneDestroyed
  BY DEF Quiet
<1>3. FunctorsSound'
  <2> SUFFICES ASSUME NEW l \in Loops, NEW f \in Uncalled(l)' PROVE FunctorSound(l, f)'
    BY DEF FunctorsSound
  <2>1. CASE f \in Uncalled(l)
    BY <1>1, <1>2, <2>1 DEF FunctorsSound, FunctorSound
  <2>2. CASE f \notin Uncalled(l)
    <3>1. f.do = "send" /\ loopOf[f.conn] = l
      BY <1>1, <2>2, RoundUncalled DEF Quiet
    <3> QED BY <1>2, <3>1 DEF FunctorSound
  <2> QED BY <2>1, <2>2
<1>4. ASSUME NEW c \in Connections, Held(c) PROVE Held(c)'
  <2>1. Functor("destroyed", c, None).do = "destroyed"
    BY DEF Functor
  <2>2. \A l \in Loops : Calls(l) => NextFunctor(l) # Functor("destroyed", c, None)
    BY <1>2, <2>1 DEF NoneDestroyed
  <2>3. c \in table => Held(c)'
    BY <1>2 DEF Held
  <2> QED BY <1>1, <1>4, <2>2, <2>3, HeldStays
<1>5. ASSUME NEW c \in Connections PROVE RegisteredAtAll(c)'
  BY <1>1, <1>2, <1>4 DEF ChannelsRegistered, RegisteredAtAll
<1>6. ASSUME NEW c \in Connections, NEW l \in Loops PROVE RegisteredOn(l, c)'
  <2>1. c \in active'[l] \/ c = inside'[l] => loopOf[c] = l /\ index[c] # "New"
    BY <1>1, RoundNarrows DEF ChannelsRegistered, RegisteredOn
  <2>2. RegisteredOn(l, c)
    BY <1>1 DEF ChannelsRegistered
  <2> QED BY <1>2, <2>1, <2>2 DEF RegisteredOn
<1> QED BY <1>3, <1>5, <1>6 DEF ChannelsRegistered

\* A functor stays sound when its connection stays as it has to be.
LEMMA SoundnessStays ==
    ASSUME TypesInv, ConnInv, Next, NEW l \in Loops, NEW f \in Uncalled(l),
           f.do = "established" => /\ f.conn \in table => f.conn \in table'
                                   /\ state'[f.conn] = state[f.conn],
           f.do \in {"remove", "destroyed"} /\ state[f.conn] = "Disconnected" =>
              state'[f.conn] = "Disconnected",
           f.do = "destroyed" /\ f.conn \notin table => f.conn \notin table'
    PROVE  FunctorSound(l, f)'
<1>1. FunctorSound(l, f) /\ f.conn \in Connections /\ loopOf'[f.conn] = loopOf[f.conn]
  BY UncalledIsAccepted, AcceptedStays DEF ConnInv, FunctorsSound
<1> QED BY <1>1 DEF FunctorSound

\* Closing: the channel is deleted and out of epoll, its place in the table of
\* the poller stays, and so does the connection.
LEMMA ClosingKeeps ==
    ASSUME TypesInv, ConnInv, Next, NEW l \in Loops, NEW c \in Connections, Closing(l, c)
    PROVE  FunctorsSound' /\ ChannelsRegistered'
<1>1. LoopInv /\ LoopTypes /\ RoundStep /\ FunctorsSound /\ ChannelsRegistered
  BY NextIsRound DEF TypesInv, ConnInv, LoopInv
<1>2. /\ state' = [state EXCEPT ![c] = "Disconnected"]
      /\ index' = [index EXCEPT ![c] = "Deleted"]
      /\ epoll' = [epoll EXCEPT ![l] = @ \ {c}]
      /\ UNCHANGED <<accepted, loopOf, fd, table, channels>>
      /\ QueueInLoop(l, Base, Functor("remove", c, None))
      /\ loopOf[c] = l /\ index[c] # "New" /\ NoneDestroyed
  BY DEF Closing, HandleClose
<1>3. /\ state \in [Connections -> {"none", "Connecting", "Connected", "Disconnected"}]
      /\ index \in [Connections -> {"New", "Added", "Deleted"}]
      /\ epoll \in [Loops -> SUBSET (Connections \cup {Acceptor})]
  BY DEF TypesInv, ServerTypes, ChannelTypes
<1>4. /\ state'[c] = "Disconnected" /\ index'[c] = "Deleted"
      /\ \A d \in Connections \ {c} : state'[d] = state[d] /\ index'[d] = index[d]
      /\ epoll'[l] = epoll[l] \ {c} /\ \A k \in Loops \ {l} : epoll'[k] = epoll[k]
  BY <1>2, <1>3
<1>5. state[c] \notin {"none", "Connecting"}
  BY <1>1, <1>2 DEF ChannelsRegistered, RegisteredAtAll
<1>6. FunctorsSound'
  <2> SUFFICES ASSUME NEW k \in Loops, NEW f \in Uncalled(k)' PROVE FunctorSound(k, f)'
    BY DEF FunctorsSound
  <2>1. CASE f \in Uncalled(k)
    <3>1. FunctorSound(k, f) /\ f.conn \in Connections
      BY <1>1, <2>1, UncalledIsAccepted DEF FunctorsSound
    <3>2. f.do = "established" => state'[f.conn] = state[f.conn]
      BY <1>4, <1>5, <3>1 DEF FunctorSound
    <3>3. state[f.conn] = "Disconnected" => state'[f.conn] = "Disconnected"
      BY <1>4, <3>1
    <3> QED BY <1>2, <2>1, <3>2, <3>3, SoundnessStays
  <2>2. CASE f \notin Uncalled(k)
    <3> DEFINE g == Functor("remove", c, None)
    <3>1. PICK t : f \in FunctorSet /\ QueueInLoop(t, k, f)
      BY <1>1, <2>2, RoundUncalled
    <3>2. g \in FunctorSet /\ Base \in Loops
      BY FunctorIsTyped, ServerAssumption
    <3>3. k = Base /\ f = g
      BY <1>1, <1>2, <3>1, <3>2, QueueIsOne
    <3>4. f.do = "remove" /\ f.conn = c
      BY <3>3 DEF Functor
    <3> QED BY <1>4, <3>3, <3>4 DEF FunctorSound
  <2> QED BY <2>1, <2>2
<1>7. ASSUME NEW d \in Connections, Held(d) PROVE Held(d)'
  <2>1. Functor("destroyed", d, None).do = "destroyed"
    BY DEF Functor
  <2>2. \A k \in Loops : Calls(k) => NextFunctor(k) # Functor("destroyed", d, None)
    BY <1>2, <2>1 DEF NoneDestroyed
  <2>3. d \in table => Held(d)'
    BY <1>2 DEF Held
  <2> QED BY <1>1, <1>7, <2>2, <2>3, HeldStays
<1>8. ASSUME NEW d \in Connections PROVE RegisteredAtAll(d)'
  <2>1. RegisteredAtAll(d)
    BY <1>1 DEF ChannelsRegistered
  <2>2. CASE d = c
    BY <1>2, <1>4, <1>5, <1>7, <2>1, <2>2 DEF RegisteredAtAll
  <2>3. CASE d # c
    <3>1. state'[d] = state[d] /\ index'[d] = index[d]
      BY <1>4, <2>3
    <3>2. loopOf[d] \in Loops => (d \in epoll[loopOf[d]] => d \in epoll'[loopOf[d]])
      BY <1>4, <2>3
    <3>3. state[d] = "Connected" => loopOf[d] \in Loops
      BY <2>1, HeldIsReferenced, <1>1 DEF RegisteredAtAll, ConnInv, Referred
    <3> QED BY <1>2, <1>7, <2>1, <3>1, <3>2, <3>3 DEF RegisteredAtAll
  <2> QED BY <2>2, <2>3
<1>9. ASSUME NEW d \in Connections, NEW k \in Loops PROVE RegisteredOn(k, d)'
  <2>1. RegisteredOn(k, d)
    BY <1>1 DEF ChannelsRegistered
  <2>2. d \in active'[k] \/ d = inside'[k] => loopOf[d] = k /\ index[d] # "New"
    BY <1>1, RoundNarrows DEF ChannelsRegistered, RegisteredOn
  <2>3. index[d] # "New" => index'[d] # "New"
    BY <1>4
  <2>4. d \in epoll'[k] => d \in epoll[k] /\ (d = c => k # l)
    BY <1>4
  <2>5. d \in epoll'[k] => loopOf[d] = k /\ index'[d] = "Added"
    BY <1>2, <1>4, <2>1, <2>4 DEF RegisteredOn
  <2> QED BY <1>2, <2>1, <2>2, <2>3, <2>5 DEF RegisteredOn
<1> QED BY <1>6, <1>8, <1>9 DEF ChannelsRegistered

\* Removing: the functor that destroys the connection takes over from the
\* table.
LEMMA RemoveKeeps ==
    ASSUME TypesInv, ConnInv, Next, CallRemove PROVE FunctorsSound' /\ ChannelsRegistered'
<1>0. PICK c, l : c = NextFunctor(Base).conn /\ l = loopOf[c]
  OBVIOUS
<1> DEFINE g == Functor("destroyed", c, None)
<1>1. LoopInv /\ LoopTypes /\ RoundStep /\ FunctorsSound /\ ChannelsRegistered /\ Base \in Loops
  BY NextIsRound, ServerAssumption DEF TypesInv, ConnInv, LoopInv
<1>2. /\ Calling(Base, "remove")
      /\ UNCHANGED <<accepted, loopOf, fd, state, index, epoll, channels>>
  BY DEF CallRemove, acceptVars, channelVars
<1>3. NoneDestroyed
  BY <1>1, <1>2, CallsAnother
<1>4. CASE c \notin table
  <2>1. UNCHANGED <<pending, table>>
    BY <1>0, <1>4 DEF CallRemove, queueVars
  <2>2. Quiet
    BY <1>1, <1>2, <1>3, <2>1, QueueingNothingIsQuiet
  <2> QED BY <2>2, QuietKeeps
<1>5. CASE c \in table
  <2>1. table' = table \ {c} /\ QueueInLoop(Base, l, g)
    BY <1>0, <1>5 DEF CallRemove
  <2>2. NextFunctor(Base) \in Uncalled(Base) /\ NextFunctor(Base).do = "remove" /\ c \in Connections
    BY <1>0, <1>1, <1>2, CallingTakes
  <2>3. state[c] = "Disconnected"
    BY <1>0, <1>1, <2>2 DEF FunctorsSound, FunctorSound
  <2>4. l \in Loops /\ g \in FunctorSet /\ g.do = "destroyed" /\ g.conn = c
    BY <1>0, <1>5, <2>2, FunctorIsTyped DEF ConnInv, Referred, Referenced, Functor
  <2>5. FunctorsSound'
    <3> SUFFICES ASSUME NEW k \in Loops, NEW f \in Uncalled(k)' PROVE FunctorSound(k, f)'
      BY DEF FunctorsSound
    <3>1. CASE f \in Uncalled(k)
      <4>1. f.do = "established" => f.conn # c
        BY <1>1, <2>3, <3>1 DEF FunctorsSound, FunctorSound
      <4> QED BY <1>2, <2>1, <3>1, <4>1, SoundnessStays
    <3>2. CASE f \notin Uncalled(k)
      <4>1. PICK t : f \in FunctorSet /\ QueueInLoop(t, k, f)
        BY <1>1, <3>2, RoundUncalled
      <4>2. k = l /\ f = g
        BY <1>1, <2>1, <2>4, <4>1, QueueIsOne
      <4> QED BY <1>0, <1>2, <2>1, <2>3, <2>4, <4>2 DEF FunctorSound
    <3> QED BY <3>1, <3>2
  <2>6. Held(c)'
    <3>1. Pend(l)' = Pend(l) \cup {g}
      BY <1>1, <2>1, <2>4, QueuePends
    <3>2. Functor("destroyed", c, None) \in Uncalled(l)'
      BY <3>1 DEF Uncalled
    <3> QED BY <2>4, <3>2 DEF Held
  <2>7. ASSUME NEW d \in Connections, Held(d) PROVE Held(d)'
    <3>1. CASE d = c
      BY <2>6, <3>1
    <3>2. CASE d # c
      <4>1. Functor("destroyed", d, None).do = "destroyed"
        BY DEF Functor
      <4>2. \A k \in Loops : Calls(k) => NextFunctor(k) # Functor("destroyed", d, None)
        BY <1>3, <4>1 DEF NoneDestroyed
      <4>3. d \in table => Held(d)'
        BY <2>1, <3>2 DEF Held
      <4> QED BY <1>1, <2>7, <4>2, <4>3, HeldStays
    <3> QED BY <3>1, <3>2
  <2>8. ASSUME NEW d \in Connections PROVE RegisteredAtAll(d)'
    <3>1. RegisteredAtAll(d)
      BY <1>1 DEF ChannelsRegistered
    <3>2. state[d] \in {"Connecting", "Connected"} => d \in table'
      BY <2>1, <2>3, <3>1 DEF RegisteredAtAll
    <3> QED BY <1>2, <2>7, <3>1, <3>2 DEF RegisteredAtAll
  <2>9. ASSUME NEW d \in Connections, NEW k \in Loops PROVE RegisteredOn(k, d)'
    <3>1. d \in active'[k] \/ d = inside'[k] => loopOf[d] = k /\ index[d] # "New"
      BY <1>1, RoundNarrows DEF ChannelsRegistered, RegisteredOn
    <3>2. RegisteredOn(k, d)
      BY <1>1 DEF ChannelsRegistered
    <3> QED BY <1>2, <3>1, <3>2 DEF RegisteredOn
  <2> QED BY <2>5, <2>8, <2>9 DEF ChannelsRegistered
<1> QED BY <1>4, <1>5

\* Under a descriptor that a referenced connection owns, the poller of its
\* loop has that connection or none.
LEMMA DescriptorIsItsOwn ==
    ASSUME LoopInv, ConnInv, NEW l \in Loops, NEW c \in Connections, Referenced(c),
           fd[c] \in Fds, channels[l][fd[c]] \in Connections
    PROVE  channels[l][fd[c]] = c /\ index[c] # "New"
<1> DEFINE d == channels[l][fd[c]]
<1>1. d \in Connections /\ RegisteredOn(l, d) /\ RegisteredAtAll(d)
  BY DEF ConnInv, ChannelsRegistered
<1>2. fd[d] = fd[c] /\ index[d] # "New"
  BY <1>1 DEF RegisteredOn
<1>3. Referenced(d)
  BY <1>1, <1>2, HeldIsReferenced DEF RegisteredAtAll
<1> QED BY <1>1, <1>2, <1>3 DEF ConnInv, DistinctFds

\* Destroying: the channel leaves the table of the poller with the connection.
LEMMA DestroyKeeps ==
    ASSUME TypesInv, ConnInv, Next, NEW l \in Loops, CallDestroyed(l)
    PROVE  FunctorsSound' /\ ChannelsRegistered'
<1> DEFINE c == NextFunctor(l).conn
<1>1. LoopInv /\ LoopTypes /\ Rounds /\ RoundStep /\ FunctorsSound /\ ChannelsRegistered
  BY NextIsRound DEF TypesInv, ConnInv, LoopInv
<1>2. /\ Calling(l, "destroyed") /\ RemoveChannel(l, c)
      /\ state' = [state EXCEPT ![c] = "Disconnected"]
      /\ UNCHANGED <<accepted, loopOf, fd, table, pending>>
  BY DEF CallDestroyed, acceptVars, queueVars
<1>3. /\ NextFunctor(l) \in Uncalled(l) /\ NextFunctor(l).do = "destroyed" /\ c \in Connections
      /\ NextFunctor(l) \in FunctorSet
  BY <1>1, <1>2, CallingTakes
<1>4. /\ state[c] = "Disconnected" /\ loopOf[c] = l /\ c \notin table
      /\ Referenced(c) /\ fd[c] \in Fds
  BY <1>1, <1>3, UncalledIsReferenced DEF FunctorsSound, FunctorSound, ConnInv, Referred
<1>5. /\ state  \in [Connections -> {"none", "Connecting", "Connected", "Disconnected"}]
      /\ index  \in [Connections -> {"New", "Added", "Deleted"}]
      /\ epoll  \in [Loops -> SUBSET (Connections \cup {Acceptor})]
      /\ channels \in [Loops -> [Fds -> Connections \cup {None}]]
      /\ None \notin Connections
  BY ChannelsAssumption DEF TypesInv, ServerTypes, ChannelTypes
<1>6. UNCHANGED state
  BY <1>2, <1>4, <1>5
<1>7. index[c] # "New" <=> channels[l][fd[c]] = c
  BY <1>3, <1>4, <1>1 DEF ChannelsRegistered, RegisteredAtAll, RegisteredOn
<1>8. channels[l][fd[c]] = None \/ channels[l][fd[c]] = c
  BY <1>1, <1>3, <1>4, <1>5, DescriptorIsItsOwn
<1>9. /\ index'[c] = "New" /\ c \notin epoll'[l] /\ channels'[l][fd[c]] = None
      /\ \A d \in Connections \ {c} : index'[d] = index[d]
      /\ \A k \in Loops : \A d \in Connections \ {c} : d \in epoll'[k] <=> d \in epoll[k]
      /\ \A k \in Loops \ {l} : epoll'[k] = epoll[k] /\ channels'[k] = channels[k]
      /\ \A f \in Fds : f # fd[c] => channels'[l][f] = channels[l][f]
  <2>1. CASE channels[l][fd[c]] = None
    <3>1. UNCHANGED <<index, epoll, channels>>
      BY <1>2, <2>1 DEF RemoveChannel, channelVars
    <3>2. index[c] = "New"
      BY <1>3, <1>5, <1>7, <2>1
    <3>3. c \notin epoll[l]
      BY <1>1, <1>3, <3>2 DEF ChannelsRegistered, RegisteredOn
    <3> QED BY <2>1, <3>1, <3>2, <3>3
  <2>2. CASE channels[l][fd[c]] # None
    <3>1. /\ epoll' = [epoll EXCEPT ![l] = @ \ {c}]
          /\ index' = [index EXCEPT ![c] = "New"]
          /\ channels' = [channels EXCEPT ![l][fd[c]] = None]
      BY <1>2, <2>2 DEF RemoveChannel, StopListening
    <3>2. channels'[l][fd[c]] = None /\ \A f \in Fds : f # fd[c] => channels'[l][f] = channels[l][f]
      BY <1>4, <1>5, <3>1
    <3>3. \A k \in Loops \ {l} : epoll'[k] = epoll[k] /\ channels'[k] = channels[k]
      BY <1>5, <3>1
    <3>4. epoll'[l] = epoll[l] \ {c}
      BY <1>5, <3>1
    <3>5. index'[c] = "New" /\ \A d \in Connections \ {c} : index'[d] = index[d]
      BY <1>3, <1>5, <3>1
    <3> QED BY <3>2, <3>3, <3>4, <3>5
  <2> QED BY <2>1, <2>2
<1>10. FunctorsSound'
  <2> SUFFICES ASSUME NEW k \in Loops, NEW f \in Uncalled(k)' PROVE FunctorSound(k, f)'
    BY DEF FunctorsSound
  <2>1. f \in Uncalled(k)
    <3>1. ASSUME NEW t, f \in FunctorSet PROVE ~QueueInLoop(t, k, f)
      BY <1>1, <1>2, <3>1, NoQueue
    <3> QED BY <1>1, <3>1, RoundUncalled
  <2> QED BY <1>2, <1>6, <2>1, SoundnessStays
<1>11. ASSUME NEW d \in Connections, d # c, Held(d) PROVE Held(d)'
  <2>1. Functor("destroyed", d, None).conn = d
    BY DEF Functor
  <2>2. ASSUME NEW k \in Loops, Calls(k) PROVE NextFunctor(k) # Functor("destroyed", d, None)
    <3>1. k = l
      BY <1>1, <1>2, <2>2, CallsOne
    <3> QED BY <1>11, <2>1, <3>1
  <2>3. d \in table => Held(d)'
    BY <1>2 DEF Held
  <2> QED BY <1>1, <1>11, <2>2, <2>3, HeldStays
<1>12. ASSUME NEW d \in Connections PROVE RegisteredAtAll(d)'
  <2>1. RegisteredAtAll(d)
    BY <1>1 DEF ChannelsRegistered
  <2>2. CASE d = c
    BY <1>2, <1>4, <1>6, <1>9, <2>1, <2>2 DEF RegisteredAtAll
  <2>3. CASE d # c
    <3>1. index'[d] = index[d]
      BY <1>9, <2>3
    <3>2. index[d] # "New" \/ state[d] = "Connected" => loopOf[d] \in Loops /\ Referenced(d) /\ fd[d] \in Fds
      BY <1>1, <2>1, HeldIsReferenced DEF RegisteredAtAll, ConnInv, Referred
    <3>3. state[d] = "Connected" => d \in epoll'[loopOf[d]]
      BY <1>9, <2>1, <2>3, <3>2 DEF RegisteredAtAll
    <3>4. index[d] # "New" => channels'[loopOf[d]][fd[d]] = d
      <4>1. index[d] # "New" => fd[d] # fd[c]
        BY <1>3, <1>4, <2>3, <3>2 DEF ConnInv, DistinctFds
      <4>2. index[d] # "New" => channels[loopOf[d]][fd[d]] = d
        BY <2>1 DEF RegisteredAtAll
      <4> QED BY <1>9, <3>2, <4>1, <4>2
    <3> QED BY <1>2, <1>6, <1>11, <2>1, <2>3, <3>1, <3>3, <3>4 DEF RegisteredAtAll
  <2> QED BY <2>2, <2>3
<1>13. ASSUME NEW d \in Connections, NEW k \in Loops PROVE RegisteredOn(k, d)'
  <2>1. RegisteredOn(k, d)
    BY <1>1 DEF ChannelsRegistered
  <2>2. active[l] = {} /\ inside[l] = None /\ UNCHANGED <<active, inside>>
    BY <1>1, <1>2 DEF Rounds, Calling
  <2>3. d \in active'[k] \/ d = inside'[k] => k # l
    BY <1>5, <2>2
  <2>4. CASE d = c
    <3>1. \A f \in Fds : channels'[k][f] # d
      <4>1. ASSUME NEW f \in Fds, channels[k][f] = d PROVE k = l /\ f = fd[c]
        BY <1>4, <2>1, <2>4, <4>1 DEF RegisteredOn
      <4> QED BY <1>3, <1>5, <1>9, <2>4, <4>1
    <3>2. d \notin epoll'[k]
      BY <1>4, <1>9, <2>1, <2>4 DEF RegisteredOn
    <3>3. ~(d \in active'[k] \/ d = inside'[k])
      BY <1>4, <2>1, <2>2, <2>3, <2>4 DEF RegisteredOn
    <3> QED BY <3>1, <3>2, <3>3 DEF RegisteredOn
  <2>5. CASE d # c
    <3>1. index'[d] = index[d] /\ (d \in epoll'[k] <=> d \in epoll[k])
      BY <1>9, <2>5
    <3>2. \A f \in Fds : channels'[k][f] = d => channels[k][f] = d
      BY <1>5, <1>9
    <3> QED BY <1>2, <2>1, <2>2, <3>1, <3>2 DEF RegisteredOn
  <2> QED BY <2>4, <2>5
<1> QED BY <1>10, <1>12, <1>13 DEF ChannelsRegistered

\* Establishing: the channel is registered where nothing was, and no other
\* functor is going to establish the connection again.
LEMMA EstablishKeeps ==
    ASSUME TypesInv, ConnInv, Next, NEW l \in Loops, CallEstablished(l)
    PROVE  FunctorsSound' /\ ChannelsRegistered'
<1>0. PICK c, f : c = NextFunctor(l).conn /\ f = fd[c]
  OBVIOUS
<1>1. LoopInv /\ LoopTypes /\ Rounds /\ RoundStep /\ FunctorsSound /\ ChannelsRegistered
  BY NextIsRound DEF TypesInv, ConnInv, LoopInv
<1>2. /\ Calling(l, "established") /\ Established(l, c, f)
      /\ UNCHANGED <<accepted, loopOf, fd, table, pending>>
  BY <1>0 DEF CallEstablished, acceptVars, queueVars
<1>3. /\ NextFunctor(l) \in Uncalled(l) /\ NextFunctor(l).do = "established"
      /\ c \in Connections
  BY <1>0, <1>1, <1>2, CallingTakes
<1>4. /\ state[c] = "Connecting" /\ loopOf[c] = l /\ c \in table /\ index[c] = "New"
      /\ Referenced(c) /\ f \in Fds /\ fd[c] = f
  BY <1>0, <1>1, <1>3, UncalledIsReferenced
     DEF FunctorsSound, FunctorSound, ConnInv, Referred, ChannelsRegistered, RegisteredAtAll
<1>5. /\ state  \in [Connections -> {"none", "Connecting", "Connected", "Disconnected"}]
      /\ index  \in [Connections -> {"New", "Added", "Deleted"}]
      /\ epoll  \in [Loops -> SUBSET (Connections \cup {Acceptor})]
      /\ channels \in [Loops -> [Fds -> Connections \cup {None}]]
  BY DEF TypesInv, ServerTypes, ChannelTypes
<1>6. channels[l][f] = None
  BY <1>1, <1>3, <1>4, <1>5, DescriptorIsItsOwn
<1>7. /\ state'[c] = "Connected" /\ index'[c] = "Added"
      /\ \A d \in Connections \ {c} : state'[d] = state[d] /\ index'[d] = index[d]
      /\ epoll'[l] = epoll[l] \cup {c} /\ \A k \in Loops \ {l} : epoll'[k] = epoll[k]
      /\ channels'[l][f] = c
      /\ \A k \in Loops \ {l} : channels'[k] = channels[k]
      /\ \A h \in Fds : h # f => channels'[l][h] = channels[l][h]
  <2>1. state' = [state EXCEPT ![c] = "Connected"] /\ index' = [index EXCEPT ![c] = "Added"]
        /\ epoll' = [epoll EXCEPT ![l] = @ \cup {c}]
        /\ channels' = [channels EXCEPT ![l][f] = c]
    BY <1>2, <1>6 DEF Established
  <2>2. /\ state'[c] = "Connected" /\ index'[c] = "Added"
        /\ \A d \in Connections \ {c} : state'[d] = state[d] /\ index'[d] = index[d]
    BY <1>3, <1>5, <2>1
  <2>3. epoll'[l] = epoll[l] \cup {c} /\ \A k \in Loops \ {l} : epoll'[k] = epoll[k]
    BY <1>5, <2>1
  <2>4. /\ channels'[l][f] = c
        /\ \A k \in Loops \ {l} : channels'[k] = channels[k]
        /\ \A h \in Fds : h # f => channels'[l][h] = channels[l][h]
    BY <1>4, <1>5, <2>1
  <2> QED BY <2>2, <2>3, <2>4
<1>8. ASSUME NEW k \in Loops, NEW g \in Uncalled(k)', Establishes(g, c) PROVE FALSE
  <2>1. g \in Uncalled(k)
    <3>1. ASSUME NEW t, g \in FunctorSet PROVE ~QueueInLoop(t, k, g)
      BY <1>1, <1>2, <3>1, NoQueue
    <3> QED BY <1>1, <3>1, RoundUncalled
  <2>2. k = l
    BY <1>1, <1>4, <1>8, <2>1 DEF FunctorsSound, FunctorSound, Establishes
  <2>3. /\ called[l] \in Nat /\ Len(batch[l]) \in Nat /\ called[l] < Len(batch[l])
        /\ called'[l] = called[l] + 1 /\ UNCHANGED batch
        /\ Establishes(batch[l][called[l] + 1], c)
    BY <1>0, <1>1, <1>2, <1>3 DEF Calling, LoopTypes, NextFunctor, Establishes
  <2>4. EstablishedOnce
    BY DEF ConnInv
  <2>5. CASE g \in Rest(l)'
    <3>1. PICK i \in called'[l] + 1 .. Len(batch[l]) : g = batch[l][i]
      BY <2>3, <2>5 DEF Rest
    <3>2. i \in called[l] + 1 .. Len(batch[l]) /\ called[l] + 1 \in called[l] + 1 .. Len(batch[l])
          /\ i # called[l] + 1
      BY <2>3, <3>1
    <3> QED BY <1>3, <1>8, <2>3, <2>4, <3>1, <3>2 DEF EstablishedOnce
  <2>6. CASE g \in Pend(l)'
    <3>1. PICK i \in 1 .. Len(pending[l]) : g = pending[l][i]
      BY <1>2, <2>6 DEF Pend
    <3>2. called[l] + 1 \in called[l] + 1 .. Len(batch[l])
      BY <2>3
    <3> QED BY <1>3, <1>8, <2>3, <2>4, <3>1, <3>2 DEF EstablishedOnce
  <2> QED BY <1>8, <2>2, <2>5, <2>6 DEF Uncalled
<1>9. FunctorsSound'
  <2> SUFFICES ASSUME NEW k \in Loops, NEW g \in Uncalled(k)' PROVE FunctorSound(k, g)'
    BY DEF FunctorsSound
  <2>1. g \in Uncalled(k)
    <3>1. ASSUME NEW t, g \in FunctorSet PROVE ~QueueInLoop(t, k, g)
      BY <1>1, <1>2, <3>1, NoQueue
    <3> QED BY <1>1, <3>1, RoundUncalled
  <2>2. g.conn \in Connections
    BY <2>1, UncalledIsAccepted
  <2>3. g.do = "established" => state'[g.conn] = state[g.conn]
    BY <1>7, <1>8, <2>2 DEF Establishes
  <2>4. state[g.conn] = "Disconnected" => state'[g.conn] = "Disconnected"
    BY <1>4, <1>7, <2>2
  <2> QED BY <1>2, <2>1, <2>3, <2>4, SoundnessStays
<1>10. ASSUME NEW d \in Connections, Held(d) PROVE Held(d)'
  <2>1. NoneDestroyed
    BY <1>1, <1>2, CallsAnother
  <2>2. Functor("destroyed", d, None).do = "destroyed"
    BY DEF Functor
  <2>3. \A k \in Loops : Calls(k) => NextFunctor(k) # Functor("destroyed", d, None)
    BY <2>1, <2>2 DEF NoneDestroyed
  <2>4. d \in table => Held(d)'
    BY <1>2 DEF Held
  <2> QED BY <1>1, <1>10, <2>3, <2>4, HeldStays
<1>11. ASSUME NEW d \in Connections PROVE RegisteredAtAll(d)'
  <2>1. RegisteredAtAll(d)
    BY <1>1 DEF ChannelsRegistered
  <2>2. CASE d = c
    <3>1. Held(c)'
      BY <1>3, <1>4, <1>10 DEF Held
    <3> QED BY <1>2, <1>4, <1>7, <2>1, <2>2, <3>1 DEF RegisteredAtAll
  <2>3. CASE d # c
    <3>1. state'[d] = state[d] /\ index'[d] = index[d]
      BY <1>7, <2>3
    <3>2. index[d] # "New" \/ state[d] = "Connected" => loopOf[d] \in Loops /\ Referenced(d) /\ fd[d] \in Fds
      BY <1>1, <2>1, HeldIsReferenced DEF RegisteredAtAll, ConnInv, Referred
    <3>3. state[d] = "Connected" => d \in epoll'[loopOf[d]]
      BY <1>7, <2>1, <2>3, <3>2 DEF RegisteredAtAll
    <3>4. index[d] # "New" => channels'[loopOf[d]][fd[d]] = d
      <4>1. index[d] # "New" => fd[d] # f
        BY <1>3, <1>4, <2>3, <3>2 DEF ConnInv, DistinctFds
      <4> QED BY <1>7, <2>1, <3>2, <4>1 DEF RegisteredAtAll
    <3> QED BY <1>2, <1>10, <2>1, <3>1, <3>3, <3>4 DEF RegisteredAtAll
  <2> QED BY <2>2, <2>3
<1>12. ASSUME NEW d \in Connections, NEW k \in Loops PROVE RegisteredOn(k, d)'
  <2>1. RegisteredOn(k, d)
    BY <1>1 DEF ChannelsRegistered
  <2>2. UNCHANGED <<active, inside>>
    BY <1>2 DEF Calling
  <2>3. index[d] # "New" \/ d = c => index'[d] # "New"
    BY <1>7
  <2>4. d \in epoll'[k] => loopOf[d] = k /\ index'[d] = "Added"
    BY <1>4, <1>7, <2>1 DEF RegisteredOn
  <2>5. ASSUME NEW h \in Fds, channels'[k][h] = d PROVE channels[k][h] = d \/ (k = l /\ h = f /\ d = c)
    BY <1>7, <2>5
  <2> QED BY <1>2, <1>4, <2>1, <2>2, <2>3, <2>4, <2>5 DEF RegisteredOn
<1> QED BY <1>9, <1>11, <1>12 DEF ChannelsRegistered

\* Accepting: nothing refers to the connection yet, its descriptor is nobody's
\* and the pollers know nothing under it.
LEMMA AcceptKeeps ==
    ASSUME TypesInv, ConnInv, Next, Accept PROVE FunctorsSound' /\ ChannelsRegistered'
<1>0. PICK c, n : c = accepted + 1 /\ n = NextLoop
  OBVIOUS
<1>1. /\ LoopInv /\ LoopTypes /\ RoundStep /\ FunctorsSound /\ ChannelsRegistered
      /\ accepted \in Nat /\ c \in Connections /\ n \in Loops /\ Base \in Loops
  BY <1>0, NextIsRound, AcceptedStays, ServerAssumption DEF TypesInv, ConnInv, LoopInv
<1>2. PICK f \in Fds :
        /\ LowestFd(f)
        /\ accepted' = c
        /\ loopOf' = [loopOf EXCEPT ![c] = n]
        /\ fd' = [fd EXCEPT ![c] = f]
        /\ table' = table \cup {c}
        /\ IF n = Base
             THEN Established(Base, c, f) /\ UNCHANGED queueVars
             ELSE /\ QueueInLoop(Base, n, Functor("established", c, None))
                  /\ state' = [state EXCEPT ![c] = "Connecting"]
                  /\ UNCHANGED channelVars
  BY <1>0 DEF Accept
<1>3. /\ ~Referenced(c) /\ state[c] = "none" /\ index[c] = "New" /\ c \notin table
      /\ \A l \in Loops : /\ c \notin epoll[l] /\ c \notin active[l] /\ c # inside[l]
                          /\ \A h \in Fds : channels[l][h] # c
      /\ \A l \in Loops : \A g \in Uncalled(l) : g.conn # c
  <2>1. c > accepted
    BY <1>0, <1>1
  <2> QED BY <1>1, <2>1, NewIsUnknown
<1>4. /\ state  \in [Connections -> {"none", "Connecting", "Connected", "Disconnected"}]
      /\ index  \in [Connections -> {"New", "Added", "Deleted"}]
      /\ epoll  \in [Loops -> SUBSET (Connections \cup {Acceptor})]
      /\ channels \in [Loops -> [Fds -> Connections \cup {None}]]
      /\ loopOf \in [Connections -> Loops \cup {None}]
      /\ fd \in [Connections -> Fds \cup {0}]
  BY DEF TypesInv, ServerTypes, ChannelTypes, AcceptTypes
<1>5. \A l \in Loops : channels[l][f] = None
  <2>1. ASSUME NEW l \in Loops, channels[l][f] \in Connections PROVE FALSE
    <3> DEFINE d == channels[l][f]
    <3>1. fd[d] = f /\ Referenced(d)
      BY <1>1, <2>1, HeldIsReferenced DEF ChannelsRegistered, RegisteredOn, RegisteredAtAll
    <3>2. f \in UsedFds
      BY <2>1, <3>1 DEF UsedFds
    <3> QED BY <1>2, <3>2 DEF LowestFd
  <2> QED BY <1>2, <1>4, <2>1
<1>6. /\ loopOf'[c] = n /\ fd'[c] = f /\ UNCHANGED <<active, inside, called>>
      /\ \A d \in Connections \ {c} : loopOf'[d] = loopOf[d] /\ fd'[d] = fd[d]
  <2>1. UNCHANGED <<active, inside, called>>
    BY DEF Accept, roundVars
  <2> QED BY <1>1, <1>2, <1>4, <2>1
<1>7. /\ \/ n = Base /\ state'[c] = "Connected" /\ index'[c] = "Added" /\ c \in epoll'[n]
            /\ channels'[n][f] = c
         \/ state'[c] = "Connecting" /\ index'[c] = "New" /\ UNCHANGED <<epoll, channels>>
      /\ \A d \in Connections \ {c} : state'[d] = state[d] /\ index'[d] = index[d]
      /\ \A l \in Loops : \A d \in Connections \ {c} : d \in epoll'[l] <=> d \in epoll[l]
      /\ \A l \in Loops \ {n} : epoll'[l] = epoll[l] /\ channels'[l] = channels[l]
      /\ \A h \in Fds : h # f => channels'[n][h] = channels[n][h]
  <2>1. CASE n = Base
    <3>1. /\ state' = [state EXCEPT ![c] = "Connected"] /\ index' = [index EXCEPT ![c] = "Added"]
          /\ epoll' = [epoll EXCEPT ![n] = @ \cup {c}]
          /\ channels' = [channels EXCEPT ![n][f] = c]
      BY <1>1, <1>2, <1>5, <2>1 DEF Established
    <3>2. /\ state'[c] = "Connected" /\ index'[c] = "Added"
          /\ \A d \in Connections \ {c} : state'[d] = state[d] /\ index'[d] = index[d]
      BY <1>1, <1>4, <3>1
    <3>3. epoll'[n] = epoll[n] \cup {c} /\ \A k \in Loops \ {n} : epoll'[k] = epoll[k]
      BY <1>1, <1>4, <3>1
    <3>4. /\ channels'[n][f] = c
          /\ \A k \in Loops \ {n} : channels'[k] = channels[k]
          /\ \A h \in Fds : h # f => channels'[n][h] = channels[n][h]
      BY <1>1, <1>4, <3>1
    <3> QED BY <2>1, <3>2, <3>3, <3>4
  <2>2. CASE n # Base
    <3>1. state' = [state EXCEPT ![c] = "Connecting"] /\ UNCHANGED <<index, epoll, channels>>
      BY <1>2, <2>2 DEF channelVars
    <3> QED BY <1>1, <1>3, <1>4, <3>1
  <2> QED BY <2>1, <2>2
<1>8. FunctorsSound'
  <2> SUFFICES ASSUME NEW l \in Loops, NEW g \in Uncalled(l)' PROVE FunctorSound(l, g)'
    BY DEF FunctorsSound
  <2>1. CASE g \in Uncalled(l)
    <3>1. g.conn \in Connections /\ g.conn # c
      BY <1>3, <2>1, UncalledIsAccepted
    <3> QED BY <1>2, <1>7, <2>1, <3>1, SoundnessStays
  <2>2. CASE g \notin Uncalled(l)
    <3> DEFINE e == Functor("established", c, None)
    <3>1. PICK t : g \in FunctorSet /\ QueueInLoop(t, l, g)
      BY <1>1, <2>2, RoundUncalled
    <3>2. n # Base
      <4>1. CASE UNCHANGED pending
        BY <1>1, <3>1, <4>1, NoQueue
      <4> QED BY <1>2, <4>1 DEF queueVars
    <3>3. QueueInLoop(Base, n, e) /\ state' = [state EXCEPT ![c] = "Connecting"]
      BY <1>2, <3>2
    <3>4. l = n /\ g = e
      BY <1>1, <3>1, <3>3, FunctorIsTyped, QueueIsOne
    <3>5. g.do = "established" /\ g.conn = c
      BY <3>4 DEF Functor
    <3> QED BY <1>1, <1>2, <1>4, <1>6, <3>3, <3>4, <3>5 DEF FunctorSound
  <2> QED BY <2>1, <2>2
<1>9. ASSUME NEW d \in Connections, Held(d) \/ d = c PROVE Held(d)'
  <2>1. NoneDestroyed
    BY <1>1, <1>6, CallsNothing
  <2>2. Functor("destroyed", d, None).do = "destroyed"
    BY DEF Functor
  <2>3. \A k \in Loops : Calls(k) => NextFunctor(k) # Functor("destroyed", d, None)
    BY <2>1, <2>2 DEF NoneDestroyed
  <2>4. d \in table \/ d = c => Held(d)'
    BY <1>2 DEF Held
  <2> QED BY <1>1, <1>9, <2>3, <2>4, HeldStays
<1>10. ASSUME NEW d \in Connections PROVE RegisteredAtAll(d)'
  <2>1. RegisteredAtAll(d)
    BY <1>1 DEF ChannelsRegistered
  <2>2. CASE d = c
    <3>1. ~(c > accepted') /\ c \in table' /\ Held(c)'
      BY <1>1, <1>2, <1>9 DEF Connections
    <3> QED BY <1>6, <1>7, <2>2, <3>1 DEF RegisteredAtAll
  <2>3. CASE d # c
    <3>1. state'[d] = state[d] /\ index'[d] = index[d] /\ loopOf'[d] = loopOf[d] /\ fd'[d] = fd[d]
      BY <1>6, <1>7, <2>3
    <3>2. index[d] # "New" \/ state[d] = "Connected" => loopOf[d] \in Loops /\ Referenced(d) /\ fd[d] \in Fds
      BY <1>1, <2>1, HeldIsReferenced DEF RegisteredAtAll, ConnInv, Referred
    <3>3. state[d] = "Connected" => d \in epoll'[loopOf[d]]
      BY <1>7, <2>1, <2>3, <3>2 DEF RegisteredAtAll
    <3>4. index[d] # "New" => channels'[loopOf[d]][fd[d]] = d
      <4>1. index[d] # "New" => fd[d] # f
        BY <1>2, <3>2 DEF LowestFd, UsedFds
      <4> QED BY <1>7, <2>1, <3>2, <4>1 DEF RegisteredAtAll
    <3>5. d > accepted' <=> d > accepted
      BY <1>0, <1>1, <1>2, <2>3 DEF Connections
    <3> QED BY <1>2, <1>9, <2>1, <3>1, <3>3, <3>4, <3>5 DEF RegisteredAtAll
  <2> QED BY <2>2, <2>3
<1>11. ASSUME NEW d \in Connections, NEW k \in Loops PROVE RegisteredOn(k, d)'
  <2>1. RegisteredOn(k, d)
    BY <1>1 DEF ChannelsRegistered
  <2>2. CASE d = c
    <3>1. d \notin active'[k] /\ d # inside'[k]
      BY <1>3, <1>6, <2>2
    <3>2. d \in epoll'[k] => k = n /\ index'[d] = "Added"
      BY <1>3, <1>7, <2>2
    <3>3. ASSUME NEW h \in Fds, channels'[k][h] = d PROVE k = n /\ h = f /\ index'[d] = "Added"
      BY <1>3, <1>7, <2>2, <3>3
    <3> QED BY <1>6, <2>2, <3>1, <3>2, <3>3 DEF RegisteredOn
  <2>3. CASE d # c
    <3>1. index'[d] = index[d] /\ loopOf'[d] = loopOf[d] /\ fd'[d] = fd[d]
          /\ (d \in epoll'[k] <=> d \in epoll[k])
      BY <1>6, <1>7, <2>3
    <3>2. ASSUME NEW h \in Fds, channels'[k][h] = d PROVE channels[k][h] = d
      BY <1>7, <2>3, <3>2
    <3> QED BY <1>6, <2>1, <3>1, <3>2 DEF RegisteredOn
  <2> QED BY <2>2, <2>3
<1> QED BY <1>8, <1>10, <1>11 DEF ChannelsRegistered

\* So every step keeps the invariant of the connections.
LEMMA NextKeepsConnections ==
    ASSUME TypesInv, ConnInv, Next PROVE ConnInv'
<1>1. FunctorsSound' /\ ChannelsRegistered'
  BY NextKinds, QuietKeeps, ClosingKeeps, AcceptKeeps, RemoveKeeps, EstablishKeeps, DestroyKeeps
<1> QED BY <1>1, NextKeepsReferred, NextKeepsDistinctFds, NextKeepsEstablishedOnce DEF ConnInv

-----------------------------------------------------------------------------
(***************************************************************************)
(* The invariants of rounds and connections hold all the time.             *)
(***************************************************************************)

\* The server starts with nothing accepted, every loop about to poll.
LEMMA InitTypes == Init => TypesInv
<1> SUFFICES ASSUME Init PROVE TypesInv
  OBVIOUS
<1>1. ServerInit /\ LoopInit
  BY DEF Init, ServerInit
<1>2. << >> \in Seq(FunctorSet) /\ << >> \in Seq(Requests) /\ << >> \in Seq(Answers)
      /\ << >> \in Seq(Loops) /\ Len(<< >>) = 0
  BY EmptySeq
<1>3. LoopInv
  <2>1. LoopTypes
    BY <1>1, <1>2 DEF LoopInit, LoopTypes
  <2>2. Rounds
    <3>1. ASSUME NEW l \in Loops
          PROVE  /\ stage[l] = "functors" /\ active[l] = {} /\ inside[l] = None
                 /\ batch[l] = << >> /\ called[l] = 0
      BY <1>1 DEF LoopInit
    <3>2. ASSUME NEW l \in Loops PROVE called[l] <= Len(batch[l])
      <4>1. batch[l] = << >> /\ called[l] = 0 /\ Len(<< >>) = 0
        BY <3>1, EmptySeq
      <4>2. Len(batch[l]) = 0
        BY <4>1
      <4> QED BY <4>1, <4>2
    <3> QED BY <3>1, <3>2 DEF Rounds
  <2>3. Awake
    BY <1>1 DEF LoopInit, Awake
  <2> QED BY <2>1, <2>2, <2>3 DEF LoopInv
<1>4. AcceptTypes
  <2>1. PICK n \in 0 .. Len(IoLoops) : loops = SubSeq(IoLoops, 1, n)
    BY <1>1 DEF ServerInit
  <2>2. IoLoops \in Seq(Loops) /\ Len(IoLoops) \in Nat
    <3>1. IoLoops \in Seq(Loops \ {Base}) /\ Len(IoLoops) \in Nat
      BY ServerAssumption, LenProperties
    <3>2. \A i \in 1 .. Len(IoLoops) : IoLoops[i] \in Loops
      BY <3>1, ElementOfSeq
    <3> QED BY <3>1, <3>2
  <2>3. loops \in Seq(Loops) /\ (loops # << >> => 0 < Len(loops))
    <3>1. loops \in Seq(Loops)
      BY <2>1, <2>2
    <3> QED BY <3>1, EmptySeq, LenProperties
  <2>4. next = 0 /\ connected = 0 /\ accepted = 0 /\ table = {} /\ MaxConnections \in Nat
        /\ loopOf = [c \in Connections |-> None] /\ fd = [c \in Connections |-> 0]
    BY <1>1, ServerAssumption DEF ServerInit
  <2> QED BY <2>3, <2>4 DEF AcceptTypes
<1>5. ChannelTypes
  BY <1>1 DEF ServerInit, ChannelTypes
<1>6. PeerTypes
  BY <1>1, <1>2 DEF ServerInit, PeerTypes
<1>7. InputTypes
  BY <1>2, RpcServerAssumption DEF Init, InputTypes
<1>8. WorkTypes
  BY <1>2, RpcServerAssumption DEF Init, WorkTypes
<1>9. AnswerTypes
  BY <1>2 DEF Init, AnswerTypes
<1> QED BY <1>3, <1>4, <1>5, <1>6, <1>7, <1>8, <1>9 DEF TypesInv, ServerTypes, RequestTypes

\* Nobody refers to a connection then, and no functor is queued.
LEMMA InitConnections == Init => ConnInv
<1> SUFFICES ASSUME Init PROVE ConnInv
  OBVIOUS
<1>1. ServerInit /\ LoopInit
  BY DEF Init, ServerInit
<1>2. ASSUME NEW l \in Loops
      PROVE  /\ Uncalled(l) = {} /\ HeldBy(l) = {}
             /\ called[l] = 0 /\ Len(batch[l]) = 0 /\ Len(pending[l]) = 0
  <2>1. pending[l] = << >> /\ batch[l] = << >> /\ called[l] = 0 /\ Len(<< >>) = 0
    BY <1>1, EmptySeq DEF LoopInit
  <2> QED BY <2>1 DEF Uncalled, Rest, Pend, HeldBy
<1>3. Functors = {}
  BY <1>2 DEF Functors
<1>4. ASSUME NEW c \in Connections PROVE ~Referenced(c)
  <2>1. table = {} /\ \A w \in Workers : locked[w] # c
    BY <1>1, ChannelsAssumption DEF ServerInit
  <2> QED BY <1>3, <2>1 DEF Referenced
<1>5. EstablishedOnce
  BY <1>2 DEF EstablishedOnce
<1>6. FunctorsSound
  BY <1>2 DEF FunctorsSound
<1>7. Referred /\ DistinctFds
  BY <1>4 DEF Referred, DistinctFds
<1>8. ChannelsRegistered
  <2> SUFFICES ASSUME NEW c \in Connections PROVE RegisteredAtAll(c) /\ \A l \in Loops : RegisteredOn(l, c)
    BY DEF ChannelsRegistered
  <2>1. /\ state[c] = "none" /\ index[c] = "New" /\ accepted = 0 /\ c > accepted
        /\ c \notin {Acceptor, Wakeup, None}
    BY <1>1, ChannelsAssumption DEF ServerInit, Connections
  <2>2. RegisteredAtAll(c)
    BY <2>1 DEF RegisteredAtAll
  <2>3. ASSUME NEW l \in Loops PROVE RegisteredOn(l, c)
    <3>1. c \notin epoll[l] /\ c \notin active[l] /\ c # inside[l]
          /\ \A f \in Fds : channels[l][f] # c
      BY <1>1, <2>1 DEF ServerInit, LoopInit
    <3> QED BY <3>1 DEF RegisteredOn
  <2> QED BY <2>2, <2>3
<1> QED BY <1>5, <1>6, <1>7, <1>8 DEF ConnInv

\* Nothing is said of more than the variables.
LEMMA StutterKeepsInvariants ==
    ASSUME TypesInv, ConnInv, UNCHANGED vars PROVE TypesInv' /\ ConnInv'
<1>1. /\ UNCHANGED <<stage, active, inside, pending, batch, called, eventfd, waking>>
      /\ UNCHANGED <<loops, next, connected, accepted, loopOf, fd, index, epoll, channels, ready>>
      /\ UNCHANGED <<readable, fin, reset, table, state, locked>>
      /\ UNCHANGED <<inputs, todo, eof, step, received, queue, worker, task, code, answers>>
  BY DEF vars, queueVars, roundVars, serverVars, acceptVars, channelVars, peerVars, rpcVars,
         inputVars, workerVars
<1>2. LoopInv'
  BY <1>1 DEF TypesInv, LoopInv, LoopTypes, Rounds, Awake
<1>3. ServerTypes'
  BY <1>1 DEF TypesInv, ServerTypes, AcceptTypes, ChannelTypes, PeerTypes
<1>4. RequestTypes'
  BY <1>1 DEF TypesInv, RequestTypes, InputTypes, WorkTypes, AnswerTypes
<1>5. \A l \in Loops : Uncalled(l)' = Uncalled(l) /\ HeldBy(l)' = HeldBy(l)
  BY <1>1 DEF Uncalled, Rest, Pend, HeldBy, Polling, Free
<1>6. \A c \in Connections : Referenced(c)' = Referenced(c) /\ Held(c)' = Held(c)
  BY <1>1, <1>5 DEF Referenced, Functors, Held
<1>7. EstablishedOnce'
  BY <1>1 DEF ConnInv, EstablishedOnce
<1>8. FunctorsSound'
  BY <1>1, <1>5 DEF ConnInv, FunctorsSound, FunctorSound
<1>9. Referred' /\ DistinctFds'
  BY <1>1, <1>6 DEF ConnInv, Referred, DistinctFds
<1>10. ChannelsRegistered'
  BY <1>1, <1>6 DEF ConnInv, ChannelsRegistered, RegisteredAtAll, RegisteredOn
<1> QED BY <1>2, <1>3, <1>4, <1>7, <1>8, <1>9, <1>10 DEF TypesInv, ConnInv

\* The variables of the server have their types, a loop that calls functors
\* looks again if more are pending, and each connection is established once,
\* under a descriptor of its own, and registered only while it is held.
THEOREM ServerInvariant == Spec => [](TypesInv /\ ConnInv)
<1>1. Init => TypesInv /\ ConnInv
  BY InitTypes, InitConnections
<1>2. TypesInv /\ ConnInv /\ [Next]_vars => (TypesInv /\ ConnInv)'
  BY NextKeepsTypes, NextKeepsConnections, StutterKeepsInvariants
<1> QED BY <1>1, <1>2, PTL DEF Spec

\* queueInLoop wakes the loop when the functor is handed in from outside or
\* while it calls functors; no loop sleeps in its poll beside one that nobody
\* will wake it for.
THEOREM NoFunctorIsForgotten == Spec => []NoForgottenFunctor
<1>1. TypesInv => NoForgottenFunctor
  BY DEF TypesInv, LoopInv, Awake, NoForgottenFunctor, Polling
<1> QED BY <1>1, ServerInvariant, PTL

-----------------------------------------------------------------------------
(***************************************************************************)
(* The counters. A request that was counted is in the queue, or with the   *)
(* loop that posts it or the worker that handles it, or in the hand of a   *)
(* thread between two of the counters. A thread's place is the step of a   *)
(* loop or the pc of a worker: no name is both.                            *)
(***************************************************************************)
Occupying(P) == {w \in Workers : worker[w] \in P} \cup {l \in Loops : step[l] \in P}
Count(P)     == Cardinality(Occupying(P))

Busy    == {"handling", "post"}
Between == {"encoding", "handle", "reject"}

Counted == /\ total \in Nat /\ rejected \in Nat /\ succeeded \in Nat /\ failed \in Nat
           /\ size = Len(queue) + Count(Busy)
           /\ total = succeeded + failed + size + Count(Between)

\* What the size counts beside the queue, and the total beside what else does.
Beside == size - Len(queue)
Unseen == total - (succeeded + failed + size)

One(place, P) == IF place \in P THEN 1 ELSE 0

\* Threads are finitely many.
LEMMA OccupyingIsFinite ==
    ASSUME NEW P PROVE IsFiniteSet(Occupying(P)) /\ Count(P) \in Nat
<1>1. Occupying(P) \subseteq Threads
  BY DEF Occupying, Threads
<1> QED BY <1>1, RpcServerAssumption, FS_Subset, FS_CardinalityType DEF Count

\* When one thread goes from a place to another, the number of those at some
\* places changes by it alone.
LEMMA OneMoves ==
    ASSUME NEW P, NEW x, NEW from, NEW to,
           \A y : y # x => (y \in Occupying(P)' <=> y \in Occupying(P)),
           x \in Occupying(P) <=> from \in P,
           x \in Occupying(P)' <=> to \in P
    PROVE  /\ Count(P)' \in Nat /\ Count(P) \in Nat
           /\ Count(P)' + One(from, P) = Count(P) + One(to, P)
<1> DEFINE S == Occupying(P)
           T == Occupying(P)'
<1>1. IsFiniteSet(S) /\ Cardinality(S) \in Nat /\ Count(P) = Cardinality(S)
  BY OccupyingIsFinite DEF Count
<1>2. Count(P)' = Cardinality(T)
  BY DEF Count
<1>3. (from \in P <=> x \in S) /\ (to \in P <=> x \in T) /\ \A y : y # x => (y \in T <=> y \in S)
  OBVIOUS
<1> HIDE DEF S, T
<1>4. CASE x \in S /\ x \in T
  <2>1. T = S
    BY <1>3, <1>4
  <2> QED BY <1>1, <1>2, <1>3, <1>4, <2>1 DEF One
<1>5. CASE x \notin S /\ x \notin T
  <2>1. T = S
    BY <1>3, <1>5
  <2> QED BY <1>1, <1>2, <1>3, <1>5, <2>1 DEF One
<1>6. CASE x \notin S /\ x \in T
  <2>1. T = S \cup {x}
    BY <1>3, <1>6
  <2>2. Cardinality(T) = Cardinality(S) + 1
    BY <1>1, <1>6, <2>1, FS_AddElement
  <2> QED BY <1>1, <1>2, <1>3, <1>6, <2>2 DEF One
<1>7. CASE x \in S /\ x \notin T
  <2>1. T = S \ {x}
    BY <1>3, <1>7
  <2>2. Cardinality(T) = Cardinality(S) - 1 /\ Cardinality(T) \in Nat
    BY <1>1, <1>7, <2>1, FS_RemoveElement, FS_CardinalityType
  <2> QED BY <1>1, <1>2, <1>3, <1>7, <2>2 DEF One
<1> QED BY <1>4, <1>5, <1>6, <1>7

\* A loop goes to another step.
LEMMA LoopMoves ==
    ASSUME InputTypes, NEW P, NEW l \in Loops, NEW to,
           step' = [step EXCEPT ![l] = to], UNCHANGED worker
    PROVE  /\ Count(P)' \in Nat /\ Count(P) \in Nat
           /\ Count(P)' + One(step[l], P) = Count(P) + One(to, P)
<1>1. l \notin Workers /\ step'[l] = to /\ \A k \in Loops : k # l => step'[k] = step[k]
  BY ThreadsAssumption DEF InputTypes
<1>2. \A y : y # l => (y \in Occupying(P)' <=> y \in Occupying(P))
  BY <1>1 DEF Occupying
<1>3. (l \in Occupying(P) <=> step[l] \in P) /\ (l \in Occupying(P)' <=> to \in P)
  BY <1>1 DEF Occupying
<1> QED BY <1>2, <1>3, OneMoves

\* A worker goes to another place.
LEMMA WorkerMoves ==
    ASSUME WorkTypes, NEW P, NEW w \in Workers, NEW to,
           worker' = [worker EXCEPT ![w] = to], UNCHANGED step
    PROVE  /\ Count(P)' \in Nat /\ Count(P) \in Nat
           /\ Count(P)' + One(worker[w], P) = Count(P) + One(to, P)
<1>1. w \notin Loops /\ worker'[w] = to /\ \A v \in Workers : v # w => worker'[v] = worker[v]
  BY ThreadsAssumption DEF WorkTypes
<1>2. \A y : y # w => (y \in Occupying(P)' <=> y \in Occupying(P))
  BY <1>1 DEF Occupying
<1>3. (w \in Occupying(P) <=> worker[w] \in P) /\ (w \in Occupying(P)' <=> to \in P)
  BY <1>1 DEF Occupying
<1> QED BY <1>2, <1>3, OneMoves

\* The counters are numbers.
Numbers == /\ Len(queue) \in Nat /\ size \in Int /\ total \in Int
           /\ succeeded \in Nat /\ failed \in Nat /\ rejected \in Nat

\* The counters are exact when there are so many threads at two places.
LEMMA CountedBeside ==
    ASSUME Counted, Len(queue) \in Nat, Count(Busy) \in Nat, Count(Between) \in Nat
    PROVE  Beside = Count(Busy) /\ Unseen = Count(Between)
<1>1. size \in Nat /\ succeeded \in Nat /\ failed \in Nat
  BY DEF Counted
<1>2. size = Len(queue) + Count(Busy) /\ total = succeeded + failed + size + Count(Between)
  BY DEF Counted
<1>3. total = (succeeded + failed + size) + Count(Between)
  BY <1>1, <1>2
<1>4. total \in Nat
  BY <1>1, <1>3
<1> QED BY <1>1, <1>2, <1>3, <1>4 DEF Beside, Unseen

\* They are after a step that keeps that so.
LEMMA BesideCounts ==
    ASSUME Numbers', Count(Busy)' \in Nat, Count(Between)' \in Nat,
           Beside' = Count(Busy)', Unseen' = Count(Between)'
    PROVE  Counted'
<1>1. /\ Len(queue') \in Nat /\ size' \in Int /\ total' \in Int
      /\ succeeded' \in Nat /\ failed' \in Nat /\ rejected' \in Nat
  BY DEF Numbers
<1>2. size' - Len(queue') = Count(Busy)'
  BY DEF Beside
<1>3. total' - (succeeded' + failed' + size') = Count(Between)'
  BY DEF Unseen
<1>4. size' = Len(queue') + Count(Busy)'
  BY <1>1, <1>2
<1>5. size' \in Nat
  BY <1>1, <1>4
<1>6. total' = (succeeded' + failed' + size') + Count(Between)'
  <2>1. \A t, k, c \in Int : t - k = c => t = k + c
    OBVIOUS
  <2>2. \A a, b, c \in Int : a + b + c \in Int
    OBVIOUS
  <2>3. succeeded' + failed' + size' \in Int
    BY <1>1, <2>2
  <2> QED BY <1>1, <1>3, <2>1, <2>3
<1>7. total' \in Nat
  BY <1>1, <1>5, <1>6
<1> QED BY <1>1, <1>4, <1>6, <1>7 DEF Counted

\* A response counts as a success or as a failure.
LEMMA ResponseCounts ==
    ASSUME Numbers, NEW e, RecordResponse(e), UNCHANGED <<total, size>>
    PROVE  /\ succeeded' \in Nat /\ failed' \in Nat
           /\ Unseen' = Unseen - 1 /\ Unseen \in Int
<1>1. /\ succeeded \in Nat /\ failed \in Nat /\ total \in Int /\ size \in Int
      /\ total' = total /\ size' = size
  BY DEF Numbers
<1>2. CASE succeeded' = succeeded + 1 /\ failed' = failed
  <2>1. succeeded' \in Nat /\ failed' \in Nat
    BY <1>1, <1>2
  <2>2. Unseen = total - (succeeded + failed + size)
    BY DEF Unseen
  <2>3. Unseen' = total - ((succeeded + 1) + failed + size)
    BY <1>1, <1>2 DEF Unseen
  <2> QED BY <1>1, <2>1, <2>2, <2>3
<1>3. CASE failed' = failed + 1 /\ succeeded' = succeeded
  <2>1. succeeded' \in Nat /\ failed' \in Nat
    BY <1>1, <1>3
  <2>2. Unseen = total - (succeeded + failed + size)
    BY DEF Unseen
  <2>3. Unseen' = total - (succeeded + (failed + 1) + size)
    BY <1>1, <1>3 DEF Unseen
  <2> QED BY <1>1, <2>1, <2>2, <2>3
<1> QED BY <1>2, <1>3 DEF RecordResponse

\* And what they count beside each other is a number.
LEMMA NumbersBeside == ASSUME Numbers' PROVE Beside' \in Int /\ Unseen' \in Int
BY DEF Numbers, Beside, Unseen

\* A loop that goes to another step keeps the counters exact, if they change
\* with it.
LEMMA LoopKeepsCounted ==
    ASSUME TypesInv, Counted, NEW l \in Loops, NEW to,
           step' = [step EXCEPT ![l] = to], UNCHANGED worker,
           Numbers', Beside' + One(step[l], Busy) = Beside + One(to, Busy),
           Unseen' + One(step[l], Between) = Unseen + One(to, Between)
    PROVE  Counted'
<1>1. InputTypes /\ Len(queue) \in Nat
  BY LenProperties DEF TypesInv, RequestTypes, WorkTypes
<1>2. \A P : /\ Count(P)' \in Nat /\ Count(P) \in Nat
             /\ Count(P)' + One(step[l], P) = Count(P) + One(to, P)
  BY <1>1, LoopMoves
<1>3. \A P : One(step[l], P) \in Int /\ One(to, P) \in Int
  BY DEF One
<1>4. Beside = Count(Busy) /\ Unseen = Count(Between)
  BY <1>1, <1>2, CountedBeside
<1>5. Beside' \in Int /\ Unseen' \in Int
  BY NumbersBeside
<1>6. Beside' = Count(Busy)' /\ Unseen' = Count(Between)'
  BY <1>2, <1>3, <1>4, <1>5
<1> QED BY <1>2, <1>6, BesideCounts

\* So does a worker that goes to another place.
LEMMA WorkerKeepsCounted ==
    ASSUME TypesInv, Counted, NEW w \in Workers, NEW to,
           worker' = [worker EXCEPT ![w] = to], UNCHANGED step,
           Numbers', Beside' + One(worker[w], Busy) = Beside + One(to, Busy),
           Unseen' + One(worker[w], Between) = Unseen + One(to, Between)
    PROVE  Counted'
<1>1. WorkTypes /\ Len(queue) \in Nat
  BY LenProperties DEF TypesInv, RequestTypes, WorkTypes
<1>2. \A P : /\ Count(P)' \in Nat /\ Count(P) \in Nat
             /\ Count(P)' + One(worker[w], P) = Count(P) + One(to, P)
  BY <1>1, WorkerMoves
<1>3. \A P : One(worker[w], P) \in Int /\ One(to, P) \in Int
  BY DEF One
<1>4. Beside = Count(Busy) /\ Unseen = Count(Between)
  BY <1>1, <1>2, CountedBeside
<1>5. Beside' \in Int /\ Unseen' \in Int
  BY NumbersBeside
<1>6. Beside' = Count(Busy)' /\ Unseen' = Count(Between)'
  BY <1>2, <1>3, <1>4, <1>5
<1> QED BY <1>2, <1>6, BesideCounts

\* The counters stay exact with each step of a request on its loop.
LEMMA LoopStepKeepsCounted ==
    ASSUME TypesInv, Counted, NEW l \in Loops,
           \/ CountRequest(l) \/ Refuse(l) \/ Admit(l)
           \/ PostAccepted(l) \/ PostRejected(l) \/ AnswerRejected(l)
    PROVE  Counted'
<1>1. queue \in Seq(Requests) /\ Len(queue) \in Nat
  BY LenProperties DEF TypesInv, RequestTypes, WorkTypes
<1>2. total \in Nat /\ rejected \in Nat /\ succeeded \in Nat /\ failed \in Nat /\ size \in Int
  BY <1>1, OccupyingIsFinite DEF Counted
<1>3. \A p : One(p, Busy) = IF p \in {"handling", "post"} THEN 1 ELSE 0
  BY DEF One, Busy
<1>4. \A p : One(p, Between) = IF p \in {"encoding", "handle", "reject"} THEN 1 ELSE 0
  BY DEF One, Between
<1>5. CASE CountRequest(l)
  <2>1. /\ step[l] = "decode" /\ step' = [step EXCEPT ![l] = "handle"] /\ total' = total + 1
        /\ UNCHANGED <<size, rejected, succeeded, failed, queue, worker>>
    BY <1>5 DEF CountRequest, At, workerVars, responseVars
  <2>2. /\ One("handle", Busy) = 0 /\ One(step[l], Busy) = 0
        /\ One("handle", Between) = 1 /\ One(step[l], Between) = 0
    BY <1>3, <1>4, <2>1
  <2>3. /\ Numbers' /\ Beside' + One(step[l], Busy) = Beside + One("handle", Busy)
        /\ Unseen' + One(step[l], Between) = Unseen + One("handle", Between)
    BY <1>1, <1>2, <2>1, <2>2 DEF Numbers, Beside, Unseen
  <2> QED BY <2>1, <2>3, LoopKeepsCounted
<1>6. CASE Refuse(l) \/ AnswerRejected(l)
  <2>1. PICK e : RecordResponse(e)
    BY <1>6 DEF Refuse, AnswerRejected, SendError
  <2>2. /\ step[l] \in {"handle", "reject"} /\ step' = [step EXCEPT ![l] = "decode"]
        /\ UNCHANGED <<total, size, rejected, queue, worker>>
    BY <1>6 DEF Refuse, AnswerRejected, At, SendError, RequestHandled, workerVars
  <2>3. /\ succeeded' \in Nat /\ failed' \in Nat
        /\ Unseen' = Unseen - 1 /\ Unseen \in Int
    <3>1. Numbers
      BY <1>1, <1>2 DEF Numbers
    <3> QED BY <2>1, <2>2, <3>1, ResponseCounts
  <2>4. /\ One("decode", Busy) = 0 /\ One(step[l], Busy) = 0
        /\ One("decode", Between) = 0 /\ One(step[l], Between) = 1
    BY <1>3, <1>4, <2>2
  <2>5. /\ Numbers' /\ Beside' + One(step[l], Busy) = Beside + One("decode", Busy)
        /\ Unseen' + One(step[l], Between) = Unseen + One("decode", Between)
    <3>1. Numbers' /\ Beside' = Beside /\ Beside \in Int
      BY <1>1, <1>2, <2>2, <2>3 DEF Numbers, Beside
    <3>2. Beside' + One(step[l], Busy) = Beside + One("decode", Busy)
      BY <2>4, <3>1
    <3>3. Unseen' + One(step[l], Between) = Unseen + One("decode", Between)
      BY <2>3, <2>4
    <3> QED BY <3>1, <3>2, <3>3
  <2> QED BY <2>2, <2>5, LoopKeepsCounted
<1>7. CASE Admit(l)
  <2>1. /\ step[l] = "handle" /\ step' = [step EXCEPT ![l] = "post"] /\ size' = size + 1
        /\ UNCHANGED <<total, rejected, succeeded, failed, queue, worker>>
    BY <1>7 DEF Admit, AdmitCounting, At, workerVars, responseVars
  <2>2. /\ One("post", Busy) = 1 /\ One(step[l], Busy) = 0
        /\ One("post", Between) = 0 /\ One(step[l], Between) = 1
    BY <1>3, <1>4, <2>1
  <2>3. /\ Numbers' /\ Beside' + One(step[l], Busy) = Beside + One("post", Busy)
        /\ Unseen' + One(step[l], Between) = Unseen + One("post", Between)
    BY <1>1, <1>2, <2>1, <2>2 DEF Numbers, Beside, Unseen
  <2> QED BY <2>1, <2>3, LoopKeepsCounted
<1>8. CASE PostAccepted(l)
  <2>1. PICK c \in Connections :
          /\ At(l, c, "post") /\ queue' = Append(queue, Head(todo[l])) /\ RequestHandled(l)
          /\ UNCHANGED <<worker, metricVars>>
    BY <1>8 DEF PostAccepted
  <2>2. /\ step[l] = "post" /\ step' = [step EXCEPT ![l] = "decode"]
        /\ UNCHANGED <<total, size, rejected, succeeded, failed, worker>>
    BY <2>1 DEF At, RequestHandled, metricVars, responseVars
  <2>3. Len(queue') = Len(queue) + 1
    BY <1>1, <2>1
  <2>4. /\ One("decode", Busy) = 0 /\ One(step[l], Busy) = 1
        /\ One("decode", Between) = 0 /\ One(step[l], Between) = 0
    BY <1>3, <1>4, <2>2
  <2>5. /\ Numbers' /\ Beside' + One(step[l], Busy) = Beside + One("decode", Busy)
        /\ Unseen' + One(step[l], Between) = Unseen + One("decode", Between)
    BY <1>1, <1>2, <2>2, <2>3, <2>4 DEF Numbers, Beside, Unseen
  <2> QED BY <2>2, <2>5, LoopKeepsCounted
<1>9. CASE PostRejected(l)
  <2>1. /\ step[l] = "post" /\ step' = [step EXCEPT ![l] = "reject"]
        /\ size' = size - 1 /\ rejected' = rejected + 1
        /\ UNCHANGED <<total, succeeded, failed, queue, worker>>
    BY <1>9 DEF PostRejected, At, workerVars, responseVars
  <2>2. /\ One("reject", Busy) = 0 /\ One(step[l], Busy) = 1
        /\ One("reject", Between) = 1 /\ One(step[l], Between) = 0
    BY <1>3, <1>4, <2>1
  <2>3. /\ Numbers' /\ Beside' + One(step[l], Busy) = Beside + One("reject", Busy)
        /\ Unseen' + One(step[l], Between) = Unseen + One("reject", Between)
    BY <1>1, <1>2, <2>1, <2>2 DEF Numbers, Beside, Unseen
  <2> QED BY <2>1, <2>3, LoopKeepsCounted
<1> QED BY <1>5, <1>6, <1>7, <1>8, <1>9

\* And with each step of a worker.
LEMMA WorkerStepKeepsCounted ==
    ASSUME TypesInv, Counted, NEW w \in Workers, WorkerStep(w) PROVE Counted'
<1>1. queue \in Seq(Requests) /\ Len(queue) \in Nat
  BY LenProperties DEF TypesInv, RequestTypes, WorkTypes
<1>2. total \in Nat /\ rejected \in Nat /\ succeeded \in Nat /\ failed \in Nat /\ size \in Int
  BY <1>1, OccupyingIsFinite DEF Counted
<1>3. \A p : One(p, Busy) = IF p \in {"handling", "post"} THEN 1 ELSE 0
  BY DEF One, Busy
<1>4. \A p : One(p, Between) = IF p \in {"encoding", "handle", "reject"} THEN 1 ELSE 0
  BY DEF One, Between
<1>5. CASE Take(w)
  <2>1. /\ worker[w] = "idle" /\ worker' = [worker EXCEPT ![w] = "handling"] /\ UNCHANGED step
        /\ queue # << >> /\ queue' = Tail(queue)
        /\ UNCHANGED <<total, size, rejected, succeeded, failed>>
    BY <1>5 DEF Take, WorkerGoes, inputVars, responseVars
  <2>2. Len(queue') = Len(queue) - 1 /\ Len(queue') \in Nat
    BY <1>1, <2>1
  <2>3. /\ One("handling", Busy) = 1 /\ One(worker[w], Busy) = 0
        /\ One("handling", Between) = 0 /\ One(worker[w], Between) = 0
    BY <1>3, <1>4, <2>1
  <2>4. /\ Numbers' /\ Beside' + One(worker[w], Busy) = Beside + One("handling", Busy)
        /\ Unseen' + One(worker[w], Between) = Unseen + One("handling", Between)
    BY <1>1, <1>2, <2>1, <2>2, <2>3 DEF Numbers, Beside, Unseen
  <2> QED BY <2>1, <2>4, WorkerKeepsCounted
<1>6. CASE HandlerEnds(w)
  <2>1. /\ worker[w] = "handling" /\ worker' = [worker EXCEPT ![w] = "encoding"] /\ UNCHANGED step
        /\ size' = size - 1 /\ UNCHANGED <<total, rejected, succeeded, failed, queue>>
    BY <1>6 DEF HandlerEnds, WorkerGoes, inputVars, responseVars
  <2>2. /\ One("encoding", Busy) = 0 /\ One(worker[w], Busy) = 1
        /\ One("encoding", Between) = 1 /\ One(worker[w], Between) = 0
    BY <1>3, <1>4, <2>1
  <2>3. /\ Numbers' /\ Beside' + One(worker[w], Busy) = Beside + One("encoding", Busy)
        /\ Unseen' + One(worker[w], Between) = Unseen + One("encoding", Between)
    BY <1>1, <1>2, <2>1, <2>2 DEF Numbers, Beside, Unseen
  <2> QED BY <2>1, <2>3, WorkerKeepsCounted
<1>7. CASE RecordAnswer(w)
  <2>1. PICK e : RecordResponse(e)
    BY <1>7 DEF RecordAnswer
  <2>2. /\ worker[w] = "encoding" /\ worker' = [worker EXCEPT ![w] = "sending"] /\ UNCHANGED step
        /\ UNCHANGED <<total, size, rejected, queue>>
    BY <1>7 DEF RecordAnswer, WorkerGoes, inputVars
  <2>3. /\ succeeded' \in Nat /\ failed' \in Nat
        /\ Unseen' = Unseen - 1 /\ Unseen \in Int
    <3>1. Numbers
      BY <1>1, <1>2 DEF Numbers
    <3> QED BY <2>1, <2>2, <3>1, ResponseCounts
  <2>4. /\ One("sending", Busy) = 0 /\ One(worker[w], Busy) = 0
        /\ One("sending", Between) = 0 /\ One(worker[w], Between) = 1
    BY <1>3, <1>4, <2>2
  <2>5. /\ Numbers' /\ Beside' + One(worker[w], Busy) = Beside + One("sending", Busy)
        /\ Unseen' + One(worker[w], Between) = Unseen + One("sending", Between)
    <3>1. Numbers' /\ Beside' = Beside /\ Beside \in Int
      BY <1>1, <1>2, <2>2, <2>3 DEF Numbers, Beside
    <3>2. Beside' + One(worker[w], Busy) = Beside + One("sending", Busy)
      BY <2>4, <3>1
    <3>3. Unseen' + One(worker[w], Between) = Unseen + One("sending", Between)
      BY <2>3, <2>4
    <3> QED BY <3>1, <3>2, <3>3
  <2> QED BY <2>2, <2>5, WorkerKeepsCounted
<1>8. CASE Send(w) \/ WakeLoop(w) \/ NobodyToTell(w)
  <2>1. PICK from \in {"sending", "waking"}, to \in {"idle", "waking"} : WorkerGoes(w, from, to)
    BY <1>8 DEF Send, WakeLoop, NobodyToTell
  <2>2. /\ worker[w] = from /\ worker' = [worker EXCEPT ![w] = to]
        /\ UNCHANGED <<step, total, rejected>>
    BY <2>1 DEF WorkerGoes, inputVars
  <2>3. UNCHANGED <<queue, size, succeeded, failed>>
    BY <1>8 DEF Send, WakeLoop, NobodyToTell, TaskEnds, responseVars
  <2>4. /\ One(to, Busy) = 0 /\ One(worker[w], Busy) = 0
        /\ One(to, Between) = 0 /\ One(worker[w], Between) = 0
    BY <1>3, <1>4, <2>2
  <2>5. /\ Numbers' /\ Beside' + One(worker[w], Busy) = Beside + One(to, Busy)
        /\ Unseen' + One(worker[w], Between) = Unseen + One(to, Between)
    BY <1>1, <1>2, <2>2, <2>3, <2>4 DEF Numbers, Beside, Unseen
  <2> QED BY <2>2, <2>5, WorkerKeepsCounted
<1> QED BY <1>5, <1>6, <1>7, <1>8 DEF WorkerStep

\* Nothing else touches them.
LEMMA NextKeepsCounted ==
    ASSUME TypesInv, Counted, Next PROVE Counted'
<1>1. ASSUME UNCHANGED <<metricVars, queue, worker, step>> PROVE Counted'
  BY <1>1 DEF Counted, Count, Occupying, metricVars, responseVars
<1>2. CASE Input
  BY <1>1, <1>2 DEF Input, PeerActs, workerVars
<1>3. ASSUME NEW l \in Loops, LoopStep(l) PROVE Counted'
  <2>1. CASE UNCHANGED rpcVars \/ ReadEvent(l) \/ CloseEvent(l) \/ ReadEnds(l) \/ CallSend(l)
             \/ DecodeFails(l)
    BY <1>1, <2>1 DEF rpcVars, inputVars, workerVars, ReadEvent, CloseEvent, ReadEnds, CallSend,
                      DecodeFails
  <2> QED BY <1>3, <2>1, LoopStepKeepsCounted DEF LoopStep
<1> QED BY <1>2, <1>3, WorkerStepKeepsCounted DEF Next

-----------------------------------------------------------------------------
(***************************************************************************)
(* The answers, each counted under its code before it can be seen: of      *)
(* those recorded with a code, some were written, some are functors of a   *)
(* loop, and some are with workers about to send them. The functors that   *)
(* are to be called are numbered through the batch and the pending ones.   *)
(***************************************************************************)
Place(l, i) == IF i <= Len(batch[l]) THEN batch[l][i] ELSE pending[l][i - Len(batch[l])]

Last(l)   == Len(batch[l]) + Len(pending[l])
Places(l) == called[l] + 1 .. Last(l)

Sends(f, A) == f.do = "send" /\ f.arg \in A

Posted(A) == {p \in Loops \X Nat : p[2] \in Places(p[1]) /\ Sends(Place(p[1], p[2]), A)}

\* The answers with a code.
Coded(e) == {a \in Answers : a.code = e}

Sending(e) == {w \in Workers : worker[w] = "sending" /\ code[w] = e}

\* Each is recorded: of each code there are at least so many.
Answered(e) == Cardinality(Written(e)) + Cardinality(Posted(Coded(e))) + Cardinality(Sending(e))

CodesRecorded ==
    /\ recorded \in [Codes -> Nat]
    /\ \A e \in Codes : /\ IsFiniteSet(Written(e)) /\ IsFiniteSet(Posted(Coded(e)))
                        /\ Answered(e) <= recorded[e]

\* The workers about to send are finitely many.
LEMMA SendingIsFinite ==
    ASSUME NEW e PROVE IsFiniteSet(Sending(e)) /\ Cardinality(Sending(e)) \in Nat
<1>1. Sending(e) \subseteq Threads
  BY DEF Sending, Threads
<1> QED BY <1>1, RpcServerAssumption, FS_Subset, FS_CardinalityType

\* A set that gains one element at most, loses one, or has its elements
\* renumbered.
LEMMA OneMore ==
    ASSUME NEW S, IsFiniteSet(S), NEW x, NEW T \in SUBSET (S \cup {x})
    PROVE  /\ IsFiniteSet(T) /\ Cardinality(T) \in Nat /\ Cardinality(S) \in Nat
           /\ Cardinality(T) <= Cardinality(S) + 1
<1> DEFINE U == S \cup {x}
<1>1. IsFiniteSet(U) /\ Cardinality(U) = IF x \in S THEN Cardinality(S) ELSE Cardinality(S) + 1
  BY FS_AddElement
<1>2. Cardinality(S) \in Nat /\ Cardinality(U) \in Nat
  BY <1>1, FS_CardinalityType
<1>3. IsFiniteSet(T) /\ Cardinality(T) <= Cardinality(U)
  BY <1>1, FS_Subset
<1>4. Cardinality(T) \in Nat
  BY <1>3, FS_CardinalityType
<1> HIDE DEF U
<1> QED BY <1>1, <1>2, <1>3, <1>4

\* None.
LEMMA NoMore ==
    ASSUME NEW S, IsFiniteSet(S), NEW T \in SUBSET S
    PROVE  /\ IsFiniteSet(T) /\ Cardinality(T) \in Nat /\ Cardinality(S) \in Nat
           /\ Cardinality(T) <= Cardinality(S)
BY FS_Subset, FS_CardinalityType

\* One fewer.
LEMMA OneLess ==
    ASSUME NEW S, IsFiniteSet(S), NEW x \in S, NEW T \in SUBSET (S \ {x})
    PROVE  /\ IsFiniteSet(T) /\ Cardinality(T) \in Nat /\ Cardinality(S) \in Nat
           /\ Cardinality(T) + 1 <= Cardinality(S)
<1> DEFINE U == S \ {x}
<1>1. IsFiniteSet(U) /\ Cardinality(U) = Cardinality(S) - 1
  BY FS_RemoveElement
<1>2. Cardinality(S) \in Nat
  BY FS_CardinalityType
<1> HIDE DEF U
<1>3. IsFiniteSet(T) /\ Cardinality(T) \in Nat /\ Cardinality(T) <= Cardinality(U)
  BY <1>1, NoMore DEF U
<1> QED BY <1>1, <1>2, <1>3

\* What an answer that is written, or not, adds to those of its code.
LEMMA SendWrites ==
    ASSUME AnswerTypes, NEW l, NEW c \in Connections, NEW a \in Answers,
           SendInLoop(l, c, a), NEW e, IsFiniteSet(Written(e))
    PROVE  /\ IsFiniteSet(Written(e)')
           /\ Cardinality(Written(e)') <= Cardinality(Written(e)) + (IF a.code = e THEN 1 ELSE 0)
<1>0. Cardinality(Written(e)) \in Nat
  BY FS_CardinalityType
<1>1. CASE UNCHANGED answers
  <2>1. Written(e)' = Written(e)
    BY <1>1 DEF Written
  <2> QED BY <1>0, <2>1
<1>2. CASE answers' = [answers EXCEPT ![c] = Append(@, a)]
  <2> DEFINE n == Len(answers[c]) + 1
             x == <<c, n>>
  <2>1. /\ answers[c] \in Seq(Answers) /\ Len(answers[c]) \in Nat
        /\ answers'[c] = Append(answers[c], a)
        /\ \A d \in Connections : d # c => answers'[d] = answers[d]
    BY <1>2 DEF AnswerTypes
  <2>2. /\ Len(answers'[c]) = n /\ answers'[c][n] = a
        /\ \A i \in 1 .. Len(answers[c]) : answers'[c][i] = answers[c][i]
    BY <2>1, AppendProperties
  <2>3. \A i : i \in 1 .. n <=> i \in 1 .. Len(answers[c]) \/ i = n
    BY <2>1
  <2>4. \A d, i : <<d, i>> \in Written(e) <=>
          d \in Connections /\ i \in 1 .. Len(answers[d]) /\ answers[d][i].code = e
    BY DEF Written
  <2>5. \A d, i : <<d, i>> \in Written(e)' <=>
          d \in Connections /\ i \in 1 .. Len(answers'[d]) /\ answers'[d][i].code = e
    BY DEF Written
  <2>6. \A p \in Written(e)' : \E d, i : p = <<d, i>>
    BY DEF Written
  <2>7. ASSUME NEW p \in Written(e)' PROVE p \in Written(e) \/ (p = x /\ a.code = e)
    <3>1. PICK d, i : p = <<d, i>>
      BY <2>6
    <3>2. d \in Connections /\ i \in 1 .. Len(answers'[d]) /\ answers'[d][i].code = e
      BY <2>5, <3>1
    <3>3. CASE d # c
      BY <2>1, <2>4, <3>1, <3>2, <3>3
    <3>4. CASE d = c
      BY <2>2, <2>3, <2>4, <3>1, <3>2, <3>4
    <3> QED BY <3>3, <3>4
  <2>8. CASE a.code = e
    <3>1. Written(e)' \in SUBSET (Written(e) \cup {x})
      BY <2>7
    <3> QED BY <2>8, <3>1, OneMore
  <2>9. CASE a.code # e
    <3>1. Written(e)' \in SUBSET Written(e)
      BY <2>7, <2>9
    <3>2. IsFiniteSet(Written(e)') /\ Cardinality(Written(e)') <= Cardinality(Written(e))
      BY <3>1, NoMore
    <3> QED BY <1>0, <2>9, <3>1, <3>2, NoMore
  <2> QED BY <2>8, <2>9
<1> QED BY <1>1, <1>2 DEF SendInLoop, Write

\* The same elements under other numbers.
LEMMA Renumbered ==
    ASSUME NEW S, IsFiniteSet(S), NEW T, NEW g \in [T -> S],
           \A a, b \in T : g[a] = g[b] => a = b
    PROVE  /\ IsFiniteSet(T) /\ Cardinality(T) \in Nat /\ Cardinality(S) \in Nat
           /\ Cardinality(T) <= Cardinality(S)
<1>1. g \in Injection(T, S)
  BY DEF Injection, IsInjective
<1>2. IsFiniteSet(T) /\ Cardinality(T) <= Cardinality(S)
  BY <1>1, FS_Injection
<1> QED BY <1>2, FS_CardinalityType

\* Where a functor that is queued is placed.
LEMMA QueuePlaces ==
    ASSUME LoopTypes, NEW t, NEW k \in Loops, NEW f \in FunctorSet, QueueInLoop(t, k, f),
           UNCHANGED batch, NEW l \in Loops, NEW i \in Nat, i <= Last(l)'
    PROVE  \/ i <= Last(l) /\ Place(l, i)' = Place(l, i)
           \/ l = k /\ i = Last(l) + 1 /\ Place(l, i)' = f
<1>1. /\ pending' = [pending EXCEPT ![k] = Append(@, f)]
      /\ pending[l] \in Seq(FunctorSet) /\ Len(pending[l]) \in Nat
      /\ Len(batch[l]) \in Nat /\ pending \in [Loops -> Seq(FunctorSet)]
  BY DEF QueueInLoop, QueueWaking, LoopTypes
<1>2. PICK m \in Nat, n \in Nat : m = Len(batch[l]) /\ n = Len(pending[l])
  BY <1>1
<1>3. Last(l) = m + n /\ Last(l)' = m + Len(pending'[l])
  BY <1>2 DEF Last
<1>4. CASE l # k
  <2>1. pending'[l] = pending[l]
    BY <1>1, <1>4
  <2>2. i <= m + n
    BY <1>2, <1>3, <2>1
  <2> QED BY <1>3, <2>1, <2>2 DEF Place
<1>5. CASE l = k
  <2>1. /\ Len(pending'[l]) = n + 1 /\ pending'[l][n + 1] = f
        /\ \A j \in 1 .. n : pending'[l][j] = pending[l][j]
    BY <1>1, <1>2, <1>5, AppendProperties
  <2>2. i <= m + (n + 1)
    BY <1>3, <2>1
  <2>3. CASE i <= m
    <3>1. i <= m + n
      BY <2>3
    <3>2. Place(l, i)' = Place(l, i)
      BY <1>2, <2>3 DEF Place
    <3> QED BY <1>3, <3>1, <3>2
  <2>4. CASE i > m /\ i <= m + n
    <3>1. i - m \in 1 .. n /\ ~(i <= m)
      BY <2>4
    <3>2. Place(l, i)' = pending'[l][i - m] /\ Place(l, i) = pending[l][i - m]
      BY <1>2, <3>1 DEF Place
    <3> QED BY <1>3, <2>1, <2>4, <3>1, <3>2
  <2>5. CASE i > m + n
    <3>1. i - m = n + 1 /\ ~(i <= m)
      BY <2>2, <2>5
    <3>2. Place(l, i)' = pending'[l][i - m]
      BY <1>2, <3>1 DEF Place
    <3>3. i = (m + n) + 1
      BY <2>2, <2>5
    <3> QED BY <1>3, <1>5, <2>1, <3>1, <3>2, <3>3
  <2> QED BY <2>3, <2>4, <2>5
<1> QED BY <1>4, <1>5

\* Queueing places no other functor than the one queued, calling takes the
\* next one away.
LEMMA QueuePosts ==
    ASSUME LoopTypes, UNCHANGED batch, NEW A,
           \A l \in Loops : called'[l] \in Nat /\ called[l] <= called'[l],
           \/ UNCHANGED pending
           \/ \E t : \E k \in Loops, f \in FunctorSet : QueueInLoop(t, k, f) /\ ~Sends(f, A),
           NEW p \in Posted(A)'
    PROVE  p \in Posted(A) /\ called'[p[1]] < p[2]
<1>1. PICK l \in Loops, i \in Nat : p = <<l, i>>
  BY DEF Posted
<1>2. i \in Places(l)' /\ Sends(Place(l, i)', A)
  BY <1>1 DEF Posted
<1>3. PICK q \in Nat, r \in Nat : q = called[l] /\ r = called'[l] /\ q <= r
  BY <1>1 DEF LoopTypes
<1>4. PICK z \in Int : z = Last(l)
  BY <1>1 DEF LoopTypes, Last
<1>5. ASSUME NEW t, NEW k \in Loops, NEW f \in FunctorSet, QueueInLoop(t, k, f)
      PROVE  pending'[l] \in Seq(FunctorSet)
  BY <1>1, <1>5 DEF QueueInLoop, QueueWaking, LoopTypes
<1>6. pending'[l] \in Seq(FunctorSet)
  BY <1>1, <1>5 DEF LoopTypes
<1>7. PICK y \in Int : y = Last(l)'
  BY <1>1, <1>6 DEF LoopTypes, Last
<1>8. i \in r + 1 .. y
  BY <1>2, <1>3, <1>7 DEF Places
<1>9. r < i /\ i <= y /\ q < i
  BY <1>1, <1>3, <1>7, <1>8
<1>10. i <= Last(l) /\ Place(l, i)' = Place(l, i)
  <2>1. CASE UNCHANGED pending
    BY <1>7, <1>9, <2>1 DEF Place, Last
  <2>2. ASSUME NEW t, NEW k \in Loops, NEW f \in FunctorSet, QueueInLoop(t, k, f), ~Sends(f, A)
        PROVE  i <= Last(l) /\ Place(l, i)' = Place(l, i)
    <3>1. i <= Last(l)' /\ Place(l, i)' # f
      BY <1>2, <1>7, <1>9, <2>2
    <3> QED BY <1>1, <2>2, <3>1, QueuePlaces
  <2> QED BY <2>1, <2>2
<1>11. i \in q + 1 .. z
  BY <1>1, <1>3, <1>4, <1>9, <1>10
<1>12. i \in Places(l) /\ Sends(Place(l, i), A)
  BY <1>2, <1>3, <1>4, <1>10, <1>11 DEF Places
<1> QED BY <1>1, <1>3, <1>9, <1>12 DEF Posted

\* A poll drops the functors that were called, and numbers those that are
\* pending anew.
LEMMA PollPosts ==
    ASSUME LoopTypes, NEW k \in Loops, NEW others, Poll(k, others), NEW A, IsFiniteSet(Posted(A))
    PROVE  /\ IsFiniteSet(Posted(A)') /\ Cardinality(Posted(A)') \in Nat
           /\ Cardinality(Posted(A)') <= Cardinality(Posted(A))
<1>1. /\ batch' = [batch EXCEPT ![k] = << >>] /\ called' = [called EXCEPT ![k] = 0]
      /\ UNCHANGED pending /\ called[k] = Len(batch[k])
  BY DEF Poll, Polling, queueVars
<1>2. PICK n \in Nat, m \in Nat : n = Len(batch[k]) /\ m = Len(pending[k])
  BY DEF LoopTypes
<1> DEFINE T == Posted(A)'
           g == [p \in T |-> IF p[1] = k THEN <<k, p[2] + n>> ELSE p]
<1>3. ASSUME NEW l \in Loops, NEW i \in Nat, <<l, i>> \in T
      PROVE  IF l = k THEN <<k, i + n>> \in Posted(A) ELSE <<l, i>> \in Posted(A)
  <2>1. i \in Places(l)' /\ Sends(Place(l, i)', A)
    BY <1>3 DEF Posted
  <2>2. CASE l # k
    <3>1. batch'[l] = batch[l] /\ called'[l] = called[l] /\ pending'[l] = pending[l]
      BY <1>1, <2>2 DEF LoopTypes
    <3>2. Places(l)' = Places(l) /\ Place(l, i)' = Place(l, i)
      BY <3>1 DEF Places, Place, Last
    <3> QED BY <2>1, <2>2, <3>2 DEF Posted
  <2>3. CASE l = k
    <3>1. batch'[k] = << >> /\ called'[k] = 0 /\ pending'[k] = pending[k]
      BY <1>1 DEF LoopTypes
    <3>2. Len(batch'[k]) = 0
      BY <3>1, EmptySeq
    <3>3. Last(k)' = 0 + m
      BY <1>2, <3>1, <3>2 DEF Last
    <3>4. i \in 1 .. m
      BY <2>1, <2>3, <3>1, <3>3 DEF Places
    <3>5. Place(k, i)' = pending[k][i]
      <4>1. ~(i <= 0) /\ i - 0 = i
        BY <3>4
      <4> QED BY <3>1, <3>2, <4>1 DEF Place
    <3>6. i + n \in n + 1 .. n + m /\ ~(i + n <= n) /\ (i + n) - n = i /\ i + n \in Nat
      BY <3>4
    <3>7. Places(k) = n + 1 .. n + m
      BY <1>1, <1>2 DEF Places, Last
    <3>8. Place(k, i + n) = pending[k][i]
      BY <1>2, <3>6 DEF Place
    <3> QED BY <2>1, <2>3, <3>5, <3>6, <3>7, <3>8 DEF Posted
  <2> QED BY <2>2, <2>3
<1>4. \A p \in T : p \in Loops \X Nat
  BY DEF Posted
<1>5. g \in [T -> Posted(A)]
  <2>1. ASSUME NEW p \in T PROVE (IF p[1] = k THEN <<k, p[2] + n>> ELSE p) \in Posted(A)
    <3>1. PICK l \in Loops, i \in Nat : p = <<l, i>>
      BY <1>4, <2>1
    <3> QED BY <1>3, <2>1, <3>1
  <2> QED BY <2>1
<1>6. ASSUME NEW a \in T, NEW b \in T, g[a] = g[b] PROVE a = b
  <2>1. PICK l1 \in Loops, i1 \in Nat, l2 \in Loops, i2 \in Nat : a = <<l1, i1>> /\ b = <<l2, i2>>
    BY <1>4, <1>6
  <2>2. /\ g[a] = IF l1 = k THEN <<k, i1 + n>> ELSE a
        /\ g[b] = IF l2 = k THEN <<k, i2 + n>> ELSE b
    BY <1>6, <2>1
  <2>3. i1 + n = i2 + n => i1 = i2
    BY <1>2, <2>1
  <2> QED BY <1>6, <2>1, <2>2, <2>3
<1> HIDE DEF T, g
<1>7. /\ IsFiniteSet(T) /\ Cardinality(T) \in Nat /\ Cardinality(T) <= Cardinality(Posted(A))
  BY <1>5, <1>6, Renumbered
<1> QED BY <1>7 DEF T

\* The functors a loop takes keep their numbers.
LEMMA SwapPosts ==
    ASSUME LoopInv, NEW k \in Loops, SwapFunctors(k), NEW A
    PROVE  Posted(A)' \subseteq Posted(A)
<1>1. /\ LoopTypes /\ UNCHANGED called /\ batch' = [batch EXCEPT ![k] = pending[k]]
      /\ pending' = [pending EXCEPT ![k] = << >>] /\ called[k] = 0 /\ batch[k] = << >>
  BY DEF SwapFunctors, LoopInv, Rounds
<1>2. PICK m \in Nat : m = Len(pending[k])
  BY <1>1 DEF LoopTypes
<1>3. ASSUME NEW l \in Loops, NEW i \in Nat, <<l, i>> \in Posted(A)' PROVE <<l, i>> \in Posted(A)
  <2>1. i \in Places(l)' /\ Sends(Place(l, i)', A)
    BY <1>3 DEF Posted
  <2>2. CASE l # k
    <3>1. batch'[l] = batch[l] /\ called'[l] = called[l] /\ pending'[l] = pending[l]
      BY <1>1, <2>2 DEF LoopTypes
    <3>2. Places(l)' = Places(l) /\ Place(l, i)' = Place(l, i)
      BY <3>1 DEF Places, Place, Last
    <3> QED BY <2>1, <2>2, <3>2 DEF Posted
  <2>3. CASE l = k
    <3>1. batch'[k] = pending[k] /\ called'[k] = 0 /\ pending'[k] = << >>
      BY <1>1 DEF LoopTypes
    <3>2. Len(pending'[k]) = 0 /\ Len(batch[k]) = 0
      BY <1>1, <3>1, EmptySeq
    <3>3. Last(k)' = m + 0 /\ Last(k) = 0 + m
      BY <1>2, <3>1, <3>2 DEF Last
    <3>4. i \in 1 .. m
      BY <2>1, <2>3, <3>1, <3>3 DEF Places
    <3>5. Place(k, i)' = pending[k][i]
      BY <1>2, <3>1, <3>4 DEF Place
    <3>6. Place(k, i) = pending[k][i]
      <4>1. ~(i <= 0) /\ i - 0 = i
        BY <3>4
      <4> QED BY <3>2, <4>1 DEF Place
    <3>7. i \in Places(k)
      BY <1>1, <3>3, <3>4 DEF Places
    <3> QED BY <2>1, <2>3, <3>5, <3>6, <3>7 DEF Posted
  <2> QED BY <2>2, <2>3
<1> QED BY <1>3 DEF Posted

\* What a step does to the pending functors, and to the batch.
LEMMA RoundQueues ==
    ASSUME LoopInv, RoundStep
    PROVE  \/ \E l \in Loops : SwapFunctors(l)
           \/ \E l \in Loops : \E others : Poll(l, others)
           \/ /\ UNCHANGED batch
              /\ \A l \in Loops : called'[l] \in Nat /\ called[l] <= called'[l]
              /\ \/ UNCHANGED pending
                 \/ \E t : \E k \in Loops, f \in FunctorSet : QueueInLoop(t, k, f)
<1>1. called \in [Loops -> Nat]
  BY DEF LoopInv, LoopTypes
<1>2. ASSUME NEW t, Queues(t)
      PROVE  UNCHANGED pending \/ \E s : \E k \in Loops, f \in FunctorSet : QueueInLoop(s, k, f)
  BY <1>2 DEF Queues, queueVars
<1>3. ASSUME UNCHANGED called PROVE \A l \in Loops : called'[l] \in Nat /\ called[l] <= called'[l]
  BY <1>1, <1>3
<1>4. ASSUME NEW l \in Loops, Calls(l)
      PROVE  UNCHANGED batch /\ \A k \in Loops : called'[k] \in Nat /\ called[k] <= called'[k]
  <2>1. called' = [called EXCEPT ![l] = @ + 1] /\ UNCHANGED batch
    BY <1>4 DEF Calls, Calling
  <2> QED BY <1>1, <2>1
<1>5. CASE UNCHANGED <<queueVars, roundVars>>
  BY <1>3, <1>5 DEF queueVars, roundVars
<1>6. CASE \E t \in Threads : UNCHANGED roundVars /\ Queues(t)
  BY <1>2, <1>3, <1>6 DEF roundVars
<1>7. CASE \E t \in Threads, l \in Loops : Wake(t, l)
  BY <1>3, <1>7 DEF Wake
<1>8. CASE \E l \in Loops : (Handles(l) \/ Leaves(l) \/ Calls(l)) /\ Queues(l)
  <2>1. PICK l \in Loops : (Handles(l) \/ Leaves(l) \/ Calls(l)) /\ Queues(l)
    BY <1>8
  <2>2. CASE Calls(l)
    BY <1>2, <1>4, <2>1, <2>2
  <2>3. CASE Handles(l) \/ Leaves(l)
    <3>1. UNCHANGED <<batch, called>>
      BY <2>3 DEF Handles, Handling, Leaves, Leave
    <3> QED BY <1>2, <1>3, <2>1, <3>1
  <2> QED BY <2>1, <2>2, <2>3
<1> QED BY <1>5, <1>6, <1>7, <1>8 DEF RoundStep

\* A step that queues no answer of this code leaves no more functors that
\* send one, and one fewer when it calls one.
LEMMA RoundPosts ==
    ASSUME LoopInv, RoundStep, NEW A, IsFiniteSet(Posted(A)),
           \A t : \A l \in Loops, f \in FunctorSet : QueueInLoop(t, l, f) => ~Sends(f, A)
    PROVE  /\ IsFiniteSet(Posted(A)') /\ Cardinality(Posted(A)') \in Nat
           /\ Cardinality(Posted(A)') <= Cardinality(Posted(A))
           /\ \A l \in Loops : Calling(l, "send") /\ NextFunctor(l).arg \in A =>
                 Cardinality(Posted(A)') + 1 <= Cardinality(Posted(A))
<1>1. LoopTypes
  BY DEF LoopInv
<1>2. ASSUME NEW l \in Loops, SwapFunctors(l) \/ \E others : Poll(l, others)
      PROVE  \A k \in Loops : ~Calling(k, "send")
  <2>1. UNCHANGED called \/ (called' = [called EXCEPT ![l] = 0])
    BY <1>2 DEF SwapFunctors, Poll
  <2>2. called \in [Loops -> Nat]
    BY <1>1 DEF LoopTypes
  <2> QED BY <2>1, <2>2 DEF Calling
<1>3. ASSUME NEW l \in Loops, SwapFunctors(l)
      PROVE  /\ IsFiniteSet(Posted(A)') /\ Cardinality(Posted(A)') \in Nat
             /\ Cardinality(Posted(A)') <= Cardinality(Posted(A))
  BY <1>3, SwapPosts, NoMore
<1>4. ASSUME NEW l \in Loops, NEW others, Poll(l, others)
      PROVE  /\ IsFiniteSet(Posted(A)') /\ Cardinality(Posted(A)') \in Nat
             /\ Cardinality(Posted(A)') <= Cardinality(Posted(A))
  BY <1>1, <1>4, PollPosts
<1>5. CASE /\ UNCHANGED batch
           /\ \A l \in Loops : called'[l] \in Nat /\ called[l] <= called'[l]
           /\ \/ UNCHANGED pending
              \/ \E t : \E k \in Loops, f \in FunctorSet : QueueInLoop(t, k, f)
  <2>1. \A p \in Posted(A)' : p \in Posted(A) /\ called'[p[1]] < p[2]
    BY <1>1, <1>5, QueuePosts
  <2>2. /\ IsFiniteSet(Posted(A)') /\ Cardinality(Posted(A)') \in Nat
        /\ Cardinality(Posted(A)') <= Cardinality(Posted(A))
    BY <2>1, NoMore
  <2>3. ASSUME NEW l \in Loops, Calling(l, "send"), NextFunctor(l).arg \in A
        PROVE  Cardinality(Posted(A)') + 1 <= Cardinality(Posted(A))
    <3>1. PICK q \in Nat, n \in Nat, m \in Nat :
            q = called[l] /\ n = Len(batch[l]) /\ m = Len(pending[l])
      BY <1>1 DEF LoopTypes
    <3>2. q < n /\ called'[l] = q + 1 /\ NextFunctor(l).do = "send"
      BY <1>1, <2>3, <3>1 DEF Calling, LoopTypes
    <3>3. q + 1 \in q + 1 .. n + m /\ q + 1 \in Nat /\ q + 1 <= n
      BY <3>2
    <3>4. q + 1 \in Places(l) /\ Place(l, q + 1) = NextFunctor(l)
      BY <3>1, <3>3 DEF Places, Last, Place, NextFunctor
    <3>5. <<l, q + 1>> \in Posted(A)
      BY <2>3, <3>2, <3>3, <3>4 DEF Posted, Sends
    <3>6. \A p \in Posted(A)' : p # <<l, q + 1>>
      <4>1. ~(q + 1 < q + 1)
        BY <3>1
      <4> QED BY <2>1, <3>2, <4>1
    <3>7. Posted(A)' \in SUBSET (Posted(A) \ {<<l, q + 1>>})
      BY <2>1, <3>6
    <3> QED BY <3>5, <3>7, OneLess
  <2> QED BY <2>2, <2>3
<1> QED BY <1>2, <1>3, <1>4, <1>5, RoundQueues

\* A step that queues an answer adds one functor.
LEMMA QueuePostsOne ==
    ASSUME LoopTypes, UNCHANGED <<batch, called>>, NEW A,
           NEW t, NEW k \in Loops, NEW f \in FunctorSet, QueueInLoop(t, k, f),
           NEW p \in Posted(A)'
    PROVE  p \in Posted(A) \/ p = <<k, Last(k) + 1>>
<1>1. PICK l \in Loops, i \in Nat : p = <<l, i>>
  BY DEF Posted
<1>2. i \in Places(l)' /\ Sends(Place(l, i)', A)
  BY <1>1 DEF Posted
<1>3. PICK q \in Nat : q = called[l] /\ q = called'[l]
  BY <1>1 DEF LoopTypes
<1>4. PICK z \in Int : z = Last(l)
  BY <1>1 DEF LoopTypes, Last
<1>5. pending'[l] \in Seq(FunctorSet)
  BY <1>1 DEF QueueInLoop, QueueWaking, LoopTypes
<1>6. PICK y \in Int : y = Last(l)'
  BY <1>1, <1>5 DEF LoopTypes, Last
<1>7. i \in q + 1 .. y
  BY <1>2, <1>3, <1>6 DEF Places
<1>8. i <= Last(l)' /\ q < i
  BY <1>1, <1>3, <1>6, <1>7
<1>9. CASE i <= Last(l) /\ Place(l, i)' = Place(l, i)
  <2>1. i \in q + 1 .. z
    BY <1>1, <1>3, <1>4, <1>8, <1>9
  <2>2. i \in Places(l) /\ Sends(Place(l, i), A)
    BY <1>2, <1>3, <1>4, <1>9, <2>1 DEF Places
  <2> QED BY <1>1, <2>2 DEF Posted
<1> QED BY <1>1, <1>8, <1>9, QueuePlaces

\* Only a worker queues an answer.
LEMMA OnlySendSends ==
    ASSUME TypesInv, ConnInv, Next, NEW t, NEW l \in Loops, NEW f \in FunctorSet,
           QueueInLoop(t, l, f), f.do = "send"
    PROVE  \E w \in Workers : Send(w)
<1>1. LoopInv /\ LoopTypes /\ Base \in Loops
  BY ServerAssumption DEF TypesInv, LoopInv
<1>2. ASSUME NEW u, NEW k \in Loops, NEW c \in Connections,
             NEW do \in {"established", "remove", "destroyed"},
             QueueInLoop(u, k, Functor(do, c, None))
      PROVE  FALSE
  <2>1. Functor(do, c, None) \in FunctorSet /\ Functor(do, c, None).do = do
    BY FunctorIsTyped DEF Functor
  <2>2. f = Functor(do, c, None)
    BY <1>1, <1>2, <2>1, QueueIsOne
  <2> QED BY <2>1, <2>2
<1>3. ~UNCHANGED pending
  BY <1>1, NoQueue
<1>4. CASE Quiet
  BY <1>4 DEF Quiet
<1>5. ASSUME NEW k \in Loops, NEW c \in Connections, Closing(k, c) PROVE FALSE
  BY <1>1, <1>2, <1>5 DEF Closing, HandleClose
<1>6. CASE Accept
  <2>1. accepted + 1 \in Connections /\ NextLoop \in Loops
    BY <1>6, AcceptedStays
  <2>2. QueueInLoop(Base, NextLoop, Functor("established", accepted + 1, None))
    BY <1>3, <1>6 DEF Accept, queueVars
  <2> QED BY <1>2, <2>1, <2>2
<1>7. CASE CallRemove
  <2>1. PICK c : c = NextFunctor(Base).conn
    OBVIOUS
  <2>2. c \in Connections
    BY <1>1, <1>7, <2>1, CallingTakes DEF CallRemove
  <2>3. c \in table /\ QueueInLoop(Base, loopOf[c], Functor("destroyed", c, None))
    BY <1>3, <1>7, <2>1 DEF CallRemove, queueVars
  <2>4. loopOf[c] \in Loops
    BY <2>2, <2>3 DEF ConnInv, Referred, Referenced
  <2> QED BY <1>2, <2>2, <2>3, <2>4
<1>8. ASSUME NEW k \in Loops, CallEstablished(k) \/ CallDestroyed(k) PROVE FALSE
  BY <1>3, <1>8 DEF CallEstablished, CallDestroyed, queueVars
<1> QED BY <1>4, <1>5, <1>6, <1>7, <1>8, NextKinds

\* What holds of one code.
CodeRecorded(e) == /\ IsFiniteSet(Written(e)) /\ IsFiniteSet(Posted(Coded(e)))
                   /\ Answered(e) <= recorded[e]

\* It is enough to count how the three parts and the record change.
LEMMA CountsKeepCode ==
    ASSUME CodesRecorded, NEW e \in Codes,
           NEW a \in Int, NEW b \in Int, NEW c \in Int, NEW r \in Int, (a + b) + c <= r,
           recorded'[e] = recorded[e] + r,
           IsFiniteSet(Written(e)'), Cardinality(Written(e)') <= Cardinality(Written(e)) + a,
           IsFiniteSet(Posted(Coded(e))'),
           Cardinality(Posted(Coded(e))') <= Cardinality(Posted(Coded(e))) + b,
           Cardinality(Sending(e)') <= Cardinality(Sending(e)) + c
    PROVE  CodeRecorded(e)'
<1>1. Sending(e)' \subseteq Threads
  BY DEF Sending, Threads
<1>2. IsFiniteSet(Sending(e)')
  BY <1>1, RpcServerAssumption, FS_Subset
<1>3. /\ Cardinality(Written(e)') \in Nat /\ Cardinality(Written(e)) \in Nat
      /\ Cardinality(Posted(Coded(e))') \in Nat /\ Cardinality(Posted(Coded(e))) \in Nat
      /\ Cardinality(Sending(e)') \in Nat /\ Cardinality(Sending(e)) \in Nat
  BY <1>2, SendingIsFinite, FS_CardinalityType DEF CodesRecorded
<1>4. recorded[e] \in Nat /\ Answered(e) <= recorded[e]
  BY DEF CodesRecorded
<1>5. PICK w \in Nat, p \in Nat, s \in Nat :
        /\ w = Cardinality(Written(e)) /\ p = Cardinality(Posted(Coded(e)))
        /\ s = Cardinality(Sending(e))
  BY <1>3
<1>6. PICK x \in Nat, y \in Nat, z \in Nat :
        /\ x = Cardinality(Written(e)') /\ y = Cardinality(Posted(Coded(e))')
        /\ z = Cardinality(Sending(e)')
  BY <1>3
<1>7. w + p + s <= recorded[e] /\ x <= w + a /\ y <= p + b /\ z <= s + c
  BY <1>4, <1>5, <1>6 DEF Answered
<1>8. x + y + z <= recorded[e] + r
  BY <1>4, <1>7
<1>9. Answered(e)' <= recorded'[e]
  BY <1>6, <1>8 DEF Answered
<1> QED BY <1>9 DEF CodeRecorded

\* A step at which no worker sends queues no answer.
LEMMA NobodySends ==
    ASSUME TypesInv, ConnInv, Next, \A w \in Workers : ~Send(w), NEW A, IsFiniteSet(Posted(A))
    PROVE  /\ IsFiniteSet(Posted(A)') /\ Cardinality(Posted(A)') \in Nat
           /\ Cardinality(Posted(A)') <= Cardinality(Posted(A))
           /\ \A l \in Loops : Calling(l, "send") /\ NextFunctor(l).arg \in A =>
                 Cardinality(Posted(A)') + 1 <= Cardinality(Posted(A))
<1>1. ASSUME NEW t, NEW l \in Loops, NEW f \in FunctorSet, QueueInLoop(t, l, f)
      PROVE  ~Sends(f, A)
  BY <1>1, OnlySendSends DEF Sends
<1> QED BY <1>1, NextIsRound, RoundPosts DEF TypesInv

\* Only a worker that goes from sending to waking sends.
LEMMA SendGoes ==
    ASSUME WorkTypes, NEW w \in Workers,
           \/ UNCHANGED worker
           \/ \E v \in Workers, to \in {"idle", "handling", "encoding", "sending"} :
                 worker' = [worker EXCEPT ![v] = to]
    PROVE  ~Send(w)
<1>1. worker \in [Workers -> {"idle", "handling", "encoding", "sending", "waking"}]
  BY DEF WorkTypes
<1>2. Send(w) => worker[w] = "sending" /\ worker'[w] = "waking"
  BY <1>1 DEF Send, WorkerGoes
<1> QED BY <1>1, <1>2

\* Steps that record nothing and write nothing: the workers about to send an
\* answer are not more, and who sends it does it by a functor.
LEMMA NothingWritten ==
    ASSUME TypesInv, ConnInv, CodesRecorded, Next, NEW e \in Codes,
           UNCHANGED <<answers, recorded>>, \A w \in Workers : ~Send(w),
           Sending(e)' \subseteq Sending(e)
    PROVE  CodeRecorded(e)'
<1>1. /\ IsFiniteSet(Written(e)) /\ IsFiniteSet(Posted(Coded(e))) /\ recorded[e] \in Nat
      /\ IsFiniteSet(Sending(e))
  BY SendingIsFinite DEF CodesRecorded
<1>2. Written(e)' = Written(e)
  BY DEF Written
<1>3. /\ Cardinality(Written(e)) \in Nat /\ Cardinality(Posted(Coded(e))) \in Nat
      /\ Cardinality(Sending(e)) \in Nat
  BY <1>1, FS_CardinalityType
<1>4. /\ IsFiniteSet(Posted(Coded(e))')
      /\ Cardinality(Posted(Coded(e))') <= Cardinality(Posted(Coded(e))) + 0
  BY <1>1, <1>3, NobodySends
<1>5. Cardinality(Sending(e)') <= Cardinality(Sending(e)) + 0
  BY <1>1, <1>3, NoMore
<1>6. IsFiniteSet(Written(e)') /\ Cardinality(Written(e)') <= Cardinality(Written(e)) + 0
  BY <1>1, <1>2, <1>3
<1>7. recorded'[e] = recorded[e] + 0
  BY <1>1
<1>8. 0 + 0 + 0 <= 0 /\ 0 \in Int
  OBVIOUS
<1> QED BY <1>4, <1>5, <1>6, <1>7, <1>8, CountsKeepCode

\* A loop that calls the functor writes the answer, or drops it.
LEMMA CallSendKeepsCode ==
    ASSUME TypesInv, ConnInv, CodesRecorded, Next, NEW e \in Codes,
           NEW l \in Loops, CallSend(l)
    PROVE  CodeRecorded(e)'
<1>1. /\ IsFiniteSet(Written(e)) /\ IsFiniteSet(Posted(Coded(e))) /\ recorded[e] \in Nat
      /\ Cardinality(Sending(e)) \in Nat
  BY SendingIsFinite DEF CodesRecorded
<1>2. UNCHANGED <<worker, code, recorded>> /\ Calling(l, "send")
  BY DEF CallSend, workerVars, metricVars, responseVars
<1>3. Sending(e)' = Sending(e)
  BY <1>2 DEF Sending
<1>4. PICK c, a : c = NextFunctor(l).conn /\ a = NextFunctor(l).arg
  OBVIOUS
<1>5. c \in Connections /\ a \in Answers
  BY <1>2, <1>4, NextFunctorIsTyped DEF Calling, TypesInv
<1>6. SendInLoop(l, c, a)
  BY <1>4 DEF CallSend
<1>7. PICK n \in {0, 1} : n = IF a.code = e THEN 1 ELSE 0
  OBVIOUS
<1>8. IsFiniteSet(Written(e)') /\ Cardinality(Written(e)') <= Cardinality(Written(e)) + n
  BY <1>1, <1>5, <1>6, <1>7, SendWrites DEF TypesInv, RequestTypes
<1>9. \A w \in Workers : ~Send(w)
  BY <1>2, SendGoes DEF TypesInv, RequestTypes
<1>10. Cardinality(Posted(Coded(e))) \in Nat
  BY <1>1, FS_CardinalityType
<1>11. /\ IsFiniteSet(Posted(Coded(e))') /\ Cardinality(Posted(Coded(e))') \in Nat
       /\ Cardinality(Posted(Coded(e))') <= Cardinality(Posted(Coded(e)))
       /\ a.code = e => Cardinality(Posted(Coded(e))') + 1 <= Cardinality(Posted(Coded(e)))
  <2>1. a.code = e <=> a \in Coded(e)
    BY <1>5 DEF Coded
  <2> QED BY <1>1, <1>2, <1>4, <1>9, <2>1, NobodySends
<1>12. Cardinality(Posted(Coded(e))') <= Cardinality(Posted(Coded(e))) + (-n)
  BY <1>7, <1>10, <1>11
<1>13. Cardinality(Sending(e)') <= Cardinality(Sending(e)) + 0
  BY <1>1, <1>3
<1>14. recorded'[e] = recorded[e] + 0
  BY <1>1, <1>2
<1>15. n \in Int /\ -n \in Int /\ (n + (-n)) + 0 <= 0 /\ 0 \in Int
  BY <1>7
<1> QED BY <1>8, <1>11, <1>12, <1>13, <1>14, <1>15, CountsKeepCode

\* An error is recorded and written, or dropped.
LEMMA ErrorKeepsCode ==
    ASSUME TypesInv, ConnInv, CodesRecorded, Next, NEW e \in Codes,
           NEW l \in Loops, Refuse(l) \/ AnswerRejected(l)
    PROVE  CodeRecorded(e)'
<1>1. /\ IsFiniteSet(Written(e)) /\ IsFiniteSet(Posted(Coded(e))) /\ recorded \in [Codes -> Nat]
      /\ Cardinality(Sending(e)) \in Nat
  BY SendingIsFinite DEF CodesRecorded
<1>2. PICK c \in Connections, d \in Codes :
        /\ SendError(l, c, Head(todo[l]), d) /\ todo[l] # << >> /\ UNCHANGED workerVars
  <2>1. CASE Refuse(l)
    BY <2>1, VerdictIsCode DEF Refuse, At
  <2>2. CASE AnswerRejected(l)
    BY <2>2 DEF AnswerRejected, At, Codes
  <2> QED BY <2>1, <2>2
<1>3. PICK a : a = Answer(Head(todo[l]), d)
  OBVIOUS
<1>4. SendInLoop(l, c, a) /\ recorded' = [recorded EXCEPT ![d] = @ + 1]
  BY <1>2, <1>3 DEF SendError, RecordResponse
<1>5. a \in Answers /\ a.code = d
  <2>1. Head(todo[l]) \in Requests
    BY <1>2, HeadTailProperties DEF TypesInv, RequestTypes, InputTypes
  <2> QED BY <1>3, <2>1 DEF Answer, Answers
<1>6. PICK n \in {0, 1} : n = IF a.code = e THEN 1 ELSE 0
  OBVIOUS
<1>7. IsFiniteSet(Written(e)') /\ Cardinality(Written(e)') <= Cardinality(Written(e)) + n
  BY <1>1, <1>4, <1>5, <1>6, SendWrites DEF TypesInv, RequestTypes
<1>8. recorded'[e] = recorded[e] + n
  BY <1>1, <1>4, <1>5, <1>6
<1>9. UNCHANGED <<worker, code>>
  BY <1>2 DEF workerVars
<1>10. \A w \in Workers : ~Send(w)
  BY <1>9, SendGoes DEF TypesInv, RequestTypes
<1>11. /\ IsFiniteSet(Posted(Coded(e))')
       /\ Cardinality(Posted(Coded(e))') <= Cardinality(Posted(Coded(e))) + 0
  BY <1>1, <1>10, NobodySends, FS_CardinalityType
<1>12. Sending(e)' = Sending(e)
  BY <1>9 DEF Sending
<1>13. Cardinality(Sending(e)') <= Cardinality(Sending(e)) + 0
  BY <1>1, <1>12
<1>14. n \in Int /\ (n + 0) + 0 <= n /\ 0 \in Int
  BY <1>6
<1> QED BY <1>7, <1>8, <1>11, <1>13, <1>14, CountsKeepCode

\* A worker records its answer, and is about to send it.
LEMMA RecordAnswerKeepsCode ==
    ASSUME TypesInv, ConnInv, CodesRecorded, Next, NEW e \in Codes,
           NEW w \in Workers, RecordAnswer(w)
    PROVE  CodeRecorded(e)'
<1>1. /\ IsFiniteSet(Written(e)) /\ IsFiniteSet(Posted(Coded(e))) /\ recorded \in [Codes -> Nat]
      /\ IsFiniteSet(Sending(e)) /\ Cardinality(Sending(e)) \in Nat
  BY SendingIsFinite DEF CodesRecorded
<1>2. PICK d \in Codes : /\ code' = [code EXCEPT ![w] = d]
                         /\ recorded' = [recorded EXCEPT ![d] = @ + 1]
  BY DEF RecordAnswer, RecordResponse, Codes
<1>3. worker' = [worker EXCEPT ![w] = "sending"] /\ worker[w] = "encoding" /\ UNCHANGED answers
  BY DEF RecordAnswer, WorkerGoes
<1>4. PICK n \in {0, 1} : n = IF d = e THEN 1 ELSE 0
  OBVIOUS
<1>5. recorded'[e] = recorded[e] + n
  BY <1>1, <1>2, <1>4
<1>6. \A v \in Workers : v # w => worker'[v] = worker[v] /\ code'[v] = code[v]
  BY <1>2, <1>3 DEF TypesInv, RequestTypes, WorkTypes
<1>7. code'[w] = d
  BY <1>2 DEF TypesInv, RequestTypes, WorkTypes
<1>8. Cardinality(Sending(e)') <= Cardinality(Sending(e)) + n
  <2>1. CASE d = e
    <3>1. Sending(e)' \in SUBSET (Sending(e) \cup {w})
      BY <1>6 DEF Sending
    <3> QED BY <1>1, <1>4, <2>1, <3>1, OneMore
  <2>2. CASE d # e
    <3>1. Sending(e)' \in SUBSET Sending(e)
      BY <1>6, <1>7, <2>2 DEF Sending
    <3>2. Cardinality(Sending(e)') <= Cardinality(Sending(e))
      BY <1>1, <3>1, NoMore
    <3> QED BY <1>1, <1>4, <2>2, <3>1, <3>2, NoMore
  <2> QED BY <2>1, <2>2
<1>9. Written(e)' = Written(e)
  BY <1>3 DEF Written
<1>10. IsFiniteSet(Written(e)') /\ Cardinality(Written(e)') <= Cardinality(Written(e)) + 0
  BY <1>1, <1>9, FS_CardinalityType
<1>11. \A v \in Workers : ~Send(v)
  BY <1>3, SendGoes DEF TypesInv, RequestTypes
<1>12. /\ IsFiniteSet(Posted(Coded(e))')
       /\ Cardinality(Posted(Coded(e))') <= Cardinality(Posted(Coded(e))) + 0
  BY <1>1, <1>11, NobodySends, FS_CardinalityType
<1>13. n \in Int /\ (0 + 0) + n <= n /\ 0 \in Int
  BY <1>4
<1> QED BY <1>5, <1>8, <1>10, <1>12, <1>13, CountsKeepCode

\* A worker that sends hands its answer to the loop.
LEMMA SendKeepsCode ==
    ASSUME TypesInv, ConnInv, CodesRecorded, NEW e \in Codes,
           NEW w \in Workers, Send(w)
    PROVE  CodeRecorded(e)'
<1>1. /\ IsFiniteSet(Written(e)) /\ IsFiniteSet(Posted(Coded(e))) /\ recorded[e] \in Nat
      /\ IsFiniteSet(Sending(e)) /\ Cardinality(Sending(e)) \in Nat
  BY SendingIsFinite DEF CodesRecorded
<1>2. /\ worker' = [worker EXCEPT ![w] = "waking"] /\ worker[w] = "sending"
      /\ UNCHANGED <<answers, code, recorded, batch, called>>
  BY DEF Send, WorkerGoes, responseVars, roundVars
<1>3. PICK k, f : k = loopOf[locked[w]] /\ f = Functor("send", locked[w], Answer(task[w], code[w]))
  OBVIOUS
<1>4. k \in Loops /\ f \in FunctorSet /\ f.do = "send" /\ f.arg.code = code[w]
  <2>1. locked[w] \in Connections /\ Referenced(locked[w])
    BY DEF Send, TypesInv, ServerTypes, PeerTypes, Referenced
  <2>2. loopOf[locked[w]] \in Loops
    BY <2>1, LoopOfReferred DEF ConnInv
  <2>3. Answer(task[w], code[w]) \in Answers
    BY <1>2 DEF TypesInv, RequestTypes, WorkTypes, Answer, Answers
  <2>4. Functor("send", locked[w], Answer(task[w], code[w])) \in FunctorSet
    BY <2>1, <2>3, FunctorIsTyped
  <2> QED BY <1>3, <2>2, <2>4 DEF Functor, Answer
<1>5. QueueInLoop(w, k, f)
  BY <1>3 DEF Send
<1>6. LoopTypes /\ called \in [Loops -> Nat]
  BY DEF TypesInv, LoopInv, LoopTypes
<1>7. \A v \in Workers : v # w => worker'[v] = worker[v]
  BY <1>2 DEF TypesInv, RequestTypes, WorkTypes
<1>8. worker'[w] = "waking"
  BY <1>2 DEF TypesInv, RequestTypes, WorkTypes
<1>9. Sending(e)' \subseteq Sending(e) \ {w}
  BY <1>2, <1>7, <1>8 DEF Sending
<1>10. PICK n \in {0, 1} : n = IF code[w] = e THEN 1 ELSE 0
  OBVIOUS
<1>11. Cardinality(Sending(e)') <= Cardinality(Sending(e)) + (-n)
  <2>1. CASE code[w] = e
    <3>1. w \in Sending(e)
      BY <1>2, <2>1 DEF Sending
    <3>2. /\ Cardinality(Sending(e)') \in Nat
          /\ Cardinality(Sending(e)') + 1 <= Cardinality(Sending(e))
      BY <1>1, <1>9, <3>1, OneLess
    <3> QED BY <1>1, <1>10, <2>1, <3>2
  <2>2. CASE code[w] # e
    <3>1. /\ Cardinality(Sending(e)') \in Nat
          /\ Cardinality(Sending(e)') <= Cardinality(Sending(e))
      BY <1>1, <1>9, NoMore
    <3> QED BY <1>1, <1>10, <2>2, <3>1
  <2> QED BY <2>1, <2>2
<1>12. /\ IsFiniteSet(Posted(Coded(e))')
       /\ Cardinality(Posted(Coded(e))') <= Cardinality(Posted(Coded(e))) + n
  <2>1. CASE code[w] = e
    <3>1. PICK x : x = <<k, Last(k) + 1>>
      OBVIOUS
    <3>2. \A p \in Posted(Coded(e))' : p \in Posted(Coded(e)) \/ p = x
      BY <1>2, <1>4, <1>5, <1>6, <3>1, QueuePostsOne
    <3>3. Posted(Coded(e))' \in SUBSET (Posted(Coded(e)) \cup {x})
      BY <3>2
    <3> QED BY <1>1, <1>10, <2>1, <3>3, OneMore
  <2>2. CASE code[w] # e
    <3>1. ~Sends(f, Coded(e))
      BY <1>4, <2>2 DEF Sends, Coded
    <3>2. \A l \in Loops : called'[l] \in Nat /\ called[l] <= called'[l]
      BY <1>2, <1>6
    <3>3. \A p \in Posted(Coded(e))' : p \in Posted(Coded(e))
      BY <1>2, <1>4, <1>5, <1>6, <3>1, <3>2, QueuePosts
    <3>4. Posted(Coded(e))' \in SUBSET Posted(Coded(e))
      BY <3>3
    <3>5. /\ IsFiniteSet(Posted(Coded(e))') /\ Cardinality(Posted(Coded(e))') \in Nat
          /\ Cardinality(Posted(Coded(e))) \in Nat
          /\ Cardinality(Posted(Coded(e))') <= Cardinality(Posted(Coded(e)))
      BY <1>1, <3>4, NoMore
    <3> QED BY <1>10, <2>2, <3>5
  <2> QED BY <2>1, <2>2
<1>13. Written(e)' = Written(e)
  BY <1>2 DEF Written
<1>14. IsFiniteSet(Written(e)') /\ Cardinality(Written(e)') <= Cardinality(Written(e)) + 0
  BY <1>1, <1>13, FS_CardinalityType
<1>15. recorded'[e] = recorded[e] + 0
  BY <1>1, <1>2
<1>16. n \in Int /\ -n \in Int /\ (0 + n) + (-n) <= 0 /\ 0 \in Int
  BY <1>10
<1> QED BY <1>11, <1>12, <1>14, <1>15, <1>16, CountsKeepCode

\* The responses are recorded by code.
LEMMA RecordsStay == ASSUME CodesRecorded, Next PROVE recorded' \in [Codes -> Nat]
<1>1. recorded \in [Codes -> Nat]
  BY DEF CodesRecorded
<1>2. UNCHANGED recorded \/ \E e : RecordResponse(e)
  <2>1. CASE Input
    BY <2>1 DEF Input, PeerActs, metricVars, responseVars
  <2>2. ASSUME NEW l \in Loops, LoopStep(l) PROVE UNCHANGED recorded \/ \E e : RecordResponse(e)
    BY <2>2 DEF LoopStep, rpcVars, ReadEvent, CloseEvent, ReadEnds, CallSend, DecodeFails, Refuse,
       CountRequest, Admit, AdmitCounting, PostAccepted, PostRejected, AnswerRejected, SendError,
       metricVars, responseVars
  <2>3. ASSUME NEW w \in Workers, WorkerStep(w)
        PROVE  UNCHANGED recorded \/ \E e : RecordResponse(e)
    BY <2>3 DEF WorkerStep, Take, HandlerEnds, RecordAnswer, Send, WakeLoop, NobodyToTell,
       TaskEnds, responseVars
  <2> QED BY <2>1, <2>2, <2>3 DEF Next
<1> QED BY <1>1, <1>2 DEF RecordResponse

\* Every step keeps the answers of every code recorded.
LEMMA NextKeepsCodes ==
    ASSUME TypesInv, ConnInv, CodesRecorded, Next PROVE CodesRecorded'
<1>1. WorkTypes
  BY DEF TypesInv, RequestTypes
<1>2. ASSUME NEW e \in Codes, UNCHANGED <<answers, recorded, worker, code>> PROVE CodeRecorded(e)'
  <2>1. Sending(e)' \subseteq Sending(e)
    BY <1>2 DEF Sending
  <2>2. \A w \in Workers : ~Send(w)
    BY <1>1, <1>2, SendGoes
  <2> QED BY <1>2, <2>1, <2>2, NothingWritten
<1>3. ASSUME NEW e \in Codes, Input PROVE CodeRecorded(e)'
  BY <1>2, <1>3 DEF Input, PeerActs, workerVars, metricVars, responseVars
<1>4. ASSUME NEW e \in Codes, NEW l \in Loops, LoopStep(l) PROVE CodeRecorded(e)'
  <2>1. CASE CallSend(l)
    BY <2>1, CallSendKeepsCode
  <2>2. CASE Refuse(l) \/ AnswerRejected(l)
    BY <2>2, ErrorKeepsCode
  <2>3. CASE ~CallSend(l) /\ ~Refuse(l) /\ ~AnswerRejected(l)
    <3>1. UNCHANGED <<answers, recorded, worker, code>>
      BY <1>4, <2>3 DEF LoopStep, rpcVars, workerVars, metricVars, responseVars, ReadEvent,
         CloseEvent, ReadEnds, DecodeFails, CountRequest, Admit, AdmitCounting, PostAccepted,
         PostRejected
    <3> QED BY <1>2, <3>1
  <2> QED BY <2>1, <2>2, <2>3
<1>5. ASSUME NEW e \in Codes, NEW w \in Workers, WorkerStep(w) PROVE CodeRecorded(e)'
  <2>1. CASE RecordAnswer(w)
    BY <2>1, RecordAnswerKeepsCode
  <2>2. CASE Send(w)
    BY <2>2, SendKeepsCode
  <2>3. CASE Take(w) \/ HandlerEnds(w) \/ WakeLoop(w) \/ NobodyToTell(w)
    <3>1. UNCHANGED <<answers, recorded>>
      BY <2>3 DEF Take, HandlerEnds, WakeLoop, NobodyToTell, TaskEnds, WorkerGoes, responseVars
    <3>2. PICK to \in {"idle", "handling", "encoding"} : worker' = [worker EXCEPT ![w] = to]
      BY <2>3 DEF Take, HandlerEnds, WakeLoop, NobodyToTell, WorkerGoes
    <3>3. UNCHANGED code \/ code' = [code EXCEPT ![w] = "none"]
      BY <2>3 DEF Take, HandlerEnds, WakeLoop, NobodyToTell, TaskEnds
    <3>4. \A v \in Workers : v # w => worker'[v] = worker[v] /\ code'[v] = code[v]
      BY <1>1, <3>2, <3>3 DEF WorkTypes
    <3>5. worker'[w] # "sending"
      BY <1>1, <3>2 DEF WorkTypes
    <3>6. Sending(e)' \subseteq Sending(e)
      BY <3>4, <3>5 DEF Sending
    <3>7. \A v \in Workers : ~Send(v)
      BY <1>1, <3>2, SendGoes
    <3> QED BY <3>1, <3>6, <3>7, NothingWritten
  <2> QED BY <1>5, <2>1, <2>2, <2>3 DEF WorkerStep
<1>6. \A e \in Codes : CodeRecorded(e)'
  BY <1>3, <1>4, <1>5 DEF Next
<1> QED BY <1>6, RecordsStay DEF CodesRecorded, CodeRecorded

\* The counters as they begin.
LEMMA InitCounts == Init => Counted /\ CodesRecorded
<1> SUFFICES ASSUME Init PROVE Counted /\ CodesRecorded
  OBVIOUS
<1>1. /\ queue = << >> /\ Len(queue) = 0 /\ recorded = [e \in Codes |-> 0]
      /\ total = 0 /\ size = 0 /\ rejected = 0 /\ succeeded = 0 /\ failed = 0
      /\ Occupying(Busy) = {} /\ Occupying(Between) = {}
  BY EmptySeq DEF Init, Occupying, Busy, Between
<1>2. Cardinality({}) = 0 /\ IsFiniteSet({})
  BY FS_EmptySet
<1>3. Counted
  BY <1>1, <1>2 DEF Counted, Count
<1>4. ASSUME NEW e \in Codes PROVE Written(e) = {} /\ Posted(Coded(e)) = {} /\ Sending(e) = {}
  <2>1. Len(<< >>) = 0
    BY EmptySeq
  <2>2. \A c \in Connections : answers[c] = << >> /\ 1 .. Len(answers[c]) = {}
    BY <2>1 DEF Init
  <2>3. Written(e) = {}
    BY <2>2 DEF Written
  <2>4. \A l \in Loops : called[l] = 0 /\ batch[l] = << >> /\ pending[l] = << >>
    BY DEF Init, ServerInit, LoopInit
  <2>5. \A l \in Loops : Places(l) = {}
    <3> TAKE l \in Loops
    <3>1. called[l] = 0 /\ Len(batch[l]) = 0 /\ Len(pending[l]) = 0
      BY <2>1, <2>4
    <3>2. Places(l) = 0 + 1 .. 0 + 0
      BY <3>1 DEF Places, Last
    <3> QED BY <3>2
  <2>6. Posted(Coded(e)) = {}
    BY <2>5 DEF Posted
  <2>7. Sending(e) = {}
    BY DEF Init, Sending
  <2> QED BY <2>3, <2>6, <2>7
<1>5. ASSUME NEW e \in Codes
      PROVE  IsFiniteSet(Written(e)) /\ IsFiniteSet(Posted(Coded(e))) /\ Answered(e) <= recorded[e]
  <2>1. Answered(e) = 0 + 0 + 0
    BY <1>2, <1>4 DEF Answered
  <2>2. recorded[e] = 0
    BY <1>1
  <2> QED BY <1>2, <1>4, <2>1, <2>2
<1>6. recorded \in [Codes -> Nat]
  BY <1>1
<1> QED BY <1>3, <1>5, <1>6 DEF CodesRecorded

\* And when nothing happens.
LEMMA StutterKeepsCounts ==
    ASSUME Counted, CodesRecorded, UNCHANGED vars PROVE Counted' /\ CodesRecorded'
<1>1. UNCHANGED <<queue, worker, step, total, size, rejected, succeeded, failed, recorded,
                  answers, code, batch, pending, called>>
  BY DEF vars, queueVars, roundVars, rpcVars, inputVars, workerVars, metricVars, responseVars
<1>2. \A P : Count(P)' = Count(P)
  BY <1>1 DEF Count, Occupying
<1>3. Counted'
  BY <1>1, <1>2 DEF Counted
<1>4. ASSUME NEW e \in Codes
      PROVE  /\ Written(e)' = Written(e) /\ Posted(Coded(e))' = Posted(Coded(e))
             /\ Sending(e)' = Sending(e)
  <2>1. \A l \in Loops : Places(l)' = Places(l) /\ \A i \in Nat : Place(l, i)' = Place(l, i)
    BY <1>1 DEF Places, Place, Last
  <2> QED BY <1>1, <2>1 DEF Written, Posted, Sending
<1>5. \A e \in Codes : Answered(e)' = Answered(e) /\ recorded'[e] = recorded[e]
  BY <1>1, <1>4 DEF Answered
<1> QED BY <1>1, <1>3, <1>4, <1>5 DEF CodesRecorded

\* The metrics are exact whatever was read: of each request that was admitted
\* something is in the queue or busy with it, of each answer a record.
THEOREM CountsInvariant == Spec => [](Counted /\ CodesRecorded)
<1>1. TypesInv /\ ConnInv /\ Counted /\ CodesRecorded /\ [Next]_vars =>
          (Counted /\ CodesRecorded)'
  BY NextKeepsCounted, NextKeepsCodes, StutterKeepsCounts
<1> QED BY <1>1, InitCounts, ServerInvariant, PTL DEF Spec

\* What a reader of metrics() may see, between any two of the counters' separate
\* updates: handleRequest counts a request in the size before it is posted, each
\* request it counted in the total is in the size, in the responses or in the
\* hand of a thread between two of them, and recordResponse counts an answer
\* before it is sent.
THEOREM MetricsAreExact == Spec => []MetricsExact
<1>1. ASSUME TypesInv, Counted, CodesRecorded PROVE MetricsExact
  <2>t. /\ worker \in [Workers -> {"idle", "handling", "encoding", "sending", "waking"}]
        /\ step \in [Loops -> {"decode", "handle", "post", "reject"}]
    BY <1>1 DEF TypesInv, RequestTypes, WorkTypes, InputTypes
  <2>1. Admitted = Len(queue) + Count(Busy) /\ InHand = Count(Between)
    <3>1. Occupying(Busy) = {w \in Workers : worker[w] = "handling"}
                                \cup {l \in Loops : step[l] = "post"}
      BY <2>t DEF Occupying, Busy
    <3>2. Occupying(Between) = {w \in Workers : worker[w] = "encoding"}
                                   \cup {l \in Loops : step[l] \in {"handle", "reject"}}
      BY <2>t DEF Occupying, Between
    <3> QED BY <3>1, <3>2 DEF Admitted, InHand, Count
  <2>2. size = Admitted /\ total = succeeded + failed + Admitted + InHand
    BY <1>1, <2>1 DEF Counted
  <2>3. ASSUME NEW e \in Codes PROVE Cardinality(Written(e)) <= recorded[e]
    <3>1. /\ Cardinality(Written(e)) \in Nat /\ Cardinality(Posted(Coded(e))) \in Nat
          /\ Cardinality(Sending(e)) \in Nat
      BY <1>1, SendingIsFinite, FS_CardinalityType DEF CodesRecorded
    <3>2. recorded[e] \in Nat /\ Answered(e) <= recorded[e]
      BY <1>1 DEF CodesRecorded
    <3> QED BY <3>1, <3>2 DEF Answered
  <2> QED BY <2>2, <2>3 DEF MetricsExact
<1> QED BY <1>1, ServerInvariant, CountsInvariant, PTL

\* No channel outlives its connection: of those epoll may report, that a loop
\* has yet to handle, or that a poller's table names by descriptor, each is of
\* a connection somebody refers to.
THEOREM ChannelsStayAlive == Spec => []ChannelsAreAlive
<1>1. ASSUME TypesInv, Counted PROVE TypeOK
  <2>1. \A l \in Loops : /\ stage[l] \in {"channels", "functors"}
                         /\ inside[l] \in Connections \cup {Acceptor, None}
                         /\ step[l] \in {"decode", "handle", "post", "reject"}
    BY <1>1 DEF TypesInv, LoopInv, LoopTypes, RequestTypes, InputTypes
  <2>2. ASSUME NEW l \in Loops PROVE called[l] \in 0 .. Len(batch[l])
    <3>1. called[l] \in Nat /\ Len(batch[l]) \in Nat /\ called[l] <= Len(batch[l])
      BY <1>1 DEF TypesInv, LoopInv, LoopTypes, Rounds
    <3> QED BY <3>1
  <2>3. \A c \in Connections :
          /\ index[c] \in {"New", "Added", "Deleted"}
          /\ state[c] \in {"none", "Connecting", "Connected", "Disconnected"}
    BY <1>1 DEF TypesInv, ServerTypes, ChannelTypes
  <2>4. /\ \A w \in Workers : /\ locked[w] \in Connections \cup {None}
                              /\ code[w] \in Codes \cup {"none"}
        /\ table \subseteq Connections /\ Len(queue) <= QueueCapacity
    BY <1>1 DEF TypesInv, ServerTypes, PeerTypes, AcceptTypes, RequestTypes, WorkTypes
  <2>5. queue \in Seq(Requests) /\ Len(queue) \in Nat
    BY <1>1 DEF TypesInv, RequestTypes, WorkTypes
  <2>6. {total, size, rejected} \subseteq Nat
    BY <1>1, <2>5, OccupyingIsFinite DEF Counted
  <2> QED BY <2>1, <2>2, <2>3, <2>4, <2>6 DEF TypeOK
<1>2. ASSUME TypesInv, ConnInv, NEW l \in Loops, NEW c \in Connections
      PROVE  /\ c \in epoll[l] \cup active[l] \cup {inside[l]} => Referenced(c) /\ loopOf[c] = l
             /\ index[c] = "New" => c \notin epoll[l]
  <2>1. LoopInv /\ RegisteredAtAll(c) /\ RegisteredOn(l, c)
    BY <1>2 DEF TypesInv, ConnInv, ChannelsRegistered
  <2>2. CASE c \in epoll[l]
    <3>1. loopOf[c] = l /\ index[c] # "New" /\ Held(c)
      BY <2>1, <2>2 DEF RegisteredOn, RegisteredAtAll
    <3> QED BY <2>1, <3>1, HeldIsReferenced
  <2>3. CASE c \in active[l] \/ c = inside[l]
    BY <1>2, <2>1, <2>3, ActiveIsReferenced DEF RegisteredOn
  <2> QED BY <2>1, <2>2, <2>3 DEF RegisteredOn
<1>3. ASSUME TypesInv, ConnInv, NEW l \in Loops, NEW f \in Fds, channels[l][f] # None
      PROVE  /\ Referenced(channels[l][f]) /\ fd[channels[l][f]] = f
             /\ index[channels[l][f]] # "New"
  <2>1. PICK c \in Connections : c = channels[l][f]
    BY <1>3 DEF TypesInv, ServerTypes, ChannelTypes
  <2>2. LoopInv /\ RegisteredAtAll(c) /\ RegisteredOn(l, c)
    BY <1>3 DEF TypesInv, ConnInv, ChannelsRegistered
  <2>3. fd[c] = f /\ index[c] # "New" /\ Held(c)
    BY <2>1, <2>2 DEF RegisteredOn, RegisteredAtAll
  <2> QED BY <2>1, <2>2, <2>3, HeldIsReferenced
<1>4. ASSUME TypesInv, ConnInv, NEW c \in Connections, state[c] = "Connected"
      PROVE  c \in table /\ c \in epoll[loopOf[c]]
  BY <1>4 DEF ConnInv, ChannelsRegistered, RegisteredAtAll
<1>5. TypesInv /\ ConnInv /\ Counted => ChannelsAreAlive
  BY <1>1, <1>2, <1>3, <1>4 DEF ChannelsAreAlive
<1> QED BY <1>5, ServerInvariant, CountsInvariant, PTL

-----------------------------------------------------------------------------
(***************************************************************************)
(* A request is in one place at most: unread, to be done, queued, with a   *)
(* worker, in a functor that sends its answer, or answered.                *)
(***************************************************************************)

\* Where in the sequences f[d], d in D, the members of A are.
Spots(D, f, A) == {p \in D \X Nat : p[2] \in 1 .. Len(f[p[1]]) /\ f[p[1]][p[2]] \in A}

\* T has at most n elements more than S; fewer, if n is negative.
Grows(S, T, n) == IsFiniteSet(T) /\ Cardinality(T) <= Cardinality(S) + n

\* A part does not grow; neither does a set whose elements are renumbered.
LEMMA PartGrows ==
    ASSUME NEW S, IsFiniteSet(S), NEW T \in SUBSET S PROVE Grows(S, T, 0)
<1>1. /\ IsFiniteSet(T) /\ Cardinality(T) \in Nat /\ Cardinality(S) \in Nat
      /\ Cardinality(T) <= Cardinality(S)
  BY NoMore
<1> QED BY <1>1 DEF Grows

\* It grows by an element that is new, if it is one of those that count.
LEMMA AddGrows ==
    ASSUME NEW S, IsFiniteSet(S), NEW x, NEW n \in {0, 1}, NEW T,
           T \subseteq S \cup {x}, n = 0 => T \subseteq S
    PROVE  Grows(S, T, n)
<1>1. CASE n = 0
  BY <1>1, PartGrows
<1>2. CASE n = 1
  <2>1. IsFiniteSet(T) /\ Cardinality(T) <= Cardinality(S) + 1
    BY OneMore
  <2> QED BY <1>2, <2>1 DEF Grows
<1> QED BY <1>1, <1>2

\* It shrinks by one that is taken, likewise.
LEMMA TakeGrows ==
    ASSUME NEW S, IsFiniteSet(S), NEW x, NEW n \in {0, 1}, NEW T,
           T \subseteq S, n = 1 => x \in S /\ x \notin T
    PROVE  Grows(S, T, -n)
<1>1. CASE n = 0
  <2>1. Grows(S, T, 0)
    BY PartGrows
  <2> QED BY <1>1, <2>1 DEF Grows
<1>2. CASE n = 1
  <2>1. T \in SUBSET (S \ {x})
    BY <1>2
  <2>2. /\ IsFiniteSet(T) /\ Cardinality(T) \in Nat /\ Cardinality(S) \in Nat
        /\ Cardinality(T) + 1 <= Cardinality(S)
    BY <1>2, <2>1, OneLess
  <2>3. Cardinality(T) <= Cardinality(S) + (-1)
    BY <2>2
  <2> QED BY <1>2, <2>2, <2>3 DEF Grows
<1> QED BY <1>1, <1>2

\* Appending adds a spot, if the element is one that counts.
LEMMA AppendSpots ==
    ASSUME NEW D, NEW X, NEW f \in [D -> Seq(X)], NEW k \in D, NEW x \in X, NEW A,
           NEW h, h[k] = Append(f[k], x), \A d \in D : d # k => h[d] = f[d],
           IsFiniteSet(Spots(D, f, A)), NEW n \in {0, 1}, n = 1 <=> x \in A
    PROVE  Grows(Spots(D, f, A), Spots(D, h, A), n)
<1>1. /\ h[k] = Append(f[k], x) /\ f[k] \in Seq(X)
      /\ \A d \in D : d # k => h[d] = f[d]
  OBVIOUS
<1>2. PICK m \in Nat : m = Len(f[k])
  BY <1>1
<1>3. /\ Len(h[k]) = m + 1 /\ h[k][m + 1] = x
      /\ \A i \in 1 .. m : h[k][i] = f[k][i]
  BY <1>1, <1>2, AppendProperties
<1>4. ASSUME NEW d \in D, NEW i \in Nat, <<d, i>> \in Spots(D, h, A)
      PROVE  <<d, i>> \in Spots(D, f, A) \/ (<<d, i>> = <<k, m + 1>> /\ x \in A)
  <2>1. i \in 1 .. Len(h[d]) /\ h[d][i] \in A
    BY <1>4 DEF Spots
  <2>2. CASE d # k
    BY <1>1, <2>1, <2>2 DEF Spots
  <2>3. CASE d = k
    <3>1. i \in 1 .. m \/ i = m + 1
      BY <1>3, <2>1, <2>3
    <3> QED BY <1>1, <1>2, <1>3, <2>1, <2>3, <3>1 DEF Spots
  <2> QED BY <2>2, <2>3
<1>5. \A p \in Spots(D, h, A) : \E d \in D, i \in Nat : p = <<d, i>>
  BY <1>1 DEF Spots
<1>6. /\ Spots(D, h, A) \subseteq Spots(D, f, A) \cup {<<k, m + 1>>}
      /\ n = 0 => Spots(D, h, A) \subseteq Spots(D, f, A)
  BY <1>4, <1>5
<1> QED BY <1>6, AddGrows

\* Taking the first element takes its spot.
LEMMA TailSpots ==
    ASSUME NEW D, NEW X, NEW f \in [D -> Seq(X)], NEW k \in D, f[k] # << >>, NEW A,
           NEW h, h[k] = Tail(f[k]), \A d \in D : d # k => h[d] = f[d],
           IsFiniteSet(Spots(D, f, A)), NEW n \in {0, 1}, n = 1 <=> Head(f[k]) \in A
    PROVE  Grows(Spots(D, f, A), Spots(D, h, A), -n)
<1>1. /\ h[k] = Tail(f[k]) /\ f[k] \in Seq(X)
      /\ \A d \in D : d # k => h[d] = f[d]
  OBVIOUS
<1>2. PICK m \in Nat : m = Len(f[k])
  BY <1>1
<1>3. /\ m # 0 /\ Len(h[k]) = m - 1 /\ Head(f[k]) = f[k][1]
      /\ \A i \in 1 .. m - 1 : h[k][i] = f[k][i + 1]
  BY <1>1, <1>2, EmptySeq, HeadTailProperties
<1> DEFINE S == Spots(D, f, A)
           T == Spots(D, h, A)
           U == IF n = 1 THEN S \ {<<k, 1>>} ELSE S
           g == [p \in T |-> IF p[1] = k THEN <<k, p[2] + 1>> ELSE p]
<1>4. ASSUME NEW d \in D, NEW i \in Nat, <<d, i>> \in T
      PROVE  (IF d = k THEN <<k, i + 1>> ELSE <<d, i>>) \in U
  <2>1. i \in 1 .. Len(h[d]) /\ h[d][i] \in A
    BY <1>4 DEF Spots
  <2>2. CASE d # k
    BY <1>1, <2>1, <2>2 DEF Spots
  <2>3. CASE d = k
    <3>1. i \in 1 .. m - 1 /\ i + 1 \in 1 .. m /\ i + 1 # 1 /\ i + 1 \in Nat
      BY <1>3, <2>1, <2>3
    <3>2. f[k][i + 1] \in A
      BY <1>3, <2>1, <2>3, <3>1
    <3> QED BY <1>1, <1>2, <2>3, <3>1, <3>2 DEF Spots
  <2> QED BY <2>2, <2>3
<1>5. \A p \in T : \E d \in D, i \in Nat : p = <<d, i>>
  BY <1>1 DEF Spots
<1>6. g \in [T -> U]
  <2>1. ASSUME NEW p \in T PROVE (IF p[1] = k THEN <<k, p[2] + 1>> ELSE p) \in U
    <3>1. PICK d \in D, i \in Nat : p = <<d, i>>
      BY <1>5, <2>1
    <3>2. (IF d = k THEN <<k, i + 1>> ELSE <<d, i>>) \in U
      BY <1>4, <2>1, <3>1
    <3> HIDE DEF T, U
    <3> QED BY <3>1, <3>2
  <2> HIDE DEF U, T
  <2> QED BY <2>1
<1>7. ASSUME NEW p \in T, NEW q \in T, g[p] = g[q] PROVE p = q
  <2>1. PICK d1 \in D, i1 \in Nat, d2 \in D, i2 \in Nat : p = <<d1, i1>> /\ q = <<d2, i2>>
    BY <1>5, <1>7
  <2> HIDE DEF T
  <2>2. /\ g[p] = IF d1 = k THEN <<k, i1 + 1>> ELSE p
        /\ g[q] = IF d2 = k THEN <<k, i2 + 1>> ELSE q
    BY <1>7, <2>1
  <2>3. i1 + 1 = i2 + 1 => i1 = i2
    BY <2>1
  <2> QED BY <1>7, <2>1, <2>2, <2>3
<1>8. IsFiniteSet(U) /\ U \subseteq S
  BY FS_Subset
<1>9. Grows(S, U, -n)
  <2>1. n = 1 => <<k, 1>> \in S /\ <<k, 1>> \notin U
    BY <1>1, <1>2, <1>3 DEF Spots
  <2> HIDE DEF S, U
  <2> QED BY <1>8, <2>1, TakeGrows DEF S
<1> HIDE DEF S, T, U, g
<1>10. IsFiniteSet(T) /\ Cardinality(T) \in Nat /\ Cardinality(T) <= Cardinality(U)
  BY <1>6, <1>7, <1>8, Renumbered
<1>11. Cardinality(U) \in Nat /\ Cardinality(S) \in Nat
  BY <1>8, FS_CardinalityType DEF S
<1>12. Grows(S, T, -n)
  BY <1>9, <1>10, <1>11 DEF Grows
<1> QED BY <1>12 DEF S, T

\* Emptying some of the sequences adds none.
LEMMA EmptySpots ==
    ASSUME NEW D, NEW f, NEW h,
           \A d \in D : h[d] = f[d] \/ h[d] = << >>, NEW A, IsFiniteSet(Spots(D, f, A))
    PROVE  Grows(Spots(D, f, A), Spots(D, h, A), 0)
<1>1. Len(<< >>) = 0
  BY EmptySeq
<1>2. Spots(D, h, A) \subseteq Spots(D, f, A)
  <2>1. ASSUME NEW p \in Spots(D, h, A) PROVE p \in Spots(D, f, A)
    <3>1. /\ p \in D \X Nat
          /\ p[2] \in 1 .. Len(h[p[1]]) /\ h[p[1]][p[2]] \in A
      BY <2>1 DEF Spots
    <3>2. h[p[1]] # << >>
      BY <1>1, <3>1
    <3>3. h[p[1]] = f[p[1]]
      BY <3>1, <3>2
    <3> QED BY <3>1, <3>3 DEF Spots
  <2> QED BY <2>1
<1> QED BY <1>2, PartGrows

\* Sequences that have none of A have no spots.
LEMMA NoSpots ==
    ASSUME NEW D, NEW f, NEW A,
           \A d \in D : \E X : f[d] \in Seq(X) /\ X \cap A = {}
    PROVE  Spots(D, f, A) = {}
<1>1. ASSUME NEW p \in Spots(D, f, A) PROVE FALSE
  <2>1. p \in D \X Nat /\ p[2] \in 1 .. Len(f[p[1]]) /\ f[p[1]][p[2]] \in A
    BY <1>1 DEF Spots
  <2>2. PICK X : f[p[1]] \in Seq(X) /\ X \cap A = {}
    BY <2>1
  <2>3. f[p[1]][p[2]] \in X
    BY <2>1, <2>2, ElementOfSeq
  <2> QED BY <2>1, <2>2, <2>3
<1> QED BY <1>1

\* A sequence of fewer is one of more.
LEMMA SeqWider ==
    ASSUME NEW X, NEW Y, X \subseteq Y, NEW s \in Seq(X) PROVE s \in Seq(Y)
<1>1. \A i \in 1 .. Len(s) : s[i] \in Y
  BY ElementOfSeq
<1>2. Len(s) \in Nat /\ s = [i \in 1 .. Len(s) |-> s[i]]
  BY LenProperties
<1> QED BY <1>1, <1>2

\* The answers to a request.
About(r) == {a \in Answers : a.request = r}

Unread(r)  == Spots(Connections, readable, {r})
Undone(r)  == Spots(Loops, todo, {r})
Queued(r)  == Spots({0}, [x \in {0} |-> queue], {r})
Handled(r) == {w \in Workers : task[w] = r /\ worker[w] \in {"handling", "encoding", "sending"}}
Given(r)   == Spots(Connections, answers, About(r))

Copies(r) ==
    Cardinality(Unread(r)) + Cardinality(Undone(r)) + Cardinality(Queued(r))
        + Cardinality(Handled(r)) + Cardinality(Posted(About(r))) + Cardinality(Given(r))

InOnePlace(r) ==
    /\ IsFiniteSet(Unread(r)) /\ IsFiniteSet(Undone(r)) /\ IsFiniteSet(Queued(r))
    /\ IsFiniteSet(Posted(About(r))) /\ IsFiniteSet(Given(r))
    /\ Copies(r) <= 1

\* What is there is of the connection it came on, and was received; what is
\* unread was sent.
SentOn(c)     == {r \in Requests : r.conn = c /\ r.id <= inputs}
ReceivedOn(c) == {r \in received : r.conn = c}
GivenOn(c)    == {a \in Answers : a.request \in ReceivedOn(c)}

SourcesSound ==
    /\ \A c \in Connections : readable[c] \in Seq(SentOn(c))
    /\ \A r \in received : r.id <= inputs
    /\ \A l \in Loops : todo[l] \in Seq(ReceivedOn(inside[l]))

WorkSound ==
    /\ queue \in Seq(received)
    /\ \A w \in Workers :
          /\ worker[w] \in {"handling", "encoding", "sending"} => task[w] \in received
          /\ worker[w] = "sending" => locked[w] \in {None, task[w].conn}

AnswersSound ==
    /\ \A l \in Loops : \A f \in Uncalled(l) : f.do = "send" => f.arg \in GivenOn(f.conn)
    /\ \A c \in Connections : answers[c] \in Seq(GivenOn(c))

RequestsSound == SourcesSound /\ WorkSound /\ AnswersSound

\* What was received stays received.
LEMMA ReceivedStays ==
    ASSUME TypesInv, SourcesSound, Next
    PROVE  /\ received \subseteq received' /\ inputs <= inputs'
           /\ \A r \in received' : r.id <= inputs'
<1>1. inputs \in Nat /\ received \subseteq Requests
  BY DEF TypesInv, RequestTypes, InputTypes
<1>2. \A r \in Requests : r.id \in Nat
  BY DEF Requests
<1>3. CASE Input
  <2>1. inputs' = inputs + 1 /\ UNCHANGED received
    BY <1>3 DEF Input, PeerActs
  <2>2. \A r \in received : r.id <= inputs + 1
    BY <1>1, <1>2 DEF SourcesSound
  <2> QED BY <1>1, <2>1, <2>2
<1>4. ASSUME NEW l \in Loops, ReadEvent(l)
      PROVE  /\ received \subseteq received' /\ inputs <= inputs'
             /\ \A r \in received' : r.id <= inputs'
  <2>1. PICK c \in Connections :
          received' = received \cup {readable[c][i] : i \in 1 .. Len(readable[c])}
    BY <1>4 DEF ReadEvent
  <2>2. \A i \in 1 .. Len(readable[c]) : readable[c][i] \in SentOn(c)
    BY ElementOfSeq DEF SourcesSound
  <2>3. \A i \in 1 .. Len(readable[c]) : readable[c][i].id <= inputs
    BY <2>2 DEF SentOn
  <2>4. UNCHANGED inputs
    BY <1>4 DEF ReadEvent
  <2> QED BY <1>1, <2>1, <2>3, <2>4 DEF SourcesSound
<1>5. CASE UNCHANGED <<received, inputs>>
  BY <1>1, <1>5 DEF SourcesSound
<1>6. ASSUME NEW l \in Loops, LoopStep(l), ~ReadEvent(l) PROVE UNCHANGED <<received, inputs>>
  BY <1>6 DEF LoopStep, rpcVars, inputVars, CloseEvent, ReadEnds, CallSend, DecodeFails, Refuse,
     CountRequest, Admit, AdmitCounting, PostAccepted, PostRejected, AnswerRejected, At
<1>7. ASSUME NEW w \in Workers, WorkerStep(w) PROVE UNCHANGED <<received, inputs>>
  BY <1>7 DEF WorkerStep, Take, HandlerEnds, RecordAnswer, Send, WakeLoop, NobodyToTell,
     WorkerGoes, inputVars
<1> QED BY <1>3, <1>4, <1>5, <1>6, <1>7 DEF Next

\* So what was sent, received or given stays so.
LEMMA SoundSetsGrow ==
    ASSUME TypesInv, SourcesSound, Next, NEW c
    PROVE  /\ SentOn(c) \subseteq SentOn(c)' /\ ReceivedOn(c) \subseteq ReceivedOn(c)'
           /\ GivenOn(c) \subseteq GivenOn(c)'
<1>1. received \subseteq received' /\ inputs <= inputs'
  BY ReceivedStays
<1>2. inputs \in Nat
  BY DEF TypesInv, RequestTypes, InputTypes
<1>3. inputs' \in Nat
  <2>1. UNCHANGED inputs \/ inputs' = inputs + 1
    BY DEF Next, Input, PeerActs, LoopStep, rpcVars, inputVars, ReadEvent, CloseEvent, ReadEnds,
       CallSend, DecodeFails, Refuse, CountRequest, Admit, AdmitCounting, PostAccepted,
       PostRejected, AnswerRejected, At, WorkerStep, Take, HandlerEnds, RecordAnswer, Send,
       WakeLoop, NobodyToTell, WorkerGoes
  <2> QED BY <1>2, <2>1
<1>4. SentOn(c) \subseteq SentOn(c)'
  <2>1. \A r \in Requests : r.id \in Nat
    BY DEF Requests
  <2>2. \A n \in Nat : n <= inputs => n <= inputs'
    BY <1>1, <1>2, <1>3
  <2> QED BY <2>1, <2>2 DEF SentOn
<1>5. ReceivedOn(c) \subseteq ReceivedOn(c)'
  BY <1>1 DEF ReceivedOn
<1> QED BY <1>4, <1>5 DEF GivenOn

\* A peer's request, which no other is like.
LEMMA SendingIsNew ==
    ASSUME TypesInv, Input, ~UNCHANGED readable
    PROVE  \E c \in Connections, r \in Requests :
              /\ r.conn = c /\ r.id = inputs + 1 /\ inputs' = inputs + 1
              /\ readable' = [readable EXCEPT ![c] = Append(@, r)]
<1>1. inputs' = inputs + 1 /\ inputs < MaxInputs /\ inputs \in Nat /\ MaxInputs \in Nat
  BY RpcServerAssumption DEF Input, PeerActs, TypesInv, RequestTypes, InputTypes
<1>2. PICK c \in Connections, m \in Messages[inputs'] :
        PeerSends(c, [id |-> inputs', conn |-> c, message |-> m])
  BY DEF Input, Connect, PeerCloses, peerVars
<1>3. inputs' \in 1 .. MaxInputs
  BY <1>1
<1>4. [id |-> inputs', conn |-> c, message |-> m] \in Requests
  BY <1>2, <1>3 DEF Requests
<1>5. readable' = [readable EXCEPT ![c] = Append(@, [id |-> inputs', conn |-> c, message |-> m])]
  BY <1>2 DEF PeerSends
<1> QED BY <1>1, <1>4, <1>5

\* Peers, and nobody else, send; a loop that reads, reads all.
LEMMA ReadableKinds ==
    ASSUME Next, ~Input
    PROVE  \/ UNCHANGED readable
           \/ \E l \in Loops : ReadEvent(l)
<1>1. ASSUME NEW l \in Loops, LoopStep(l), ~ReadEvent(l) PROVE UNCHANGED readable
  BY <1>1 DEF LoopStep, ServerRound, PollLoop, CallEstablished, CallDestroyed, serverVars, peerVars,
     BaseStep, AcceptEvent, Accept, AcceptDone, AcceptEnds, CallRemove, CloseEvent, ReadEnds,
     CallSend, DecodeFails, Refuse, CountRequest, Admit, AdmitCounting, PostAccepted, PostRejected,
     AnswerRejected, At
<1>2. ASSUME NEW w \in Workers, WorkerStep(w) PROVE UNCHANGED readable
  BY <1>2 DEF WorkerStep, Take, HandlerEnds, RecordAnswer, Send, WakeLoop, NobodyToTell,
     WorkerGoes, peerVars
<1> QED BY <1>1, <1>2 DEF Next

\* What is unread was sent by the connection's peer.
LEMMA NextKeepsReadable ==
    ASSUME TypesInv, SourcesSound, Next, NEW c \in Connections
    PROVE  readable'[c] \in Seq(SentOn(c)')
<1>1. readable[c] \in Seq(SentOn(c)')
  BY SoundSetsGrow, SeqWider DEF SourcesSound
<1>2. readable \in [Connections -> Seq(Requests)] /\ inputs \in Nat
  BY DEF TypesInv, ServerTypes, PeerTypes, RequestTypes, InputTypes
<1>3. CASE UNCHANGED readable
  BY <1>1, <1>3
<1>4. ASSUME NEW d \in Connections, NEW r \in Requests, r.conn = d, r.id = inputs + 1,
             inputs' = inputs + 1, readable' = [readable EXCEPT ![d] = Append(@, r)]
      PROVE  readable'[c] \in Seq(SentOn(c)')
  <2>1. CASE c = d
    <3>1. r \in SentOn(c)'
      BY <1>2, <1>4, <2>1 DEF SentOn
    <3>2. readable'[c] = Append(readable[c], r)
      BY <1>2, <1>4, <2>1
    <3> QED BY <1>1, <3>1, <3>2, AppendProperties
  <2>2. CASE c # d
    BY <1>1, <1>2, <1>4, <2>2
  <2> QED BY <2>1, <2>2
<1>5. ASSUME NEW l \in Loops, ReadEvent(l) PROVE readable'[c] \in Seq(SentOn(c)')
  <2>1. readable'[c] = readable[c] \/ readable'[c] = << >>
    BY <1>2, <1>5 DEF ReadEvent
  <2> QED BY <1>1, <2>1, EmptySeq
<1> QED BY <1>3, <1>4, <1>5, ReadableKinds, SendingIsNew

\* What there is to be done on a loop, and the handler it is in.
TodoStays(k) == todo'[k] = todo[k] /\ (inside'[k] = inside[k] \/ todo[k] = << >>)
TodoShrinks(k) == /\ inside'[k] = inside[k] /\ todo[k] # << >> /\ todo'[k] = Tail(todo[k])

\* The handler a loop enters reads all there is; what it has read is dropped,
\* or handled from the first on.
LEMMA TodoKinds ==
    ASSUME TypesInv, SourcesSound, Next, NEW k \in Loops
    PROVE  \/ TodoStays(k) \/ TodoShrinks(k)
           \/ todo'[k] = << >>
           \/ ReadEvent(k)
<1>1. /\ inside \in [Loops -> Connections \cup {Acceptor, None}]
      /\ todo \in [Loops -> Seq(Requests)] /\ Base \in Loops
  BY ServerAssumption DEF TypesInv, LoopInv, LoopTypes, RequestTypes, InputTypes
<1>2. inside[k] \notin Connections => todo[k] = << >>
  <2>1. inside[k] \notin Connections => ReceivedOn(inside[k]) = {}
    BY DEF ReceivedOn, TypesInv, RequestTypes, InputTypes, Requests
  <2>2. \A s \in Seq({}) : s = << >>
    <3> TAKE s \in Seq({})
    <3>1. Len(s) \in Nat /\ \A i \in 1 .. Len(s) : s[i] \in {}
      BY ElementOfSeq
    <3>2. Len(s) = 0
      <4>1. 1 \notin 1 .. Len(s)
        BY <3>1
      <4> QED BY <3>1, <4>1
    <3> QED BY <3>2, EmptySeq
  <2> QED BY <2>1, <2>2 DEF SourcesSound
<1>3. CASE UNCHANGED <<todo, inside>>
  BY <1>3 DEF TodoStays
<1>4. CASE Input
  BY <1>3, <1>4 DEF Input, Connect, PeerCloses, PeerSends, Peer, PeerActs, roundVars
<1>5. ASSUME NEW w \in Workers, WorkerStep(w) PROVE UNCHANGED <<todo, inside>>
  BY <1>5 DEF WorkerStep, Take, HandlerEnds, RecordAnswer, Send, WakeLoop, NobodyToTell, WorkerGoes,
     inputVars, roundVars, Wake
<1>6. ASSUME NEW l \in Loops, ServerRound(l), UNCHANGED rpcVars PROVE UNCHANGED <<todo, inside>>
  BY <1>6 DEF ServerRound, rpcVars, inputVars, PollLoop, Poll, HandleWakeupRead, SwapFunctors, Wake,
     CallEstablished, CallDestroyed, Calling
<1>7. ASSUME BaseStep, UNCHANGED rpcVars PROVE TodoStays(k)
  <2>1. UNCHANGED todo
    BY <1>7 DEF rpcVars, inputVars
  <2>2. inside'[k] = inside[k] \/ inside[k] \in {Acceptor, None}
    BY <1>1, <1>7 DEF BaseStep, AcceptEvent, Enter, Handling, Accept, roundVars, AcceptDone,
       AcceptEnds, Leave, Inside, CallRemove, Calling
  <2>3. inside[k] \in {Acceptor, None} => todo[k] = << >>
    BY <1>2, ChannelsAssumption
  <2> QED BY <2>1, <2>2, <2>3 DEF TodoStays
<1>8. ASSUME NEW l \in Loops, ReadEvent(l) PROVE TodoStays(k) \/ ReadEvent(k)
  <2>1. CASE k = l
    BY <1>8, <2>1
  <2>2. CASE k # l
    <3>1. inside'[k] = inside[k] /\ todo'[k] = todo[k]
      BY <1>1, <1>8, <2>2 DEF ReadEvent, Enter
    <3> QED BY <3>1 DEF TodoStays
  <2> QED BY <2>1, <2>2
<1>9. ASSUME NEW l \in Loops, CloseEvent(l) PROVE UNCHANGED <<todo, inside>>
  BY <1>9 DEF CloseEvent, rpcVars, inputVars
<1>10. ASSUME NEW l \in Loops, ReadEnds(l) PROVE TodoStays(k)
  <2>1. UNCHANGED todo /\ todo[l] = << >> /\ inside' = [inside EXCEPT ![l] = None]
    BY <1>10 DEF ReadEnds, Leave
  <2> QED BY <1>1, <2>1 DEF TodoStays
<1>11. ASSUME NEW l \in Loops, CallSend(l) \/ CountRequest(l) \/ Admit(l) \/ PostRejected(l)
       PROVE  UNCHANGED <<todo, inside>>
  BY <1>11 DEF CallSend, Calling, inputVars, CountRequest, Admit, AdmitCounting, PostRejected, At,
     roundVars
<1>12. ASSUME NEW l \in Loops, DecodeFails(l) PROVE TodoStays(k) \/ todo'[k] = << >>
  <2>1. todo' = [todo EXCEPT ![l] = << >>] /\ UNCHANGED inside
    BY <1>12 DEF DecodeFails, At, roundVars
  <2> QED BY <1>1, <2>1 DEF TodoStays
<1>13. ASSUME NEW l \in Loops, Refuse(l) \/ PostAccepted(l) \/ AnswerRejected(l)
       PROVE  TodoStays(k) \/ TodoShrinks(k)
  <2>1. todo' = [todo EXCEPT ![l] = Tail(@)] /\ UNCHANGED inside /\ todo[l] # << >>
    BY <1>13 DEF Refuse, PostAccepted, AnswerRejected, SendError, RequestHandled, At, roundVars
  <2> QED BY <1>1, <2>1 DEF TodoStays, TodoShrinks
<1> QED BY <1>3, <1>4, <1>5, <1>6, <1>7, <1>8, <1>9, <1>10, <1>11, <1>12, <1>13 DEF Next, LoopStep

\* What a loop has read is of the connection whose handler it is in.
LEMMA NextKeepsTodo ==
    ASSUME TypesInv, SourcesSound, Next, NEW k \in Loops
    PROVE  todo'[k] \in Seq(ReceivedOn(inside[k])')
<1>1. PICK c, d : c = inside[k] /\ d = inside'[k]
  OBVIOUS
<1>2. todo[k] \in Seq(ReceivedOn(c))
  BY <1>1 DEF SourcesSound
<1>3. todo[k] \in Seq(ReceivedOn(c)')
  BY <1>2, SoundSetsGrow, SeqWider
<1>4. todo'[k] \in Seq(ReceivedOn(d)')
  <2>1. CASE TodoStays(k)
    BY <1>1, <1>3, <2>1, EmptySeq DEF TodoStays
  <2>2. CASE TodoShrinks(k)
    BY <1>1, <1>3, <2>2, HeadTailProperties DEF TodoShrinks
  <2>3. CASE todo'[k] = << >>
    BY <2>3, EmptySeq
  <2>4. CASE ReadEvent(k)
    <3>1. /\ inside \in [Loops -> Connections \cup {Acceptor, None}]
          /\ todo \in [Loops -> Seq(Requests)]
      BY DEF TypesInv, LoopInv, LoopTypes, RequestTypes, InputTypes
    <3>2. PICK e \in Connections :
            /\ inside' = [inside EXCEPT ![k] = e] /\ todo' = [todo EXCEPT ![k] = readable[e]]
            /\ received' = received \cup {readable[e][i] : i \in 1 .. Len(readable[e])}
      BY <2>4 DEF ReadEvent, Enter
    <3>3. d = e /\ todo'[k] = readable[e]
      BY <1>1, <3>1, <3>2
    <3>4. readable[e] \in Seq(SentOn(e))
      BY DEF SourcesSound
    <3>5. \A i \in 1 .. Len(readable[e]) : readable[e][i] \in ReceivedOn(e)'
      BY <3>2, <3>4, ElementOfSeq DEF SentOn, ReceivedOn
    <3>6. Len(readable[e]) \in Nat /\ readable[e] = [i \in 1 .. Len(readable[e]) |-> readable[e][i]]
      BY <3>4, LenProperties
    <3>7. readable[e] \in Seq(ReceivedOn(e)')
      BY <3>5, <3>6
    <3> QED BY <3>3, <3>7
  <2> QED BY <2>1, <2>2, <2>3, <2>4, TodoKinds
<1>5. ReceivedOn(d)' = ReceivedOn(inside[k])'
  BY <1>1 DEF ReceivedOn
<1> QED BY <1>4, <1>5

\* The request a loop is at.
LEMMA AtHead ==
    ASSUME SourcesSound, NEW l \in Loops, NEW c, NEW label, At(l, c, label)
    PROVE  /\ Head(todo[l]) \in received /\ Head(todo[l]).conn = c
           /\ Head(todo[l]) \in ReceivedOn(c)
<1>1. inside[l] = c /\ todo[l] # << >> /\ todo[l] \in Seq(ReceivedOn(c))
  BY DEF At, Inside, SourcesSound
<1>2. Head(todo[l]) \in ReceivedOn(c)
  BY <1>1, HeadTailProperties
<1> QED BY <1>2 DEF ReceivedOn

\* A loop posts the request it is at.
Enqueues(l) == \E c \in Connections : At(l, c, "post") /\ queue' = Append(queue, Head(todo[l]))

\* How the queue changes: a loop appends to it, or a worker takes the first.
LEMMA QueueKinds ==
    ASSUME Next
    PROVE  \/ UNCHANGED queue
           \/ \E l \in Loops : Enqueues(l)
           \/ queue # << >> /\ queue' = Tail(queue)
<1>1. CASE Input
  BY <1>1 DEF Input, PeerActs, workerVars
<1>2. ASSUME NEW l \in Loops, LoopStep(l) PROVE UNCHANGED queue \/ Enqueues(l)
  BY <1>2 DEF LoopStep, rpcVars, workerVars, ReadEvent, CloseEvent, ReadEnds, CallSend, DecodeFails,
     Refuse, CountRequest, Admit, AdmitCounting, PostAccepted, PostRejected, AnswerRejected,
     Enqueues
<1>3. ASSUME NEW w \in Workers, WorkerStep(w)
      PROVE  UNCHANGED queue \/ (queue # << >> /\ queue' = Tail(queue))
  BY <1>3 DEF WorkerStep, Take, HandlerEnds, RecordAnswer, Send, WakeLoop, NobodyToTell, TaskEnds
<1> QED BY <1>1, <1>2, <1>3 DEF Next

\* How the workers change.
LEMMA WorkerKinds ==
    ASSUME Next
    PROVE  UNCHANGED <<worker, task, locked>> \/ \E w \in Workers : WorkerStep(w)
<1>1. CASE Input
  BY <1>1 DEF Input, PeerActs, Connect, PeerCloses, PeerSends, Peer, workerVars
<1>2. ASSUME NEW l \in Loops, LoopStep(l) PROVE UNCHANGED <<worker, task, locked>>
  BY <1>2 DEF LoopStep, rpcVars, workerVars, ReadEvent, CloseEvent, ReadEnds, CallSend, DecodeFails,
     Refuse, CountRequest, Admit, AdmitCounting, PostAccepted, PostRejected, AnswerRejected, At,
     ServerRound, PollLoop, serverVars, CallEstablished, CallDestroyed, BaseStep, AcceptEvent,
     Accept, AcceptDone, AcceptEnds, CallRemove
<1> QED BY <1>1, <1>2 DEF Next

\* What is queued, and what the workers are at, was received; a worker answers
\* on the connection of its request or not at all.
LEMMA NextKeepsWork ==
    ASSUME TypesInv, RequestsSound, Next PROVE WorkSound'
<1>1. /\ SourcesSound /\ WorkSound /\ received \subseteq received'
      /\ worker \in [Workers -> {"idle", "handling", "encoding", "sending", "waking"}]
      /\ task \in [Workers -> Requests \cup {NoRequest}]
      /\ locked \in [Workers -> Connections \cup {None}]
  BY ReceivedStays DEF RequestsSound, TypesInv, RequestTypes, WorkTypes, ServerTypes, PeerTypes
<1>2. queue' \in Seq(received')
  <2>1. queue \in Seq(received')
    BY <1>1, SeqWider DEF WorkSound
  <2>2. ASSUME NEW l \in Loops, Enqueues(l) PROVE queue' \in Seq(received')
    <3>1. Head(todo[l]) \in received' /\ queue' = Append(queue, Head(todo[l]))
      BY <1>1, <2>2, AtHead DEF Enqueues
    <3> QED BY <2>1, <3>1, AppendProperties
  <2> QED BY <2>1, <2>2, QueueKinds, HeadTailProperties
<1>3. ASSUME NEW v \in Workers
      PROVE  /\ worker'[v] \in {"handling", "encoding", "sending"} => task'[v] \in received'
             /\ worker'[v] = "sending" => locked'[v] \in {None, task'[v].conn}
  <2>1. /\ worker[v] \in {"handling", "encoding", "sending"} => task[v] \in received'
        /\ worker[v] = "sending" => locked[v] \in {None, task[v].conn}
    BY <1>1 DEF WorkSound
  <2>2. CASE worker'[v] = worker[v] /\ task'[v] = task[v] /\ locked'[v] = locked[v]
    BY <2>1, <2>2
  <2>3. ASSUME NEW w \in Workers, Take(w)
        PROVE  w = v => worker'[v] = "handling" /\ task'[v] \in received'
    <3>1. /\ worker' = [worker EXCEPT ![w] = "handling"] /\ queue # << >>
          /\ task' = [task EXCEPT ![w] = Head(queue)]
      BY <2>3 DEF Take, WorkerGoes
    <3>2. Head(queue) \in received
      BY <1>1, <3>1, HeadTailProperties DEF WorkSound
    <3> QED BY <1>1, <3>1, <3>2
  <2>4. ASSUME NEW w \in Workers, RecordAnswer(w)
        PROVE  w = v => /\ worker[v] = "encoding" /\ task'[v] = task[v]
                        /\ locked'[v] \in {None, task[v].conn}
    <3>1. /\ worker[w] = "encoding" /\ UNCHANGED task
          /\ locked' = [locked EXCEPT ![w] = IF Referenced(task[w].conn) THEN task[w].conn
                                             ELSE None]
      BY <2>4 DEF RecordAnswer, WorkerGoes
    <3> QED BY <1>1, <3>1
  <2>8. ASSUME NEW w \in Workers, HandlerEnds(w)
        PROVE  w = v => worker[v] = "handling" /\ worker'[v] = "encoding" /\ task'[v] = task[v]
    <3>1. /\ worker[w] = "handling" /\ worker' = [worker EXCEPT ![w] = "encoding"]
          /\ UNCHANGED task
      BY <2>8 DEF HandlerEnds, WorkerGoes
    <3> QED BY <1>1, <3>1
  <2>5. ASSUME NEW w \in Workers, Send(w) \/ WakeLoop(w) \/ NobodyToTell(w)
        PROVE  w = v => worker'[v] \in {"idle", "waking"}
    <3>1. \E to \in {"idle", "waking"} : worker' = [worker EXCEPT ![w] = to]
      BY <2>5 DEF Send, WakeLoop, NobodyToTell, WorkerGoes
    <3> QED BY <1>1, <3>1
  <2>6. ASSUME NEW w \in Workers, WorkerStep(w), w # v
        PROVE  worker'[v] = worker[v] /\ task'[v] = task[v] /\ locked'[v] = locked[v]
    <3>1. \E to : worker' = [worker EXCEPT ![w] = to]
      BY <2>6 DEF WorkerStep, Take, HandlerEnds, RecordAnswer, Send, WakeLoop, NobodyToTell,
         WorkerGoes
    <3>2. UNCHANGED task \/ \E r : task' = [task EXCEPT ![w] = r]
      BY <2>6 DEF WorkerStep, Take, HandlerEnds, RecordAnswer, Send, WakeLoop, NobodyToTell,
         TaskEnds
    <3>3. UNCHANGED locked \/ \E c : locked' = [locked EXCEPT ![w] = c]
      BY <2>6 DEF WorkerStep, Take, HandlerEnds, RecordAnswer, Send, WakeLoop, NobodyToTell,
         TaskEnds
    <3> QED BY <1>1, <2>6, <3>1, <3>2, <3>3
  <2>7. ASSUME NEW w \in Workers, WorkerStep(w)
        PROVE  /\ worker'[v] \in {"handling", "encoding", "sending"} => task'[v] \in received'
               /\ worker'[v] = "sending" => locked'[v] \in {None, task'[v].conn}
    <3>1. CASE w # v
      BY <2>2, <2>6, <2>7, <3>1
    <3>2. CASE w = v
      BY <2>1, <2>3, <2>4, <2>5, <2>7, <2>8, <3>2 DEF WorkerStep
    <3> QED BY <3>1, <3>2
  <2> QED BY <2>2, <2>7, WorkerKinds
<1> QED BY <1>2, <1>3 DEF WorkSound

\* What a worker sends is the answer to the request it has handled.
LEMMA SendHandsOver ==
    ASSUME TypesInv, ConnInv, WorkSound, NEW w \in Workers, Send(w)
    PROVE  \E k \in Loops, f \in FunctorSet :
              /\ QueueInLoop(w, k, f) /\ f.do = "send"
              /\ f.arg \in GivenOn(f.conn) /\ f.arg.request = task[w]
<1>1. worker[w] = "sending" /\ locked[w] # None
  BY DEF Send, WorkerGoes
<1>2. locked[w] \in Connections /\ Referenced(locked[w])
  BY <1>1 DEF TypesInv, ServerTypes, PeerTypes, Referenced
<1>3. loopOf[locked[w]] \in Loops
  BY <1>2, LoopOfReferred DEF ConnInv
<1>4. Answer(task[w], code[w]) \in Answers
  BY <1>1 DEF TypesInv, RequestTypes, WorkTypes, Answer, Answers
<1>5. PICK f : f = Functor("send", locked[w], Answer(task[w], code[w]))
  OBVIOUS
<1>6. f \in FunctorSet
  BY <1>2, <1>4, <1>5, FunctorIsTyped
<1>7. f.do = "send" /\ f.conn = locked[w] /\ f.arg = Answer(task[w], code[w])
  BY <1>5 DEF Functor
<1>8. task[w] \in received /\ task[w].conn = locked[w]
  BY <1>1 DEF WorkSound
<1>9. f.arg.request = task[w]
  BY <1>7 DEF Answer
<1>10. f.arg \in GivenOn(f.conn)
  BY <1>4, <1>7, <1>8, <1>9 DEF GivenOn, ReceivedOn
<1>11. QueueInLoop(w, loopOf[locked[w]], f)
  BY <1>5 DEF Send
<1> QED BY <1>3, <1>6, <1>7, <1>9, <1>10, <1>11

\* The answer a loop is about to send.
LEMMA CallSendGives ==
    ASSUME TypesInv, AnswersSound, NEW l \in Loops, CallSend(l)
    PROVE  /\ NextFunctor(l).conn \in Connections /\ NextFunctor(l).arg \in Answers
           /\ NextFunctor(l).arg \in GivenOn(NextFunctor(l).conn)
           /\ Calling(l, "send") /\ SendInLoop(l, NextFunctor(l).conn, NextFunctor(l).arg)
<1>1. Calling(l, "send") /\ SendInLoop(l, NextFunctor(l).conn, NextFunctor(l).arg)
  BY DEF CallSend
<1>2. /\ NextFunctor(l).conn \in Connections /\ NextFunctor(l).do = "send"
      /\ NextFunctor(l) \in Uncalled(l)
  BY <1>1, CallingTakes DEF TypesInv
<1>3. NextFunctor(l).arg \in GivenOn(NextFunctor(l).conn)
  BY <1>2 DEF AnswersSound
<1> QED BY <1>1, <1>2, <1>3 DEF GivenOn

\* The error a loop answers with.
LEMMA ErrorGives ==
    ASSUME TypesInv, SourcesSound, NEW l \in Loops, Refuse(l) \/ AnswerRejected(l)
    PROVE  \E c \in Connections, a \in Answers :
              /\ SendInLoop(l, c, a) /\ a \in GivenOn(c) /\ a.request = Head(todo[l])
              /\ todo[l] # << >> /\ todo' = [todo EXCEPT ![l] = Tail(@)] /\ UNCHANGED workerVars
<1>1. PICK c \in Connections, label \in {"decode", "handle", "post", "reject"}, e \in Codes :
        At(l, c, label) /\ SendError(l, c, Head(todo[l]), e) /\ UNCHANGED workerVars
  <2>1. CASE Refuse(l)
    BY <2>1, VerdictIsCode DEF Refuse
  <2>2. CASE AnswerRejected(l)
    BY <2>2 DEF AnswerRejected, Codes
  <2> QED BY <2>1, <2>2
<1>2. PICK a : a = Answer(Head(todo[l]), e)
  OBVIOUS
<1>3. Head(todo[l]) \in ReceivedOn(c) /\ Head(todo[l]) \in received /\ todo[l] # << >>
  BY <1>1, AtHead DEF At
<1>4. a.request = Head(todo[l]) /\ a \in Answers
  BY <1>2, <1>3 DEF Answer, Answers, TypesInv, RequestTypes, InputTypes
<1>5. a \in GivenOn(c)
  BY <1>3, <1>4 DEF GivenOn
<1> QED BY <1>1, <1>2, <1>3, <1>4, <1>5 DEF SendError, RequestHandled

\* Answer a is written on connection c, which is up.
Writes(c, a) == /\ answers' = [answers EXCEPT ![c] = Append(@, a)]
                /\ state[c] = "Connected" /\ UNCHANGED <<queueVars, state, channelVars>>

\* What is sent is written so, or not at all.
LEMMA SendWritesOrNot ==
    ASSUME NEW l, NEW c, NEW a, SendInLoop(l, c, a)
    PROVE  UNCHANGED answers \/ Writes(c, a)
BY DEF SendInLoop, Write, Writes

\* Nothing else is.
LEMMA AnswerKinds ==
    ASSUME Next
    PROVE  UNCHANGED answers \/ \E l \in Loops : CallSend(l) \/ Refuse(l) \/ AnswerRejected(l)
<1>1. CASE Input
  BY <1>1 DEF Input, PeerActs
<1>2. ASSUME NEW l \in Loops, LoopStep(l)
      PROVE  UNCHANGED answers \/ CallSend(l) \/ Refuse(l) \/ AnswerRejected(l)
  BY <1>2 DEF LoopStep, rpcVars, ReadEvent, CloseEvent, ReadEnds, DecodeFails, CountRequest, Admit,
     AdmitCounting, PostAccepted, PostRejected
<1>3. ASSUME NEW w \in Workers, WorkerStep(w) PROVE UNCHANGED answers
  BY <1>3 DEF WorkerStep, Take, HandlerEnds, RecordAnswer, Send, WakeLoop, NobodyToTell, WorkerGoes
<1> QED BY <1>1, <1>2, <1>3 DEF Next

\* Answers are about requests that were received, and go where they came from.
LEMMA NextKeepsAnswers ==
    ASSUME TypesInv, ConnInv, RequestsSound, Next PROVE AnswersSound'
<1>1. SourcesSound /\ WorkSound /\ AnswersSound /\ LoopInv /\ LoopTypes
  BY DEF RequestsSound, TypesInv, LoopInv
<1>2. \A c : GivenOn(c) \subseteq GivenOn(c)'
  BY <1>1, SoundSetsGrow
<1>3. ASSUME NEW l \in Loops, NEW f \in Uncalled(l)', f.do = "send"
      PROVE  f.arg \in GivenOn(f.conn)'
  <2>1. CASE f \in Uncalled(l)
    BY <1>1, <1>2, <1>3, <2>1 DEF AnswersSound
  <2>2. ASSUME f \in FunctorSet, NEW t, QueueInLoop(t, l, f) PROVE f.arg \in GivenOn(f.conn)'
    <3>1. PICK w \in Workers : Send(w)
      BY <1>3, <2>2, OnlySendSends
    <3>2. PICK k \in Loops, g \in FunctorSet : QueueInLoop(w, k, g) /\ g.arg \in GivenOn(g.conn)
      BY <1>1, <3>1, SendHandsOver
    <3>3. f = g
      BY <1>1, <2>2, <3>2, QueueIsOne
    <3> QED BY <1>2, <3>2, <3>3
  <2> QED BY <1>1, <2>1, <2>2, NextIsRound, RoundUncalled
<1>4. ASSUME NEW c \in Connections PROVE answers'[c] \in Seq(GivenOn(c)')
  <2>1. answers[c] \in Seq(GivenOn(c)')
    BY <1>1, <1>2, SeqWider DEF AnswersSound
  <2>2. ASSUME NEW d \in Connections, NEW a \in GivenOn(d), Writes(d, a)
        PROVE  answers'[c] \in Seq(GivenOn(c)')
    <3>1. answers \in [Connections -> Seq(Answers)]
      BY DEF TypesInv, RequestTypes, AnswerTypes
    <3>2. answers'[c] = IF c = d THEN Append(answers[c], a) ELSE answers[c]
      BY <2>2, <3>1 DEF Writes
    <3>3. c = d => a \in GivenOn(c)'
      BY <1>2
    <3> QED BY <2>1, <3>2, <3>3, AppendProperties
  <2>3. ASSUME NEW l \in Loops, CallSend(l) PROVE answers'[c] \in Seq(GivenOn(c)')
    BY <1>1, <2>1, <2>2, <2>3, CallSendGives, SendWritesOrNot
  <2>4. ASSUME NEW l \in Loops, Refuse(l) \/ AnswerRejected(l)
        PROVE  answers'[c] \in Seq(GivenOn(c)')
    BY <1>1, <2>1, <2>2, <2>4, ErrorGives, SendWritesOrNot
  <2> QED BY <2>1, <2>3, <2>4, AnswerKinds
<1> QED BY <1>3, <1>4 DEF AnswersSound

\* Every step keeps all that.
LEMMA NextKeepsRequests ==
    ASSUME TypesInv, ConnInv, RequestsSound, Next PROVE RequestsSound'
<1>1. SourcesSound
  BY DEF RequestsSound
<1>2. SourcesSound'
  BY <1>1, NextKeepsReadable, ReceivedStays, NextKeepsTodo DEF SourcesSound
<1> QED BY <1>2, NextKeepsWork, NextKeepsAnswers DEF RequestsSound

\* The workers that are at a request are finitely many.
LEMMA HandledIsFinite ==
    ASSUME NEW r PROVE IsFiniteSet(Handled(r)) /\ IsFiniteSet(Handled(r)')
<1>1. Handled(r) \subseteq Threads /\ Handled(r)' \subseteq Threads
  BY DEF Handled, Threads
<1> QED BY <1>1, RpcServerAssumption, FS_Subset

\* The copies of a request are counted by number.
LEMMA CopiesAreCounted ==
    ASSUME NEW r, InOnePlace(r)
    PROVE  /\ Cardinality(Unread(r)) \in Nat /\ Cardinality(Undone(r)) \in Nat
           /\ Cardinality(Queued(r)) \in Nat /\ Cardinality(Handled(r)) \in Nat
           /\ Cardinality(Posted(About(r))) \in Nat /\ Cardinality(Given(r)) \in Nat
BY HandledIsFinite, FS_CardinalityType DEF InOnePlace

\* It is enough to count how the six places change.
LEMMA CopiesAddUp ==
    ASSUME NEW r, InOnePlace(r),
           NEW a \in Int, Grows(Unread(r), Unread(r)', a),
           NEW b \in Int, Grows(Undone(r), Undone(r)', b),
           NEW c \in Int, Grows(Queued(r), Queued(r)', c),
           NEW d \in Int, Grows(Handled(r), Handled(r)', d),
           NEW e \in Int, Grows(Posted(About(r)), Posted(About(r))', e),
           NEW g \in Int, Grows(Given(r), Given(r)', g),
           NEW n \in Int, n = a + b + c + d + e + g, Copies(r) + n <= 1
    PROVE  InOnePlace(r)'
<1>1. /\ IsFiniteSet(Unread(r)') /\ IsFiniteSet(Undone(r)') /\ IsFiniteSet(Queued(r)')
      /\ IsFiniteSet(Handled(r)') /\ IsFiniteSet(Posted(About(r))') /\ IsFiniteSet(Given(r)')
  BY DEF Grows
<1>2. /\ Cardinality(Unread(r)') \in Nat /\ Cardinality(Undone(r)') \in Nat
      /\ Cardinality(Queued(r)') \in Nat /\ Cardinality(Handled(r)') \in Nat
      /\ Cardinality(Posted(About(r))') \in Nat /\ Cardinality(Given(r)') \in Nat
  BY <1>1, FS_CardinalityType
<1>3. PICK u \in Nat, v \in Nat, w \in Nat, x \in Nat, y \in Nat, z \in Nat :
        /\ u = Cardinality(Unread(r)) /\ v = Cardinality(Undone(r)) /\ w = Cardinality(Queued(r))
        /\ x = Cardinality(Handled(r)) /\ y = Cardinality(Posted(About(r)))
        /\ z = Cardinality(Given(r))
  BY CopiesAreCounted
<1>4. PICK u1 \in Nat, v1 \in Nat, w1 \in Nat, x1 \in Nat, y1 \in Nat, z1 \in Nat :
        /\ u1 = Cardinality(Unread(r)') /\ v1 = Cardinality(Undone(r)')
        /\ w1 = Cardinality(Queued(r)') /\ x1 = Cardinality(Handled(r)')
        /\ y1 = Cardinality(Posted(About(r))') /\ z1 = Cardinality(Given(r)')
  BY <1>2
<1>5. /\ u1 <= u + a /\ v1 <= v + b /\ w1 <= w + c /\ x1 <= x + d /\ y1 <= y + e /\ z1 <= z + g
  BY <1>3, <1>4 DEF Grows
<1>6. Copies(r) = u + v + w + x + y + z
  BY <1>3 DEF Copies
<1>7. u1 + v1 + w1 + x1 + y1 + z1 <= 1
  BY <1>5, <1>6
<1>8. Copies(r)' <= 1
  BY <1>4, <1>7 DEF Copies
<1> QED BY <1>1, <1>8 DEF InOnePlace

\* Nor more than one, when what they lose is what they gain.
LEMMA CopiesBalance ==
    ASSUME NEW r, InOnePlace(r),
           NEW a \in Int, Grows(Unread(r), Unread(r)', a),
           NEW b \in Int, Grows(Undone(r), Undone(r)', b),
           NEW c \in Int, Grows(Queued(r), Queued(r)', c),
           NEW d \in Int, Grows(Handled(r), Handled(r)', d),
           NEW e \in Int, Grows(Posted(About(r)), Posted(About(r))', e),
           NEW g \in Int, Grows(Given(r), Given(r)', g),
           a + b + c + d + e + g <= 0
    PROVE  InOnePlace(r)'
<1>1. PICK n \in Int : n = a + b + c + d + e + g /\ n <= 0
  OBVIOUS
<1>2. PICK m : m = Copies(r)
  OBVIOUS
<1>3. m \in Nat /\ m <= 1
  BY <1>2, CopiesAreCounted DEF Copies, InOnePlace
<1>4. Copies(r) + n <= 1
  BY <1>1, <1>2, <1>3
<1> QED BY <1>1, <1>4, CopiesAddUp

\* A place no step is about stays as it is.
LEMMA PlacesStay ==
    ASSUME NEW r, InOnePlace(r)
    PROVE  /\ UNCHANGED readable => Grows(Unread(r), Unread(r)', 0)
           /\ UNCHANGED todo => Grows(Undone(r), Undone(r)', 0)
           /\ UNCHANGED queue => Grows(Queued(r), Queued(r)', 0)
           /\ UNCHANGED <<worker, task>> => Grows(Handled(r), Handled(r)', 0)
           /\ UNCHANGED answers => Grows(Given(r), Given(r)', 0)
<1>1. /\ UNCHANGED readable => Unread(r)' \subseteq Unread(r)
      /\ UNCHANGED todo => Undone(r)' \subseteq Undone(r)
      /\ UNCHANGED queue => Queued(r)' \subseteq Queued(r)
      /\ UNCHANGED <<worker, task>> => Handled(r)' \subseteq Handled(r)
      /\ UNCHANGED answers => Given(r)' \subseteq Given(r)
  BY DEF Unread, Undone, Queued, Handled, Given
<1> QED BY <1>1, HandledIsFinite, PartGrows DEF InOnePlace

\* When no worker sends, the functors that send the answer are not more, and
\* one fewer when one is called.
LEMMA PostsStay ==
    ASSUME TypesInv, ConnInv, Next, NEW r, InOnePlace(r),
           \/ UNCHANGED worker
           \/ \E v \in Workers, to \in {"idle", "handling", "encoding", "sending"} :
                 worker' = [worker EXCEPT ![v] = to]
    PROVE  /\ Grows(Posted(About(r)), Posted(About(r))', 0)
           /\ \A l \in Loops : Calling(l, "send") /\ NextFunctor(l).arg \in About(r) =>
                 Grows(Posted(About(r)), Posted(About(r))', -1)
<1>1. IsFiniteSet(Posted(About(r))) /\ Cardinality(Posted(About(r))) \in Nat
  BY FS_CardinalityType DEF InOnePlace
<1>2. \A w \in Workers : ~Send(w)
  BY SendGoes DEF TypesInv, RequestTypes
<1>3. PICK A : A = About(r)
  OBVIOUS
<1>4. /\ IsFiniteSet(Posted(A)') /\ Cardinality(Posted(A)') \in Nat
      /\ Cardinality(Posted(A)') <= Cardinality(Posted(A))
      /\ \A l \in Loops : Calling(l, "send") /\ NextFunctor(l).arg \in A =>
            Cardinality(Posted(A)') + 1 <= Cardinality(Posted(A))
  BY <1>1, <1>2, <1>3, NobodySends
<1>5. Posted(About(r))' = Posted(A)'
  BY <1>3 DEF About
<1>6. Grows(Posted(A), Posted(A)', 0)
  BY <1>1, <1>3, <1>4 DEF Grows
<1>7. ASSUME NEW l \in Loops, Calling(l, "send"), NextFunctor(l).arg \in A
      PROVE  Grows(Posted(A), Posted(A)', -1)
  <2>1. Cardinality(Posted(A)') + 1 <= Cardinality(Posted(A))
    BY <1>4, <1>7
  <2>2. Cardinality(Posted(A)') <= Cardinality(Posted(A)) + (-1)
    BY <1>1, <1>3, <1>4, <2>1
  <2> QED BY <1>4, <2>2 DEF Grows
<1> QED BY <1>3, <1>5, <1>6, <1>7

\* A step that touches none of the places.
LEMMA AsideKeepsPlaces ==
    ASSUME TypesInv, ConnInv, Next, NEW r, InOnePlace(r),
           UNCHANGED <<readable, todo, queue, worker, task, answers>>
    PROVE  InOnePlace(r)'
<1>1. Grows(Posted(About(r)), Posted(About(r))', 0)
  BY PostsStay
<1>2. 0 \in Int /\ 0 + 0 + 0 + 0 + 0 + 0 <= 0
  OBVIOUS
<1> QED BY <1>1, <1>2, PlacesStay, CopiesBalance

\* What is placed is still to be called.
LEMMA PlaceIsUncalled ==
    ASSUME LoopInv, NEW l \in Loops, NEW i \in Places(l) PROVE Place(l, i) \in Uncalled(l)
<1>1. PICK m \in Nat, n \in Nat, q \in Nat :
        m = Len(batch[l]) /\ n = Len(pending[l]) /\ q = called[l]
  BY DEF LoopInv, LoopTypes
<1>2. i \in q + 1 .. m + n
  BY <1>1 DEF Places, Last
<1>3. CASE i <= m
  <2>1. i \in q + 1 .. m /\ Place(l, i) = batch[l][i]
    BY <1>1, <1>2, <1>3 DEF Place
  <2> QED BY <1>1, <2>1 DEF Uncalled, Rest
<1>4. CASE ~(i <= m)
  <2>1. Place(l, i) = pending[l][i - m]
    BY <1>1, <1>4 DEF Place
  <2>2. i - m \in 1 .. n
    BY <1>2, <1>4
  <2> QED BY <1>1, <2>1, <2>2 DEF Uncalled, Pend
<1> QED BY <1>3, <1>4

\* A request nobody has sent is nowhere.
LEMMA UnsentIsNowhere ==
    ASSUME TypesInv, RequestsSound, NEW r \in Requests, ~(r.id <= inputs)
    PROVE  /\ Unread(r) = {} /\ Undone(r) = {} /\ Queued(r) = {}
           /\ Handled(r) = {} /\ Posted(About(r)) = {} /\ Given(r) = {}
<1>1. r \notin received
  BY DEF RequestsSound, SourcesSound
<1>2. \A c : SentOn(c) \cap {r} = {} /\ ReceivedOn(c) \cap {r} = {} /\ GivenOn(c) \cap About(r) = {}
  BY <1>1 DEF SentOn, ReceivedOn, GivenOn, About
<1>3. Unread(r) = {}
  <2>1. \A c \in Connections : readable[c] \in Seq(SentOn(c))
    BY DEF RequestsSound, SourcesSound
  <2>2. \A c \in Connections : \E X : readable[c] \in Seq(X) /\ X \cap {r} = {}
    BY <1>2, <2>1
  <2> QED BY <2>2, NoSpots DEF Unread
<1>4. Undone(r) = {}
  <2>1. \A l \in Loops : todo[l] \in Seq(ReceivedOn(inside[l]))
    BY DEF RequestsSound, SourcesSound
  <2>2. \A l \in Loops : \E X : todo[l] \in Seq(X) /\ X \cap {r} = {}
    BY <1>2, <2>1
  <2> QED BY <2>2, NoSpots DEF Undone
<1>5. Queued(r) = {}
  <2>1. queue \in Seq(received)
    BY DEF RequestsSound, WorkSound
  <2>2. \A x \in {0} : \E X : [y \in {0} |-> queue][x] \in Seq(X) /\ X \cap {r} = {}
    BY <1>1, <2>1
  <2> QED BY <2>2, NoSpots DEF Queued
<1>6. Handled(r) = {}
  BY <1>1 DEF Handled, RequestsSound, WorkSound
<1>7. Posted(About(r)) = {}
  <2>1. ASSUME NEW l \in Loops, NEW i \in Places(l), Sends(Place(l, i), About(r)) PROVE FALSE
    <3>1. PICK f : f = Place(l, i)
      OBVIOUS
    <3>2. f \in Uncalled(l) /\ f.do = "send" /\ f.arg \in About(r)
      BY <2>1, <3>1, PlaceIsUncalled DEF TypesInv, Sends
    <3>3. f.arg \in GivenOn(f.conn)
      BY <3>2 DEF RequestsSound, AnswersSound
    <3> QED BY <1>2, <3>2, <3>3
  <2> QED BY <2>1 DEF Posted
<1>8. Given(r) = {}
  <2>1. \A c \in Connections : answers[c] \in Seq(GivenOn(c))
    BY DEF RequestsSound, AnswersSound
  <2>2. \A c \in Connections : \E X : answers[c] \in Seq(X) /\ X \cap About(r) = {}
    BY <1>2, <2>1
  <2> QED BY <2>2, NoSpots DEF Given
<1> QED BY <1>3, <1>4, <1>5, <1>6, <1>7, <1>8

\* Peers send what nobody has sent.
LEMMA InputKeepsPlaces ==
    ASSUME TypesInv, ConnInv, RequestsSound, Input, NEW r \in Requests, InOnePlace(r)
    PROVE  InOnePlace(r)'
<1>1. UNCHANGED <<todo, queue, worker, task, answers>> /\ Next
  BY DEF Input, PeerActs, workerVars, Next
<1>2. CASE UNCHANGED readable
  BY <1>1, <1>2, AsideKeepsPlaces
<1>3. CASE ~UNCHANGED readable
  <2>1. PICK c \in Connections, s \in Requests :
          s.id = inputs + 1 /\ readable' = [readable EXCEPT ![c] = Append(@, s)]
    BY <1>3, SendingIsNew
  <2>2. readable \in [Connections -> Seq(Requests)] /\ inputs \in Nat
    BY DEF TypesInv, ServerTypes, PeerTypes, RequestTypes, InputTypes
  <2>3. PICK n \in {0, 1} : n = 1 <=> s \in {r}
    BY DEF Requests
  <2>4. Grows(Unread(r), Unread(r)', n)
    <3>1. IsFiniteSet(Spots(Connections, readable, {r}))
      BY DEF InOnePlace, Unread
    <3>2. /\ readable'[c] = Append(readable[c], s)
          /\ \A d \in Connections : d # c => readable'[d] = readable[d]
      BY <2>1, <2>2
    <3>3. Grows(Spots(Connections, readable, {r}), Spots(Connections, readable', {r}), n)
      BY <2>2, <2>3, <3>1, <3>2, AppendSpots
    <3> QED BY <3>3 DEF Unread
  <2>5. Grows(Posted(About(r)), Posted(About(r))', 0)
    BY <1>1, PostsStay
  <2>6. Copies(r) + n <= 1
    <3>1. CASE n = 0
      <4>1. PICK m : m = Copies(r)
        OBVIOUS
      <4>2. m \in Nat /\ m <= 1
        BY <4>1, CopiesAreCounted DEF Copies, InOnePlace
      <4> QED BY <3>1, <4>1, <4>2
    <3>2. CASE n = 1
      <4>1. s = r /\ ~(r.id <= inputs)
        BY <2>1, <2>2, <2>3, <3>2
      <4>2. Cardinality({}) = 0
        BY FS_EmptySet
      <4>3. Copies(r) = 0 + 0 + 0 + 0 + 0 + 0
        BY <4>1, <4>2, UnsentIsNowhere DEF Copies
      <4> QED BY <3>2, <4>3
    <3> QED BY <3>1, <3>2
  <2>7. n \in Int /\ 0 \in Int /\ n = n + 0 + 0 + 0 + 0 + 0
    BY <2>3
  <2> QED BY <1>1, <2>4, <2>5, <2>6, <2>7, PlacesStay, CopiesAddUp
<1> QED BY <1>2, <1>3

\* What is read is no more unread.
LEMMA ReadKeepsPlaces ==
    ASSUME TypesInv, ConnInv, RequestsSound, Next, NEW r \in Requests, InOnePlace(r),
           NEW l \in Loops, ReadEvent(l)
    PROVE  InOnePlace(r)'
<1>1. UNCHANGED <<queue, worker, task, answers>>
  BY DEF ReadEvent, workerVars
<1>2. Grows(Posted(About(r)), Posted(About(r))', 0)
  BY <1>1, PostsStay
<1>3. PICK c \in Connections :
        /\ Handling(l, c)
        /\ todo' = [todo EXCEPT ![l] = readable[c]] /\ readable' = [readable EXCEPT ![c] = << >>]
  BY DEF ReadEvent, Enter
<1>4. /\ readable \in [Connections -> Seq(Requests)] /\ todo \in [Loops -> Seq(Requests)]
      /\ \A d \in Connections : readable[d] \in Seq(SentOn(d))
      /\ \A k \in Loops : todo[k] \in Seq(ReceivedOn(inside[k]))
      /\ IsFiniteSet(Unread(r)) /\ IsFiniteSet(Undone(r))
  BY DEF TypesInv, ServerTypes, PeerTypes, RequestTypes, InputTypes, RequestsSound, SourcesSound,
         InOnePlace
<1>5. Grows(Unread(r), Unread(r)', 0)
  <2>1. \A d \in Connections : readable'[d] = readable[d] \/ readable'[d] = << >>
    BY <1>3, <1>4
  <2> QED BY <1>4, <2>1, EmptySpots DEF Unread
<1>6. CASE r.conn # c
  <2>1. ASSUME NEW p \in Undone(r)' PROVE p \in Undone(r)
    <3>1. /\ p \in Loops \X Nat
          /\ p[2] \in 1 .. Len(todo'[p[1]]) /\ todo'[p[1]][p[2]] = r
      BY <2>1 DEF Undone, Spots
    <3>2. PICK k \in Loops, i \in Nat : p = <<k, i>>
      BY <3>1
    <3>3. CASE k = l
      <4>1. todo'[k] = readable[c]
        BY <1>3, <1>4, <3>3
      <4>2. readable[c][i] \in SentOn(c)
        BY <1>4, <3>1, <3>2, <4>1, ElementOfSeq
      <4> QED BY <1>6, <3>1, <3>2, <4>1, <4>2 DEF SentOn
    <3>4. CASE k # l
      <4>1. todo'[k] = todo[k]
        BY <1>3, <1>4, <3>4
      <4> QED BY <3>1, <3>2, <4>1 DEF Undone, Spots
    <3> QED BY <3>3, <3>4
  <2>2. Grows(Undone(r), Undone(r)', 0)
    BY <1>4, <2>1, PartGrows
  <2>3. 0 \in Int /\ 0 + 0 + 0 + 0 + 0 + 0 <= 0
    OBVIOUS
  <2> QED BY <1>1, <1>2, <1>5, <2>2, <2>3, PlacesStay, CopiesBalance
<1>7. CASE r.conn = c
  <2> DEFINE T == Undone(r)'
             h == [p \in T |-> <<c, p[2]>>]
  <2>1. ASSUME NEW k \in Loops, NEW i \in Nat, <<k, i>> \in T PROVE k = l /\ <<c, i>> \in Unread(r)
    <3>1. i \in 1 .. Len(todo'[k]) /\ todo'[k][i] = r
      BY <2>1 DEF Undone, Spots
    <3>2. k = l
      <4>1. SUFFICES ASSUME k # l PROVE FALSE
        OBVIOUS
      <4>2. todo'[k] = todo[k]
        BY <1>3, <1>4, <4>1
      <4>3. r \in ReceivedOn(inside[k])
        BY <1>4, <3>1, <4>2, ElementOfSeq
      <4>4. c = inside[k] /\ c \in active[l]
        BY <1>3, <1>7, <4>3 DEF ReceivedOn, Handling
      <4>5. loopOf[c] = k /\ loopOf[c] = l
        BY <4>4 DEF ConnInv, ChannelsRegistered, RegisteredOn
      <4> QED BY <4>1, <4>5
    <3>3. todo'[k] = readable[c]
      BY <1>3, <1>4, <3>2
    <3> QED BY <3>1, <3>2, <3>3 DEF Unread, Spots
  <2>2. \A p \in T : \E k \in Loops, i \in Nat : p = <<k, i>>
    BY DEF Undone, Spots
  <2> HIDE DEF T
  <2>3. h \in [T -> Unread(r)]
    <3>1. ASSUME NEW p \in T PROVE <<c, p[2]>> \in Unread(r)
      <4>1. PICK k \in Loops, i \in Nat : p = <<k, i>>
        BY <2>2
      <4> QED BY <2>1, <4>1
    <3> QED BY <3>1
  <2>4. ASSUME NEW p \in T, NEW q \in T, h[p] = h[q] PROVE p = q
    <3>1. PICK k1 \in Loops, i1 \in Nat, k2 \in Loops, i2 \in Nat : p = <<k1, i1>> /\ q = <<k2, i2>>
      BY <2>2, <2>4
    <3>2. k1 = l /\ k2 = l
      BY <2>1, <2>4, <3>1
    <3>3. h[p] = <<c, i1>> /\ h[q] = <<c, i2>>
      BY <2>4, <3>1
    <3> QED BY <2>4, <3>1, <3>2, <3>3
  <2> HIDE DEF h
  <2>5. /\ IsFiniteSet(T) /\ Cardinality(T) \in Nat /\ Cardinality(Unread(r)) \in Nat
        /\ Cardinality(T) <= Cardinality(Unread(r))
    BY <1>4, <2>3, <2>4, Renumbered
  <2>6. PICK n \in Nat : n = Cardinality(Unread(r))
    BY <2>5
  <2>7. Grows(Undone(r), Undone(r)', n)
    <3>1. Cardinality(Undone(r)) \in Nat
      BY <1>4, FS_CardinalityType
    <3> QED BY <2>5, <2>6, <3>1 DEF Grows, T
  <2>8. Grows(Unread(r), Unread(r)', -n)
    <3>1. ASSUME NEW d \in Connections PROVE \E X : readable'[d] \in Seq(X) /\ X \cap {r} = {}
      <4>1. CASE d = c
        <5>1. readable'[d] = << >>
          BY <1>3, <1>4, <4>1
        <5>2. << >> \in Seq({}) /\ {} \cap {r} = {}
          BY EmptySeq
        <5> QED BY <5>1, <5>2
      <4>2. CASE d # c
        <5>1. readable'[d] \in Seq(SentOn(d))
          BY <1>3, <1>4, <4>2
        <5>2. SentOn(d) \cap {r} = {}
          BY <1>7, <4>2 DEF SentOn
        <5> QED BY <5>1, <5>2
      <4> QED BY <4>1, <4>2
    <3>2. Unread(r)' = {}
      BY <3>1, NoSpots DEF Unread
    <3>3. IsFiniteSet({}) /\ Cardinality({}) = 0
      BY FS_EmptySet
    <3>4. 0 <= n + (-n)
      OBVIOUS
    <3> QED BY <2>6, <3>2, <3>3, <3>4 DEF Grows
  <2>9. n \in Int /\ -n \in Int /\ 0 \in Int /\ (-n) + n + 0 + 0 + 0 + 0 <= 0
    BY <2>6
  <2> QED BY <1>1, <1>2, <2>7, <2>8, <2>9, PlacesStay, CopiesBalance
<1> QED BY <1>6, <1>7

\* What is written is one answer more, if it is about this request.
LEMMA WritesGrows ==
    ASSUME answers \in [Connections -> Seq(Answers)], NEW r, InOnePlace(r),
           NEW c \in Connections, NEW a \in Answers, Writes(c, a), NEW n \in {0, 1},
           n = 1 <=> a \in About(r)
    PROVE  Grows(Given(r), Given(r)', n)
<1>1. IsFiniteSet(Spots(Connections, answers, About(r)))
  BY DEF InOnePlace, Given
<1>2. /\ answers'[c] = Append(answers[c], a) /\ About(r)' = About(r)
      /\ \A d \in Connections : d # c => answers'[d] = answers[d]
  BY DEF Writes, About
<1>3. Grows(Spots(Connections, answers, About(r)), Spots(Connections, answers', About(r)), n)
  BY <1>1, <1>2, AppendSpots
<1> QED BY <1>2, <1>3 DEF Given

\* A loop that calls the functor has one fewer, and has written the answer or
\* not.
LEMMA CallSendKeepsPlaces ==
    ASSUME TypesInv, ConnInv, RequestsSound, Next, NEW r \in Requests, InOnePlace(r),
           NEW l \in Loops, CallSend(l)
    PROVE  InOnePlace(r)'
<1>1. UNCHANGED <<readable, todo, queue, worker, task>>
  BY DEF CallSend, peerVars, inputVars, workerVars
<1>2. PICK c, a : c = NextFunctor(l).conn /\ a = NextFunctor(l).arg
  OBVIOUS
<1>3. c \in Connections /\ a \in Answers /\ Calling(l, "send") /\ SendInLoop(l, c, a)
  BY <1>2, CallSendGives DEF RequestsSound
<1>4. Grows(Posted(About(r)), Posted(About(r))', IF a \in About(r) THEN -1 ELSE 0)
  BY <1>1, <1>2, <1>3, PostsStay
<1>5. PICK n \in {0, 1} : n = 1 <=> a \in About(r)
  OBVIOUS
<1>6. Grows(Posted(About(r)), Posted(About(r))', -n)
  BY <1>4, <1>5
<1>7. 0 \in Int /\ n \in Int /\ -n \in Int
      /\ 0 + 0 + 0 + 0 + (-n) + 0 <= 0 /\ 0 + 0 + 0 + 0 + (-n) + n <= 0
  BY <1>5
<1>8. CASE UNCHANGED answers
  BY <1>1, <1>6, <1>7, <1>8, PlacesStay, CopiesBalance
<1>9. CASE Writes(c, a)
  <2>1. Grows(Given(r), Given(r)', n)
    <3>1. answers \in [Connections -> Seq(Answers)]
      BY DEF TypesInv, RequestTypes, AnswerTypes
    <3> QED BY <1>3, <1>5, <1>9, <3>1, WritesGrows
  <2> QED BY <1>1, <1>6, <1>7, <2>1, PlacesStay, CopiesBalance
<1> QED BY <1>3, <1>8, <1>9, SendWritesOrNot

\* A request that is handled is one fewer to be done.
LEMMA HandledIsDone ==
    ASSUME TypesInv, NEW r, InOnePlace(r), NEW l \in Loops, todo[l] # << >>,
           todo' = [todo EXCEPT ![l] = Tail(@)], NEW n \in {0, 1}, n = 1 <=> Head(todo[l]) = r
    PROVE  Grows(Undone(r), Undone(r)', -n)
<1>1. /\ todo \in [Loops -> Seq(Requests)] /\ IsFiniteSet(Spots(Loops, todo, {r}))
      /\ (n = 1 <=> Head(todo[l]) \in {r})
  BY DEF TypesInv, RequestTypes, InputTypes, InOnePlace, Undone
<1>2. todo'[l] = Tail(todo[l]) /\ \A k \in Loops : k # l => todo'[k] = todo[k]
  BY <1>1
<1>3. Grows(Spots(Loops, todo, {r}), Spots(Loops, todo', {r}), -n)
  BY <1>1, <1>2, TailSpots
<1> QED BY <1>3 DEF Undone

\* What follows garbage is dropped.
LEMMA DecodeFailsKeepsPlaces ==
    ASSUME TypesInv, ConnInv, Next, NEW r \in Requests, InOnePlace(r),
           NEW l \in Loops, DecodeFails(l)
    PROVE  InOnePlace(r)'
<1>1. /\ UNCHANGED <<readable, queue, worker, task, answers>>
      /\ todo' = [todo EXCEPT ![l] = << >>]
  BY DEF DecodeFails, At, peerVars, workerVars
<1>2. todo \in [Loops -> Seq(Requests)] /\ IsFiniteSet(Undone(r))
  BY DEF TypesInv, RequestTypes, InputTypes, InOnePlace
<1>3. \A k \in Loops : todo'[k] = todo[k] \/ todo'[k] = << >>
  BY <1>1, <1>2
<1>4. Grows(Undone(r), Undone(r)', 0)
  BY <1>2, <1>3, EmptySpots DEF Undone
<1>5. Grows(Posted(About(r)), Posted(About(r))', 0)
  BY <1>1, PostsStay
<1>6. 0 \in Int /\ 0 + 0 + 0 + 0 + 0 + 0 <= 0
  OBVIOUS
<1> QED BY <1>1, <1>4, <1>5, <1>6, PlacesStay, CopiesBalance

\* A request that is refused is answered or not.
LEMMA ErrorKeepsPlaces ==
    ASSUME TypesInv, ConnInv, RequestsSound, Next, NEW r \in Requests, InOnePlace(r),
           NEW l \in Loops, Refuse(l) \/ AnswerRejected(l)
    PROVE  InOnePlace(r)'
<1>1. PICK c \in Connections, a \in Answers :
        /\ SendInLoop(l, c, a) /\ a.request = Head(todo[l])
        /\ todo[l] # << >> /\ todo' = [todo EXCEPT ![l] = Tail(@)] /\ UNCHANGED workerVars
  BY ErrorGives DEF RequestsSound
<1>2. UNCHANGED <<readable, queue, worker, task>>
  BY <1>1 DEF Refuse, AnswerRejected, At, peerVars, workerVars
<1>3. PICK n \in {0, 1} : n = 1 <=> Head(todo[l]) = r
  OBVIOUS
<1>4. Grows(Undone(r), Undone(r)', -n)
  BY <1>1, <1>3, HandledIsDone
<1>5. Grows(Posted(About(r)), Posted(About(r))', 0)
  BY <1>2, PostsStay
<1>6. /\ 0 \in Int /\ n \in Int /\ -n \in Int
      /\ 0 + (-n) + 0 + 0 + 0 + 0 <= 0 /\ 0 + (-n) + 0 + 0 + 0 + n <= 0
  BY <1>3
<1>7. CASE UNCHANGED answers
  BY <1>2, <1>4, <1>5, <1>6, <1>7, PlacesStay, CopiesBalance
<1>8. CASE Writes(c, a)
  <2>1. n = 1 <=> a \in About(r)
    BY <1>1, <1>3 DEF About
  <2>2. answers \in [Connections -> Seq(Answers)]
    BY DEF TypesInv, RequestTypes, AnswerTypes
  <2>3. Grows(Given(r), Given(r)', n)
    BY <1>1, <1>8, <2>1, <2>2, WritesGrows
  <2> QED BY <1>2, <1>4, <1>5, <1>6, <2>3, PlacesStay, CopiesBalance
<1> QED BY <1>1, <1>7, <1>8, SendWritesOrNot

\* A request that is posted is queued.
LEMMA PostKeepsPlaces ==
    ASSUME TypesInv, ConnInv, Next, NEW r \in Requests, InOnePlace(r),
           NEW l \in Loops, PostAccepted(l)
    PROVE  InOnePlace(r)'
<1>1. /\ queue' = Append(queue, Head(todo[l])) /\ todo[l] # << >>
      /\ todo' = [todo EXCEPT ![l] = Tail(@)]
      /\ UNCHANGED <<readable, worker, task, answers>>
  BY DEF PostAccepted, At, RequestHandled, peerVars
<1>2. PICK n \in {0, 1} : n = 1 <=> Head(todo[l]) = r
  OBVIOUS
<1>3. Grows(Undone(r), Undone(r)', -n)
  BY <1>1, <1>2, HandledIsDone
<1>4. Grows(Posted(About(r)), Posted(About(r))', 0)
  BY <1>1, PostsStay
<1>5. Grows(Queued(r), Queued(r)', n)
  <2>1. PICK f, h : f = [x \in {0} |-> queue] /\ h = [x \in {0} |-> queue']
    OBVIOUS
  <2>2. queue \in Seq(Requests) /\ Head(todo[l]) \in Requests
    BY <1>1, HeadTailProperties DEF TypesInv, RequestTypes, InputTypes, WorkTypes
  <2>3. /\ f \in [{0} -> Seq(Requests)] /\ h[0] = Append(f[0], Head(todo[l]))
        /\ \A d \in {0} : d # 0 => h[d] = f[d]
    BY <1>1, <2>1, <2>2
  <2>4. IsFiniteSet(Spots({0}, f, {r})) /\ (n = 1 <=> Head(todo[l]) \in {r})
    BY <1>2, <2>1 DEF InOnePlace, Queued
  <2>5. Grows(Spots({0}, f, {r}), Spots({0}, h, {r}), n)
    BY <2>2, <2>3, <2>4, AppendSpots
  <2> QED BY <2>1, <2>5 DEF Queued
<1>6. 0 \in Int /\ n \in Int /\ -n \in Int /\ 0 + (-n) + n + 0 + 0 + 0 <= 0
  BY <1>2
<1> QED BY <1>1, <1>3, <1>4, <1>5, <1>6, PlacesStay, CopiesBalance

\* A worker takes the first request.
LEMMA TakeKeepsPlaces ==
    ASSUME TypesInv, ConnInv, Next, NEW r \in Requests, InOnePlace(r),
           NEW w \in Workers, Take(w)
    PROVE  InOnePlace(r)'
<1>1. /\ worker[w] = "idle" /\ worker' = [worker EXCEPT ![w] = "handling"]
      /\ queue # << >> /\ queue' = Tail(queue) /\ task' = [task EXCEPT ![w] = Head(queue)]
      /\ UNCHANGED <<readable, todo, answers>>
  BY DEF Take, WorkerGoes, inputVars, peerVars
<1>2. PICK n \in {0, 1} : n = 1 <=> Head(queue) = r
  OBVIOUS
<1>3. Grows(Posted(About(r)), Posted(About(r))', 0)
  BY <1>1, PostsStay
<1>4. Grows(Queued(r), Queued(r)', -n)
  <2>1. PICK f, h : f = [x \in {0} |-> queue] /\ h = [x \in {0} |-> queue']
    OBVIOUS
  <2>2. queue \in Seq(Requests)
    BY DEF TypesInv, RequestTypes, WorkTypes
  <2>3. /\ f \in [{0} -> Seq(Requests)] /\ h[0] = Tail(f[0]) /\ f[0] # << >>
        /\ \A d \in {0} : d # 0 => h[d] = f[d]
    BY <1>1, <2>1, <2>2
  <2>4. IsFiniteSet(Spots({0}, f, {r})) /\ (n = 1 <=> Head(f[0]) \in {r})
    BY <1>2, <2>1 DEF InOnePlace, Queued
  <2>5. Grows(Spots({0}, f, {r}), Spots({0}, h, {r}), -n)
    BY <2>3, <2>4, TailSpots
  <2> QED BY <2>1, <2>5 DEF Queued
<1>5. Grows(Handled(r), Handled(r)', n)
  <2>1. /\ \A v \in Workers : v # w => worker'[v] = worker[v] /\ task'[v] = task[v]
        /\ task'[w] = Head(queue)
    BY <1>1 DEF TypesInv, RequestTypes, WorkTypes
  <2>2. Handled(r)' \subseteq Handled(r) \cup {w}
    BY <2>1 DEF Handled
  <2>3. n = 0 => Handled(r)' \subseteq Handled(r)
    BY <1>2, <2>1 DEF Handled
  <2> QED BY <2>2, <2>3, HandledIsFinite, AddGrows
<1>6. 0 \in Int /\ n \in Int /\ -n \in Int /\ 0 + 0 + (-n) + n + 0 + 0 <= 0
  BY <1>2
<1> QED BY <1>1, <1>3, <1>4, <1>5, <1>6, PlacesStay, CopiesBalance

\* It goes on with it, or is through with it.
LEMMA WorkKeepsPlaces ==
    ASSUME TypesInv, ConnInv, Next, NEW r \in Requests, InOnePlace(r),
           NEW w \in Workers,
           HandlerEnds(w) \/ RecordAnswer(w) \/ WakeLoop(w) \/ NobodyToTell(w)
    PROVE  InOnePlace(r)'
<1>1. UNCHANGED <<readable, todo, queue, answers>>
  BY DEF HandlerEnds, RecordAnswer, WakeLoop, NobodyToTell, TaskEnds, WorkerGoes, inputVars,
     peerVars
<1>2. /\ \E to \in {"idle", "encoding", "sending"} : worker' = [worker EXCEPT ![w] = to]
      /\ \/ worker[w] \in {"handling", "encoding"} /\ UNCHANGED task
         \/ worker' = [worker EXCEPT ![w] = "idle"] /\ task' = [task EXCEPT ![w] = NoRequest]
  BY DEF HandlerEnds, RecordAnswer, WakeLoop, NobodyToTell, TaskEnds, WorkerGoes
<1>3. Grows(Posted(About(r)), Posted(About(r))', 0)
  BY <1>2, PostsStay
<1>4. /\ worker \in [Workers -> {"idle", "handling", "encoding", "sending", "waking"}]
      /\ task \in [Workers -> Requests \cup {NoRequest}]
  BY DEF TypesInv, RequestTypes, WorkTypes
<1>5. Handled(r)' \subseteq Handled(r)
  <2>1. \A v \in Workers : v # w => worker'[v] = worker[v] /\ task'[v] = task[v]
    BY <1>2, <1>4
  <2>2. w \in Handled(r)' => w \in Handled(r)
    BY <1>2, <1>4 DEF Handled
  <2> QED BY <2>1, <2>2 DEF Handled
<1>6. Grows(Handled(r), Handled(r)', 0)
  BY <1>5, HandledIsFinite, PartGrows
<1>7. 0 \in Int /\ 0 + 0 + 0 + 0 + 0 + 0 <= 0
  OBVIOUS
<1> QED BY <1>1, <1>3, <1>6, <1>7, PlacesStay, CopiesBalance

\* It hands the answer to the loop.
LEMMA SendKeepsPlaces ==
    ASSUME TypesInv, ConnInv, RequestsSound, Next, NEW r \in Requests, InOnePlace(r),
           NEW w \in Workers, Send(w)
    PROVE  InOnePlace(r)'
<1>1. /\ worker[w] = "sending" /\ worker' = [worker EXCEPT ![w] = "waking"]
      /\ UNCHANGED <<readable, todo, queue, task, answers, batch, called>>
  BY DEF Send, WorkerGoes, inputVars, peerVars, roundVars
<1>2. PICK k \in Loops, f \in FunctorSet :
        QueueInLoop(w, k, f) /\ f.arg \in GivenOn(f.conn) /\ f.arg.request = task[w]
  BY SendHandsOver DEF RequestsSound
<1>3. PICK n \in {0, 1} : n = 1 <=> task[w] = r
  OBVIOUS
<1>4. Grows(Handled(r), Handled(r)', -n)
  <2>1. /\ \A v \in Workers : v # w => worker'[v] = worker[v]
        /\ worker'[w] = "waking"
    BY <1>1 DEF TypesInv, RequestTypes, WorkTypes
  <2>2. Handled(r)' \subseteq Handled(r) /\ w \notin Handled(r)'
    BY <1>1, <2>1 DEF Handled
  <2>3. n = 1 => w \in Handled(r)
    BY <1>1, <1>3 DEF Handled
  <2> QED BY <2>2, <2>3, HandledIsFinite, TakeGrows
<1>5. Grows(Posted(About(r)), Posted(About(r))', n)
  <2>1. PICK A, x : A = About(r) /\ x = <<k, Last(k) + 1>>
    OBVIOUS
  <2>2. LoopTypes /\ IsFiniteSet(Posted(A)) /\ Posted(About(r))' = Posted(A)'
    BY <2>1 DEF TypesInv, LoopInv, InOnePlace, About
  <2>3. \A p \in Posted(A)' : p \in Posted(A) \/ p = x
    BY <1>1, <1>2, <2>1, <2>2, QueuePostsOne
  <2>4. n = 0 => Posted(A)' \subseteq Posted(A)
    <3>1. SUFFICES ASSUME n = 0 PROVE \A p \in Posted(A)' : p \in Posted(A)
      OBVIOUS
    <3>2. ~Sends(f, A)
      BY <1>2, <1>3, <2>1, <3>1 DEF Sends, About
    <3>3. \A l \in Loops : called'[l] \in Nat /\ called[l] <= called'[l]
      BY <1>1, <2>2 DEF LoopTypes
    <3> QED BY <1>1, <1>2, <2>2, <3>2, <3>3, QueuePosts
  <2>5. Posted(A)' \subseteq Posted(A) \cup {x}
    BY <2>3
  <2> QED BY <2>1, <2>2, <2>4, <2>5, AddGrows
<1>6. 0 \in Int /\ n \in Int /\ -n \in Int /\ 0 + 0 + 0 + (-n) + n + 0 <= 0
  BY <1>3
<1> QED BY <1>1, <1>4, <1>5, <1>6, PlacesStay, CopiesBalance

\* So at any step a request is in one place at most.
LEMMA NextKeepsPlaces ==
    ASSUME TypesInv, ConnInv, RequestsSound, Next, NEW r \in Requests, InOnePlace(r)
    PROVE  InOnePlace(r)'
<1>1. ASSUME NEW l \in Loops, LoopStep(l) PROVE InOnePlace(r)'
  <2>1. CASE ReadEvent(l) \/ CallSend(l)
    BY <2>1, ReadKeepsPlaces, CallSendKeepsPlaces
  <2>2. CASE DecodeFails(l) \/ Refuse(l) \/ PostAccepted(l) \/ AnswerRejected(l)
    BY <2>2, DecodeFailsKeepsPlaces, ErrorKeepsPlaces, PostKeepsPlaces
  <2>3. CASE CloseEvent(l) \/ ReadEnds(l) \/ CountRequest(l) \/ Admit(l) \/ PostRejected(l)
    <3>1. UNCHANGED <<readable, todo, queue, worker, task, answers>>
      BY <2>3 DEF CloseEvent, ReadEnds, CountRequest, Admit, AdmitCounting, PostRejected, At,
         rpcVars, inputVars, workerVars, peerVars
    <3> QED BY <3>1, AsideKeepsPlaces
  <2>4. CASE (ServerRound(l) \/ BaseStep) /\ UNCHANGED rpcVars
    <3>1. UNCHANGED <<readable, todo, queue, worker, task, answers>>
      BY <2>4 DEF ServerRound, PollLoop, CallEstablished, CallDestroyed, serverVars, peerVars,
         BaseStep, AcceptEvent, Accept, AcceptDone, AcceptEnds, CallRemove, rpcVars, inputVars,
         workerVars
    <3> QED BY <3>1, AsideKeepsPlaces
  <2> QED BY <1>1, <2>1, <2>2, <2>3, <2>4 DEF LoopStep
<1>2. ASSUME NEW w \in Workers, WorkerStep(w) PROVE InOnePlace(r)'
  BY <1>2, TakeKeepsPlaces, WorkKeepsPlaces, SendKeepsPlaces DEF WorkerStep
<1> QED BY <1>1, <1>2, InputKeepsPlaces DEF Next

\* Nobody has sent anything at first.
LEMMA InitRequests == Init => RequestsSound /\ \A r \in Requests : InOnePlace(r)
<1> SUFFICES ASSUME Init PROVE RequestsSound /\ \A r \in Requests : InOnePlace(r)
  OBVIOUS
<1>1. \A X : << >> \in Seq(X)
  BY EmptySeq
<1>2. \A l \in Loops : called[l] = 0 /\ batch[l] = << >> /\ pending[l] = << >>
  BY DEF Init, ServerInit, LoopInit
<1>3. \A l \in Loops : Uncalled(l) = {}
  <2> TAKE l \in Loops
  <2>1. 1 .. Len(<< >>) = {} /\ 0 + 1 .. Len(<< >>) = {}
    BY EmptySeq
  <2> QED BY <1>2, <2>1 DEF Uncalled, Rest, Pend
<1>4. /\ \A c \in Connections : readable[c] = << >> /\ answers[c] = << >>
      /\ \A l \in Loops : todo[l] = << >>
      /\ queue = << >> /\ received = {} /\ \A w \in Workers : worker[w] = "idle"
  BY DEF Init, ServerInit
<1>5. RequestsSound
  BY <1>1, <1>3, <1>4 DEF RequestsSound, SourcesSound, WorkSound, AnswersSound
<1>6. ASSUME NEW r \in Requests PROVE InOnePlace(r)
  <2>1. r.id \in Nat /\ r.id > 0
    BY RpcServerAssumption DEF Requests
  <2>2. inputs = 0 /\ ~(r.id <= inputs)
    BY <2>1 DEF Init
  <2>3. /\ Unread(r) = {} /\ Undone(r) = {} /\ Queued(r) = {}
        /\ Handled(r) = {} /\ Posted(About(r)) = {} /\ Given(r) = {}
    BY <1>5, <2>2, InitTypes, UnsentIsNowhere
  <2>4. Cardinality({}) = 0 /\ IsFiniteSet({})
    BY FS_EmptySet
  <2>5. Copies(r) = 0 + 0 + 0 + 0 + 0 + 0
    BY <2>3, <2>4 DEF Copies
  <2> QED BY <2>3, <2>4, <2>5 DEF InOnePlace
<1> QED BY <1>5, <1>6

\* And when nothing happens.
LEMMA StutterKeepsRequests ==
    ASSUME RequestsSound, \A r \in Requests : InOnePlace(r), UNCHANGED vars
    PROVE  RequestsSound' /\ \A r \in Requests : InOnePlace(r)'
<1>1. UNCHANGED <<readable, todo, inside, inputs, received, queue, worker, task, locked, answers,
                  batch, pending, called>>
  BY DEF vars, queueVars, roundVars, serverVars, peerVars, rpcVars, inputVars, workerVars
<1>2. \A l \in Loops : Uncalled(l)' = Uncalled(l)
  BY <1>1 DEF Uncalled, Rest, Pend
<1>3. \A c : SentOn(c)' = SentOn(c) /\ ReceivedOn(c)' = ReceivedOn(c) /\ GivenOn(c)' = GivenOn(c)
  BY <1>1 DEF SentOn, ReceivedOn, GivenOn
<1>4. SourcesSound'
  BY <1>1, <1>3 DEF RequestsSound, SourcesSound
<1>5. WorkSound'
  BY <1>1 DEF RequestsSound, WorkSound
<1>6. AnswersSound'
  BY <1>1, <1>2, <1>3 DEF RequestsSound, AnswersSound
<1>7. ASSUME NEW r \in Requests PROVE InOnePlace(r)'
  <2>1. \A l \in Loops : Places(l)' = Places(l) /\ \A i \in Nat : Place(l, i)' = Place(l, i)
    BY <1>1 DEF Places, Place, Last
  <2>2. Posted(About(r))' = Posted(About(r))
    BY <2>1 DEF Posted, About
  <2>3. /\ Unread(r)' = Unread(r) /\ Undone(r)' = Undone(r) /\ Queued(r)' = Queued(r)
        /\ Handled(r)' = Handled(r) /\ Given(r)' = Given(r)
    BY <1>1 DEF Unread, Undone, Queued, Handled, Given, Spots, About
  <2>4. Copies(r)' = Copies(r)
    BY <2>2, <2>3 DEF Copies
  <2> QED BY <2>2, <2>3, <2>4 DEF InOnePlace
<1> QED BY <1>4, <1>5, <1>6, <1>7 DEF RequestsSound

\* A request is in one place at most, whoever reads, queues, takes or answers
\* it, and the places are those of its own connection.
THEOREM RequestsInvariant == Spec => [](RequestsSound /\ \A r \in Requests : InOnePlace(r))
<1>1. /\ TypesInv /\ ConnInv /\ RequestsSound /\ (\A r \in Requests : InOnePlace(r))
      /\ [Next]_vars
      => (RequestsSound /\ \A r \in Requests : InOnePlace(r))'
  <2> SUFFICES ASSUME TypesInv, ConnInv, RequestsSound, \A r \in Requests : InOnePlace(r),
                      [Next]_vars
               PROVE  RequestsSound' /\ \A r \in Requests : InOnePlace(r)'
    BY DEF Requests
  <2>1. CASE Next
    BY <2>1, NextKeepsRequests, NextKeepsPlaces
  <2>2. CASE UNCHANGED vars
    BY <2>2, StutterKeepsRequests
  <2> QED BY <2>1, <2>2
<1> QED BY <1>1, InitRequests, ServerInvariant, PTL DEF Spec

-----------------------------------------------------------------------------
(***************************************************************************)
(* The server implements the service.                                      *)
(***************************************************************************)

\* What is to be done, or what a functor is to answer, has no answer yet.
LEMMA PendingIsNotGiven ==
    ASSUME NEW r, InOnePlace(r), Undone(r) # {} \/ Posted(About(r)) # {}
    PROVE  Given(r) = {}
<1>1. /\ Cardinality(Unread(r)) \in Nat /\ Cardinality(Undone(r)) \in Nat
      /\ Cardinality(Queued(r)) \in Nat /\ Cardinality(Handled(r)) \in Nat
      /\ Cardinality(Posted(About(r))) \in Nat /\ Cardinality(Given(r)) \in Nat
  BY CopiesAreCounted
<1>2. /\ IsFiniteSet(Undone(r)) /\ IsFiniteSet(Posted(About(r))) /\ IsFiniteSet(Given(r))
      /\ Copies(r) <= 1
  BY DEF InOnePlace
<1>3. Cardinality(Undone(r)) # 0 \/ Cardinality(Posted(About(r))) # 0
  BY <1>2, FS_EmptySet
<1>4. Cardinality(Given(r)) = 0
  BY <1>1, <1>2, <1>3 DEF Copies
<1> QED BY <1>2, <1>4, FS_EmptySet

\* So the service may answer.
LEMMA NotGivenIsUnanswered ==
    ASSUME TypesInv, NEW r \in Requests, Given(r) = {} PROVE ~Service!Answered(r)
<1>1. r.conn \in Connections
  BY DEF Requests
<1>2. answers[r.conn] \in Seq(Answers)
  BY <1>1 DEF TypesInv, RequestTypes, AnswerTypes
<1>3. ASSUME NEW i \in 1 .. Len(answers[r.conn]), answers[r.conn][i].request = r PROVE FALSE
  <2>1. answers[r.conn][i] \in Answers /\ i \in Nat
    BY <1>2, <1>3, ElementOfSeq
  <2>2. <<r.conn, i>> \in Given(r)
    BY <1>1, <1>3, <2>1 DEF Given, Spots, About
  <2> QED BY <2>2
<1> QED BY <1>3 DEF Service!Answered

\* What is written is an answer of the service.
LEMMA WritesAnswers ==
    ASSUME TypesInv, NEW c \in Connections, NEW a \in GivenOn(c), InOnePlace(a.request),
           Undone(a.request) # {} \/ Posted(About(a.request)) # {},
           Writes(c, a), UNCHANGED received
    PROVE  Service!ServiceNext
<1>1. a \in Answers /\ a.request \in received /\ a.request.conn = c /\ a.code \in Codes
  BY DEF GivenOn, ReceivedOn, Answers
<1>2. a.request \in Requests /\ a = [request |-> a.request, code |-> a.code]
  BY <1>1 DEF Answers
<1>3. ~Service!Answered(a.request)
  BY <1>2, PendingIsNotGiven, NotGivenIsUnanswered
<1>4. a.request.conn \notin Down /\ UNCHANGED Down
  BY <1>1 DEF Down, Writes
<1>5. answers' = [answers EXCEPT ![a.request.conn] =
                     Append(@, [request |-> a.request, code |-> a.code])]
  BY <1>1, <1>2 DEF Writes
<1>6. Service!Answer(a.request, a.code)
  BY <1>3, <1>4, <1>5 DEF Service!Answer
<1> QED BY <1>1, <1>6 DEF Service!ServiceNext

\* The functor that a loop is at is a place of its own.
LEMMA CalledIsPosted ==
    ASSUME LoopInv, NEW l \in Loops, Calling(l, "send"), NEW A, NextFunctor(l).arg \in A
    PROVE  Posted(A) # {}
<1>1. PICK m \in Nat, n \in Nat, q \in Nat :
        m = Len(batch[l]) /\ n = Len(pending[l]) /\ q = called[l]
  BY DEF LoopInv, LoopTypes
<1>2. q < m /\ NextFunctor(l) = batch[l][q + 1] /\ NextFunctor(l).do = "send"
  BY <1>1 DEF Calling, NextFunctor
<1>3. q + 1 \in Places(l) /\ q + 1 \in Nat /\ Place(l, q + 1) = batch[l][q + 1]
  <2>1. q + 1 \in Nat /\ q + 1 <= m /\ q + 1 \in q + 1 .. m + n
    BY <1>2
  <2>2. Places(l) = q + 1 .. m + n
    BY <1>1 DEF Places, Last
  <2> QED BY <1>1, <2>1, <2>2 DEF Place
<1>4. <<l, q + 1>> \in Posted(A)
  BY <1>2, <1>3 DEF Posted, Sends
<1> QED BY <1>4

\* The first request that a loop has to do is to be done.
LEMMA HeadIsUndone ==
    ASSUME TypesInv, NEW l \in Loops, todo[l] # << >> PROVE Undone(Head(todo[l])) # {}
<1>1. todo[l] \in Seq(Requests)
  BY DEF TypesInv, RequestTypes, InputTypes
<1>2. 1 \in 1 .. Len(todo[l]) /\ Head(todo[l]) = todo[l][1]
  <2>1. Len(todo[l]) \in Nat /\ Len(todo[l]) # 0
    BY <1>1, EmptySeq
  <2> QED BY <1>1, <2>1, HeadTailProperties
<1>3. <<l, 1>> \in Undone(Head(todo[l]))
  BY <1>2 DEF Undone, Spots
<1> QED BY <1>3

\* A connection goes down when it is closed, and at no other step.
LEMMA DownKinds ==
    ASSUME TypesInv, ConnInv, Next
    PROVE  UNCHANGED Down \/ \E c \in Connections : c \notin Down /\ Down' = Down \cup {c}
<1>1. state \in [Connections -> {"none", "Connecting", "Connected", "Disconnected"}]
  BY DEF TypesInv, ServerTypes, ChannelTypes
<1>2. CASE Quiet
  BY <1>2 DEF Quiet, Down
<1>3. ASSUME NEW l \in Loops, NEW c \in Connections, Closing(l, c)
      PROVE  c \notin Down /\ Down' = Down \cup {c}
  BY <1>1, <1>3 DEF Closing, HandleClose, Down
<1>4. CASE Accept
  <2>1. PICK c : c = accepted + 1
    OBVIOUS
  <2>2. c > accepted /\ \E s \in {"Connecting", "Connected"} : state' = [state EXCEPT ![c] = s]
    BY <1>4, <2>1 DEF Accept, Established, TypesInv, ServerTypes, AcceptTypes
  <2>3. c \in Connections => state[c] = "none"
    BY <2>2 DEF ConnInv, ChannelsRegistered, RegisteredAtAll
  <2> QED BY <1>1, <2>2, <2>3 DEF Down
<1>5. CASE CallRemove
  BY <1>5 DEF CallRemove, Down
<1>6. ASSUME NEW l \in Loops, CallEstablished(l) \/ CallDestroyed(l) PROVE UNCHANGED Down
  <2>1. PICK f : f = NextFunctor(l)
    OBVIOUS
  <2>2. /\ f \in Uncalled(l) /\ f.conn \in Connections
        /\ \/ f.do = "established" /\ state' = [state EXCEPT ![f.conn] = "Connected"]
           \/ f.do = "destroyed" /\ state' = [state EXCEPT ![f.conn] = "Disconnected"]
    BY <1>6, <2>1, CallingTakes DEF CallEstablished, CallDestroyed, Established, TypesInv
  <2>3. FunctorSound(l, f)
    BY <2>2 DEF ConnInv, FunctorsSound
  <2> QED BY <1>1, <2>2, <2>3 DEF FunctorSound, Down
<1> QED BY <1>2, <1>3, <1>4, <1>5, <1>6, NextKinds

\* Requests are received when a loop reads.
LEMMA OnlyReadReceives ==
    ASSUME Next PROVE UNCHANGED received \/ \E l \in Loops : ReadEvent(l)
<1>1. CASE Input
  BY <1>1 DEF Input, PeerActs
<1>2. ASSUME NEW l \in Loops, LoopStep(l) PROVE UNCHANGED received \/ ReadEvent(l)
  BY <1>2 DEF LoopStep, rpcVars, inputVars, CloseEvent, ReadEnds, CallSend, DecodeFails, Refuse,
     CountRequest, Admit, AdmitCounting, PostAccepted, PostRejected, AnswerRejected, At
<1>3. ASSUME NEW w \in Workers, WorkerStep(w) PROVE UNCHANGED received
  BY <1>3 DEF WorkerStep, Take, HandlerEnds, RecordAnswer, Send, WakeLoop, NobodyToTell,
     WorkerGoes, inputVars
<1> QED BY <1>1, <1>2, <1>3 DEF Next

\* The server receives, answers and goes down as the service does.
LEMMA ServerStep ==
    ASSUME TypesInv, ConnInv, RequestsSound, \A r \in Requests : InOnePlace(r), Next
    PROVE  [Service!ServiceNext]_<<received, answers, Down>>
<1>1. SourcesSound /\ AnswersSound /\ LoopInv
  BY DEF RequestsSound, TypesInv
<1>2. ASSUME NEW l \in Loops, ReadEvent(l) PROVE Service!ServiceNext
  <2>1. received \subseteq received'
    BY <1>1, ReceivedStays
  <2>2. received' \subseteq Requests
    BY NextKeepsTypes DEF TypesInv, RequestTypes, InputTypes
  <2>3. UNCHANGED <<answers, Down>>
    BY <1>2 DEF ReadEvent, Down
  <2>4. Service!Receive
    BY <2>1, <2>2, <2>3 DEF Service!Receive, Requests
  <2> QED BY <2>4 DEF Service!ServiceNext
<1>3. CASE UNCHANGED <<received, answers>>
  <2>1. ASSUME NEW c \in Connections, c \notin Down, Down' = Down \cup {c}
        PROVE  Service!ServiceNext
    BY <1>3, <2>1 DEF Service!GoDown, Service!ServiceNext
  <2> QED BY <1>3, <2>1, DownKinds
<1>4. ASSUME NEW l \in Loops, CallSend(l), UNCHANGED received, ~UNCHANGED answers
      PROVE  Service!ServiceNext
  <2>1. PICK c, a : c = NextFunctor(l).conn /\ a = NextFunctor(l).arg
    OBVIOUS
  <2>2. /\ c \in Connections /\ a \in GivenOn(c) /\ a \in Answers
        /\ Calling(l, "send") /\ SendInLoop(l, c, a)
    BY <1>1, <1>4, <2>1, CallSendGives
  <2>3. a.request \in Requests /\ a \in About(a.request)
    BY <2>2 DEF Answers, About
  <2>4. Posted(About(a.request)) # {}
    BY <1>1, <2>1, <2>2, <2>3, CalledIsPosted
  <2> QED BY <1>4, <2>2, <2>3, <2>4, SendWritesOrNot, WritesAnswers
<1>5. ASSUME NEW l \in Loops, Refuse(l) \/ AnswerRejected(l), UNCHANGED received,
             ~UNCHANGED answers
      PROVE  Service!ServiceNext
  <2>1. PICK c \in Connections, a \in Answers :
          /\ SendInLoop(l, c, a) /\ a \in GivenOn(c) /\ a.request = Head(todo[l])
          /\ todo[l] # << >>
    BY <1>1, <1>5, ErrorGives
  <2>2. a.request \in Requests /\ Undone(a.request) # {}
    BY <2>1, HeadIsUndone DEF Answers
  <2> QED BY <1>5, <2>1, <2>2, SendWritesOrNot, WritesAnswers
<1> QED BY <1>2, <1>3, <1>4, <1>5, OnlyReadReceives, AnswerKinds

\* A request is answered once at most, on the connection it came on and not
\* when that is down, whichever of loop and worker answers it and however late:
\* there is one of it, and who answers gives it away.
THEOREM ServerImplementsService == Spec => ImplementsService
<1>1. Init => Service!ServiceInit
  <2> SUFFICES ASSUME Init PROVE Service!ServiceInit
    OBVIOUS
  <2>1. received = {} /\ answers = [c \in Connections |-> << >>] /\ Down = {}
    BY DEF Init, ServerInit, Down
  <2> QED BY <2>1 DEF Service!ServiceInit
<1>2. /\ TypesInv /\ ConnInv /\ RequestsSound /\ (\A r \in Requests : InOnePlace(r))
      /\ [Next]_vars
      => [Service!ServiceNext]_<<received, answers, Down>>
  <2>1. UNCHANGED vars => UNCHANGED <<received, answers, Down>>
    BY DEF vars, serverVars, rpcVars, inputVars, Down
  <2> QED BY <2>1, ServerStep
<1> QED BY <1>1, <1>2, ServerInvariant, RequestsInvariant, PTL
    DEF Spec, ImplementsService, Service!ServiceSpec
=============================================================================
