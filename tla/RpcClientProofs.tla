-------------------------- MODULE RpcClientProofs --------------------------
(***************************************************************************)
(* Theorems about RpcClient, for any users, calls, options, retries and    *)
(* connections: no call is left behind on a connection that is up, and     *)
(* every call is answered and sent once at most, as RpcCalls says.         *)
(***************************************************************************)
EXTENDS RpcClient, TLAPS

(***************************************************************************)
(* The invariant.                                                          *)
(***************************************************************************)

\* What the loop has still to call, in order.
Functors == batch \o pendingFunctors

\* A call that was sent and, unless it has been answered since, is still
\* marked so in pendingCalls_.
Marked(k) == pending[k] = "Sent" \/ answer[k] # "none"

FunctorType ==
    [do   : {"start", "stop", "send", "forceClose", "deadline", "reconnect", "drain"},
     conn : Connections \cup {None},
     arg  : Calls \cup Users \cup Nat]

\* What the functor f relies on when it is called.
Sound(f) ==
    /\ f.do = "send" => f.conn \in Connections /\ f.arg \in Calls /\ Marked(f.arg)
    /\ f.do = "forceClose" => f.conn \in Connections
    /\ f.do = "deadline" => f.arg \in Calls
    /\ f.do = "drain" => f.arg \in Users /\ pc[f.arg] = "draining"

\* Nobody waits for two functors of disconnect().
OneDrainEach ==
    \A i, j \in 1 .. Len(Functors) :
        /\ Functors[i].do = "drain" /\ Functors[j].do = "drain"
        /\ Functors[i].arg = Functors[j].arg
        => i = j

FunctorInv ==
    /\ batch \in Seq(FunctorType) /\ pendingFunctors \in Seq(FunctorType)
    /\ \A i \in 1 .. Len(Functors) : Sound(Functors[i])
    /\ OneDrainEach

\* pendingCalls_ against the answers, and a call in flight against both.
CallInv ==
    /\ \A k \in Calls : pending[k] # "none" => answer[k] = "none"
    /\ \A k \in Calls : sends[k] = IF pending[k] = "Sent" THEN 1 ELSE 0
    /\ \A m \in inbox : Marked(m[2])

\* A call between its issue and its insertion.
Issuing(u) == pc[u] \in {"readState", "insert", "insertConnect"}

\* A call belongs to the thread that makes it, a thread makes a call or
\* connects or disconnects, and nobody answers a call before it is inserted.
UserInv ==
    \A u \in Users :
        /\ Issuing(u) => /\ cur[u] \in Calls
                         /\ pending[cur[u]] = "none" /\ answer[cur[u]] = "none"
        /\ cur[u] # NoCall => op[u] = "none"
        /\ pc[u] = "idle" => cur[u] = NoCall /\ op[u] = "none"
        /\ \A v \in Users : cur[u] = cur[v] /\ cur[u] # NoCall => u = v

\* Here the loop is done with every call, or was when it began.
AtRest == {"poll", "reconnectStart", "reconnectTcp", "stopInline", "closeInline"}

\* Only inside sendPendingCalls has a thread a list of calls: the loop also
\* while it handles what a send of its own has brought about.
SendInv ==
    /\ pc = [t \in Threads |-> pc[t]]
    /\ \A u \in Users : pc[u] \notin {"sendNext", "send"} => ready[u] = {}
    /\ pc[Loop] \in AtRest => ready[Loop] = {}
    /\ \A t \in Threads : pc[t] = "send" => hold[t] \in Connections /\ sending[t] \in Calls

\* Somebody is going to send call k: the loop, which is about to look for the
\* calls that wait; a thread that has it on its list or is sending it; or the
\* thread that makes it and has not looked at the connection's state yet.
Attended(k) ==
    \/ pc[Loop] \in {"onUp", "sendCheck", "snapshot"}
    \/ pc[Loop] # "poll" /\ k \in ready[Loop]
    \/ \E u \in Users : k \in ready[u]
    \/ \E t \in Threads : pc[t] = "send" /\ sending[t] = k
    \/ \E u \in Users : /\ cur[u] = k
                        /\ pc[u] \in {"startConnect", "connectFlag", "connectQueue",
                                      "sendCheck", "snapshot"}

WaitingAttended ==
    connState = "Connected" /\ connection # None => \A k \in Waiting : Attended(k)

ClientInv == TypeOK /\ SendInv /\ FunctorInv /\ CallInv /\ UserInv /\ WaitingAttended

-----------------------------------------------------------------------------
(***************************************************************************)
(* Sequences of functors.                                                  *)
(***************************************************************************)

\* A functor that is queued is called after those before it.
LEMMA QueueEffect ==
    ASSUME NEW S, batch \in Seq(S), pendingFunctors \in Seq(S), NEW f \in S,
           batch' = batch, QueueInLoop(f)
    PROVE  /\ pendingFunctors' \in Seq(S)
           /\ Len(Functors') = Len(Functors) + 1
           /\ \A i \in 1 .. Len(Functors) : Functors'[i] = Functors[i]
           /\ Functors'[Len(Functors) + 1] = f
BY DEF QueueInLoop, Functors

\* doPendingFunctors takes them all, in their order.
LEMMA SwapEffect ==
    ASSUME NEW S, batch \in Seq(S), pendingFunctors \in Seq(S), SwapFunctors
    PROVE  /\ batch' \in Seq(S) /\ pendingFunctors' \in Seq(S)
           /\ Len(Functors') = Len(Functors)
           /\ \A i \in 1 .. Len(Functors) : Functors'[i] = Functors[i]
BY DEF SwapFunctors, Polling, Functors

\* The one that is called was the first.
LEMMA CallingEffect ==
    ASSUME NEW S, batch \in Seq(S), pendingFunctors \in Seq(S), NEW do, Calling(do)
    PROVE  /\ batch' \in Seq(S) /\ pendingFunctors' \in Seq(S)
           /\ Head(batch) = Functors[1] /\ Head(batch) \in S /\ Functors[1].do = do
           /\ Len(Functors) \in Nat \ {0} /\ Len(Functors') = Len(Functors) - 1
           /\ \A i \in 1 .. Len(Functors') : Functors'[i] = Functors[i + 1]
<1>1. batch # << >> /\ batch' = Tail(batch) /\ pendingFunctors' = pendingFunctors
      BY DEF Calling
<1>. QED BY <1>1 DEF Calling, Functors

-----------------------------------------------------------------------------
(***************************************************************************)
(* What a step does to the calls.                                          *)
(***************************************************************************)
CallsKept == UNCHANGED <<pending, answer, sends>>

\* Nobody is about to insert call k any more.
Given(k) == \A u \in Users : cur[u] = k => ~Issuing(u)'

\* The calls K are over, and were not before. An answer of the server is one
\* to a request, and nobody sent what has exhausted its retries.
CallsSettled(K, e) ==
    /\ K \subseteq Calls
    /\ \A k \in K : answer[k] = "none" /\ (pending[k] # "none" \/ Given(k))
    /\ \/ e = "Failed"
       \/ e = "RetryExhausted" /\ K \subseteq Waiting
       \/ e = "Ok" /\ \E k \in Calls : K = {k} /\ pending[k] = "Sent"
    /\ pending' = [k \in Calls |-> IF k \in K THEN "none" ELSE pending[k]]
    /\ answer' = [k \in Calls |-> IF k \in K THEN e ELSE answer[k]]
    /\ sends' = [k \in Calls |-> IF k \in K THEN 0 ELSE sends[k]]

CallInserted(k) == /\ k \in Calls /\ pending[k] = "none" /\ answer[k] = "none" /\ Given(k)
                   /\ \E u \in Users : cur'[u] = k /\ pc'[u] \in {"sendCheck", "startConnect"}
                   /\ pending' = [pending EXCEPT ![k] = "WaitingToSend"]
                   /\ UNCHANGED <<answer, sends>>

CallSent(k) == /\ k \in Calls /\ pending[k] = "WaitingToSend"
               /\ pending' = [pending EXCEPT ![k] = "Sent"]
               /\ sends' = [sends EXCEPT ![k] = @ + 1]
               /\ UNCHANGED answer

CallsChange == \/ CallsKept
               \/ \E K \in SUBSET Calls, e \in {"Ok", "Failed", "RetryExhausted"} : CallsSettled(K, e)
               \/ \E k \in Calls : CallInserted(k) \/ CallSent(k)

\* Calls taken out of pendingCalls_ were open, so none is answered again.
LEMMA TakenOutIsSettled ==
    ASSUME TypeOK, CallInv, NEW K \in SUBSET Pending, NEW e,
           Erase(K) \/ pending' = [k \in Calls |-> IF k \in K THEN "none" ELSE pending[k]],
           Answered(K, e),
           \/ e = "Failed"
           \/ e = "RetryExhausted" /\ K \subseteq Waiting
           \/ e = "Ok" /\ \E k \in Calls : K = {k} /\ pending[k] = "Sent"
    PROVE  CallsSettled(K, e)
<1>1. K \subseteq Calls /\ \A k \in K : pending[k] # "none"
      BY DEF Pending
<1>2. \A k \in K : answer[k] = "none"
      BY <1>1 DEF CallInv
<1>3. pending' = [k \in Calls |-> IF k \in K THEN "none" ELSE pending[k]]
      BY DEF Erase
<1>4. answer' = [k \in Calls |-> IF k \in K THEN e ELSE answer[k]]
      BY <1>2 DEF Answered
<1>. QED BY <1>1, <1>2, <1>3, <1>4 DEF CallsSettled, Answered

\* A call that is refused before it is inserted.
LEMMA RefusedIsSettled ==
    ASSUME TypeOK, CallInv, NEW k \in Calls, pending[k] = "none", answer[k] = "none",
           Answered({k}, "Failed"), UNCHANGED pending, Given(k)
    PROVE  CallsSettled({k}, "Failed")
<1>1. pending' = [j \in Calls |-> IF j \in {k} THEN "none" ELSE pending[j]]
      BY DEF TypeOK
<1>2. answer' = [j \in Calls |-> IF j \in {k} THEN "Failed" ELSE answer[j]]
      BY DEF Answered
<1>. QED BY <1>1, <1>2 DEF CallsSettled, Answered

\* Every step keeps the calls, settles some, inserts one or sends one.
LEMMA CallsGoOn ==
    ASSUME ClientInv, [Next]_vars
    PROVE  CallsChange
<1>. USE DEF ClientInv
<1>1. CASE UNCHANGED vars
      BY <1>1 DEF vars, callVars, CallsChange, CallsKept
<1>2. CASE NetworkEvent
      BY <1>2 DEF NetworkEvent, rpcVars, callVars, CallsChange, CallsKept
<1>3. ASSUME NEW m \in inbox, OnResponse(m)
      PROVE  CallsChange
  <2>1. m[2] \in Calls /\ Marked(m[2])
        BY DEF TypeOK, CallInv
  <2>2. CASE pending[m[2]] # "none"
    <3>1. {m[2]} \cap Pending = {m[2]} /\ pending[m[2]] = "Sent"
          BY <2>1, <2>2 DEF Pending, Marked, CallInv
    <3>. QED BY <1>3, <2>1, <3>1, TakenOutIsSettled DEF OnResponse, TakeOut, Complete, CallsChange
  <2>3. CASE pending[m[2]] = "none"
    <3>1. {m[2]} \cap Pending = {}
          BY <2>3 DEF Pending
    <3>. QED BY <1>3, <3>1 DEF OnResponse, TakeOut, Complete, Erase, Answered, TypeOK,
                 CallsChange, CallsKept
  <2>. QED BY <2>2, <2>3
<1>4. ASSUME NEW c \in Connections, OnGarbage(c)
      PROVE  CallsChange
  <2>1. Pending \in SUBSET Pending /\ Pending \in SUBSET Calls
        BY DEF Pending
  <2>. QED BY <1>4, <2>1, TakenOutIsSettled DEF OnGarbage, TakeOut, Complete, CallsChange
<1>5. ASSUME NEW t \in Threads, FailAll(t)
      PROVE  CallsChange
  <2>1. Pending \in SUBSET Pending /\ Pending \in SUBSET Calls
        BY DEF Pending
  <2>. QED BY <1>5, <2>1, TakenOutIsSettled DEF FailAll, TakeOut, Complete, CallsChange
<1>6. CASE OnDeadline
  <2>. DEFINE K == {Head(batch).arg} \cap Pending
  <2>1. K \in SUBSET Pending /\ K \in SUBSET Calls
        BY DEF Pending
  <2>. QED BY <1>6, <2>1, TakenOutIsSettled DEF OnDeadline, CallsChange
<1>7. CASE FailSent
  <2>. DEFINE K == {k \in Pending : pending[k] = "Sent" \/ "failFast" \in options[k]}
  <2>1. K \in SUBSET Pending /\ K \in SUBSET Calls
        BY DEF Pending
  <2>2. Erase(K) /\ Answered(K, "Failed")
        BY <1>7 DEF FailSent, TakeOut, Complete
  <2>. QED BY <2>1, <2>2, TakenOutIsSettled DEF CallsChange
<1>8. CASE Expire
  <2>. DEFINE K == {k \in {j \in Waiting : "retry" \in options[j]} : attempts[k] >= MaxRetries}
  <2>1. K \in SUBSET Pending /\ K \in SUBSET Calls /\ K \subseteq Waiting
        BY DEF Pending, Waiting
  <2>2. /\ Answered(K, "RetryExhausted")
        /\ pending' = [k \in Calls |-> IF k \in K THEN "none" ELSE pending[k]]
        BY <1>8 DEF Expire, Complete
  <2>3. CallsSettled(K, "RetryExhausted")
        BY <2>1, <2>2, TakenOutIsSettled
  <2>. QED BY <2>1, <2>3 DEF CallsChange
<1>9. ASSUME NEW t \in Threads, NEW k \in Calls, SendTooLate(t, k)
      PROVE  CallsChange
  <2>1. {k} \cap Pending \in SUBSET Pending /\ {k} \cap Pending \in SUBSET Calls
        BY DEF Pending
  <2>. QED BY <1>9, <2>1, TakenOutIsSettled DEF SendTooLate, TakeOut, Complete, CallsChange
<1>10. ASSUME NEW t \in Threads, Send(t)
       PROVE  CallsChange
  <2>1. sending[t] \in Calls
        BY <1>10 DEF Send, SendIf, SendInv
  <2>. QED BY <1>10, <2>1 DEF Send, SendIf, CallsChange, CallSent, CallsKept
<1>11. ASSUME NEW u \in Users, FailFastNow(u)
       PROVE  CallsChange
  <2>1. cur[u] \in Calls /\ pending[cur[u]] = "none" /\ answer[cur[u]] = "none"
        BY <1>11 DEF FailFastNow, UserInv, Issuing
  <2>2. u \in Threads /\ u # Loop
        BY LoopAssumption DEF Threads
  <2>3. pc'[u] = "idle"
        BY <1>11, <2>2 DEF FailFastNow, Finish, Goto, SendInv
  <2>4. Given(cur[u])
        BY <2>1, <2>3, NoCallAssumption DEF Given, Issuing, UserInv
  <2>. QED BY <1>11, <2>1, <2>4, RefusedIsSettled DEF FailFastNow, Complete, CallsChange
<1>12. ASSUME NEW u \in Users, Insert(u)
       PROVE  CallsChange
  <2>1. cur[u] \in Calls /\ pending[cur[u]] = "none" /\ answer[cur[u]] = "none"
        BY <1>12 DEF Insert, UserInv, Issuing
  <2>2. u \in Threads /\ u # Loop
        BY LoopAssumption DEF Threads
  <2>3. pc'[u] \in {"sendCheck", "startConnect"}
        BY <1>12, <2>2 DEF Insert, Goto, SendInv
  <2>4. Given(cur[u])
        BY <2>1, <2>3, NoCallAssumption DEF Given, Issuing, UserInv
  <2>5. cur' = cur
        BY <1>12 DEF Insert, userVars
  <2>. QED BY <1>12, <2>1, <2>3, <2>4, <2>5 DEF Insert, CallsChange, CallInserted
<1>13. ASSUME NEW u \in Users, NEW k \in Calls, IssueRefused(u, k)
       PROVE  CallsChange
  <2>1. Given(k)
        BY <1>13 DEF IssueRefused, New, Given
  <2>. QED BY <1>13, <2>1, RefusedIsSettled DEF IssueRefused, New, Complete, CallsChange
<1>14. ASSUME NEW u \in Users, NEW k \in Calls, Cancel(u, k)
       PROVE  CallsChange
  <2>1. {k} \in SUBSET Pending /\ {k} \in SUBSET Calls
        BY <1>14 DEF Cancel
  <2>. QED BY <1>14, <2>1, TakenOutIsSettled DEF Cancel, TakeOut, Complete, CallsChange
<1>15. CASE LoopStep /\ ~OnDeadline /\ ~FailSent /\ ~Expire /\ ~FailAll(Loop)
      BY <1>15 DEF LoopStep, rpcVars, callVars, CallsChange, CallsKept, StopInline, CloseInline,
         OnReconnectTimer, CallDrain, OnUp, OnDown, OnError, SetReconnecting, SetDisconnected,
         Schedule, StoreTimer, ReconnectStart, ReconnectTcp
<1>16. CASE Expiry
      BY <1>16 DEF Expiry, DeadlinePasses, FireDeadline, FireReconnect, callVars, CallsChange,
         CallsKept
<1>17. ASSUME NEW t \in Threads,
              SendCheck(t) \/ Snapshot(t) \/ \E k \in Calls : PickConnection(t, k)
       PROVE  CallsChange
      BY <1>17 DEF SendCheck, Snapshot, PickConnection, callVars, CallsChange, CallsKept
<1>18. ASSUME NEW u \in Users,
              UserStep(u), ~FailFastNow(u), ~Insert(u), ~FailAll(u)
       PROVE  CallsChange
      BY <1>18 DEF UserStep, ReadState, StartConnect, TcpConnect, ConnectWait, CancelTimer,
         TcpStop, TcpClose, QueueDrain, DisconnectDone, callVars, CallsChange, CallsKept
<1>19. ASSUME NEW u \in Users,
              \/ ConnectAtOnce(u) \/ ConnectOp(u) \/ DisconnectOp(u)
              \/ \E k \in Calls : Issue(u, k)
       PROVE  CallsChange
      BY <1>19 DEF ConnectAtOnce, ConnectOp, DisconnectOp, Issue, callVars, CallsChange, CallsKept
<1>20. Loop \in Threads /\ Users \subseteq Threads
      BY DEF Threads
<1>. QED
  <2>1. CASE LoopStep
        BY <2>1, <1>5, <1>6, <1>7, <1>8, <1>15, <1>20
  <2>2. ASSUME NEW t \in Threads, SendStep(t)
        PROVE  CallsChange
        BY <2>2, <1>9, <1>10, <1>17 DEF SendStep
  <2>3. ASSUME NEW u \in Users, UserStep(u)
        PROVE  CallsChange
        BY <2>3, <1>5, <1>11, <1>12, <1>18, <1>20
  <2>4. ASSUME NEW u \in Users, UserCall(u)
        PROVE  CallsChange
        BY <2>4, <1>13, <1>14, <1>19 DEF UserCall
  <2>. QED BY <1>1, <1>2, <1>3, <1>4, <1>16, <2>1, <2>2, <2>3, <2>4 DEF Next

-----------------------------------------------------------------------------
(***************************************************************************)
(* Type correctness.                                                       *)
(***************************************************************************)

\* The calls have their types, and the answers, once given, stay.
LEMMA CallTypes ==
    ASSUME ClientInv, [Next]_vars
    PROVE  /\ pending' \in [Calls -> {"none", "WaitingToSend", "Sent"}]
           /\ sends' \in [Calls -> 0 .. 1]
           /\ answer' \in [Calls -> {"none", "Ok", "Failed", "RetryExhausted"}]
           /\ \A k \in Calls : Marked(k) => Marked(k)'
<1>1. CallsChange
      BY CallsGoOn
<1>2. CASE CallsKept
      BY <1>2 DEF CallsKept, ClientInv, TypeOK, Marked
<1>3. ASSUME NEW K \in SUBSET Calls, NEW e \in {"Ok", "Failed", "RetryExhausted"},
             CallsSettled(K, e)
      PROVE  /\ pending' \in [Calls -> {"none", "WaitingToSend", "Sent"}]
             /\ sends' \in [Calls -> 0 .. 1]
             /\ answer' \in [Calls -> {"none", "Ok", "Failed", "RetryExhausted"}]
             /\ \A k \in Calls : Marked(k) => Marked(k)'
      BY <1>3 DEF CallsSettled, ClientInv, TypeOK, Marked
<1>4. ASSUME NEW k \in Calls, CallInserted(k)
      PROVE  /\ pending' \in [Calls -> {"none", "WaitingToSend", "Sent"}]
             /\ sends' \in [Calls -> 0 .. 1]
             /\ answer' \in [Calls -> {"none", "Ok", "Failed", "RetryExhausted"}]
             /\ \A j \in Calls : Marked(j) => Marked(j)'
      BY <1>4 DEF CallInserted, ClientInv, TypeOK, Marked
<1>5. ASSUME NEW k \in Calls, CallSent(k)
      PROVE  /\ pending' \in [Calls -> {"none", "WaitingToSend", "Sent"}]
             /\ sends' \in [Calls -> 0 .. 1]
             /\ answer' \in [Calls -> {"none", "Ok", "Failed", "RetryExhausted"}]
             /\ \A j \in Calls : Marked(j) => Marked(j)'
  <2>1. sends[k] = 0
        BY <1>5 DEF CallSent, ClientInv, CallInv
  <2>2. sends' = [sends EXCEPT ![k] = 1]
        BY <1>5, <2>1 DEF CallSent, ClientInv, TypeOK
  <2>. QED BY <1>5, <2>2 DEF CallSent, ClientInv, TypeOK, Marked
<1>. QED BY <1>1, <1>2, <1>3, <1>4, <1>5 DEF CallsChange

TcpType == /\ requested \in BOOLEAN
           /\ connector \in {"Disconnected", "Connecting", "Connected"}
           /\ connection \in Connections \cup {None}
           /\ link \in [Connections -> {"none", "Connected", "Disconnected"}]
           /\ inbox \subseteq Connections \X Calls

StateType == /\ desired \in BOOLEAN /\ should \in BOOLEAN
             /\ connState \in {"Disconnected", "Connecting", "Connected", "Reconnecting"}
             /\ reconnectTimer \in Timers \cup {None} /\ timerId \in Timers \cup {None}
             /\ timer \in [Timers -> {"free", "armed", "firing", "queued"}]

AuxType == /\ options \in [Calls -> Options \cup {{}}]
           /\ deadline \in [Calls -> {"none", "armed", "passed", "queued", "over"}]
           /\ attempts \in [Calls -> 0 .. MaxRetries]

ThreadType == /\ hold \in [Threads -> Connections \cup {None}]
              /\ ready \in [Threads -> SUBSET Calls]
              /\ sending \in [Threads -> Calls \cup {NoCall}]
              /\ cur \in [Users -> Calls \cup {NoCall}]
              /\ op \in [Users -> {"none", "connect", "disconnect"}] /\ opsLeft \in 0 .. MaxOps

\* The first of the functors is sound when it is called.
LEMMA CalledIsSound ==
    ASSUME ClientInv, NEW do, Calling(do)
    PROVE  Sound(Head(batch)) /\ Head(batch).do = do /\ Head(batch) \in FunctorType
<1>1. /\ Head(batch) = Functors[1] /\ Len(Functors) \in Nat \ {0}
      /\ Head(batch) \in FunctorType /\ Functors[1].do = do
      BY CallingEffect DEF ClientInv, FunctorInv
<1>. QED BY <1>1 DEF ClientInv, FunctorInv

\* Connections are published, replaced and closed within their types.
LEMMA TcpTypeStep ==
    ASSUME ClientInv, [Next]_vars
    PROVE  TcpType'
<1>. USE DEF ClientInv, TypeOK, TcpType
<1>0. TcpType
      OBVIOUS
<1>1. ASSUME NEW c, NEW k, NEW next, SendInLoop(c, k, next), c \in Connections, k \in Calls
      PROVE  TcpType'
      BY <1>1 DEF SendInLoop, HandleClose, tcpVars
<1>2. CASE NetworkEvent
      BY <1>2 DEF NetworkEvent, ConnectSucceeds, ConnectFails, PeerCloses, HandleClose
<1>3. CASE TcpStep
  <2>1. CASE SwapFunctors /\ UNCHANGED tcpVars
        BY <2>1 DEF tcpVars
  <2>2. CASE CallStart
        BY <2>2 DEF CallStart, StartInLoop
  <2>3. CASE CallStop \/ RemoveConnection
        BY <2>3 DEF CallStop, RemoveConnection
  <2>4. CASE CallForceClose
        BY <2>4 DEF CallForceClose, HandleClose, tcpVars
  <2>5. CASE CallSend
    <3>1. Head(batch).conn \in Connections /\ Head(batch).arg \in Calls
          BY <2>5, CalledIsSound DEF CallSend, Sound
    <3>. QED BY <2>5, <3>1, <1>1 DEF CallSend
  <2>6. CASE NewConnection
        BY <2>6 DEF NewConnection
  <2>. QED BY <1>3, <2>1, <2>2, <2>3, <2>4, <2>5, <2>6 DEF TcpStep
<1>4. CASE CloseInline
      BY <1>4 DEF CloseInline, HandleClose, tcpVars
<1>5. CASE StopInline
      BY <1>5 DEF StopInline
<1>6. CASE ReconnectTcp
      BY <1>6 DEF ReconnectTcp, StartInLoop
<1>7. ASSUME NEW t \in Threads, Send(t)
      PROVE  TcpType'
  <2>1. hold[t] \in Connections /\ sending[t] \in Calls
        BY <1>7 DEF Send, SendIf, SendInv
  <2>. QED BY <1>7, <2>1, <1>1 DEF Send, SendIf, tcpVars
<1>8. ASSUME NEW u \in Users, TcpConnect(u) \/ TcpStop(u) \/ TcpClose(u)
      PROVE  TcpType'
      BY <1>8 DEF TcpConnect, TcpStop, TcpClose, ConnectFlag, ConnectQueue, StopFlag, StopQueue,
         StopClose, tcpVars
<1>9. ASSUME NEW m \in inbox, OnResponse(m)
      PROVE  TcpType'
      BY <1>9 DEF OnResponse
<1>10. CASE UNCHANGED tcpVars
      BY <1>10 DEF tcpVars
<1>11. ASSUME LoopStep, ~TcpStep, ~CloseInline, ~StopInline, ~ReconnectTcp
       PROVE  UNCHANGED tcpVars
      BY <1>11 DEF LoopStep, OnDeadline, OnReconnectTimer, CallDrain, OnUp, OnDown, FailSent,
         OnError, Expire, SetReconnecting, SetDisconnected, FailAll, Schedule, StoreTimer,
         ReconnectStart
<1>12. ASSUME NEW t \in Threads, SendStep(t), ~Send(t)
       PROVE  UNCHANGED tcpVars
      BY <1>12 DEF SendStep, SendCheck, Snapshot, SendTooLate, PickConnection
<1>13. ASSUME NEW u \in Users, UserStep(u), ~TcpConnect(u), ~TcpStop(u), ~TcpClose(u)
       PROVE  UNCHANGED tcpVars
      BY <1>13 DEF UserStep, FailFastNow, ReadState, Insert, StartConnect, ConnectWait,
         CancelTimer, FailAll, QueueDrain, DisconnectDone
<1>14. ASSUME NEW u \in Users, UserCall(u)
       PROVE  UNCHANGED tcpVars
      BY <1>14 DEF UserCall, IssueRefused, Issue, Cancel, ConnectAtOnce, ConnectOp, DisconnectOp
<1>15. ASSUME Expiry \/ \E c \in Connections : OnGarbage(c)
       PROVE  UNCHANGED tcpVars
      BY <1>15 DEF Expiry, DeadlinePasses, FireDeadline, FireReconnect, OnGarbage
<1>16. CASE UNCHANGED vars
      BY <1>16, <1>10 DEF vars
<1>. QED BY <1>2, <1>3, <1>4, <1>5, <1>6, <1>7, <1>8, <1>9, <1>10, <1>11, <1>12, <1>13, <1>14,
            <1>15, <1>16 DEF Next, LoopStep, UserStep, SendStep

\* The state of the connection, and the timers for a reconnection.
LEMMA StateTypeStep ==
    ASSUME ClientInv, [Next]_vars
    PROVE  StateType'
<1>. USE DEF ClientInv, TypeOK, StateType
<1>1. CASE UNCHANGED <<stateVars, loopLocal>>
      BY <1>1 DEF stateVars, loopLocal
<1>2. CASE LoopStep
  <2>1. CASE TcpStep /\ UNCHANGED rpcVars
        BY <2>1, <1>1 DEF rpcVars
  <2>2. CASE StopInline \/ CloseInline \/ OnDeadline \/ CallDrain \/ OnError \/ Expire \/ FailAll(Loop)
        BY <2>2, <1>1 DEF StopInline, CloseInline, OnDeadline, CallDrain, OnError, Expire, FailAll
  <2>3. CASE OnReconnectTimer
        BY <2>3 DEF OnReconnectTimer, loopLocal
  <2>4. CASE OnUp \/ SetReconnecting \/ SetDisconnected \/ ReconnectStart
        BY <2>4 DEF OnUp, SetReconnecting, SetDisconnected, ReconnectStart, UpdateState, loopLocal
  <2>5. CASE OnDown \/ FailSent
        BY <2>5 DEF OnDown, FailSent, stateVars
  <2>6. CASE Schedule
        BY <2>6 DEF Schedule
  <2>7. CASE StoreTimer
        BY <2>7 DEF StoreTimer
  <2>8. CASE ReconnectTcp
        BY <2>8, <1>1 DEF ReconnectTcp
  <2>. QED BY <1>2, <2>1, <2>2, <2>3, <2>4, <2>5, <2>6, <2>7, <2>8 DEF LoopStep
<1>3. CASE NetworkEvent
      BY <1>3, <1>1 DEF NetworkEvent, rpcVars
<1>4. CASE Expiry
  <2>1. ASSUME NEW i \in Timers, FireReconnect(i)
        PROVE  StateType'
        BY <2>1 DEF FireReconnect, loopLocal
  <2>2. ASSUME NEW k \in Calls, DeadlinePasses(k) \/ FireDeadline(k)
        PROVE  StateType'
        BY <2>2, <1>1 DEF DeadlinePasses, FireDeadline
  <2>. QED BY <1>4, <2>1, <2>2 DEF Expiry
<1>5. ASSUME NEW t \in Threads, SendStep(t)
      PROVE  StateType'
      BY <1>5, <1>1 DEF SendStep, SendCheck, Snapshot, Send, SendIf, SendTooLate, PickConnection
<1>6. ASSUME NEW u \in Users, UserStep(u)
      PROVE  StateType'
  <2>1. CASE \/ FailFastNow(u) \/ Insert(u) \/ TcpConnect(u) \/ FailAll(u) \/ TcpStop(u)
             \/ TcpClose(u) \/ QueueDrain(u)
        BY <2>1, <1>1 DEF FailFastNow, Insert, TcpConnect, FailAll, TcpStop, TcpClose, QueueDrain
  <2>2. CASE ReadState(u) \/ StartConnect(u) \/ ConnectWait(u) \/ DisconnectDone(u)
        BY <2>2 DEF ReadState, StartConnect, ConnectWait, DisconnectDone, loopLocal
  <2>3. CASE CancelTimer(u)
        BY <2>3 DEF CancelTimer, loopLocal
  <2>. QED BY <1>6, <2>1, <2>2, <2>3 DEF UserStep
<1>7. ASSUME NEW u \in Users, UserCall(u)
      PROVE  StateType'
  <2>1. CASE \E k \in Calls : IssueRefused(u, k) \/ Issue(u, k) \/ Cancel(u, k)
        BY <2>1, <1>1 DEF IssueRefused, Issue, Cancel
  <2>2. CASE ConnectAtOnce(u) \/ ConnectOp(u) \/ DisconnectOp(u)
        BY <2>2 DEF ConnectAtOnce, ConnectOp, DisconnectOp, loopLocal
  <2>. QED BY <1>7, <2>1, <2>2 DEF UserCall
<1>8. ASSUME NEW m, OnResponse(m)
      PROVE  StateType'
      BY <1>8, <1>1 DEF OnResponse
<1>9. ASSUME NEW c, OnGarbage(c)
      PROVE  StateType'
      BY <1>9, <1>1 DEF OnGarbage
<1>10. CASE UNCHANGED vars
      BY <1>10, <1>1 DEF vars
<1>. QED BY <1>2, <1>3, <1>4, <1>5, <1>6, <1>7, <1>8, <1>9, <1>10 DEF Next

\* A call is told that its retries are exhausted before they are more than
\* those it has.
LEMMA AuxTypeStep ==
    ASSUME ClientInv, [Next]_vars
    PROVE  AuxType'
<1>. USE DEF ClientInv, TypeOK, AuxType
<1>0. MaxRetries \in Nat
      BY BoundsAssumption
<1>1. CASE UNCHANGED <<options, deadline, attempts>>
      BY <1>1
<1>2. ASSUME NEW K, NEW e, TakeOut(K, e)
      PROVE  AuxType'
      BY <1>2, <1>0 DEF TakeOut, Erase, Complete, Answered
<1>3. ASSUME NEW K, NEW e, Complete(K, e), UNCHANGED attempts
      PROVE  AuxType'
      BY <1>3 DEF Complete, Answered
<1>4. CASE LoopStep
  <2>1. CASE OnDeadline
    <3>1. options' \in [Calls -> Options \cup {{}}]
          BY <2>1 DEF OnDeadline, Answered
    <3>2. deadline' \in [Calls -> {"none", "armed", "passed", "queued", "over"}]
          BY <2>1 DEF OnDeadline
    <3>3. attempts' \in [Calls -> 0 .. MaxRetries]
          BY <2>1, <1>0 DEF OnDeadline, Erase
    <3>. QED BY <3>1, <3>2, <3>3
  <2>2. CASE FailSent \/ FailAll(Loop)
        BY <2>2, <1>2 DEF FailSent, FailAll
  <2>3. CASE Expire
    <3>1. attempts' \in [Calls -> 0 .. MaxRetries]
      <4>. DEFINE X == {k \in {j \in Waiting : "retry" \in options[j]} : attempts[k] >= MaxRetries}
      <4>1. /\ attempts' = [k \in Calls |->
                              CASE k \in X -> 0
                                [] k \in {j \in Waiting : "retry" \in options[j]} \ X -> attempts[k] + 1
                                [] OTHER -> attempts[k]]
            BY <2>3 DEF Expire
      <4>2. ASSUME NEW k \in Calls
            PROVE  attempts'[k] \in 0 .. MaxRetries
            BY <4>1, <1>0
      <4>. QED BY <4>1, <4>2
    <3>. QED BY <2>3, <3>1 DEF Expire, Complete, Answered
  <2>4. CASE ~OnDeadline /\ ~FailSent /\ ~FailAll(Loop) /\ ~Expire
        BY <1>4, <2>4, <1>1 DEF LoopStep, rpcVars, callVars, StopInline, CloseInline,
           OnReconnectTimer, CallDrain, OnUp, OnDown, OnError, SetReconnecting, SetDisconnected,
           Schedule, StoreTimer, ReconnectStart, ReconnectTcp
  <2>. QED BY <2>1, <2>2, <2>3, <2>4
<1>5. ASSUME NEW t \in Threads, SendStep(t)
      PROVE  AuxType'
  <2>1. ASSUME NEW k \in Calls, SendTooLate(t, k)
        PROVE  AuxType'
        BY <2>1, <1>2 DEF SendTooLate
  <2>2. CASE SendCheck(t) \/ Snapshot(t) \/ Send(t) \/ \E k \in Calls : PickConnection(t, k)
        BY <2>2, <1>1 DEF SendCheck, Snapshot, Send, SendIf, PickConnection, callVars
  <2>. QED BY <1>5, <2>1, <2>2 DEF SendStep
<1>6. ASSUME NEW u \in Users, UserStep(u)
      PROVE  AuxType'
  <2>1. CASE FailFastNow(u)
        BY <2>1, <1>3 DEF FailFastNow
  <2>2. CASE FailAll(u)
        BY <2>2, <1>2 DEF FailAll
  <2>3. CASE ~FailFastNow(u) /\ ~FailAll(u)
        BY <1>6, <2>3, <1>1 DEF UserStep, ReadState, Insert, StartConnect, TcpConnect, ConnectWait,
           CancelTimer, TcpStop, TcpClose, QueueDrain, DisconnectDone, callVars
  <2>. QED BY <2>1, <2>2, <2>3
<1>7. ASSUME NEW u \in Users, UserCall(u)
      PROVE  AuxType'
  <2>1. ASSUME NEW k \in Calls, IssueRefused(u, k)
        PROVE  AuxType'
        BY <2>1, <1>3 DEF IssueRefused
  <2>2. ASSUME NEW k \in Calls, Issue(u, k)
        PROVE  AuxType'
        BY <2>2 DEF Issue
  <2>3. ASSUME NEW k \in Calls, Cancel(u, k)
        PROVE  AuxType'
        BY <2>3, <1>2 DEF Cancel
  <2>4. CASE ConnectAtOnce(u) \/ ConnectOp(u) \/ DisconnectOp(u)
        BY <2>4, <1>1 DEF ConnectAtOnce, ConnectOp, DisconnectOp, callVars
  <2>. QED BY <1>7, <2>1, <2>2, <2>3, <2>4 DEF UserCall
<1>8. ASSUME NEW m, OnResponse(m)
      PROVE  AuxType'
      BY <1>8, <1>2 DEF OnResponse
<1>9. ASSUME NEW c, OnGarbage(c)
      PROVE  AuxType'
      BY <1>9, <1>2 DEF OnGarbage
<1>10. CASE Expiry
  <2>1. ASSUME NEW k \in Calls, DeadlinePasses(k) \/ FireDeadline(k)
        PROVE  AuxType'
        BY <2>1 DEF DeadlinePasses, FireDeadline
  <2>2. ASSUME NEW i \in Timers, FireReconnect(i)
        PROVE  AuxType'
        BY <2>2, <1>1 DEF FireReconnect, callVars
  <2>. QED BY <1>10, <2>1, <2>2 DEF Expiry
<1>11. CASE NetworkEvent \/ UNCHANGED vars
      BY <1>11, <1>1 DEF NetworkEvent, rpcVars, callVars, vars
<1>. QED BY <1>4, <1>5, <1>6, <1>7, <1>8, <1>9, <1>10, <1>11 DEF Next

\* Where the end of a handler or of a call leads.
LEMMA FinishEffect ==
    ASSUME ClientInv, NEW t \in Threads, Finish(t)
    PROVE  /\ cur' \in [Users -> Calls \cup {NoCall}]
           /\ op' \in [Users -> {"none", "connect", "disconnect"}] /\ opsLeft' = opsLeft
           /\ pc' = [r \in Threads |-> pc'[r]]
           /\ \A r \in Threads \ {t} : pc'[r] = pc[r]
           /\ \A u \in Users \ {t} : cur'[u] = cur[u] /\ op'[u] = op[u]
           /\ t # Loop => t \in Users /\ pc'[t] = "idle" /\ cur'[t] = NoCall /\ op'[t] = "none"
           /\ t = Loop => /\ UNCHANGED userVars
                          /\ pc'[t] = IF ready[t] = {} \/ pc[t] = "sendNext"
                                        THEN "poll" ELSE "sendNext"
<1>. USE LoopAssumption DEF ClientInv, TypeOK, SendInv, Threads
<1>1. CASE t = Loop
      BY <1>1 DEF Finish, Goto, userVars
<1>2. CASE t # Loop
  <2>1. /\ t \in Users /\ pc' = [pc EXCEPT ![t] = "idle"]
        /\ cur' = [cur EXCEPT ![t] = NoCall] /\ op' = [op EXCEPT ![t] = "none"]
        /\ opsLeft' = opsLeft
        BY <1>2 DEF Finish, Goto
  <2>2. /\ pc' = [r \in Threads |-> pc'[r]] /\ pc'[t] = "idle"
        /\ \A r \in Threads \ {t} : pc'[r] = pc[r]
        BY <2>1
  <2>3. /\ cur' \in [Users -> Calls \cup {NoCall}] /\ cur'[t] = NoCall
        /\ \A u \in Users \ {t} : cur'[u] = cur[u]
        BY <2>1
  <2>4. /\ op' \in [Users -> {"none", "connect", "disconnect"}] /\ op'[t] = "none"
        /\ \A u \in Users \ {t} : op'[u] = op[u]
        BY <2>1
  <2>. QED BY <1>2, <2>1, <2>2, <2>3, <2>4
<1>. QED BY <1>1, <1>2

\* The same for a thread that still has the calls K to send.
LEMMA GoOnEffect ==
    ASSUME ClientInv, NEW t \in Threads, NEW K \in SUBSET Calls, GoOnWith(t, K)
    PROVE  /\ ready' = [ready EXCEPT ![t] = K]
           /\ ready' \in [Threads -> SUBSET Calls]
           /\ ready'[t] = K /\ \A r \in Threads \ {t} : ready'[r] = ready[r]
           /\ cur' \in [Users -> Calls \cup {NoCall}]
           /\ op' \in [Users -> {"none", "connect", "disconnect"}] /\ opsLeft' = opsLeft
           /\ pc' = [r \in Threads |-> pc'[r]]
           /\ \A r \in Threads \ {t} : pc'[r] = pc[r]
           /\ \A u \in Users \ {t} : cur'[u] = cur[u] /\ op'[u] = op[u]
           /\ K # {} => pc'[t] = "sendNext" /\ UNCHANGED userVars
           /\ K = {} /\ t # Loop => pc'[t] = "idle" /\ cur'[t] = NoCall /\ op'[t] = "none"
           /\ K = {} /\ t = Loop => /\ UNCHANGED userVars
                                    /\ pc'[t] = IF ready[t] = {} \/ pc[t] = "sendNext"
                                                  THEN "poll" ELSE "sendNext"
<1>1. /\ ready' = [ready EXCEPT ![t] = K]
      /\ ready' \in [Threads -> SUBSET Calls]
      /\ ready'[t] = K /\ \A r \in Threads \ {t} : ready'[r] = ready[r]
      BY DEF GoOnWith, ClientInv, TypeOK
<1>2. CASE K = {}
      BY <1>1, <1>2, FinishEffect DEF GoOnWith
<1>3. CASE K # {}
      BY <1>1, <1>3 DEF GoOnWith, Goto, userVars, ClientInv, TypeOK, SendInv
<1>. QED BY <1>1, <1>2, <1>3

\* The lists of calls, what is being sent, and who makes which call.
LEMMA ThreadTypeStep ==
    ASSUME ClientInv, [Next]_vars
    PROVE  ThreadType'
<1>. USE DEF ClientInv, TypeOK, ThreadType
<1>0. Loop \in Threads /\ Users \subseteq Threads /\ MaxOps \in Nat
      BY BoundsAssumption DEF Threads
<1>1. CASE UNCHANGED <<sendVars, userVars>>
      BY <1>1 DEF sendVars, userVars
<1>2. CASE UNCHANGED sendVars /\ \E t \in Threads : Finish(t)
      BY <1>2, FinishEffect DEF sendVars
<1>3. CASE UNCHANGED <<ready, sending, userVars>> /\ hold' = hold
      BY <1>3, <1>1 DEF sendVars
<1>4. CASE LoopStep
  <2>1. CASE TcpStep /\ UNCHANGED rpcVars
        BY <2>1, <1>3 DEF rpcVars, TcpStep, CallStart, CallStop, CallForceClose, CallSend,
           NewConnection, RemoveConnection
  <2>2. CASE \/ StopInline \/ CloseInline \/ OnDeadline \/ OnReconnectTimer \/ CallDrain
             \/ OnUp \/ OnDown \/ FailSent \/ OnError \/ Expire
             \/ SetReconnecting \/ SetDisconnected \/ ReconnectStart \/ ReconnectTcp
        BY <2>2, <1>1 DEF StopInline, CloseInline, OnDeadline, OnReconnectTimer, CallDrain, OnUp,
           OnDown, FailSent, OnError, Expire, SetReconnecting, SetDisconnected, ReconnectStart,
           ReconnectTcp
  <2>3. CASE FailAll(Loop) \/ StoreTimer \/ Schedule
        BY <2>3, <1>0, <1>1, <1>2 DEF FailAll, StoreTimer, Schedule
  <2>. QED BY <1>4, <2>1, <2>2, <2>3 DEF LoopStep
<1>5. CASE NetworkEvent
      BY <1>5, <1>3 DEF NetworkEvent, rpcVars, ConnectSucceeds, ConnectFails, PeerCloses
<1>6. CASE Expiry
      BY <1>6, <1>1 DEF Expiry, DeadlinePasses, FireDeadline, FireReconnect
<1>7. ASSUME NEW t \in Threads, SendStep(t)
      PROVE  ThreadType'
  <2>1. CASE SendCheck(t)
        BY <2>1, <1>1, <1>2 DEF SendCheck
  <2>2. CASE Snapshot(t)
    <3>1. Waiting \in SUBSET Calls
          BY DEF Waiting
    <3>. QED BY <2>2, <3>1, GoOnEffect DEF Snapshot
  <2>3. CASE Send(t)
    <3>1. ready[t] \in SUBSET Calls /\ NoCall \in Calls \cup {NoCall}
          OBVIOUS
    <3>2. /\ hold' \in [Threads -> Connections \cup {None}]
          /\ sending' \in [Threads -> Calls \cup {NoCall}]
          BY <2>3 DEF Send, SendIf
    <3>3. CASE GoOnWith(t, ready[t])
          BY <3>1, <3>2, <3>3, GoOnEffect
    <3>4. CASE UNCHANGED <<ready, userVars>>
          BY <3>2, <3>4 DEF userVars
    <3>. QED BY <2>3, <3>3, <3>4 DEF Send, SendIf
  <2>4. ASSUME NEW k \in Calls, SendTooLate(t, k)
        PROVE  ThreadType'
    <3>1. ready[t] \ {k} \in SUBSET Calls
          OBVIOUS
    <3>. QED BY <2>4, <3>1, GoOnEffect DEF SendTooLate
  <2>5. ASSUME NEW k \in Calls, PickConnection(t, k)
        PROVE  ThreadType'
    <3>1. ready[t] \ {k} \in SUBSET Calls
          OBVIOUS
    <3>2. CASE connection = None
          BY <2>5, <3>1, <3>2, GoOnEffect DEF PickConnection
    <3>3. CASE connection # None
          BY <2>5, <3>1, <3>3 DEF PickConnection, userVars
    <3>. QED BY <3>2, <3>3
  <2>. QED BY <1>7, <2>1, <2>2, <2>3, <2>4, <2>5 DEF SendStep
<1>8. ASSUME NEW u \in Users, UserStep(u)
      PROVE  ThreadType'
  <2>1. CASE FailFastNow(u) \/ ConnectWait(u) \/ FailAll(u) \/ DisconnectDone(u)
        BY <2>1, <1>0, <1>1, <1>2 DEF FailFastNow, ConnectWait, FailAll, DisconnectDone
  <2>2. CASE \/ ReadState(u) \/ Insert(u) \/ StartConnect(u) \/ CancelTimer(u) \/ QueueDrain(u)
        BY <2>2, <1>1 DEF ReadState, Insert, StartConnect, CancelTimer, QueueDrain
  <2>3. CASE TcpConnect(u) \/ TcpStop(u)
        BY <2>3, <1>3 DEF TcpConnect, TcpStop, ConnectFlag, ConnectQueue, StopFlag, StopQueue
  <2>4. CASE TcpClose(u)
    <3>1. UNCHANGED sendVars
          BY <2>4 DEF TcpClose, StopClose, sendVars
    <3>. QED BY <2>4, <3>1, <1>0, <1>1, <1>2 DEF TcpClose
  <2>. QED BY <1>8, <2>1, <2>2, <2>3, <2>4 DEF UserStep
<1>9. ASSUME NEW u \in Users, UserCall(u)
      PROVE  ThreadType'
  <2>1. CASE ConnectAtOnce(u) \/ \E k \in Calls : IssueRefused(u, k) \/ Cancel(u, k)
        BY <2>1, <1>1 DEF ConnectAtOnce, IssueRefused, Cancel
  <2>2. ASSUME NEW k \in Calls, Issue(u, k)
        PROVE  ThreadType'
        BY <2>2 DEF Issue, sendVars
  <2>3. CASE ConnectOp(u) \/ DisconnectOp(u)
        BY <2>3, <1>0 DEF ConnectOp, DisconnectOp, Begin, sendVars
  <2>. QED BY <1>9, <2>1, <2>2, <2>3 DEF UserCall
<1>10. CASE \/ UNCHANGED vars \/ (\E m \in inbox : OnResponse(m))
            \/ (\E c \in Connections : OnGarbage(c))
      BY <1>10, <1>1 DEF vars, OnResponse, OnGarbage
<1>. QED BY <1>4, <1>5, <1>6, <1>7, <1>8, <1>9, <1>10 DEF Next

\* All the types.
LEMMA TypeStep ==
    ASSUME ClientInv, [Next]_vars
    PROVE  TypeOK'
BY CallTypes, TcpTypeStep, StateTypeStep, AuxTypeStep, ThreadTypeStep
   DEF TypeOK, TcpType, StateType, AuxType, ThreadType

-----------------------------------------------------------------------------
(***************************************************************************)
(* Threads.                                                                *)
(***************************************************************************)

\* A step concerns one thread: the others stay where they are, with what they
\* have.
Local(t) == /\ pc' = [r \in Threads |-> pc'[r]]
            /\ \A r \in Threads \ {t} : /\ pc'[r] = pc[r] /\ ready'[r] = ready[r]
                                        /\ sending'[r] = sending[r] /\ hold'[r] = hold[r]
            /\ \A u \in Users \ {t} : cur'[u] = cur[u] /\ op'[u] = op[u]

\* A step of a thread that has nothing to do with sending.
LEMMA LocalGoto ==
    ASSUME ClientInv, NEW t \in Threads, UNCHANGED sendVars,
           \/ UNCHANGED <<pc, userVars>>
           \/ (\E label : Goto(t, label)) /\ UNCHANGED userVars
           \/ Finish(t)
    PROVE  Local(t)
<1>1. CASE UNCHANGED <<pc, userVars>>
      BY <1>1 DEF ClientInv, SendInv, Local, sendVars, userVars
<1>2. CASE (\E label : Goto(t, label)) /\ UNCHANGED userVars
      BY <1>2 DEF ClientInv, SendInv, Local, sendVars, userVars, Goto
<1>3. CASE Finish(t)
      BY <1>3, FinishEffect DEF Local, sendVars
<1>. QED BY <1>1, <1>2, <1>3

\* The loop's steps, but for the one that lets disconnect() go on.
LEMMA LoopIsLocal ==
    ASSUME ClientInv,
           \/ LoopStep /\ ~CallDrain
           \/ NetworkEvent
           \/ \E m \in inbox : OnResponse(m)
           \/ \E c \in Connections : OnGarbage(c)
    PROVE  Local(Loop) /\ UNCHANGED <<sendVars, userVars>>
<1>0. Loop \in Threads
      BY DEF Threads
<1>1. CASE TcpStep /\ UNCHANGED rpcVars
  <2>1. UNCHANGED <<sendVars, userVars>>
        BY <1>1 DEF rpcVars, sendVars, TcpStep, CallStart, CallStop, CallForceClose, CallSend,
           NewConnection, RemoveConnection
  <2>2. UNCHANGED pc \/ \E label : Goto(Loop, label)
        BY <1>1 DEF TcpStep, CallStart, StartInLoop, CallStop, CallForceClose, HandleClose,
           CallSend, SendInLoop, NewConnection, RemoveConnection, tcpVars
  <2>. QED BY <1>0, <2>1, <2>2, LocalGoto DEF userVars
<1>2. CASE NetworkEvent
  <2>1. UNCHANGED <<sendVars, userVars>>
        BY <1>2 DEF NetworkEvent, rpcVars, sendVars, ConnectSucceeds, ConnectFails, PeerCloses
  <2>2. UNCHANGED pc \/ \E label : Goto(Loop, label)
        BY <1>2 DEF NetworkEvent, ConnectSucceeds, ConnectFails, PeerCloses, HandleClose
  <2>. QED BY <1>0, <2>1, <2>2, LocalGoto DEF userVars
<1>3. CASE \/ \E m \in inbox : OnResponse(m)
           \/ \E c \in Connections : OnGarbage(c)
      BY <1>0, <1>3, LocalGoto DEF OnResponse, OnGarbage, userVars
<1>4. CASE StopInline \/ OnDeadline \/ OnUp \/ OnDown \/ SetReconnecting \/ SetDisconnected
           \/ ReconnectStart
      BY <1>0, <1>4, LocalGoto DEF StopInline, OnDeadline, OnUp, OnDown, SetReconnecting,
         SetDisconnected, ReconnectStart, UpdateState
<1>5. CASE CloseInline
      BY <1>0, <1>5, LocalGoto DEF CloseInline, HandleClose
<1>6. CASE OnReconnectTimer \/ FailSent \/ OnError \/ Expire
      BY <1>0, <1>6, LocalGoto DEF OnReconnectTimer, FailSent, OnError, Expire
<1>7. CASE FailAll(Loop) \/ Schedule \/ StoreTimer
  <2>1. UNCHANGED sendVars /\ (Finish(Loop) \/ (UNCHANGED userVars /\ \E label : Goto(Loop, label)))
        BY <1>7 DEF FailAll, Schedule, StoreTimer
  <2>2. Finish(Loop) => UNCHANGED userVars
        BY <1>0, FinishEffect
  <2>. QED BY <1>0, <2>1, <2>2, LocalGoto
<1>8. CASE ReconnectTcp
      BY <1>0, <1>8, LocalGoto DEF ReconnectTcp, StartInLoop
<1>. QED BY <1>1, <1>2, <1>3, <1>4, <1>5, <1>6, <1>7, <1>8 DEF LoopStep

\* A functor of disconnect() finds the thread that waits for it.
LEMMA DrainIsLocal ==
    ASSUME ClientInv, CallDrain
    PROVE  /\ Head(batch).arg \in Users /\ pc[Head(batch).arg] = "draining"
           /\ pc' = [pc EXCEPT ![Head(batch).arg] = "drained"]
           /\ Local(Head(batch).arg) /\ UNCHANGED <<sendVars, userVars>>
<1>1. Head(batch).arg \in Users /\ pc[Head(batch).arg] = "draining"
      BY CalledIsSound DEF CallDrain, Sound
<1>2. Head(batch).arg \in Threads
      BY <1>1 DEF Threads
<1>. QED BY <1>1, <1>2, LocalGoto DEF CallDrain, Goto

\* Expiring timers touch no thread.
LEMMA ExpiryIsLocal ==
    ASSUME ClientInv, Expiry
    PROVE  UNCHANGED <<pc, sendVars, userVars>>
BY DEF Expiry, DeadlinePasses, FireDeadline, FireReconnect

\* A thread inside sendPendingCalls.
LEMMA SendIsLocal ==
    ASSUME ClientInv, NEW t \in Threads, SendStep(t)
    PROVE  Local(t)
<1>. USE DEF ClientInv, TypeOK
<1>1. CASE SendCheck(t)
      BY <1>1, LocalGoto DEF SendCheck
<1>2. CASE Snapshot(t)
  <2>1. Waiting \in SUBSET Calls
        BY DEF Waiting
  <2>. QED BY <1>2, <2>1, GoOnEffect DEF Snapshot, Local
<1>3. CASE Send(t)
  <2>1. /\ \A r \in Threads \ {t} : sending'[r] = sending[r] /\ hold'[r] = hold[r]
        BY <1>3 DEF Send, SendIf
  <2>2. CASE GoOnWith(t, ready[t])
    <3>1. ready[t] \in SUBSET Calls
          OBVIOUS
    <3>. QED BY <2>1, <2>2, <3>1, GoOnEffect DEF Local
  <2>3. CASE UNCHANGED <<ready, userVars>> /\ \E label : Goto(t, label)
        BY <2>1, <2>3 DEF Local, Goto, userVars, SendInv
  <2>. QED BY <1>3, <2>2, <2>3 DEF Send, SendIf, SendInLoop, HandleClose
<1>4. ASSUME NEW k \in Calls, SendTooLate(t, k)
      PROVE  Local(t)
  <2>1. ready[t] \ {k} \in SUBSET Calls
        OBVIOUS
  <2>. QED BY <1>4, <2>1, GoOnEffect DEF SendTooLate, Local
<1>5. ASSUME NEW k \in Calls, PickConnection(t, k)
      PROVE  Local(t)
  <2>1. ready[t] \ {k} \in SUBSET Calls
        OBVIOUS
  <2>2. CASE connection = None
        BY <1>5, <2>1, <2>2, GoOnEffect DEF PickConnection, Local
  <2>3. CASE connection # None
    <3>1. /\ pc' = [pc EXCEPT ![t] = "send"] /\ UNCHANGED <<cur, op>>
          /\ ready' = [ready EXCEPT ![t] = @ \ {k}]
          /\ hold' = [hold EXCEPT ![t] = connection] /\ sending' = [sending EXCEPT ![t] = k]
          BY <1>5, <2>3 DEF PickConnection, Goto, userVars
    <3>2. pc' = [r \in Threads |-> pc'[r]] /\ \A r \in Threads \ {t} : pc'[r] = pc[r]
          BY <3>1 DEF SendInv
    <3>3. \A r \in Threads \ {t} : /\ ready'[r] = ready[r] /\ sending'[r] = sending[r]
                                   /\ hold'[r] = hold[r]
          BY <3>1
    <3>. QED BY <3>1, <3>2, <3>3 DEF Local
  <2>. QED BY <2>2, <2>3
<1>. QED BY <1>1, <1>2, <1>3, <1>4, <1>5 DEF SendStep

\* A user's thread.
LEMMA UserIsLocal ==
    ASSUME ClientInv, NEW u \in Users, UserStep(u) \/ UserCall(u)
    PROVE  Local(u) /\ UNCHANGED sendVars
<1>0. u \in Threads /\ u # Loop
      BY LoopAssumption DEF Threads
<1>1. CASE FailFastNow(u) \/ ConnectWait(u) \/ FailAll(u) \/ DisconnectDone(u)
      BY <1>0, <1>1, LocalGoto DEF FailFastNow, ConnectWait, FailAll, DisconnectDone
<1>2. CASE \/ ReadState(u) \/ Insert(u) \/ StartConnect(u) \/ CancelTimer(u) \/ QueueDrain(u)
      BY <1>0, <1>2, LocalGoto DEF ReadState, Insert, StartConnect, CancelTimer, QueueDrain
<1>3. CASE TcpConnect(u) \/ TcpStop(u)
      BY <1>0, <1>3, LocalGoto DEF TcpConnect, TcpStop, ConnectFlag, ConnectQueue, StopFlag,
         StopQueue, sendVars
<1>4. CASE TcpClose(u)
      BY <1>0, <1>4, LocalGoto DEF TcpClose, StopClose, sendVars
<1>5. CASE UserCall(u)
  <2>1. CASE ConnectAtOnce(u) \/ \E k \in Calls : IssueRefused(u, k) \/ Cancel(u, k)
        BY <1>0, <2>1, LocalGoto DEF ConnectAtOnce, IssueRefused, Cancel
  <2>2. ASSUME NEW k \in Calls, Issue(u, k)
        PROVE  Local(u) /\ UNCHANGED sendVars
        BY <1>0, <2>2 DEF Issue, Goto, Local, sendVars, ClientInv, SendInv, TypeOK
  <2>3. CASE ConnectOp(u) \/ DisconnectOp(u)
        BY <1>0, <2>3 DEF ConnectOp, DisconnectOp, Begin, Goto, Local, sendVars, ClientInv,
           SendInv, TypeOK
  <2>. QED BY <1>5, <2>1, <2>2, <2>3 DEF UserCall
<1>. QED BY <1>1, <1>2, <1>3, <1>4, <1>5 DEF UserStep

-----------------------------------------------------------------------------
(***************************************************************************)
(* Lists of calls to send.                                                 *)
(***************************************************************************)

\* What SendInv says of thread t.
Sending(t) ==
    /\ t \in Users => (pc[t] \notin {"sendNext", "send"} => ready[t] = {})
    /\ t = Loop => (pc[t] \in AtRest => ready[t] = {})
    /\ pc[t] = "send" => hold[t] \in Connections /\ sending[t] \in Calls

\* What the thread of a step has to send decides for all.
LEMMA SendingIsLocal ==
    ASSUME ClientInv, NEW t \in Threads, Local(t), Sending(t)'
    PROVE  SendInv'
<1>1. \A r \in Threads \ {t} : Sending(r)'
      BY DEF Local, ClientInv, SendInv, Sending
<1>2. \A r \in Threads : Sending(r)'
      BY <1>1
<1>. QED BY <1>2 DEF SendInv, Sending, Local, Threads

\* The loop: only a functor or an event leads to a reconnection, and after
\* what a send has brought about it goes back to its list.
LEMMA LoopSending ==
    ASSUME ClientInv,
           \/ LoopStep /\ ~CallDrain
           \/ NetworkEvent
           \/ \E m \in inbox : OnResponse(m)
           \/ \E c \in Connections : OnGarbage(c)
    PROVE  SendInv'
<1>. USE DEF ClientInv, SendInv
<1>0. /\ Loop \in Threads /\ Loop \notin Users
      /\ Local(Loop) /\ UNCHANGED <<sendVars, userVars>>
      BY LoopIsLocal, LoopAssumption DEF Threads
<1>1. SUFFICES ASSUME pc'[Loop] \in AtRest \cup {"send"}
               PROVE  Sending(Loop)'
      BY <1>0, SendingIsLocal DEF Sending
<1>2. CASE pc[Loop] \in AtRest /\ pc'[Loop] # "send"
      BY <1>0, <1>2 DEF Sending, sendVars, AtRest
<1>3. CASE UNCHANGED pc
      BY <1>0, <1>3 DEF Sending, sendVars
<1>4. CASE TcpStep /\ ~UNCHANGED pc
      BY <1>0, <1>1, <1>2, <1>4 DEF TcpStep, CallStart, StartInLoop, CallStop, CallForceClose,
         HandleClose, CallSend, SendInLoop, NewConnection, RemoveConnection, Goto, Calling, AtRest
<1>5. CASE NetworkEvent
      BY <1>0, <1>1, <1>2, <1>5 DEF NetworkEvent, ConnectSucceeds, ConnectFails, PeerCloses,
         HandleClose, Goto, Polling, AtRest
<1>6. CASE \/ \E m \in inbox : OnResponse(m)
           \/ \E c \in Connections : OnGarbage(c)
      BY <1>0, <1>1, <1>2, <1>3, <1>6 DEF OnGarbage, OnResponse, Goto, Polling, AtRest
<1>7. CASE StopInline \/ OnDeadline \/ OnUp \/ OnDown \/ SetReconnecting \/ SetDisconnected
      BY <1>0, <1>1, <1>2, <1>3, <1>7 DEF StopInline, OnDeadline, OnUp, OnDown, SetReconnecting,
         SetDisconnected, UpdateState, Goto, AtRest
<1>8. CASE CloseInline \/ OnReconnectTimer \/ ReconnectStart \/ ReconnectTcp
      BY <1>0, <1>1, <1>2, <1>8 DEF CloseInline, HandleClose, OnReconnectTimer, Calling,
         ReconnectStart, ReconnectTcp, UpdateState, StartInLoop, Goto, AtRest
<1>9. CASE FailSent \/ OnError \/ Expire
      BY <1>0, <1>1, <1>9 DEF FailSent, OnError, Expire, Goto, AtRest
<1>10. CASE FailAll(Loop) \/ Schedule \/ StoreTimer
  <2>1. CASE Finish(Loop)
    <3>1. pc[Loop] # "sendNext"
          BY <1>10 DEF FailAll, Schedule, StoreTimer
    <3>. QED BY <1>0, <1>1, <2>1, <3>1, FinishEffect DEF Sending, sendVars, AtRest
  <2>2. CASE ~Finish(Loop)
        BY <1>0, <1>1, <1>10, <2>2 DEF FailAll, Schedule, Goto, StoreTimer, AtRest
  <2>. QED BY <2>1, <2>2
<1>. QED BY <1>3, <1>4, <1>5, <1>6, <1>7, <1>8, <1>9, <1>10 DEF LoopStep

\* A thread in sendPendingCalls has a list, and a connection and a call when
\* it is about to send.
LEMMA SendSending ==
    ASSUME ClientInv, NEW t \in Threads, SendStep(t)
    PROVE  SendInv'
<1>. USE DEF ClientInv, SendInv
<1>0. Local(t)
      BY SendIsLocal
<1>1. SUFFICES Sending(t)'
      BY <1>0, SendingIsLocal
<1>3. CASE SendCheck(t)
  <2>1. CASE Finish(t)
        BY <1>3, <2>1, FinishEffect DEF SendCheck, Sending, sendVars, AtRest
  <2>2. CASE Goto(t, "snapshot")
        BY <1>3, <2>2 DEF SendCheck, Sending, sendVars, Goto, AtRest
  <2>. QED BY <1>3, <2>1, <2>2 DEF SendCheck
<1>4. CASE Snapshot(t)
  <2>1. Waiting \in SUBSET Calls
        BY DEF Waiting
  <2>. QED BY <1>4, <2>1, GoOnEffect DEF Snapshot, Sending, AtRest
<1>5. CASE Send(t)
  <2>1. ready[t] \in SUBSET Calls
        BY DEF TypeOK
  <2>2. CASE GoOnWith(t, ready[t])
        BY <1>5, <2>1, <2>2, GoOnEffect DEF Send, SendIf, Sending, AtRest
  <2>3. CASE t = Loop /\ UNCHANGED ready
             /\ (Goto(t, IF ready[t] # {} THEN "sendNext" ELSE "poll") \/ Goto(t, "removeConnection"))
        BY <2>3, LoopAssumption DEF Goto, Sending, AtRest
  <2>. QED BY <1>5, <2>2, <2>3 DEF Send, SendIf, SendInLoop, HandleClose
<1>6. ASSUME NEW k \in Calls, SendTooLate(t, k)
      PROVE  Sending(t)'
  <2>1. ready[t] \ {k} \in SUBSET Calls
        BY DEF TypeOK
  <2>. QED BY <1>6, <2>1, GoOnEffect DEF SendTooLate, Sending, AtRest
<1>7. ASSUME NEW k \in Calls, PickConnection(t, k)
      PROVE  Sending(t)'
  <2>1. ready[t] \ {k} \in SUBSET Calls
        BY DEF TypeOK
  <2>2. CASE connection = None
        BY <1>7, <2>1, <2>2, GoOnEffect DEF PickConnection, Sending, AtRest
  <2>3. CASE connection # None
    <3>1. /\ pc' = [pc EXCEPT ![t] = "send"]
          /\ hold' = [hold EXCEPT ![t] = connection]
          /\ sending' = [sending EXCEPT ![t] = k]
          BY <1>7, <2>3 DEF PickConnection, Goto
    <3>2. /\ DOMAIN pc = Threads /\ DOMAIN hold = Threads /\ DOMAIN sending = Threads
          /\ connection \in Connections
          BY <2>3 DEF TypeOK
    <3>3. pc'[t] = "send" /\ hold'[t] \in Connections /\ sending'[t] \in Calls
          BY <3>1, <3>2
    <3>. QED BY <3>3 DEF Sending, AtRest
  <2>. QED BY <2>2, <2>3
<1>. QED BY <1>3, <1>4, <1>5, <1>6, <1>7 DEF SendStep

\* A user has no list outside of it.
LEMMA UserSending ==
    ASSUME ClientInv, NEW u \in Users, UserStep(u) \/ UserCall(u)
    PROVE  SendInv'
<1>. USE DEF ClientInv, SendInv
<1>0. u \in Threads /\ u # Loop /\ Local(u) /\ UNCHANGED sendVars
      BY UserIsLocal, LoopAssumption DEF Threads
<1>1. CASE pc[u] \notin {"sendNext", "send"} /\ pc'[u] # "send"
      BY <1>0, <1>1, SendingIsLocal DEF Sending, sendVars
<1>2. pc[u] \notin {"sendNext", "send"}
      BY DEF UserStep, UserCall, FailFastNow, ReadState, Insert, StartConnect, TcpConnect,
         ConnectWait, CancelTimer, FailAll, TcpStop, TcpClose, QueueDrain, DisconnectDone,
         IssueRefused, Issue, Cancel, ConnectAtOnce, ConnectOp, DisconnectOp, Begin
<1>3. pc'[u] # "send"
  <2>1. Finish(u) => pc'[u] # "send"
        BY <1>0, FinishEffect
  <2>2. CASE UserStep(u)
        BY <1>0, <2>1, <2>2 DEF UserStep, FailFastNow, ReadState, Insert, StartConnect, TcpConnect,
           ConnectFlag, ConnectQueue, ConnectWait, CancelTimer, FailAll, TcpStop, StopFlag,
           StopQueue, TcpClose, QueueDrain, DisconnectDone, Goto
  <2>3. CASE UserCall(u)
        BY <1>0, <1>2, <2>3 DEF UserCall, IssueRefused, Issue, Cancel, ConnectAtOnce, ConnectOp,
           DisconnectOp, Begin, Goto
  <2>. QED BY <2>2, <2>3
<1>. QED BY <1>1, <1>2, <1>3

\* No step leaves calls on the list of a thread outside sendPendingCalls.
LEMMA SendInvStep ==
    ASSUME ClientInv, [Next]_vars
    PROVE  SendInv'
<1>1. CASE CallDrain
  <2>1. /\ Head(batch).arg \in Users /\ pc' = [pc EXCEPT ![Head(batch).arg] = "drained"]
        /\ pc[Head(batch).arg] = "draining"
        /\ Local(Head(batch).arg) /\ UNCHANGED sendVars
        BY <1>1, DrainIsLocal
  <2>2. Head(batch).arg \in Threads /\ Head(batch).arg # Loop
        BY <2>1, LoopAssumption DEF Threads
  <2>. QED BY <2>1, <2>2, SendingIsLocal DEF Sending, sendVars, ClientInv, SendInv
<1>2. CASE Expiry \/ UNCHANGED vars
      BY <1>2, ExpiryIsLocal DEF ClientInv, SendInv, vars, sendVars
<1>. QED BY <1>1, <1>2, LoopSending, SendSending, UserSending DEF Next

-----------------------------------------------------------------------------
(***************************************************************************)
(* Functors.                                                               *)
(***************************************************************************)
FunctorsKept == UNCHANGED loopVars

\* Sound after the step, of a functor from before it as well.
StillSound(f) ==
    /\ f.do = "send" => /\ f.conn \in Connections /\ f.arg \in Calls
                        /\ pending'[f.arg] = "Sent" \/ answer'[f.arg] # "none"
    /\ f.do = "forceClose" => f.conn \in Connections
    /\ f.do = "deadline" => f.arg \in Calls
    /\ f.do = "drain" => f.arg \in Users /\ pc'[f.arg] = "draining"

\* A functor is queued that finds what it relies on.
FunctorQueued(f) == /\ QueueInLoop(f) /\ batch' = batch
                    /\ f \in FunctorType /\ StillSound(f)
                    /\ f.do = "drain" => pc[f.arg] # "draining"

FunctorsChange == \/ FunctorsKept
                  \/ \E f \in FunctorType : FunctorQueued(f)
                  \/ SwapFunctors
                  \/ \E do : Calling(do)

\* Every step keeps the functors, queues one, swaps them or calls one.
LEMMA FunctorsGoOn ==
    ASSUME ClientInv, [Next]_vars
    PROVE  FunctorsChange
<1>. USE DEF FunctorsChange, FunctorsKept
<1>0. /\ Loop \in Threads /\ Users \subseteq Threads /\ Loop \notin Users
      /\ None \in Nat /\ Timers \subseteq Nat
      BY BoundsAssumption, LoopAssumption DEF Threads, None, Timers
<1>1. CASE LoopStep
      BY <1>1 DEF LoopStep, TcpStep, CallStart, CallStop, CallForceClose, CallSend, NewConnection,
         RemoveConnection, StopInline, CloseInline, OnDeadline, OnReconnectTimer, CallDrain, OnUp,
         OnDown, FailSent, OnError, Expire, SetReconnecting, SetDisconnected, FailAll, Schedule,
         StoreTimer, ReconnectStart, ReconnectTcp
<1>2. CASE NetworkEvent \/ (\E m \in inbox : OnResponse(m)) \/ (\E c \in Connections : OnGarbage(c))
      BY <1>2 DEF NetworkEvent, ConnectSucceeds, ConnectFails, PeerCloses, OnResponse, OnGarbage
<1>3. ASSUME NEW t \in Threads, SendStep(t)
      PROVE  FunctorsChange
  <2>1. CASE Send(t) /\ ~UNCHANGED loopVars
    <3>. DEFINE f == Functor("send", hold[t], sending[t])
    <3>1. hold[t] \in Connections /\ sending[t] \in Calls
          BY <2>1 DEF Send, SendIf, ClientInv, SendInv
    <3>2. /\ QueueInLoop(f) /\ batch' = batch
          /\ pending' = [pending EXCEPT ![sending[t]] = "Sent"]
          BY <2>1 DEF Send, SendIf, loopVars
    <3>3. pending'[sending[t]] = "Sent"
          BY <3>1, <3>2 DEF ClientInv, TypeOK
    <3>4. f \in FunctorType /\ StillSound(f) /\ f.do # "drain"
          BY <3>1, <3>3 DEF Functor, FunctorType, StillSound
    <3>. QED BY <3>2, <3>4 DEF FunctorQueued
  <2>2. CASE ~Send(t)
        BY <1>3, <2>2 DEF SendStep, SendCheck, Snapshot, SendTooLate, PickConnection
  <2>. QED BY <2>1, <2>2
<1>4. CASE Expiry
  <2>1. ASSUME NEW k \in Calls, FireDeadline(k)
        PROVE  FunctorsChange
    <3>. DEFINE f == Functor("deadline", None, k)
    <3>1. f \in FunctorType /\ StillSound(f) /\ f.do # "drain"
          BY DEF Functor, FunctorType, StillSound
    <3>. QED BY <2>1, <3>1 DEF FireDeadline, FunctorQueued
  <2>2. ASSUME NEW i \in Timers, FireReconnect(i)
        PROVE  FunctorsChange
    <3>. DEFINE f == Functor("reconnect", None, i)
    <3>1. f \in FunctorType /\ StillSound(f) /\ f.do # "drain"
          BY <1>0 DEF Functor, FunctorType, StillSound
    <3>. QED BY <2>2, <3>1 DEF FireReconnect, FunctorQueued, loopVars
  <2>3. ASSUME NEW k \in Calls, DeadlinePasses(k)
        PROVE  FunctorsChange
        BY <2>3 DEF DeadlinePasses
  <2>. QED BY <1>4, <2>1, <2>2, <2>3 DEF Expiry
<1>5. ASSUME NEW u \in Users, UserStep(u) \/ UserCall(u)
      PROVE  FunctorsChange
  <2>1. CASE TcpConnect(u) /\ ~UNCHANGED loopVars
    <3>. DEFINE f == Functor("start", None, None)
    <3>1. f \in FunctorType /\ StillSound(f) /\ f.do # "drain"
          BY <1>0 DEF Functor, FunctorType, StillSound
    <3>. QED BY <2>1, <3>1 DEF TcpConnect, ConnectFlag, ConnectQueue, FunctorQueued
  <2>2. CASE TcpStop(u) /\ ~UNCHANGED loopVars
    <3>. DEFINE f == Functor("stop", None, None)
    <3>1. f \in FunctorType /\ StillSound(f) /\ f.do # "drain"
          BY <1>0 DEF Functor, FunctorType, StillSound
    <3>. QED BY <2>2, <3>1 DEF TcpStop, StopFlag, StopQueue, FunctorQueued
  <2>3. CASE TcpClose(u) /\ ~UNCHANGED loopVars
    <3>. DEFINE f == Functor("forceClose", connection, None)
    <3>1. connection \in Connections /\ QueueInLoop(f) /\ batch' = batch
          BY <2>3 DEF TcpClose, StopClose, loopVars, ClientInv, TypeOK
    <3>2. f \in FunctorType /\ StillSound(f) /\ f.do # "drain"
          BY <1>0, <3>1 DEF Functor, FunctorType, StillSound
    <3>. QED BY <3>1, <3>2 DEF FunctorQueued
  <2>4. CASE QueueDrain(u)
    <3>. DEFINE f == Functor("drain", None, u)
    <3>1. pc[u] = "drain" /\ pc'[u] = "draining" /\ QueueInLoop(f) /\ batch' = batch
          BY <1>0, <2>4 DEF QueueDrain, Goto, ClientInv, SendInv
    <3>2. f \in FunctorType /\ StillSound(f)
          BY <3>1 DEF Functor, FunctorType, StillSound
    <3>. QED BY <3>1, <3>2 DEF FunctorQueued, Functor
  <2>5. CASE ~TcpConnect(u) /\ ~TcpStop(u) /\ ~TcpClose(u) /\ ~QueueDrain(u)
        BY <1>5, <2>5 DEF UserStep, UserCall, FailFastNow, ReadState, Insert, StartConnect,
           ConnectWait, CancelTimer, FailAll, DisconnectDone, IssueRefused, Issue, Cancel,
           ConnectAtOnce, ConnectOp, DisconnectOp
  <2>. QED BY <2>1, <2>2, <2>3, <2>4, <2>5
<1>6. CASE UNCHANGED vars
      BY <1>6 DEF vars
<1>. QED BY <1>1, <1>2, <1>3, <1>4, <1>5, <1>6 DEF Next

\* A thread waits for its functor until that is called.
LEMMA DrainingStays ==
    ASSUME ClientInv, [Next]_vars, NEW u \in Users, pc[u] = "draining"
    PROVE  pc'[u] = "draining" \/ (CallDrain /\ Head(batch).arg = u)
<1>0. u \in Threads /\ u # Loop
      BY LoopAssumption DEF Threads
<1>1. CASE CallDrain
      BY <1>0, <1>1, DrainIsLocal DEF Local
<1>2. CASE LoopStep /\ ~CallDrain
      BY <1>0, <1>2, LoopIsLocal DEF Local
<1>3. CASE NetworkEvent \/ (\E m \in inbox : OnResponse(m)) \/ (\E c \in Connections : OnGarbage(c))
      BY <1>0, <1>3, LoopIsLocal DEF Local
<1>4. CASE Expiry \/ UNCHANGED vars
      BY <1>4, ExpiryIsLocal DEF vars
<1>5. ASSUME NEW t \in Threads, SendStep(t)
      PROVE  pc'[u] = "draining"
  <2>1. pc[t] # "draining"
        BY <1>5 DEF SendStep, SendCheck, Snapshot, Send, SendIf, SendTooLate, PickConnection
  <2>. QED BY <1>0, <1>5, <2>1, SendIsLocal DEF Local
<1>6. ASSUME NEW v \in Users, UserStep(v) \/ UserCall(v)
      PROVE  pc'[u] = "draining"
  <2>1. CASE v # u
        BY <1>0, <1>6, <2>1, UserIsLocal DEF Local
  <2>2. ~UserStep(u)
        BY DEF UserStep, FailFastNow, ReadState, Insert, StartConnect, TcpConnect, ConnectWait,
           CancelTimer, FailAll, TcpStop, TcpClose, QueueDrain, DisconnectDone
  <2>3. CASE UserCall(u)
        BY <2>3 DEF UserCall, IssueRefused, Issue, Cancel, ConnectAtOnce, ConnectOp, DisconnectOp,
           Begin
  <2>. QED BY <1>6, <2>1, <2>2, <2>3
<1>. QED BY <1>1, <1>2, <1>3, <1>4, <1>5, <1>6 DEF Next

\* What is queued stays sound until it is called.
LEMMA FunctorInvStep ==
    ASSUME ClientInv, [Next]_vars
    PROVE  FunctorInv'
<1>. USE DEF ClientInv, FunctorInv
<1>1. FunctorsChange
      BY FunctorsGoOn
<1>2. ASSUME NEW f, Sound(f), ~(CallDrain /\ f.do = "drain" /\ f.arg = Head(batch).arg)
      PROVE  StillSound(f)
  <2>1. f.do = "send" => pending'[f.arg] = "Sent" \/ answer'[f.arg] # "none"
        BY <1>2, CallTypes DEF Sound, Marked
  <2>2. f.do = "drain" => pc'[f.arg] = "draining"
        BY <1>2, DrainingStays DEF Sound
  <2>. QED BY <1>2, <2>1, <2>2 DEF Sound, StillSound
<1>. DEFINE AllSound == \A i \in 1 .. Len(Functors') : StillSound(Functors'[i])
<1>3. AllSound => (\A i \in 1 .. Len(Functors) : Sound(Functors[i]))'
      BY DEF StillSound, Sound, Marked
<1>. HIDE DEF AllSound
<1>4. CASE FunctorsKept
  <2>1. ~CallDrain
        BY <1>4 DEF FunctorsKept, CallDrain, Calling, loopVars
  <2>2. Functors' = Functors
        BY <1>4 DEF FunctorsKept, Functors, loopVars
  <2>3. AllSound
        BY <1>2, <2>1, <2>2 DEF AllSound
  <2>. QED BY <1>4, <1>3, <2>2, <2>3 DEF FunctorsKept, OneDrainEach, loopVars
<1>5. ASSUME NEW f \in FunctorType, FunctorQueued(f)
      PROVE  FunctorInv'
  <2>1. ~CallDrain
        BY <1>5 DEF FunctorQueued, QueueInLoop, CallDrain, Calling
  <2>2. /\ pendingFunctors' \in Seq(FunctorType) /\ batch' = batch
        /\ Len(Functors') = Len(Functors) + 1
        /\ \A i \in 1 .. Len(Functors) : Functors'[i] = Functors[i]
        /\ Functors'[Len(Functors) + 1] = f
        BY <1>5, QueueEffect DEF FunctorQueued
  <2>3. Len(Functors) \in Nat
        BY DEF Functors
  <2>4. \A i \in 1 .. Len(Functors') : i \in 1 .. Len(Functors) \/ i = Len(Functors) + 1
        BY <2>2, <2>3
  <2>5. \A i \in 1 .. Len(Functors') : StillSound(Functors'[i])
        BY <1>2, <1>5, <2>1, <2>2, <2>4 DEF FunctorQueued
  <2>6. \A i \in 1 .. Len(Functors) : ~(Functors[i].do = "drain" /\ f.do = "drain" /\ Functors[i].arg = f.arg)
        BY <1>5 DEF FunctorQueued, Sound
  <2>7. OneDrainEach'
        BY <2>2, <2>3, <2>4, <2>6 DEF OneDrainEach
  <2>. QED BY <1>5, <1>3, <2>2, <2>5, <2>7 DEF FunctorQueued, AllSound
<1>6. CASE SwapFunctors
  <2>1. ~CallDrain
        BY <1>6 DEF SwapFunctors, Polling, CallDrain, Calling
  <2>2. /\ batch' \in Seq(FunctorType) /\ pendingFunctors' \in Seq(FunctorType)
        /\ Len(Functors') = Len(Functors)
        /\ \A i \in 1 .. Len(Functors) : Functors'[i] = Functors[i]
        BY <1>6, SwapEffect
  <2>3. AllSound
        BY <1>2, <2>1, <2>2 DEF AllSound
  <2>. QED BY <1>3, <2>2, <2>3 DEF OneDrainEach
<1>7. ASSUME NEW do, Calling(do)
      PROVE  FunctorInv'
  <2>1. /\ batch' \in Seq(FunctorType) /\ pendingFunctors' \in Seq(FunctorType)
        /\ Head(batch) = Functors[1] /\ Functors[1].do = do
        /\ Len(Functors) \in Nat \ {0} /\ Len(Functors') = Len(Functors) - 1
        /\ \A i \in 1 .. Len(Functors') : Functors'[i] = Functors[i + 1]
        BY <1>7, CallingEffect
  <2>2. /\ 1 \in 1 .. Len(Functors)
        /\ \A i \in 1 .. Len(Functors') : i + 1 \in 1 .. Len(Functors) /\ i + 1 # 1
        BY <2>1
  <2>3. CallDrain => Functors[1].do = "drain"
        BY <2>1 DEF CallDrain, Calling
  <2>4. ASSUME NEW i \in 1 .. Len(Functors')
        PROVE  StillSound(Functors'[i])
    <3>1. Sound(Functors[i + 1])
          BY <2>2
    <3>2. ~(CallDrain /\ Functors[i + 1].do = "drain" /\ Functors[i + 1].arg = Head(batch).arg)
      <4>1. \A n \in 1 .. Len(Functors) :
               /\ Functors[n].do = "drain" /\ Functors[1].do = "drain"
               /\ Functors[n].arg = Functors[1].arg
               => n = 1
            BY <2>2 DEF OneDrainEach
      <4>. HIDE DEF Functors
      <4>. QED BY <2>1, <2>2, <2>3, <4>1
    <3>. QED BY <1>2, <2>1, <3>1, <3>2
  <2>5. OneDrainEach'
    <3>1. ASSUME NEW i \in 1 .. Len(Functors'), NEW j \in 1 .. Len(Functors'),
                 Functors'[i].do = "drain", Functors'[j].do = "drain",
                 Functors'[i].arg = Functors'[j].arg
          PROVE  i = j
      <4>1. i + 1 = j + 1
            BY <2>1, <2>2, <3>1 DEF OneDrainEach
      <4>. QED BY <4>1
    <3>. QED BY <3>1 DEF OneDrainEach
  <2>. QED BY <1>3, <2>1, <2>4, <2>5 DEF AllSound
<1>. QED BY <1>1, <1>4, <1>5, <1>6, <1>7 DEF FunctorsChange

-----------------------------------------------------------------------------
(***************************************************************************)
(* Calls and those who make them.                                          *)
(***************************************************************************)

\* What reaches the server was sent.
LEMMA InboxGrows ==
    ASSUME ClientInv, [Next]_vars
    PROVE  \A m \in inbox' : m \in inbox \/ pending'[m[2]] = "Sent" \/ answer'[m[2]] # "none"
<1>. USE DEF ClientInv
<1>1. CASE CallSend
  <2>1. /\ Head(batch).arg \in Calls /\ Marked(Head(batch).arg)
        /\ inbox' \subseteq inbox \cup {<<Head(batch).conn, Head(batch).arg>>}
        BY <1>1, CalledIsSound DEF CallSend, SendInLoop, HandleClose, tcpVars, Sound
  <2>2. pending'[Head(batch).arg] = "Sent" \/ answer'[Head(batch).arg] # "none"
        BY <2>1, CallTypes DEF Marked
  <2>. QED BY <2>1, <2>2
<1>2. ASSUME NEW t \in Threads, Send(t)
      PROVE  \A m \in inbox' : m \in inbox \/ pending'[m[2]] = "Sent"
  <2>1. sending[t] \in Calls
        BY <1>2 DEF Send, SendIf, SendInv
  <2>2. CASE UNCHANGED inbox
        BY <2>2
  <2>3. CASE ~UNCHANGED inbox
    <3>1. /\ pending' = [pending EXCEPT ![sending[t]] = "Sent"]
          /\ inbox' \subseteq inbox \cup {<<hold[t], sending[t]>>}
          BY <1>2, <2>3 DEF Send, SendIf, SendInLoop, HandleClose, tcpVars
    <3>. QED BY <2>1, <3>1 DEF TypeOK
  <2>. QED BY <2>2, <2>3
<1>3. CASE LoopStep /\ ~CallSend
  <2>1. inbox' \subseteq inbox
        BY <1>3 DEF LoopStep, TcpStep, CallStart, CallStop, CallForceClose, HandleClose, tcpVars,
           NewConnection, RemoveConnection, StopInline, CloseInline, OnDeadline, OnReconnectTimer,
           CallDrain, OnUp, OnDown, FailSent, OnError, Expire, SetReconnecting, SetDisconnected,
           FailAll, Schedule, StoreTimer, ReconnectStart, ReconnectTcp
  <2>. QED BY <2>1
<1>4. CASE NetworkEvent \/ (\E m \in inbox : OnResponse(m)) \/ (\E c \in Connections : OnGarbage(c))
  <2>1. inbox' \subseteq inbox
        BY <1>4 DEF NetworkEvent, ConnectSucceeds, ConnectFails, PeerCloses, HandleClose,
           OnResponse, OnGarbage, tcpVars
  <2>. QED BY <2>1
<1>5. CASE Expiry \/ UNCHANGED vars
      BY <1>5 DEF Expiry, DeadlinePasses, FireDeadline, FireReconnect, tcpVars, vars
<1>6. ASSUME NEW t \in Threads, SendStep(t), ~Send(t)
      PROVE  inbox' = inbox
      BY <1>6 DEF SendStep, SendCheck, Snapshot, SendTooLate, PickConnection, tcpVars
<1>7. ASSUME NEW u \in Users, UserStep(u) \/ UserCall(u)
      PROVE  inbox' = inbox
      BY <1>7 DEF UserStep, UserCall, FailFastNow, ReadState, Insert, StartConnect, TcpConnect,
         ConnectFlag, ConnectQueue, ConnectWait, CancelTimer, FailAll, TcpStop, StopFlag,
         StopQueue, TcpClose, StopClose, QueueDrain, DisconnectDone, IssueRefused, Issue, Cancel,
         ConnectAtOnce, ConnectOp, DisconnectOp, tcpVars
<1>. QED BY <1>1, <1>2, <1>3, <1>4, <1>5, <1>6, <1>7 DEF Next, SendStep

\* pendingCalls_ and the answers agree after every step, and a request on its
\* way to the server is one that was marked Sent.
LEMMA CallInvStep ==
    ASSUME ClientInv, [Next]_vars
    PROVE  CallInv'
<1>. USE DEF ClientInv, TypeOK, CallInv
<1>1. \A m \in inbox' : Marked(m[2])'
  <2>1. \A m \in inbox' : pending'[m[2]] = "Sent" \/ answer'[m[2]] # "none"
        BY InboxGrows, CallTypes DEF Marked
  <2>. QED BY <2>1 DEF Marked
<1>2. CallsChange
      BY CallsGoOn
<1>3. CASE CallsKept
      BY <1>1, <1>3 DEF CallsKept
<1>4. ASSUME NEW K \in SUBSET Calls, NEW e, CallsSettled(K, e)
      PROVE  CallInv'
      BY <1>1, <1>4 DEF CallsSettled
<1>5. ASSUME NEW k \in Calls, CallInserted(k)
      PROVE  CallInv'
      BY <1>1, <1>5 DEF CallInserted
<1>6. ASSUME NEW k \in Calls, CallSent(k)
      PROVE  CallInv'
  <2>1. sends[k] = 0
        BY <1>6 DEF CallSent
  <2>2. sends' = [sends EXCEPT ![k] = 1]
        BY <1>6, <2>1 DEF CallSent
  <2>. QED BY <1>1, <1>6, <2>2 DEF CallSent
<1>. QED BY <1>2, <1>3, <1>4, <1>5, <1>6 DEF CallsChange

\* Between its issue and its insertion a call stays as it is.
LEMMA IssuedStays ==
    ASSUME ClientInv, [Next]_vars, NEW u \in Users, Issuing(u), Issuing(u)', cur'[u] = cur[u]
    PROVE  /\ cur'[u] \in Calls
           /\ pending'[cur'[u]] = "none" /\ answer'[cur'[u]] = "none"
<1>. USE DEF ClientInv, TypeOK
<1>1. cur[u] \in Calls /\ pending[cur[u]] = "none" /\ answer[cur[u]] = "none"
      BY DEF UserInv
<1>2. ~Given(cur[u])
      BY DEF Given
<1>3. CallsChange
      BY CallsGoOn
<1>4. ASSUME NEW K \in SUBSET Calls, NEW e, CallsSettled(K, e)
      PROVE  pending'[cur[u]] = "none" /\ answer'[cur[u]] = "none"
  <2>1. cur[u] \notin K
        BY <1>1, <1>2, <1>4 DEF CallsSettled
  <2>. QED BY <1>1, <1>4, <2>1 DEF CallsSettled
<1>5. ASSUME NEW k \in Calls, CallInserted(k) \/ CallSent(k)
      PROVE  pending'[cur[u]] = "none" /\ answer'[cur[u]] = "none"
      BY <1>1, <1>2, <1>5 DEF CallInserted, CallSent
<1>6. CASE CallsKept
      BY <1>1, <1>6 DEF CallsKept
<1>. QED BY <1>1, <1>3, <1>4, <1>5, <1>6 DEF CallsChange

\* What UserInv says of thread u alone, and of its call against the others'.
UserOK(u) == /\ Issuing(u) => /\ cur[u] \in Calls
                              /\ pending[cur[u]] = "none" /\ answer[cur[u]] = "none"
             /\ cur[u] # NoCall => op[u] = "none"
             /\ pc[u] = "idle" => cur[u] = NoCall /\ op[u] = "none"

OneMaker == \A u, v \in Users : cur[u] = cur[v] /\ cur[u] # NoCall => u = v

\* A thread that comes to no call and to no operation of another name.
LEMMA UserGoesOn ==
    ASSUME ClientInv, [Next]_vars, NEW u \in Users,
           Issuing(u)' => Issuing(u),
           \/ cur'[u] = cur[u] /\ op'[u] = op[u] /\ (pc'[u] = "idle" => pc[u] = "idle")
           \/ cur'[u] = NoCall /\ op'[u] = "none" /\ pc'[u] = "idle"
    PROVE  UserOK(u)'
<1>1. CASE cur'[u] = cur[u] /\ op'[u] = op[u] /\ (pc'[u] = "idle" => pc[u] = "idle")
      BY <1>1, IssuedStays DEF UserOK, ClientInv, UserInv
<1>2. CASE cur'[u] = NoCall /\ op'[u] = "none" /\ pc'[u] = "idle"
      BY <1>2 DEF UserOK, Issuing
<1>. QED BY <1>1, <1>2

\* A call stays with the thread that makes it until that returns, and is not
\* inserted or answered before it comes to that.
LEMMA UserInvStep ==
    ASSUME ClientInv, [Next]_vars
    PROVE  UserInv'
<1>. USE DEF ClientInv
<1>0. Users \subseteq Threads /\ Loop \in Threads /\ Loop \notin Users
      BY LoopAssumption DEF Threads
\* Whoever keeps its call and its operation, or ends both, breaks nothing.
<1>1. ASSUME NEW t \in Threads, Local(t),
             \A u \in Users : u = t => /\ UserOK(u)'
                                      /\ \/ cur'[u] = cur[u] \/ cur'[u] = NoCall
                                         \/ \A v \in Users : cur[v] # cur'[u]
      PROVE  UserInv'
  <2>1. ASSUME NEW u \in Users, u # t
        PROVE  UserOK(u)'
    <3>1. pc'[u] = pc[u] /\ cur'[u] = cur[u] /\ op'[u] = op[u]
          BY <1>0, <1>1, <2>1 DEF Local
    <3>. QED BY <3>1, UserGoesOn DEF Issuing
  <2>2. ASSUME NEW u \in Users
        PROVE  UserOK(u)'
    <3>1. CASE u = t
          BY <1>1, <3>1
    <3>. QED BY <2>1, <3>1
  <2>3. \A u \in Users \ {t} : cur'[u] = cur[u]
        BY <1>1 DEF Local
  <2>4. ASSUME NEW u \in Users, NEW v \in Users, cur'[u] = cur'[v], cur'[u] # NoCall
        PROVE  u = v
        BY <1>1, <2>3, <2>4 DEF UserInv
  <2>. QED BY <2>2, <2>4 DEF UserInv, UserOK
<1>2. ASSUME NEW t \in Threads, Local(t),
             t \in Users => /\ Issuing(t)' => Issuing(t)
                            /\ \/ /\ cur'[t] = cur[t] /\ op'[t] = op[t]
                                  /\ pc'[t] = "idle" => pc[t] = "idle"
                               \/ cur'[t] = NoCall /\ op'[t] = "none" /\ pc'[t] = "idle"
      PROVE  UserInv'
      BY <1>1, <1>2, UserGoesOn
<1>3. CASE CallDrain
  <2>1. /\ Head(batch).arg \in Users /\ pc[Head(batch).arg] = "draining"
        /\ pc' = [pc EXCEPT ![Head(batch).arg] = "drained"]
        /\ Local(Head(batch).arg) /\ UNCHANGED <<sendVars, userVars>>
        BY <1>3, DrainIsLocal
  <2>2. pc'[Head(batch).arg] = "drained"
        BY <1>0, <2>1 DEF SendInv
  <2>. QED BY <1>0, <1>2, <2>1, <2>2 DEF Issuing, userVars
<1>4. CASE \/ LoopStep /\ ~CallDrain
           \/ NetworkEvent
           \/ \E m \in inbox : OnResponse(m)
           \/ \E c \in Connections : OnGarbage(c)
      BY <1>0, <1>2, <1>4, LoopIsLocal
<1>5. CASE Expiry \/ UNCHANGED vars
  <2>1. UNCHANGED <<pc, sendVars, userVars>>
        BY <1>5, ExpiryIsLocal DEF vars
  <2>2. Local(Loop)
        BY <1>0, <2>1, LocalGoto
  <2>. QED BY <1>0, <1>2, <2>2
<1>6. ASSUME NEW t \in Threads, SendStep(t)
      PROVE  UserInv'
  <2>0. Local(t) /\ (t \in Users => t # Loop)
        BY <1>0, <1>6, SendIsLocal
  <2>1. ASSUME NEW K \in SUBSET Calls, GoOnWith(t, K), t \in Users
        PROVE  /\ ~Issuing(t)'
               /\ \/ UNCHANGED userVars /\ pc'[t] # "idle"
                  \/ cur'[t] = NoCall /\ op'[t] = "none" /\ pc'[t] = "idle"
        BY <1>0, <2>1, GoOnEffect DEF Issuing
  <2>2. CASE SendCheck(t)
    <3>1. CASE Finish(t)
          BY <1>2, <2>0, <3>1, FinishEffect DEF Issuing
    <3>2. CASE Goto(t, "snapshot") /\ UNCHANGED userVars
      <4>1. pc'[t] = "snapshot"
            BY <3>2 DEF Goto, SendInv
      <4>. QED BY <1>2, <2>0, <3>2, <4>1 DEF Issuing, userVars
    <3>. QED BY <2>2, <3>1, <3>2 DEF SendCheck
  <2>3. CASE Snapshot(t)
    <3>1. Waiting \in SUBSET Calls
          BY DEF Waiting
    <3>. QED BY <1>2, <2>0, <2>1, <2>3, <3>1 DEF Snapshot, userVars
  <2>4. CASE Send(t)
    <3>1. ready[t] \in SUBSET Calls
          BY DEF TypeOK
    <3>2. t \in Users => GoOnWith(t, ready[t])
          BY <2>0, <2>4 DEF Send, SendIf
    <3>. QED BY <1>2, <2>0, <2>1, <3>1, <3>2 DEF userVars
  <2>5. ASSUME NEW k \in Calls, SendTooLate(t, k)
        PROVE  UserInv'
    <3>1. ready[t] \ {k} \in SUBSET Calls
          BY DEF TypeOK
    <3>. QED BY <1>2, <2>0, <2>1, <2>5, <3>1 DEF SendTooLate, userVars
  <2>6. ASSUME NEW k \in Calls, PickConnection(t, k)
        PROVE  UserInv'
    <3>1. ready[t] \ {k} \in SUBSET Calls
          BY DEF TypeOK
    <3>2. CASE connection = None
          BY <1>2, <2>0, <2>1, <2>6, <3>1, <3>2 DEF PickConnection, userVars
    <3>3. CASE connection # None
      <4>1. pc'[t] = "send" /\ UNCHANGED userVars
            BY <2>6, <3>3 DEF PickConnection, Goto, SendInv
      <4>. QED BY <1>2, <2>0, <4>1 DEF Issuing, userVars
    <3>. QED BY <3>2, <3>3
  <2>. QED BY <1>6, <2>2, <2>3, <2>4, <2>5, <2>6 DEF SendStep
<1>7. ASSUME NEW u \in Users, UserStep(u)
      PROVE  UserInv'
  <2>0. u \in Threads /\ u # Loop /\ Local(u)
        BY <1>0, <1>7, UserIsLocal
  <2>1. CASE Finish(u)
        BY <1>2, <2>0, <2>1, FinishEffect DEF Issuing
  <2>2. CASE ~Finish(u)
    <3>1. /\ UNCHANGED userVars
          /\ \E label \in {"insertConnect", "insert", "sendCheck", "startConnect", "connectFlag",
                           "connectQueue", "connectWait", "cancelTimer", "failAll", "stopFlag",
                           "stopQueue", "stopClose", "drain", "draining"} :
                Goto(u, label) /\ (label \in {"insert", "insertConnect"} => Issuing(u))
          BY <1>7, <2>0, <2>2 DEF UserStep, FailFastNow, ReadState, Insert, StartConnect, TcpConnect,
             ConnectFlag, ConnectQueue, ConnectWait, CancelTimer, FailAll, TcpStop, StopFlag,
             StopQueue, TcpClose, QueueDrain, DisconnectDone, Issuing
    <3>2. pc'[u] # "idle" /\ (Issuing(u)' => Issuing(u))
          BY <2>0, <3>1 DEF Goto, SendInv, Issuing
    <3>. QED BY <1>2, <2>0, <3>1, <3>2 DEF userVars
  <2>. QED BY <2>1, <2>2
<1>8. ASSUME NEW u \in Users, UserCall(u)
      PROVE  UserInv'
  <2>0. u \in Threads /\ u # Loop /\ Local(u)
        BY <1>0, <1>8, UserIsLocal
  <2>1. CASE ConnectAtOnce(u) \/ \E k \in Calls : IssueRefused(u, k) \/ Cancel(u, k)
        BY <1>2, <2>0, <2>1 DEF ConnectAtOnce, IssueRefused, Cancel, userVars, Issuing
  <2>2. ASSUME NEW k \in Calls, Issue(u, k)
        PROVE  UserInv'
    <3>1. /\ pc'[u] = "readState" /\ cur'[u] = k /\ op'[u] = "none"
          /\ pending'[k] = "none" /\ answer'[k] = "none"
      <4>1. pc[u] = "idle" /\ pending[k] = "none" /\ answer[k] = "none" /\ op[u] = "none"
            BY <2>2 DEF Issue, New, UserInv
      <4>2. /\ pc' = [pc EXCEPT ![u] = "readState"] /\ cur' = [cur EXCEPT ![u] = k]
            /\ UNCHANGED <<pending, answer, op>>
            BY <2>2 DEF Issue, Goto
      <4>3. pc'[u] = "readState" /\ cur'[u] = k
            BY <2>0, <4>2 DEF SendInv, TypeOK
      <4>. QED BY <4>1, <4>2, <4>3
    <3>2. \A v \in Users : cur[v] # k
          BY <2>2 DEF Issue, New
    <3>. QED BY <1>1, <2>0, <3>1, <3>2 DEF UserOK, Issuing
  <2>3. CASE ConnectOp(u) \/ DisconnectOp(u)
    <3>1. pc'[u] \in {"startConnect", "connectWait", "cancelTimer"} /\ cur'[u] = NoCall
          BY <2>0, <2>3 DEF ConnectOp, DisconnectOp, Begin, Goto, SendInv, UserInv
    <3>. QED BY <1>1, <2>0, <3>1 DEF UserOK, Issuing
  <2>. QED BY <1>8, <2>1, <2>2, <2>3 DEF UserCall
<1>. QED BY <1>3, <1>4, <1>5, <1>6, <1>7, <1>8 DEF Next

-----------------------------------------------------------------------------
(***************************************************************************)
(* Calls that wait for a connection.                                       *)
(***************************************************************************)

\* What thread t is doing stays as it is.
Stays(t) == /\ pc'[t] = pc[t] /\ ready'[t] = ready[t] /\ sending'[t] = sending[t]
            /\ t \in Users => cur'[t] = cur[t]

\* A step of another thread leaves what this one is doing.
LEMMA OthersStay ==
    ASSUME NEW t \in Threads, Local(t), NEW r \in Threads, r # t
    PROVE  Stays(r)
BY DEF Local, Stays

\* The steps that concern a user's thread.
LEMMA StepsOfUser ==
    ASSUME ClientInv, [Next]_vars, NEW u \in Users
    PROVE  \/ Stays(u)
           \/ SendStep(u) \/ UserStep(u) \/ UserCall(u)
           \/ pc[u] = "draining" /\ ready'[u] = ready[u]
<1>0. u \in Threads /\ Users \subseteq Threads /\ Loop \in Threads /\ u # Loop
      BY LoopAssumption DEF Threads
<1>1. CASE CallDrain
  <2>1. CASE Head(batch).arg = u
        BY <1>1, <2>1, DrainIsLocal DEF sendVars
  <2>2. CASE Head(batch).arg # u
        BY <1>0, <1>1, <2>2, DrainIsLocal, OthersStay
  <2>. QED BY <2>1, <2>2
<1>2. CASE \/ LoopStep /\ ~CallDrain
           \/ NetworkEvent
           \/ \E m \in inbox : OnResponse(m)
           \/ \E c \in Connections : OnGarbage(c)
      BY <1>0, <1>2, LoopIsLocal, OthersStay
<1>3. CASE Expiry \/ UNCHANGED vars
      BY <1>3, ExpiryIsLocal DEF vars, sendVars, userVars, Stays
<1>4. ASSUME NEW t \in Threads, SendStep(t), t # u
      PROVE  Stays(u)
      BY <1>0, <1>4, SendIsLocal, OthersStay
<1>5. ASSUME NEW v \in Users, UserStep(v) \/ UserCall(v), v # u
      PROVE  Stays(u)
      BY <1>0, <1>5, UserIsLocal, OthersStay
<1>. QED BY <1>1, <1>2, <1>3, <1>4, <1>5 DEF Next

\* The steps that concern the loop.
LEMMA StepsOfLoop ==
    ASSUME ClientInv, [Next]_vars
    PROVE  \/ Stays(Loop)
           \/ SendStep(Loop)
           \/ /\ ready'[Loop] = ready[Loop] /\ sending'[Loop] = sending[Loop]
              /\ \/ LoopStep /\ ~CallDrain
                 \/ NetworkEvent
                 \/ \E c \in Connections : OnGarbage(c)
<1>0. Users \subseteq Threads /\ Loop \in Threads /\ Loop \notin Users
      BY LoopAssumption DEF Threads
<1>1. CASE CallDrain
  <2>1. Head(batch).arg \in Users /\ Local(Head(batch).arg)
        BY <1>1, DrainIsLocal
  <2>. QED BY <1>0, <2>1, OthersStay
<1>2. CASE \/ LoopStep /\ ~CallDrain
           \/ NetworkEvent
           \/ \E c \in Connections : OnGarbage(c)
      BY <1>2, LoopIsLocal DEF sendVars
<1>3. CASE Expiry \/ UNCHANGED vars
      BY <1>0, <1>3, ExpiryIsLocal DEF vars, sendVars, userVars, Stays
<1>4. CASE \E m \in inbox : OnResponse(m)
      BY <1>0, <1>4 DEF OnResponse, sendVars, Stays
<1>5. ASSUME NEW t \in Threads, SendStep(t), t # Loop
      PROVE  Stays(Loop)
      BY <1>0, <1>5, SendIsLocal, OthersStay
<1>6. ASSUME NEW u \in Users, UserStep(u) \/ UserCall(u)
      PROVE  Stays(Loop)
  <2>1. u \in Threads /\ u # Loop
        BY <1>0
  <2>. QED BY <1>0, <1>6, <2>1, UserIsLocal, OthersStay
<1>. QED BY <1>1, <1>2, <1>3, <1>4, <1>5, <1>6 DEF Next

\* A call on a list stays there until it is sent, while the connection is up.
LEMMA ListedIsAttended ==
    ASSUME ClientInv, NEW t \in Threads, SendStep(t), NEW k \in ready[t],
           k \in Waiting, k \in Waiting', connection # None
    PROVE  k \in ready'[t] \/ (pc'[t] = "send" /\ sending'[t] = k)
<1>. USE DEF ClientInv, TypeOK
<1>1. CASE SendCheck(t)
      BY <1>1 DEF SendCheck, sendVars
<1>2. CASE Snapshot(t)
      BY <1>2 DEF Snapshot, GoOnWith
<1>3. CASE Send(t)
      BY <1>3 DEF Send, SendIf, GoOnWith
<1>4. ASSUME NEW j \in Calls, SendTooLate(t, j)
      PROVE  k \in ready'[t]
  <2>1. CASE j = k
    <3>1. k \in {j} \cap Pending
          BY <2>1 DEF Pending, Waiting
    <3>2. pending'[k] = "none"
          BY <1>4, <3>1 DEF SendTooLate, TakeOut, Erase
    <3>. QED BY <3>2 DEF Waiting
  <2>2. CASE j # k
        BY <1>4, <2>2 DEF SendTooLate, GoOnWith
  <2>. QED BY <2>1, <2>2
<1>5. ASSUME NEW j \in Calls, PickConnection(t, j)
      PROVE  k \in ready'[t] \/ (pc'[t] = "send" /\ sending'[t] = k)
  <2>1. /\ ready' = [ready EXCEPT ![t] = @ \ {j}] /\ sending' = [sending EXCEPT ![t] = j]
        /\ pc' = [pc EXCEPT ![t] = "send"]
        BY <1>5 DEF PickConnection, Goto
  <2>2. pc'[t] = "send" /\ sending'[t] = j /\ ready'[t] = ready[t] \ {j}
        BY <2>1 DEF SendInv
  <2>. QED BY <2>2
<1>. QED BY <1>1, <1>2, <1>3, <1>4, <1>5 DEF SendStep

\* A call that is about to be sent is.
LEMMA SendingIsAttended ==
    ASSUME ClientInv, NEW t \in Threads, SendStep(t), pc[t] = "send",
           sending[t] \in Waiting
    PROVE  sending[t] \notin Waiting'
<1>1. Send(t)
      BY DEF SendStep, SendCheck, Snapshot, SendTooLate, PickConnection
<1>2. pending' = [pending EXCEPT ![sending[t]] = "Sent"]
      BY <1>1 DEF Send, SendIf, Waiting
<1>. QED BY <1>2 DEF Waiting, ClientInv, TypeOK

\* Whoever looks for the calls that wait while the connection is up finds them.
LEMMA LookingIsAttended ==
    ASSUME ClientInv, NEW t \in Threads, SendStep(t), pc[t] \in {"sendCheck", "snapshot"},
           connState = "Connected"
    PROVE  pc'[t] = "snapshot" \/ \A k \in Waiting : k \in ready'[t]
<1>1. CASE SendCheck(t)
      BY <1>1 DEF SendCheck, Goto, ClientInv, SendInv
<1>2. CASE Snapshot(t)
      BY <1>2 DEF Snapshot, GoOnWith, ClientInv, TypeOK
<1>. QED BY <1>1, <1>2 DEF SendStep, Send, SendIf, SendTooLate, PickConnection

\* A call that comes to wait is on its way to be sent by the thread that makes
\* it.
LEMMA InsertedIsAttended ==
    ASSUME ClientInv, [Next]_vars, NEW k \in Waiting'
    PROVE  \/ k \in Waiting
           \/ \E u \in Users : cur'[u] = k /\ pc'[u] \in {"sendCheck", "startConnect"}
<1>1. CallsChange
      BY CallsGoOn
<1>2. CASE CallsKept
      BY <1>2 DEF CallsKept, Waiting
<1>3. ASSUME NEW K \in SUBSET Calls, NEW e, CallsSettled(K, e)
      PROVE  k \in Waiting
      BY <1>3 DEF CallsSettled, Waiting
<1>4. ASSUME NEW j \in Calls, CallInserted(j)
      PROVE  \/ k \in Waiting
             \/ \E u \in Users : cur'[u] = k /\ pc'[u] \in {"sendCheck", "startConnect"}
      BY <1>4 DEF CallInserted, Waiting
<1>5. ASSUME NEW j \in Calls, CallSent(j)
      PROVE  k \in Waiting
      BY <1>5 DEF CallSent, Waiting
<1>. QED BY <1>1, <1>2, <1>3, <1>4, <1>5 DEF CallsChange

\* The loop looks for calls after a new connection and after it has made the
\* state Connected.
LEMMA ConnectedIsNew ==
    ASSUME ClientInv, [Next]_vars
    PROVE  /\ connection' # None => connection # None \/ pc'[Loop] = "onUp"
           /\ connState' = "Connected" => connState = "Connected" \/ pc'[Loop] = "sendCheck"
<1>. USE DEF ClientInv
<1>0. Loop \in Threads
      BY DEF Threads
<1>1. CASE UNCHANGED <<connection, connState>>
      BY <1>1
<1>2. CASE NewConnection /\ UNCHANGED rpcVars
      BY <1>0, <1>2 DEF NewConnection, Goto, SendInv, rpcVars, stateVars
<1>3. CASE OnUp
      BY <1>0, <1>3 DEF OnUp, UpdateState, Goto, SendInv, tcpVars
<1>4. ASSUME TcpStep, ~NewConnection, UNCHANGED rpcVars
      PROVE  connection' \in {connection, None} /\ connState' = connState
      BY <1>4 DEF TcpStep, CallStart, CallStop, CallForceClose, CallSend, SendInLoop, HandleClose,
         RemoveConnection, tcpVars, rpcVars, stateVars
<1>5. ASSUME LoopStep, ~(TcpStep /\ UNCHANGED rpcVars), ~OnUp
      PROVE  connection' \in {connection, None} /\ (connState' = connState \/ connState' # "Connected")
      BY <1>5 DEF LoopStep, StopInline, CloseInline, HandleClose, OnDeadline, OnReconnectTimer,
         CallDrain, OnDown, FailSent, OnError, Expire, SetReconnecting, SetDisconnected,
         UpdateState, FailAll, Schedule, StoreTimer, ReconnectStart, ReconnectTcp, tcpVars,
         stateVars
<1>6. CASE \/ NetworkEvent
           \/ \E m \in inbox : OnResponse(m)
           \/ \E c \in Connections : OnGarbage(c)
  <2>1. connection' \in {connection, None} /\ connState' = connState
        BY <1>6 DEF NetworkEvent, ConnectSucceeds, ConnectFails, PeerCloses, HandleClose,
           OnResponse, OnGarbage, rpcVars, stateVars, tcpVars
  <2>. QED BY <2>1
<1>7. CASE Expiry \/ UNCHANGED vars
      BY <1>1, <1>7 DEF Expiry, DeadlinePasses, FireDeadline, FireReconnect, tcpVars, stateVars, vars
<1>8. ASSUME NEW t \in Threads, SendStep(t)
      PROVE  connection' \in {connection, None} /\ connState' = connState
      BY <1>8 DEF SendStep, SendCheck, Snapshot, SendTooLate, PickConnection, Send, SendIf,
         SendInLoop, HandleClose, tcpVars, stateVars
<1>9. ASSUME NEW u \in Users, UserStep(u)
      PROVE  connection' = connection /\ (connState' = connState \/ connState' # "Connected")
      BY <1>9 DEF UserStep, FailFastNow, ReadState, Insert, StartConnect, TcpConnect,
         ConnectFlag, ConnectQueue, ConnectWait, CancelTimer, FailAll, TcpStop, StopFlag,
         StopQueue, TcpClose, StopClose, QueueDrain, DisconnectDone, tcpVars, stateVars
<1>10. ASSUME NEW u \in Users, UserCall(u)
       PROVE  connection' = connection /\ (connState' = connState \/ connState' # "Connected")
      BY <1>10 DEF UserCall, IssueRefused, Issue, Cancel, ConnectAtOnce, ConnectOp, DisconnectOp,
         tcpVars, stateVars
<1>11. CASE LoopStep
  <2>1. CASE TcpStep /\ UNCHANGED rpcVars
        BY <1>2, <1>4, <2>1
  <2>2. CASE OnUp
        BY <1>3, <2>2
  <2>3. CASE ~(TcpStep /\ UNCHANGED rpcVars) /\ ~OnUp
        BY <1>5, <1>11, <2>3
  <2>. QED BY <2>1, <2>2, <2>3
<1>12. ASSUME connection' \in {connection, None}, connState' = connState \/ connState' # "Connected"
       PROVE  /\ connection' # None => connection # None \/ pc'[Loop] = "onUp"
              /\ connState' = "Connected" => connState = "Connected" \/ pc'[Loop] = "sendCheck"
       BY <1>12
<1>13. CASE \E t \in Threads : SendStep(t)
       BY <1>8, <1>12, <1>13
<1>14. CASE \E u \in Users : UserStep(u) \/ UserCall(u)
       BY <1>9, <1>10, <1>12, <1>14
<1>. QED BY <1>6, <1>7, <1>11, <1>13, <1>14 DEF Next

\* The thread that makes a call goes on to look for those that wait.
LEMMA MadeIsAttended ==
    ASSUME ClientInv, [Next]_vars, NEW u \in Users, NEW k \in Calls, cur[u] = k,
           pc[u] \in {"startConnect", "connectFlag", "connectQueue", "sendCheck", "snapshot"},
           connState = "Connected", connState' = "Connected", k \in Waiting
    PROVE  \/ k \in ready'[u]
           \/ /\ cur'[u] = k
              /\ pc'[u] \in {"startConnect", "connectFlag", "connectQueue", "sendCheck", "snapshot"}
<1>. USE DEF ClientInv
<1>0. u \in Threads /\ u # Loop
      BY LoopAssumption DEF Threads
<1>1. CASE Stays(u)
      BY <1>1 DEF Stays
<1>2. CASE SendStep(u)
  <2>1. pc[u] \in {"sendCheck", "snapshot"}
        BY <1>2 DEF SendStep, SendCheck, Snapshot, Send, SendIf, SendTooLate, PickConnection
  <2>3. CASE SendCheck(u) /\ Goto(u, "snapshot") /\ UNCHANGED userVars
        BY <1>0, <2>3 DEF Goto, SendInv, userVars
  <2>4. CASE Snapshot(u)
        BY <1>0, <2>4 DEF Snapshot, GoOnWith, TypeOK
  <2>. QED BY <1>2, <2>1, <2>3, <2>4 DEF SendStep, SendCheck, Send, SendIf, SendTooLate,
              PickConnection
<1>3. CASE UserStep(u)
  <2>1. CASE StartConnect(u)
        BY <2>1 DEF StartConnect
  <2>2. CASE TcpConnect(u)
    <3>1. op[u] = "none"
          BY NoCallAssumption DEF UserInv
    <3>2. UNCHANGED cur /\ (Goto(u, "connectQueue") \/ Goto(u, "sendCheck"))
          BY <2>2, <3>1 DEF TcpConnect, ConnectFlag, ConnectQueue, userVars
    <3>. QED BY <1>0, <3>2 DEF Goto, SendInv
  <2>. QED BY <1>3, <2>1, <2>2 DEF UserStep, FailFastNow, ReadState, Insert, ConnectWait,
              CancelTimer, FailAll, TcpStop, TcpClose, QueueDrain, DisconnectDone
<1>4. ~UserCall(u)
  <2>1. pc[u] # "idle"
        OBVIOUS
  <2>. QED BY <2>1 DEF UserCall, IssueRefused, Issue, Cancel, ConnectAtOnce, ConnectOp,
              DisconnectOp, Begin
<1>. QED BY <1>1, <1>2, <1>3, <1>4, StepsOfUser

\* The loop, about to look for the calls that wait, does look.
LEMMA LoopLooks ==
    ASSUME ClientInv, [Next]_vars, pc[Loop] \in {"onUp", "sendCheck", "snapshot"},
           connState = "Connected", NEW k \in Waiting
    PROVE  pc'[Loop] \in {"onUp", "sendCheck", "snapshot"} \/ k \in ready'[Loop]
<1>. USE DEF ClientInv
<1>0. Loop \in Threads
      BY DEF Threads
<1>1. CASE Stays(Loop)
      BY <1>1 DEF Stays
<1>2. CASE SendStep(Loop)
  <2>1. pc[Loop] \in {"sendCheck", "snapshot"}
        BY <1>2 DEF SendStep, SendCheck, Snapshot, Send, SendIf, SendTooLate, PickConnection
  <2>. QED BY <1>0, <1>2, <2>1, LookingIsAttended
<1>3. CASE LoopStep
  <2>1. OnUp
        BY <1>3 DEF LoopStep, TcpStep, SwapFunctors, Polling, CallStart, CallStop, CallForceClose,
           CallSend, Calling, NewConnection, RemoveConnection, StopInline, CloseInline, OnDeadline,
           OnReconnectTimer, CallDrain, OnDown, FailSent, OnError, Expire, SetReconnecting,
           SetDisconnected, FailAll, Schedule, StoreTimer, ReconnectStart, ReconnectTcp
  <2>. QED BY <1>0, <2>1 DEF OnUp, UpdateState, Goto, SendInv
<1>4. ~NetworkEvent /\ ~\E c \in Connections : OnGarbage(c)
      BY DEF NetworkEvent, ConnectSucceeds, ConnectFails, PeerCloses, OnGarbage, Polling
<1>. QED BY <1>1, <1>2, <1>3, <1>4, StepsOfLoop

\* Nothing but the send is next for a thread that is about to send.
LEMMA SendingGoesOn ==
    ASSUME ClientInv, [Next]_vars, NEW t \in Threads, pc[t] = "send"
    PROVE  Stays(t) \/ SendStep(t)
<1>1. CASE t \in Users
  <2>1. ~UserStep(t)
        BY DEF UserStep, FailFastNow, ReadState, Insert, StartConnect, TcpConnect, ConnectWait,
           CancelTimer, FailAll, TcpStop, TcpClose, QueueDrain, DisconnectDone
  <2>2. ~UserCall(t)
        BY DEF UserCall, IssueRefused, Issue, Cancel, ConnectAtOnce, ConnectOp, DisconnectOp, Begin
  <2>. QED BY <1>1, <2>1, <2>2, StepsOfUser
<1>2. CASE t = Loop
  <2>1. ~LoopStep
        BY <1>2 DEF LoopStep, TcpStep, SwapFunctors, Polling, CallStart, CallStop, CallForceClose,
           CallSend, Calling, NewConnection, RemoveConnection, StopInline, CloseInline, OnDeadline,
           OnReconnectTimer, CallDrain, OnUp, OnDown, FailSent, OnError, Expire, SetReconnecting,
           SetDisconnected, FailAll, Schedule, StoreTimer, ReconnectStart, ReconnectTcp
  <2>2. ~NetworkEvent /\ ~\E c \in Connections : OnGarbage(c)
        BY <1>2 DEF NetworkEvent, ConnectSucceeds, ConnectFails, PeerCloses, OnGarbage, Polling
  <2>. QED BY <1>2, <2>1, <2>2, StepsOfLoop
<1>. QED BY <1>1, <1>2 DEF Threads

\* A call that waits while the connection is up is attended to after every
\* step: whoever attended to it still does, or has sent it.
LEMMA WaitingAttendedStep ==
    ASSUME ClientInv, [Next]_vars
    PROVE  WaitingAttended'
<1>. USE DEF ClientInv
<1>0. Users \subseteq Threads /\ Loop \in Threads
      BY DEF Threads
<1>1. SUFFICES ASSUME connState' = "Connected", connection' # None, NEW k \in Waiting',
                      pc'[Loop] \notin {"onUp", "sendCheck", "snapshot"}
               PROVE  Attended(k)'
      BY DEF WaitingAttended, Attended
<1>2. connState = "Connected" /\ connection # None
      BY <1>1, ConnectedIsNew
<1>3. ASSUME NEW t \in Threads, k \in ready'[t]
      PROVE  Attended(k)'
      BY <1>3, SendInvStep DEF SendInv, AtRest, Attended, Threads
<1>4. ASSUME NEW t \in Threads, pc'[t] = "send", sending'[t] = k
      PROVE  Attended(k)'
      BY <1>4 DEF Attended
<1>5. ASSUME NEW u \in Users, cur'[u] = k,
             pc'[u] \in {"startConnect", "connectFlag", "connectQueue", "sendCheck", "snapshot"}
      PROVE  Attended(k)'
      BY <1>5 DEF Attended
<1>6. CASE k \notin Waiting
      BY <1>5, <1>6, InsertedIsAttended
<1>7. CASE k \in Waiting
  <2>0. k \in Calls /\ Attended(k)
        BY <1>2, <1>7 DEF Waiting, WaitingAttended
  <2>1. CASE pc[Loop] \in {"onUp", "sendCheck", "snapshot"}
        BY <1>0, <1>1, <1>2, <1>3, <1>7, <2>1, LoopLooks
  <2>2. CASE k \in ready[Loop]
    <3>1. ready'[Loop] = ready[Loop] \/ SendStep(Loop)
          BY StepsOfLoop DEF Stays
    <3>. QED BY <1>0, <1>2, <1>3, <1>4, <1>7, <2>2, <3>1, ListedIsAttended
  <2>3. ASSUME NEW u \in Users, k \in ready[u]
        PROVE  Attended(k)'
    <3>1. ready'[u] = ready[u] \/ SendStep(u)
          BY StepsOfUser, UserIsLocal DEF Stays, sendVars
    <3>. QED BY <1>0, <1>2, <1>3, <1>4, <1>7, <2>3, <3>1, ListedIsAttended
  <2>4. ASSUME NEW t \in Threads, pc[t] = "send", sending[t] = k
        PROVE  Attended(k)'
    <3>1. ~SendStep(t)
          BY <1>1, <1>7, <2>4, SendingIsAttended
    <3>2. Stays(t)
          BY <2>4, <3>1, SendingGoesOn
    <3>. QED BY <1>4, <2>4, <3>2 DEF Stays
  <2>5. ASSUME NEW u \in Users, cur[u] = k,
               pc[u] \in {"startConnect", "connectFlag", "connectQueue", "sendCheck", "snapshot"}
        PROVE  Attended(k)'
        BY <1>0, <1>1, <1>2, <1>3, <1>5, <1>7, <2>0, <2>5, MadeIsAttended
  <2>. QED BY <2>0, <2>1, <2>2, <2>3, <2>4, <2>5 DEF Attended
<1>. QED BY <1>6, <1>7

-----------------------------------------------------------------------------
(***************************************************************************)
(* The theorems.                                                           *)
(***************************************************************************)

\* The invariant holds when the client is made.
LEMMA InitClientInv == Init => ClientInv
<1>. SUFFICES ASSUME Init PROVE ClientInv
     OBVIOUS
<1>. USE DEF Init, TcpInit
<1>1. TypeOK
  <2>1. /\ TcpType /\ StateType
        BY DEF TcpType, StateType, None
  <2>2. AuxType
        BY BoundsAssumption DEF AuxType
  <2>3. ThreadType
        BY BoundsAssumption DEF ThreadType
  <2>. QED BY <2>1, <2>2, <2>3 DEF TypeOK, TcpType, StateType, AuxType, ThreadType
<1>2. SendInv
      BY LoopAssumption DEF SendInv, Threads
<1>3. FunctorInv
  <2>1. Functors = << >> /\ Len(Functors) = 0
        BY DEF Functors
  <2>. QED BY <2>1 DEF FunctorInv, OneDrainEach
<1>4. CallInv
      BY DEF CallInv
<1>5. UserInv
      BY LoopAssumption DEF UserInv, Issuing, Threads
<1>6. WaitingAttended
      BY DEF WaitingAttended
<1>. QED BY <1>1, <1>2, <1>3, <1>4, <1>5, <1>6 DEF ClientInv

\* Whatever the threads, the timers, the network and the users do: the values
\* have their types, a functor finds what it relies on, pendingCalls_ agrees
\* with the answers, and a call that waits on a connection that is up is
\* attended to.
THEOREM ClientInvariant == Spec => []ClientInv
<1>1. ClientInv /\ [Next]_vars => ClientInv'
      BY TypeStep, SendInvStep, FunctorInvStep, CallInvStep, UserInvStep, WaitingAttendedStep
      DEF ClientInv
<1>. QED BY <1>1, InitClientInv, PTL DEF Spec

\* callAsync looks at the state after it has inserted the call and onConnection
\* sets the state before it looks for calls: so one of the two sends it.
THEOREM NoCallIsStranded == Spec => []NoStrandedCall
<1>1. ASSUME ClientInv PROVE NoStrandedCall
  <2>1. SUFFICES ASSUME connState = "Connected", connection # None, Quiet, NEW k \in Waiting
                 PROVE  FALSE
        BY <1>1 DEF NoStrandedCall, ClientInv
  <2>2. pc[Loop] = "poll" /\ \A u \in Users : pc[u] = "idle"
        BY <2>1 DEF Quiet, Polling
  <2>3. \A t \in Threads : ready[t] = {} /\ pc[t] # "send"
        BY <1>1, <2>2 DEF ClientInv, SendInv, AtRest, Threads
  <2>. QED BY <1>1, <2>1, <2>2, <2>3 DEF ClientInv, WaitingAttended, Attended, Threads
<1>. QED BY <1>1, ClientInvariant, PTL

\* Every call is answered once and sent once at most, in an order RpcCalls
\* allows, whichever thread sends it and whatever completes it.
THEOREM CallsAreImplemented == Spec => ImplementsCalls
<1>1. Init => Promise!CallsInit
      BY DEF Init, Promise!CallsInit
<1>2. ASSUME ClientInv, [Next]_vars
      PROVE  [Promise!CallsNext]_<<sends, answer>>
  <2>1. CallsChange
        BY <1>2, CallsGoOn
  <2>2. CASE CallsKept
        BY <2>2 DEF CallsKept
  <2>3. ASSUME NEW k \in Calls, CallInserted(k)
        PROVE  UNCHANGED <<sends, answer>>
        BY <2>3 DEF CallInserted
  <2>4. ASSUME NEW k \in Calls, CallSent(k)
        PROVE  Promise!Send(k)
    <3>1. answer[k] = "none" /\ sends[k] = 0
          BY <1>2, <2>4 DEF CallSent, ClientInv, CallInv
    <3>2. sends' = [sends EXCEPT ![k] = 1] /\ UNCHANGED answer
          BY <2>4, <3>1 DEF CallSent
    <3>. QED BY <3>1, <3>2 DEF Promise!Send, Promise!Open
  <2>5. ASSUME NEW K \in SUBSET Calls, NEW e \in {"Ok", "Failed", "RetryExhausted"},
               CallsSettled(K, e)
        PROVE  Promise!CallsNext
    <3>1. Promise!Answer(K, e) /\ K \subseteq Promise!Open
          BY <2>5 DEF CallsSettled, Promise!Answer, Promise!Open
    <3>2. CASE e = "Failed"
          BY <3>1, <3>2 DEF Promise!CallsNext, Promise!Fail
    <3>3. CASE e = "RetryExhausted"
      <4>1. \A k \in K : sends[k] = 0
            BY <1>2, <2>5, <3>3 DEF CallsSettled, Waiting, ClientInv, CallInv
      <4>. QED BY <3>1, <3>3, <4>1 DEF Promise!CallsNext, Promise!Exhaust
    <3>4. CASE e = "Ok"
      <4>1. PICK k \in Calls : K = {k} /\ pending[k] = "Sent"
            BY <2>5, <3>4 DEF CallsSettled
      <4>2. sends[k] = 1
            BY <1>2, <4>1 DEF ClientInv, CallInv
      <4>. QED BY <3>1, <3>4, <4>1, <4>2 DEF Promise!CallsNext, Promise!Succeed
    <3>. QED BY <3>2, <3>3, <3>4
  <2>. QED BY <2>1, <2>2, <2>3, <2>4, <2>5 DEF CallsChange, Promise!CallsNext
<1>. QED BY <1>1, <1>2, ClientInvariant, PTL DEF Spec, ImplementsCalls, Promise!CallsSpec
=============================================================================
