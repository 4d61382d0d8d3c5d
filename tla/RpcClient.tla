----------------------------- MODULE RpcClient -----------------------------
(***************************************************************************)
(* RpcClient over a TcpClient: src/code/MiniRPC/src/rpc_client.cpp. User   *)
(* threads call, cancel, connect and disconnect; the loop thread delivers  *)
(* connection events, answers and expired timers; timers expire in a pool  *)
(* and queue their functors into the loop.                                 *)
(*                                                                         *)
(* State lies under two mutexes, stateMutex_ and pendingMutex_, which no   *)
(* thread holds at the same time: a step is one section under one of them, *)
(* or one access of the TcpClient. Taking a call out of pendingCalls_ and  *)
(* completing it is one step, since a call that was taken out is the       *)
(* business of one thread. The callbacks of the client's user return       *)
(* without calling the client.                                             *)
(***************************************************************************)
EXTENDS TcpClient, FiniteSets

CONSTANTS
    Options,       \* what is set, of fail_fast and retry_enabled, for a call
    MaxRetries,    \* options.max_retries
    Callers,       \* bound: the users that call and cancel
    Controllers,   \* bound: the users that connect and disconnect
    MaxOps         \* bound: calls of connect and disconnect

ASSUME OptionsAssumption == Options \subseteq SUBSET {"failFast", "retry"}
ASSUME BoundsAssumption == /\ MaxRetries \in Nat /\ MaxOps \in Nat
                           /\ Callers \cup Controllers \subseteq Users

NoCall == "none"
ASSUME NoCallAssumption == NoCall \notin Calls

\* A timer that nobody can cancel any more belongs to an operation that tried.
Timers == 1 .. MaxOps + 1

VARIABLES
    connState,      \* connectionState_
    desired,        \* desiredConnected_
    reconnectTimer, \* reconnectTimerId_, None if 0
    timer,          \* timer[i]: free, armed, firing or queued
    pending,        \* pending[k]: its state in pendingCalls_, none if not there
    options,        \* options[k]: those of a call until it is completed
    deadline,       \* deadline[k]: the timer of k: none, armed, passed, queued, over
    attempts,       \* attempts[k]: completed retries of a pending call
    answer,         \* answer[k]: what k was completed with, or again, or none
    sends,          \* sends[k]: how often k was marked Sent before it was completed
    ready,          \* ready[t]: what sendPendingCalls has still to send
    sending,        \* sending[t]: the call t is about to send on hold[t]
    cur,            \* cur[u]: the call u is making
    op,             \* op[u]: connect, disconnect or none
    should,         \* shouldReconnect of onConnection, until it is used
    timerId,        \* timerId of scheduleReconnect
    opsLeft

stateVars == <<connState, desired, reconnectTimer, timer>>
callVars  == <<pending, options, deadline, attempts, answer, sends>>
sendVars  == <<ready, sending, hold>>
userVars  == <<cur, op, opsLeft>>
loopLocal == <<should, timerId>>
vars == <<loopVars, pc, tcpVars, stateVars, callVars, sendVars, userVars, loopLocal>>

Init == /\ TcpInit
        /\ pc = [t \in Threads |-> IF t = Loop THEN "poll" ELSE "idle"]
        /\ connState = "Disconnected" /\ desired = FALSE
        /\ reconnectTimer = None /\ timer = [i \in Timers |-> "free"]
        /\ pending = [k \in Calls |-> "none"]
        /\ options = [k \in Calls |-> {}]
        /\ deadline = [k \in Calls |-> "none"]
        /\ attempts = [k \in Calls |-> 0]
        /\ answer = [k \in Calls |-> "none"]
        /\ sends = [k \in Calls |-> 0]
        /\ ready = [t \in Threads |-> {}] /\ sending = [t \in Threads |-> NoCall]
        /\ cur = [u \in Users |-> NoCall] /\ op = [u \in Users |-> "none"]
        /\ should = FALSE /\ timerId = None /\ opsLeft = MaxOps

-----------------------------------------------------------------------------
(***************************************************************************)
(* Completing calls.                                                       *)
(***************************************************************************)
Waiting == {k \in Calls : pending[k] = "WaitingToSend"}
Pending == {k \in Calls : pending[k] # "none"}

\* The futures of K get e.
Answered(K, e) ==
    /\ sends' = [k \in Calls |-> IF k \in K THEN 0 ELSE sends[k]]
    /\ options' = [k \in Calls |-> IF k \in K THEN {} ELSE options[k]]
    /\ answer' = [k \in Calls |-> IF k \notin K               THEN answer[k]
                              ELSE IF answer[k] = "none" THEN e ELSE "again"]

\* completePending of each k of K: its timer is cancelled unless it expired.
Complete(K, e) ==
    /\ Answered(K, e)
    /\ deadline' = [k \in Calls |-> IF k \in K /\ deadline[k] # "queued"
                                      THEN "none" ELSE deadline[k]]

\* The calls of K leave pendingCalls_.
Erase(K) ==
    /\ pending' = [k \in Calls |-> IF k \in K THEN "none" ELSE pending[k]]
    /\ attempts' = [k \in Calls |-> IF k \in K THEN 0 ELSE attempts[k]]

TakeOut(K, e) == Erase(K) /\ Complete(K, e)

\* Where thread t goes when its handler or its call is over. A handler that
\* ran inside sendPendingCalls goes back to it.
Finish(t) == IF t = Loop
               THEN Goto(t, IF ready[t] = {} \/ pc[t] = "sendNext" THEN "poll" ELSE "sendNext")
                    /\ UNCHANGED userVars
               ELSE /\ Goto(t, "idle")
                    /\ cur' = [cur EXCEPT ![t] = NoCall]
                    /\ op' = [op EXCEPT ![t] = "none"]
                    /\ UNCHANGED opsLeft

-----------------------------------------------------------------------------
(***************************************************************************)
(* callAsync.                                                              *)
(***************************************************************************)
New(k) == /\ answer[k] = "none" /\ pending[k] = "none"
          /\ \A u \in Users : cur[u] # k

\* A call that has no time, or that can not be encoded.
IssueRefused(u, k) ==
    /\ pc[u] = "idle" /\ New(k)
    /\ Complete({k}, "Failed")
    /\ UNCHANGED <<loopVars, pc, tcpVars, stateVars, pending, attempts,
                   sendVars, userVars, loopLocal>>

\* The deadline's timer is armed before the call is in pendingCalls_.
Issue(u, k) ==
    /\ pc[u] = "idle" /\ New(k)
    /\ \E o \in Options : options' = [options EXCEPT ![k] = o]
    /\ deadline' = [deadline EXCEPT ![k] = "armed"]
    /\ cur' = [cur EXCEPT ![u] = k]
    /\ Goto(u, "readState")
    /\ UNCHANGED <<loopVars, tcpVars, stateVars, pending, attempts, answer,
                   sends, sendVars, op, opsLeft, loopLocal>>

\* The future gets the error. The callback does not: it has been moved into
\* the PendingCall, and the argument callAsync tests afterwards is empty.
FailFastNow(u) ==
    /\ pc[u] = "readState" /\ connState # "Connected" /\ "failFast" \in options[cur[u]]
    /\ Complete({cur[u]}, "Failed")
    /\ Finish(u)
    /\ UNCHANGED <<loopVars, tcpVars, stateVars, pending, attempts,
                   sendVars, loopLocal>>

ReadState(u) ==
    /\ pc[u] = "readState" /\ (connState = "Connected" \/ "failFast" \notin options[cur[u]])
    /\ desired' = (desired \/ connState # "Connected")
    /\ connState' = IF connState = "Disconnected" THEN "Connecting" ELSE connState
    /\ Goto(u, IF connState = "Disconnected" THEN "insertConnect" ELSE "insert")
    /\ UNCHANGED <<loopVars, tcpVars, reconnectTimer, timer, callVars, sendVars, userVars,
                   loopLocal>>

Insert(u) ==
    /\ pc[u] \in {"insert", "insertConnect"}
    /\ pending' = [pending EXCEPT ![cur[u]] = "WaitingToSend"]
    /\ Goto(u, IF pc[u] = "insert" THEN "sendCheck" ELSE "startConnect")
    /\ UNCHANGED <<loopVars, tcpVars, stateVars, options, deadline, attempts, answer,
                   sends, sendVars, userVars, loopLocal>>

\* startConnectIfNeeded on a user's thread.
StartConnect(u) ==
    /\ pc[u] = "startConnect"
    /\ connState' = "Connecting"
    /\ Goto(u, "connectFlag")
    /\ UNCHANGED <<loopVars, tcpVars, desired, reconnectTimer, timer, callVars, sendVars,
                   userVars, loopLocal>>

TcpConnect(u) ==
    /\ \/ pc[u] = "connectFlag" /\ ConnectFlag(u, "connectQueue")
       \/ /\ pc[u] = "connectQueue"
          /\ ConnectQueue(u, IF op[u] = "connect" THEN "connectWait" ELSE "sendCheck")
    /\ UNCHANGED <<stateVars, callVars, ready, sending, userVars, loopLocal>>

-----------------------------------------------------------------------------
(***************************************************************************)
(* sendPendingCalls, on any thread.                                        *)
(***************************************************************************)
SendCheck(t) ==
    /\ pc[t] = "sendCheck"
    /\ IF connState = "Connected"
         THEN Goto(t, "snapshot") /\ UNCHANGED userVars
         ELSE Finish(t)
    /\ UNCHANGED <<loopVars, tcpVars, stateVars, callVars, sendVars, loopLocal>>

\* Thread t has the calls K left to send.
GoOnWith(t, K) == /\ ready' = [ready EXCEPT ![t] = K]
                  /\ IF K # {} THEN Goto(t, "sendNext") /\ UNCHANGED userVars
                               ELSE Finish(t)

Snapshot(t) ==
    /\ pc[t] = "snapshot"
    /\ GoOnWith(t, Waiting)
    /\ UNCHANGED <<loopVars, tcpVars, stateVars, callVars, hold, sending, loopLocal>>

Late(k) == deadline[k] \in {"passed", "queued", "over"}

\* Past its deadline a call fails without a look at its state.
SendTooLate(t, k) ==
    /\ pc[t] = "sendNext" /\ k \in ready[t] /\ Late(k)
    /\ TakeOut({k} \cap Pending, "Failed")
    /\ GoOnWith(t, ready[t] \ {k})
    /\ UNCHANGED <<loopVars, tcpVars, stateVars, hold, sending, loopLocal>>

PickConnection(t, k) ==
    /\ pc[t] = "sendNext" /\ k \in ready[t] /\ ~Late(k)
    /\ IF connection = None
         THEN GoOnWith(t, ready[t] \ {k}) /\ UNCHANGED <<hold, sending>>
         ELSE /\ ready' = [ready EXCEPT ![t] = @ \ {k}]
              /\ hold' = [hold EXCEPT ![t] = connection]
              /\ sending' = [sending EXCEPT ![t] = k]
              /\ Goto(t, "send")
              /\ UNCHANGED userVars
    /\ UNCHANGED <<loopVars, tcpVars, stateVars, callVars, loopLocal>>

\* Call k, in one of the given states, is marked Sent and handed to the
\* connection t has picked: on the loop thread the frame is sent at once,
\* which may find that the connection is lost.
SendIf(t, states) ==
    LET k == sending[t]  c == hold[t]
    IN  /\ pc[t] = "send"
        /\ IF pending[k] \notin states
             THEN GoOnWith(t, ready[t]) /\ UNCHANGED <<loopVars, tcpVars, pending, sends>>
             ELSE /\ pending' = [pending EXCEPT ![k] = "Sent"]
                  /\ sends' = [sends EXCEPT ![k] = @ + 1]
                  /\ IF t = Loop
                       THEN /\ SendInLoop(c, k, IF ready[t] # {} THEN "sendNext" ELSE "poll")
                            /\ UNCHANGED <<loopVars, ready, userVars>>
                       ELSE /\ QueueInLoop(Functor("send", c, k))
                            /\ GoOnWith(t, ready[t])
                            /\ UNCHANGED <<batch, tcpVars>>
        /\ hold' = [hold EXCEPT ![t] = None]
        /\ sending' = [sending EXCEPT ![t] = NoCall]
        /\ UNCHANGED <<stateVars, options, deadline, attempts, answer, loopLocal>>

\* Defect: a call that another thread has sent meanwhile is sent again.
SendUnchecked(t) == SendIf(t, {"WaitingToSend", "Sent"})

\* The state is checked under pendingMutex_.
Send(t) == SendIf(t, {"WaitingToSend"})

-----------------------------------------------------------------------------
(***************************************************************************)
(* Answers, deadlines and cancellation.                                    *)
(***************************************************************************)

\* onMessage, for one frame. An answer to a call that is gone is dropped.
OnResponse(m) ==
    /\ Polling /\ m \in inbox /\ Live(m[1])
    /\ inbox' = inbox \ {m}
    /\ TakeOut({m[2]} \cap Pending, "Ok")
    /\ UNCHANGED <<loopVars, pc, requested, connector, connection, link, stateVars,
                   sendVars, userVars, loopLocal>>

\* onMessage, for bytes that are no answer: every call fails, then stop().
OnGarbage(c) ==
    /\ Polling /\ Live(c)
    /\ TakeOut(Pending, "Failed")
    /\ Goto(Loop, "stopInline")
    /\ UNCHANGED <<loopVars, tcpVars, stateVars, sendVars, userVars, loopLocal>>

StopInline ==
    /\ pc[Loop] = "stopInline"
    /\ requested' = FALSE
    /\ connector' = "Disconnected"
    /\ Goto(Loop, "closeInline")
    /\ UNCHANGED <<loopVars, connection, link, inbox, stateVars, callVars, sendVars, userVars,
                   loopLocal>>

CloseInline ==
    /\ pc[Loop] = "closeInline"
    /\ IF connection # None
         THEN HandleClose(connection)
         ELSE Goto(Loop, "poll") /\ UNCHANGED tcpVars
    /\ UNCHANGED <<loopVars, stateVars, callVars, sendVars, userVars, loopLocal>>

DeadlinePasses(k) ==
    /\ deadline[k] = "armed"
    /\ deadline' = [deadline EXCEPT ![k] = "passed"]
    /\ UNCHANGED <<loopVars, pc, tcpVars, stateVars, pending, options, attempts, answer, sends,
                   sendVars, userVars, loopLocal>>

\* EventLoop::runAfter: the expired timer queues its functor.
FireDeadline(k) ==
    /\ deadline[k] = "passed"
    /\ deadline' = [deadline EXCEPT ![k] = "queued"]
    /\ QueueInLoop(Functor("deadline", None, k))
    /\ UNCHANGED <<batch, pc, tcpVars, stateVars, pending, options, attempts, answer, sends,
                   sendVars, userVars, loopLocal>>

\* onDeadline: no effect on a call that is gone, or not in pendingCalls_ yet.
OnDeadline ==
    /\ Calling("deadline")
    /\ LET k == Head(batch).arg
           K == {k} \cap Pending
       IN  Erase(K) /\ Answered(K, "Failed") /\ deadline' = [deadline EXCEPT ![k] = "over"]
    /\ UNCHANGED <<pc, tcpVars, stateVars, sendVars, userVars, loopLocal>>

\* RpcFuture::cancel, once callAsync has returned the future.
Cancel(u, k) ==
    /\ pc[u] = "idle" /\ k \in Pending /\ \A v \in Users : cur[v] # k
    /\ TakeOut({k}, "Failed")
    /\ UNCHANGED <<loopVars, pc, tcpVars, stateVars, sendVars, userVars, loopLocal>>
-----------------------------------------------------------------------------
(***************************************************************************)
(* onConnection and onConnectionError, on the loop thread.                 *)
(***************************************************************************)

\* updateConnectionState.
UpdateState(state, next) ==
    /\ connState' = state
    /\ Goto(Loop, next)
    /\ UNCHANGED <<desired, reconnectTimer, timer>>

\* Defect: calls that waited for the connection are not looked for.
OnUpSilently == /\ pc[Loop] = "onUp"
                /\ UpdateState("Connected", "poll")
                /\ UNCHANGED <<loopVars, tcpVars, callVars, sendVars, userVars, loopLocal>>

OnUp == /\ pc[Loop] = "onUp"
        /\ UpdateState("Connected", "sendCheck")
        /\ UNCHANGED <<loopVars, tcpVars, callVars, sendVars, userVars, loopLocal>>

OnDown == /\ pc[Loop] = "onDown"
          /\ should' = desired
          /\ Goto(Loop, "failSent")
          /\ UNCHANGED <<loopVars, tcpVars, stateVars, callVars, sendVars, userVars, timerId>>

\* The calls that failSentPending leaves wait for the next connection.
FailSent ==
    /\ pc[Loop] = "failSent"
    /\ TakeOut({k \in Pending : pending[k] = "Sent" \/ "failFast" \in options[k]}, "Failed")
    /\ Goto(Loop, IF should THEN "reconnecting" ELSE "disconnected")
    /\ should' = FALSE
    /\ UNCHANGED <<loopVars, tcpVars, stateVars, sendVars, userVars, timerId>>

OnError == /\ pc[Loop] = "onError"
           /\ Goto(Loop, IF desired THEN "expire" ELSE "disconnected")
           /\ UNCHANGED <<loopVars, tcpVars, stateVars, callVars, sendVars, userVars, loopLocal>>

\* expireRetryExhaustedPending, and the completion of what it takes out.
Expire ==
    LET retrying  == {k \in Waiting : "retry" \in options[k]}
        exhausted == {k \in retrying : attempts[k] >= MaxRetries}
        left      == Waiting \ exhausted
    IN  /\ pc[Loop] = "expire"
        /\ Complete(exhausted, "RetryExhausted")
        /\ pending' = [k \in Calls |-> IF k \in exhausted THEN "none" ELSE pending[k]]
        /\ attempts' = [k \in Calls |-> CASE k \in exhausted            -> 0
                                          [] k \in retrying \ exhausted -> attempts[k] + 1
                                          [] OTHER                     -> attempts[k]]
        /\ Goto(Loop, IF left # {} THEN "reconnecting" ELSE "disconnected")
        /\ UNCHANGED <<loopVars, tcpVars, stateVars, sendVars, userVars, loopLocal>>

SetReconnecting ==
    /\ pc[Loop] = "reconnecting"
    /\ UpdateState("Reconnecting", "schedule")
    /\ UNCHANGED <<loopVars, tcpVars, callVars, sendVars, userVars, loopLocal>>

SetDisconnected ==
    /\ pc[Loop] = "disconnected"
    /\ UpdateState("Disconnected", "failAll")
    /\ UNCHANGED <<loopVars, tcpVars, callVars, sendVars, userVars, loopLocal>>

\* failAllPending at the end of a handler, or in disconnect.
FailAll(t) ==
    /\ pc[t] = "failAll"
    /\ TakeOut(Pending, "Failed")
    /\ IF t = Loop THEN Finish(t) ELSE Goto(t, "stopFlag") /\ UNCHANGED userVars
    /\ UNCHANGED <<loopVars, tcpVars, stateVars, sendVars, loopLocal>>

-----------------------------------------------------------------------------
(***************************************************************************)
(* Reconnection: scheduleReconnect and the timer it arms.                  *)
(***************************************************************************)

\* Another timer is armed, if none is known; its id is stored by StoreTimer.
Schedule ==
    /\ pc[Loop] = "schedule"
    /\ IF ~desired \/ reconnectTimer # None
         THEN Finish(Loop) /\ UNCHANGED <<timer, timerId>>
         ELSE /\ \E i \in Timers :
                    /\ timer[i] = "free" /\ \A j \in 1 .. i - 1 : timer[j] # "free"
                    /\ timer' = [timer EXCEPT ![i] = "armed"]
                    /\ timerId' = i
              /\ Goto(Loop, "storeTimer")
              /\ UNCHANGED userVars
    /\ UNCHANGED <<loopVars, tcpVars, connState, desired, reconnectTimer, callVars, sendVars,
                   should>>

StoreTimer ==
    /\ pc[Loop] = "storeTimer"
    /\ reconnectTimer' = timerId
    /\ timerId' = None
    /\ Finish(Loop)
    /\ UNCHANGED <<loopVars, tcpVars, connState, desired, timer, callVars, sendVars, should>>

\* The timer expires, and then queues its functor.
FireReconnect(i) ==
    /\ \/ /\ timer[i] = "armed"
          /\ timer' = [timer EXCEPT ![i] = "firing"]
          /\ UNCHANGED pendingFunctors
       \/ /\ timer[i] = "firing"
          /\ timer' = [timer EXCEPT ![i] = "queued"]
          /\ QueueInLoop(Functor("reconnect", None, i))
    /\ UNCHANGED <<batch, pc, tcpVars, connState, desired, reconnectTimer, callVars, sendVars,
                   userVars, loopLocal>>

\* The functor of a timer: it forgets the timer that is known, which need not
\* be its own.
OnReconnectTimer ==
    /\ Calling("reconnect")
    /\ timer' = [timer EXCEPT ![Head(batch).arg] = "free"]
    /\ reconnectTimer' = None
    /\ Goto(Loop, IF desired THEN "reconnectStart" ELSE "poll")
    /\ UNCHANGED <<tcpVars, connState, desired, callVars, sendVars, userVars, loopLocal>>

\* startConnectIfNeeded on the loop thread.
ReconnectStart ==
    /\ pc[Loop] = "reconnectStart"
    /\ UpdateState("Reconnecting", "reconnectTcp")
    /\ UNCHANGED <<loopVars, tcpVars, callVars, sendVars, userVars, loopLocal>>

ReconnectTcp ==
    /\ pc[Loop] = "reconnectTcp"
    /\ requested' = TRUE
    /\ StartInLoop(TRUE, "poll")
    /\ UNCHANGED <<loopVars, connection, link, inbox, stateVars, callVars, sendVars,
                   userVars, loopLocal>>

-----------------------------------------------------------------------------
(***************************************************************************)
(* connect and disconnect, on a user's thread.                             *)
(***************************************************************************)
Begin(u, name) == /\ pc[u] = "idle" /\ opsLeft > 0
                  /\ opsLeft' = opsLeft - 1
                  /\ op' = [op EXCEPT ![u] = name]
                  /\ UNCHANGED cur

ConnectAtOnce(u) ==
    /\ pc[u] = "idle" /\ connState = "Connected" /\ ~desired
    /\ desired' = TRUE
    /\ UNCHANGED <<loopVars, pc, tcpVars, connState, reconnectTimer, timer, callVars, sendVars,
                   userVars, loopLocal>>

ConnectOp(u) ==
    /\ Begin(u, "connect") /\ connState # "Connected"
    /\ desired' = TRUE
    /\ IF connState = "Disconnected"
         THEN connState' = "Connecting" /\ Goto(u, "startConnect")
         ELSE UNCHANGED connState /\ Goto(u, "connectWait")
    /\ UNCHANGED <<loopVars, tcpVars, reconnectTimer, timer, callVars, sendVars, loopLocal>>

\* The wait ends when the state is Connected or Disconnected, or by timeout.
ConnectWait(u) ==
    /\ pc[u] = "connectWait"
    /\ IF connState = "Connected"
         THEN Finish(u) /\ UNCHANGED <<connState, desired>>
         ELSE /\ desired' = FALSE
              /\ connState' = "Disconnected"
              /\ Goto(u, "cancelTimer")
              /\ UNCHANGED userVars
    /\ UNCHANGED <<loopVars, tcpVars, reconnectTimer, timer, callVars, sendVars, loopLocal>>

DisconnectOp(u) ==
    /\ Begin(u, "disconnect")
    /\ desired' = FALSE
    /\ connState' = "Disconnected"
    /\ Goto(u, "cancelTimer")
    /\ UNCHANGED <<loopVars, tcpVars, reconnectTimer, timer, callVars, sendVars, loopLocal>>

\* cancelReconnectTimer: a timer that expired can not be cancelled any more.
CancelTimer(u) ==
    /\ pc[u] = "cancelTimer"
    /\ timer' = [i \in Timers |-> IF i = reconnectTimer /\ timer[i] = "armed"
                                    THEN "free" ELSE timer[i]]
    /\ reconnectTimer' = None
    /\ Goto(u, IF op[u] = "disconnect" THEN "failAll" ELSE "stopFlag")
    /\ UNCHANGED <<loopVars, tcpVars, connState, desired, callVars, sendVars, userVars,
                   loopLocal>>

\* tcpClient_->stop(), after which connect() returns.
TcpStop(u) ==
    /\ \/ pc[u] = "stopFlag" /\ StopFlag(u, "stopQueue")
       \/ pc[u] = "stopQueue" /\ StopQueue(u, "stopClose")
    /\ UNCHANGED <<stateVars, callVars, ready, sending, userVars, loopLocal>>

TcpClose(u) ==
    /\ pc[u] = "stopClose"
    /\ StopClose
    /\ IF op[u] = "connect" THEN Finish(u) ELSE Goto(u, "drain") /\ UNCHANGED userVars
    /\ UNCHANGED <<stateVars, callVars, ready, sending, loopLocal>>

\* disconnect() waits for a functor of its own behind those of stop().
QueueDrain(u) ==
    /\ pc[u] = "drain"
    /\ QueueInLoop(Functor("drain", None, u))
    /\ Goto(u, "draining")
    /\ UNCHANGED <<batch, tcpVars, stateVars, callVars, sendVars, userVars, loopLocal>>

CallDrain ==
    /\ Calling("drain")
    /\ Goto(Head(batch).arg, "drained")
    /\ UNCHANGED <<tcpVars, stateVars, callVars, sendVars, userVars, loopLocal>>

DisconnectDone(u) ==
    /\ pc[u] = "drained"
    /\ connState' = "Disconnected"
    /\ Finish(u)
    /\ UNCHANGED <<loopVars, tcpVars, desired, reconnectTimer, timer, callVars, sendVars,
                   loopLocal>>
-----------------------------------------------------------------------------
(***************************************************************************)
(* The specification.                                                      *)
(***************************************************************************)
rpcVars == <<stateVars, callVars, ready, sending, userVars, loopLocal>>

\* Events a poll reports, besides the bytes of an answer.
NetworkEvent == /\ \/ ConnectSucceeds \/ ConnectFails
                   \/ \E c \in Connections : PeerCloses(c)
                /\ UNCHANGED rpcVars

\* The loop thread goes on with a handler, or with its functors.
LoopStep ==
    \/ TcpStep /\ UNCHANGED rpcVars
    \/ StopInline \/ CloseInline \/ OnDeadline \/ OnReconnectTimer \/ CallDrain
    \/ OnUp \/ OnDown \/ FailSent \/ OnError \/ Expire
    \/ SetReconnecting \/ SetDisconnected \/ FailAll(Loop)
    \/ Schedule \/ StoreTimer \/ ReconnectStart \/ ReconnectTcp

\* sendPendingCalls on thread t.
SendStep(t) == \/ SendCheck(t) \/ Snapshot(t) \/ Send(t)
               \/ \E k \in Calls : SendTooLate(t, k) \/ PickConnection(t, k)

\* User thread u goes on with its call of the client.
UserStep(u) == \/ FailFastNow(u) \/ ReadState(u) \/ Insert(u)
               \/ StartConnect(u) \/ TcpConnect(u) \/ ConnectWait(u)
               \/ CancelTimer(u) \/ FailAll(u) \/ TcpStop(u) \/ TcpClose(u)
               \/ QueueDrain(u) \/ DisconnectDone(u)

\* User thread u calls the client.
UserCall(u) ==
    \/ u \in Callers /\ \E k \in Calls : IssueRefused(u, k) \/ Issue(u, k) \/ Cancel(u, k)
    \/ u \in Controllers /\ (ConnectAtOnce(u) \/ ConnectOp(u) \/ DisconnectOp(u))

Expiry == \/ \E k \in Calls : DeadlinePasses(k) \/ FireDeadline(k)
          \/ \E i \in Timers : FireReconnect(i)

Next == \/ NetworkEvent
        \/ \E m \in inbox : OnResponse(m)
        \/ \E c \in Connections : OnGarbage(c)
        \/ LoopStep \/ Expiry
        \/ \E t \in Threads : SendStep(t)
        \/ \E u \in Users : UserStep(u) \/ UserCall(u)

\* Threads run, and timers expire; the network and the users do as they like.
Fairness ==
    /\ WF_vars(LoopStep \/ SendStep(Loop))
    /\ \A u \in Users : WF_vars(UserStep(u) \/ SendStep(u))
    /\ \A k \in Calls : WF_vars(DeadlinePasses(k) \/ FireDeadline(k))
    /\ \A i \in Timers : WF_vars(FireReconnect(i))

Spec == Init /\ [][Next]_vars /\ Fairness

-----------------------------------------------------------------------------
(***************************************************************************)
(* Properties.                                                             *)
(***************************************************************************)
\* The values the variables range over.
TypeOK ==
    /\ requested \in BOOLEAN /\ desired \in BOOLEAN /\ should \in BOOLEAN
    /\ connector \in {"Disconnected", "Connecting", "Connected"}
    /\ connState \in {"Disconnected", "Connecting", "Connected", "Reconnecting"}
    /\ connection \in Connections \cup {None}
    /\ link \in [Connections -> {"none", "Connected", "Disconnected"}]
    /\ hold \in [Threads -> Connections \cup {None}]
    /\ inbox \subseteq Connections \X Calls
    /\ reconnectTimer \in Timers \cup {None} /\ timerId \in Timers \cup {None}
    /\ timer \in [Timers -> {"free", "armed", "firing", "queued"}]
    /\ pending \in [Calls -> {"none", "WaitingToSend", "Sent"}]
    /\ options \in [Calls -> Options \cup {{}}]
    /\ deadline \in [Calls -> {"none", "armed", "passed", "queued", "over"}]
    /\ attempts \in [Calls -> 0 .. MaxRetries]
    /\ sends \in [Calls -> 0 .. 1]
    /\ answer \in [Calls -> {"none", "Ok", "Failed", "RetryExhausted"}]
    /\ ready \in [Threads -> SUBSET Calls] /\ sending \in [Threads -> Calls \cup {NoCall}]
    /\ cur \in [Users -> Calls \cup {NoCall}]
    /\ op \in [Users -> {"none", "connect", "disconnect"}] /\ opsLeft \in 0 .. MaxOps

\* Every call is answered once and sent once at most, in the orders RpcCalls
\* allows, although answers, deadlines, cancel(), lost connections, failed
\* attempts to connect and disconnect() all race to complete it, and any
\* thread may be the one that sends it.
Promise == INSTANCE RpcCalls WITH
    Call   <- Calls,
    Errors <- {"Failed"},
    sent   <- sends,
    answer <- answer
ImplementsCalls == Promise!CallsSpec

\* No thread is in the middle of anything.
Quiet == /\ Polling /\ pendingFunctors = << >>
         /\ \A u \in Users : pc[u] = "idle"

\* A call inserted while the connection came up is sent by one of the two
\* threads: callAsync looks at the state after it inserts, onConnection sets
\* the state before it looks for calls.
NoStrandedCall ==
    /\ TypeOK
    /\ connState = "Connected" /\ connection # None /\ Quiet => Waiting = {}

\* A client that waits to reconnect, and still wants to, tries again: it does
\* not stay Reconnecting with neither a timer nor an attempt to come.
KeepsTrying ==
    (connState = "Reconnecting" /\ desired) ~>
        (connector # "Disconnected" \/ connState # "Reconnecting" \/ ~desired)
=============================================================================
