------------------------------ MODULE RpcCalls ------------------------------
(***************************************************************************)
(* What an RPC client promises about a call, whatever connections, timers  *)
(* and threads it is made of: it is answered at most once, its request is  *)
(* sent at most once and only while it is open, a success answers a        *)
(* request that was sent, and a call that is told its retries are          *)
(* exhausted was never sent.                                               *)
(***************************************************************************)
EXTENDS Naturals

CONSTANTS Call, Errors

VARIABLES sent,     \* sent[k]: how often k was sent while it was open
          answer    \* answer[k]: what k was answered with, or none

CallsInit == /\ sent = [k \in Call |-> 0]
             /\ answer = [k \in Call |-> "none"]

Open == {k \in Call : answer[k] = "none"}

Send(k) == /\ k \in Open /\ sent[k] = 0
           /\ sent' = [sent EXCEPT ![k] = 1]
           /\ UNCHANGED answer

Answer(K, e) == /\ answer' = [k \in Call |-> IF k \in K THEN e ELSE answer[k]]
                /\ sent' = [k \in Call |-> IF k \in K THEN 0 ELSE sent[k]]

Succeed(k) == k \in Open /\ sent[k] = 1 /\ Answer({k}, "Ok")

\* One event, a connection lost for instance, may fail many calls.
Fail(K, e)  == K \subseteq Open /\ Answer(K, e)
Exhaust(K)  == K \subseteq {k \in Open : sent[k] = 0} /\ Answer(K, "RetryExhausted")

CallsNext == \/ \E k \in Call : Send(k) \/ Succeed(k)
             \/ \E K \in SUBSET Call : Exhaust(K) \/ \E e \in Errors : Fail(K, e)

CallsSpec == CallsInit /\ [][CallsNext]_<<sent, answer>>
=============================================================================
