----------------------------- MODULE RpcService -----------------------------
(***************************************************************************)
(* What an RPC server promises about the requests it has received: each is *)
(* answered at most once, on its own connection, while that is up.         *)
(***************************************************************************)
EXTENDS Naturals, Sequences

CONSTANTS Connection, Request, Code

VARIABLES received,  \* requests, records with the connection they came on
          answers,   \* answers[c]: what was written to c, records with request and code
          down       \* connections that are down, for good

ServiceInit == received = {} /\ down = {} /\ answers = [c \in Connection |-> << >>]

Answered(r) == \E i \in 1 .. Len(answers[r.conn]) : answers[r.conn][i].request = r

\* Requests may come several at a time.
Receive == /\ received \subseteq received' /\ received' \subseteq Request
           /\ UNCHANGED <<answers, down>>

Answer(r, code) ==
    /\ ~Answered(r) /\ r.conn \notin down
    /\ answers' = [answers EXCEPT ![r.conn] = Append(@, [request |-> r, code |-> code])]
    /\ UNCHANGED <<received, down>>

GoDown(c) == /\ c \notin down
             /\ down' = down \cup {c}
             /\ UNCHANGED <<received, answers>>

ServiceNext == \/ Receive
               \/ \E r \in received, code \in Code : Answer(r, code)
               \/ \E c \in Connection : GoDown(c)

ServiceSpec == ServiceInit /\ [][ServiceNext]_<<received, answers, down>>
=============================================================================
