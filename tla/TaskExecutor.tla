---------------------------- MODULE TaskExecutor ----------------------------
(***************************************************************************)
(* What a thread pool promises about the tasks it is given, whatever       *)
(* queues and threads it is made of: a task it accepts is started once,    *)
(* by one thread, and has finished when the pool is gone; a task it        *)
(* refuses is never started.                                               *)
(***************************************************************************)
CONSTANT Task

VARIABLES status,   \* new, accepted, running, done or refused
          gone      \* the pool's destructor has joined its threads

execVars == <<status, gone>>

ExecInit == /\ status = [k \in Task |-> "new"]
            /\ gone = FALSE

Step(k, from, to) == /\ status[k] = from
                     /\ status' = [status EXCEPT ![k] = to]
                     /\ UNCHANGED gone

Accept(k) == ~gone /\ Step(k, "new", "accepted")
Refuse(k) == Step(k, "new", "refused")
Begin(k)  == Step(k, "accepted", "running")
End(k)    == Step(k, "running", "done")

\* A task the caller is told to run itself, instead of being queued.
RunByCaller(k) == Step(k, "new", "running")

Vanish == /\ \A k \in Task : status[k] # "accepted"
          /\ gone' = TRUE
          /\ UNCHANGED status

ExecNext == \/ \E k \in Task : \/ Accept(k) \/ Refuse(k) \/ RunByCaller(k)
                               \/ Begin(k) \/ End(k)
            \/ Vanish

ExecSpec == ExecInit /\ [][ExecNext]_execVars
=============================================================================
