----------------------------- MODULE ThreadPool -----------------------------
(***************************************************************************)
(* ThreadPool with its bounded global queue, its per-worker stealable      *)
(* queues and its destructor: src/code/ThreadPool/ThreadPool.{h,cpp},      *)
(* LocalTaskQueue.h and BoundedRingQueue.h.                                *)
(*                                                                         *)
(* The pool's mutex protects tasks and stopping only. A local queue has a  *)
(* mutex of its own, and a worker that pushes to its local queue takes     *)
(* nothing else, so the predicate a worker evaluates before it sleeps      *)
(* reads the local queues one after the other while their owners go on:    *)
(* each read is a step of its own, made with the pool's mutex held.        *)
(* Notifications are sent outside every lock and are steps of their own.   *)
(*                                                                         *)
(* A task is a member of Task; running it posts its Children, one after    *)
(* the other, with try_post.                                               *)
(***************************************************************************)
EXTENDS Integers, Sequences, FiniteSets

CONSTANTS
    WorkerCount,   \* the constructor's arguments
    Capacity,
    RejectPolicy,
    Clients,       \* threads outside the pool that submit tasks
    Task,
    Roots,         \* the tasks clients submit, each at most once
    Children,      \* Children[k]: what k posts while it runs, in order
    Free           \* value of mutex when nobody holds it

Workers == 0 .. WorkerCount - 1

NoTask == "none"

ASSUME PoolAssumption == /\ WorkerCount \in Nat \ {0}
                         /\ Capacity \in Nat \ {0}
                         /\ RejectPolicy \in {"abort", "caller_runs", "discard"}
\* A task is a callable that can be moved and not copied, so nobody posts it
\* twice.
ASSUME TaskAssumption == /\ Roots \subseteq Task /\ NoTask \notin Task
                         /\ Children \in [Task -> Seq(Task \ Roots)]
                         /\ \A k, m \in Task :
                               \A i \in DOMAIN Children[k], j \in DOMAIN Children[m] :
                                  Children[k][i] = Children[m][j] => k = m /\ i = j
ASSUME ThreadAssumption == /\ Clients \cap Workers = {} /\ Free \notin Workers
                           /\ IsFiniteSet(Clients)

Threads == Workers \cup Clients

VARIABLES
    tasks,       \* the global queue
    local,       \* local[w]: LocalTaskQueue of worker w, front first
    stopping,
    mutex,       \* the worker inside its wait section, or Free
    notEmpty,    \* workers waiting on not_empty
    notFull,     \* clients waiting on not_full
    pc,
    scan,        \* scan[w]: position of worker w in its loop over local_queues
    cur,         \* cur[t]: the task t runs or is submitting, or NoTask
    op,          \* op[c]: the submission client c is making
    todo,        \* todo[t]: children that the task t runs has still to post
    dtor,        \* progress of ~ThreadPool
    status       \* history: what became of each task

queueVars == <<tasks, local, stopping>>
vars == <<tasks, local, stopping, mutex, notEmpty, notFull, pc, scan, cur, op,
          todo, dtor, status>>

NoOp   == "none"
SubmitOps == {"try_post", "post_wait", "post_for", "post"}

Init == /\ tasks = << >>
        /\ local = [w \in Workers |-> << >>]
        /\ stopping = FALSE
        /\ mutex = Free
        /\ notEmpty = {} /\ notFull = {}
        /\ pc = [t \in Threads |-> IF t \in Workers THEN "popLocal" ELSE "idle"]
        /\ scan = [w \in Workers |-> 0]
        /\ cur = [t \in Threads |-> NoTask]
        /\ op = [c \in Clients |-> NoOp]
        /\ todo = [t \in Threads |-> << >>]
        /\ dtor = "live"
        /\ status = [k \in Task |-> "new"]

Goto(t, label) == pc' = [pc EXCEPT ![t] = label]

Full == Len(tasks) = Capacity

\* Mark task k.
Becomes(k, s) == status' = [status EXCEPT ![k] = s]

\* Thread t has task k in its hands and is about to run it at label.
Hold(t, k) == /\ cur' = [cur EXCEPT ![t] = k]
              /\ todo' = [todo EXCEPT ![t] = Children[k]]
              /\ Becomes(k, "running")

\* One of the threads of S, or none when S is empty.
OneOf(S) == IF S = {} THEN {{}} ELSE {{u} : u \in S}

-----------------------------------------------------------------------------
(***************************************************************************)
(* WorkerLoop.                                                             *)
(***************************************************************************)

\* TryPopOwner: the owner takes from the front.
PopLocal(w) ==
    /\ pc[w] = "popLocal"
    /\ \/ /\ local[w] # << >>
          /\ Hold(w, Head(local[w]))
          /\ local' = [local EXCEPT ![w] = Tail(@)]
          /\ Goto(w, "run")
       \/ /\ local[w] = << >>
          /\ Goto(w, "popGlobal")
          /\ UNCHANGED <<local, cur, todo, status>>
    /\ UNCHANGED <<tasks, stopping, mutex, notEmpty, notFull, scan, op, dtor>>

PopGlobal(w) ==
    /\ pc[w] = "popGlobal" /\ mutex = Free
    /\ \/ /\ tasks # << >>
          /\ Hold(w, Head(tasks))
          /\ tasks' = Tail(tasks)
          /\ Goto(w, "notifyNotFull")
          /\ UNCHANGED scan
       \/ /\ tasks = << >>
          /\ IF WorkerCount > 1
               THEN Goto(w, "steal") /\ scan' = [scan EXCEPT ![w] = 1]
               ELSE Goto(w, "enterWait") /\ UNCHANGED scan
          /\ UNCHANGED <<tasks, cur, todo, status>>
    /\ UNCHANGED <<local, stopping, mutex, notEmpty, notFull, op, dtor>>

\* not_full.notify_one() after the unlock, before the task runs.
NotifyNotFull(w) ==
    /\ pc[w] = "notifyNotFull"
    /\ \E W \in OneOf(notFull) :
          /\ notFull' = notFull \ W
          /\ pc' = [t \in Threads |-> IF t = w THEN "run"
                                      ELSE IF t \in W THEN "woken" ELSE pc[t]]
    /\ UNCHANGED <<queueVars, mutex, notEmpty, scan, cur, op, todo, dtor, status>>

\* The victim at the current position of TrySteal's or HasStealableWork's loop.
Victim(w) == (w + scan[w]) % WorkerCount

\* Defect: the thief copies the task and leaves it in its victim's queue.
StealCopy(w) ==
    /\ pc[w] = "steal"
    /\ LET q == local[Victim(w)] IN
       \/ /\ q # << >>
          /\ Hold(w, q[Len(q)])
          /\ Goto(w, "run")
          /\ scan' = [scan EXCEPT ![w] = 0]
       \/ /\ q = << >>
          /\ scan' = [scan EXCEPT ![w] = 0] /\ Goto(w, "enterWait")
          /\ UNCHANGED <<cur, todo, status>>
    /\ UNCHANGED <<queueVars, mutex, notEmpty, notFull, op, dtor>>

\* The loop of TrySteal, one victim per step: a thief takes from the back.
Steal(w) ==
    /\ pc[w] = "steal"
    /\ LET q == local[Victim(w)] IN
       \/ /\ q # << >>
          /\ Hold(w, q[Len(q)])
          /\ local' = [local EXCEPT ![Victim(w)] = SubSeq(q, 1, Len(q) - 1)]
          /\ Goto(w, "run")
          /\ scan' = [scan EXCEPT ![w] = 0]
       \/ /\ q = << >>
          /\ IF scan[w] < WorkerCount - 1
               THEN scan' = [scan EXCEPT ![w] = @ + 1] /\ UNCHANGED pc
               ELSE scan' = [scan EXCEPT ![w] = 0] /\ Goto(w, "enterWait")
          /\ UNCHANGED <<local, cur, todo, status>>
    /\ UNCHANGED <<tasks, stopping, mutex, notEmpty, notFull, op, dtor>>

\* Defect: the wait predicate forgets the global queue.
EnterWaitLocal(w) ==
    /\ pc[w] \in {"enterWait", "woken"} /\ mutex = Free
    /\ mutex' = w
    /\ IF stopping \/ local[w] # << >>
         THEN Goto(w, "checkExit") /\ UNCHANGED scan
         ELSE Goto(w, "checkStealable") /\ scan' = [scan EXCEPT ![w] = 1]
    /\ UNCHANGED <<queueVars, notEmpty, notFull, cur, op, todo, dtor, status>>

\* The wait predicate up to HasStealableWork, with the mutex just taken; a
\* woken worker evaluates it anew.
EnterWait(w) ==
    /\ pc[w] \in {"enterWait", "woken"} /\ mutex = Free
    /\ mutex' = w
    /\ IF stopping \/ tasks # << >> \/ local[w] # << >>
         THEN Goto(w, "checkExit") /\ UNCHANGED scan
         ELSE Goto(w, "checkStealable") /\ scan' = [scan EXCEPT ![w] = 1]
    /\ UNCHANGED <<queueVars, notEmpty, notFull, cur, op, todo, dtor, status>>

\* HasStealableWork, one victim per step; when it finds nothing the worker
\* joins the wait set and releases the mutex in one step.
CheckStealable(w) ==
    /\ pc[w] = "checkStealable"
    /\ \/ /\ scan[w] < WorkerCount
          /\ IF local[Victim(w)] # << >>
               THEN scan' = [scan EXCEPT ![w] = 0] /\ Goto(w, "checkExit")
               ELSE scan' = [scan EXCEPT ![w] = @ + 1] /\ UNCHANGED pc
          /\ UNCHANGED <<mutex, notEmpty>>
       \/ /\ scan[w] = WorkerCount
          /\ mutex' = Free
          /\ notEmpty' = notEmpty \cup {w}
          /\ Goto(w, "waiting")
          /\ scan' = [scan EXCEPT ![w] = 0]
    /\ UNCHANGED <<queueVars, notFull, cur, op, todo, dtor, status>>

\* Defect: a worker leaves as soon as the pool is stopping.
CheckExitEarly(w) ==
    /\ pc[w] = "checkExit"
    /\ \/ /\ stopping
          /\ Goto(w, "checkDrained")
          /\ UNCHANGED mutex
       \/ /\ ~stopping
          /\ mutex' = Free
          /\ Goto(w, "popLocal")
    /\ UNCHANGED <<queueVars, notEmpty, notFull, scan, cur, op, todo, dtor, status>>

\* stopping && tasks.empty(), evaluated after the wait.
CheckExit(w) ==
    /\ pc[w] = "checkExit"
    /\ \/ /\ stopping /\ tasks = << >>
          /\ Goto(w, "checkDrained")
          /\ UNCHANGED mutex
       \/ /\ ~stopping \/ tasks # << >>
          /\ mutex' = Free
          /\ Goto(w, "popLocal")
    /\ UNCHANGED <<queueVars, notEmpty, notFull, scan, cur, op, todo, dtor, status>>

\* AllLocalEmpty, one queue per step, and the worker's return.
CheckDrained(w) ==
    /\ pc[w] = "checkDrained"
    /\ \/ /\ scan[w] < WorkerCount /\ local[scan[w]] = << >>
          /\ scan' = [scan EXCEPT ![w] = @ + 1]
          /\ UNCHANGED <<mutex, pc>>
       \/ /\ scan[w] < WorkerCount /\ local[scan[w]] # << >>
          /\ mutex' = Free
          /\ Goto(w, "popLocal")
          /\ scan' = [scan EXCEPT ![w] = 0]
       \/ /\ scan[w] = WorkerCount
          /\ mutex' = Free
          /\ Goto(w, "exited")
          /\ scan' = [scan EXCEPT ![w] = 0]
    /\ UNCHANGED <<queueVars, notEmpty, notFull, cur, op, todo, dtor, status>>

\* A condition variable may wake a waiter nobody notified.
SpuriousWakeup(t) ==
    /\ pc[t] = "waiting"
    /\ notEmpty' = notEmpty \ {t}
    /\ notFull' = notFull \ {t}
    /\ Goto(t, "woken")
    /\ UNCHANGED <<queueVars, mutex, scan, cur, op, todo, dtor, status>>

-----------------------------------------------------------------------------
(***************************************************************************)
(* A running task: try_post of a child, or the end of the task.            *)
(***************************************************************************)

\* try_post on a worker: tls_local is set, so neither stopping nor the
\* capacity is looked at.
PushOwner(w) ==
    /\ pc[w] = "run" /\ todo[w] # << >>
    /\ local' = [local EXCEPT ![w] = <<Head(todo[w])>> \o @]
    /\ todo' = [todo EXCEPT ![w] = Tail(@)]
    /\ Becomes(Head(todo[w]), "accepted")
    /\ Goto(w, "notifyNotEmpty")
    /\ UNCHANGED <<tasks, stopping, mutex, notEmpty, notFull, scan, cur, op, dtor>>

\* try_post inside a task that its submitter runs (caller_runs).
PostChild(c) ==
    /\ pc[c] = "run" /\ todo[c] # << >> /\ mutex = Free
    /\ todo' = [todo EXCEPT ![c] = Tail(@)]
    /\ \/ /\ ~stopping /\ ~Full
          /\ tasks' = Append(tasks, Head(todo[c]))
          /\ Becomes(Head(todo[c]), "accepted")
          /\ Goto(c, "notifyNotEmpty")
       \/ /\ stopping \/ Full
          /\ Becomes(Head(todo[c]), "refused")
          /\ UNCHANGED <<tasks, pc>>
    /\ UNCHANGED <<local, stopping, mutex, notEmpty, notFull, scan, cur, op, dtor>>

EndTask(t) ==
    /\ pc[t] = "run" /\ todo[t] = << >>
    /\ Becomes(cur[t], "done")
    /\ cur' = [cur EXCEPT ![t] = NoTask]
    /\ Goto(t, IF t \in Workers THEN "popLocal" ELSE "idle")
    /\ UNCHANGED <<queueVars, mutex, notEmpty, notFull, scan, op, todo, dtor>>

\* NotifyWorkers: one waiting worker, no lock held.
NotifyWorkers(t) ==
    /\ pc[t] = "notifyNotEmpty"
    /\ \E W \in OneOf(notEmpty) :
          /\ notEmpty' = notEmpty \ W
          /\ pc' = [u \in Threads |->
                      IF u = t THEN IF cur[t] = NoTask THEN "idle" ELSE "run"
                      ELSE IF u \in W THEN "woken" ELSE pc[u]]
    /\ UNCHANGED <<queueVars, mutex, notFull, scan, cur, op, todo, dtor, status>>

-----------------------------------------------------------------------------
(***************************************************************************)
(* Submission by a client: try_post, post_wait, post_for, and post, which  *)
(* submit() calls. One critical section each, entered once or, by a        *)
(* thread that waits on not_full, again after every wakeup.                *)
(***************************************************************************)
\* Client c is in the critical section of submission o of task k: a new call,
\* or the one it made when it went to wait.
InSection(c, k, o) ==
    /\ mutex = Free
    /\ \/ /\ pc[c] = "idle" /\ dtor # "joined"
          /\ k \in Roots /\ status[k] = "new" /\ \A d \in Clients : cur[d] # k
       \/ pc[c] \in {"woken", "expired"} /\ k = cur[c] /\ o = op[c]

\* The call is over, but for what it does after the unlock.
Leave(c, label) == /\ cur' = [cur EXCEPT ![c] = NoTask]
                   /\ op' = [op EXCEPT ![c] = NoOp]
                   /\ Goto(c, label)

\* Defect: no NotifyWorkers after the push.
EnqueueSilently(c, k, o) ==
    /\ ~stopping /\ ~Full
    /\ tasks' = Append(tasks, k)
    /\ Becomes(k, "accepted")
    /\ Leave(c, "idle")
    /\ UNCHANGED <<local, stopping, mutex, notEmpty, notFull, scan, todo, dtor>>

Enqueue(c, k, o) ==
    /\ ~stopping /\ ~Full
    /\ tasks' = Append(tasks, k)
    /\ Becomes(k, "accepted")
    /\ Leave(c, "notifyNotEmpty")
    /\ UNCHANGED <<local, stopping, mutex, notEmpty, notFull, scan, todo, dtor>>

\* pool_stopping, queue_full or timeout, an exception, or a discarded task.
Refuse(c, k, o) ==
    /\ \/ stopping
       \/ Full /\ o = "try_post"
       \/ Full /\ o = "post" /\ RejectPolicy # "caller_runs"
       \/ Full /\ pc[c] = "expired"
    /\ Becomes(k, "refused")
    /\ Leave(c, "idle")
    /\ UNCHANGED <<queueVars, mutex, notEmpty, notFull, scan, todo, dtor>>

\* caller_runs: the task runs on the client, outside the lock.
RunHere(c, k, o) ==
    /\ ~stopping /\ Full
    /\ o = "post" /\ RejectPolicy = "caller_runs"
    /\ Hold(c, k)
    /\ Goto(c, "run")
    /\ UNCHANGED <<queueVars, mutex, notEmpty, notFull, scan, op, dtor>>

WaitNotFull(c, k, o) ==
    /\ pc[c] # "expired" /\ ~stopping /\ Full
    /\ o \in {"post_wait", "post_for"}
    /\ notFull' = notFull \cup {c}
    /\ cur' = [cur EXCEPT ![c] = k]
    /\ op' = [op EXCEPT ![c] = o]
    /\ Goto(c, "waiting")
    /\ UNCHANGED <<queueVars, mutex, notEmpty, scan, todo, dtor, status>>

Submit(c, k, o) == \/ Enqueue(c, k, o) \/ Refuse(c, k, o)
                   \/ RunHere(c, k, o) \/ WaitNotFull(c, k, o)

StartSubmit(c) == /\ pc[c] = "idle"
                  /\ \E k \in Roots, o \in SubmitOps :
                        InSection(c, k, o) /\ Submit(c, k, o)

Resume(c) == /\ pc[c] \in {"woken", "expired"}
             /\ InSection(c, cur[c], op[c])
             /\ Submit(c, cur[c], op[c])

\* post_for's deadline passes: the predicate is evaluated once more.
Timeout(c) ==
    /\ pc[c] = "waiting" /\ op[c] = "post_for"
    /\ notFull' = notFull \ {c}
    /\ Goto(c, "expired")
    /\ UNCHANGED <<queueVars, mutex, notEmpty, scan, cur, op, todo, dtor, status>>

-----------------------------------------------------------------------------
(***************************************************************************)
(* ~ThreadPool, run by a thread of its own.                                *)
(***************************************************************************)
SetStopping ==
    /\ dtor = "live" /\ mutex = Free
    /\ stopping' = TRUE
    /\ dtor' = "notifyNotEmpty"
    /\ UNCHANGED <<tasks, local, mutex, notEmpty, notFull, pc, scan, cur, op, todo, status>>

\* Defect: the destructor wakes one worker.
NotifyOneWorker ==
    /\ dtor = "notifyNotEmpty"
    /\ \E W \in OneOf(notEmpty) :
          /\ notEmpty' = notEmpty \ W
          /\ pc' = [t \in Threads |-> IF t \in W THEN "woken" ELSE pc[t]]
    /\ dtor' = "notifyNotFull"
    /\ UNCHANGED <<queueVars, mutex, notFull, scan, cur, op, todo, status>>

NotifyAllWorkers ==
    /\ dtor = "notifyNotEmpty"
    /\ pc' = [t \in Threads |-> IF t \in notEmpty THEN "woken" ELSE pc[t]]
    /\ notEmpty' = {}
    /\ dtor' = "notifyNotFull"
    /\ UNCHANGED <<queueVars, mutex, notFull, scan, cur, op, todo, status>>

NotifyAllProducers ==
    /\ dtor = "notifyNotFull"
    /\ pc' = [t \in Threads |-> IF t \in notFull THEN "woken" ELSE pc[t]]
    /\ notFull' = {}
    /\ dtor' = "join"
    /\ UNCHANGED <<queueVars, mutex, notEmpty, scan, cur, op, todo, status>>

\* Defect: the workers are detached, not joined.
Detach ==
    /\ dtor = "join"
    /\ dtor' = "joined"
    /\ UNCHANGED <<queueVars, mutex, notEmpty, notFull, pc, scan, cur, op, todo, status>>

Join ==
    /\ dtor = "join" /\ \A w \in Workers : pc[w] = "exited"
    /\ dtor' = "joined"
    /\ UNCHANGED <<queueVars, mutex, notEmpty, notFull, pc, scan, cur, op, todo, status>>

-----------------------------------------------------------------------------
WorkerStep(w) == \/ PopLocal(w) \/ PopGlobal(w) \/ NotifyNotFull(w) \/ Steal(w)
                 \/ EnterWait(w) \/ CheckStealable(w) \/ CheckExit(w)
                 \/ CheckDrained(w) \/ PushOwner(w) \/ EndTask(w) \/ NotifyWorkers(w)

ClientStep(c) == \/ Resume(c) \/ Timeout(c)
                 \/ PostChild(c) \/ EndTask(c) \/ NotifyWorkers(c)

DestructorStep == SetStopping \/ NotifyAllWorkers \/ NotifyAllProducers \/ Join

\* The pool is gone and no submission is in progress.
Finished == /\ dtor = "joined" /\ \A c \in Clients : pc[c] = "idle"
            /\ UNCHANGED vars

Next == \/ \E w \in Workers : WorkerStep(w)
        \/ \E c \in Clients : StartSubmit(c) \/ ClientStep(c)
        \/ \E t \in Threads : SpuriousWakeup(t)
        \/ DestructorStep
        \/ Finished

Spec == Init /\ [][Next]_vars

\* Threads keep running, a thread that asks for the mutex gets it in the end
\* (strong fairness: another worker may hold it now and then), and every task
\* returns. The destructor, once begun, goes on; nobody has to begin it.
Fairness == /\ \A w \in Workers : SF_vars(WorkerStep(w))
            /\ \A c \in Clients : SF_vars(ClientStep(c))
            /\ WF_vars(NotifyAllWorkers \/ NotifyAllProducers \/ Join)

FairSpec == Spec /\ Fairness

-----------------------------------------------------------------------------
(***************************************************************************)
(* Properties.                                                             *)
(***************************************************************************)
WorkerPCs == {"popLocal", "popGlobal", "notifyNotFull", "steal", "enterWait",
              "woken", "checkStealable", "checkExit", "checkDrained", "exited",
              "waiting", "run", "notifyNotEmpty"}
ClientPCs == {"idle", "waiting", "woken", "expired", "run", "notifyNotEmpty"}

\* Every variable has its type; the global queue stays within its capacity.
TypeOK ==
    /\ tasks \in Seq(Task) /\ Len(tasks) <= Capacity
    /\ local \in [Workers -> Seq(Task)]
    /\ stopping \in BOOLEAN
    /\ mutex \in Workers \cup {Free}
    /\ notEmpty \subseteq Workers /\ notFull \subseteq Clients
    /\ pc \in [Threads -> WorkerPCs \cup ClientPCs]
    /\ \A w \in Workers : pc[w] \in WorkerPCs
    /\ \A c \in Clients : pc[c] \in ClientPCs
    /\ scan \in [Workers -> 0..WorkerCount]
    /\ cur \in [Threads -> Task \cup {NoTask}]
    /\ op \in [Clients -> SubmitOps \cup {NoOp}]
    /\ todo \in [Threads -> Seq(Task)]
    /\ dtor \in {"live", "notifyNotEmpty", "notifyNotFull", "join", "joined"}
    /\ status \in [Task -> {"new", "accepted", "running", "done", "refused"}]

Places(q, k) == {i \in DOMAIN q : q[i] = k}

\* Where an accepted task is kept: its places in the global and local queues.
Copies(k) == {<<"global", i>> : i \in Places(tasks, k)}
             \cup UNION {{<<w, i>> : i \in Places(local[w], k)} : w \in Workers}

Running(t) == pc[t] \in {"run", "notifyNotFull", "notifyNotEmpty"} /\ cur[t] # NoTask

\* A task is never lost and never doubled by an owner and its thieves: an
\* accepted task sits in exactly one place of one queue, a running one is in
\* the hands of exactly one thread and in no queue, any other is nowhere.
EachTaskInOnePlace ==
    /\ TypeOK
    /\ \A k \in Task :
       /\ Cardinality(Copies(k)) = IF status[k] = "accepted" THEN 1 ELSE 0
       /\ Cardinality({t \in Threads : Running(t) /\ cur[t] = k})
            = IF status[k] = "running" THEN 1 ELSE 0

\* The mutex is held exactly by a worker inside its wait section.
MutexHeldInWait ==
    \A w \in Workers : mutex = w <=>
        pc[w] \in {"checkStealable", "checkExit", "checkDrained"}

\* Workers that will look at the global queue before they sleep again, and
\* threads about to wake one.
TaskSignals ==
    {t \in Threads :
        \/ t \in Clients /\ pc[t] = "notifyNotEmpty"
        \/ t \in Workers /\ \/ pc[t] \in {"popGlobal", "woken", "checkExit"}
                            \/ pc[t] = "popLocal" /\ local[t] = << >>}

\* Clients about to look for a free slot, and workers about to wake one.
SlotSignals ==
    {t \in Threads : \/ t \in Workers /\ pc[t] = "notifyNotFull"
                     \/ t \in Clients /\ pc[t] \in {"woken", "expired"}}

\* No wakeup is lost for the global queue, although workers wait for local
\* work on the same condition variable: while workers sleep, every queued
\* task has a thread of its own that will fetch it or wake a sleeper, and
\* while clients sleep on not_full, so has every free slot.
NoLostWakeup ==
    ~stopping =>
      /\ notEmpty # {} => Len(tasks) <= Cardinality(TaskSignals)
      /\ notFull # {} => Capacity - Len(tasks) <= Cardinality(SlotSignals)

\* A worker leaves only a drained pool: when one has exited the pool is
\* stopping, the global queue is empty for good and so is its own local
\* queue, and only workers that are still there own queued tasks.
ExitOnlyWhenDrained ==
    \A w \in Workers : pc[w] = "exited" =>
        stopping /\ tasks = << >> /\ local[w] = << >>

\* An accepted task finishes, also when the pool is being destroyed and
\* whatever queue it is in.
AcceptedTaskRuns ==
    \A k \in Task : status[k] = "accepted" ~> status[k] = "done"

\* A destructor that has begun returns, and so does every submission that
\* waits for room, in time for the destructor too.
DestructorReturns ==
    /\ stopping ~> dtor = "joined"
    /\ \A c \in Clients : pc[c] = "waiting" ~> pc[c] = "idle"

\* The pool keeps a task executor's promise.
Executor == INSTANCE TaskExecutor WITH gone <- dtor = "joined"
ImplementsExecutor == Executor!ExecSpec
=============================================================================
