-------------------------- MODULE ThreadPoolProofs --------------------------
(***************************************************************************)
(* Theorems about ThreadPool, for any number of workers, any finite number *)
(* of clients, any capacity, policy and tree of tasks.                     *)
(***************************************************************************)
EXTENDS ThreadPool, FiniteSetTheorems, SequenceTheorems, TLAPS

-----------------------------------------------------------------------------
(***************************************************************************)
(* The inductive invariant: who is where.                                  *)
(***************************************************************************)

\* A condition variable's wait set are the threads that wait on it.
WaitSets == /\ notEmpty = {w \in Workers : pc[w] = "waiting"}
            /\ notFull  = {c \in Clients : pc[c] = "waiting"}

\* Only its owner pushes to a local queue, and only from a task it runs: from
\* the time it found the queue empty until it runs a task, it stays empty.
OwnQueueEmpty ==
    \A w \in Workers : pc[w] \notin {"popLocal", "run", "notifyNotFull", "notifyNotEmpty"}
                          => local[w] = << >>

\* The mutex keeps what a worker saw under it true while it is in its wait
\* section, and a stopping pool takes no more tasks.
SeenUnderMutex ==
    \A w \in Workers : /\ pc[w] = "checkStealable" => ~stopping /\ tasks = << >>
                       /\ pc[w] \in {"checkDrained", "exited"} => stopping /\ tasks = << >>

DestructorInv == /\ dtor # "live" => stopping
                 /\ dtor = "joined" => \A w \in Workers : pc[w] = "exited"

\* What a thread holds says where it is.
Holding ==
    /\ \A w \in Workers : cur[w] # NoTask <=> pc[w] \in {"run", "notifyNotFull", "notifyNotEmpty"}
    /\ \A c \in Clients : /\ pc[c] = "idle" => cur[c] = NoTask
                          /\ pc[c] \in {"waiting", "woken", "expired", "run"} => cur[c] # NoTask

ControlInv == /\ TypeOK /\ MutexHeldInWait /\ WaitSets /\ OwnQueueEmpty /\ SeenUnderMutex
              /\ DestructorInv /\ Holding

-----------------------------------------------------------------------------
(***************************************************************************)
(* The inductive invariant: where the tasks are.                           *)
(***************************************************************************)

\* Task k posts x when it runs.
Posts(k, x) == \E i \in DOMAIN Children[k] : Children[k][i] = x

\* The queued tasks are the accepted ones, each queued once.
Queued == /\ \A i \in DOMAIN tasks : status[tasks[i]] = "accepted"
          /\ \A w \in Workers : \A i \in DOMAIN local[w] : status[local[w][i]] = "accepted"
          /\ \A k \in Task : status[k] = "accepted" =>
                \/ \E i \in DOMAIN tasks : tasks[i] = k
                \/ \E w \in Workers : \E i \in DOMAIN local[w] : local[w][i] = k

QueuedOnce ==
    /\ \A i, j \in DOMAIN tasks : tasks[i] = tasks[j] => i = j
    /\ \A v, w \in Workers : \A i \in DOMAIN local[v], j \in DOMAIN local[w] :
          local[v][i] = local[w][j] => v = w /\ i = j
    /\ \A w \in Workers : \A i \in DOMAIN tasks, j \in DOMAIN local[w] : tasks[i] # local[w][j]

\* No task is held twice.
HeldOnce == \A t, u \in Threads : cur[t] = cur[u] /\ cur[t] # NoTask => t = u

\* The running tasks are those some thread runs; a client that waits holds a
\* task that is still new.
Held == /\ \A t \in Threads : Running(t) => status[cur[t]] = "running"
        /\ \A k \in Task : status[k] = "running" => \E t \in Threads : Running(t) /\ cur[t] = k
        /\ \A c \in Clients : pc[c] \in {"waiting", "woken", "expired"} =>
              cur[c] \in Roots /\ status[cur[c]] = "new"

\* What a running task has still to post is new, and nobody else posts it.
Posting ==
    /\ \A t \in Threads : \A i \in DOMAIN todo[t] :
          /\ Running(t) /\ Posts(cur[t], todo[t][i]) /\ status[todo[t][i]] = "new"
          /\ \A j \in DOMAIN todo[t] : todo[t][i] = todo[t][j] => i = j
    /\ \A k, x \in Task : Posts(k, x) /\ status[k] \in {"new", "accepted"} => status[x] = "new"

TasksInv == Queued /\ QueuedOnce /\ HeldOnce /\ Held /\ Posting

PoolInv == ControlInv /\ TasksInv

-----------------------------------------------------------------------------
(***************************************************************************)
(* Queues of tasks.                                                        *)
(***************************************************************************)

\* What a push at either end makes of a queue.
LEMMA Pushed ==
    ASSUME NEW q \in Seq(Task), NEW k \in Task
    PROVE  /\ Append(q, k) \in Seq(Task) /\ <<k>> \o q \in Seq(Task)
           /\ Len(q) \in Nat /\ Len(Append(q, k)) = Len(q) + 1 /\ Len(<<k>> \o q) = Len(q) + 1
           /\ \A i \in 1 .. Len(q) : Append(q, k)[i] = q[i] /\ (<<k>> \o q)[i + 1] = q[i]
           /\ Append(q, k)[Len(q) + 1] = k /\ (<<k>> \o q)[1] = k
<1>1. <<k>> \in Seq(Task) /\ Len(<<k>>) = 1 /\ <<k>>[1] = k
      OBVIOUS
<1>2. Len(q) \in Nat
      BY LenProperties
<1>3. /\ <<k>> \o q \in Seq(Task) /\ Len(<<k>> \o q) = 1 + Len(q)
      /\ \A i \in 1 .. 1 + Len(q) : (<<k>> \o q)[i] = IF i <= 1 THEN <<k>>[i] ELSE q[i - 1]
      BY <1>1, ConcatProperties
<1>4. \A i \in 1 .. Len(q) : (<<k>> \o q)[i + 1] = q[i]
      BY <1>2, <1>3
<1>5. (<<k>> \o q)[1] = k
      BY <1>1, <1>2, <1>3
<1>6. Len(<<k>> \o q) = Len(q) + 1
      BY <1>2, <1>3
<1>. QED BY <1>2, <1>3, <1>4, <1>5, <1>6, AppendProperties

\* And a pop at the front or at the back.
LEMMA Popped ==
    ASSUME NEW q \in Seq(Task), q # << >>
    PROVE  /\ Len(q) \in Nat \ {0} /\ Head(q) = q[1] /\ q[1] \in Task /\ q[Len(q)] \in Task
           /\ Tail(q) \in Seq(Task) /\ Len(Tail(q)) = Len(q) - 1
           /\ \A i \in 1 .. Len(q) - 1 : Tail(q)[i] = q[i + 1]
           /\ SubSeq(q, 1, Len(q) - 1) \in Seq(Task) /\ Len(SubSeq(q, 1, Len(q) - 1)) = Len(q) - 1
           /\ \A i \in 1 .. Len(q) - 1 : SubSeq(q, 1, Len(q) - 1)[i] = q[i]
<1>1. Len(q) \in Nat \ {0}
      BY EmptySeq
<1>2. \A i \in 1 .. Len(q) : q[i] \in Task
      BY ElementOfSeq
<1>3. SubSeq(q, 1, Len(q) - 1) \in Seq(Task) /\ Len(SubSeq(q, 1, Len(q) - 1)) = Len(q) - 1
  <2>1. \A i \in 1 .. Len(q) - 1 : q[i] \in Task
        BY <1>1, <1>2
  <2>2. 1 \in Int /\ Len(q) - 1 \in Int
        BY <1>1
  <2>3. /\ SubSeq(q, 1, Len(q) - 1) \in Seq(Task)
        /\ Len(SubSeq(q, 1, Len(q) - 1)) = IF 1 <= Len(q) - 1 THEN Len(q) - 1 - 1 + 1 ELSE 0
        BY <2>1, <2>2, SubSeqProperties
  <2>4. \A n \in Nat \ {0} : (IF 1 <= n - 1 THEN n - 1 - 1 + 1 ELSE 0) = n - 1
        OBVIOUS
  <2>5. (IF 1 <= Len(q) - 1 THEN Len(q) - 1 - 1 + 1 ELSE 0) = Len(q) - 1
        BY <1>1, <2>4
  <2>. QED BY <2>3, <2>5
<1>4. \A i \in 1 .. Len(q) - 1 : SubSeq(q, 1, Len(q) - 1)[i] = q[i]
      BY <1>1
<1>5. Head(q) = q[1]
      OBVIOUS
<1>. QED BY <1>1, <1>2, <1>3, <1>4, <1>5, HeadTailProperties

\* A victim is a worker.
LEMMA VictimIsWorker == ASSUME TypeOK, NEW w \in Workers PROVE Victim(w) \in Workers
<1>1. w + scan[w] \in Nat /\ WorkerCount \in Nat \ {0}
      BY PoolAssumption DEF TypeOK, Workers
<1>2. \A n \in Nat : n % WorkerCount \in 0 .. WorkerCount - 1
      BY <1>1
<1>. QED BY <1>1, <1>2 DEF Victim, Workers

-----------------------------------------------------------------------------
(***************************************************************************)
(* Types.                                                                  *)
(***************************************************************************)

\* The two halves of the types: where the threads are, and what there is.
PcType == /\ pc \in [Threads -> WorkerPCs \cup ClientPCs]
          /\ \A w \in Workers : pc[w] \in WorkerPCs
          /\ \A c \in Clients : pc[c] \in ClientPCs

DataType == /\ tasks \in Seq(Task) /\ Len(tasks) <= Capacity
            /\ local \in [Workers -> Seq(Task)]
            /\ stopping \in BOOLEAN
            /\ mutex \in Workers \cup {Free}
            /\ notEmpty \subseteq Workers /\ notFull \subseteq Clients
            /\ scan \in [Workers -> 0..WorkerCount]
            /\ cur \in [Threads -> Task \cup {NoTask}]
            /\ op \in [Clients -> SubmitOps \cup {NoOp}]
            /\ todo \in [Threads -> Seq(Task)]
            /\ dtor \in {"live", "notifyNotEmpty", "notifyNotFull", "join", "joined"}
            /\ status \in [Task -> {"new", "accepted", "running", "done", "refused"}]

\* The two halves make the type invariant.
LEMMA TypeParts == TypeOK <=> PcType /\ DataType
BY DEF TypeOK, PcType, DataType

\* And so they do after a step.
LEMMA TypePartsNext == TypeOK' <=> PcType' /\ DataType'
BY DEF TypeOK, PcType, DataType

\* A thread is a worker or a client, and has the labels of its kind.
LEMMA WorkerGoto ==
    ASSUME PcType, NEW w \in Workers, NEW label \in WorkerPCs, Goto(w, label)
    PROVE  PcType'
BY ThreadAssumption DEF PcType, Goto, Threads

\* A client that moves on keeps the labels of its kind.
LEMMA ClientGoto ==
    ASSUME PcType, NEW c \in Clients, NEW label \in ClientPCs, Goto(c, label)
    PROVE  PcType'
BY ThreadAssumption DEF PcType, Goto, Threads

\* The threads of W are woken, and perhaps one thread moves on.
LEMMA WakeType ==
    ASSUME PcType, NEW W, NEW t, NEW label,
           t \in Workers => label \in WorkerPCs,
           t \in Clients => label \in ClientPCs,
           pc' = [u \in Threads |-> IF u = t THEN label ELSE IF u \in W THEN "woken" ELSE pc[u]]
    PROVE  PcType'
<1>1. "woken" \in WorkerPCs /\ "woken" \in ClientPCs
      BY DEF WorkerPCs, ClientPCs
<1>. QED BY <1>1 DEF PcType, Threads

\* The labels a step may lead to.
LEMMA Labels ==
    /\ {"popLocal", "popGlobal", "notifyNotFull", "steal", "enterWait", "woken", "checkStealable",
        "checkExit", "checkDrained", "exited", "waiting", "run", "notifyNotEmpty"} \subseteq WorkerPCs
    /\ {"idle", "waiting", "woken", "expired", "run", "notifyNotEmpty"} \subseteq ClientPCs
BY DEF WorkerPCs, ClientPCs

\* Holding a task keeps the types.
LEMMA HoldType ==
    ASSUME DataType, NEW t \in Threads, NEW k \in Task, Hold(t, k)
    PROVE  /\ cur' \in [Threads -> Task \cup {NoTask}]
           /\ todo' \in [Threads -> Seq(Task)]
           /\ status' \in [Task -> {"new", "accepted", "running", "done", "refused"}]
<1>1. Children[k] \in Seq(Task)
  <2>1. Children[k] \in Seq(Task \ Roots) /\ Task \ Roots \subseteq Task
        BY TaskAssumption
  <2>. QED BY <2>1, SeqMonotonic
<1>. QED BY <1>1 DEF DataType, Hold, Becomes

\* A worker's steps keep the types of what there is.
LEMMA WorkerData ==
    ASSUME TypeOK, NEW w \in Workers, WorkerStep(w)
    PROVE  DataType'
<1>. USE TypeParts DEF DataType, queueVars
<1>w. w \in Threads
      BY DEF Threads
<1>s. /\ scan[w] \in 0 .. WorkerCount /\ {0, 1} \subseteq 0 .. WorkerCount
      /\ scan[w] < WorkerCount => scan[w] + 1 \in 0 .. WorkerCount
      /\ scan[w] < WorkerCount - 1 => scan[w] + 1 \in 0 .. WorkerCount
      BY PoolAssumption
<1>1. CASE PopLocal(w)
  <2>1. CASE local[w] = << >>
        BY <1>w, <1>1, <2>1 DEF PopLocal
  <2>2. CASE local[w] # << >>
    <3>1. Head(local[w]) \in Task /\ Tail(local[w]) \in Seq(Task)
          BY <2>2, Popped
    <3>. QED BY <1>w, <1>1, <2>2, <3>1, HoldType DEF PopLocal
  <2>. QED BY <2>1, <2>2
<1>2. CASE PopGlobal(w)
  <2>1. CASE tasks = << >>
        BY <1>w, <1>2, <2>1, PoolAssumption DEF PopGlobal
  <2>2. CASE tasks # << >>
    <3>1. /\ Head(tasks) \in Task /\ Tail(tasks) \in Seq(Task)
          /\ Len(tasks) \in Nat /\ Len(Tail(tasks)) = Len(tasks) - 1
          BY <2>2, Popped
    <3>2. Len(Tail(tasks)) <= Capacity
          BY <3>1, PoolAssumption
    <3>. QED BY <1>w, <1>2, <2>2, <3>1, <3>2, HoldType DEF PopGlobal
  <2>. QED BY <2>1, <2>2
<1>3. CASE NotifyNotFull(w)
      BY <1>w, <1>3 DEF NotifyNotFull
<1>4. CASE Steal(w)
  <2>1. CASE local[Victim(w)] = << >>
        BY <1>4, <2>1, <1>s DEF Steal
  <2>2. CASE local[Victim(w)] # << >>
    <3>. DEFINE q == local[Victim(w)]
    <3>1. q[Len(q)] \in Task /\ SubSeq(q, 1, Len(q) - 1) \in Seq(Task)
          BY <2>2, Popped, VictimIsWorker
    <3>2. local' = [local EXCEPT ![Victim(w)] = SubSeq(q, 1, Len(q) - 1)] /\ Hold(w, q[Len(q)])
          BY <1>4, <2>2 DEF Steal
    <3>3. local' \in [Workers -> Seq(Task)]
          BY <3>1, <3>2
    <3>4. scan' \in [Workers -> 0 .. WorkerCount]
          BY <1>4, <2>2, <1>s DEF Steal
    <3>. QED BY <1>w, <1>4, <3>1, <3>2, <3>3, <3>4, HoldType DEF Steal
  <2>. QED BY <2>1, <2>2
<1>5. CASE EnterWait(w)
      BY <1>5, <1>s DEF EnterWait
<1>6. CASE CheckStealable(w)
      BY <1>6, <1>s DEF CheckStealable
<1>7. CASE CheckExit(w)
      BY <1>w, <1>7 DEF CheckExit
<1>8. CASE CheckDrained(w)
      BY <1>8, <1>s DEF CheckDrained
<1>9. CASE PushOwner(w)
  <2>1. Head(todo[w]) \in Task /\ Tail(todo[w]) \in Seq(Task)
        BY <1>w, <1>9, Popped DEF PushOwner
  <2>2. <<Head(todo[w])>> \o local[w] \in Seq(Task)
        BY <2>1, Pushed
  <2>. QED BY <1>w, <1>9, <2>1, <2>2 DEF PushOwner, Becomes
<1>10. CASE EndTask(w)
      BY <1>w, <1>10 DEF EndTask, Becomes
<1>11. CASE NotifyWorkers(w)
      BY <1>w, <1>11 DEF NotifyWorkers
<1>. QED BY <1>1, <1>2, <1>3, <1>4, <1>5, <1>6, <1>7, <1>8, <1>9, <1>10, <1>11 DEF WorkerStep

\* And the types of where the threads are.
LEMMA WorkerPcs ==
    ASSUME TypeOK, Holding, NEW w \in Workers, WorkerStep(w)
    PROVE  PcType'
<1>. USE TypeParts, Labels, WorkerGoto
<1>u. ASSUME UNCHANGED pc  PROVE PcType'
      BY <1>u DEF PcType
<1>1. CASE PopLocal(w)  BY <1>1 DEF PopLocal
<1>2. CASE PopGlobal(w)  BY <1>2 DEF PopGlobal
<1>3. CASE NotifyNotFull(w)
  <2>1. PICK W : pc' = [t \in Threads |-> IF t = w THEN "run" ELSE IF t \in W THEN "woken" ELSE pc[t]]
        BY <1>3 DEF NotifyNotFull
  <2>. QED BY <2>1, WakeType
<1>4. CASE Steal(w)  BY <1>4, <1>u DEF Steal
<1>5. CASE EnterWait(w)  BY <1>5 DEF EnterWait
<1>6. CASE CheckStealable(w)  BY <1>6, <1>u DEF CheckStealable
<1>7. CASE CheckExit(w)  BY <1>7 DEF CheckExit
<1>8. CASE CheckDrained(w)  BY <1>8, <1>u DEF CheckDrained
<1>9. CASE PushOwner(w)  BY <1>9 DEF PushOwner
<1>10. CASE EndTask(w)  BY <1>10 DEF EndTask
<1>11. CASE NotifyWorkers(w)
  <2>. DEFINE label == IF cur[w] = NoTask THEN "idle" ELSE "run"
  <2>1. PICK W : pc' = [t \in Threads |-> IF t = w THEN label ELSE IF t \in W THEN "woken" ELSE pc[t]]
        BY <1>11 DEF NotifyWorkers
  <2>2. label \in WorkerPCs
        BY <1>11 DEF NotifyWorkers, Holding
  <2>. QED BY <2>1, <2>2, WakeType, ThreadAssumption
<1>. QED BY <1>1, <1>2, <1>3, <1>4, <1>5, <1>6, <1>7, <1>8, <1>9, <1>10, <1>11 DEF WorkerStep

\* A submission keeps the types.
LEMMA SubmitType ==
    ASSUME TypeOK, NEW c \in Clients, NEW k \in Task, NEW o \in SubmitOps \cup {NoOp},
           Submit(c, k, o)
    PROVE  TypeOK'
<1>. USE TypeParts DEF DataType, queueVars
<1>t. c \in Threads
      BY DEF Threads
<1>1. CASE Enqueue(c, k, o)
  <2>1. PcType'
        BY <1>1, ClientGoto, Labels DEF Enqueue, Leave
  <2>2. tasks' \in Seq(Task) /\ Len(tasks') <= Capacity
    <3>1. Len(tasks) \in Nat /\ Len(tasks) # Capacity /\ tasks' = Append(tasks, k)
          BY <1>1, Pushed DEF Enqueue, Full
    <3>2. tasks' \in Seq(Task) /\ Len(tasks') = Len(tasks) + 1
          BY <3>1, Pushed
    <3>. QED BY <3>1, <3>2, PoolAssumption
  <2>3. DataType'
        BY <1>t, <1>1, <2>2 DEF Enqueue, Leave, Becomes
  <2>. QED BY <2>1, <2>3, TypePartsNext
<1>2. CASE Refuse(c, k, o)
  <2>1. PcType'
        BY <1>2, ClientGoto, Labels DEF Refuse, Leave
  <2>2. DataType'
        BY <1>t, <1>2 DEF Refuse, Leave, Becomes
  <2>. QED BY <2>1, <2>2, TypePartsNext
<1>3. CASE RunHere(c, k, o)
  <2>1. PcType'
        BY <1>3, ClientGoto, Labels DEF RunHere
  <2>2. DataType'
        BY <1>t, <1>3, HoldType DEF RunHere
  <2>. QED BY <2>1, <2>2, TypePartsNext
<1>4. CASE WaitNotFull(c, k, o)
  <2>1. PcType'
        BY <1>4, ClientGoto, Labels DEF WaitNotFull
  <2>2. DataType'
        BY <1>t, <1>4 DEF WaitNotFull
  <2>. QED BY <2>1, <2>2, TypePartsNext
<1>. QED BY <1>1, <1>2, <1>3, <1>4 DEF Submit

\* What a client submits is a task, whether it begins or resumes a call.
LEMMA Submission ==
    ASSUME TypeOK, Holding, NEW c \in Clients, StartSubmit(c) \/ Resume(c)
    PROVE  \E k \in Task, o \in SubmitOps \cup {NoOp} :
              /\ InSection(c, k, o) /\ Submit(c, k, o)
              /\ pc[c] = "idle" => k \in Roots /\ o \in SubmitOps
<1>1. CASE StartSubmit(c)
      BY <1>1, TaskAssumption DEF StartSubmit
<1>2. CASE Resume(c)
  <2>1. cur[c] \in Task /\ op[c] \in SubmitOps \cup {NoOp} /\ pc[c] # "idle"
        BY <1>2 DEF Resume, Holding, TypeOK, Threads
  <2>. QED BY <1>2, <2>1 DEF Resume
<1>. QED BY <1>1, <1>2

\* The other steps of clients keep the types.
LEMMA ClientType ==
    ASSUME TypeOK, NEW c \in Clients,
           Timeout(c) \/ PostChild(c) \/ EndTask(c) \/ NotifyWorkers(c)
    PROVE  TypeOK'
<1>. USE TypeParts DEF DataType, queueVars
<1>t. c \in Threads /\ c \notin Workers
      BY ThreadAssumption DEF Threads
<1>1. CASE Timeout(c)
  <2>1. PcType'
        BY <1>1, ClientGoto, Labels DEF Timeout
  <2>2. DataType'
        BY <1>1 DEF Timeout
  <2>. QED BY <2>1, <2>2, TypePartsNext
<1>2. CASE PostChild(c)
  <2>. DEFINE k == Head(todo[c])
  <2>1. k \in Task /\ Tail(todo[c]) \in Seq(Task)
        BY <1>t, <1>2, Popped DEF PostChild
  <2>. HIDE DEF k
  <2>2. CASE ~stopping /\ ~Full
    <3>1. Len(tasks) \in Nat /\ Len(tasks) # Capacity /\ tasks' = Append(tasks, k)
          BY <1>2, <2>2, LenProperties DEF PostChild, Full, k
    <3>2. tasks' \in Seq(Task) /\ Len(tasks') = Len(tasks) + 1
          BY <2>1, <3>1, Pushed
    <3>3. Len(tasks') <= Capacity
          BY <3>1, <3>2, PoolAssumption
    <3>4. PcType'
          BY <1>2, <2>2, ClientGoto, Labels DEF PostChild
    <3>5. DataType'
          BY <1>t, <1>2, <2>1, <3>2, <3>3 DEF PostChild, Becomes, k
    <3>. QED BY <3>4, <3>5, TypePartsNext
  <2>3. CASE stopping \/ Full
    <3>1. PcType'
          BY <1>2, <2>3 DEF PostChild, PcType
    <3>2. DataType'
          BY <1>t, <1>2, <2>1, <2>3 DEF PostChild, Becomes, k
    <3>. QED BY <3>1, <3>2, TypePartsNext
  <2>. QED BY <2>2, <2>3
<1>3. CASE EndTask(c)
  <2>1. PcType'
        BY <1>t, <1>3, ClientGoto, Labels DEF EndTask
  <2>2. DataType'
        BY <1>t, <1>3 DEF EndTask, Becomes
  <2>. QED BY <2>1, <2>2, TypePartsNext
<1>4. CASE NotifyWorkers(c)
  <2>. DEFINE label == IF cur[c] = NoTask THEN "idle" ELSE "run"
  <2>1. PICK W : pc' = [t \in Threads |-> IF t = c THEN label ELSE IF t \in W THEN "woken" ELSE pc[t]]
        BY <1>4 DEF NotifyWorkers
  <2>. HIDE DEF label
  <2>2. PcType'
    <3>1. label \in ClientPCs
          BY Labels DEF label
    <3>2. PcType
          OBVIOUS
    <3>3. "woken" \in WorkerPCs /\ "woken" \in ClientPCs
          BY Labels
    <3>. QED BY <1>t, <2>1, <3>1, <3>2, <3>3 DEF PcType, Threads
  <2>3. DataType'
        BY <1>4 DEF NotifyWorkers
  <2>. QED BY <2>2, <2>3, TypePartsNext
<1>. QED BY <1>1, <1>2, <1>3, <1>4

\* So do a spurious wakeup and the destructor.
LEMMA DestructorType ==
    ASSUME TypeOK, DestructorStep \/ \E t \in Threads : SpuriousWakeup(t)
    PROVE  TypeOK'
<1>. USE TypeParts DEF DataType, queueVars
<1>1. ASSUME NEW t \in Threads, SpuriousWakeup(t)
      PROVE  TypeOK'
  <2>1. PcType'
        BY <1>1, WorkerGoto, ClientGoto, Labels DEF SpuriousWakeup, Threads
  <2>2. DataType'
        BY <1>1 DEF SpuriousWakeup
  <2>. QED BY <2>1, <2>2, TypePartsNext
<1>2. ASSUME SetStopping \/ Join
      PROVE  TypeOK'
  <2>1. PcType' /\ DataType'
        BY <1>2 DEF SetStopping, Join, PcType
  <2>. QED BY <2>1, TypePartsNext
<1>3. ASSUME NotifyAllWorkers \/ NotifyAllProducers
      PROVE  TypeOK'
  <2>1. "woken" \in WorkerPCs /\ "woken" \in ClientPCs
        BY Labels
  <2>2. PcType' /\ DataType'
        BY <1>3, <2>1 DEF NotifyAllWorkers, NotifyAllProducers, PcType, Threads
  <2>. QED BY <2>2, TypePartsNext
<1>. QED BY <1>1, <1>2, <1>3 DEF DestructorStep

\* Every step keeps the types.
LEMMA TypeStep ==
    ASSUME TypeOK, Holding, [Next]_vars
    PROVE  TypeOK'
<1>1. ASSUME NEW w \in Workers, WorkerStep(w)
      PROVE  TypeOK'
      BY <1>1, WorkerData, WorkerPcs, TypePartsNext
<1>2. ASSUME NEW c \in Clients, StartSubmit(c) \/ Resume(c)
      PROVE  TypeOK'
      BY <1>2, Submission, SubmitType
<1>3. CASE UNCHANGED vars
      BY <1>3 DEF vars, TypeOK
<1>. QED BY <1>1, <1>2, <1>3, ClientType, DestructorType DEF Next, ClientStep, Finished

-----------------------------------------------------------------------------
(***************************************************************************)
(* Who is where.                                                           *)
(***************************************************************************)

\* Workers and clients are different threads with a place each.
PcFacts == /\ Threads = Workers \cup Clients /\ Clients \cap Workers = {}
           /\ DOMAIN pc = Threads /\ pc' \in [Threads -> WorkerPCs \cup ClientPCs]
           /\ pc \in [Threads -> WorkerPCs \cup ClientPCs]

\* These facts follow from the types before and after a step.
LEMMA PlacesOfThreads == ASSUME TypeOK, TypeOK' PROVE PcFacts
BY ThreadAssumption DEF TypeOK, Threads, PcFacts

\* The mutex belongs to the worker in its wait section.
LEMMA MutexStep ==
    ASSUME ControlInv, TypeOK', [Next]_vars
    PROVE  MutexHeldInWait'
<1>f. PcFacts /\ MutexHeldInWait /\ Free \notin Workers
      BY PlacesOfThreads, ThreadAssumption DEF ControlInv
<1>. USE DEF PcFacts, MutexHeldInWait, Goto
<1>1. ASSUME NEW w \in Workers, WorkerStep(w)
      PROVE  MutexHeldInWait'
  <2>1. CASE PopLocal(w) \/ PopGlobal(w) \/ Steal(w) \/ PushOwner(w) \/ EndTask(w)
        BY <1>f, <2>1 DEF PopLocal, PopGlobal, Steal, PushOwner, EndTask
  <2>2. CASE NotifyNotFull(w) \/ NotifyWorkers(w)
        BY <1>f, <2>2 DEF NotifyNotFull, NotifyWorkers, OneOf, ControlInv, WaitSets
  <2>3. CASE EnterWait(w) \/ CheckExit(w)
        BY <1>f, <2>3 DEF EnterWait, CheckExit
  <2>4. CASE CheckStealable(w)
        BY <1>f, <2>4 DEF CheckStealable
  <2>5. CASE CheckDrained(w)
        BY <1>f, <2>5 DEF CheckDrained
  <2>. QED BY <1>1, <2>1, <2>2, <2>3, <2>4, <2>5 DEF WorkerStep
<1>2. ASSUME NEW c \in Clients, StartSubmit(c) \/ Resume(c)
      PROVE  MutexHeldInWait'
      BY <1>f, <1>2 DEF StartSubmit, Resume, Submit, Enqueue, Refuse, RunHere, WaitNotFull, Leave
<1>3. ASSUME NEW c \in Clients, Timeout(c) \/ PostChild(c) \/ EndTask(c)
      PROVE  MutexHeldInWait'
      BY <1>f, <1>3 DEF Timeout, PostChild, EndTask
<1>4. ASSUME NEW c \in Clients, NotifyWorkers(c)
      PROVE  MutexHeldInWait'
      BY <1>f, <1>4 DEF NotifyWorkers, OneOf, ControlInv, WaitSets
<1>5. ASSUME NEW t \in Threads, SpuriousWakeup(t)
      PROVE  MutexHeldInWait'
      BY <1>f, <1>5 DEF SpuriousWakeup
<1>6. CASE DestructorStep
      BY <1>f, <1>6 DEF DestructorStep, SetStopping, NotifyAllWorkers, NotifyAllProducers, Join,
                        ControlInv, WaitSets
<1>7. CASE UNCHANGED vars
      BY <1>f, <1>7 DEF vars
<1>. QED BY <1>1, <1>2, <1>3, <1>4, <1>5, <1>6, <1>7 DEF Next, ClientStep, Finished

\* The wait sets stay the threads that wait.
LEMMA WaitSetsStep ==
    ASSUME ControlInv, TypeOK', [Next]_vars
    PROVE  WaitSets'
<1>f. PcFacts /\ WaitSets
      BY PlacesOfThreads, ThreadAssumption DEF ControlInv
<1>. USE DEF PcFacts, WaitSets, Goto
<1>1. ASSUME NEW w \in Workers, WorkerStep(w)
      PROVE  WaitSets'
  <2>1. CASE PopLocal(w)
        BY <1>f, <2>1 DEF PopLocal
  <2>2. CASE PopGlobal(w)
        BY <1>f, <2>2 DEF PopGlobal
  <2>3. CASE Steal(w)
        BY <1>f, <2>3 DEF Steal
  <2>4. CASE PushOwner(w) \/ EndTask(w)
        BY <1>f, <2>4 DEF PushOwner, EndTask
  <2>5. CASE NotifyNotFull(w)
        BY <1>f, <2>5 DEF NotifyNotFull, OneOf, WaitSets
  <2>6. CASE NotifyWorkers(w)
        BY <1>f, <2>6 DEF NotifyWorkers, OneOf, WaitSets, Holding
  <2>7. CASE EnterWait(w) \/ CheckExit(w)
        BY <1>f, <2>7 DEF EnterWait, CheckExit
  <2>8. CASE CheckStealable(w)
        BY <1>f, <2>8 DEF CheckStealable
  <2>9. CASE CheckDrained(w)
        BY <1>f, <2>9 DEF CheckDrained
  <2>. QED BY <1>1, <2>1, <2>2, <2>3, <2>4, <2>5, <2>6, <2>7, <2>8, <2>9 DEF WorkerStep
<1>2. ASSUME NEW c \in Clients, StartSubmit(c) \/ Resume(c)
      PROVE  WaitSets'
  <2>1. PICK k, o : InSection(c, k, o) /\ Submit(c, k, o)
        BY <1>2 DEF StartSubmit, Resume
  <2>2. CASE Enqueue(c, k, o) \/ Refuse(c, k, o)
        BY <1>f, <2>1, <2>2 DEF InSection, Enqueue, Refuse, Leave
  <2>3. CASE RunHere(c, k, o)
        BY <1>f, <2>1, <2>3 DEF InSection, RunHere
  <2>4. CASE WaitNotFull(c, k, o)
        BY <1>f, <2>1, <2>4 DEF InSection, WaitNotFull
  <2>. QED BY <2>1, <2>2, <2>3, <2>4 DEF Submit
<1>3. ASSUME NEW c \in Clients, Timeout(c) \/ PostChild(c) \/ EndTask(c)
      PROVE  WaitSets'
      BY <1>f, <1>3 DEF Timeout, PostChild, EndTask
<1>4. ASSUME NEW c \in Clients, NotifyWorkers(c)
      PROVE  WaitSets'
      BY <1>f, <1>4 DEF NotifyWorkers, OneOf, WaitSets
<1>5. ASSUME NEW t \in Threads, SpuriousWakeup(t)
      PROVE  WaitSets'
      BY <1>f, <1>5 DEF SpuriousWakeup
<1>6. CASE DestructorStep
      BY <1>f, <1>6 DEF DestructorStep, SetStopping, NotifyAllWorkers, NotifyAllProducers, Join,
                        WaitSets
<1>7. CASE UNCHANGED vars
      BY <1>f, <1>7 DEF vars
<1>. QED BY <1>1, <1>2, <1>3, <1>4, <1>5, <1>6, <1>7 DEF Next, ClientStep, Finished

\* Between its look at an empty queue and its next task nobody pushes to a
\* worker's queue.
LEMMA OwnQueueStep ==
    ASSUME ControlInv, TypeOK', [Next]_vars
    PROVE  OwnQueueEmpty'
<1>f. PcFacts /\ OwnQueueEmpty /\ WaitSets /\ Holding /\ local \in [Workers -> Seq(Task)]
      BY PlacesOfThreads, ThreadAssumption DEF ControlInv, TypeOK
<1>. USE DEF PcFacts, OwnQueueEmpty, Goto, queueVars
<1>1. ASSUME NEW w \in Workers, WorkerStep(w)
      PROVE  OwnQueueEmpty'
  <2>1. CASE PopLocal(w)
        BY <1>f, <2>1 DEF PopLocal
  <2>2. CASE PopGlobal(w)
        BY <1>f, <2>2 DEF PopGlobal
  <2>3. CASE Steal(w)
    <3>1. CASE local[Victim(w)] # << >>
      <4>1. Victim(w) \in Workers
            BY VictimIsWorker DEF ControlInv
      <4>2. \A v \in Workers : local[v] = << >> => local'[v] = << >>
            BY <1>f, <2>3, <3>1, <4>1 DEF Steal
      <4>. QED BY <1>f, <2>3, <3>1, <4>2 DEF Steal
    <3>2. CASE local[Victim(w)] = << >>
          BY <1>f, <2>3, <3>2 DEF Steal
    <3>. QED BY <3>1, <3>2
  <2>4. CASE PushOwner(w) \/ EndTask(w)
        BY <1>f, <2>4 DEF PushOwner, EndTask
  <2>5. CASE NotifyNotFull(w)
        BY <1>f, <2>5 DEF NotifyNotFull, OneOf, WaitSets
  <2>6. CASE NotifyWorkers(w)
        BY <1>f, <2>6 DEF NotifyWorkers, OneOf, WaitSets, Holding
  <2>7. CASE EnterWait(w) \/ CheckExit(w)
        BY <1>f, <2>7 DEF EnterWait, CheckExit
  <2>8. CASE CheckStealable(w)
        BY <1>f, <2>8 DEF CheckStealable
  <2>9. CASE CheckDrained(w)
        BY <1>f, <2>9 DEF CheckDrained
  <2>. QED BY <1>1, <2>1, <2>2, <2>3, <2>4, <2>5, <2>6, <2>7, <2>8, <2>9 DEF WorkerStep
<1>2. ASSUME NEW c \in Clients, StartSubmit(c) \/ Resume(c)
      PROVE  OwnQueueEmpty'
  <2>1. PICK k, o : InSection(c, k, o) /\ Submit(c, k, o)
        BY <1>2 DEF StartSubmit, Resume
  <2>2. CASE Enqueue(c, k, o) \/ Refuse(c, k, o)
        BY <1>f, <2>1, <2>2 DEF InSection, Enqueue, Refuse, Leave
  <2>3. CASE RunHere(c, k, o)
        BY <1>f, <2>1, <2>3 DEF InSection, RunHere
  <2>4. CASE WaitNotFull(c, k, o)
        BY <1>f, <2>1, <2>4 DEF InSection, WaitNotFull
  <2>. QED BY <2>1, <2>2, <2>3, <2>4 DEF Submit
<1>3. ASSUME NEW c \in Clients, Timeout(c) \/ PostChild(c) \/ EndTask(c)
      PROVE  OwnQueueEmpty'
      BY <1>f, <1>3 DEF Timeout, PostChild, EndTask
<1>4. ASSUME NEW c \in Clients, NotifyWorkers(c)
      PROVE  OwnQueueEmpty'
      BY <1>f, <1>4 DEF NotifyWorkers, OneOf, WaitSets
<1>5. ASSUME NEW t \in Threads, SpuriousWakeup(t)
      PROVE  OwnQueueEmpty'
      BY <1>f, <1>5 DEF SpuriousWakeup
<1>6. CASE DestructorStep
      BY <1>f, <1>6 DEF DestructorStep, SetStopping, NotifyAllWorkers, NotifyAllProducers, Join,
                        WaitSets
<1>7. CASE UNCHANGED vars
      BY <1>f, <1>7 DEF vars
<1>. QED BY <1>1, <1>2, <1>3, <1>4, <1>5, <1>6, <1>7 DEF Next, ClientStep, Finished

\* What a worker saw under the mutex stays true.
LEMMA SeenStep ==
    ASSUME ControlInv, TypeOK', [Next]_vars
    PROVE  SeenUnderMutex'
<1>f. PcFacts /\ SeenUnderMutex /\ WaitSets /\ MutexHeldInWait /\ Free \notin Workers
      BY PlacesOfThreads, ThreadAssumption DEF ControlInv
<1>. USE DEF PcFacts, SeenUnderMutex, Goto, MutexHeldInWait, queueVars
<1>1. ASSUME NEW w \in Workers, WorkerStep(w)
      PROVE  SeenUnderMutex'
  <2>1. CASE PopLocal(w)
        BY <1>f, <2>1 DEF PopLocal
  <2>2. CASE PopGlobal(w)
        BY <1>f, <2>2 DEF PopGlobal
  <2>3. CASE Steal(w)
        BY <1>f, <2>3 DEF Steal
  <2>4. CASE PushOwner(w) \/ EndTask(w)
        BY <1>f, <2>4 DEF PushOwner, EndTask
  <2>5. CASE NotifyNotFull(w)
        BY <1>f, <2>5 DEF NotifyNotFull, OneOf, WaitSets
  <2>6. CASE NotifyWorkers(w)
        BY <1>f, <2>6 DEF NotifyWorkers, OneOf, WaitSets, Holding
  <2>7. CASE EnterWait(w) \/ CheckExit(w)
        BY <1>f, <2>7 DEF EnterWait, CheckExit
  <2>8. CASE CheckStealable(w)
        BY <1>f, <2>8 DEF CheckStealable
  <2>9. CASE CheckDrained(w)
        BY <1>f, <2>9 DEF CheckDrained
  <2>. QED BY <1>1, <2>1, <2>2, <2>3, <2>4, <2>5, <2>6, <2>7, <2>8, <2>9 DEF WorkerStep
<1>2. ASSUME NEW c \in Clients, StartSubmit(c) \/ Resume(c)
      PROVE  SeenUnderMutex'
  <2>1. PICK k, o : InSection(c, k, o) /\ Submit(c, k, o)
        BY <1>2 DEF StartSubmit, Resume
  <2>2. CASE Enqueue(c, k, o) \/ Refuse(c, k, o)
        BY <1>f, <2>1, <2>2 DEF InSection, Enqueue, Refuse, Leave
  <2>3. CASE RunHere(c, k, o)
        BY <1>f, <2>1, <2>3 DEF InSection, RunHere
  <2>4. CASE WaitNotFull(c, k, o)
        BY <1>f, <2>1, <2>4 DEF InSection, WaitNotFull
  <2>. QED BY <2>1, <2>2, <2>3, <2>4 DEF Submit
<1>3. ASSUME NEW c \in Clients, Timeout(c) \/ PostChild(c) \/ EndTask(c)
      PROVE  SeenUnderMutex'
      BY <1>f, <1>3 DEF Timeout, PostChild, EndTask
<1>4. ASSUME NEW c \in Clients, NotifyWorkers(c)
      PROVE  SeenUnderMutex'
      BY <1>f, <1>4 DEF NotifyWorkers, OneOf, WaitSets
<1>5. ASSUME NEW t \in Threads, SpuriousWakeup(t)
      PROVE  SeenUnderMutex'
      BY <1>f, <1>5 DEF SpuriousWakeup
<1>6. CASE DestructorStep
      BY <1>f, <1>6 DEF DestructorStep, SetStopping, NotifyAllWorkers, NotifyAllProducers, Join,
                        WaitSets
<1>7. CASE UNCHANGED vars
      BY <1>f, <1>7 DEF vars
<1>. QED BY <1>1, <1>2, <1>3, <1>4, <1>5, <1>6, <1>7 DEF Next, ClientStep, Finished

\* The destructor joins workers that have returned, for good.
LEMMA DestructorInvStep ==
    ASSUME ControlInv, TypeOK', [Next]_vars
    PROVE  DestructorInv'
<1>f. PcFacts /\ DestructorInv /\ WaitSets
      BY PlacesOfThreads, ThreadAssumption DEF ControlInv
<1>. USE DEF PcFacts, DestructorInv, Goto, queueVars
<1>1. ASSUME NEW w \in Workers, WorkerStep(w)
      PROVE  DestructorInv'
  <2>1. CASE PopLocal(w)
        BY <1>f, <2>1 DEF PopLocal
  <2>2. CASE PopGlobal(w)
        BY <1>f, <2>2 DEF PopGlobal
  <2>3. CASE Steal(w)
        BY <1>f, <2>3 DEF Steal
  <2>4. CASE PushOwner(w) \/ EndTask(w)
        BY <1>f, <2>4 DEF PushOwner, EndTask
  <2>5. CASE NotifyNotFull(w)
        BY <1>f, <2>5 DEF NotifyNotFull, OneOf, WaitSets
  <2>6. CASE NotifyWorkers(w)
        BY <1>f, <2>6 DEF NotifyWorkers, OneOf, WaitSets, Holding
  <2>7. CASE EnterWait(w) \/ CheckExit(w)
        BY <1>f, <2>7 DEF EnterWait, CheckExit
  <2>8. CASE CheckStealable(w)
        BY <1>f, <2>8 DEF CheckStealable
  <2>9. CASE CheckDrained(w)
        BY <1>f, <2>9 DEF CheckDrained
  <2>. QED BY <1>1, <2>1, <2>2, <2>3, <2>4, <2>5, <2>6, <2>7, <2>8, <2>9 DEF WorkerStep
<1>2. ASSUME NEW c \in Clients, StartSubmit(c) \/ Resume(c)
      PROVE  DestructorInv'
  <2>1. PICK k, o : InSection(c, k, o) /\ Submit(c, k, o)
        BY <1>2 DEF StartSubmit, Resume
  <2>2. CASE Enqueue(c, k, o) \/ Refuse(c, k, o)
        BY <1>f, <2>1, <2>2 DEF InSection, Enqueue, Refuse, Leave
  <2>3. CASE RunHere(c, k, o)
        BY <1>f, <2>1, <2>3 DEF InSection, RunHere
  <2>4. CASE WaitNotFull(c, k, o)
        BY <1>f, <2>1, <2>4 DEF InSection, WaitNotFull
  <2>. QED BY <2>1, <2>2, <2>3, <2>4 DEF Submit
<1>3. ASSUME NEW c \in Clients, Timeout(c) \/ PostChild(c) \/ EndTask(c)
      PROVE  DestructorInv'
      BY <1>f, <1>3 DEF Timeout, PostChild, EndTask
<1>4. ASSUME NEW c \in Clients, NotifyWorkers(c)
      PROVE  DestructorInv'
      BY <1>f, <1>4 DEF NotifyWorkers, OneOf, WaitSets
<1>5. ASSUME NEW t \in Threads, SpuriousWakeup(t)
      PROVE  DestructorInv'
      BY <1>f, <1>5 DEF SpuriousWakeup
<1>6. CASE DestructorStep
      BY <1>f, <1>6 DEF DestructorStep, SetStopping, NotifyAllWorkers, NotifyAllProducers, Join,
                        WaitSets
<1>7. CASE UNCHANGED vars
      BY <1>f, <1>7 DEF vars
<1>. QED BY <1>1, <1>2, <1>3, <1>4, <1>5, <1>6, <1>7 DEF Next, ClientStep, Finished

\* What a thread holds still says where it is.
LEMMA HoldingStep ==
    ASSUME ControlInv, TypeOK', [Next]_vars
    PROVE  Holding'
<1>f. /\ PcFacts /\ Holding /\ WaitSets /\ NoTask \notin Task
      /\ cur \in [Threads -> Task \cup {NoTask}]
      BY PlacesOfThreads, TaskAssumption DEF ControlInv, TypeOK
<1>. USE DEF PcFacts, Holding, Goto
<1>1. ASSUME NEW w \in Workers, WorkerStep(w)
      PROVE  Holding'
  <2>1. CASE PopLocal(w)
    <3>1. local[w] # << >> => Head(local[w]) \in Task
          BY Popped DEF ControlInv, TypeOK
    <3>. QED BY <1>f, <2>1, <3>1 DEF PopLocal, Hold
  <2>2. CASE PopGlobal(w)
    <3>1. tasks # << >> => Head(tasks) \in Task
          BY Popped DEF ControlInv, TypeOK
    <3>. QED BY <1>f, <2>2, <3>1 DEF PopGlobal, Hold
  <2>3. CASE Steal(w)
    <3>. DEFINE q == local[Victim(w)]
    <3>1. q # << >> => q[Len(q)] \in Task
          BY Popped, VictimIsWorker DEF ControlInv, TypeOK
    <3>. QED BY <1>f, <2>3, <3>1 DEF Steal, Hold
  <2>4. CASE PushOwner(w) \/ EndTask(w)
        BY <1>f, <2>4 DEF PushOwner, EndTask
  <2>5. CASE NotifyNotFull(w)
        BY <1>f, <2>5 DEF NotifyNotFull, OneOf, WaitSets
  <2>6. CASE NotifyWorkers(w)
        BY <1>f, <2>6 DEF NotifyWorkers, OneOf, WaitSets
  <2>7. CASE EnterWait(w) \/ CheckExit(w)
        BY <1>f, <2>7 DEF EnterWait, CheckExit
  <2>8. CASE CheckStealable(w) \/ CheckDrained(w)
        BY <1>f, <2>8 DEF CheckStealable, CheckDrained
  <2>. QED BY <1>1, <2>1, <2>2, <2>3, <2>4, <2>5, <2>6, <2>7, <2>8 DEF WorkerStep
<1>2. ASSUME NEW c \in Clients, StartSubmit(c) \/ Resume(c)
      PROVE  Holding'
  <2>1. PICK k \in Task, o \in SubmitOps \cup {NoOp} : InSection(c, k, o) /\ Submit(c, k, o)
        BY <1>2, Submission DEF ControlInv
  <2>2. CASE Enqueue(c, k, o) \/ Refuse(c, k, o)
        BY <1>f, <2>1, <2>2 DEF InSection, Enqueue, Refuse, Leave
  <2>3. CASE RunHere(c, k, o)
        BY <1>f, <2>1, <2>3 DEF InSection, RunHere, Hold
  <2>4. CASE WaitNotFull(c, k, o)
        BY <1>f, <2>1, <2>4 DEF InSection, WaitNotFull
  <2>. QED BY <2>1, <2>2, <2>3, <2>4 DEF Submit
<1>3. ASSUME NEW c \in Clients, Timeout(c) \/ PostChild(c) \/ EndTask(c)
      PROVE  Holding'
      BY <1>f, <1>3 DEF Timeout, PostChild, EndTask
<1>4. ASSUME NEW c \in Clients, NotifyWorkers(c)
      PROVE  Holding'
      BY <1>f, <1>4 DEF NotifyWorkers, OneOf, WaitSets
<1>5. ASSUME NEW t \in Threads, SpuriousWakeup(t)
      PROVE  Holding'
      BY <1>f, <1>5 DEF SpuriousWakeup
<1>6. CASE DestructorStep
      BY <1>f, <1>6 DEF DestructorStep, SetStopping, NotifyAllWorkers, NotifyAllProducers, Join,
                        WaitSets
<1>7. CASE UNCHANGED vars
      BY <1>f, <1>7 DEF vars
<1>. QED BY <1>1, <1>2, <1>3, <1>4, <1>5, <1>6, <1>7 DEF Next, ClientStep, Finished

\* Every step keeps who is where.
LEMMA ControlStep ==
    ASSUME ControlInv, [Next]_vars
    PROVE  ControlInv'
<1>1. TypeOK'
      BY TypeStep DEF ControlInv
<1>. QED BY <1>1, MutexStep, WaitSetsStep, OwnQueueStep, SeenStep, DestructorInvStep, HoldingStep
         DEF ControlInv

\* The new pool.
LEMMA ControlInit == ASSUME Init PROVE ControlInv
<1>1. PcType
  <2>1. "popLocal" \in WorkerPCs /\ "idle" \in ClientPCs
        BY DEF WorkerPCs, ClientPCs
  <2>. QED BY <2>1, ThreadAssumption DEF Init, PcType, Threads
<1>2. << >> \in Seq(Task) /\ Len(<< >>) = 0
      OBVIOUS
<1>3. DataType
  <2>1. 0 <= Capacity /\ 0 \in 0 .. WorkerCount
        BY PoolAssumption
  <2>2. /\ local \in [Workers -> Seq(Task)] /\ todo \in [Threads -> Seq(Task)]
        /\ tasks \in Seq(Task) /\ Len(tasks) <= Capacity
        BY <1>2, <2>1 DEF Init
  <2>3. /\ scan \in [Workers -> 0 .. WorkerCount]
        /\ cur \in [Threads -> Task \cup {NoTask}]
        /\ op \in [Clients -> SubmitOps \cup {NoOp}]
        BY <2>1 DEF Init
  <2>4. status \in [Task -> {"new", "accepted", "running", "done", "refused"}]
        BY DEF Init
  <2>. QED BY <2>2, <2>3, <2>4 DEF Init, DataType
<1>4. /\ \A w \in Workers : pc[w] = "popLocal"
      /\ \A c \in Clients : pc[c] = "idle"
      BY ThreadAssumption DEF Init, Threads
<1>5. MutexHeldInWait /\ WaitSets
      BY <1>4, ThreadAssumption DEF Init, MutexHeldInWait, WaitSets
<1>6. OwnQueueEmpty /\ SeenUnderMutex /\ DestructorInv
      BY <1>4 DEF Init, OwnQueueEmpty, SeenUnderMutex, DestructorInv
<1>7. Holding
      BY <1>4, ThreadAssumption DEF Init, Holding, Threads
<1>. QED BY <1>1, <1>3, <1>5, <1>6, <1>7, TypeParts DEF ControlInv

\* Who is where, in every reachable state of any pool.
LEMMA ControlAlways == Spec => []ControlInv
BY ControlInit, ControlStep, PTL DEF Spec

\* A worker returns only from a drained pool (CheckExit, CheckDrained): one
\* that has returned left an empty global queue, which stays empty, and an
\* empty queue of its own.
THEOREM WorkersLeaveADrainedPool == Spec => []ExitOnlyWhenDrained
<1>1. ControlInv => ExitOnlyWhenDrained
      BY DEF ControlInv, ExitOnlyWhenDrained, SeenUnderMutex, OwnQueueEmpty
<1>. QED BY <1>1, ControlAlways, PTL

-----------------------------------------------------------------------------
(***************************************************************************)
(* Wakeups: one notify_one for a task, and one for a slot.                 *)
(***************************************************************************)

\* There are finitely many threads.
LEMMA FiniteThreads == IsFiniteSet(Threads)
<1>1. IsFiniteSet(Workers)
      BY PoolAssumption, FS_Interval DEF Workers
<1>. QED BY <1>1, ThreadAssumption, FS_Union DEF Threads

\* Counting threads, with one more, one fewer, or one in place of another.
LEMMA CountingThreads ==
    ASSUME NEW S \in SUBSET Threads
    PROVE  /\ Cardinality(S) \in Nat
           /\ \A x \in Threads \ S : Cardinality(S \cup {x}) = Cardinality(S) + 1
           /\ \A x : Cardinality(S) <= Cardinality(S \ {x}) + 1
           /\ \A R \in SUBSET Threads : S \subseteq R => Cardinality(S) <= Cardinality(R)
<1>1. IsFiniteSet(S) /\ Cardinality(S) \in Nat
      BY FiniteThreads, FS_Subset, FS_CardinalityType
<1>2. \A x \in Threads \ S : Cardinality(S \cup {x}) = Cardinality(S) + 1
      BY <1>1, FS_AddElement
<1>3. ASSUME NEW x
      PROVE  Cardinality(S) <= Cardinality(S \ {x}) + 1
  <2>1. Cardinality(S \ {x}) = IF x \in S THEN Cardinality(S) - 1 ELSE Cardinality(S)
        BY <1>1, FS_RemoveElement
  <2>. QED BY <1>1, <2>1
<1>4. ASSUME NEW R \in SUBSET Threads, S \subseteq R
      PROVE  Cardinality(S) <= Cardinality(R)
      BY <1>4, FiniteThreads, FS_Subset
<1>. QED BY <1>1, <1>2, <1>3, <1>4

\* A set of signals that keeps, gains, loses one or hands one on.
LEMMA SignalMoves ==
    ASSUME NEW S \in SUBSET Threads, NEW R \in SUBSET Threads
    PROVE  /\ S \subseteq R => Cardinality(S) <= Cardinality(R)
           /\ \A t \in Threads : t \notin S /\ S \cup {t} \subseteq R
                 => Cardinality(S) + 1 <= Cardinality(R)
           /\ \A t : S \ {t} \subseteq R => Cardinality(S) <= Cardinality(R) + 1
           /\ \A t, u \in Threads : u \notin S /\ (S \ {t}) \cup {u} \subseteq R
                 => Cardinality(S) <= Cardinality(R)
<1>1. Cardinality(S) \in Nat /\ Cardinality(R) \in Nat
      BY CountingThreads
<1>2. S \subseteq R => Cardinality(S) <= Cardinality(R)
      BY CountingThreads
<1>3. ASSUME NEW t \in Threads, t \notin S, S \cup {t} \subseteq R
      PROVE  Cardinality(S) + 1 <= Cardinality(R)
  <2>1. S \cup {t} \in SUBSET Threads
        OBVIOUS
  <2>2. Cardinality(S \cup {t}) <= Cardinality(R)
        BY <1>3, <2>1, CountingThreads
  <2>. QED BY <1>1, <1>3, <2>2, CountingThreads
<1>4. ASSUME NEW t, S \ {t} \subseteq R
      PROVE  Cardinality(S) <= Cardinality(R) + 1
  <2>1. S \ {t} \in SUBSET Threads
        OBVIOUS
  <2>2. Cardinality(S \ {t}) <= Cardinality(R) /\ Cardinality(S \ {t}) \in Nat
        BY <1>4, <2>1, CountingThreads
  <2>3. Cardinality(S) <= Cardinality(S \ {t}) + 1
        BY CountingThreads
  <2>. QED BY <1>1, <2>2, <2>3
<1>5. ASSUME NEW t \in Threads, NEW u \in Threads, u \notin S, (S \ {t}) \cup {u} \subseteq R
      PROVE  Cardinality(S) <= Cardinality(R)
  <2>1. S \ {t} \in SUBSET Threads /\ (S \ {t}) \cup {u} \in SUBSET Threads /\ u \in Threads \ (S \ {t})
        BY <1>5
  <2>2. Cardinality((S \ {t}) \cup {u}) <= Cardinality(R)
        BY <1>5, <2>1, CountingThreads
  <2>3. Cardinality((S \ {t}) \cup {u}) = Cardinality(S \ {t}) + 1 /\ Cardinality(S \ {t}) \in Nat
        BY <2>1, CountingThreads
  <2>4. Cardinality(S) <= Cardinality(S \ {t}) + 1
        BY CountingThreads
  <2>. QED BY <1>1, <2>2, <2>3, <2>4
<1>. QED BY <1>2, <1>3, <1>4, <1>5

TaskPart == notEmpty # {} => Len(tasks) <= Cardinality(TaskSignals)
SlotPart == notFull # {} => Capacity - Len(tasks) <= Cardinality(SlotSignals)

\* Signals come from threads.
LEMMA SignalSets ==
    /\ TaskSignals \in SUBSET Threads /\ TaskSignals' \in SUBSET Threads
    /\ SlotSignals \in SUBSET Threads /\ SlotSignals' \in SUBSET Threads
<1>1. TaskSignals \in SUBSET Threads /\ SlotSignals \in SUBSET Threads
      BY DEF TaskSignals, SlotSignals
<1>2. TaskSignals' \in SUBSET Threads /\ SlotSignals' \in SUBSET Threads
      BY DEF TaskSignals, SlotSignals
<1>. QED BY <1>1, <1>2

\* The numbers of tasks and of signals before and after a step.
LEMMA Numbers ==
    ASSUME TypeOK, TypeOK'
    PROVE  /\ Len(tasks) \in Nat /\ Len(tasks') \in Nat /\ Capacity \in Nat
           /\ Cardinality(TaskSignals) \in Nat /\ Cardinality(TaskSignals') \in Nat
           /\ Cardinality(SlotSignals) \in Nat /\ Cardinality(SlotSignals') \in Nat
<1>1. Len(tasks) \in Nat /\ Len(tasks') \in Nat
      BY LenProperties DEF TypeOK
<1>. QED BY <1>1, SignalSets, CountingThreads, PoolAssumption

\* A step that takes no signal away and adds neither a task nor a sleeper.
LEMMA TaskSignalsKept ==
    ASSUME TypeOK, TypeOK', TaskPart, notEmpty' \subseteq notEmpty,
           TaskSignals \subseteq TaskSignals', Len(tasks') <= Len(tasks)
    PROVE  TaskPart'
<1>1. Cardinality(TaskSignals) <= Cardinality(TaskSignals')
      BY SignalSets, SignalMoves
<1>. QED BY <1>1, Numbers DEF TaskPart

\* A step that leaves the global queue alone and takes no signal from a free
\* slot keeps the second half.
LEMMA SlotSignalsKept ==
    ASSUME TypeOK, TypeOK', SlotPart, notFull' \subseteq notFull,
           SlotSignals \subseteq SlotSignals', Len(tasks) <= Len(tasks')
    PROVE  SlotPart'
<1>1. Cardinality(SlotSignals) <= Cardinality(SlotSignals')
      BY SignalSets, SignalMoves
<1>. QED BY <1>1, Numbers DEF SlotPart

\* With no task there is nothing to wake a worker for, and with no slot
\* nothing to wake a client for.
LEMMA NothingToSignal ==
    ASSUME TypeOK, TypeOK'
    PROVE  /\ tasks' = << >> => TaskPart'
           /\ Len(tasks') = Capacity => SlotPart'
BY Numbers DEF TaskPart, SlotPart

\* A task that comes with its own signal, and a slot taken by one that was
\* signalled.
LEMMA TaskAdded ==
    ASSUME TypeOK, TypeOK', NEW c \in Clients, NEW k, c \notin Workers,
           tasks' = Append(tasks, k), pc' = [pc EXCEPT ![c] = "notifyNotEmpty"] ,
           DOMAIN pc = Threads, pc[c] # "notifyNotEmpty", UNCHANGED <<local, notEmpty, notFull>>
    PROVE  /\ TaskPart => TaskPart'
           /\ SlotPart => SlotPart'
<1>1. Len(tasks') = Len(tasks) + 1 /\ c \in Threads /\ Threads = Workers \cup Clients
      BY DEF Threads, TypeOK
<1>2. Cardinality(TaskSignals) + 1 <= Cardinality(TaskSignals')
  <2>1. c \notin TaskSignals /\ TaskSignals \cup {c} \subseteq TaskSignals'
        BY <1>1 DEF TaskSignals
  <2>. QED BY <1>1, <2>1, SignalSets, SignalMoves
<1>3. Cardinality(SlotSignals) <= Cardinality(SlotSignals') + 1
  <2>1. SlotSignals \ {c} \subseteq SlotSignals'
        BY <1>1 DEF SlotSignals
  <2>. QED BY <2>1, SignalSets, SignalMoves
<1>. QED BY <1>1, <1>2, <1>3, Numbers DEF TaskPart, SlotPart

\* A worker's steps lose no wakeup.
LEMMA WorkerWakeups ==
    ASSUME ControlInv, ControlInv', ~stopping, TaskPart, SlotPart,
           NEW w \in Workers, WorkerStep(w)
    PROVE  TaskPart' /\ SlotPart'
<1>f. /\ PcFacts /\ TypeOK /\ TypeOK' /\ WaitSets /\ SeenUnderMutex /\ OwnQueueEmpty /\ w \in Threads
      /\ w \notin Clients /\ Len(tasks) \in Nat /\ local \in [Workers -> Seq(Task)] /\ Holding
      BY PlacesOfThreads, Numbers DEF ControlInv, PcFacts, TypeOK
<1>. USE DEF PcFacts, Goto, queueVars
\* It goes on and neither gives nor takes a signal.
<1>k. ASSUME UNCHANGED <<tasks, notEmpty, notFull>>, TaskSignals \subseteq TaskSignals',
             SlotSignals \subseteq SlotSignals'
      PROVE  TaskPart' /\ SlotPart'
      BY <1>f, <1>k, TaskSignalsKept, SlotSignalsKept
<1>n. \A label : pc[w] # "notifyNotFull" /\ Goto(w, label) => SlotSignals \subseteq SlotSignals'
      BY <1>f DEF SlotSignals
<1>1. CASE PopLocal(w)
  <2>1. TaskSignals \subseteq TaskSignals' /\ SlotSignals \subseteq SlotSignals'
        BY <1>f, <1>1 DEF PopLocal, TaskSignals, SlotSignals
  <2>. QED BY <1>1, <2>1, <1>k DEF PopLocal
<1>2. CASE PopGlobal(w)
  <2>1. CASE tasks = << >>
    <3>1. SlotSignals \subseteq SlotSignals'
          BY <1>f, <1>2, <2>1, <1>n DEF PopGlobal
    <3>. QED BY <1>f, <1>2, <2>1, <3>1, NothingToSignal, SlotSignalsKept DEF PopGlobal
  <2>2. CASE tasks # << >>
    <3>1. Len(tasks') = Len(tasks) - 1 /\ UNCHANGED <<local, notEmpty, notFull>>
          BY <1>f, <1>2, <2>2, Popped DEF PopGlobal, TypeOK
    <3>2. Cardinality(TaskSignals) <= Cardinality(TaskSignals') + 1
      <4>1. TaskSignals \ {w} \subseteq TaskSignals'
            BY <1>f, <1>2, <2>2 DEF PopGlobal, TaskSignals
      <4>. QED BY <4>1, SignalSets, SignalMoves
    <3>3. Cardinality(SlotSignals) + 1 <= Cardinality(SlotSignals')
      <4>1. w \notin SlotSignals /\ SlotSignals \cup {w} \subseteq SlotSignals'
            BY <1>f, <1>2, <2>2 DEF PopGlobal, SlotSignals
      <4>. QED BY <1>f, <4>1, SignalSets, SignalMoves
    <3>. QED BY <1>f, <3>1, <3>2, <3>3, Numbers DEF TaskPart, SlotPart
  <2>. QED BY <2>1, <2>2
<1>3. CASE NotifyNotFull(w)
  <2>1. PICK W \in OneOf(notFull) :
           /\ notFull' = notFull \ W
           /\ pc' = [t \in Threads |-> IF t = w THEN "run" ELSE IF t \in W THEN "woken" ELSE pc[t]]
        BY <1>3 DEF NotifyNotFull
  <2>2. UNCHANGED <<tasks, local, notEmpty>> /\ pc[w] = "notifyNotFull" /\ W \subseteq Clients
        BY <1>f, <1>3, <2>1 DEF NotifyNotFull, OneOf, WaitSets
  <2>u. /\ pc'[w] = "run" /\ \A t \in W : t # w => pc'[t] = "woken"
        /\ \A t \in Threads \ ({w} \cup W) : pc'[t] = pc[t]
        BY <1>f, <2>1, <2>2
  <2>3. TaskPart'
    <3>1. \A t \in TaskSignals : t \in TaskSignals'
      <4>1. TAKE t \in TaskSignals
      <4>2. t \in Threads /\ t # w
            BY <1>f, <2>2 DEF TaskSignals
      <4>3. CASE t \in W
            BY <1>f, <2>1, <2>2, <4>2, <4>3 DEF TaskSignals, OneOf, WaitSets
      <4>4. CASE t \notin W
        <5>1. pc'[t] = pc[t] /\ local' = local
              BY <2>2, <2>u, <4>2, <4>4
        <5>. QED BY <4>2, <5>1 DEF TaskSignals
      <4>. QED BY <4>3, <4>4
    <3>. QED BY <1>f, <2>2, <3>1, TaskSignalsKept
  <2>4. CASE notFull = {}
    <3>1. notFull' = {}
          BY <2>1, <2>4
    <3>. QED BY <2>3, <3>1 DEF SlotPart
  <2>5. CASE notFull # {}
    <3>1. PICK c \in Clients : W = {c} /\ pc[c] = "waiting"
          BY <1>f, <2>1, <2>5 DEF OneOf, WaitSets
    <3>2. c \notin SlotSignals /\ (SlotSignals \ {w}) \cup {c} \subseteq SlotSignals'
          BY <1>f, <2>1, <3>1 DEF SlotSignals
    <3>3. Cardinality(SlotSignals) <= Cardinality(SlotSignals')
          BY <1>f, <3>2, SignalSets, SignalMoves
    <3>4. Capacity - Len(tasks) <= Cardinality(SlotSignals) /\ tasks' = tasks
          BY <2>2, <2>5 DEF SlotPart
    <3>. QED BY <1>f, <2>3, <3>3, <3>4, Numbers DEF SlotPart
  <2>. QED BY <2>3, <2>4, <2>5
<1>4. CASE Steal(w)
  <2>1. \A v \in Workers : local[v] = << >> => local'[v] = << >>
    <3>1. Victim(w) \in Workers
          BY <1>f, VictimIsWorker
    <3>. QED BY <1>f, <1>4, <3>1 DEF Steal
  <2>2. TaskSignals \subseteq TaskSignals' /\ SlotSignals \subseteq SlotSignals'
        BY <1>f, <1>4, <2>1 DEF Steal, TaskSignals, SlotSignals
  <2>. QED BY <1>4, <2>2, <1>k DEF Steal
<1>5. CASE EnterWait(w)
  <2>1. SlotSignals \subseteq SlotSignals'
        BY <1>f, <1>5, <1>n DEF EnterWait
  <2>2. CASE tasks = << >>
        BY <1>f, <1>5, <2>1, <2>2, NothingToSignal, SlotSignalsKept DEF EnterWait
  <2>3. CASE tasks # << >>
    <3>1. TaskSignals \subseteq TaskSignals'
          BY <1>f, <1>5, <2>3 DEF EnterWait, TaskSignals
    <3>. QED BY <1>5, <2>1, <3>1, <1>k DEF EnterWait
  <2>. QED BY <2>2, <2>3
<1>6. CASE CheckStealable(w)
  <2>1. SlotSignals \subseteq SlotSignals'
        BY <1>f, <1>6 DEF CheckStealable, SlotSignals
  <2>2. tasks' = << >> /\ UNCHANGED <<tasks, notFull>>
        BY <1>f, <1>6 DEF CheckStealable, SeenUnderMutex
  <2>. QED BY <1>f, <2>1, <2>2, NothingToSignal, SlotSignalsKept
<1>7. CASE CheckExit(w)
  <2>1. TaskSignals \subseteq TaskSignals' /\ SlotSignals \subseteq SlotSignals'
        BY <1>f, <1>7 DEF CheckExit, TaskSignals, SlotSignals, OwnQueueEmpty
  <2>. QED BY <1>7, <2>1, <1>k DEF CheckExit
<1>8. CASE CheckDrained(w)
      BY <1>f, <1>8 DEF CheckDrained, SeenUnderMutex
<1>9. CASE PushOwner(w)
  <2>1. TaskSignals \subseteq TaskSignals' /\ SlotSignals \subseteq SlotSignals'
        BY <1>f, <1>9 DEF PushOwner, TaskSignals, SlotSignals
  <2>. QED BY <1>9, <2>1, <1>k DEF PushOwner
<1>10. CASE EndTask(w)
  <2>1. TaskSignals \subseteq TaskSignals' /\ SlotSignals \subseteq SlotSignals'
        BY <1>f, <1>10 DEF EndTask, TaskSignals, SlotSignals
  <2>. QED BY <1>10, <2>1, <1>k DEF EndTask
<1>11. CASE NotifyWorkers(w)
  <2>1. /\ TaskSignals \subseteq TaskSignals' /\ SlotSignals \subseteq SlotSignals'
        /\ notEmpty' \subseteq notEmpty /\ UNCHANGED <<tasks, notFull>>
        BY <1>f, <1>11 DEF NotifyWorkers, TaskSignals, SlotSignals, OneOf, WaitSets
  <2>. QED BY <1>f, <2>1, TaskSignalsKept, SlotSignalsKept
<1>. QED BY <1>1, <1>2, <1>3, <1>4, <1>5, <1>6, <1>7, <1>8, <1>9, <1>10, <1>11 DEF WorkerStep

\* A submission loses no wakeup: what it adds to the queue comes with its own
\* notification, and it goes to sleep only when the queue is full.
LEMMA SubmitWakeups ==
    ASSUME ControlInv, ControlInv', ~stopping, TaskPart, SlotPart,
           NEW c \in Clients, NEW k \in Task, NEW o, InSection(c, k, o), Submit(c, k, o)
    PROVE  TaskPart' /\ SlotPart'
<1>f. /\ PcFacts /\ TypeOK /\ TypeOK' /\ c \in Threads /\ c \notin Workers
      /\ pc[c] \in {"idle", "woken", "expired"} /\ Len(tasks) \in Nat
      BY PlacesOfThreads, Numbers DEF ControlInv, PcFacts, InSection
<1>. USE DEF PcFacts, Goto, queueVars
<1>1. CASE Enqueue(c, k, o)
      BY <1>f, <1>1, TaskAdded DEF Enqueue, Leave
<1>t. ASSUME UNCHANGED <<tasks, local>>, notEmpty' = notEmpty, NEW label, Goto(c, label), Full
      PROVE  TaskPart' /\ SlotPart'
  <2>1. TaskSignals \subseteq TaskSignals'
        BY <1>f, <1>t DEF TaskSignals
  <2>. QED BY <1>f, <1>t, <2>1, TaskSignalsKept, NothingToSignal DEF Full
<1>2. CASE Refuse(c, k, o)
      BY <1>t, <1>2 DEF Refuse, Leave
<1>3. CASE RunHere(c, k, o)
      BY <1>t, <1>3 DEF RunHere
<1>4. CASE WaitNotFull(c, k, o)
      BY <1>t, <1>4 DEF WaitNotFull
<1>. QED BY <1>1, <1>2, <1>3, <1>4 DEF Submit

\* Nor do the other steps of clients.
LEMMA ClientWakeups ==
    ASSUME ControlInv, ControlInv', ~stopping, TaskPart, SlotPart,
           NEW c \in Clients, Timeout(c) \/ PostChild(c) \/ EndTask(c) \/ NotifyWorkers(c)
    PROVE  TaskPart' /\ SlotPart'
<1>f. /\ PcFacts /\ TypeOK /\ TypeOK' /\ WaitSets /\ c \in Threads /\ c \notin Workers
      /\ Len(tasks) \in Nat
      BY PlacesOfThreads, Numbers DEF ControlInv, PcFacts
<1>. USE DEF PcFacts, Goto, queueVars
<1>1. CASE Timeout(c)
  <2>1. /\ TaskSignals \subseteq TaskSignals' /\ SlotSignals \subseteq SlotSignals'
        /\ notFull' \subseteq notFull /\ UNCHANGED <<tasks, notEmpty>>
        BY <1>f, <1>1 DEF Timeout, TaskSignals, SlotSignals
  <2>. QED BY <1>f, <2>1, TaskSignalsKept, SlotSignalsKept
<1>2. CASE PostChild(c)
  <2>1. CASE ~stopping /\ ~Full
        BY <1>f, <1>2, <2>1, TaskAdded DEF PostChild
  <2>2. CASE stopping \/ Full
    <3>1. TaskSignals \subseteq TaskSignals' /\ UNCHANGED <<tasks, notEmpty>>
          BY <1>f, <1>2, <2>2 DEF PostChild, TaskSignals
    <3>. QED BY <1>f, <2>2, <3>1, TaskSignalsKept, NothingToSignal DEF Full
  <2>. QED BY <2>1, <2>2
<1>3. CASE EndTask(c)
  <2>1. /\ TaskSignals \subseteq TaskSignals' /\ SlotSignals \subseteq SlotSignals'
        /\ UNCHANGED <<tasks, notEmpty, notFull>>
        BY <1>f, <1>3 DEF EndTask, TaskSignals, SlotSignals
  <2>. QED BY <1>f, <2>1, TaskSignalsKept, SlotSignalsKept
<1>4. CASE NotifyWorkers(c)
  <2>1. PICK W \in OneOf(notEmpty) :
           /\ notEmpty' = notEmpty \ W
           /\ pc' = [u \in Threads |-> IF u = c THEN IF cur[c] = NoTask THEN "idle" ELSE "run"
                                       ELSE IF u \in W THEN "woken" ELSE pc[u]]
        BY <1>4 DEF NotifyWorkers
  <2>2. /\ UNCHANGED <<tasks, local, notFull>> /\ pc[c] = "notifyNotEmpty" /\ W \subseteq Workers
        /\ \A w \in W : pc[w] = "waiting"
        BY <1>f, <1>4, <2>1 DEF NotifyWorkers, OneOf, WaitSets
  <2>3. SlotPart'
    <3>1. SlotSignals \subseteq SlotSignals'
          BY <1>f, <2>1, <2>2 DEF SlotSignals
    <3>. QED BY <1>f, <2>2, <3>1, SlotSignalsKept
  <2>4. CASE notEmpty = {}
    <3>1. notEmpty' = {}
          BY <2>1, <2>4
    <3>. QED BY <2>3, <3>1 DEF TaskPart
  <2>5. CASE notEmpty # {}
    <3>1. PICK w \in Workers : W = {w} /\ pc[w] = "waiting"
          BY <1>f, <2>1, <2>5 DEF OneOf, WaitSets
    <3>2. w \notin TaskSignals /\ (TaskSignals \ {c}) \cup {w} \subseteq TaskSignals'
          BY <1>f, <2>1, <2>2, <3>1 DEF TaskSignals
    <3>3. Cardinality(TaskSignals) <= Cardinality(TaskSignals')
          BY <1>f, <3>2, SignalSets, SignalMoves
    <3>4. Len(tasks) <= Cardinality(TaskSignals) /\ tasks' = tasks
          BY <2>2, <2>5 DEF TaskPart
    <3>. QED BY <1>f, <2>3, <3>3, <3>4, Numbers DEF TaskPart
  <2>. QED BY <2>4, <2>5
<1>. QED BY <1>1, <1>2, <1>3, <1>4

\* Every step keeps a signal for every task and every slot.
LEMMA WakeupStep ==
    ASSUME ControlInv, ControlInv', NoLostWakeup, [Next]_vars
    PROVE  NoLostWakeup'
<1>. SUFFICES ASSUME ~stopping'
              PROVE  TaskPart' /\ SlotPart'
      BY DEF NoLostWakeup, TaskPart, SlotPart
<1>1. ~stopping
  <2>1. [Next]_vars => (stopping' = stopping \/ stopping')
        BY DEF Next, WorkerStep, ClientStep, DestructorStep, Finished, vars, queueVars,
               PopLocal, PopGlobal, NotifyNotFull, Steal, EnterWait, CheckStealable, CheckExit,
               CheckDrained, PushOwner, EndTask, NotifyWorkers, StartSubmit, Resume, Submit,
               Enqueue, Refuse, RunHere, WaitNotFull, Timeout, PostChild, SpuriousWakeup,
               SetStopping, NotifyAllWorkers, NotifyAllProducers, Join
  <2>. QED BY <2>1
<1>f. /\ PcFacts /\ TypeOK /\ TypeOK' /\ TaskPart /\ SlotPart /\ Len(tasks) \in Nat
      BY <1>1, PlacesOfThreads, Numbers DEF ControlInv, NoLostWakeup, TaskPart, SlotPart
<1>2. ASSUME NEW w \in Workers, WorkerStep(w)
      PROVE  TaskPart' /\ SlotPart'
      BY <1>1, <1>f, <1>2, WorkerWakeups
<1>3. ASSUME NEW c \in Clients, StartSubmit(c) \/ Resume(c)
      PROVE  TaskPart' /\ SlotPart'
      BY <1>1, <1>f, <1>3, Submission, SubmitWakeups DEF ControlInv
<1>4. ASSUME NEW c \in Clients, Timeout(c) \/ PostChild(c) \/ EndTask(c) \/ NotifyWorkers(c)
      PROVE  TaskPart' /\ SlotPart'
      BY <1>1, <1>f, <1>4, ClientWakeups
<1>5. ASSUME NEW t \in Threads, SpuriousWakeup(t)
      PROVE  TaskPart' /\ SlotPart'
  <2>1. /\ TaskSignals \subseteq TaskSignals' /\ SlotSignals \subseteq SlotSignals'
        /\ notEmpty' \subseteq notEmpty /\ notFull' \subseteq notFull /\ tasks' = tasks
        BY <1>f, <1>5 DEF SpuriousWakeup, PcFacts, Goto, queueVars, TaskSignals, SlotSignals
  <2>. QED BY <1>f, <2>1, TaskSignalsKept, SlotSignalsKept
<1>6. CASE DestructorStep
  <2>1. dtor = "live"
        BY <1>1 DEF ControlInv, DestructorInv
  <2>. QED BY <1>6, <2>1 DEF DestructorStep, SetStopping, NotifyAllWorkers, NotifyAllProducers, Join
<1>7. CASE UNCHANGED vars
      BY <1>f, <1>7 DEF vars, TaskPart, SlotPart, TaskSignals, SlotSignals
<1>. QED BY <1>2, <1>3, <1>4, <1>5, <1>6, <1>7 DEF Next, ClientStep, Finished

\* One notify_one for a task (NotifyWorkers) and one for a slot that becomes
\* free (NotifyNotFull) are enough, although workers also wait for local work
\* on the same condition variable.
THEOREM NoWakeupIsLost == Spec => []NoLostWakeup
<1>1. Init => NoLostWakeup
      BY DEF Init, NoLostWakeup
<1>2. ControlInv /\ ControlInv' /\ NoLostWakeup /\ [Next]_vars => NoLostWakeup'
      BY WakeupStep
<1>. QED BY <1>1, <1>2, ControlAlways, PTL DEF Spec

-----------------------------------------------------------------------------
(***************************************************************************)
(* Where the tasks are.                                                    *)
(***************************************************************************)

\* What somebody posts is no root, and nobody else posts it.
LEMMA PostedFacts ==
    /\ \A k, x \in Task : Posts(k, x) => x \notin Roots
    /\ \A k, m, x \in Task : Posts(k, x) /\ Posts(m, x) => k = m
    /\ \A k \in Task : /\ Children[k] \in Seq(Task)
                       /\ \A i \in DOMAIN Children[k] : Children[k][i] \in Task /\ Posts(k, Children[k][i])
                       /\ \A i, j \in DOMAIN Children[k] : Children[k][i] = Children[k][j] => i = j
<1>1. ASSUME NEW k \in Task
      PROVE  /\ Children[k] \in Seq(Task)
             /\ \A i \in DOMAIN Children[k] : Children[k][i] \in Task \ Roots
  <2>1. Children[k] \in Seq(Task \ Roots) /\ Task \ Roots \subseteq Task
        BY TaskAssumption
  <2>2. Children[k] \in Seq(Task)
        BY <2>1, SeqMonotonic
  <2>. QED BY <2>1, <2>2, ElementOfSeq, LenProperties
<1>. QED BY <1>1, TaskAssumption DEF Posts

\* The local queues, by position.
LEMMA QueueDomains ==
    ASSUME TypeOK
    PROVE  /\ Len(tasks) \in Nat /\ DOMAIN tasks = 1 .. Len(tasks)
           /\ \A i \in DOMAIN tasks : tasks[i] \in Task
           /\ \A w \in Workers : /\ Len(local[w]) \in Nat /\ DOMAIN local[w] = 1 .. Len(local[w])
                                 /\ \A i \in DOMAIN local[w] : local[w][i] \in Task
<1>1. tasks \in Seq(Task) /\ \A w \in Workers : local[w] \in Seq(Task)
      BY DEF TypeOK
<1>. QED BY <1>1, LenProperties, ElementOfSeq

\* A task that leaves position p of a local queue is accepted until then, and
\* in no queue afterwards.
LEMMA RemoveLocal ==
    ASSUME TypeOK, TypeOK', Queued, QueuedOnce, NEW v \in Workers, NEW p \in 1 .. Len(local[v]),
           Len(local'[v]) = Len(local[v]) - 1,
           \A i \in 1 .. Len(local[v]) - 1 : local'[v][i] = local[v][IF i < p THEN i ELSE i + 1],
           \A w \in Workers \ {v} : local'[w] = local[w],
           tasks' = tasks, status' = [status EXCEPT ![local[v][p]] = "running"]
    PROVE  status[local[v][p]] = "accepted" /\ Queued' /\ QueuedOnce'
<1>. DEFINE k == local[v][p]
             old(i) == IF i < p THEN i ELSE i + 1
<1>1. /\ Len(local[v]) \in Nat /\ DOMAIN local[v] = 1 .. Len(local[v])
      /\ DOMAIN local'[v] = 1 .. Len(local[v]) - 1 /\ k \in Task
      /\ status \in [Task -> {"new", "accepted", "running", "done", "refused"}]
  <2>1. TypeOK' => DOMAIN local'[v] = 1 .. Len(local'[v])
    <3>1. TypeOK' => local'[v] \in Seq(Task)
          BY DEF TypeOK
    <3>. QED BY <3>1, LenProperties
  <2>. QED BY <2>1, QueueDomains DEF TypeOK
<1>2. \A i \in DOMAIN local'[v] : /\ old(i) \in DOMAIN local[v] /\ old(i) # p
                                  /\ local'[v][i] = local[v][old(i)]
      BY <1>1
<1>3. \A i, j \in DOMAIN local'[v] : old(i) = old(j) => i = j
      BY <1>1
<1>4. \A j \in DOMAIN local[v] : j # p => \E i \in DOMAIN local'[v] : old(i) = j
  <2>1. TAKE j \in DOMAIN local[v]
  <2>2. CASE j < p
    <3>1. j \in DOMAIN local'[v] /\ old(j) = j
          BY <1>1, <2>2
    <3>. QED BY <3>1
  <2>3. CASE j > p
    <3>1. j - 1 \in DOMAIN local'[v] /\ old(j - 1) = j
          BY <1>1, <2>3
    <3>. QED BY <3>1
  <2>. QED BY <1>1, <2>2, <2>3
<1>. HIDE DEF old
<1>5. status[k] = "accepted"
      BY <1>1 DEF Queued
<1>6. \A w \in Workers : \A i \in DOMAIN local'[w] : local'[w][i] # k /\ status[local'[w][i]] = "accepted"
  <2>1. TAKE w \in Workers
  <2>2. TAKE i \in DOMAIN local'[w]
  <2>3. CASE w = v
    <3>1. old(i) \in DOMAIN local[v] /\ old(i) # p /\ local'[v][i] = local[v][old(i)]
          BY <1>2, <2>3
    <3>2. local[v][old(i)] # local[v][p]
          BY <1>1, <3>1 DEF QueuedOnce
    <3>3. status[local[v][old(i)]] = "accepted"
          BY <3>1 DEF Queued
    <3>. QED BY <2>3, <3>1, <3>2, <3>3
  <2>4. CASE w # v
    <3>1. local'[w][i] = local[w][i] /\ i \in DOMAIN local[w]
          BY <2>4
    <3>. QED BY <1>1, <2>4, <3>1 DEF Queued, QueuedOnce
  <2>. QED BY <2>3, <2>4
<1>7. \A i \in DOMAIN tasks : tasks[i] # k
      BY <1>1 DEF QueuedOnce
<1>. HIDE DEF k
<1>s. status' = [status EXCEPT ![k] = "running"]
      BY DEF k
<1>8. Queued'
  <2>1. \A i \in DOMAIN tasks' : status'[tasks'[i]] = "accepted"
        BY <1>1, <1>7, <1>s, QueueDomains DEF Queued
  <2>2. \A w \in Workers : \A i \in DOMAIN local'[w] : status'[local'[w][i]] = "accepted"
    <3>1. TAKE w \in Workers
    <3>2. TAKE i \in DOMAIN local'[w]
    <3>3. local'[w][i] \in Task
      <4>1. CASE w = v
            BY <1>2, <4>1, QueueDomains
      <4>2. CASE w # v
            BY <4>2, QueueDomains
      <4>. QED BY <4>1, <4>2
    <3>. QED BY <1>1, <1>6, <1>s, <3>3
  <2>3. ASSUME NEW x \in Task, status'[x] = "accepted"
        PROVE  \/ \E i \in DOMAIN tasks' : tasks'[i] = x
               \/ \E w \in Workers : \E i \in DOMAIN local'[w] : local'[w][i] = x
    <3>1. status[x] = "accepted" /\ x # k
          BY <1>1, <1>s, <2>3
    <3>2. CASE \E i \in DOMAIN tasks : tasks[i] = x
          BY <3>2
    <3>3. ASSUME NEW w \in Workers, NEW j \in DOMAIN local[w], local[w][j] = x
          PROVE  \E i \in DOMAIN local'[w] : local'[w][i] = x
      <4>1. CASE w # v
            BY <3>3, <4>1
      <4>2. CASE w = v
        <5>1. j # p
              BY <3>1, <3>3, <4>2 DEF k
        <5>. QED BY <1>2, <1>4, <3>3, <4>2, <5>1
      <4>. QED BY <4>1, <4>2
    <3>. QED BY <3>1, <3>2, <3>3 DEF Queued
  <2>. QED BY <2>1, <2>2, <2>3 DEF Queued
<1>9. QueuedOnce'
  <2>1. ASSUME NEW u \in Workers, NEW w \in Workers,
               NEW i \in DOMAIN local'[u], NEW j \in DOMAIN local'[w], local'[u][i] = local'[w][j]
        PROVE  u = w /\ i = j
    <3>1. CASE u = v /\ w = v
          BY <1>2, <1>3, <2>1, <3>1 DEF QueuedOnce
    <3>2. CASE u # v /\ w # v
          BY <2>1, <3>2 DEF QueuedOnce
    <3>3. CASE u = v /\ w # v
          BY <1>2, <2>1, <3>3 DEF QueuedOnce
    <3>4. CASE u # v /\ w = v
          BY <1>2, <2>1, <3>4 DEF QueuedOnce
    <3>. QED BY <3>1, <3>2, <3>3, <3>4
  <2>2. ASSUME NEW w \in Workers, NEW i \in DOMAIN tasks, NEW j \in DOMAIN local'[w]
        PROVE  tasks[i] # local'[w][j]
    <3>1. CASE w = v
          BY <1>2, <3>1 DEF QueuedOnce
    <3>2. CASE w # v
          BY <3>2 DEF QueuedOnce
    <3>. QED BY <3>1, <3>2
  <2>. QED BY <2>1, <2>2 DEF QueuedOnce
<1>. QED BY <1>5, <1>8, <1>9 DEF k

\* So is the one that leaves the front of the global queue.
LEMMA RemoveGlobal ==
    ASSUME TypeOK, Queued, QueuedOnce, tasks # << >>,
           tasks' = Tail(tasks), local' = local, status' = [status EXCEPT ![tasks[1]] = "running"]
    PROVE  status[tasks[1]] = "accepted" /\ Queued' /\ QueuedOnce'
<1>. DEFINE k == tasks[1]
<1>1. /\ Len(tasks) \in Nat \ {0} /\ DOMAIN tasks = 1 .. Len(tasks) /\ k \in Task
      /\ DOMAIN tasks' = 1 .. Len(tasks) - 1
      /\ \A i \in DOMAIN tasks' : i + 1 \in DOMAIN tasks /\ tasks'[i] = tasks[i + 1]
      /\ status \in [Task -> {"new", "accepted", "running", "done", "refused"}]
  <2>1. tasks \in Seq(Task)
        BY DEF TypeOK
  <2>2. Len(tasks) \in Nat \ {0} /\ tasks' \in Seq(Task) /\ Len(tasks') = Len(tasks) - 1 /\ k \in Task
        BY <2>1, Popped
  <2>3. DOMAIN tasks = 1 .. Len(tasks) /\ DOMAIN tasks' = 1 .. Len(tasks')
        BY <2>1, <2>2, LenProperties
  <2>4. \A i \in 1 .. Len(tasks) - 1 : Tail(tasks)[i] = tasks[i + 1]
        BY <2>1, Popped
  <2>. QED BY <2>2, <2>3, <2>4 DEF TypeOK
<1>2. status[k] = "accepted"
      BY <1>1 DEF Queued
<1>3. /\ \A i \in DOMAIN tasks' : tasks'[i] # k
      /\ \A w \in Workers : \A j \in DOMAIN local[w] : local[w][j] # k
      BY <1>1 DEF QueuedOnce
<1>. HIDE DEF k
<1>s. status' = [status EXCEPT ![k] = "running"]
      BY DEF k
<1>4. Queued'
  <2>1. \A i \in DOMAIN tasks' : status'[tasks'[i]] = "accepted"
        BY <1>1, <1>3, <1>s, QueueDomains DEF Queued
  <2>2. \A w \in Workers : \A i \in DOMAIN local'[w] : status'[local'[w][i]] = "accepted"
        BY <1>1, <1>3, <1>s, QueueDomains DEF Queued
  <2>3. ASSUME NEW x \in Task, status'[x] = "accepted"
        PROVE  \/ \E i \in DOMAIN tasks' : tasks'[i] = x
               \/ \E w \in Workers : \E i \in DOMAIN local'[w] : local'[w][i] = x
    <3>1. status[x] = "accepted" /\ x # k
          BY <1>1, <1>s, <2>3
    <3>2. ASSUME NEW j \in DOMAIN tasks, tasks[j] = x
          PROVE  \E i \in DOMAIN tasks' : tasks'[i] = x
      <4>1. j # 1 /\ j - 1 \in DOMAIN tasks'
            BY <1>1, <3>1, <3>2 DEF k
      <4>2. tasks'[j - 1] = tasks[j - 1 + 1] /\ j - 1 + 1 = j
            BY <1>1, <4>1
      <4>. QED BY <3>2, <4>1, <4>2
    <3>. QED BY <3>1, <3>2 DEF Queued
  <2>. QED BY <2>1, <2>2, <2>3 DEF Queued
<1>5. QueuedOnce'
  <2>1. \A i, j \in DOMAIN tasks' : tasks'[i] = tasks'[j] => i = j
        BY <1>1 DEF QueuedOnce
  <2>. QED BY <1>1, <2>1 DEF QueuedOnce
<1>. QED BY <1>2, <1>4, <1>5 DEF k

\* A task that was not accepted enters the front of a local queue.
LEMMA InsertLocal ==
    ASSUME TypeOK, Queued, QueuedOnce, NEW v \in Workers, NEW k \in Task, status[k] # "accepted",
           local' = [local EXCEPT ![v] = <<k>> \o @], tasks' = tasks,
           status' = [status EXCEPT ![k] = "accepted"]
    PROVE  Queued' /\ QueuedOnce'
<1>1. /\ DOMAIN local[v] = 1 .. Len(local[v]) /\ DOMAIN local'[v] = 1 .. Len(local[v]) + 1
      /\ Len(local[v]) \in Nat /\ local'[v][1] = k
      /\ \A i \in DOMAIN local[v] : i + 1 \in DOMAIN local'[v] /\ local'[v][i + 1] = local[v][i]
      /\ \A w \in Workers \ {v} : local'[w] = local[w]
  <2>1. local \in [Workers -> Seq(Task)] /\ local[v] \in Seq(Task)
        BY DEF TypeOK
  <2>2. local'[v] = <<k>> \o local[v] /\ \A w \in Workers \ {v} : local'[w] = local[w]
        BY <2>1
  <2>3. /\ local'[v] \in Seq(Task) /\ Len(local[v]) \in Nat /\ Len(local'[v]) = Len(local[v]) + 1
        /\ local'[v][1] = k /\ \A i \in 1 .. Len(local[v]) : local'[v][i + 1] = local[v][i]
        BY <2>1, <2>2, Pushed
  <2>. QED BY <2>1, <2>2, <2>3, LenProperties
<1>2. \A i \in DOMAIN local'[v] :
         i # 1 => i - 1 \in DOMAIN local[v] /\ local'[v][i] = local[v][i - 1]
  <2>1. TAKE i \in DOMAIN local'[v]
  <2>2. CASE i # 1
    <3>1. i - 1 \in DOMAIN local[v] /\ i - 1 + 1 = i
          BY <1>1, <2>2
    <3>. QED BY <1>1, <3>1
  <2>. QED BY <2>2
<1>s. /\ status \in [Task -> {"new", "accepted", "running", "done", "refused"}]
      /\ status'[k] = "accepted" /\ \A x \in Task \ {k} : status'[x] = status[x]
      BY DEF TypeOK
<1>3. /\ \A i \in DOMAIN tasks : tasks[i] # k
      /\ \A w \in Workers : \A i \in DOMAIN local[w] : local[w][i] # k
      BY DEF Queued
<1>4. Queued'
  <2>1. \A i \in DOMAIN tasks' : status'[tasks'[i]] = "accepted"
        BY <1>3, <1>s, QueueDomains DEF Queued
  <2>2. ASSUME NEW w \in Workers, NEW i \in DOMAIN local'[w]
        PROVE  status'[local'[w][i]] = "accepted"
    <3>1. CASE w = v
          BY <1>1, <1>2, <1>3, <1>s, <3>1, QueueDomains DEF Queued
    <3>2. CASE w # v
          BY <1>1, <1>3, <1>s, <3>2, QueueDomains DEF Queued
    <3>. QED BY <3>1, <3>2
  <2>3. ASSUME NEW x \in Task, status'[x] = "accepted"
        PROVE  \/ \E i \in DOMAIN tasks' : tasks'[i] = x
               \/ \E w \in Workers : \E i \in DOMAIN local'[w] : local'[w][i] = x
    <3>1. CASE x = k
      <4>1. 1 \in DOMAIN local'[v]
            BY <1>1
      <4>. QED BY <1>1, <3>1, <4>1
    <3>2. CASE x # k
      <4>1. status[x] = "accepted"
            BY <1>s, <2>3, <3>2
      <4>2. ASSUME NEW w \in Workers, NEW j \in DOMAIN local[w], local[w][j] = x
            PROVE  \E i \in DOMAIN local'[w] : local'[w][i] = x
        <5>1. CASE w = v
              BY <1>1, <4>2, <5>1
        <5>2. CASE w # v
              BY <1>1, <4>2, <5>2
        <5>. QED BY <5>1, <5>2
      <4>. QED BY <4>1, <4>2 DEF Queued
    <3>. QED BY <3>1, <3>2
  <2>. QED BY <2>1, <2>2, <2>3 DEF Queued
<1>5. QueuedOnce'
  <2>1. ASSUME NEW u \in Workers, NEW w \in Workers,
               NEW i \in DOMAIN local'[u], NEW j \in DOMAIN local'[w], local'[u][i] = local'[w][j]
        PROVE  u = w /\ i = j
    <3>1. CASE u = v /\ w = v
      <4>1. CASE i = 1 \/ j = 1
            BY <1>1, <1>2, <1>3, <2>1, <3>1, <4>1
      <4>2. CASE i # 1 /\ j # 1
        <5>1. i - 1 = j - 1
              BY <1>2, <2>1, <3>1, <4>2 DEF QueuedOnce
        <5>. QED BY <1>1, <3>1, <5>1
      <4>. QED BY <4>1, <4>2
    <3>2. CASE u # v /\ w # v
          BY <1>1, <2>1, <3>2 DEF QueuedOnce
    <3>3. CASE u = v /\ w # v
          BY <1>1, <1>2, <1>3, <2>1, <3>3 DEF QueuedOnce
    <3>4. CASE u # v /\ w = v
          BY <1>1, <1>2, <1>3, <2>1, <3>4 DEF QueuedOnce
    <3>. QED BY <3>1, <3>2, <3>3, <3>4
  <2>2. ASSUME NEW w \in Workers, NEW i \in DOMAIN tasks, NEW j \in DOMAIN local'[w]
        PROVE  tasks[i] # local'[w][j]
    <3>1. CASE w = v
          BY <1>1, <1>2, <1>3, <3>1 DEF QueuedOnce
    <3>2. CASE w # v
          BY <1>1, <3>2 DEF QueuedOnce
    <3>. QED BY <3>1, <3>2
  <2>. QED BY <2>1, <2>2 DEF QueuedOnce
<1>. QED BY <1>4, <1>5

\* Or the back of the global one.
LEMMA InsertGlobal ==
    ASSUME TypeOK, Queued, QueuedOnce, NEW k \in Task, status[k] # "accepted",
           tasks' = Append(tasks, k), local' = local, status' = [status EXCEPT ![k] = "accepted"]
    PROVE  Queued' /\ QueuedOnce'
<1>1. /\ Len(tasks) \in Nat /\ DOMAIN tasks = 1 .. Len(tasks) /\ DOMAIN tasks' = 1 .. Len(tasks) + 1
      /\ \A i \in DOMAIN tasks : tasks'[i] = tasks[i]
      /\ tasks'[Len(tasks) + 1] = k
  <2>1. tasks \in Seq(Task)
        BY DEF TypeOK
  <2>2. tasks' \in Seq(Task) /\ Len(tasks') = Len(tasks) + 1
        BY <2>1, Pushed
  <2>3. Len(tasks) \in Nat /\ DOMAIN tasks = 1 .. Len(tasks) /\ DOMAIN tasks' = 1 .. Len(tasks')
        BY <2>1, <2>2, LenProperties
  <2>. QED BY <2>1, <2>2, <2>3, Pushed
<1>2. \A i \in DOMAIN tasks' : i = Len(tasks) + 1 \/ i \in DOMAIN tasks
      BY <1>1
<1>s. /\ status \in [Task -> {"new", "accepted", "running", "done", "refused"}]
      /\ status'[k] = "accepted" /\ \A x \in Task \ {k} : status'[x] = status[x]
      BY DEF TypeOK
<1>3. /\ \A i \in DOMAIN tasks : tasks[i] # k
      /\ \A w \in Workers : \A i \in DOMAIN local[w] : local[w][i] # k
      BY DEF Queued
<1>4. Queued'
  <2>1. \A i \in DOMAIN tasks' : status'[tasks'[i]] = "accepted"
        BY <1>1, <1>2, <1>3, <1>s, QueueDomains DEF Queued
  <2>2. \A w \in Workers : \A i \in DOMAIN local'[w] : status'[local'[w][i]] = "accepted"
        BY <1>3, <1>s, QueueDomains DEF Queued
  <2>3. ASSUME NEW x \in Task, status'[x] = "accepted"
        PROVE  \/ \E i \in DOMAIN tasks' : tasks'[i] = x
               \/ \E w \in Workers : \E i \in DOMAIN local'[w] : local'[w][i] = x
    <3>1. CASE x = k
      <4>1. Len(tasks) + 1 \in DOMAIN tasks'
            BY <1>1
      <4>. QED BY <1>1, <3>1, <4>1
    <3>2. CASE x # k
      <4>1. status[x] = "accepted"
            BY <1>s, <2>3, <3>2
      <4>2. \A j \in DOMAIN tasks : j \in DOMAIN tasks' /\ tasks'[j] = tasks[j]
            BY <1>1
      <4>. QED BY <4>1, <4>2 DEF Queued
    <3>. QED BY <3>1, <3>2
  <2>. QED BY <2>1, <2>2, <2>3 DEF Queued
<1>5. QueuedOnce'
  <2>1. \A i, j \in DOMAIN tasks' : tasks'[i] = tasks'[j] => i = j
        BY <1>1, <1>2, <1>3 DEF QueuedOnce
  <2>2. \A w \in Workers : \A i \in DOMAIN tasks', j \in DOMAIN local[w] : tasks'[i] # local[w][j]
        BY <1>1, <1>2, <1>3 DEF QueuedOnce
  <2>. QED BY <2>1, <2>2 DEF QueuedOnce
<1>. QED BY <1>4, <1>5

\* Queues that stay what they are, while a task that is in none of them
\* becomes something else.
LEMMA QueuesKept ==
    ASSUME TypeOK, Queued, QueuedOnce, UNCHANGED <<tasks, local>>, NEW k \in Task, NEW s,
           status[k] # "accepted", s # "accepted",
           status' = [status EXCEPT ![k] = s] \/ status' = status
    PROVE  Queued' /\ QueuedOnce'
<1>1. QueuedOnce'
      BY DEF QueuedOnce
<1>2. \A x \in Task : status'[x] = "accepted" <=> status[x] = "accepted"
      BY DEF TypeOK
<1>3. Queued'
      BY <1>2, QueueDomains DEF Queued
<1>. QED BY <1>1, <1>3

-----------------------------------------------------------------------------
(***************************************************************************)
(* Who holds which task.                                                   *)
(***************************************************************************)
HandsInv == HeldOnce /\ Held /\ Posting

\* What the types say of what threads hold and have still to post.
LEMMA HandTypes ==
    ASSUME TypeOK
    PROVE  /\ status \in [Task -> {"new", "accepted", "running", "done", "refused"}]
           /\ cur \in [Threads -> Task \cup {NoTask}] /\ NoTask \notin Task
           /\ todo \in [Threads -> Seq(Task)]
           /\ \A t \in Threads : /\ Len(todo[t]) \in Nat /\ DOMAIN todo[t] = 1 .. Len(todo[t])
                                 /\ \A i \in DOMAIN todo[t] : todo[t][i] \in Task
           /\ Threads = Workers \cup Clients /\ Clients \cap Workers = {}
<1>1. \A t \in Threads : todo[t] \in Seq(Task)
      BY DEF TypeOK
<1>. QED BY <1>1, LenProperties, ElementOfSeq, TaskAssumption, ThreadAssumption DEF TypeOK, Threads

\* Thread t begins to run k, which it took from a queue or is told to run.
LEMMA BeginToRun ==
    ASSUME TypeOK, HandsInv, NEW t \in Threads, NEW k \in Task, ~Running(t),
           cur' = [cur EXCEPT ![t] = k], todo' = [todo EXCEPT ![t] = Children[k]],
           status' = [status EXCEPT ![k] = "running"],
           status[k] = "accepted" \/ (status[k] = "new" /\ k \in Roots),
           \A u \in Threads \ {t} : /\ cur[u] # k
                                    /\ pc'[u] = pc[u],
           pc'[t] \in {"run", "notifyNotFull"}
    PROVE  HandsInv'
<1>f. /\ status'[k] = "running" /\ \A x \in Task \ {k} : status'[x] = status[x]
      /\ cur'[t] = k /\ \A u \in Threads \ {t} : cur'[u] = cur[u] /\ todo'[u] = todo[u]
      /\ todo'[t] = Children[k] /\ NoTask \notin Task
      BY HandTypes
<1>r. Running(t)' /\ \A u \in Threads \ {t} : Running(u)' = Running(u)
      BY <1>f DEF Running
<1>1. HeldOnce'
      BY <1>f DEF HandsInv, HeldOnce
<1>2. Held'
  <2>1. ASSUME NEW u \in Threads, Running(u)'
        PROVE  status'[cur'[u]] = "running"
    <3>1. CASE u = t
          BY <1>f, <3>1
    <3>2. CASE u # t
      <4>1. Running(u) /\ cur[u] \in Task /\ cur[u] # k
            BY <1>r, <2>1, <3>2, HandTypes DEF Running
      <4>. QED BY <1>f, <3>2, <4>1 DEF HandsInv, Held
    <3>. QED BY <3>1, <3>2
  <2>2. ASSUME NEW x \in Task, status'[x] = "running"
        PROVE  \E u \in Threads : Running(u)' /\ cur'[u] = x
    <3>1. CASE x = k
          BY <1>f, <1>r, <3>1
    <3>2. CASE x # k
      <4>1. PICK u \in Threads : Running(u) /\ cur[u] = x
            BY <1>f, <2>2, <3>2 DEF HandsInv, Held
      <4>. QED BY <1>f, <1>r, <4>1
    <3>. QED BY <3>1, <3>2
  <2>3. ASSUME NEW c \in Clients, pc'[c] \in {"waiting", "woken", "expired"}
        PROVE  cur'[c] \in Roots /\ status'[cur'[c]] = "new"
    <3>1. c \in Threads /\ c # t
          BY <2>3, HandTypes
    <3>2. cur[c] \in Roots /\ status[cur[c]] = "new" /\ cur[c] # k /\ cur[c] \in Task
          BY <2>3, <3>1, TaskAssumption DEF HandsInv, Held
    <3>. QED BY <1>f, <3>1, <3>2
  <2>. QED BY <2>1, <2>2, <2>3 DEF Held
<1>n. ASSUME NEW y \in Task, NEW x \in Task, Posts(y, x), status[x] = "new"
      PROVE  x # k
      BY <1>n, PostedFacts
<1>c. \A x \in Task : Posts(k, x) => status[x] = "new"
      BY DEF HandsInv, Posting
<1>3. Posting'
  <2>1. ASSUME NEW u \in Threads, NEW i \in DOMAIN todo'[u]
        PROVE  /\ Running(u)' /\ Posts(cur'[u], todo'[u][i]) /\ status'[todo'[u][i]] = "new"
               /\ \A j \in DOMAIN todo'[u] : todo'[u][i] = todo'[u][j] => i = j
    <3>1. CASE u = t
      <4>1. Children[k][i] \in Task /\ Posts(k, Children[k][i])
            BY <1>f, <2>1, <3>1, PostedFacts
      <4>2. status[Children[k][i]] = "new" /\ Children[k][i] # k
            BY <1>c, <1>n, <4>1
      <4>. QED BY <1>f, <1>r, <2>1, <3>1, <4>1, <4>2, PostedFacts
    <3>2. CASE u # t
      <4>1. /\ Running(u) /\ Posts(cur[u], todo[u][i]) /\ status[todo[u][i]] = "new"
            /\ \A j \in DOMAIN todo[u] : todo[u][i] = todo[u][j] => i = j
            BY <1>f, <2>1, <3>2 DEF HandsInv, Posting
      <4>2. cur[u] \in Task /\ todo[u][i] \in Task
            BY <1>f, <2>1, <3>2, <4>1, HandTypes DEF Running
      <4>. QED BY <1>f, <1>r, <1>n, <3>2, <4>1, <4>2
    <3>. QED BY <3>1, <3>2
  <2>2. ASSUME NEW y \in Task, NEW x \in Task, Posts(y, x), status'[y] \in {"new", "accepted"}
        PROVE  status'[x] = "new"
    <3>1. status[x] = "new"
          BY <1>f, <2>2 DEF HandsInv, Posting
    <3>. QED BY <1>f, <1>n, <2>2, <3>1
  <2>. QED BY <2>1, <2>2 DEF Posting, Posts
<1>. QED BY <1>1, <1>2, <1>3 DEF HandsInv

\* What thread t holds ends, and t does not hold it any more.
LEMMA EndToRun ==
    ASSUME TypeOK, HandsInv, NEW t \in Threads, Running(t), todo[t] = << >>, UNCHANGED todo,
           status' = [status EXCEPT ![cur[t]] = "done"],
           cur' = [cur EXCEPT ![t] = NoTask], pc'[t] \notin {"waiting", "woken", "expired"},
           \A u \in Threads \ {t} : pc'[u] = pc[u]
    PROVE  HandsInv'
<1>. DEFINE k == cur[t]
<1>k. k \in Task /\ status[k] = "running"
      BY HandTypes DEF Running, HandsInv, Held
<1>f. /\ status'[k] = "done" /\ \A x \in Task \ {k} : status'[x] = status[x]
      /\ cur'[t] = NoTask /\ \A u \in Threads \ {t} : cur'[u] = cur[u] /\ cur[u] # k
      BY <1>k, HandTypes DEF HandsInv, HeldOnce
<1>r. ~Running(t)' /\ \A u \in Threads \ {t} : Running(u)' = Running(u)
      BY <1>f DEF Running
<1>. HIDE DEF k
<1>1. HeldOnce'
      BY <1>f DEF HandsInv, HeldOnce
<1>2. Held'
  <2>1. ASSUME NEW u \in Threads, Running(u)'
        PROVE  status'[cur'[u]] = "running"
    <3>1. u # t /\ Running(u) /\ cur[u] \in Task
          BY <1>r, <2>1, HandTypes DEF Running
    <3>. QED BY <1>f, <3>1 DEF HandsInv, Held
  <2>2. ASSUME NEW x \in Task, status'[x] = "running"
        PROVE  \E u \in Threads : Running(u)' /\ cur'[u] = x
    <3>1. PICK u \in Threads : Running(u) /\ cur[u] = x
          BY <1>f, <2>2 DEF HandsInv, Held
    <3>2. x # k
          BY <1>f, <2>2
    <3>3. u # t
          BY <3>1, <3>2 DEF k
    <3>. QED BY <1>f, <1>r, <3>1, <3>3
  <2>3. ASSUME NEW c \in Clients, pc'[c] \in {"waiting", "woken", "expired"}
        PROVE  cur'[c] \in Roots /\ status'[cur'[c]] = "new"
    <3>1. c \in Threads /\ c # t
          BY <2>3, HandTypes
    <3>2. cur[c] \in Roots /\ status[cur[c]] = "new" /\ cur[c] \in Task
          BY <2>3, <3>1, TaskAssumption DEF HandsInv, Held
    <3>. QED BY <1>f, <1>k, <3>1, <3>2
  <2>. QED BY <2>1, <2>2, <2>3 DEF Held
<1>3. Posting'
  <2>1. ASSUME NEW u \in Threads, NEW i \in DOMAIN todo'[u]
        PROVE  /\ Running(u)' /\ Posts(cur'[u], todo'[u][i]) /\ status'[todo'[u][i]] = "new"
               /\ \A j \in DOMAIN todo'[u] : todo'[u][i] = todo'[u][j] => i = j
    <3>1. u # t
          BY <2>1
    <3>2. /\ Running(u) /\ Posts(cur[u], todo[u][i]) /\ status[todo[u][i]] = "new"
          /\ \A j \in DOMAIN todo[u] : todo[u][i] = todo[u][j] => i = j
          BY <2>1 DEF HandsInv, Posting
    <3>3. todo[u][i] \in Task /\ todo[u][i] # k
          BY <1>k, <2>1, <3>2, HandTypes
    <3>. QED BY <1>f, <1>r, <3>1, <3>2, <3>3
  <2>2. ASSUME NEW y \in Task, NEW x \in Task, Posts(y, x), status'[y] \in {"new", "accepted"}
        PROVE  status'[x] = "new"
    <3>1. status[x] = "new"
          BY <1>f, <2>2 DEF HandsInv, Posting
    <3>. QED BY <1>f, <1>k, <3>1
  <2>. QED BY <2>1, <2>2 DEF Posting, Posts
<1>. QED BY <1>1, <1>2, <1>3 DEF HandsInv

\* A running task posts the next of its children, or has it refused.
LEMMA PostNext ==
    ASSUME TypeOK, HandsInv, NEW t \in Threads, Running(t), todo[t] # << >>, UNCHANGED cur,
           NEW s \in {"accepted", "refused"}, status' = [status EXCEPT ![Head(todo[t])] = s],
           todo' = [todo EXCEPT ![t] = Tail(@)],
           pc'[t] \in {"run", "notifyNotEmpty"}, \A u \in Threads \ {t} : pc'[u] = pc[u]
    PROVE  HandsInv'
<1>. DEFINE x == Head(todo[t])
<1>t. /\ x = todo[t][1] /\ x \in Task /\ 1 \in DOMAIN todo[t] /\ Len(todo[t]) \in Nat \ {0}
      /\ DOMAIN todo'[t] = 1 .. Len(todo[t]) - 1
      /\ \A i \in DOMAIN todo'[t] : i + 1 \in DOMAIN todo[t] /\ todo'[t][i] = todo[t][i + 1]
      /\ \A u \in Threads \ {t} : todo'[u] = todo[u]
  <2>1. todo[t] \in Seq(Task) /\ DOMAIN todo[t] = 1 .. Len(todo[t])
        BY HandTypes
  <2>2. todo'[t] = Tail(todo[t]) /\ \A u \in Threads \ {t} : todo'[u] = todo[u]
        BY HandTypes
  <2>3. /\ Len(todo[t]) \in Nat \ {0} /\ x = todo[t][1] /\ todo[t][1] \in Task
        /\ Tail(todo[t]) \in Seq(Task) /\ Len(Tail(todo[t])) = Len(todo[t]) - 1
        /\ \A i \in 1 .. Len(todo[t]) - 1 : Tail(todo[t])[i] = todo[t][i + 1]
        BY <2>1, Popped
  <2>4. DOMAIN todo'[t] = 1 .. Len(todo[t]) - 1
        BY <2>2, <2>3, LenProperties
  <2>. QED BY <2>1, <2>2, <2>3, <2>4
<1>x. status[x] = "new" /\ Posts(cur[t], x) /\ cur[t] \in Task /\ x \notin Roots
      /\ status[cur[t]] = "running"
  <2>1. status[x] = "new" /\ Posts(cur[t], x) /\ status[cur[t]] = "running"
        BY <1>t DEF HandsInv, Posting, Held
  <2>2. cur[t] \in Task
        BY HandTypes DEF Running
  <2>. QED BY <1>t, <2>1, <2>2, PostedFacts
<1>. HIDE DEF x
<1>f. status'[x] = s /\ \A y \in Task \ {x} : status'[y] = status[y]
      BY <1>t, HandTypes DEF x
<1>r. \A u \in Threads : Running(u)' = Running(u)
      BY DEF Running
<1>1. HeldOnce'
      BY DEF HandsInv, HeldOnce
<1>2. Held'
  <2>1. ASSUME NEW u \in Threads, Running(u)'
        PROVE  status'[cur'[u]] = "running"
    <3>1. Running(u) /\ cur[u] \in Task /\ status[cur[u]] = "running"
          BY <1>r, <2>1, HandTypes DEF Running, HandsInv, Held
    <3>. QED BY <1>f, <1>x, <3>1
  <2>2. ASSUME NEW y \in Task, status'[y] = "running"
        PROVE  \E u \in Threads : Running(u)' /\ cur'[u] = y
    <3>1. status[y] = "running"
          BY <1>f, <2>2
    <3>. QED BY <1>r, <3>1 DEF HandsInv, Held
  <2>3. ASSUME NEW c \in Clients, pc'[c] \in {"waiting", "woken", "expired"}
        PROVE  cur'[c] \in Roots /\ status'[cur'[c]] = "new"
    <3>1. c \in Threads /\ c # t
          BY <2>3, HandTypes
    <3>2. cur[c] \in Roots /\ status[cur[c]] = "new" /\ cur[c] \in Task
          BY <2>3, <3>1, TaskAssumption DEF HandsInv, Held
    <3>. QED BY <1>f, <1>x, <3>2
  <2>. QED BY <2>1, <2>2, <2>3 DEF Held
<1>3. Posting'
  <2>1. ASSUME NEW u \in Threads, NEW i \in DOMAIN todo'[u]
        PROVE  /\ Running(u)' /\ Posts(cur'[u], todo'[u][i]) /\ status'[todo'[u][i]] = "new"
               /\ \A j \in DOMAIN todo'[u] : todo'[u][i] = todo'[u][j] => i = j
    <3>1. CASE u = t
      <4>1. i + 1 \in DOMAIN todo[t] /\ todo'[t][i] = todo[t][i + 1] /\ i \in Nat
            BY <1>t, <2>1, <3>1
      <4>2. /\ Running(t) /\ Posts(cur[t], todo[t][i + 1]) /\ status[todo[t][i + 1]] = "new"
            /\ \A j \in DOMAIN todo[t] : todo[t][i + 1] = todo[t][j] => i + 1 = j
            BY <4>1 DEF HandsInv, Posting
      <4>3. todo[t][i + 1] # x /\ todo[t][i + 1] \in Task
            BY <1>t, <4>1, <4>2, HandTypes
      <4>4. \A j \in DOMAIN todo'[t] : todo'[t][i] = todo'[t][j] => i = j
        <5>1. TAKE j \in DOMAIN todo'[t]
        <5>2. j + 1 \in DOMAIN todo[t] /\ todo'[t][j] = todo[t][j + 1] /\ j \in Nat
              BY <1>t
        <5>. QED BY <4>1, <4>2, <5>2
      <4>. QED BY <1>f, <1>r, <3>1, <4>1, <4>2, <4>3, <4>4
    <3>2. CASE u # t
      <4>1. /\ i \in DOMAIN todo[u] /\ Running(u) /\ Posts(cur[u], todo[u][i])
            /\ status[todo[u][i]] = "new"
            /\ \A j \in DOMAIN todo[u] : todo[u][i] = todo[u][j] => i = j
            BY <1>t, <2>1, <3>2 DEF HandsInv, Posting
      <4>2. cur[u] \in Task /\ todo[u][i] \in Task /\ cur[u] # cur[t]
            BY <1>x, <3>2, <4>1, HandTypes DEF Running, HandsInv, HeldOnce
      <4>3. todo[u][i] # x
            BY <1>t, <1>x, <4>1, <4>2, PostedFacts
      <4>. QED BY <1>t, <1>f, <1>r, <3>2, <4>1, <4>2, <4>3
    <3>. QED BY <3>1, <3>2
  <2>2. ASSUME NEW k \in Task, NEW y \in Task, Posts(k, y), status'[k] \in {"new", "accepted"}
        PROVE  status'[y] = "new"
    <3>1. status[k] \in {"new", "accepted"}
          BY <1>f, <1>x, <2>2
    <3>2. status[y] = "new" /\ k # cur[t]
          BY <1>x, <2>2, <3>1 DEF HandsInv, Posting
    <3>3. y # x
          BY <1>t, <1>x, <2>2, <3>2, PostedFacts
    <3>. QED BY <1>f, <3>2, <3>3
  <2>. QED BY <2>1, <2>2 DEF Posting, Posts
<1>. QED BY <1>1, <1>2, <1>3 DEF HandsInv

\* A thread that holds a task runs it, or is a client that waits to submit it.
LEMMA InHand ==
    ASSUME ControlInv, HandsInv
    PROVE  \A u \in Threads : cur[u] # NoTask =>
              /\ cur[u] \in Task
              /\ \/ Running(u) /\ status[cur[u]] = "running"
                 \/ /\ u \in Clients /\ pc[u] \in {"waiting", "woken", "expired"}
                    /\ status[cur[u]] = "new" /\ cur[u] \in Roots
<1>1. TAKE u \in Threads
<1>2. CASE u \in Workers
      BY <1>2, HandTypes DEF ControlInv, Holding, Running, HandsInv, Held
<1>3. CASE u \in Clients
  <2>1. pc[u] \in ClientPCs /\ (pc[u] = "idle" => cur[u] = NoTask)
        BY <1>3 DEF ControlInv, TypeOK, Holding
  <2>. QED BY <1>3, <2>1, HandTypes DEF ControlInv, ClientPCs, Running, HandsInv, Held
<1>. QED BY <1>2, <1>3, HandTypes DEF ControlInv

\* In the critical section of a submission the client has a new root, which
\* nobody else holds.
LEMMA RootInHand ==
    ASSUME ControlInv, HandsInv, NEW c \in Clients, NEW k, NEW o, InSection(c, k, o)
    PROVE  /\ k \in Roots /\ k \in Task /\ status[k] = "new" /\ ~Running(c)
           /\ c \in Threads /\ \A u \in Threads \ {c} : cur[u] # k
<1>t. NoTask \notin Task /\ Roots \subseteq Task /\ c \in Threads
      BY HandTypes, TaskAssumption DEF ControlInv
<1>1. k \in Roots /\ status[k] = "new" /\ ~Running(c)
      BY DEF InSection, HandsInv, Held, Running
<1>2. ASSUME NEW u \in Threads \ {c}, cur[u] = k
      PROVE  FALSE
  <2>1. cur[u] # NoTask
        BY <1>1, <1>2, <1>t
  <2>2. u \in Clients
        BY <1>1, <1>2, <2>1, InHand
  <2>3. CASE pc[c] = "idle"
        BY <1>2, <2>2, <2>3 DEF InSection
  <2>4. CASE pc[c] # "idle"
        BY <1>2, <1>t, <2>1, <2>4 DEF InSection, HandsInv, HeldOnce
  <2>. QED BY <2>3, <2>4
<1>. QED BY <1>1, <1>2, <1>t

\* A client's submission is over: its root is queued or refused.
LEMMA RootLeaves ==
    ASSUME TypeOK, HandsInv, NEW c \in Clients, NEW k \in Roots, status[k] = "new", ~Running(c),
           \A u \in Threads \ {c} : cur[u] # k,
           NEW s \in {"accepted", "refused"}, status' = [status EXCEPT ![k] = s],
           cur' = [cur EXCEPT ![c] = NoTask], UNCHANGED todo,
           pc'[c] \notin {"waiting", "woken", "expired"}, \A u \in Threads \ {c} : pc'[u] = pc[u]
    PROVE  HandsInv'
<1>f. /\ k \in Task /\ status'[k] = s /\ \A x \in Task \ {k} : status'[x] = status[x]
      /\ c \in Threads /\ cur'[c] = NoTask /\ \A u \in Threads \ {c} : cur'[u] = cur[u]
      BY HandTypes, TaskAssumption
<1>r. \A u \in Threads : Running(u)' = Running(u)
      BY <1>f DEF Running
<1>1. HeldOnce'
      BY <1>f DEF HandsInv, HeldOnce
<1>2. Held'
  <2>1. ASSUME NEW u \in Threads, Running(u)'
        PROVE  status'[cur'[u]] = "running"
    <3>1. u # c /\ Running(u) /\ cur[u] \in Task
          BY <1>r, <2>1, HandTypes DEF Running
    <3>. QED BY <1>f, <3>1 DEF HandsInv, Held
  <2>2. ASSUME NEW x \in Task, status'[x] = "running"
        PROVE  \E u \in Threads : Running(u)' /\ cur'[u] = x
    <3>1. PICK u \in Threads : Running(u) /\ cur[u] = x
          BY <1>f, <2>2 DEF HandsInv, Held
    <3>. QED BY <1>f, <1>r, <3>1
  <2>3. ASSUME NEW d \in Clients, pc'[d] \in {"waiting", "woken", "expired"}
        PROVE  cur'[d] \in Roots /\ status'[cur'[d]] = "new"
    <3>1. d \in Threads /\ d # c
          BY <2>3, HandTypes
    <3>2. cur[d] \in Roots /\ status[cur[d]] = "new" /\ cur[d] \in Task
          BY <2>3, <3>1, TaskAssumption DEF HandsInv, Held
    <3>. QED BY <1>f, <3>1, <3>2
  <2>. QED BY <2>1, <2>2, <2>3 DEF Held
<1>n. ASSUME NEW y \in Task, NEW x \in Task, Posts(y, x)
      PROVE  x # k
      BY <1>n, PostedFacts
<1>3. Posting'
  <2>1. ASSUME NEW u \in Threads, NEW i \in DOMAIN todo[u]
        PROVE  /\ Running(u)' /\ Posts(cur'[u], todo[u][i]) /\ status'[todo[u][i]] = "new"
               /\ \A j \in DOMAIN todo[u] : todo[u][i] = todo[u][j] => i = j
    <3>1. /\ Running(u) /\ Posts(cur[u], todo[u][i]) /\ status[todo[u][i]] = "new"
          /\ \A j \in DOMAIN todo[u] : todo[u][i] = todo[u][j] => i = j
          BY <2>1 DEF HandsInv, Posting
    <3>2. u # c /\ cur[u] \in Task /\ todo[u][i] \in Task
          BY <3>1, HandTypes DEF Running
    <3>3. todo[u][i] # k
          BY <1>n, <3>1, <3>2
    <3>. QED BY <1>f, <1>r, <3>1, <3>2, <3>3
  <2>2. ASSUME NEW y \in Task, NEW x \in Task, Posts(y, x), status'[y] \in {"new", "accepted"}
        PROVE  status'[x] = "new"
    <3>1. status[x] = "new"
          BY <1>f, <2>2 DEF HandsInv, Posting
    <3>. QED BY <1>f, <1>n, <2>2, <3>1
  <2>. QED BY <2>1, <2>2 DEF Posting, Posts
<1>. QED BY <1>1, <1>2, <1>3 DEF HandsInv

\* Steps in which no task changes hands, or a client goes to wait with one.
LEMMA HandsKept ==
    ASSUME TypeOK, HandsInv, UNCHANGED <<todo, status>>,
           \A u \in Threads : /\ Running(u)' = Running(u)
                              /\ Running(u) => cur'[u] = cur[u],
           HeldOnce',
           \A c \in Clients : pc'[c] \in {"waiting", "woken", "expired"} =>
                                 cur'[c] \in Roots /\ status[cur'[c]] = "new"
    PROVE  HandsInv'
<1>1. Held'
  <2>1. ASSUME NEW x \in Task, status[x] = "running"
        PROVE  \E u \in Threads : Running(u)' /\ cur'[u] = x
    <3>1. PICK u \in Threads : Running(u) /\ cur[u] = x
          BY <2>1 DEF HandsInv, Held
    <3>. QED BY <3>1
  <2>. QED BY <2>1 DEF HandsInv, Held
<1>2. Posting'
      BY DEF HandsInv, Posting, Posts
<1>. QED BY <1>1, <1>2 DEF HandsInv

\* Where a client is that waits, or has waited, in a submission.
Suspended == {"waiting", "woken", "expired"}

\* Steps that leave queues and tasks alone.
LEMMA TasksKept ==
    ASSUME ControlInv, ControlInv', TasksInv, UNCHANGED <<tasks, local, cur, todo, status>>,
           \A c \in Clients : pc'[c] \in Suspended <=> pc[c] \in Suspended
    PROVE  TasksInv'
<1>f. PcFacts /\ HandsInv /\ TypeOK
      BY PlacesOfThreads DEF ControlInv, TasksInv, HandsInv
<1>1. Queued' /\ QueuedOnce'
      BY DEF TasksInv, Queued, QueuedOnce
<1>2. \A u \in Threads : Running(u)' = Running(u)
  <2>1. TAKE u \in Threads
  <2>2. CASE u \in Workers
        BY <2>2 DEF ControlInv, Holding, Running
  <2>3. CASE u \in Clients
    <3>1. /\ pc[u] \in ClientPCs /\ pc'[u] \in ClientPCs
          /\ cur[u] # NoTask => pc[u] # "idle" /\ pc'[u] # "idle"
          BY <2>3 DEF ControlInv, TypeOK, Holding
    <3>2. pc'[u] \in Suspended <=> pc[u] \in Suspended
          BY <2>3
    <3>. QED BY <3>1, <3>2 DEF ClientPCs, Suspended, Running
  <2>. QED BY <1>f, <2>2, <2>3 DEF PcFacts
<1>3. HeldOnce'
      BY DEF TasksInv, HeldOnce
<1>4. \A c \in Clients : pc'[c] \in {"waiting", "woken", "expired"} =>
                            cur'[c] \in Roots /\ status[cur'[c]] = "new"
      BY DEF TasksInv, Held, Suspended
<1>5. HandsInv'
      BY <1>f, <1>2, <1>3, <1>4, HandsKept
<1>. QED BY <1>1, <1>5 DEF TasksInv, HandsInv

\* A worker takes a task from a queue: nobody else has it.
LEMMA TaskTaken ==
    ASSUME ControlInv, HandsInv, NEW w \in Workers, ~Running(w), NEW k \in Task, Hold(w, k),
           status[k] = "accepted", pc' = [pc EXCEPT ![w] = "run"] \/ pc' = [pc EXCEPT ![w] = "notifyNotFull"]
    PROVE  HandsInv'
<1>f. TypeOK /\ w \in Threads /\ pc'[w] \in {"run", "notifyNotFull"}
      /\ \A u \in Threads \ {w} : pc'[u] = pc[u]
      BY DEF ControlInv, TypeOK, Threads
<1>1. \A u \in Threads \ {w} : cur[u] # k
      BY InHand, TaskAssumption
<1>2. \A u \in Threads \ {w} : cur[u] # k /\ pc'[u] = pc[u]
      BY <1>f, <1>1
<1>3. /\ cur' = [cur EXCEPT ![w] = k] /\ todo' = [todo EXCEPT ![w] = Children[k]]
      /\ status' = [status EXCEPT ![k] = "running"]
      BY DEF Hold, Becomes
<1>. QED BY <1>f, <1>2, <1>3, BeginToRun

\* A worker's steps keep every task in one place.
LEMMA WorkerTasks ==
    ASSUME ControlInv, ControlInv', TasksInv, NEW w \in Workers, WorkerStep(w)
    PROVE  TasksInv'
<1>f. /\ PcFacts /\ WaitSets /\ Holding /\ TypeOK /\ TypeOK' /\ HandsInv /\ Queued /\ QueuedOnce
      /\ w \in Threads /\ w \notin Clients
      BY PlacesOfThreads DEF ControlInv, TasksInv, HandsInv, PcFacts
<1>t. /\ tasks \in Seq(Task) /\ local \in [Workers -> Seq(Task)] /\ todo[w] \in Seq(Task)
      /\ pc \in [Threads -> WorkerPCs \cup ClientPCs]
      BY <1>f DEF TypeOK
<1>. USE DEF PcFacts, Goto, queueVars
<1>1. CASE PopLocal(w)
  <2>1. CASE local[w] # << >>
    <3>. DEFINE k == local[w][1]
    <3>1. /\ k \in Task /\ Head(local[w]) = k /\ Len(local[w]) \in Nat \ {0}
          /\ Len(Tail(local[w])) = Len(local[w]) - 1
          /\ \A i \in 1 .. Len(local[w]) - 1 : Tail(local[w])[i] = local[w][i + 1]
          BY <1>t, <2>1, Popped
    <3>2. /\ Hold(w, k) /\ tasks' = tasks /\ pc' = [pc EXCEPT ![w] = "run"] /\ pc[w] = "popLocal"
          /\ local'[w] = Tail(local[w]) /\ \A v \in Workers \ {w} : local'[v] = local[v]
          BY <1>1, <1>t, <2>1, <3>1 DEF PopLocal
    <3>3. \A i \in 1 .. Len(local[w]) - 1 : local'[w][i] = local[w][IF i < 1 THEN i ELSE i + 1]
          BY <3>1, <3>2
    <3>4. 1 \in 1 .. Len(local[w])
          BY <3>1
    <3>5. status[k] = "accepted" /\ Queued' /\ QueuedOnce'
          BY <1>f, <3>1, <3>2, <3>3, <3>4, RemoveLocal DEF Hold, Becomes
    <3>6. HandsInv'
          BY <1>f, <3>1, <3>2, <3>5, TaskTaken DEF Running
    <3>. QED BY <3>5, <3>6 DEF TasksInv, HandsInv
  <2>2. CASE local[w] = << >>
    <3>1. /\ UNCHANGED <<tasks, local, cur, todo, status>>
          /\ \A c \in Clients : pc'[c] = pc[c]
          BY <1>1, <1>f, <2>2 DEF PopLocal
    <3>. QED BY <3>1, TasksKept
  <2>. QED BY <2>1, <2>2
<1>2. CASE PopGlobal(w)
  <2>1. CASE tasks # << >>
    <3>. DEFINE k == tasks[1]
    <3>1. k \in Task /\ Head(tasks) = k
          BY <1>t, <2>1, Popped
    <3>2. /\ Hold(w, k) /\ tasks' = Tail(tasks) /\ local' = local
          /\ pc' = [pc EXCEPT ![w] = "notifyNotFull"] /\ pc[w] = "popGlobal"
          BY <1>2, <2>1, <3>1 DEF PopGlobal
    <3>3. status[k] = "accepted" /\ Queued' /\ QueuedOnce'
          BY <1>f, <2>1, <3>2, RemoveGlobal DEF Hold, Becomes
    <3>4. HandsInv'
          BY <1>f, <3>1, <3>2, <3>3, TaskTaken DEF Running
    <3>. QED BY <3>3, <3>4 DEF TasksInv, HandsInv
  <2>2. CASE tasks = << >>
    <3>1. /\ UNCHANGED <<tasks, local, cur, todo, status>>
          /\ \A c \in Clients : pc'[c] = pc[c]
          BY <1>2, <1>f, <2>2 DEF PopGlobal
    <3>. QED BY <3>1, TasksKept
  <2>. QED BY <2>1, <2>2
<1>3. CASE Steal(w)
  <2>. DEFINE v == Victim(w)
              q == local[v]
  <2>v. v \in Workers /\ q \in Seq(Task)
        BY <1>f, <1>t, VictimIsWorker
  <2>1. CASE q # << >>
    <3>. DEFINE k == q[Len(q)]
    <3>1. /\ k \in Task /\ Len(q) \in Nat \ {0}
          /\ Len(SubSeq(q, 1, Len(q) - 1)) = Len(q) - 1
          /\ \A i \in 1 .. Len(q) - 1 : SubSeq(q, 1, Len(q) - 1)[i] = q[i]
          BY <2>v, <2>1, Popped
    <3>2. /\ Hold(w, k) /\ tasks' = tasks /\ pc' = [pc EXCEPT ![w] = "run"] /\ pc[w] = "steal"
          /\ local' = [local EXCEPT ![v] = SubSeq(q, 1, Len(q) - 1)]
          BY <1>3, <2>1 DEF Steal
    <3>3. local'[v] = SubSeq(q, 1, Len(q) - 1) /\ \A u \in Workers \ {v} : local'[u] = local[u]
          BY <1>t, <2>v, <3>2
    <3>4. /\ Len(q) \in 1 .. Len(q)
          /\ \A i \in 1 .. Len(q) - 1 : local'[v][i] = q[IF i < Len(q) THEN i ELSE i + 1]
          BY <3>1, <3>3
    <3>h. Len(local'[v]) = Len(q) - 1 /\ status' = [status EXCEPT ![k] = "running"]
          BY <3>1, <3>2, <3>3 DEF Hold, Becomes
    <3>. HIDE DEF v
    <3>5. status[k] = "accepted" /\ Queued' /\ QueuedOnce'
          BY <1>f, <2>v, <3>2, <3>3, <3>4, <3>h, RemoveLocal
    <3>6. HandsInv'
          BY <1>f, <3>1, <3>2, <3>5, TaskTaken DEF Running
    <3>. QED BY <3>5, <3>6 DEF TasksInv, HandsInv
  <2>2. CASE q = << >>
    <3>1. /\ UNCHANGED <<tasks, local, cur, todo, status>>
          /\ \A c \in Clients : pc'[c] = pc[c]
          BY <1>3, <1>f, <2>2 DEF Steal
    <3>. QED BY <3>1, TasksKept
  <2>. QED BY <2>1, <2>2
<1>4. CASE PushOwner(w)
  <2>. DEFINE k == Head(todo[w])
  <2>1. k = todo[w][1] /\ k \in Task /\ 1 \in DOMAIN todo[w]
    <3>1. todo[w] # << >>
          BY <1>4 DEF PushOwner
    <3>. QED BY <1>t, <3>1, Popped, LenProperties
  <2>2. Running(w) /\ status[k] = "new"
        BY <1>f, <2>1 DEF HandsInv, Posting
  <2>3. /\ local' = [local EXCEPT ![w] = <<k>> \o @] /\ tasks' = tasks /\ cur' = cur
        /\ status' = [status EXCEPT ![k] = "accepted"] /\ todo' = [todo EXCEPT ![w] = Tail(@)]
        /\ todo[w] # << >> /\ pc' = [pc EXCEPT ![w] = "notifyNotEmpty"]
        BY <1>4 DEF PushOwner, Becomes
  <2>4. Queued' /\ QueuedOnce'
        BY <1>f, <2>1, <2>2, <2>3, InsertLocal
  <2>5. pc'[w] = "notifyNotEmpty" /\ \A u \in Threads \ {w} : pc'[u] = pc[u]
        BY <1>f, <1>t, <2>3
  <2>6. HandsInv'
        BY <1>f, <2>2, <2>3, <2>5, PostNext
  <2>. QED BY <2>4, <2>6 DEF TasksInv, HandsInv
<1>5. CASE EndTask(w)
  <2>1. Running(w) /\ cur[w] \in Task
        BY <1>5, <1>f, HandTypes DEF EndTask, Running, Holding
  <2>2. /\ status' = [status EXCEPT ![cur[w]] = "done"] /\ cur' = [cur EXCEPT ![w] = NoTask]
        /\ UNCHANGED <<tasks, local, todo>> /\ todo[w] = << >> /\ pc' = [pc EXCEPT ![w] = "popLocal"]
        BY <1>5, <1>f DEF EndTask, Becomes
  <2>3. status[cur[w]] = "running"
        BY <1>f, <2>1 DEF HandsInv, Held
  <2>4. Queued' /\ QueuedOnce'
        BY <1>f, <2>1, <2>2, <2>3, QueuesKept
  <2>5. pc'[w] = "popLocal" /\ \A u \in Threads \ {w} : pc'[u] = pc[u]
        BY <1>f, <1>t, <2>2
  <2>6. HandsInv'
        BY <1>f, <2>1, <2>2, <2>5, EndToRun
  <2>. QED BY <2>4, <2>6 DEF TasksInv, HandsInv
<1>6. CASE NotifyNotFull(w)
  <2>1. PICK W \in OneOf(notFull) :
           pc' = [u \in Threads |-> IF u = w THEN "run" ELSE IF u \in W THEN "woken" ELSE pc[u]]
        BY <1>6 DEF NotifyNotFull
  <2>2. W \subseteq notFull
        BY DEF OneOf
  <2>3. \A c \in Clients : pc'[c] \in Suspended <=> pc[c] \in Suspended
        BY <1>f, <2>1, <2>2 DEF WaitSets, Suspended
  <2>. QED BY <1>6, <2>3, TasksKept DEF NotifyNotFull
<1>7. CASE NotifyWorkers(w)
  <2>1. \A c \in Clients : pc'[c] = pc[c]
        BY <1>7, <1>f DEF NotifyWorkers, OneOf, WaitSets
  <2>. QED BY <1>7, <2>1, TasksKept DEF NotifyWorkers
<1>8. CASE EnterWait(w) \/ CheckExit(w)
  <2>1. \A c \in Clients : pc'[c] = pc[c]
        BY <1>8, <1>f DEF EnterWait, CheckExit
  <2>. QED BY <1>8, <2>1, TasksKept DEF EnterWait, CheckExit
<1>9. CASE CheckStealable(w) \/ CheckDrained(w)
  <2>1. \A c \in Clients : pc'[c] = pc[c]
        BY <1>9, <1>f DEF CheckStealable, CheckDrained
  <2>. QED BY <1>9, <2>1, TasksKept DEF CheckStealable, CheckDrained
<1>. QED BY <1>1, <1>2, <1>3, <1>4, <1>5, <1>6, <1>7, <1>8, <1>9 DEF WorkerStep

\* So does a submission, begun or resumed.
LEMMA SubmitTasks ==
    ASSUME ControlInv, ControlInv', TasksInv, NEW c \in Clients, NEW k, NEW o,
           InSection(c, k, o), Submit(c, k, o)
    PROVE  TasksInv'
<1>f. /\ PcFacts /\ TypeOK /\ TypeOK' /\ HandsInv /\ Queued /\ QueuedOnce /\ c \in Threads
      /\ NoTask \notin Task /\ pc \in [Threads -> WorkerPCs \cup ClientPCs]
      /\ cur \in [Threads -> Task \cup {NoTask}]
      BY PlacesOfThreads, HandTypes DEF ControlInv, TasksInv, HandsInv, PcFacts, TypeOK
<1>k. /\ k \in Roots /\ k \in Task /\ status[k] = "new" /\ ~Running(c)
      /\ \A u \in Threads \ {c} : cur[u] # k
      BY <1>f, RootInHand
<1>. USE DEF Goto, queueVars
<1>1. CASE Enqueue(c, k, o)
  <2>1. /\ tasks' = Append(tasks, k) /\ local' = local /\ status' = [status EXCEPT ![k] = "accepted"]
        /\ cur' = [cur EXCEPT ![c] = NoTask] /\ todo' = todo /\ pc' = [pc EXCEPT ![c] = "notifyNotEmpty"]
        BY <1>1 DEF Enqueue, Leave, Becomes
  <2>2. Queued' /\ QueuedOnce'
        BY <1>f, <1>k, <2>1, InsertGlobal
  <2>3. pc'[c] = "notifyNotEmpty" /\ \A u \in Threads \ {c} : pc'[u] = pc[u]
        BY <1>f, <2>1
  <2>4. HandsInv'
        BY <1>f, <1>k, <2>1, <2>3, RootLeaves
  <2>. QED BY <2>2, <2>4 DEF TasksInv, HandsInv
<1>2. CASE Refuse(c, k, o)
  <2>1. /\ UNCHANGED <<tasks, local, todo>> /\ status' = [status EXCEPT ![k] = "refused"]
        /\ cur' = [cur EXCEPT ![c] = NoTask] /\ pc' = [pc EXCEPT ![c] = "idle"]
        BY <1>2 DEF Refuse, Leave, Becomes
  <2>2. Queued' /\ QueuedOnce'
        BY <1>f, <1>k, <2>1, QueuesKept
  <2>3. pc'[c] = "idle" /\ \A u \in Threads \ {c} : pc'[u] = pc[u]
        BY <1>f, <2>1
  <2>4. HandsInv'
        BY <1>f, <1>k, <2>1, <2>3, RootLeaves
  <2>. QED BY <2>2, <2>4 DEF TasksInv, HandsInv
<1>3. CASE RunHere(c, k, o)
  <2>1. /\ UNCHANGED <<tasks, local>> /\ status' = [status EXCEPT ![k] = "running"]
        /\ cur' = [cur EXCEPT ![c] = k] /\ todo' = [todo EXCEPT ![c] = Children[k]]
        /\ pc' = [pc EXCEPT ![c] = "run"]
        BY <1>3 DEF RunHere, Hold, Becomes
  <2>2. Queued' /\ QueuedOnce'
        BY <1>f, <1>k, <2>1, QueuesKept
  <2>3. pc'[c] = "run" /\ \A u \in Threads \ {c} : cur[u] # k /\ pc'[u] = pc[u]
        BY <1>f, <1>k, <2>1
  <2>4. HandsInv'
        BY <1>f, <1>k, <2>1, <2>3, BeginToRun
  <2>. QED BY <2>2, <2>4 DEF TasksInv, HandsInv
<1>4. CASE WaitNotFull(c, k, o)
  <2>1. /\ UNCHANGED <<tasks, local, todo, status>> /\ pc' = [pc EXCEPT ![c] = "waiting"]
        /\ cur' = [cur EXCEPT ![c] = k]
        BY <1>4 DEF WaitNotFull
  <2>2. Queued' /\ QueuedOnce'
        BY <2>1 DEF TasksInv, Queued, QueuedOnce
  <2>3. /\ pc'[c] = "waiting" /\ cur'[c] = k
        /\ \A u \in Threads \ {c} : pc'[u] = pc[u] /\ cur'[u] = cur[u]
        BY <1>f, <2>1
  <2>4. \A u \in Threads : Running(u)' = Running(u) /\ (Running(u) => cur'[u] = cur[u])
    <3>1. ~Running(c)'
          BY <2>3 DEF Running
    <3>2. \A u \in Threads \ {c} : Running(u)' = Running(u) /\ cur'[u] = cur[u]
          BY <2>3 DEF Running
    <3>. QED BY <1>k, <3>1, <3>2 DEF Running
  <2>5. HeldOnce'
        BY <1>f, <1>k, <2>3 DEF HandsInv, HeldOnce
  <2>6. \A d \in Clients : pc'[d] \in {"waiting", "woken", "expired"} =>
                              cur'[d] \in Roots /\ status[cur'[d]] = "new"
        BY <1>f, <1>k, <2>3 DEF PcFacts, HandsInv, Held
  <2>7. HandsInv'
        BY <1>f, <2>1, <2>4, <2>5, <2>6, HandsKept
  <2>. QED BY <2>2, <2>7 DEF TasksInv, HandsInv
<1>. QED BY <1>1, <1>2, <1>3, <1>4 DEF Submit

\* And so do a client's other steps.
LEMMA ClientTasks ==
    ASSUME ControlInv, ControlInv', TasksInv,
           NEW c \in Clients, Timeout(c) \/ PostChild(c) \/ EndTask(c) \/ NotifyWorkers(c)
    PROVE  TasksInv'
<1>f. /\ PcFacts /\ WaitSets /\ TypeOK /\ TypeOK' /\ HandsInv /\ Queued /\ QueuedOnce
      /\ c \in Threads /\ c \notin Workers /\ todo[c] \in Seq(Task)
      /\ pc \in [Threads -> WorkerPCs \cup ClientPCs]
      /\ pc[c] = "run" => cur[c] # NoTask
      BY PlacesOfThreads DEF ControlInv, TasksInv, HandsInv, PcFacts, TypeOK, Holding
<1>. USE DEF PcFacts, Goto, queueVars
<1>1. CASE Timeout(c)
  <2>1. pc[c] = "waiting" /\ pc' = [pc EXCEPT ![c] = "expired"]
        BY <1>1 DEF Timeout
  <2>2. \A d \in Clients : pc'[d] \in Suspended <=> pc[d] \in Suspended
        BY <1>f, <2>1 DEF Suspended
  <2>. QED BY <1>1, <2>2, TasksKept DEF Timeout
<1>2. CASE PostChild(c)
  <2>. DEFINE k == Head(todo[c])
  <2>1. k = todo[c][1] /\ k \in Task /\ 1 \in DOMAIN todo[c]
    <3>1. todo[c] # << >>
          BY <1>2 DEF PostChild
    <3>. QED BY <1>f, <3>1, Popped, LenProperties
  <2>2. Running(c) /\ status[k] = "new"
        BY <1>f, <2>1 DEF HandsInv, Posting
  <2>3. /\ local' = local /\ cur' = cur /\ todo' = [todo EXCEPT ![c] = Tail(@)]
        /\ todo[c] # << >> /\ pc[c] = "run"
        BY <1>2 DEF PostChild
  <2>4. CASE ~stopping /\ ~Full
    <3>1. /\ tasks' = Append(tasks, k) /\ status' = [status EXCEPT ![k] = "accepted"]
          /\ pc' = [pc EXCEPT ![c] = "notifyNotEmpty"]
          BY <1>2, <2>4 DEF PostChild, Becomes
    <3>2. Queued' /\ QueuedOnce'
          BY <1>f, <2>1, <2>2, <2>3, <3>1, InsertGlobal
    <3>3. pc'[c] = "notifyNotEmpty" /\ \A u \in Threads \ {c} : pc'[u] = pc[u]
          BY <1>f, <3>1
    <3>4. HandsInv'
          BY <1>f, <2>2, <2>3, <3>1, <3>3, PostNext
    <3>. QED BY <3>2, <3>4 DEF TasksInv, HandsInv
  <2>5. CASE stopping \/ Full
    <3>1. UNCHANGED <<tasks, pc>> /\ status' = [status EXCEPT ![k] = "refused"]
          BY <1>2, <2>5 DEF PostChild, Becomes
    <3>2. Queued' /\ QueuedOnce'
          BY <1>f, <2>1, <2>2, <2>3, <3>1, QueuesKept
    <3>3. pc'[c] = "run" /\ \A u \in Threads \ {c} : pc'[u] = pc[u]
          BY <2>3, <3>1
    <3>4. HandsInv'
          BY <1>f, <2>2, <2>3, <3>1, <3>3, PostNext
    <3>. QED BY <3>2, <3>4 DEF TasksInv, HandsInv
  <2>. QED BY <2>4, <2>5
<1>3. CASE EndTask(c)
  <2>1. Running(c) /\ cur[c] \in Task
        BY <1>3, <1>f, HandTypes DEF EndTask, Running
  <2>2. /\ status' = [status EXCEPT ![cur[c]] = "done"] /\ cur' = [cur EXCEPT ![c] = NoTask]
        /\ UNCHANGED <<tasks, local, todo>> /\ todo[c] = << >> /\ pc' = [pc EXCEPT ![c] = "idle"]
        BY <1>3, <1>f DEF EndTask, Becomes
  <2>3. status[cur[c]] = "running"
        BY <1>f, <2>1 DEF HandsInv, Held
  <2>4. Queued' /\ QueuedOnce'
        BY <1>f, <2>1, <2>2, <2>3, QueuesKept
  <2>5. pc'[c] = "idle" /\ \A u \in Threads \ {c} : pc'[u] = pc[u]
        BY <1>f, <2>2
  <2>6. HandsInv'
        BY <1>f, <2>1, <2>2, <2>5, EndToRun
  <2>. QED BY <2>4, <2>6 DEF TasksInv, HandsInv
<1>4. CASE NotifyWorkers(c)
  <2>1. \A d \in Clients : pc'[d] \in Suspended <=> pc[d] \in Suspended
    <3>1. PICK W \in OneOf(notEmpty) :
             pc' = [u \in Threads |-> IF u = c THEN IF cur[c] = NoTask THEN "idle" ELSE "run"
                                      ELSE IF u \in W THEN "woken" ELSE pc[u]]
          BY <1>4 DEF NotifyWorkers
    <3>2. pc[c] = "notifyNotEmpty" /\ \A d \in Clients : d \notin W /\ d \in Threads
          BY <1>4, <1>f DEF NotifyWorkers, OneOf, WaitSets
    <3>3. \A d \in Clients \ {c} : pc'[d] = pc[d]
          BY <3>1, <3>2
    <3>4. pc'[c] \in {"idle", "run"}
          BY <1>f, <3>1
    <3>. QED BY <3>2, <3>3, <3>4 DEF Suspended
  <2>. QED BY <1>4, <2>1, TasksKept DEF NotifyWorkers
<1>. QED BY <1>1, <1>2, <1>3, <1>4

\* Every step keeps every task in one place.
LEMMA TasksStep ==
    ASSUME ControlInv, ControlInv', TasksInv, [Next]_vars
    PROVE  TasksInv'
<1>f. PcFacts /\ WaitSets
      BY PlacesOfThreads DEF ControlInv
<1>1. ASSUME NEW w \in Workers, WorkerStep(w)
      PROVE  TasksInv'
      BY <1>1, WorkerTasks
<1>2. ASSUME NEW c \in Clients, StartSubmit(c) \/ Resume(c)
      PROVE  TasksInv'
  <2>1. PICK k \in Task, o \in SubmitOps \cup {NoOp} : InSection(c, k, o) /\ Submit(c, k, o)
        BY <1>2, Submission DEF ControlInv
  <2>. QED BY <2>1, SubmitTasks
<1>3. ASSUME NEW c \in Clients, Timeout(c) \/ PostChild(c) \/ EndTask(c) \/ NotifyWorkers(c)
      PROVE  TasksInv'
      BY <1>3, ClientTasks
<1>4. ASSUME NEW t \in Threads, SpuriousWakeup(t)
      PROVE  TasksInv'
  <2>1. \A d \in Clients : pc'[d] \in Suspended <=> pc[d] \in Suspended
        BY <1>4, <1>f DEF SpuriousWakeup, Goto, PcFacts, Suspended
  <2>. QED BY <1>4, <2>1, TasksKept DEF SpuriousWakeup, queueVars
<1>5. CASE DestructorStep
  <2>1. \A d \in Clients : pc'[d] \in Suspended <=> pc[d] \in Suspended
        BY <1>5, <1>f DEF DestructorStep, SetStopping, NotifyAllWorkers, NotifyAllProducers, Join,
                          WaitSets, PcFacts, Suspended
  <2>2. UNCHANGED <<tasks, local, cur, todo, status>>
        BY <1>5 DEF DestructorStep, SetStopping, NotifyAllWorkers, NotifyAllProducers, Join, queueVars
  <2>. QED BY <2>1, <2>2, TasksKept
<1>6. CASE UNCHANGED vars
      BY <1>6, TasksKept DEF vars
<1>. QED BY <1>1, <1>2, <1>3, <1>4, <1>5, <1>6 DEF Next, ClientStep, Finished

\* A new pool has no task.
LEMMA TasksInit == ASSUME Init PROVE TasksInv
<1>1. /\ tasks = << >> /\ \A w \in Workers : local[w] = << >>
      /\ \A t \in Threads : cur[t] = NoTask /\ todo[t] = << >>
      /\ \A k \in Task : status[k] = "new"
      /\ \A c \in Clients : pc[c] = "idle"
      BY ThreadAssumption DEF Init, Threads
<1>2. DOMAIN << >> = {}
      OBVIOUS
<1>3. Queued /\ QueuedOnce
      BY <1>1, <1>2 DEF Queued, QueuedOnce
<1>4. HeldOnce /\ Held
      BY <1>1 DEF HeldOnce, Held, Running
<1>5. Posting
      BY <1>1, <1>2 DEF Posting
<1>. QED BY <1>3, <1>4, <1>5 DEF TasksInv

\* The inductive invariant.
LEMMA PoolAlways == Spec => []PoolInv
<1>1. Init => PoolInv
      BY ControlInit, TasksInit DEF PoolInv
<1>2. PoolInv /\ [Next]_vars => PoolInv'
      BY ControlStep, TasksStep DEF PoolInv
<1>. QED BY <1>1, <1>2, PTL DEF Spec

\* Where a task's copies are.
LEMMA CopiesOfTask ==
    ASSUME NEW k, NEW x
    PROVE  x \in Copies(k) <=> \/ \E i \in DOMAIN tasks : tasks[i] = k /\ x = <<"global", i>>
                               \/ \E w \in Workers : \E i \in DOMAIN local[w] :
                                     local[w][i] = k /\ x = <<w, i>>
<1>1. x \in {<<"global", i>> : i \in Places(tasks, k)}
         <=> \E i \in DOMAIN tasks : tasks[i] = k /\ x = <<"global", i>>
      BY DEF Places
<1>2. ASSUME NEW w \in Workers
      PROVE  x \in {<<w, i>> : i \in Places(local[w], k)}
                <=> \E i \in DOMAIN local[w] : local[w][i] = k /\ x = <<w, i>>
      BY DEF Places
<1>. QED BY <1>1, <1>2 DEF Copies

\* The invariant counts one place for an accepted task, and one thread for a
\* running one.
LEMMA OnePlace == ASSUME PoolInv PROVE EachTaskInOnePlace
<1>f. TypeOK /\ Queued /\ QueuedOnce /\ HeldOnce /\ Held
      BY DEF PoolInv, ControlInv, TasksInv
<1>1. ASSUME NEW k \in Task, status[k] = "accepted"
      PROVE  Cardinality(Copies(k)) = 1
  <2>1. \E x : Copies(k) = {x}
    <3>1. ASSUME NEW i \in DOMAIN tasks, tasks[i] = k
          PROVE  Copies(k) = {<<"global", i>>}
      <4>1. \A x \in Copies(k) : x = <<"global", i>>
            BY <1>f, <3>1, CopiesOfTask DEF QueuedOnce
      <4>2. <<"global", i>> \in Copies(k)
            BY <3>1, CopiesOfTask
      <4>. QED BY <4>1, <4>2
    <3>2. ASSUME NEW w \in Workers, NEW i \in DOMAIN local[w], local[w][i] = k
          PROVE  Copies(k) = {<<w, i>>}
      <4>1. \A x \in Copies(k) : x = <<w, i>>
            BY <1>f, <3>2, CopiesOfTask DEF QueuedOnce
      <4>2. <<w, i>> \in Copies(k)
            BY <3>2, CopiesOfTask
      <4>. QED BY <4>1, <4>2
    <3>. QED BY <1>f, <1>1, <3>1, <3>2 DEF Queued
  <2>. QED BY <2>1, FS_Singleton
<1>2. ASSUME NEW k \in Task, status[k] # "accepted"
      PROVE  Cardinality(Copies(k)) = 0
  <2>1. Copies(k) = {}
        BY <1>f, <1>2, CopiesOfTask DEF Queued
  <2>. QED BY <2>1, FS_EmptySet
<1>3. ASSUME NEW k \in Task, status[k] = "running"
      PROVE  Cardinality({t \in Threads : Running(t) /\ cur[t] = k}) = 1
  <2>1. PICK t \in Threads : Running(t) /\ cur[t] = k
        BY <1>f, <1>3 DEF Held
  <2>2. \A u \in Threads : Running(u) /\ cur[u] = k => u = t
        BY <1>f, <2>1 DEF HeldOnce, Running
  <2>3. {u \in Threads : Running(u) /\ cur[u] = k} = {t}
        BY <2>1, <2>2
  <2>. QED BY <2>3, FS_Singleton
<1>4. ASSUME NEW k \in Task, status[k] # "running"
      PROVE  Cardinality({t \in Threads : Running(t) /\ cur[t] = k}) = 0
  <2>1. {t \in Threads : Running(t) /\ cur[t] = k} = {}
        BY <1>f, <1>4 DEF Held
  <2>. QED BY <2>1, FS_EmptySet
<1>. QED BY <1>f, <1>1, <1>2, <1>3, <1>4 DEF EachTaskInOnePlace

\* An owner that pops and pushes at the front of its queue, the thieves at
\* its back and the users of the global queue never lose a task and never
\* share one (LocalTaskQueue, WorkerLoop).
THEOREM NoTaskIsLostOrDoubled == Spec => []EachTaskInOnePlace
BY PoolAlways, OnePlace, PTL

-----------------------------------------------------------------------------
(***************************************************************************)
(* The pool implements the task executor.                                  *)
(***************************************************************************)

\* When the workers have all returned, no accepted task is left.
LEMMA NothingLeft ==
    ASSUME PoolInv, \A w \in Workers : pc[w] = "exited"
    PROVE  \A k \in Task : status[k] # "accepted"
<1>1. 0 \in Workers
      BY PoolAssumption DEF Workers
<1>2. tasks = << >> /\ \A w \in Workers : local[w] = << >>
      BY <1>1 DEF PoolInv, ControlInv, SeenUnderMutex, OwnQueueEmpty
<1>. QED BY <1>2 DEF PoolInv, TasksInv, Queued

\* A step of the pool is a step of the executor, or changes nothing it sees.
LEMMA ExecutorStep ==
    ASSUME PoolInv, PoolInv', [Next]_vars
    PROVE  [Executor!ExecNext]_Executor!execVars
<1>f. /\ TypeOK /\ Queued /\ HandsInv /\ DestructorInv /\ ControlInv /\ PcFacts /\ Holding
      /\ status \in [Task -> {"new", "accepted", "running", "done", "refused"}]
      BY PlacesOfThreads, HandTypes
         DEF PoolInv, ControlInv, TasksInv, HandsInv
<1>. USE DEF Executor!ExecNext, Executor!execVars, Executor!Step, queueVars, Becomes
<1>1. ASSUME NEW w \in Workers, PopLocal(w) \/ PopGlobal(w) \/ Steal(w)
      PROVE  [Executor!ExecNext]_Executor!execVars
  <2>1. CASE UNCHANGED status
        BY <1>1, <2>1 DEF PopLocal, PopGlobal, Steal
  <2>2. ASSUME NEW k \in Task, status[k] = "accepted", Hold(w, k)
        PROVE  [Executor!ExecNext]_Executor!execVars
    <3>1. Executor!Begin(k)
          BY <1>1, <2>2 DEF Executor!Begin, Hold, PopLocal, PopGlobal, Steal
    <3>. QED BY <3>1
  <2>3. CASE PopLocal(w) /\ local[w] # << >>
    <3>1. Head(local[w]) = local[w][1] /\ local[w][1] \in Task /\ 1 \in DOMAIN local[w]
          BY <1>f, <2>3, Popped, LenProperties DEF TypeOK
    <3>. QED BY <1>f, <2>2, <2>3, <3>1 DEF PopLocal, Queued
  <2>4. CASE PopGlobal(w) /\ tasks # << >>
    <3>1. Head(tasks) = tasks[1] /\ tasks[1] \in Task /\ 1 \in DOMAIN tasks
          BY <1>f, <2>4, Popped, LenProperties DEF TypeOK
    <3>. QED BY <1>f, <2>2, <2>4, <3>1 DEF PopGlobal, Queued
  <2>5. CASE Steal(w) /\ local[Victim(w)] # << >>
    <3>. DEFINE q == local[Victim(w)]
    <3>1. q \in Seq(Task) /\ Victim(w) \in Workers
          BY <1>f, VictimIsWorker DEF TypeOK
    <3>2. q[Len(q)] \in Task /\ Len(q) \in DOMAIN q
          BY <2>5, <3>1, Popped, LenProperties
    <3>. QED BY <1>f, <2>2, <2>5, <3>1, <3>2 DEF Steal, Queued
  <2>. QED BY <1>1, <2>1, <2>3, <2>4, <2>5 DEF PopLocal, PopGlobal, Steal
<1>2. ASSUME NEW t \in Threads, t \in Workers => PushOwner(t), t \in Clients => PostChild(t)
      PROVE  [Executor!ExecNext]_Executor!execVars
  <2>. DEFINE k == Head(todo[t])
  <2>1. k = todo[t][1] /\ k \in Task /\ 1 \in DOMAIN todo[t]
    <3>1. todo[t] # << >> /\ todo[t] \in Seq(Task)
          BY <1>2, <1>f, HandTypes DEF PushOwner, PostChild, PcFacts
    <3>. QED BY <3>1, Popped, LenProperties
  <2>2. status[k] = "new"
        BY <1>f, <2>1 DEF HandsInv, Posting
  <2>3. CASE t \in Workers
    <3>1. dtor # "joined"
          BY <1>2, <1>f, <2>3 DEF PushOwner, DestructorInv
    <3>2. Executor!Accept(k)
          BY <1>2, <2>2, <2>3, <3>1 DEF PushOwner, Executor!Accept
    <3>. QED BY <2>1, <3>2
  <2>4. CASE t \in Clients /\ ~stopping /\ ~Full
    <3>1. dtor # "joined"
          BY <1>f, <2>4 DEF DestructorInv
    <3>2. Executor!Accept(k)
          BY <1>2, <2>2, <2>4, <3>1 DEF PostChild, Executor!Accept
    <3>. QED BY <2>1, <3>2
  <2>5. CASE t \in Clients /\ (stopping \/ Full)
    <3>1. Executor!Refuse(k)
          BY <1>2, <2>2, <2>5 DEF PostChild, Executor!Refuse
    <3>. QED BY <2>1, <3>1
  <2>. QED BY <1>f, <2>3, <2>4, <2>5 DEF PcFacts
<1>3. ASSUME NEW t \in Threads, EndTask(t)
      PROVE  [Executor!ExecNext]_Executor!execVars
  <2>1. cur[t] # NoTask
        BY <1>3, <1>f DEF EndTask, Holding, PcFacts
  <2>2. cur[t] \in Task /\ status[cur[t]] = "running"
        BY <1>3, <1>f, <2>1, HandTypes DEF EndTask, Running, HandsInv, Held
  <2>3. Executor!End(cur[t])
        BY <1>3, <2>2 DEF EndTask, Executor!End
  <2>. QED BY <2>2, <2>3
<1>4. ASSUME NEW c \in Clients, StartSubmit(c) \/ Resume(c)
      PROVE  [Executor!ExecNext]_Executor!execVars
  <2>1. PICK k \in Task, o \in SubmitOps \cup {NoOp} : InSection(c, k, o) /\ Submit(c, k, o)
        BY <1>4, <1>f, Submission
  <2>2. status[k] = "new"
        BY <1>f, <2>1, RootInHand
  <2>3. CASE Enqueue(c, k, o)
    <3>1. Executor!Accept(k)
          BY <1>f, <2>2, <2>3 DEF Enqueue, DestructorInv, Executor!Accept
    <3>. QED BY <3>1
  <2>4. CASE Refuse(c, k, o)
    <3>1. Executor!Refuse(k)
          BY <2>2, <2>4 DEF Refuse, Executor!Refuse
    <3>. QED BY <3>1
  <2>5. CASE RunHere(c, k, o)
    <3>1. Executor!RunByCaller(k)
          BY <2>2, <2>5 DEF RunHere, Hold, Executor!RunByCaller
    <3>. QED BY <3>1
  <2>6. CASE WaitNotFull(c, k, o)
        BY <2>6 DEF WaitNotFull
  <2>. QED BY <2>1, <2>3, <2>4, <2>5, <2>6 DEF Submit
<1>5. CASE DestructorStep
  <2>1. CASE Join
    <3>1. Executor!Vanish
          BY <2>1, NothingLeft DEF Join, Executor!Vanish
    <3>. QED BY <3>1
  <2>2. CASE SetStopping \/ NotifyAllWorkers \/ NotifyAllProducers
        BY <2>2 DEF SetStopping, NotifyAllWorkers, NotifyAllProducers
  <2>. QED BY <1>5, <2>1, <2>2 DEF DestructorStep
<1>6. ASSUME NEW t \in Threads, NotifyNotFull(t) \/ EnterWait(t) \/ CheckStealable(t) \/ CheckExit(t)
                                \/ CheckDrained(t) \/ NotifyWorkers(t) \/ Timeout(t) \/ SpuriousWakeup(t)
      PROVE  [Executor!ExecNext]_Executor!execVars
  <2>1. UNCHANGED <<status, dtor>>
        BY <1>6 DEF NotifyNotFull, EnterWait, CheckStealable, CheckExit, CheckDrained, NotifyWorkers,
                    Timeout, SpuriousWakeup
  <2>. QED BY <2>1
<1>7. CASE UNCHANGED vars
      BY <1>7 DEF vars
<1>8. ASSUME NEW w \in Workers, WorkerStep(w)
      PROVE  [Executor!ExecNext]_Executor!execVars
      BY <1>1, <1>2, <1>3, <1>6, <1>8, <1>f DEF WorkerStep, PcFacts
<1>9. ASSUME NEW c \in Clients, StartSubmit(c) \/ ClientStep(c)
      PROVE  [Executor!ExecNext]_Executor!execVars
      BY <1>2, <1>3, <1>4, <1>6, <1>9, <1>f DEF ClientStep, PcFacts
<1>. QED BY <1>5, <1>6, <1>7, <1>8, <1>9 DEF Next, Finished

\* Every behaviour of the pool is one of a task executor: an accepted task is
\* started once, and has finished when the destructor has joined its threads.
THEOREM PoolImplementsExecutor == Spec => ImplementsExecutor
<1>1. Init => Executor!ExecInit
      BY DEF Init, Executor!ExecInit
<1>. QED BY <1>1, PoolAlways, ExecutorStep, PTL DEF Spec, ImplementsExecutor, Executor!ExecSpec
=============================================================================
