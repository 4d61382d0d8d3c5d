------------------------ MODULE TimerSchedulerProofs ------------------------
(***************************************************************************)
(* Theorems about TimerScheduler, for any threads that use it, any finite  *)
(* executor, any delays and any number of timers.                          *)
(*                                                                         *)
(* The invariant has four parts: the heap and the lists of timers, where   *)
(* each timer is and what that says about its record, who owns the shots   *)
(* that are in flight, and who is where.                                   *)
(***************************************************************************)
EXTENDS TimerScheduler, FiniteSetTheorems, SequenceTheorems, TLAPS

Entries == [id : Ids, left : 0 .. MaxDelay]

-----------------------------------------------------------------------------
(***************************************************************************)
(* Where the timers are.                                                   *)
(***************************************************************************)

\* The heap is in the order of its deadlines, and has no timer twice.
Sorted(h)   == \A j, k \in 1 .. Len(h) : j <= k => h[j].left <= h[k].left
Distinct(h) == \A j, k \in 1 .. Len(h) : h[j].id = h[k].id => j = k
Has(h, i)   == \E k \in 1 .. Len(h) : h[k].id = i

\* It is behind the first m entries.
HasAfter(h, m, i) == \E k \in 1 .. Len(h) : k > m /\ h[k].id = i

\* The timers of the ready list, of the executor's queue and of its threads.
IsReady(i)   == \E k \in 1 .. Len(ready) : ready[k] = i /\ (k = 1 => worker # "release")
IsAt(i, l)   == \E p \in PoolThreads : pool[p] = l /\ shot[p].id = i
Busy(p)      == pool[p] \in {"begin", "callback"}

\* Nobody has a timer twice.
ListsDistinct ==
    /\ Sorted(heap) /\ Distinct(heap) /\ Distinct(queue)
    /\ \A j, k \in 1 .. Len(ready) : ready[j] = ready[k] => j = k
    /\ \A p, q \in PoolThreads : Busy(p) /\ Busy(q) /\ shot[p].id = shot[q].id => p = q

\* One place has it at most.
OnePlace(i) ==
    /\ Has(heap, i) => ~IsReady(i) /\ ~Has(queue, i) /\ ~IsAt(i, "begin") /\ ~IsAt(i, "callback")
    /\ IsReady(i) => ~Has(queue, i) /\ ~IsAt(i, "begin") /\ ~IsAt(i, "callback")
    /\ Has(queue, i) => ~IsAt(i, "begin") /\ ~IsAt(i, "callback")
    /\ IsAt(i, "begin") => ~IsAt(i, "callback")

Placed(i) == Has(heap, i) \/ IsReady(i) \/ Has(queue, i) \/ IsAt(i, "begin") \/ IsAt(i, "callback")

\* Its place and its record agree.
Recorded(i) ==
    /\ Has(heap, i) => states[i] \in {"Pending", "Cancelled"}
    /\ IsReady(i) \/ Has(queue, i) \/ IsAt(i, "begin") => states[i] \in {"Submitted", "Cancelled"}
    /\ IsAt(i, "callback") => states[i] \in {"Executing", "Cancelled"}
    /\ states[i] = "Pending" => Has(heap, i)
    /\ states[i] = "Executing" => IsAt(i, "callback")
    /\ states[i] # "none" => Placed(i) \/ i \in stranded
    /\ i >= nextId => ~Placed(i) /\ states[i] = "none"

PlacesInv == ListsDistinct /\ \A i \in Ids : OnePlace(i) /\ Recorded(i)

-----------------------------------------------------------------------------
(***************************************************************************)
(* Who owns the shots in flight.                                           *)
(***************************************************************************)

\* Threads of the executor with a wrapper.
Wrapping == {p \in PoolThreads : pool[p] \in {"begin", "callback", "notify", "destroy"}}

\* The shot the worker has to finish itself, or has not handed over yet.
Held == IF holds = "sole" \/ worker = "post" THEN 1 ELSE 0

Flight == inFlight = Len(queue) + Cardinality(Wrapping) + Held

\* The worker owns a shot while it posts it, and shares one with at most one
\* wrapper.
Sharing ==
    /\ worker = "post" => holds = "shared"
    /\ worker = "rejected" => holds = "sole"
    /\ worker = "release" => holds # "none"
    /\ worker \notin {"post", "rejected", "release"} => holds = "none"
    /\ \A k \in 1 .. Len(queue) : queue[k].shared => worker = "release" /\ holds = "shared"
    /\ \A p \in PoolThreads : shot[p].shared => worker = "release" /\ holds = "shared"
    /\ \A j, k \in 1 .. Len(queue) : queue[j].shared /\ queue[k].shared => j = k
    /\ \A p, q \in PoolThreads : shot[p].shared /\ shot[q].shared => p = q
    /\ \A k \in 1 .. Len(queue), p \in PoolThreads : ~(queue[k].shared /\ shot[p].shared)

FlightInv == Flight /\ Sharing

-----------------------------------------------------------------------------
(***************************************************************************)
(* Who is where.                                                           *)
(***************************************************************************)

\* A thread of the executor has a shot while it has a wrapper; the worker has
\* ready timers while it dispatches them.
Wrappers == \A p \in PoolThreads :
    IF pool[p] \in {"idle", "finish"} THEN shot[p] = NoShot ELSE shot[p] \in Shots

Dispatching ==
    /\ worker \in {"post", "rejected", "release"} => ready # << >>
    /\ ready # << >> => worker \in {"dispatch", "post", "rejected", "release", "finish"}

\* The life of the scheduler and of its worker.
Phases ==
    /\ scheduler = "Created" => worker = "none" /\ nextId = 1 /\ \A p \in PoolThreads : pool[p] = "idle"
    /\ worker = "none" => scheduler \in {"Created", "Stopped"}
    /\ worker = "exited" => scheduler \in {"Stopping", "Stopped"}
    /\ \A t \in Threads :
          /\ api[t] \in {"stopNotify", "join"} => scheduler # "Created"
          /\ api[t] \in {"drain", "drainWait", "drainWoken"} =>
                worker \in {"none", "exited"} /\ scheduler # "Created"
    /\ sleepers = {t \in Threads : api[t] = "drainWait"}

ControlInv == /\ TypeOK /\ Wrappers /\ Dispatching /\ Phases
              /\ StoppedIsQuiet /\ SleepsOnTheRightDeadline

TimerInv == ControlInv /\ PlacesInv /\ FlightInv

-----------------------------------------------------------------------------
(***************************************************************************)
(* The heap's operators.                                                   *)
(***************************************************************************)

\* A set of positions that has every position before one of its own is a
\* prefix, as long as it has members.
LEMMA PrefixIsInterval ==
    ASSUME NEW n \in Nat, NEW S \in SUBSET (1 .. n),
           \A j, k \in 1 .. n : j <= k /\ k \in S => j \in S
    PROVE  IsFiniteSet(S) /\ Cardinality(S) \in 0 .. n /\ S = 1 .. Cardinality(S)
<1>1. IsFiniteSet(1 .. n) /\ Cardinality(1 .. n) = n
  BY FS_Interval, SMT
<1>2. IsFiniteSet(S) /\ Cardinality(S) <= n
  BY <1>1, FS_Subset
<1>3. Cardinality(S) \in Nat
  BY <1>2, FS_CardinalityType
<1>4. S \subseteq 1 .. Cardinality(S)
  <2> SUFFICES ASSUME NEW x \in S PROVE x \in 1 .. Cardinality(S)
    OBVIOUS
  <2>1. x \in 1 .. n
    OBVIOUS
  <2>2. (1 .. x) \subseteq S
    <3> SUFFICES ASSUME NEW j \in 1 .. x PROVE j \in S
      OBVIOUS
    <3>1. j \in 1 .. n /\ j <= x
      BY <2>1, SMT
    <3> QED
      BY <2>1, <3>1
  <2>3. Cardinality(1 .. x) <= Cardinality(S)
    BY <2>2, <1>2, FS_Subset
  <2>4. Cardinality(1 .. x) = x
    BY <2>1, FS_Interval, SMT
  <2> QED
    BY <2>1, <2>3, <2>4, <1>3, SMT
<1>5. /\ IsFiniteSet(1 .. Cardinality(S))
      /\ Cardinality(1 .. Cardinality(S)) = Cardinality(S)
  BY <1>3, FS_Interval, SMT
<1>6. S = 1 .. Cardinality(S)
  <2> DEFINE T == 1 .. Cardinality(S)
  <2>1. IsFiniteSet(T) /\ S \in SUBSET T /\ Cardinality(T) = Cardinality(S)
    BY <1>4, <1>5
  <2> HIDE DEF T
  <2>2. T = S
    BY <2>1, FS_Subset
  <2> QED
    BY <2>2 DEF T
<1> QED
  BY <1>2, <1>3, <1>6, SMT

\* Dropping the first m entries leaves the heap in order.
LEMMA Dropped ==
    ASSUME NEW h \in Seq(Entries), NEW m \in 0 .. Len(h), NEW d,
           d = SubSeq(h, m + 1, Len(h))
    PROVE  /\ d \in Seq(Entries) /\ Len(d) = Len(h) - m
           /\ \A k \in 1 .. Len(d) : k + m \in 1 .. Len(h) /\ d[k] = h[k + m]
           /\ Sorted(h) => Sorted(d)
           /\ Distinct(h) => Distinct(d)
           /\ \A i : Has(d, i) <=> HasAfter(h, m, i)
<1>1. Len(h) \in Nat /\ m \in Nat /\ m <= Len(h)
  BY LenProperties, SMT
<1>2. \A k \in m + 1 .. Len(h) : h[k] \in Entries
  BY <1>1, ElementOfSeq, SMT
<1>3. /\ SubSeq(h, m + 1, Len(h)) \in Seq(Entries)
      /\ Len(SubSeq(h, m + 1, Len(h))) = IF m + 1 <= Len(h) THEN Len(h) - (m + 1) + 1 ELSE 0
      /\ \A k \in 1 .. Len(h) - (m + 1) + 1 : SubSeq(h, m + 1, Len(h))[k] = h[m + 1 + k - 1]
  <2>1. m + 1 \in Int /\ Len(h) \in Int
    BY <1>1, SMT
  <2> QED
    BY <2>1, <1>2, SubSeqProperties
<1>4. d \in Seq(Entries) /\ Len(d) = Len(h) - m
  BY <1>1, <1>3, SMT
<1>5. \A k \in 1 .. Len(d) : k + m \in 1 .. Len(h) /\ d[k] = h[k + m]
  <2> SUFFICES ASSUME NEW k \in 1 .. Len(d)
               PROVE  k + m \in 1 .. Len(h) /\ d[k] = h[k + m]
    OBVIOUS
  <2>1. k \in 1 .. Len(h) - (m + 1) + 1 /\ m + 1 + k - 1 = k + m /\ k + m \in 1 .. Len(h)
    BY <1>1, <1>4, SMT
  <2> QED
    BY <2>1, <1>3
<1>6. Sorted(h) => Sorted(d)
  BY <1>1, <1>4, <1>5, SMT DEF Sorted
<1>7. Distinct(h) => Distinct(d)
  BY <1>1, <1>4, <1>5, SMT DEF Distinct
<1>8. ASSUME NEW i PROVE Has(d, i) <=> HasAfter(h, m, i)
  <2>1. ASSUME Has(d, i) PROVE HasAfter(h, m, i)
    <3>1. PICK k \in 1 .. Len(d) : d[k].id = i
      BY <2>1 DEF Has
    <3>2. k + m \in 1 .. Len(h) /\ k + m > m /\ h[k + m].id = i
      BY <3>1, <1>1, <1>4, <1>5, SMT
    <3> QED
      BY <3>2 DEF HasAfter
  <2>2. ASSUME HasAfter(h, m, i) PROVE Has(d, i)
    <3>0. PICK k \in 1 .. Len(h) : k > m /\ h[k].id = i
      BY <2>2 DEF HasAfter
    <3>1. k - m \in 1 .. Len(d) /\ (k - m) + m = k
      BY <3>0, <1>1, <1>4, SMT
    <3>2. d[k - m].id = i
      BY <3>1, <1>5, <3>0
    <3> QED
      BY <3>1, <3>2 DEF Has
  <2> QED
    BY <2>1, <2>2
<1> QED
  BY <1>4, <1>5, <1>6, <1>7, <1>8

\* A push puts the entry behind the earlier ones and before the later ones.
LEMMA PushShape ==
    ASSUME NEW h \in Seq(Entries), Sorted(h), NEW e \in Entries
    PROVE  \E n \in 0 .. Len(h) :
              /\ Push(h, e) \in Seq(Entries) /\ Len(Push(h, e)) = Len(h) + 1
              /\ \A k \in 1 .. n : Push(h, e)[k] = h[k] /\ h[k].left <= e.left
              /\ Push(h, e)[n + 1] = e
              /\ \A k \in n + 1 .. Len(h) : Push(h, e)[k + 1] = h[k] /\ e.left <= h[k].left
<1> DEFINE S == {i \in DOMAIN h : Before(h[i], e)}
           A == {i \in 1 .. Len(h) : h[i].left < e.left}
           B == {i \in 1 .. Len(h) : h[i].left <= e.left}
           n == Cardinality(S)
<1>1. Len(h) \in Nat /\ DOMAIN h = 1 .. Len(h)
  BY LenProperties
<1>2. /\ \A k \in 1 .. Len(h) : h[k] \in Entries /\ h[k].left \in 0 .. MaxDelay
      /\ e.left \in 0 .. MaxDelay
  <2>1. \A k \in 1 .. Len(h) : h[k] \in Entries
    BY ElementOfSeq
  <2> QED
    BY <2>1 DEF Entries
<1>3. IsFiniteSet(A) /\ Cardinality(A) \in 0 .. Len(h) /\ A = 1 .. Cardinality(A)
  <2>1. A \in SUBSET (1 .. Len(h))
    OBVIOUS
  <2>2. \A j, k \in 1 .. Len(h) : j <= k /\ k \in A => j \in A
    BY <1>1, <1>2, BoundAssumption, SMT DEF Sorted
  <2> HIDE DEF A
  <2> QED
    BY <1>1, <2>1, <2>2, PrefixIsInterval
<1>4. IsFiniteSet(B) /\ Cardinality(B) \in 0 .. Len(h) /\ B = 1 .. Cardinality(B)
  <2>1. B \in SUBSET (1 .. Len(h))
    OBVIOUS
  <2>2. \A j, k \in 1 .. Len(h) : j <= k /\ k \in B => j \in B
    BY <1>1, <1>2, BoundAssumption, SMT DEF Sorted
  <2> HIDE DEF B
  <2> QED
    BY <1>1, <2>1, <2>2, PrefixIsInterval
<1>5. A \subseteq S /\ S \subseteq B
  BY <1>1, <1>2, BoundAssumption, SMT DEF Before
<1>6. n \in Nat /\ Cardinality(A) <= n /\ n <= Cardinality(B)
  <2> HIDE DEF A, B, S
  <2>1. IsFiniteSet(S) /\ n <= Cardinality(B)
    BY <1>4, <1>5, FS_Subset
  <2>2. Cardinality(A) <= n
    BY <1>5, <2>1, FS_Subset
  <2> QED
    BY <2>1, <2>2, FS_CardinalityType
<1>7. n \in 0 .. Len(h)
  BY <1>1, <1>3, <1>4, <1>6, SMT
<1>8. \A k \in 1 .. n : h[k].left <= e.left
  <2> SUFFICES ASSUME NEW k \in 1 .. n PROVE h[k].left <= e.left
    OBVIOUS
  <2>1. k \in 1 .. Cardinality(B)
    <3> HIDE DEF B, S
    <3> QED
      BY <1>4, <1>6, SMT
  <2>2. k \in B
    BY <2>1, <1>4
  <2> QED
    BY <2>2
<1>9. \A k \in n + 1 .. Len(h) : e.left <= h[k].left
  <2> SUFFICES ASSUME NEW k \in n + 1 .. Len(h) PROVE e.left <= h[k].left
    OBVIOUS
  <2>1. k \notin 1 .. Cardinality(A) /\ k \in 1 .. Len(h)
    <3> HIDE DEF A, S
    <3> QED
      BY <1>1, <1>3, <1>6, SMT
  <2>2. k \notin A
    BY <2>1, <1>3
  <2> QED
    BY <2>1, <2>2, <1>2, BoundAssumption, SMT
<1> HIDE DEF A, B, S
<1> DEFINE front == SubSeq(h, 1, n)
           back == SubSeq(h, n + 1, Len(h))
<1>10. Push(h, e) = (front \o <<e>>) \o back
  BY DEF Push, S, n
<1> HIDE DEF n
<1>11. /\ front \in Seq(Entries) /\ Len(front) = n
       /\ \A k \in 1 .. n : front[k] = h[k]
  <2>1. \A k \in 1 .. n : h[k] \in Entries
    BY <1>1, <1>2, <1>7, SMT
  <2>2. n \in Int /\ 1 \in Int
    BY <1>7, SMT
  <2>3. /\ front \in Seq(Entries) /\ Len(front) = IF 1 <= n THEN n - 1 + 1 ELSE 0
        /\ \A k \in 1 .. n - 1 + 1 : front[k] = h[1 + k - 1]
    BY <2>1, <2>2, SubSeqProperties
  <2>4. Len(front) = n
    BY <2>3, <1>7, SMT
  <2>5. ASSUME NEW k \in 1 .. n PROVE front[k] = h[k]
    <3>1. k \in 1 .. n - 1 + 1 /\ 1 + k - 1 = k
      BY <1>7, SMT
    <3> QED
      BY <2>3, <3>1
  <2> QED
    BY <2>3, <2>4, <2>5
<1>12. /\ back \in Seq(Entries) /\ Len(back) = Len(h) - n
       /\ \A k \in 1 .. Len(back) : k + n \in 1 .. Len(h) /\ back[k] = h[k + n]
  BY <1>7, Dropped
<1> HIDE DEF front, back
<1>13. <<e>> \in Seq(Entries) /\ Len(<<e>>) = 1 /\ <<e>>[1] = e
  OBVIOUS
<1>14. /\ front \o <<e>> \in Seq(Entries) /\ Len(front \o <<e>>) = n + 1
       /\ \A k \in 1 .. n : (front \o <<e>>)[k] = h[k]
       /\ (front \o <<e>>)[n + 1] = e
  <2>1. /\ front \o <<e>> \in Seq(Entries) /\ Len(front \o <<e>>) = n + 1
        /\ \A k \in 1 .. n + 1 : (front \o <<e>>)[k] = IF k <= n THEN front[k] ELSE <<e>>[k - n]
    BY <1>11, <1>13, ConcatProperties
  <2>2. ASSUME NEW k \in 1 .. n PROVE (front \o <<e>>)[k] = h[k]
    <3>1. k \in 1 .. n + 1 /\ k <= n
      BY <1>7, SMT
    <3> QED
      BY <3>1, <2>1, <1>11
  <2>3. (front \o <<e>>)[n + 1] = e
    <3>1. n + 1 \in 1 .. n + 1 /\ ~(n + 1 <= n) /\ n + 1 - n = 1
      BY <1>7, SMT
    <3> QED
      BY <3>1, <2>1, <1>13
  <2> QED
    BY <2>1, <2>2, <2>3
<1> DEFINE f == front \o <<e>>
<1>15. f \in Seq(Entries) /\ Len(f) = n + 1 /\ (\A k \in 1 .. n : f[k] = h[k]) /\ f[n + 1] = e
  BY <1>14
<1>16. Push(h, e) = f \o back
  BY <1>10
<1> HIDE DEF f
<1>17. /\ f \o back \in Seq(Entries) /\ Len(f \o back) = n + 1 + (Len(h) - n)
       /\ \A k \in 1 .. n + 1 + (Len(h) - n) :
             (f \o back)[k] = IF k <= n + 1 THEN f[k] ELSE back[k - (n + 1)]
  <2>1. /\ f \o back \in Seq(Entries) /\ Len(f \o back) = Len(f) + Len(back)
        /\ \A k \in 1 .. Len(f) + Len(back) :
              (f \o back)[k] = IF k <= Len(f) THEN f[k] ELSE back[k - Len(f)]
    BY <1>12, <1>15, ConcatProperties
  <2>2. Len(f) = n + 1 /\ Len(back) = Len(h) - n
    BY <1>12, <1>15
  <2> QED
    BY <2>1, <2>2
<1>18. Len(f \o back) = Len(h) + 1
  BY <1>17, <1>7, <1>1, SMT
<1>19. ASSUME NEW k \in 1 .. n PROVE (f \o back)[k] = h[k]
  <2>1. k \in 1 .. n + 1 + (Len(h) - n) /\ k <= n + 1
    BY <1>1, <1>7, SMT
  <2> QED
    BY <2>1, <1>15, <1>17
<1>20. (f \o back)[n + 1] = e
  <2>1. n + 1 \in 1 .. n + 1 + (Len(h) - n) /\ n + 1 <= n + 1
    BY <1>1, <1>7, SMT
  <2> QED
    BY <2>1, <1>15, <1>17
<1>21. ASSUME NEW k \in n + 1 .. Len(h) PROVE (f \o back)[k + 1] = h[k]
  <2>1. PICK j \in Nat : j = k + 1
    BY <1>1, <1>7, SMT
  <2>2. /\ j \in 1 .. n + 1 + (Len(h) - n) /\ ~(j <= n + 1)
        /\ j - (n + 1) \in 1 .. Len(h) - n /\ j - (n + 1) + n = k
    BY <2>1, <1>1, <1>7, SMT
  <2>3. (f \o back)[j] = back[j - (n + 1)]
    BY <2>2, <1>17
  <2> QED
    BY <2>1, <2>2, <2>3, <1>12
<1> QED
  BY <1>7, <1>8, <1>9, <1>16, <1>17, <1>18, <1>19, <1>20, <1>21

\* A push keeps the order of the heap, and adds the one timer. The top stays
\* unless the entry is the earliest.
LEMMA Pushed ==
    ASSUME NEW h \in Seq(Entries), Sorted(h), Distinct(h),
           NEW e \in Entries, ~Has(h, e.id), NEW P, P = Push(h, e)
    PROVE  /\ P \in Seq(Entries) /\ Len(P) = Len(h) + 1
           /\ Sorted(P) /\ Distinct(P)
           /\ \A i : Has(P, i) <=> Has(h, i) \/ i = e.id
           /\ ~Earliest(h, e.left) =>
                /\ h # << >> /\ P[1].left = h[1].left
                /\ \A k \in 1 .. Len(h) : \E j \in 1 .. Len(P) : P[j] = h[k] /\ (j = 1 => k = 1)
<1>1. PICK n \in 0 .. Len(h) :
         /\ P \in Seq(Entries) /\ Len(P) = Len(h) + 1
         /\ \A k \in 1 .. n : P[k] = h[k] /\ h[k].left <= e.left
         /\ P[n + 1] = e
         /\ \A k \in n + 1 .. Len(h) : P[k + 1] = h[k] /\ e.left <= h[k].left
  BY PushShape
<1>2. Len(h) \in Nat /\ n \in Nat /\ n <= Len(h)
  BY LenProperties, SMT
<1>3. ASSUME NEW k \in 1 .. Len(P)
      PROVE  \/ k \in 1 .. n /\ P[k] = h[k]
             \/ k = n + 1 /\ P[k] = e
             \/ k - 1 \in n + 1 .. Len(h) /\ P[k] = h[k - 1]
  <2>1. CASE k \in 1 .. n
    BY <2>1, <1>1
  <2>2. CASE k = n + 1
    BY <2>2, <1>1
  <2>3. CASE k > n + 1
    <3>1. k - 1 \in n + 1 .. Len(h) /\ (k - 1) + 1 = k
      BY <2>3, <1>1, <1>2, SMT
    <3> QED
      BY <3>1, <1>1
  <2> QED
    BY <2>1, <2>2, <2>3, <1>2, <1>1, SMT
<1>4. /\ \A k \in 1 .. Len(h) : h[k] \in Entries /\ h[k].left \in 0 .. MaxDelay
      /\ e.left \in 0 .. MaxDelay
  <2>1. \A k \in 1 .. Len(h) : h[k] \in Entries
    BY ElementOfSeq
  <2> QED
    BY <2>1 DEF Entries
<1>5. Sorted(P)
  <2> SUFFICES ASSUME NEW j \in 1 .. Len(P), NEW k \in 1 .. Len(P), j <= k
               PROVE  P[j].left <= P[k].left
    BY DEF Sorted
  <2>0. \A a, b \in 1 .. Len(h) : a <= b => h[a].left <= h[b].left
    BY DEF Sorted
  <2>1. CASE j \in 1 .. n /\ k \in 1 .. n
    <3>1. P[j] = h[j] /\ P[k] = h[k] /\ j \in 1 .. Len(h) /\ k \in 1 .. Len(h)
      BY <2>1, <1>1, <1>2, SMT
    <3> QED
      BY <3>1, <2>0
  <2>2. CASE j \in 1 .. n /\ k = n + 1
    BY <2>2, <1>1
  <2>3. CASE j \in 1 .. n /\ k - 1 \in n + 1 .. Len(h)
    <3>1. P[j] = h[j] /\ P[k] = h[k - 1]
      BY <2>3, <1>1, <1>2, <1>3, SMT
    <3>2. j \in 1 .. Len(h) /\ k - 1 \in 1 .. Len(h) /\ j <= k - 1
      BY <2>3, <1>2, SMT
    <3> QED
      BY <3>1, <3>2, <2>0
  <2>4. CASE j = n + 1 /\ k = n + 1
    BY <2>4, <1>1, <1>4, SMT
  <2>5. CASE j = n + 1 /\ k - 1 \in n + 1 .. Len(h)
    <3>1. P[j] = e /\ P[k] = h[k - 1] /\ e.left <= h[k - 1].left
      BY <2>5, <1>1, <1>2, <1>3, SMT
    <3> QED
      BY <3>1
  <2>6. CASE j - 1 \in n + 1 .. Len(h) /\ k - 1 \in n + 1 .. Len(h)
    <3>1. P[j] = h[j - 1] /\ P[k] = h[k - 1]
      BY <2>6, <1>1, <1>2, <1>3, SMT
    <3>2. j - 1 \in 1 .. Len(h) /\ k - 1 \in 1 .. Len(h) /\ j - 1 <= k - 1
      BY <2>6, <1>2, SMT
    <3> QED
      BY <3>1, <3>2, <2>0
  <2> QED
    BY <2>1, <2>2, <2>3, <2>4, <2>5, <2>6, <1>1, <1>2, SMT
<1>6. Distinct(P)
  <2> SUFFICES ASSUME NEW j \in 1 .. Len(P), NEW k \in 1 .. Len(P), P[j].id = P[k].id
               PROVE  j = k
    BY DEF Distinct
  <2>0. /\ \A a, b \in 1 .. Len(h) : h[a].id = h[b].id => a = b
        /\ \A a \in 1 .. Len(h) : h[a].id # e.id
    BY DEF Distinct, Has
  <2>1. ASSUME NEW x \in 1 .. Len(P), x # n + 1
        PROVE  \E a \in 1 .. Len(h) : /\ P[x] = h[a]
                                      /\ a = IF x <= n THEN x ELSE x - 1
    <3>1. CASE x \in 1 .. n
      <4>1. x \in 1 .. Len(h) /\ x <= n
        BY <3>1, <1>2, SMT
      <4> QED
        BY <3>1, <4>1, <1>1
    <3>2. CASE x - 1 \in n + 1 .. Len(h) /\ P[x] = h[x - 1]
      <4>1. x - 1 \in 1 .. Len(h) /\ ~(x <= n)
        BY <3>2, <1>2, SMT
      <4> QED
        BY <3>2, <4>1
    <3> QED
      BY <1>3, <2>1, <3>1, <3>2
  <2>2. CASE j = n + 1 /\ k # n + 1
    BY <2>0, <2>1, <2>2, <1>1
  <2>3. CASE j # n + 1 /\ k = n + 1
    <3>1. PICK a \in 1 .. Len(h) : P[j] = h[a]
      BY <2>1, <2>3
    <3>2. P[k] = e
      BY <2>3, <1>1
    <3> QED
      BY <2>0, <3>1, <3>2
  <2>4. CASE j # n + 1 /\ k # n + 1
    <3>1. PICK a \in 1 .. Len(h) : P[j] = h[a] /\ a = IF j <= n THEN j ELSE j - 1
      BY <2>1, <2>4
    <3>2. PICK b \in 1 .. Len(h) : P[k] = h[b] /\ b = IF k <= n THEN k ELSE k - 1
      BY <2>1, <2>4
    <3>3. a = b
      <4>1. h[a].id = h[b].id
        BY <3>1, <3>2
      <4> QED
        BY <2>0, <4>1
    <3> QED
      BY <3>1, <3>2, <3>3, <2>4, <1>1, <1>2, SMT
  <2> QED
    BY <2>2, <2>3, <2>4
<1>7. ASSUME NEW k \in 1 .. Len(h)
      PROVE  \E j \in 1 .. Len(P) : P[j] = h[k] /\ (n > 0 /\ j = 1 => k = 1)
  <2>1. CASE k \in 1 .. n
    <3>1. k \in 1 .. Len(P) /\ P[k] = h[k]
      BY <2>1, <1>1, <1>2, SMT
    <3> QED
      BY <3>1
  <2>2. CASE k \in n + 1 .. Len(h)
    <3>1. k + 1 \in 1 .. Len(P) /\ P[k + 1] = h[k] /\ k + 1 # 1
      BY <2>2, <1>1, <1>2, SMT
    <3> QED
      BY <3>1
  <2> QED
    BY <2>1, <2>2, <1>2, SMT
<1>8. ASSUME NEW i PROVE Has(P, i) <=> Has(h, i) \/ i = e.id
  <2>1. ASSUME Has(P, i) PROVE Has(h, i) \/ i = e.id
    <3>1. PICK k \in 1 .. Len(P) : P[k].id = i
      BY <2>1 DEF Has
    <3>2. CASE k \in 1 .. n /\ P[k] = h[k]
      <4>1. k \in 1 .. Len(h)
        BY <3>2, <1>2, SMT
      <4> QED
        BY <4>1, <3>1, <3>2 DEF Has
    <3>3. CASE k - 1 \in n + 1 .. Len(h) /\ P[k] = h[k - 1]
      <4>1. k - 1 \in 1 .. Len(h)
        BY <3>3, <1>2, SMT
      <4> QED
        BY <4>1, <3>1, <3>3 DEF Has
    <3> QED
      BY <3>1, <3>2, <3>3, <1>3
  <2>2. ASSUME Has(h, i) PROVE Has(P, i)
    BY <2>2, <1>7 DEF Has
  <2>3. ASSUME i = e.id PROVE Has(P, i)
    <3>1. n + 1 \in 1 .. Len(P)
      BY <1>1, <1>2, SMT
    <3> QED
      BY <2>3, <3>1, <1>1 DEF Has
  <2> QED
    BY <2>1, <2>2, <2>3
<1>9. ASSUME ~Earliest(h, e.left)
      PROVE  /\ h # << >> /\ P[1].left = h[1].left
             /\ \A k \in 1 .. Len(h) : \E j \in 1 .. Len(P) : P[j] = h[k] /\ (j = 1 => k = 1)
  <2>1. h # << >> /\ ~(e.left < h[1].left)
    BY <1>9 DEF Earliest
  <2>2. CASE n = 0
    <3>1. 1 \in n + 1 .. Len(h) /\ 1 \in 1 .. Len(h)
      BY <2>1, <2>2, EmptySeq, <1>2, SMT
    <3>2. P[1] = e /\ e.left <= h[1].left
      BY <2>2, <3>1, <1>1
    <3>3. P[1].left = h[1].left
      BY <2>1, <3>1, <3>2, <1>4, BoundAssumption, SMT
    <3>4. ASSUME NEW k \in 1 .. Len(h)
          PROVE  \E j \in 1 .. Len(P) : P[j] = h[k] /\ (j = 1 => k = 1)
      <4>1. k \in n + 1 .. Len(h) /\ k + 1 \in 1 .. Len(P) /\ k + 1 # 1
        BY <2>2, <1>1, <1>2, SMT
      <4>2. P[k + 1] = h[k]
        BY <4>1, <1>1
      <4> QED
        BY <4>1, <4>2
    <3> QED
      BY <2>1, <3>3, <3>4
  <2>3. CASE n > 0
    <3>1. 1 \in 1 .. n
      BY <2>3, <1>2, SMT
    <3>2. P[1] = h[1]
      BY <3>1, <1>1
    <3> QED
      BY <3>2, <1>7, <2>1, <2>3
  <2> QED
    BY <2>2, <2>3, <1>2, SMT
<1> QED
  BY <1>1, <1>5, <1>6, <1>8, <1>9

\* Dropping a prefix of the heap drops the timers in it and no other.
LEMMA WithoutPrefix ==
    ASSUME heap \in Seq(Entries), Sorted(heap), Distinct(heap),
           NEW I \in SUBSET (1 .. Len(heap)),
           \A j, k \in 1 .. Len(heap) : j <= k /\ k \in I => j \in I,
           NEW W, W = Without(I)
    PROVE  /\ W \in Seq(Entries)
           /\ Sorted(W) /\ Distinct(W)
           /\ \A i : Has(W, i) <=> Has(heap, i) /\ i \notin IdsOf(I)
           /\ W # << >> =>
                 \E k \in 1 .. Len(heap) : k \notin I /\ W[1] = heap[k] /\ \A j \in 1 .. k - 1 : j \in I
<1> DEFINE c == Cardinality(I)
<1>1. Len(heap) \in Nat
  BY LenProperties
<1>2. c \in 0 .. Len(heap) /\ I = 1 .. c
  BY <1>1, PrefixIsInterval
<1>3. W = SubSeq(heap, c + 1, Len(heap))
  BY DEF Without
<1> HIDE DEF c
<1>4. /\ W \in Seq(Entries) /\ Len(W) = Len(heap) - c
      /\ \A k \in 1 .. Len(W) : k + c \in 1 .. Len(heap) /\ W[k] = heap[k + c]
      /\ Sorted(W) /\ Distinct(W)
      /\ \A i : Has(W, i) <=> HasAfter(heap, c, i)
  BY <1>2, <1>3, Dropped
<1>5. ASSUME NEW i PROVE Has(W, i) <=> Has(heap, i) /\ i \notin IdsOf(I)
  <2>1. ASSUME Has(W, i) PROVE Has(heap, i) /\ i \notin IdsOf(I)
    <3>1. PICK k \in 1 .. Len(heap) : k > c /\ heap[k].id = i
      BY <2>1, <1>4 DEF HasAfter
    <3>2. k \notin I
      BY <3>1, <1>2, SMT
    <3>3. \A j \in I : heap[j].id # i
      BY <3>1, <3>2 DEF Distinct
    <3> QED
      BY <3>1, <3>3 DEF Has, IdsOf
  <2>2. ASSUME Has(heap, i), i \notin IdsOf(I) PROVE Has(W, i)
    <3>1. PICK k \in 1 .. Len(heap) : heap[k].id = i
      BY <2>2 DEF Has
    <3>2. k \notin I
      BY <3>1, <2>2 DEF IdsOf
    <3>3. k > c
      BY <3>2, <1>1, <1>2, SMT
    <3> QED
      BY <3>1, <3>3, <1>4 DEF HasAfter
  <2> QED
    BY <2>1, <2>2
<1>6. ASSUME W # << >>
      PROVE  \E k \in 1 .. Len(heap) : k \notin I /\ W[1] = heap[k] /\ \A j \in 1 .. k - 1 : j \in I
  <2>1. Len(W) >= 1
    BY <1>4, <1>6, EmptySeq, SMT
  <2>2. 1 + c \in 1 .. Len(heap) /\ W[1] = heap[1 + c]
    <3>1. 1 \in 1 .. Len(W)
      BY <2>1, <1>1, <1>2, <1>4, SMT
    <3> QED
      BY <3>1, <1>4
  <2>3. 1 + c \notin I /\ \A j \in 1 .. (1 + c) - 1 : j \in I
    BY <1>2, SMT
  <2> QED
    BY <2>2, <2>3
<1> QED
  BY <1>4, <1>5, <1>6

\* An increasing enumeration of a finite set of numbers reaches all of it,
\* and each of it once.
LEMMA Enumeration ==
    ASSUME NEW S \in SUBSET Nat, IsFiniteSet(S),
           NEW r \in [1 .. Cardinality(S) -> S],
           \A j, k \in DOMAIN r : j < k => r[j] < r[k]
    PROVE  /\ \A j, k \in 1 .. Cardinality(S) : r[j] = r[k] => j = k
           /\ \A x \in S : \E k \in 1 .. Cardinality(S) : r[k] = x
<1> DEFINE D == 1 .. Cardinality(S)
<1>1. Cardinality(S) \in Nat
  BY FS_CardinalityType
<1>2. Cardinality(D) = Cardinality(S)
  BY <1>1, FS_Interval, SMT
<1>3. \A j, k \in D : r[j] = r[k] => j = k
  <2> SUFFICES ASSUME NEW j \in D, NEW k \in D, j # k PROVE r[j] # r[k]
    OBVIOUS
  <2>1. r[j] \in Nat /\ r[k] \in Nat /\ j \in DOMAIN r /\ k \in DOMAIN r
    OBVIOUS
  <2>2. CASE j < k
    BY <2>1, <2>2, SMT
  <2>3. CASE k < j
    BY <2>1, <2>3, SMT
  <2> QED
    BY <2>2, <2>3, <1>1, SMT
<1>4. r \in [D -> S]
  OBVIOUS
<1> HIDE DEF D
<1>5. r \in Injection(D, S)
  BY <1>3, <1>4 DEF Injection, IsInjective
<1>6. r \in Surjection(D, S)
  BY <1>2, <1>5, FS_Injection
<1>7. \A x \in S : \E k \in D : r[k] = x
  BY <1>6 DEF Surjection
<1> QED
  BY <1>3, <1>7 DEF D

-----------------------------------------------------------------------------
(***************************************************************************)
(* What the worker does to the heap.                                       *)
(***************************************************************************)

\* The cancelled entries it pops are the first ones.
LEMMA StaleTopIsPrefix ==
    ASSUME heap \in Seq(Entries)
    PROVE  /\ StaleTop \in SUBSET (1 .. Len(heap))
           /\ \A j, k \in 1 .. Len(heap) : j <= k /\ k \in StaleTop => j \in StaleTop
<1>1. DOMAIN heap = 1 .. Len(heap) /\ Len(heap) \in Nat
  BY LenProperties
<1>2. ASSUME NEW j \in 1 .. Len(heap), NEW k \in 1 .. Len(heap), j <= k, k \in StaleTop
      PROVE  j \in StaleTop
  <2>1. \A l \in 1 .. j : l \in 1 .. k
    BY <1>2, <1>1, SMT
  <2> QED
    BY <2>1, <1>1, <1>2 DEF StaleTop
<1> QED
  BY <1>1, <1>2 DEF StaleTop

\* And so are the expired ones.
LEMMA DueIsPrefix ==
    ASSUME heap \in Seq(Entries), Sorted(heap)
    PROVE  /\ Due \in SUBSET (1 .. Len(heap))
           /\ \A j, k \in 1 .. Len(heap) : j <= k /\ k \in Due => j \in Due
<1>1. DOMAIN heap = 1 .. Len(heap) /\ Len(heap) \in Nat
  BY LenProperties
<1>2. ASSUME NEW j \in 1 .. Len(heap), NEW k \in 1 .. Len(heap), j <= k, k \in Due
      PROVE  j \in Due
  <2>1. heap[j] \in Entries /\ heap[k] \in Entries
    BY ElementOfSeq
  <2>2. heap[j].left \in Nat /\ heap[j].left <= heap[k].left
    BY <2>1, <1>2 DEF Sorted, Entries
  <2>3. heap[k].left = 0
    BY <1>2 DEF Due
  <2> QED
    BY <2>2, <2>3, <1>1, SMT DEF Due
<1> QED
  BY <1>1, <1>2 DEF Due

\* Entering the loop forgets cancelled timers only, and none is at the top
\* when the worker goes to sleep.
LEMMA EnterLoopEffect ==
    ASSUME heap \in Seq(Entries), Sorted(heap), Distinct(heap), EnterLoop, Running
    PROVE  /\ heap' \in Seq(Entries) /\ Sorted(heap') /\ Distinct(heap')
           /\ \A i : Has(heap', i) <=> Has(heap, i) /\ i \notin IdsOf(StaleTop)
           /\ \A i \in IdsOf(StaleTop) : Has(heap, i) /\ states[i] = "Cancelled"
           /\ states' = [i \in Ids |-> IF i \in IdsOf(StaleTop) THEN "none" ELSE states[i]]
           /\ \/ heap' = << >> /\ worker' = "waitEmpty" /\ waitingId' = NoId
              \/ /\ heap' # << >> /\ worker' = "waitTop" /\ waitingId' = heap'[1].id
                 /\ states[waitingId'] # "Cancelled" /\ waitingId' \notin IdsOf(StaleTop)
<1>1. DOMAIN heap = 1 .. Len(heap) /\ Len(heap) \in Nat
  BY LenProperties
<1>2. /\ heap' = Without(StaleTop)
      /\ states' = [i \in Ids |-> IF i \in IdsOf(StaleTop) THEN "none" ELSE states[i]]
      /\ IF heap' = << >>
           THEN worker' = "waitEmpty" /\ waitingId' = NoId
           ELSE worker' = "waitTop" /\ waitingId' = heap'[1].id
  BY DEF EnterLoop, Erase
<1>3. /\ heap' \in Seq(Entries) /\ Sorted(heap') /\ Distinct(heap')
      /\ \A i : Has(heap', i) <=> Has(heap, i) /\ i \notin IdsOf(StaleTop)
      /\ heap' # << >> =>
            \E k \in 1 .. Len(heap) :
               k \notin StaleTop /\ heap'[1] = heap[k] /\ \A j \in 1 .. k - 1 : j \in StaleTop
  <2>1. /\ Without(StaleTop) \in Seq(Entries)
        /\ Sorted(Without(StaleTop)) /\ Distinct(Without(StaleTop))
        /\ \A i : Has(Without(StaleTop), i) <=> Has(heap, i) /\ i \notin IdsOf(StaleTop)
        /\ Without(StaleTop) # << >> =>
              \E k \in 1 .. Len(heap) : /\ k \notin StaleTop /\ Without(StaleTop)[1] = heap[k]
                                        /\ \A j \in 1 .. k - 1 : j \in StaleTop
    BY StaleTopIsPrefix, WithoutPrefix
  <2> QED
    BY <2>1, <1>2
<1>4. ASSUME NEW i \in IdsOf(StaleTop) PROVE Has(heap, i) /\ states[i] = "Cancelled"
  <2>1. PICK k \in StaleTop : i = heap[k].id
    BY DEF IdsOf
  <2>2. k \in 1 .. Len(heap) /\ \A j \in 1 .. k : states[heap[j].id] = "Cancelled"
    BY <1>1 DEF StaleTop
  <2>3. k \in 1 .. k
    BY <2>2, <1>1, SMT
  <2> QED
    BY <2>1, <2>2, <2>3 DEF Has
<1>5. ASSUME heap' # << >>
      PROVE  states[heap'[1].id] # "Cancelled" /\ heap'[1].id \notin IdsOf(StaleTop)
  <2>1. PICK k \in 1 .. Len(heap) :
           k \notin StaleTop /\ heap'[1] = heap[k] /\ \A j \in 1 .. k - 1 : j \in StaleTop
    BY <1>3, <1>5
  <2>2. \A j \in 1 .. k - 1 : states[heap[j].id] = "Cancelled"
    <3> SUFFICES ASSUME NEW j \in 1 .. k - 1 PROVE states[heap[j].id] = "Cancelled"
      OBVIOUS
    <3>1. j \in StaleTop /\ j \in 1 .. j
      BY <2>1, <1>1, SMT
    <3> QED
      BY <3>1 DEF StaleTop
  <2>3. states[heap[k].id] # "Cancelled"
    <3> SUFFICES ASSUME states[heap[k].id] = "Cancelled" PROVE FALSE
      OBVIOUS
    <3>1. \A j \in 1 .. k : j \in 1 .. k - 1 \/ j = k
      BY <1>1, SMT
    <3>2. \A j \in 1 .. k : states[heap[j].id] = "Cancelled"
      BY <3>1, <2>2
    <3> QED
      BY <3>2, <2>1, <1>1 DEF StaleTop
  <2> QED
    BY <2>1, <2>3, <1>4
<1> QED
  BY <1>2, <1>3, <1>4, <1>5

\* Collecting takes the expired timers off the heap: the pending ones become
\* ready, once each, and the cancelled ones are forgotten.
LEMMA CollectEffect ==
    ASSUME heap \in Seq(Entries), Sorted(heap), Distinct(heap), Collect
    PROVE  /\ heap' \in Seq(Entries) /\ Sorted(heap') /\ Distinct(heap')
           /\ \A i : Has(heap', i) <=> Has(heap, i) /\ i \notin IdsOf(Due)
           /\ \A i \in IdsOf(Due) : Has(heap, i)
           /\ ready' \in Seq(Ids)
           /\ \A j, k \in 1 .. Len(ready') : ready'[j] = ready'[k] => j = k
           /\ \A i : (\E k \in 1 .. Len(ready') : ready'[k] = i) <=> i \in IdsOf(Due) /\ states[i] = "Pending"
<1>1. DOMAIN heap = 1 .. Len(heap) /\ Len(heap) \in Nat
  BY LenProperties
<1> DEFINE F == {k \in Due : states[heap[k].id] = "Pending"}
<1>2. /\ heap' = Without(Due)
      /\ \E r \in [1 .. Cardinality(F) -> F] :
            /\ \A j, k \in DOMAIN r : j < k => r[j] < r[k]
            /\ ready' = [k \in DOMAIN r |-> heap[r[k]].id]
  BY DEF Collect
<1>3. /\ heap' \in Seq(Entries) /\ Sorted(heap') /\ Distinct(heap')
      /\ \A i : Has(heap', i) <=> Has(heap, i) /\ i \notin IdsOf(Due)
  <2>1. /\ Without(Due) \in Seq(Entries)
        /\ Sorted(Without(Due)) /\ Distinct(Without(Due))
        /\ \A i : Has(Without(Due), i) <=> Has(heap, i) /\ i \notin IdsOf(Due)
    BY DueIsPrefix, WithoutPrefix
  <2> QED
    BY <2>1, <1>2
<1>4. F \in SUBSET (1 .. Len(heap)) /\ F \in SUBSET Nat
  BY <1>1, SMT DEF Due
<1>5. IsFiniteSet(F) /\ Cardinality(F) \in Nat
  <2>1. IsFiniteSet(1 .. Len(heap))
    BY <1>1, FS_Interval, SMT
  <2> HIDE DEF F
  <2> QED
    BY <2>1, <1>4, FS_Subset, FS_CardinalityType
<1>6. PICK r \in [1 .. Cardinality(F) -> F] :
         /\ \A j, k \in DOMAIN r : j < k => r[j] < r[k]
         /\ ready' = [k \in DOMAIN r |-> heap[r[k]].id]
  BY <1>2
<1>7. /\ \A j, k \in 1 .. Cardinality(F) : r[j] = r[k] => j = k
      /\ \A x \in F : \E k \in 1 .. Cardinality(F) : r[k] = x
  <2> HIDE DEF F
  <2> QED
    BY <1>4, <1>5, <1>6, Enumeration
<1>8. \A k \in 1 .. Cardinality(F) : /\ r[k] \in F /\ r[k] \in 1 .. Len(heap)
                                     /\ heap[r[k]].id \in Ids
  <2> SUFFICES ASSUME NEW k \in 1 .. Cardinality(F)
               PROVE  r[k] \in F /\ r[k] \in 1 .. Len(heap) /\ heap[r[k]].id \in Ids
    OBVIOUS
  <2>1. r[k] \in F
    OBVIOUS
  <2> HIDE DEF F
  <2>2. r[k] \in 1 .. Len(heap)
    BY <2>1, <1>4
  <2>3. heap[r[k]] \in Entries
    BY <2>2, ElementOfSeq
  <2> QED
    BY <2>1, <2>2, <2>3 DEF Entries
<1>9. ready' = [k \in 1 .. Cardinality(F) |-> heap[r[k]].id]
  <2> HIDE DEF F
  <2> QED
    BY <1>6
<1>10. ready' \in Seq(Ids) /\ Len(ready') = Cardinality(F)
  <2> HIDE DEF F
  <2>1. ready' \in [1 .. Cardinality(F) -> Ids]
    BY <1>8, <1>9
  <2>2. ready' \in Seq(Ids)
    BY <2>1, <1>5, SeqDef
  <2>3. DOMAIN ready' = 1 .. Cardinality(F)
    BY <1>9
  <2>4. Len(ready') \in Nat /\ 1 .. Len(ready') = 1 .. Cardinality(F)
    BY <2>2, <2>3, LenProperties
  <2> QED
    BY <2>2, <2>4, <1>5, SMT
<1>11. \A k \in 1 .. Len(ready') : ready'[k] = heap[r[k]].id /\ k \in 1 .. Cardinality(F)
  <2> HIDE DEF F
  <2> QED
    BY <1>9, <1>10
<1>12. \A j, k \in 1 .. Len(ready') : ready'[j] = ready'[k] => j = k
  <2> SUFFICES ASSUME NEW j \in 1 .. Len(ready'), NEW k \in 1 .. Len(ready'),
                      ready'[j] = ready'[k]
               PROVE  j = k
    OBVIOUS
  <2> HIDE DEF F
  <2>1. r[j] \in 1 .. Len(heap) /\ r[k] \in 1 .. Len(heap) /\ heap[r[j]].id = heap[r[k]].id
    BY <1>8, <1>11
  <2>2. r[j] = r[k]
    BY <2>1 DEF Distinct
  <2> QED
    BY <2>2, <1>7, <1>11
<1>13. ASSUME NEW i
       PROVE  (\E k \in 1 .. Len(ready') : ready'[k] = i) <=> i \in IdsOf(Due) /\ states[i] = "Pending"
  <2>1. ASSUME NEW k \in 1 .. Len(ready'), ready'[k] = i
        PROVE  i \in IdsOf(Due) /\ states[i] = "Pending"
    <3>1. r[k] \in F /\ heap[r[k]].id = i
      <4> HIDE DEF F
      <4> QED
        BY <2>1, <1>8, <1>11
    <3> QED
      BY <3>1 DEF IdsOf
  <2>2. ASSUME i \in IdsOf(Due), states[i] = "Pending"
        PROVE  \E k \in 1 .. Len(ready') : ready'[k] = i
    <3>1. PICK x \in Due : heap[x].id = i
      BY <2>2 DEF IdsOf
    <3>2. x \in F
      BY <3>1, <2>2
    <3> HIDE DEF F
    <3>3. PICK k \in 1 .. Cardinality(F) : r[k] = x
      BY <3>2, <1>7
    <3> QED
      BY <3>1, <3>3, <1>10, <1>11
  <2> QED
    BY <2>1, <2>2
<1>14. ASSUME NEW i \in IdsOf(Due) PROVE Has(heap, i)
  BY <1>1 DEF IdsOf, Due, Has
<1> QED
  BY <1>3, <1>10, <1>12, <1>13, <1>14

\* Time keeps the order: what is due stays due, the rest comes closer.
LEMMA TickEffect ==
    ASSUME heap \in Seq(Entries), Sorted(heap), Tick
    PROVE  /\ heap' \in Seq(Entries) /\ Len(heap') = Len(heap)
           /\ \A k \in 1 .. Len(heap) : heap'[k].id = heap[k].id
           /\ \A j, k \in 1 .. Len(heap) : heap[j].left = heap[k].left => heap'[j].left = heap'[k].left
           /\ Sorted(heap')
<1>1. Len(heap) \in Nat /\ DOMAIN heap = 1 .. Len(heap)
  BY LenProperties
<1>2. \A k \in 1 .. Len(heap) : /\ heap[k] \in Entries /\ heap[k].id \in Ids
                                /\ heap[k].left \in 0 .. MaxDelay
  <2>1. \A k \in 1 .. Len(heap) : heap[k] \in Entries
    BY ElementOfSeq
  <2> QED
    BY <2>1 DEF Entries
<1>3. heap' = [k \in 1 .. Len(heap) |->
                  [heap[k] EXCEPT !.left = IF @ > 0 THEN @ - 1 ELSE 0]]
  BY <1>1 DEF Tick
<1>4. ASSUME NEW k \in 1 .. Len(heap)
      PROVE  /\ heap'[k] \in Entries /\ heap'[k].id = heap[k].id
             /\ heap'[k].left = IF heap[k].left > 0 THEN heap[k].left - 1 ELSE 0
  <2>1. heap'[k] = [heap[k] EXCEPT !.left = IF @ > 0 THEN @ - 1 ELSE 0]
    BY <1>3
  <2>2. heap[k] \in Entries /\ heap[k].left \in 0 .. MaxDelay
    BY <1>2
  <2>3. (IF heap[k].left > 0 THEN heap[k].left - 1 ELSE 0) \in 0 .. MaxDelay
    BY <2>2, BoundAssumption, SMT
  <2> QED
    BY <2>1, <2>2, <2>3 DEF Entries
<1>5. heap' \in [1 .. Len(heap) -> Entries]
  BY <1>3, <1>4
<1>6. heap' \in Seq(Entries)
  BY <1>1, <1>5, SeqDef
<1>7. Len(heap') = Len(heap)
  <2>1. DOMAIN heap' = 1 .. Len(heap) /\ Len(heap') \in Nat /\ DOMAIN heap' = 1 .. Len(heap')
    BY <1>5, <1>6, LenProperties
  <2> QED
    BY <2>1, <1>1, SMT
<1>8. \A j, k \in 1 .. Len(heap) : heap[j].left = heap[k].left => heap'[j].left = heap'[k].left
  BY <1>4
<1>9. Sorted(heap')
  <2> SUFFICES ASSUME NEW j \in 1 .. Len(heap), NEW k \in 1 .. Len(heap), j <= k
               PROVE  heap'[j].left <= heap'[k].left
    BY <1>7 DEF Sorted
  <2>1. heap[j].left <= heap[k].left /\ heap[j].left \in Nat /\ heap[k].left \in Nat
    BY <1>2 DEF Sorted
  <2>2. /\ heap'[j].left = IF heap[j].left > 0 THEN heap[j].left - 1 ELSE 0
        /\ heap'[k].left = IF heap[k].left > 0 THEN heap[k].left - 1 ELSE 0
    BY <1>4
  <2> QED
    BY <2>1, <2>2, SMT
<1> QED
  BY <1>4, <1>6, <1>7, <1>8, <1>9

\* The heap stays a heap, without a timer twice.
LEMMA HeapKept ==
    ASSUME TimerInv, [Next]_vars
    PROVE  heap' \in Seq(Entries) /\ Sorted(heap') /\ Distinct(heap')
<1>1. heap \in Seq(Entries) /\ Sorted(heap) /\ Distinct(heap)
  BY DEF TimerInv, ControlInv, TypeOK, PlacesInv, ListsDistinct, Entries
<1>2. TypeOK /\ Wrappers /\ \A i \in Ids : OnePlace(i) /\ Recorded(i)
  BY DEF TimerInv, ControlInv, PlacesInv
<1>3. CASE heap' = heap
  BY <1>1, <1>3
<1>4. CASE heap' = << >>
  BY <1>4, EmptySeq, SMT DEF Sorted, Distinct
<1>5. CASE Tick
  <2>1. heap' \in Seq(Entries) /\ Sorted(heap') /\ Len(heap') = Len(heap)
    BY <1>1, <1>5, TickEffect
  <2>2. \A k \in 1 .. Len(heap) : heap'[k].id = heap[k].id
    BY <1>1, <1>5, TickEffect
  <2>3. Distinct(heap')
    BY <1>1, <2>1, <2>2 DEF Distinct
  <2> QED
    BY <2>1, <2>3
<1>6. ASSUME NEW e \in Entries, heap' = Push(heap, e), ~Has(heap, e.id)
      PROVE  heap' \in Seq(Entries) /\ Sorted(heap') /\ Distinct(heap')
  BY <1>1, <1>6, Pushed
<1>7. ASSUME NEW t, NEW d \in 0 .. MaxDelay, NEW every, Schedule(t, d, every)
      PROVE  heap' \in Seq(Entries) /\ Sorted(heap') /\ Distinct(heap')
  <2>1. PICK left \in 0 .. d : heap' = Push(heap, [id |-> nextId, left |-> left])
    BY <1>7 DEF Schedule
  <2>2. nextId \in Ids /\ left \in 0 .. MaxDelay
    BY <1>7, BoundAssumption, SMT DEF Schedule
  <2>3. ~Has(heap, nextId)
    BY <2>2, <1>2, BoundAssumption, SMT DEF Recorded, Placed, Ids
  <2> DEFINE e == [id |-> nextId, left |-> left]
  <2>4. e \in Entries /\ e.id = nextId /\ heap' = Push(heap, e)
    BY <2>1, <2>2 DEF Entries
  <2> HIDE DEF e
  <2> QED
    BY <2>3, <2>4, <1>6
<1>8. ASSUME NEW p \in PoolThreads, End(p)
      PROVE  heap' \in Seq(Entries) /\ Sorted(heap') /\ Distinct(heap')
  <2> DEFINE i == shot[p].id
  <2>1. pool[p] = "callback" /\ i \in Ids /\ interval[i] \in 0 .. MaxDelay
    BY <1>2, <1>8 DEF End, Wrappers, Shots, TypeOK
  <2>2. IsAt(i, "callback")
    BY <2>1 DEF IsAt
  <2>3. ~Has(heap, i)
    BY <2>1, <2>2, <1>2 DEF OnePlace
  <2>4. \/ heap' = heap
        \/ heap' = Push(heap, [id |-> i, left |-> interval[i]])
    BY <1>8 DEF End
  <2> DEFINE e == [id |-> i, left |-> interval[i]]
  <2>5. e \in Entries /\ e.id = i /\ (heap' = heap \/ heap' = Push(heap, e))
    BY <2>1, <2>4 DEF Entries
  <2> HIDE DEF i, e
  <2> QED
    BY <2>3, <2>5, <1>3, <1>6
<1>9. CASE Wake
  BY <1>1, <1>3, <1>9, EnterLoopEffect DEF Wake, EnterLoop
<1>10. CASE Expired
  <2>1. CASE Interrupted
    BY <1>1, <1>3, <1>10, <2>1, EnterLoopEffect DEF Expired, EnterLoop
  <2>2. CASE ~Interrupted
    BY <1>1, <1>10, <2>2, CollectEffect DEF Expired
  <2> QED
    BY <2>1, <2>2
<1>11. ASSUME NEW t \in Threads, Call(t) \/ Continue(t)
       PROVE  heap' \in Seq(Entries) /\ Sorted(heap') /\ Distinct(heap')
  <2>1. CASE ScheduleAfter(t)
    BY <2>1, <1>7 DEF ScheduleAfter
  <2>2. CASE ScheduleEvery(t)
    <3>1. PICK d \in 1 .. MaxDelay : Schedule(t, d, d)
      BY <2>2 DEF ScheduleEvery
    <3>2. d \in 0 .. MaxDelay
      BY BoundAssumption, SMT
    <3> QED
      BY <3>1, <3>2, <1>7
  <2>3. CASE Drain(t)
    BY <2>3, <1>3, <1>4 DEF Drain
  <2>4. ASSUME ~ScheduleAfter(t), ~ScheduleEvery(t), ~Drain(t) PROVE heap' = heap
    BY <1>11, <2>4 DEF Call, Continue, Start, Cancel, CallRequestStop, Stop, RequestStop, Wait,
                       Notify, Join, sharedVars
  <2> QED
    BY <2>1, <2>2, <2>3, <2>4, <1>3
<1>12. ASSUME WorkerStep, ~Wake, ~Expired PROVE heap' = heap
  BY <1>12 DEF WorkerStep, Expire, Dispatch, Post, Rejected, Release, FinishNotify, sharedVars
<1>13. ASSUME NEW p \in PoolThreads, PoolStep(p), ~End(p) PROVE heap' = heap
  BY <1>13 DEF PoolStep, Take, Begin, NotifyPush, Destroy, PoolNotify, sharedVars
<1>14. ASSUME SpuriousWakeup \/ UNCHANGED vars PROVE heap' = heap
  BY <1>14 DEF SpuriousWakeup, sharedVars, vars
<1> QED
  BY <1>3, <1>5, <1>8, <1>9, <1>10, <1>11, <1>12, <1>13, <1>14 DEF Next

-----------------------------------------------------------------------------
(***************************************************************************)
(* Every variable keeps its type.                                          *)
(***************************************************************************)

\* Giving up a share changes nothing else of a shot.
LEMMA Unshared ==
    /\ Unshare(NoShot) = NoShot
    /\ \A s \in Shots : Unshare(s) \in Shots /\ Unshare(s).id = s.id /\ ~Unshare(s).shared
<1>1. Unshare(NoShot) = NoShot
  <2>1. NoShot \in [id : {NoId}, shared : {FALSE}] /\ NoShot.shared = FALSE
    BY DEF NoShot
  <2>2. [NoShot EXCEPT !.shared = FALSE] = NoShot
    BY <2>1
  <2> QED
    BY <2>2 DEF Unshare
<1>2. ASSUME NEW s \in Shots
      PROVE  Unshare(s) \in Shots /\ Unshare(s).id = s.id /\ ~Unshare(s).shared
  <2>1. Unshare(s) = [s EXCEPT !.shared = FALSE] /\ FALSE \in BOOLEAN
    BY DEF Unshare
  <2>2. Unshare(s) \in Shots
    BY <2>1, Zenon DEF Shots
  <2>3. Unshare(s).id = s.id /\ ~Unshare(s).shared
    BY <2>1, Zenon DEF Shots
  <2> QED
    BY <2>2, <2>3
<1> QED
  BY <1>1, <1>2

\* The interface, one thread.
LEMMA CallKeepsTypes ==
    ASSUME TypeOK, heap' \in Seq(Entries), NEW t \in Threads, Call(t) \/ Continue(t)
    PROVE  TypeOK'
<1>2. ASSUME NEW d \in 0 .. MaxDelay, NEW every \in 0 .. MaxDelay, Schedule(t, d, every)
      PROVE  TypeOK'
  <2>1. nextId \in Ids /\ nextId' = nextId + 1 /\ nextId' \in 1 .. MaxTimers + 1
    BY <1>2, BoundAssumption, SMT DEF Schedule, TypeOK, Ids
  <2>2. /\ states' = [states EXCEPT ![nextId] = "Pending"]
        /\ interval' = [interval EXCEPT ![nextId] = every]
        /\ \E l \in {"notify", "idle"} : api' = [api EXCEPT ![t] = l]
    BY <1>2 DEF Schedule, Goto
  <2>3. /\ states' \in [Ids -> {"none", "Pending", "Submitted", "Executing", "Cancelled"}]
        /\ interval' \in [Ids -> 0 .. MaxDelay]
        /\ api' \in [Threads -> {"idle", "notify", "stopNotify", "join", "drain",
                                 "drainWait", "drainWoken"}]
    BY <2>2, <1>2 DEF TypeOK
  <2> QED
    BY <2>1, <2>3, <1>2 DEF TypeOK, Entries, Schedule, workerVars, poolVars
<1>3. CASE ScheduleAfter(t)
  BY <1>2, <1>3, BoundAssumption, SMT DEF ScheduleAfter
<1>4. CASE ScheduleEvery(t)
  <2>1. PICK d \in 1 .. MaxDelay : Schedule(t, d, d)
    BY <1>4 DEF ScheduleEvery
  <2>2. d \in 0 .. MaxDelay
    BY BoundAssumption, SMT
  <2> QED
    BY <2>1, <2>2, <1>2
<1>5. CASE Start(t)
  BY <1>5 DEF Start, TypeOK, poolVars
<1>6. ASSUME NEW i \in Ids, Cancel(t, i) PROVE TypeOK'
  BY <1>6 DEF Cancel, Goto, TypeOK, workerVars, poolVars
<1>7. ASSUME NEW a, NEW b, a \in {"notify", "stopNotify"}, b \in {"idle", "join"}, RequestStop(t, a, b)
      PROVE  TypeOK'
  <2>1. scheduler' \in {"Created", "Running", "Stopping", "Stopped"}
    BY <1>7 DEF RequestStop, TypeOK, Running
  <2>2. states' \in [Ids -> {"none", "Pending", "Submitted", "Executing", "Cancelled"}]
    BY <1>7 DEF RequestStop, TypeOK
  <2>3. api' \in [Threads -> {"idle", "notify", "stopNotify", "join", "drain",
                              "drainWait", "drainWoken"}]
    BY <1>7 DEF RequestStop, TypeOK, Goto
  <2> QED
    BY <1>7, <2>1, <2>2, <2>3 DEF RequestStop, TypeOK, workerVars, poolVars
<1>8. CASE CallRequestStop(t)
  BY <1>7, <1>8 DEF CallRequestStop
<1>9. CASE Stop(t)
  BY <1>7, <1>9 DEF Stop
<1>10. CASE Wait(t) \/ Join(t)
  BY <1>10 DEF Wait, Join, Goto, TypeOK, sharedVars, workerVars, poolVars
<1>11. CASE Notify(t)
  BY <1>11 DEF Notify, WakeWorker, Goto, TypeOK, sharedVars, poolVars
<1>12. CASE Drain(t)
  <2>1. states' \in [Ids -> {"none", "Pending", "Submitted", "Executing", "Cancelled"}]
    BY <1>12 DEF Drain, TypeOK, Erase
  <2>2. api' \in [Threads -> {"idle", "notify", "stopNotify", "join", "drain",
                              "drainWait", "drainWoken"}]
    BY <1>12 DEF Drain, TypeOK, Goto
  <2>3. scheduler' \in {"Created", "Running", "Stopping", "Stopped"} /\ sleepers' \subseteq Threads
    BY <1>12 DEF Drain, TypeOK
  <2> QED
    BY <1>12, <2>1, <2>2, <2>3 DEF Drain, TypeOK, Entries, workerVars, poolVars
<1> QED
  BY <1>3, <1>4, <1>5, <1>6, <1>8, <1>9, <1>10, <1>11, <1>12 DEF Call, Continue

\* The scheduling thread.
LEMMA WorkerKeepsTypes ==
    ASSUME TimerInv, TypeOK, heap' \in Seq(Entries), WorkerStep
    PROVE  TypeOK'
<1>1. ready \in Seq(Ids) /\ (worker \in {"post", "rejected", "release"} => ready # << >>)
  BY DEF TimerInv, ControlInv, Dispatching, TypeOK
<1>2. ready # << >> => Head(ready) \in Ids /\ Tail(ready) \in Seq(Ids)
  BY <1>1, HeadTailProperties
<1>3. ASSUME NEW S, Erase(S)
      PROVE  states' \in [Ids -> {"none", "Pending", "Submitted", "Executing", "Cancelled"}]
  BY <1>3 DEF Erase, TypeOK
<1>4. ASSUME EnterLoop, UNCHANGED <<scheduler, nextId, inFlight, interval, ready, holds,
                                    poolVars, api, sleepers, stranded>>
      PROVE  TypeOK'
  <2>1. states' \in [Ids -> {"none", "Pending", "Submitted", "Executing", "Cancelled"}]
    BY <1>3, <1>4 DEF EnterLoop, TypeOK
  <2>2. worker' \in {"exited", "waitEmpty", "waitTop"} /\ waitingId' \in Ids \cup {NoId}
    <3>1. CASE ~Running
      BY <1>4, <3>1 DEF EnterLoop, TypeOK
    <3>2. CASE Running /\ heap' = << >>
      BY <1>4, <3>2 DEF EnterLoop
    <3>3. CASE Running /\ heap' # << >>
      <4>1. worker' = "waitTop" /\ waitingId' = heap'[1].id
        BY <1>4, <3>3 DEF EnterLoop
      <4>2. 1 \in 1 .. Len(heap')
        BY <3>3, EmptySeq, SMT
      <4>3. heap'[1] \in Entries
        BY <4>2, ElementOfSeq
      <4> QED
        BY <4>1, <4>3 DEF Entries
    <3> QED
      BY <3>1, <3>2, <3>3
  <2> QED
    BY <1>4, <2>1, <2>2 DEF TypeOK, Entries, poolVars
<1>5. CASE Wake
  BY <1>4, <1>5 DEF Wake
<1>6. CASE Expire
  BY <1>6 DEF Expire, TypeOK, sharedVars, poolVars
<1>7. CASE Expired
  <2>1. CASE Interrupted
    BY <1>4, <1>7, <2>1 DEF Expired
  <2>2. CASE ~Interrupted
    <3>1. ready' \in Seq(Ids)
      BY <1>7, <2>2, CollectEffect DEF Expired, TimerInv, PlacesInv, ListsDistinct, TypeOK, Entries
    <3>2. states' \in [Ids -> {"none", "Pending", "Submitted", "Executing", "Cancelled"}]
      BY <1>7, <2>2 DEF Expired, Collect, TypeOK
    <3>3. worker' = "dispatch" /\ waitingId' = waitingId
      BY <1>7, <2>2 DEF Expired, Collect
    <3> QED
      BY <1>7, <3>1, <3>2, <3>3 DEF Expired, TypeOK, Entries, poolVars
  <2> QED
    BY <2>1, <2>2
<1>8. CASE Dispatch
  <2>1. states' \in [Ids -> {"none", "Pending", "Submitted", "Executing", "Cancelled"}]
    BY <1>3, <1>8 DEF Dispatch, TypeOK
  <2>2. /\ ready' \in Seq(Ids) /\ inFlight' \in Nat
        /\ holds' \in {"none", "shared", "sole"}
        /\ worker' \in {"lock", "dispatch", "post"}
    <3>1. ready' \in Seq(Ids)
      BY <1>1, <1>2, <1>8 DEF Dispatch
    <3>2. inFlight' \in Nat
      BY <1>8, SMT DEF Dispatch, TypeOK
    <3> QED
      BY <1>8, <3>1, <3>2 DEF Dispatch, TypeOK
  <2> QED
    BY <1>8, <2>1, <2>2 DEF Dispatch, TypeOK, poolVars
<1>9. CASE Post
  <2>1. [id |-> Head(ready), shared |-> TRUE] \in Shots
    BY <1>1, <1>2, <1>9 DEF Post, Shots
  <2>2. queue' \in Seq(Shots)
    <3>1. queue \in Seq(Shots)
      BY DEF TypeOK
    <3>2. Append(queue, [id |-> Head(ready), shared |-> TRUE]) \in Seq(Shots)
      BY <2>1, <3>1, AppendProperties
    <3> QED
      BY <1>9, <3>1, <3>2 DEF Post
  <2>3. stranded' \subseteq Ids
    BY <1>1, <1>2, <1>9 DEF Post, TypeOK
  <2> QED
    BY <1>9, <2>2, <2>3 DEF Post, TypeOK, sharedVars
<1>10. CASE Rejected
  BY <1>3, <1>10 DEF Rejected, TypeOK, poolVars
<1>11. CASE Release
  <2>1. ready' \in Seq(Ids)
    BY <1>1, <1>2, <1>11 DEF Release
  <2>2. inFlight' \in Nat
    BY <1>11, SMT DEF Release, FinishInFlight, TypeOK
  <2>3. /\ \A s \in Shots \cup {NoShot} : Unshare(s) \in Shots \cup {NoShot}
        /\ \A s \in Shots : Unshare(s) \in Shots
    BY Unshared
  <2>4. queue' \in Seq(Shots)
    <3>1. CASE queue' = queue
      BY <3>1 DEF TypeOK
    <3>2. CASE queue' = [k \in DOMAIN queue |-> Unshare(queue[k])]
      <4>1. queue \in Seq(Shots)
        BY DEF TypeOK
      <4>2. DOMAIN queue = 1 .. Len(queue) /\ Len(queue) \in Nat
        BY <4>1, LenProperties
      <4>3. \A k \in 1 .. Len(queue) : queue[k] \in Shots
        BY <4>1, ElementOfSeq
      <4>4. queue' \in [1 .. Len(queue) -> Shots]
        <5>1. \A k \in 1 .. Len(queue) : Unshare(queue[k]) \in Shots
          BY <4>3, <2>3
        <5> QED
          BY <3>2, <4>2, <5>1
      <4> QED
        BY <4>2, <4>4, SeqDef
    <3> QED
      BY <1>11, <3>1, <3>2 DEF Release
  <2>5. shot' \in [PoolThreads -> Shots \cup {NoShot}]
    <3>1. \A p \in PoolThreads : shot[p] \in Shots \cup {NoShot}
      BY DEF TypeOK
    <3>2. \A p \in PoolThreads : Unshare(shot[p]) \in Shots \cup {NoShot}
      BY <3>1, <2>3
    <3> QED
      BY <1>11, <3>2 DEF Release, TypeOK
  <2>6. worker' \in {"dispatch", "finish"} /\ holds' = "none"
    BY <1>11 DEF Release
  <2> QED
    BY <1>11, <2>1, <2>2, <2>4, <2>5, <2>6 DEF Release, TypeOK
<1>12. CASE FinishNotify
  BY <1>12 DEF FinishNotify, WakeSleepers, TypeOK, sharedVars, poolVars
<1> QED
  BY <1>5, <1>6, <1>7, <1>8, <1>9, <1>10, <1>11, <1>12 DEF WorkerStep

\* A thread of the executor.
LEMMA PoolKeepsTypes ==
    ASSUME TypeOK, heap' \in Seq(Entries), NEW p \in PoolThreads, PoolStep(p)
    PROVE  TypeOK'
<1>1. CASE Take(p)
  <2>1. queue \in Seq(Shots) /\ queue # << >>
    BY <1>1 DEF Take, TypeOK
  <2>2. Head(queue) \in Shots /\ Tail(queue) \in Seq(Shots)
    BY <2>1, HeadTailProperties
  <2> QED
    BY <1>1, <2>2 DEF Take, TypeOK, sharedVars, workerVars
<1>2. ASSUME NEW S, Erase(S)
      PROVE  states' \in [Ids -> {"none", "Pending", "Submitted", "Executing", "Cancelled"}]
  BY <1>2 DEF Erase, TypeOK
<1>3. CASE Begin(p)
  <2>1. states' \in [Ids -> {"none", "Pending", "Submitted", "Executing", "Cancelled"}]
    BY <1>2, <1>3 DEF Begin, TypeOK
  <2> QED
    BY <1>3, <2>1 DEF Begin, PoolGoto, TypeOK, workerVars
<1>4. CASE End(p)
  <2>1. states' \in [Ids -> {"none", "Pending", "Submitted", "Executing", "Cancelled"}]
    BY <1>2, <1>4 DEF End, TypeOK
  <2>2. \E l \in {"notify", "destroy"} : pool' = [pool EXCEPT ![p] = l]
    BY <1>4 DEF End, PoolGoto
  <2> QED
    BY <1>4, <2>1, <2>2 DEF End, TypeOK, Entries, workerVars
<1>5. CASE NotifyPush(p)
  BY <1>5 DEF NotifyPush, WakeWorker, PoolGoto, TypeOK, sharedVars
<1>6. CASE Destroy(p)
  <2>1. inFlight' \in Nat
    BY <1>6, SMT DEF Destroy, FinishInFlight, TypeOK
  <2>2. \E l \in {"finish", "idle"} : pool' = [pool EXCEPT ![p] = l]
    BY <1>6 DEF Destroy, PoolGoto
  <2>3. holds' \in {"none", "shared", "sole"}
    BY <1>6 DEF Destroy, TypeOK
  <2> QED
    BY <1>6, <2>1, <2>2, <2>3 DEF Destroy, TypeOK
<1>7. CASE PoolNotify(p)
  BY <1>7 DEF PoolNotify, WakeSleepers, PoolGoto, TypeOK, sharedVars, workerVars
<1> QED
  BY <1>1, <1>3, <1>4, <1>5, <1>6, <1>7 DEF PoolStep

\* A step keeps the types.
LEMMA TypesKept ==
    ASSUME TimerInv, [Next]_vars
    PROVE  TypeOK'
<1>1. TypeOK /\ heap' \in Seq(Entries)
  BY HeapKept DEF TimerInv, ControlInv
<1>2. CASE Tick
  BY <1>1, <1>2 DEF Tick, TypeOK, Entries, workerVars, poolVars
<1>3. CASE SpuriousWakeup
  BY <1>1, <1>3 DEF SpuriousWakeup, WakeWorker, Goto, TypeOK, sharedVars, poolVars
<1>4. CASE UNCHANGED vars
  BY <1>1, <1>4 DEF TypeOK, vars
<1> QED
  BY <1>1, <1>2, <1>3, <1>4, CallKeepsTypes, WorkerKeepsTypes, PoolKeepsTypes DEF Next

-----------------------------------------------------------------------------
(***************************************************************************)
(* No list has a timer twice.                                              *)
(***************************************************************************)

\* The tail of a sequence has what the sequence has but its head.
LEMMA TailOfIds ==
    ASSUME NEW s \in Seq(Ids), s # << >>,
           \A j, k \in 1 .. Len(s) : s[j] = s[k] => j = k
    PROVE  /\ Head(s) = s[1] /\ 1 \in 1 .. Len(s) /\ Len(Tail(s)) = Len(s) - 1
           /\ \A k \in 1 .. Len(Tail(s)) : k + 1 \in 1 .. Len(s) /\ Tail(s)[k] = s[k + 1]
           /\ \A j, k \in 1 .. Len(Tail(s)) : Tail(s)[j] = Tail(s)[k] => j = k
<1>1. Len(s) \in Nat /\ Len(s) >= 1
  BY EmptySeq, LenProperties, SMT
<1>2. /\ Len(Tail(s)) = Len(s) - 1
      /\ \A k \in 1 .. Len(Tail(s)) : Tail(s)[k] = s[k + 1]
  BY HeadTailProperties
<1>3. \A k \in 1 .. Len(Tail(s)) : k + 1 \in 1 .. Len(s) /\ Tail(s)[k] = s[k + 1]
  <2> SUFFICES ASSUME NEW k \in 1 .. Len(Tail(s))
               PROVE  k + 1 \in 1 .. Len(s) /\ Tail(s)[k] = s[k + 1]
    OBVIOUS
  <2>1. k + 1 \in 1 .. Len(s)
    BY <1>1, <1>2, SMT
  <2> QED
    BY <2>1, <1>2
<1>4. \A j, k \in 1 .. Len(Tail(s)) : Tail(s)[j] = Tail(s)[k] => j = k
  <2> SUFFICES ASSUME NEW j \in 1 .. Len(Tail(s)), NEW k \in 1 .. Len(Tail(s)),
                      Tail(s)[j] = Tail(s)[k]
               PROVE  j = k
    OBVIOUS
  <2>1. j + 1 \in 1 .. Len(s) /\ k + 1 \in 1 .. Len(s) /\ s[j + 1] = s[k + 1]
    BY <1>3
  <2>2. j + 1 = k + 1
    BY <2>1
  <2> QED
    BY <2>2, <1>1, <1>2, SMT
<1>5. Head(s) = s[1]
  BY SMT
<1> QED
  BY <1>1, <1>2, <1>3, <1>4, <1>5, SMT

\* The same of the executor's queue.
LEMMA TailOfShots ==
    ASSUME NEW s \in Seq(Shots), s # << >>, Distinct(s)
    PROVE  /\ Head(s) = s[1] /\ 1 \in 1 .. Len(s) /\ Len(Tail(s)) = Len(s) - 1
           /\ Head(s) \in Shots /\ Tail(s) \in Seq(Shots)
           /\ \A k \in 1 .. Len(Tail(s)) : k + 1 \in 1 .. Len(s) /\ Tail(s)[k] = s[k + 1]
           /\ Distinct(Tail(s))
           /\ \A i : Has(s, i) <=> Has(Tail(s), i) \/ i = Head(s).id
           /\ ~Has(Tail(s), Head(s).id)
<1>1. Len(s) \in Nat /\ Len(s) >= 1
  BY EmptySeq, LenProperties, SMT
<1>2. /\ Head(s) \in Shots /\ Tail(s) \in Seq(Shots)
      /\ Len(Tail(s)) = Len(s) - 1
      /\ \A k \in 1 .. Len(Tail(s)) : Tail(s)[k] = s[k + 1]
  BY HeadTailProperties
<1>3. \A k \in 1 .. Len(Tail(s)) : k + 1 \in 1 .. Len(s) /\ Tail(s)[k] = s[k + 1]
  <2> SUFFICES ASSUME NEW k \in 1 .. Len(Tail(s))
               PROVE  k + 1 \in 1 .. Len(s) /\ Tail(s)[k] = s[k + 1]
    OBVIOUS
  <2>1. k + 1 \in 1 .. Len(s)
    BY <1>1, <1>2, SMT
  <2> QED
    BY <2>1, <1>2
<1>4. Distinct(Tail(s))
  <2> SUFFICES ASSUME NEW j \in 1 .. Len(Tail(s)), NEW k \in 1 .. Len(Tail(s)),
                      Tail(s)[j].id = Tail(s)[k].id
               PROVE  j = k
    BY DEF Distinct
  <2>1. j + 1 \in 1 .. Len(s) /\ k + 1 \in 1 .. Len(s) /\ s[j + 1].id = s[k + 1].id
    BY <1>3
  <2>2. j + 1 = k + 1
    BY <2>1 DEF Distinct
  <2> QED
    BY <2>2, <1>1, <1>2, SMT
<1>5. Head(s) = s[1] /\ 1 \in 1 .. Len(s)
  BY <1>1, SMT
<1>6. ASSUME NEW i PROVE Has(s, i) <=> Has(Tail(s), i) \/ i = Head(s).id
  <2>1. ASSUME Has(s, i) PROVE Has(Tail(s), i) \/ i = Head(s).id
    <3>1. PICK k \in 1 .. Len(s) : s[k].id = i
      BY <2>1 DEF Has
    <3>2. CASE k = 1
      BY <3>1, <3>2, <1>5
    <3>3. CASE k # 1
      <4>1. PICK j \in Nat : j = k - 1
        BY <3>3, <1>1, SMT
      <4>2. j \in 1 .. Len(Tail(s)) /\ j + 1 = k
        BY <4>1, <3>3, <1>1, <1>2, SMT
      <4> QED
        BY <4>2, <3>1, <1>3 DEF Has
    <3> QED
      BY <3>2, <3>3
  <2>2. ASSUME Has(Tail(s), i) PROVE Has(s, i)
    BY <2>2, <1>3 DEF Has
  <2>3. ASSUME i = Head(s).id PROVE Has(s, i)
    BY <2>3, <1>5 DEF Has
  <2> QED
    BY <2>1, <2>2, <2>3
<1>7. ~Has(Tail(s), Head(s).id)
  <2> SUFFICES ASSUME NEW k \in 1 .. Len(Tail(s)), Tail(s)[k].id = Head(s).id PROVE FALSE
    BY DEF Has
  <2>1. k + 1 \in 1 .. Len(s) /\ s[k + 1].id = s[1].id
    BY <1>3, <1>5
  <2>2. k + 1 = 1
    BY <2>1, <1>5 DEF Distinct
  <2> QED
    BY <2>2, <1>1, <1>2, SMT
<1> QED
  BY <1>2, <1>3, <1>4, <1>5, <1>6, <1>7

\* A shot appended to the queue is one more timer in it.
LEMMA AppendedShot ==
    ASSUME NEW s \in Seq(Shots), NEW e \in Shots, NEW P, P = Append(s, e)
    PROVE  /\ Len(P) = Len(s) + 1
           /\ \A k \in 1 .. Len(P) : IF k = Len(s) + 1 THEN P[k] = e ELSE k \in 1 .. Len(s) /\ P[k] = s[k]
           /\ \A i : Has(P, i) <=> Has(s, i) \/ i = e.id
           /\ Distinct(s) /\ ~Has(s, e.id) => Distinct(P)
<1>1. /\ Len(P) = Len(s) + 1 /\ Len(s) \in Nat
      /\ \A k \in 1 .. Len(s) : P[k] = s[k]
      /\ P[Len(s) + 1] = e
  BY AppendProperties, LenProperties
<1>2. \A k \in 1 .. Len(P) : IF k = Len(s) + 1 THEN P[k] = e ELSE k \in 1 .. Len(s) /\ P[k] = s[k]
  <2> SUFFICES ASSUME NEW k \in 1 .. Len(P), k # Len(s) + 1 PROVE k \in 1 .. Len(s) /\ P[k] = s[k]
    BY <1>1
  <2>1. k \in 1 .. Len(s)
    BY <1>1, SMT
  <2> QED
    BY <2>1, <1>1
<1>3. /\ \A k \in 1 .. Len(s) : k \in 1 .. Len(P)
      /\ Len(s) + 1 \in 1 .. Len(P)
  BY <1>1, SMT
<1>4. ASSUME NEW i PROVE Has(P, i) <=> Has(s, i) \/ i = e.id
  <2>1. ASSUME NEW k \in 1 .. Len(P), P[k].id = i PROVE Has(s, i) \/ i = e.id
    <3>1. CASE k = Len(s) + 1
      BY <2>1, <3>1, <1>2
    <3>2. CASE k # Len(s) + 1
      BY <2>1, <3>2, <1>2 DEF Has
    <3> QED
      BY <3>1, <3>2
  <2>2. ASSUME Has(s, i) PROVE Has(P, i)
    BY <2>2, <1>1, <1>3 DEF Has
  <2>3. ASSUME i = e.id PROVE Has(P, i)
    BY <2>3, <1>1, <1>3 DEF Has
  <2> QED
    BY <2>1, <2>2, <2>3 DEF Has
<1>5. ASSUME Distinct(s), ~Has(s, e.id) PROVE Distinct(P)
  <2> SUFFICES ASSUME NEW j \in 1 .. Len(P), NEW k \in 1 .. Len(P), P[j].id = P[k].id
               PROVE  j = k
    BY DEF Distinct
  <2>1. CASE j # Len(s) + 1 /\ k # Len(s) + 1
    BY <2>1, <1>2, <1>5 DEF Distinct
  <2>2. CASE j = Len(s) + 1 /\ k # Len(s) + 1
    BY <2>2, <1>2, <1>5 DEF Has
  <2>3. CASE j # Len(s) + 1 /\ k = Len(s) + 1
    BY <2>3, <1>2, <1>5 DEF Has
  <2> QED
    BY <2>1, <2>2, <2>3
<1> QED
  BY <1>1, <1>2, <1>4, <1>5

\* Sharing aside, the queue is the same after the worker gave up its shares.
LEMMA UnsharedQueue ==
    ASSUME NEW s \in Seq(Shots), NEW P, P = [k \in DOMAIN s |-> Unshare(s[k])]
    PROVE  /\ Len(P) = Len(s)
           /\ \A k \in 1 .. Len(s) : P[k].id = s[k].id /\ ~P[k].shared
           /\ \A i : Has(P, i) <=> Has(s, i)
           /\ Distinct(s) => Distinct(P)
<1>1. Len(s) \in Nat /\ DOMAIN s = 1 .. Len(s) /\ \A k \in 1 .. Len(s) : s[k] \in Shots
  BY LenProperties, ElementOfSeq
<1>2. \A k \in 1 .. Len(s) : P[k] = Unshare(s[k]) /\ Unshare(s[k]) \in Shots
  BY <1>1, Unshared
<1>3. P \in [1 .. Len(s) -> Shots]
  BY <1>1, <1>2
<1>4. P \in Seq(Shots)
  BY <1>1, <1>3, SeqDef
<1>5. Len(P) = Len(s)
  <2>1. DOMAIN P = 1 .. Len(s) /\ DOMAIN P = 1 .. Len(P) /\ Len(P) \in Nat
    BY <1>3, <1>4, LenProperties
  <2> QED
    BY <2>1, <1>1, SMT
<1>6. \A k \in 1 .. Len(s) : P[k].id = s[k].id /\ ~P[k].shared
  BY <1>1, <1>2, Unshared
<1>7. ASSUME NEW i PROVE Has(P, i) <=> Has(s, i)
  BY <1>5, <1>6 DEF Has
<1>8. Distinct(s) => Distinct(P)
  BY <1>5, <1>6 DEF Distinct
<1> QED
  BY <1>5, <1>6, <1>7, <1>8

\* The head of the ready list is ready until the worker has handed it over.
LEMMA HeadIsReady ==
    ASSUME TypeOK, ready # << >>
    PROVE  /\ Head(ready) \in Ids
           /\ worker # "release" => IsReady(Head(ready))
<1>1. ready \in Seq(Ids)
  BY DEF TypeOK
<1>2. 1 \in 1 .. Len(ready) /\ Head(ready) = ready[1]
  BY <1>1, EmptySeq, SMT
<1>3. ready[1] \in Ids
  BY <1>1, <1>2, ElementOfSeq
<1> QED
  BY <1>2, <1>3 DEF IsReady

\* The queue has no timer twice.
LEMMA QueueDistinct ==
    ASSUME TimerInv, [Next]_vars
    PROVE  Distinct(queue')
<1>1. queue \in Seq(Shots) /\ Distinct(queue) /\ TypeOK
  BY DEF TimerInv, ControlInv, TypeOK, PlacesInv, ListsDistinct
<1>2. CASE queue' = queue
  BY <1>1, <1>2
<1>3. ASSUME NEW p \in PoolThreads, Take(p) PROVE Distinct(queue')
  <2>1. queue # << >> /\ queue' = Tail(queue)
    BY <1>3 DEF Take
  <2>2. Distinct(Tail(queue))
    BY <1>1, <2>1, TailOfShots
  <2> QED
    BY <2>1, <2>2
<1>4. CASE Post
  <2> DEFINE i == Head(ready)
             e == [id |-> i, shared |-> TRUE]
  <2>1. worker = "post" /\ ready # << >>
    BY <1>4 DEF Post, TimerInv, ControlInv, Dispatching
  <2>2. i \in Ids /\ IsReady(i)
    BY <1>1, <2>1, HeadIsReady
  <2>3. ~Has(queue, i)
    BY <2>2 DEF TimerInv, PlacesInv, OnePlace
  <2>4. e \in Shots /\ e.id = i
    BY <2>2 DEF Shots
  <2>5. queue' = queue \/ queue' = Append(queue, e)
    BY <1>4 DEF Post
  <2> HIDE DEF i, e
  <2> QED
    BY <1>1, <2>3, <2>4, <2>5, AppendedShot
<1>5. CASE Release
  BY <1>1, <1>5, UnsharedQueue DEF Release
<1>6. ASSUME NEW t \in Threads, Call(t) \/ Continue(t) PROVE queue' = queue
  BY <1>6 DEF Call, Continue, Start, ScheduleAfter, ScheduleEvery, Schedule, Cancel, CallRequestStop,
              Stop, RequestStop, Wait, Notify, Join, Drain, poolVars
<1>7. ASSUME WorkerStep, ~Post, ~Release PROVE queue' = queue
  BY <1>7 DEF WorkerStep, Wake, Expire, Expired, Dispatch, Rejected, FinishNotify, poolVars
<1>8. ASSUME NEW p \in PoolThreads, PoolStep(p), ~Take(p) PROVE queue' = queue
  BY <1>8 DEF PoolStep, Begin, End, NotifyPush, Destroy, PoolNotify
<1>9. ASSUME Tick \/ SpuriousWakeup \/ UNCHANGED vars PROVE queue' = queue
  BY <1>9 DEF Tick, SpuriousWakeup, poolVars, vars
<1> QED
  BY <1>2, <1>3, <1>4, <1>5, <1>6, <1>7, <1>8, <1>9 DEF Next

\* Nor has the ready list.
LEMMA ReadyDistinct ==
    ASSUME TimerInv, [Next]_vars
    PROVE  \A j, k \in 1 .. Len(ready') : ready'[j] = ready'[k] => j = k
<1>1. ready \in Seq(Ids) /\ \A j, k \in 1 .. Len(ready) : ready[j] = ready[k] => j = k
  BY DEF TimerInv, ControlInv, TypeOK, PlacesInv, ListsDistinct
<1>2. CASE ready' = ready
  BY <1>1, <1>2
<1>3. CASE ready # << >> /\ ready' = Tail(ready)
  <2>1. \A j, k \in 1 .. Len(Tail(ready)) : Tail(ready)[j] = Tail(ready)[k] => j = k
    BY <1>1, <1>3, TailOfIds
  <2> QED
    BY <1>3, <2>1
<1>4. CASE Expired
  <2>1. CASE Interrupted
    BY <1>2, <1>4, <2>1 DEF Expired
  <2>2. CASE ~Interrupted
    BY <1>4, <2>2, CollectEffect DEF Expired, TimerInv, ControlInv, TypeOK, PlacesInv, ListsDistinct, Entries
  <2> QED
    BY <2>1, <2>2
<1>5. CASE Release
  BY <1>3, <1>5 DEF Release, TimerInv, ControlInv, Dispatching
<1>6. ASSUME NEW t \in Threads, Call(t) \/ Continue(t) PROVE ready' = ready
  BY <1>6 DEF Call, Continue, Start, ScheduleAfter, ScheduleEvery, Schedule, Cancel, CallRequestStop,
              Stop, RequestStop, Wait, Notify, Join, Drain, workerVars
<1>7. ASSUME WorkerStep, ~Expired, ~Release PROVE ready' = ready \/ (ready # << >> /\ ready' = Tail(ready))
  BY <1>7 DEF WorkerStep, Wake, Expire, Dispatch, Post, Rejected, FinishNotify, workerVars
<1>8. ASSUME NEW p \in PoolThreads, PoolStep(p) PROVE ready' = ready
  BY <1>8 DEF PoolStep, Take, Begin, End, NotifyPush, Destroy, PoolNotify, workerVars
<1>9. ASSUME Tick \/ SpuriousWakeup \/ UNCHANGED vars PROVE ready' = ready
  BY <1>9 DEF Tick, SpuriousWakeup, workerVars, vars
<1> QED
  BY <1>2, <1>3, <1>4, <1>5, <1>6, <1>7, <1>8, <1>9 DEF Next

\* A thread of the executor that goes from one label to another takes its
\* timer with it.
LEMMA ThreadMoves ==
    ASSUME TypeOK, ListsDistinct, NEW p \in PoolThreads, NEW l,
           pool' = [pool EXCEPT ![p] = l], shot' = shot,
           NEW m \in {"begin", "callback"}, NEW i
    PROVE  IsAt(i, m)' <=> \/ IsAt(i, m) /\ ~(pool[p] = m /\ i = shot[p].id)
                           \/ l = m /\ i = shot[p].id
<1>1. \A q \in PoolThreads : pool'[q] = IF q = p THEN l ELSE pool[q]
  BY DEF TypeOK
<1>2. ASSUME IsAt(i, m)'
      PROVE  \/ IsAt(i, m) /\ ~(pool[p] = m /\ i = shot[p].id)
             \/ l = m /\ i = shot[p].id
  <2>1. PICK q \in PoolThreads : pool'[q] = m /\ shot[q].id = i
    BY <1>2 DEF IsAt
  <2>2. CASE q = p
    BY <2>1, <2>2, <1>1
  <2>3. CASE q # p
    <3>1. pool[q] = m /\ IsAt(i, m)
      BY <2>1, <2>3, <1>1 DEF IsAt
    <3>2. ~(pool[p] = m /\ i = shot[p].id)
      BY <2>1, <2>3, <3>1 DEF ListsDistinct, Busy
    <3> QED
      BY <3>1, <3>2
  <2> QED
    BY <2>2, <2>3
<1>3. ASSUME IsAt(i, m), ~(pool[p] = m /\ i = shot[p].id) PROVE IsAt(i, m)'
  <2>1. PICK q \in PoolThreads : pool[q] = m /\ shot[q].id = i
    BY <1>3 DEF IsAt
  <2>2. q # p
    BY <2>1, <1>3
  <2> QED
    BY <2>1, <2>2, <1>1 DEF IsAt
<1>4. ASSUME l = m, i = shot[p].id PROVE IsAt(i, m)'
  BY <1>4, <1>1 DEF IsAt
<1> QED
  BY <1>2, <1>3, <1>4

\* As long as the busy threads keep their labels and their timers, nothing
\* changes.
LEMMA ThreadsStay ==
    ASSUME \A q \in PoolThreads : Busy(q) \/ Busy(q)' => pool'[q] = pool[q] /\ shot'[q].id = shot[q].id,
           NEW m \in {"begin", "callback"}, NEW i
    PROVE  IsAt(i, m)' <=> IsAt(i, m)
BY DEF IsAt, Busy

\* A thread keeps its timer when the worker gives up its share.
LEMMA UnsharedThreads ==
    ASSUME TypeOK, Release
    PROVE  \A q \in PoolThreads : shot'[q].id = shot[q].id
<1>1. CASE shot' = shot
  BY <1>1
<1>2. CASE shot' = [p \in PoolThreads |-> Unshare(shot[p])]
  <2>1. \A q \in PoolThreads : shot[q] \in Shots \/ shot[q] = NoShot
    BY DEF TypeOK
  <2>2. \A q \in PoolThreads : shot'[q] = Unshare(shot[q])
    BY <1>2
  <2> QED
    BY <2>1, <2>2, Unshared
<1> QED
  BY <1>1, <1>2 DEF Release

\* No two threads of the executor have the same timer.
LEMMA ThreadsDistinct ==
    ASSUME TimerInv, [Next]_vars
    PROVE  \A p, q \in PoolThreads : Busy(p)' /\ Busy(q)' /\ shot'[p].id = shot'[q].id => p = q
<1>1. TypeOK /\ ListsDistinct
  BY DEF TimerInv, ControlInv, PlacesInv
<1>2. CASE \A q \in PoolThreads : Busy(q)' => Busy(q) /\ shot'[q].id = shot[q].id
  BY <1>1, <1>2 DEF ListsDistinct
<1>3. ASSUME NEW p \in PoolThreads, Take(p)
      PROVE  \A r, q \in PoolThreads : Busy(r)' /\ Busy(q)' /\ shot'[r].id = shot'[q].id => r = q
  <2>1. /\ queue # << >> /\ shot' = [shot EXCEPT ![p] = Head(queue)]
        /\ pool' = [pool EXCEPT ![p] = "begin"]
    BY <1>3 DEF Take
  <2>2. queue \in Seq(Shots) /\ Distinct(queue)
    BY <1>1 DEF TypeOK, ListsDistinct
  <2>3. Head(queue) \in Shots /\ Has(queue, Head(queue).id)
    BY <2>1, <2>2, TailOfShots
  <2>4. ~IsAt(Head(queue).id, "begin") /\ ~IsAt(Head(queue).id, "callback")
    BY <2>3 DEF Shots, TimerInv, PlacesInv, OnePlace
  <2>5. \A q \in PoolThreads : Busy(q) => shot[q].id # Head(queue).id
    BY <2>4 DEF IsAt, Busy
  <2>6. \A q \in PoolThreads : q # p /\ Busy(q)' => Busy(q) /\ shot'[q].id = shot[q].id
    BY <2>1, <1>1 DEF TypeOK, Busy
  <2>7. shot'[p] = Head(queue)
    BY <2>1, <1>1 DEF TypeOK
  <2>8. ASSUME NEW r \in PoolThreads, NEW q \in PoolThreads,
               Busy(r)', Busy(q)', shot'[r].id = shot'[q].id
        PROVE  r = q
    <3>1. CASE r = p /\ q # p
      BY <3>1, <2>5, <2>6, <2>7, <2>8
    <3>2. CASE r # p /\ q = p
      BY <3>2, <2>5, <2>6, <2>7, <2>8
    <3>3. CASE r # p /\ q # p
      BY <3>3, <2>6, <2>8, <1>1 DEF ListsDistinct
    <3> QED
      BY <3>1, <3>2, <3>3
  <2> QED
    BY <2>8
<1>4. ASSUME NEW t \in Threads, Call(t) \/ Continue(t) PROVE pool' = pool /\ shot' = shot
  BY <1>4 DEF Call, Continue, Start, ScheduleAfter, ScheduleEvery, Schedule, Cancel, CallRequestStop,
              Stop, RequestStop, Wait, Notify, Join, Drain, poolVars
<1>5. CASE Release
  <2>1. \A q \in PoolThreads : shot'[q].id = shot[q].id
    BY <1>1, <1>5, UnsharedThreads
  <2> QED
    BY <2>1, <1>2, <1>5 DEF Release, Busy
<1>6. ASSUME WorkerStep, ~Release PROVE pool' = pool /\ shot' = shot
  BY <1>6 DEF WorkerStep, Wake, Expire, Expired, Dispatch, Post, Rejected, FinishNotify, poolVars
<1>7. ASSUME NEW p \in PoolThreads, PoolStep(p), ~Take(p)
      PROVE  \A q \in PoolThreads : Busy(q)' => Busy(q) /\ shot'[q].id = shot[q].id
  <2>1. CASE Begin(p)
    <3>1. /\ pool[p] = "begin" /\ shot' = shot
          /\ pool' = [pool EXCEPT ![p] = "callback"] \/ pool' = [pool EXCEPT ![p] = "destroy"]
      BY <2>1 DEF Begin, PoolGoto
    <3> QED
      BY <3>1, <1>1 DEF TypeOK, Busy
  <2>2. CASE End(p)
    <3>1. /\ pool[p] = "callback" /\ shot' = shot
          /\ pool' = [pool EXCEPT ![p] = "notify"] \/ pool' = [pool EXCEPT ![p] = "destroy"]
      BY <2>2 DEF End, PoolGoto
    <3> QED
      BY <3>1, <1>1 DEF TypeOK, Busy
  <2>3. CASE NotifyPush(p)
    <3>1. shot' = shot /\ pool' = [pool EXCEPT ![p] = "destroy"]
      BY <2>3 DEF NotifyPush, PoolGoto
    <3> QED
      BY <3>1, <1>1 DEF TypeOK, Busy
  <2>4. CASE Destroy(p)
    <3>1. /\ shot' = [shot EXCEPT ![p] = NoShot]
          /\ pool' = [pool EXCEPT ![p] = "idle"] \/ pool' = [pool EXCEPT ![p] = "finish"]
      BY <2>4 DEF Destroy, PoolGoto
    <3> QED
      BY <3>1, <1>1 DEF TypeOK, Busy
  <2>5. CASE PoolNotify(p)
    <3>1. shot' = shot /\ pool' = [pool EXCEPT ![p] = "idle"]
      BY <2>5 DEF PoolNotify, PoolGoto
    <3> QED
      BY <3>1, <1>1 DEF TypeOK, Busy
  <2> QED
    BY <1>7, <2>1, <2>2, <2>3, <2>4, <2>5 DEF PoolStep
<1>8. ASSUME Tick \/ SpuriousWakeup \/ UNCHANGED vars PROVE pool' = pool /\ shot' = shot
  BY <1>8 DEF Tick, SpuriousWakeup, poolVars, vars
<1>9. ASSUME pool' = pool, shot' = shot
      PROVE  \A q \in PoolThreads : Busy(q)' => Busy(q) /\ shot'[q].id = shot[q].id
  BY <1>9 DEF Busy
<1> QED
  BY <1>2, <1>3, <1>4, <1>5, <1>6, <1>7, <1>8, <1>9 DEF Next

\* No list has a timer twice after a step.
LEMMA ListsKept ==
    ASSUME TimerInv, [Next]_vars
    PROVE  ListsDistinct'
BY HeapKept, QueueDistinct, ReadyDistinct, ThreadsDistinct DEF ListsDistinct

-----------------------------------------------------------------------------
(***************************************************************************)
(* One place at a time.                                                    *)
(***************************************************************************)

\* The queue and the threads with a wrapper are counted by finite numbers.
LEMMA FlightCounts ==
    ASSUME TypeOK
    PROVE  Len(queue) \in Nat /\ IsFiniteSet(Wrapping) /\ Cardinality(Wrapping) \in Nat /\ Held \in {0, 1}
<1>1. Len(queue) \in Nat
  BY LenProperties DEF TypeOK
<1>2. IsFiniteSet(Wrapping)
  BY ThreadAssumption, FS_Subset DEF Wrapping
<1> QED
  BY <1>1, <1>2, FS_CardinalityType DEF Held

\* Nothing is in flight when the worker has ended and the counter is 0.
LEMMA DrainedIsEmpty ==
    ASSUME TimerInv, inFlight = 0, worker \in {"none", "exited"}
    PROVE  /\ queue = << >> /\ ready = << >>
           /\ \A p \in PoolThreads : pool[p] \in {"idle", "finish"}
<1>1. Len(queue) \in Nat /\ IsFiniteSet(Wrapping) /\ Cardinality(Wrapping) \in Nat /\ Held \in {0, 1}
  BY FlightCounts DEF TimerInv, ControlInv
<1>2. inFlight = Len(queue) + Cardinality(Wrapping) + Held
  BY DEF TimerInv, FlightInv, Flight
<1>3. Len(queue) = 0 /\ Cardinality(Wrapping) = 0
  BY <1>1, <1>2, SMT
<1>4. queue = << >>
  <2>1. queue \in Seq(Shots)
    BY DEF TimerInv, ControlInv, TypeOK
  <2> QED
    BY <2>1, <1>3, EmptySeq, SMT
<1>5. Wrapping = {}
  BY <1>1, <1>3, FS_EmptySet
<1>6. \A p \in PoolThreads : pool[p] \in {"idle", "finish"}
  BY <1>5 DEF Wrapping, TimerInv, ControlInv, TypeOK
<1>7. ready = << >>
  BY DEF TimerInv, ControlInv, Dispatching
<1> QED
  BY <1>4, <1>6, <1>7

\* An empty ready list, an empty queue and idle threads hold nothing.
LEMMA EmptyHasNone ==
    ASSUME NEW i
    PROVE  /\ ~Has(<< >>, i)
           /\ ready = << >> => ~IsReady(i)
           /\ (\A p \in PoolThreads : pool[p] \in {"idle", "finish"}) =>
                 ~IsAt(i, "begin") /\ ~IsAt(i, "callback")
<1>1. ~Has(<< >>, i)
  BY EmptySeq, SMT DEF Has
<1>2. ready = << >> => ~IsReady(i)
  BY EmptySeq, SMT DEF IsReady
<1>3. (\A p \in PoolThreads : pool[p] \in {"idle", "finish"}) =>
         ~IsAt(i, "begin") /\ ~IsAt(i, "callback")
  BY DEF IsAt
<1> QED
  BY <1>1, <1>2, <1>3

\* The ready list reads the same while it is the same and the worker neither
\* hands its head over nor lets go of it.
LEMMA ReadyStays ==
    ASSUME ready' = ready, worker' = "release" <=> worker = "release", NEW i
    PROVE  IsReady(i)' <=> IsReady(i)
BY DEF IsReady

\* The threads of the executor are where they were.
LEMMA PoolStays ==
    ASSUME pool' = pool, shot' = shot, NEW i, NEW m
    PROVE  IsAt(i, m)' <=> IsAt(i, m)
BY DEF IsAt

\* A step that moves no timer and changes no record.
LEMMA NothingMoves ==
    ASSUME TimerInv, NEW i \in Ids,
           Has(heap', i) <=> Has(heap, i), IsReady(i)' <=> IsReady(i), Has(queue', i) <=> Has(queue, i),
           IsAt(i, "begin")' <=> IsAt(i, "begin"), IsAt(i, "callback")' <=> IsAt(i, "callback"),
           states'[i] = states[i], nextId' = nextId, stranded \subseteq stranded'
    PROVE  OnePlace(i)' /\ Recorded(i)'
BY DEF TimerInv, PlacesInv, OnePlace, Recorded, Placed

\* A step of the interface.
LEMMA CallKeepsPlaces ==
    ASSUME TimerInv, NEW t \in Threads, Call(t) \/ Continue(t), NEW i \in Ids
    PROVE  OnePlace(i)' /\ Recorded(i)'
<1>1. TypeOK /\ OnePlace(i) /\ Recorded(i) /\ nextId \in Nat /\ i \in Nat
  <2>1. TypeOK /\ OnePlace(i) /\ Recorded(i)
    BY DEF TimerInv, ControlInv, PlacesInv
  <2>2. nextId \in Nat /\ i \in Nat
    BY <2>1, BoundAssumption, SMT DEF TypeOK, Ids
  <2> QED
    BY <2>1, <2>2
<1>2. ASSUME NEW d \in 0 .. MaxDelay, NEW every, Schedule(t, d, every) PROVE OnePlace(i)' /\ Recorded(i)'
  <2>1. PICK left \in 0 .. d : heap' = Push(heap, [id |-> nextId, left |-> left])
    BY <1>2 DEF Schedule
  <2> DEFINE e == [id |-> nextId, left |-> left]
  <2>2. e \in Entries /\ e.id = nextId
    BY <1>2, BoundAssumption, SMT DEF Schedule, Entries
  <2>3. ~Placed(nextId) /\ nextId \in Ids /\ nextId \in Nat
    BY <1>2, BoundAssumption, SMT DEF Schedule, TimerInv, PlacesInv, Recorded, Ids
  <2> HIDE DEF e
  <2>4. Has(heap', i) <=> Has(heap, i) \/ i = nextId
    <3>1. heap \in Seq(Entries) /\ Sorted(heap) /\ Distinct(heap) /\ ~Has(heap, e.id) /\ heap' = Push(heap, e)
      BY <2>1, <2>2, <2>3 DEF e, Placed, TimerInv, ControlInv, TypeOK, Entries, PlacesInv, ListsDistinct
    <3> QED
      BY <2>2, <3>1, Pushed
  <2>5. /\ IsReady(i)' <=> IsReady(i)
        /\ Has(queue', i) <=> Has(queue, i)
        /\ IsAt(i, "begin")' <=> IsAt(i, "begin")
        /\ IsAt(i, "callback")' <=> IsAt(i, "callback")
    BY <1>2, ReadyStays, PoolStays DEF Schedule, workerVars, poolVars
  <2>6. /\ states'[i] = IF i = nextId THEN "Pending" ELSE states[i]
        /\ nextId' = nextId + 1 /\ stranded' = stranded
    BY <1>2, <1>1 DEF Schedule, TypeOK
  <2>7. i >= nextId' => i >= nextId /\ i # nextId
    BY <2>6, <1>1, SMT
  <2>8. CASE i = nextId
    BY <2>3, <2>4, <2>5, <2>6, <2>7, <2>8 DEF OnePlace, Recorded, Placed
  <2>9. CASE i # nextId
    BY <1>1, <2>4, <2>5, <2>6, <2>7, <2>9 DEF OnePlace, Recorded, Placed
  <2> QED
    BY <2>8, <2>9
<1>3. CASE ScheduleAfter(t)
  BY <1>2, <1>3 DEF ScheduleAfter
<1>4. CASE ScheduleEvery(t)
  <2>1. PICK d \in 1 .. MaxDelay : Schedule(t, d, d)
    BY <1>4 DEF ScheduleEvery
  <2>2. d \in 0 .. MaxDelay
    BY BoundAssumption, SMT
  <2> QED
    BY <2>1, <2>2, <1>2
<1>5. ASSUME UNCHANGED <<heap, ready, queue, pool, shot, nextId, stranded>>,
             worker' = "release" <=> worker = "release",
             states'[i] = states[i] \/ (states'[i] = "Cancelled" /\ states[i] # "none")
      PROVE  OnePlace(i)' /\ Recorded(i)'
  <2>1. /\ IsReady(i)' <=> IsReady(i)
        /\ IsAt(i, "begin")' <=> IsAt(i, "begin")
        /\ IsAt(i, "callback")' <=> IsAt(i, "callback")
    BY <1>5, ReadyStays, PoolStays
  <2> QED
    BY <1>1, <1>5, <2>1 DEF OnePlace, Recorded, Placed
<1>6. CASE Start(t) \/ Wait(t) \/ Notify(t) \/ Join(t)
  <2>1. (worker # "release" /\ worker' # "release") \/ worker' = worker
    BY <1>6 DEF Start, Wait, Notify, WakeWorker, Join, workerVars, TimerInv, ControlInv, Phases, TypeOK
  <2>2. UNCHANGED <<heap, ready, queue, pool, shot, nextId, stranded>> /\ states' = states
    BY <1>6 DEF Start, Wait, Notify, Join, sharedVars, workerVars, poolVars
  <2> QED
    BY <1>5, <2>1, <2>2
<1>7. ASSUME NEW j \in Ids, Cancel(t, j) PROVE OnePlace(i)' /\ Recorded(i)'
  <2>1. UNCHANGED <<heap, ready, queue, pool, shot, nextId, stranded, worker>>
    BY <1>7 DEF Cancel, workerVars, poolVars
  <2>2. states'[i] = states[i] \/ (states'[i] = "Cancelled" /\ states[i] # "none")
    BY <1>7, <1>1 DEF Cancel, TypeOK
  <2> QED
    BY <1>5, <2>1, <2>2
<1>8. ASSUME NEW a, NEW b, RequestStop(t, a, b) PROVE OnePlace(i)' /\ Recorded(i)'
  <2>1. UNCHANGED <<heap, ready, queue, pool, shot, nextId, stranded, worker>>
    BY <1>8 DEF RequestStop, workerVars, poolVars
  <2>2. states'[i] = states[i] \/ (states'[i] = "Cancelled" /\ states[i] # "none")
    BY <1>8, <1>1 DEF RequestStop
  <2> QED
    BY <1>5, <2>1, <2>2
<1>9. CASE CallRequestStop(t) \/ Stop(t)
  BY <1>8, <1>9 DEF CallRequestStop, Stop
<1>10. CASE Drain(t)
  <2>1. UNCHANGED <<ready, queue, pool, shot, nextId, stranded, worker>>
    BY <1>10 DEF Drain, workerVars, poolVars
  <2>2. CASE inFlight > 0
    <3>1. inFlight # 0
      BY <1>1, <2>2, SMT DEF TypeOK
    <3>2. heap' = heap /\ states' = states
      BY <1>10, <3>1 DEF Drain
    <3> QED
      BY <1>5, <2>1, <3>2
  <2>3. CASE ~(inFlight > 0)
    <3>1. heap' = << >> /\ states'[i] = "none" /\ inFlight = 0
      BY <1>10, <2>3 DEF Drain, Erase
    <3>2. worker \in {"none", "exited"}
      BY <1>10 DEF Drain, TimerInv, ControlInv, Phases
    <3>3. /\ queue = << >> /\ ready = << >>
          /\ \A p \in PoolThreads : pool[p] \in {"idle", "finish"}
      BY <3>1, <3>2, DrainedIsEmpty
    <3>4. ~Has(heap', i) /\ ~IsReady(i) /\ ~Has(queue', i) /\ ~IsAt(i, "begin") /\ ~IsAt(i, "callback")
      BY <2>1, <3>1, <3>3, EmptyHasNone
    <3>5. ~IsReady(i)' /\ ~IsAt(i, "begin")' /\ ~IsAt(i, "callback")'
      BY <2>1, <3>4, ReadyStays, PoolStays
    <3> QED
      BY <3>1, <3>4, <3>5 DEF OnePlace, Recorded, Placed
  <2> QED
    BY <2>2, <2>3
<1> QED
  BY <1>3, <1>4, <1>6, <1>7, <1>9, <1>10 DEF Call, Continue

\* The ready list loses its head.
LEMMA HeadDispatched ==
    ASSUME TimerInv, ready # << >>, worker # "release", worker' # "release" => ready' = Tail(ready),
           worker' = "release" => ready' = ready, NEW i
    PROVE  IsReady(i)' <=> IsReady(i) /\ i # Head(ready)
<1>1. ready \in Seq(Ids) /\ \A j, k \in 1 .. Len(ready) : ready[j] = ready[k] => j = k
  BY DEF TimerInv, ControlInv, TypeOK, PlacesInv, ListsDistinct
<1>2. /\ Head(ready) = ready[1] /\ 1 \in 1 .. Len(ready) /\ Len(Tail(ready)) = Len(ready) - 1
      /\ \A k \in 1 .. Len(Tail(ready)) : k + 1 \in 1 .. Len(ready) /\ Tail(ready)[k] = ready[k + 1]
  BY <1>1, TailOfIds
<1>3. Len(ready) \in Nat
  BY <1>1, LenProperties
<1>4. IsReady(i) <=> \E k \in 1 .. Len(ready) : ready[k] = i
  BY DEF IsReady
<1>5. CASE worker' = "release"
  <2>1. IsReady(i)' <=> \E k \in 1 .. Len(ready) : ready[k] = i /\ k # 1
    BY <1>5 DEF IsReady
  <2> QED
    BY <1>1, <1>2, <1>4, <2>1
<1>6. CASE worker' # "release"
  <2>1. IsReady(i)' <=> \E k \in 1 .. Len(Tail(ready)) : Tail(ready)[k] = i
    BY <1>6 DEF IsReady
  <2>2. ASSUME NEW k \in 1 .. Len(Tail(ready)), Tail(ready)[k] = i
        PROVE  IsReady(i) /\ i # Head(ready)
    <3>1. k + 1 \in 1 .. Len(ready) /\ ready[k + 1] = i /\ k + 1 # 1
      BY <2>2, <1>2, <1>3, SMT
    <3> QED
      BY <3>1, <1>1, <1>2, <1>4
  <2>3. ASSUME NEW k \in 1 .. Len(ready), ready[k] = i, i # Head(ready)
        PROVE  \E j \in 1 .. Len(Tail(ready)) : Tail(ready)[j] = i
    <3>1. k # 1
      BY <2>3, <1>2
    <3>2. PICK j \in Nat : j = k - 1
      BY <3>1, <1>3, SMT
    <3>3. j \in 1 .. Len(Tail(ready)) /\ j + 1 = k
      BY <3>1, <3>2, <1>2, <1>3, SMT
    <3>4. Tail(ready)[j] = ready[k]
      BY <3>3, <1>2
    <3> QED
      BY <3>3, <3>4, <2>3
  <2> QED
    BY <1>4, <2>1, <2>2, <2>3
<1> QED
  BY <1>5, <1>6

\* Letting go of the head that was handed over changes nothing.
LEMMA HeadReleased ==
    ASSUME TimerInv, ready # << >>, worker = "release", worker' # "release", ready' = Tail(ready), NEW i
    PROVE  IsReady(i)' <=> IsReady(i)
<1>1. ready \in Seq(Ids) /\ \A j, k \in 1 .. Len(ready) : ready[j] = ready[k] => j = k
  BY DEF TimerInv, ControlInv, TypeOK, PlacesInv, ListsDistinct
<1>2. /\ Len(Tail(ready)) = Len(ready) - 1
      /\ \A k \in 1 .. Len(Tail(ready)) : k + 1 \in 1 .. Len(ready) /\ Tail(ready)[k] = ready[k + 1]
  BY <1>1, TailOfIds
<1>3. Len(ready) \in Nat
  BY <1>1, LenProperties
<1>4. IsReady(i) <=> \E k \in 1 .. Len(ready) : ready[k] = i /\ k # 1
  BY DEF IsReady
<1>5. IsReady(i)' <=> \E k \in 1 .. Len(Tail(ready)) : Tail(ready)[k] = i
  BY DEF IsReady
<1>6. ASSUME NEW k \in 1 .. Len(Tail(ready)), Tail(ready)[k] = i PROVE IsReady(i)
  <2>1. k + 1 \in 1 .. Len(ready) /\ ready[k + 1] = i /\ k + 1 # 1
    BY <1>6, <1>2, <1>3, SMT
  <2> QED
    BY <2>1, <1>4
<1>7. ASSUME NEW k \in 1 .. Len(ready), ready[k] = i, k # 1
      PROVE  \E j \in 1 .. Len(Tail(ready)) : Tail(ready)[j] = i
  <2>1. PICK j \in Nat : j = k - 1
    BY <1>7, <1>3, SMT
  <2>2. j \in 1 .. Len(Tail(ready)) /\ j + 1 = k
    BY <2>1, <1>7, <1>2, <1>3, SMT
  <2>3. Tail(ready)[j] = ready[k]
    BY <2>2, <1>2
  <2> QED
    BY <2>2, <2>3, <1>7
<1> QED
  BY <1>4, <1>5, <1>6, <1>7

\* A step of the scheduling thread.
LEMMA WorkerKeepsPlaces ==
    ASSUME TimerInv, WorkerStep, NEW i \in Ids
    PROVE  OnePlace(i)' /\ Recorded(i)'
<1>1. TypeOK /\ OnePlace(i) /\ Recorded(i)
  BY DEF TimerInv, ControlInv, PlacesInv
<1>2. heap \in Seq(Entries) /\ Sorted(heap) /\ Distinct(heap)
  BY DEF TimerInv, ControlInv, TypeOK, Entries, PlacesInv, ListsDistinct
<1>3. ASSUME EnterLoop, worker # "release", UNCHANGED <<nextId, ready, queue, pool, shot, stranded>>
      PROVE  OnePlace(i)' /\ Recorded(i)'
  <2>1. worker' # "release"
    BY <1>3 DEF EnterLoop
  <2>2. /\ IsReady(i)' <=> IsReady(i)
        /\ Has(queue', i) <=> Has(queue, i)
        /\ IsAt(i, "begin")' <=> IsAt(i, "begin")
        /\ IsAt(i, "callback")' <=> IsAt(i, "callback")
    BY <1>3, <2>1, ReadyStays, PoolStays
  <2>3. CASE ~Running
    BY <1>3, <2>2, <2>3, NothingMoves DEF EnterLoop
  <2>4. CASE Running
    <3>1. /\ Has(heap', i) <=> Has(heap, i) /\ i \notin IdsOf(StaleTop)
          /\ i \in IdsOf(StaleTop) => Has(heap, i) /\ states[i] = "Cancelled"
      BY <1>2, <1>3, <2>4, EnterLoopEffect
    <3>2. states'[i] = IF i \in IdsOf(StaleTop) THEN "none" ELSE states[i]
      BY <1>2, <1>3, <2>4, EnterLoopEffect
    <3>3. CASE i \in IdsOf(StaleTop)
      BY <1>1, <1>3, <2>2, <3>1, <3>2, <3>3 DEF OnePlace, Recorded, Placed
    <3>4. CASE i \notin IdsOf(StaleTop)
      BY <1>3, <2>2, <3>1, <3>2, <3>4, NothingMoves
    <3> QED
      BY <3>3, <3>4
  <2> QED
    BY <2>3, <2>4
<1>4. CASE Wake
  BY <1>3, <1>4 DEF Wake, poolVars
<1>5. CASE Expire \/ FinishNotify
  <2>1. worker # "release" /\ worker' # "release"
    BY <1>5 DEF Expire, FinishNotify
  <2>2. UNCHANGED <<heap, states, nextId, ready, queue, pool, shot, stranded>>
    BY <1>5 DEF Expire, FinishNotify, sharedVars, poolVars
  <2> QED
    BY <2>1, <2>2, ReadyStays, PoolStays, NothingMoves
<1>6. CASE Expired
  <2>1. CASE Interrupted
    BY <1>3, <1>6, <2>1 DEF Expired, poolVars
  <2>2. CASE ~Interrupted
    <3>1. Collect /\ worker = "expired" /\ UNCHANGED <<nextId, queue, pool, shot, stranded>>
      BY <1>6, <2>2 DEF Expired, poolVars
    <3>2. ~IsReady(i)
      BY <3>1, EmptyHasNone DEF TimerInv, ControlInv, Dispatching
    <3>3. /\ Has(queue', i) <=> Has(queue, i)
          /\ IsAt(i, "begin")' <=> IsAt(i, "begin")
          /\ IsAt(i, "callback")' <=> IsAt(i, "callback")
      BY <3>1, PoolStays
    <3>4. Has(heap', i) <=> Has(heap, i) /\ i \notin IdsOf(Due)
      BY <1>2, <3>1, CollectEffect
    <3>5. IsReady(i)' <=> i \in IdsOf(Due) /\ states[i] = "Pending"
      <4>1. IsReady(i)' <=> \E k \in 1 .. Len(ready') : ready'[k] = i
        BY <3>1 DEF Collect, IsReady
      <4>2. (\E k \in 1 .. Len(ready') : ready'[k] = i) <=> i \in IdsOf(Due) /\ states[i] = "Pending"
        BY <1>2, <3>1, CollectEffect
      <4> QED
        BY <4>1, <4>2
    <3>6. i \in IdsOf(Due) => Has(heap, i)
      BY <1>2, <3>1, CollectEffect
    <3>7. states'[i] = IF i \notin IdsOf(Due) THEN states[i]
                       ELSE IF states[i] = "Pending" THEN "Submitted"
                       ELSE IF states[i] = "Cancelled" THEN "none" ELSE states[i]
      BY <3>1 DEF Collect
    <3>8. CASE i \in IdsOf(Due)
      BY <1>1, <3>1, <3>2, <3>3, <3>4, <3>5, <3>6, <3>7, <3>8 DEF OnePlace, Recorded, Placed
    <3>9. CASE i \notin IdsOf(Due)
      BY <3>1, <3>2, <3>3, <3>4, <3>5, <3>7, <3>9, NothingMoves
    <3> QED
      BY <3>8, <3>9
  <2> QED
    BY <2>1, <2>2
<1>7. CASE Dispatch
  <2>1. worker = "dispatch" /\ worker' # "release" /\ UNCHANGED <<heap, nextId, queue, pool, shot, stranded>>
    BY <1>7 DEF Dispatch, poolVars
  <2>2. /\ Has(queue', i) <=> Has(queue, i)
        /\ IsAt(i, "begin")' <=> IsAt(i, "begin")
        /\ IsAt(i, "callback")' <=> IsAt(i, "callback")
    BY <2>1, PoolStays
  <2>3. CASE ready' = ready
    <3>1. CASE states' = states
      BY <2>1, <2>2, <2>3, <3>1, ReadyStays, NothingMoves
    <3>2. CASE ready # << >> /\ ready' = Tail(ready)
      <4>1. Len(Tail(ready)) = Len(ready) - 1 /\ Len(ready) \in Nat
        BY <1>1, <3>2, HeadTailProperties, LenProperties DEF TypeOK
      <4> QED
        BY <2>3, <3>2, <4>1, SMT
    <3> QED
      BY <1>7, <3>1, <3>2 DEF Dispatch
  <2>4. CASE ready' # ready
    <3> DEFINE j == Head(ready)
    <3>1. /\ ready # << >> /\ ready' = Tail(ready) /\ (states[j] # "Submitted" \/ ~Running)
          /\ Erase(IF Running /\ states[j] \notin {"none", "Cancelled"} THEN {} ELSE {j})
      BY <1>7, <2>4 DEF Dispatch
    <3>2. j \in Ids /\ IsReady(j)
      BY <1>1, <2>1, <3>1, HeadIsReady
    <3>3. states[j] \in {"Submitted", "Cancelled"}
      BY <3>2 DEF TimerInv, PlacesInv, Recorded
    <3>4. IsReady(i)' <=> IsReady(i) /\ i # j
      BY <2>1, <3>1, HeadDispatched
    <3>5. states'[i] = IF i = j THEN "none" ELSE states[i]
      BY <3>1, <3>3 DEF Erase
    <3> HIDE DEF j
    <3>6. CASE i = j
      BY <1>1, <2>1, <2>2, <3>2, <3>4, <3>5, <3>6 DEF OnePlace, Recorded, Placed
    <3>7. CASE i # j
      BY <2>1, <2>2, <3>4, <3>5, <3>7, NothingMoves
    <3> QED
      BY <3>6, <3>7
  <2> QED
    BY <2>3, <2>4
<1>8. CASE Post
  <2> DEFINE j == Head(ready)
             e == [id |-> j, shared |-> TRUE]
  <2>1. worker = "post" /\ ready # << >> /\ UNCHANGED <<heap, states, nextId, ready, pool, shot>>
    BY <1>8 DEF Post, sharedVars, TimerInv, ControlInv, Dispatching
  <2>2. j \in Ids /\ IsReady(j)
    BY <1>1, <2>1, HeadIsReady
  <2>3. /\ IsAt(i, "begin")' <=> IsAt(i, "begin")
        /\ IsAt(i, "callback")' <=> IsAt(i, "callback")
    BY <2>1, PoolStays
  <2>4. CASE worker' = "release"
    <3>1. IsReady(i)' <=> IsReady(i) /\ i # j
      BY <2>1, <2>4, HeadDispatched
    <3>2. CASE queue' = Append(queue, e) /\ stranded' = stranded
      <4>1. e \in Shots /\ e.id = j /\ queue \in Seq(Shots)
        BY <1>1, <2>2 DEF Shots, TypeOK
      <4> HIDE DEF e
      <4>2. Has(queue', i) <=> Has(queue, i) \/ i = j
        BY <3>2, <4>1, AppendedShot
      <4> HIDE DEF j
      <4>3. CASE i = j
        BY <1>1, <2>1, <2>2, <2>3, <3>1, <3>2, <4>2, <4>3 DEF OnePlace, Recorded, Placed
      <4>4. CASE i # j
        BY <2>1, <2>3, <3>1, <3>2, <4>2, <4>4, NothingMoves
      <4> QED
        BY <4>3, <4>4
    <3>3. CASE queue' = queue /\ stranded' = stranded \cup {j}
      <4> HIDE DEF j
      <4>1. CASE i = j
        BY <1>1, <2>1, <2>2, <2>3, <3>1, <3>3, <4>1 DEF OnePlace, Recorded, Placed
      <4>2. CASE i # j
        BY <2>1, <2>3, <3>1, <3>3, <4>2, NothingMoves
      <4> QED
        BY <4>1, <4>2
    <3> QED
      BY <1>8, <2>4, <3>2, <3>3 DEF Post
  <2>5. CASE worker' # "release"
    <3>1. queue' = queue /\ stranded' = stranded
      BY <1>8, <2>5 DEF Post
    <3> QED
      BY <2>1, <2>3, <2>5, <3>1, ReadyStays, NothingMoves
  <2> QED
    BY <2>4, <2>5
<1>9. CASE Rejected
  <2> DEFINE j == Head(ready)
  <2>1. /\ worker = "rejected" /\ worker' = "release" /\ ready # << >> /\ Erase({j})
        /\ UNCHANGED <<heap, nextId, ready, queue, pool, shot, stranded>>
    BY <1>9 DEF Rejected, poolVars, TimerInv, ControlInv, Dispatching
  <2>2. j \in Ids /\ IsReady(j)
    BY <1>1, <2>1, HeadIsReady
  <2>3. /\ IsAt(i, "begin")' <=> IsAt(i, "begin")
        /\ IsAt(i, "callback")' <=> IsAt(i, "callback")
    BY <2>1, PoolStays
  <2>4. IsReady(i)' <=> IsReady(i) /\ i # j
    BY <2>1, HeadDispatched
  <2>5. states'[i] = IF i = j THEN "none" ELSE states[i]
    BY <2>1 DEF Erase
  <2> HIDE DEF j
  <2>6. CASE i = j
    BY <1>1, <2>1, <2>2, <2>3, <2>4, <2>5, <2>6 DEF OnePlace, Recorded, Placed
  <2>7. CASE i # j
    BY <2>1, <2>3, <2>4, <2>5, <2>7, NothingMoves
  <2> QED
    BY <2>6, <2>7
<1>10. CASE Release
  <2>1. /\ worker = "release" /\ worker' # "release" /\ ready # << >> /\ ready' = Tail(ready)
        /\ UNCHANGED <<heap, states, nextId, pool, stranded>>
    BY <1>10 DEF Release, TimerInv, ControlInv, Dispatching
  <2>2. IsReady(i)' <=> IsReady(i)
    BY <2>1, HeadReleased
  <2>3. Has(queue', i) <=> Has(queue, i)
    BY <1>1, <1>10, UnsharedQueue DEF Release, TypeOK
  <2>4. \A q \in PoolThreads : shot'[q].id = shot[q].id
    BY <1>1, <1>10, UnsharedThreads
  <2>5. /\ IsAt(i, "begin")' <=> IsAt(i, "begin")
        /\ IsAt(i, "callback")' <=> IsAt(i, "callback")
    BY <2>1, <2>4, ThreadsStay
  <2> QED
    BY <2>1, <2>2, <2>3, <2>5, NothingMoves
<1> QED
  BY <1>4, <1>5, <1>6, <1>7, <1>8, <1>9, <1>10 DEF WorkerStep

\* A step of a thread of the executor.
LEMMA PoolKeepsPlaces ==
    ASSUME TimerInv, NEW p \in PoolThreads, PoolStep(p), NEW i \in Ids
    PROVE  OnePlace(i)' /\ Recorded(i)'
<1>1. TypeOK /\ ListsDistinct /\ OnePlace(i) /\ Recorded(i)
  BY DEF TimerInv, ControlInv, PlacesInv
<1> DEFINE j == shot[p].id
<1>2. CASE Take(p)
  <2>1. /\ queue # << >> /\ queue' = Tail(queue) /\ pool[p] = "idle"
        /\ shot' = [shot EXCEPT ![p] = Head(queue)] /\ pool' = [pool EXCEPT ![p] = "begin"]
        /\ UNCHANGED <<heap, states, nextId, ready, worker, stranded>>
    BY <1>2 DEF Take, sharedVars, workerVars
  <2>2. queue \in Seq(Shots) /\ Distinct(queue)
    BY <1>1 DEF TypeOK, ListsDistinct
  <2> DEFINE h == Head(queue).id
  <2>3. /\ h \in Ids /\ Has(queue, h) /\ ~Has(queue', h)
        /\ Has(queue, i) <=> Has(queue', i) \/ i = h
    <3>1. /\ Head(queue) \in Shots /\ ~Has(Tail(queue), h) /\ Has(queue, h)
          /\ Has(queue, i) <=> Has(Tail(queue), i) \/ i = h
      BY <2>1, <2>2, TailOfShots
    <3> QED
      BY <2>1, <3>1 DEF Shots
  <2>4. \A q \in PoolThreads : IF q = p THEN pool'[q] = "begin" /\ shot'[q].id = h
                               ELSE pool'[q] = pool[q] /\ shot'[q] = shot[q]
    BY <1>1, <2>1 DEF TypeOK
  <2> HIDE DEF h
  <2>5. IsAt(i, "begin")' <=> IsAt(i, "begin") \/ i = h
    BY <2>1, <2>4 DEF IsAt
  <2>6. IsAt(i, "callback")' <=> IsAt(i, "callback")
    BY <2>1, <2>4 DEF IsAt
  <2>7. IsReady(i)' <=> IsReady(i)
    BY <2>1, ReadyStays
  <2>8. CASE i = h
    BY <1>1, <2>1, <2>3, <2>5, <2>6, <2>7, <2>8 DEF OnePlace, Recorded, Placed
  <2>9. CASE i # h
    BY <2>1, <2>3, <2>5, <2>6, <2>7, <2>9, NothingMoves
  <2> QED
    BY <2>8, <2>9
<1>3. CASE Begin(p)
  <2>1. /\ pool[p] = "begin" /\ shot' = shot
        /\ UNCHANGED <<heap, nextId, ready, worker, queue, stranded>>
        /\ IsReady(i)' <=> IsReady(i)
    BY <1>3, ReadyStays DEF Begin, workerVars
  <2>2. j \in Ids /\ IsAt(j, "begin")
    BY <1>1, <2>1 DEF IsAt, TimerInv, ControlInv, Wrappers, Shots
  <2>3. states[j] \in {"Submitted", "Cancelled"}
    BY <2>2 DEF TimerInv, PlacesInv, Recorded
  <2>4. CASE states[j] = "Submitted"
    <3>1. pool' = [pool EXCEPT ![p] = "callback"] /\ states' = [states EXCEPT ![j] = "Executing"]
      BY <1>3, <2>4 DEF Begin, PoolGoto
    <3>2. /\ IsAt(i, "begin")' <=> IsAt(i, "begin") /\ i # j
          /\ IsAt(i, "callback")' <=> IsAt(i, "callback") \/ i = j
      <4>1. IsAt(i, "begin")' <=> \/ IsAt(i, "begin") /\ ~(pool[p] = "begin" /\ i = shot[p].id)
                                  \/ "callback" = "begin" /\ i = shot[p].id
        BY <1>1, <2>1, <3>1, ThreadMoves
      <4>2. IsAt(i, "callback")' <=> \/ IsAt(i, "callback") /\ ~(pool[p] = "callback" /\ i = shot[p].id)
                                     \/ "callback" = "callback" /\ i = shot[p].id
        BY <1>1, <2>1, <3>1, ThreadMoves
      <4> QED
        BY <2>1, <4>1, <4>2
    <3>3. states'[i] = IF i = j THEN "Executing" ELSE states[i]
      BY <1>1, <2>2, <3>1 DEF TypeOK
    <3> HIDE DEF j
    <3>4. CASE i = j
      BY <1>1, <2>1, <2>2, <3>2, <3>3, <3>4 DEF OnePlace, Recorded, Placed
    <3>5. CASE i # j
      BY <2>1, <3>2, <3>3, <3>5, NothingMoves
    <3> QED
      BY <3>4, <3>5
  <2>5. CASE states[j] = "Cancelled"
    <3>1. pool' = [pool EXCEPT ![p] = "destroy"] /\ Erase({j})
      BY <1>3, <2>5 DEF Begin, PoolGoto
    <3>2. /\ IsAt(i, "begin")' <=> IsAt(i, "begin") /\ i # j
          /\ IsAt(i, "callback")' <=> IsAt(i, "callback")
      <4>1. IsAt(i, "begin")' <=> \/ IsAt(i, "begin") /\ ~(pool[p] = "begin" /\ i = shot[p].id)
                                  \/ "destroy" = "begin" /\ i = shot[p].id
        BY <1>1, <2>1, <3>1, ThreadMoves
      <4>2. IsAt(i, "callback")' <=> \/ IsAt(i, "callback") /\ ~(pool[p] = "callback" /\ i = shot[p].id)
                                     \/ "destroy" = "callback" /\ i = shot[p].id
        BY <1>1, <2>1, <3>1, ThreadMoves
      <4> QED
        BY <2>1, <4>1, <4>2
    <3>3. states'[i] = IF i = j THEN "none" ELSE states[i]
      BY <3>1 DEF Erase
    <3> HIDE DEF j
    <3>4. CASE i = j
      BY <1>1, <2>1, <2>2, <3>2, <3>3, <3>4 DEF OnePlace, Recorded, Placed
    <3>5. CASE i # j
      BY <2>1, <3>2, <3>3, <3>5, NothingMoves
    <3> QED
      BY <3>4, <3>5
  <2> QED
    BY <2>3, <2>4, <2>5
<1>4. CASE End(p)
  <2>1. /\ pool[p] = "callback" /\ shot' = shot
        /\ UNCHANGED <<nextId, ready, worker, queue, stranded>>
        /\ IsReady(i)' <=> IsReady(i)
    BY <1>4, ReadyStays DEF End, workerVars
  <2>2. j \in Ids /\ IsAt(j, "callback") /\ interval[j] \in 0 .. MaxDelay
    BY <1>1, <2>1 DEF IsAt, TimerInv, ControlInv, Wrappers, Shots, TypeOK
  <2>3. \E l \in {"notify", "destroy"} : pool' = [pool EXCEPT ![p] = l]
    BY <1>4 DEF End, PoolGoto
  <2>4. /\ IsAt(i, "begin")' <=> IsAt(i, "begin")
        /\ IsAt(i, "callback")' <=> IsAt(i, "callback") /\ i # j
    BY <1>1, <2>1, <2>3, ThreadMoves
  <2>5. CASE states[j] = "Executing" /\ interval[j] > 0 /\ Running
    <3> DEFINE e == [id |-> j, left |-> interval[j]]
    <3>1. heap' = Push(heap, e) /\ states' = [states EXCEPT ![j] = "Pending"]
      BY <1>4, <2>5 DEF End
    <3>2. e \in Entries /\ e.id = j
      BY <2>2 DEF Entries
    <3>3. heap \in Seq(Entries) /\ Sorted(heap) /\ Distinct(heap) /\ ~Has(heap, j)
      BY <1>1, <2>2 DEF TypeOK, Entries, ListsDistinct, TimerInv, PlacesInv, OnePlace
    <3> HIDE DEF e
    <3>4. Has(heap', i) <=> Has(heap, i) \/ i = j
      BY <3>1, <3>2, <3>3, Pushed
    <3>5. states'[i] = IF i = j THEN "Pending" ELSE states[i]
      BY <1>1, <2>2, <3>1 DEF TypeOK
    <3> HIDE DEF j
    <3>6. CASE i = j
      BY <1>1, <2>1, <2>2, <2>4, <3>4, <3>5, <3>6 DEF OnePlace, Recorded, Placed
    <3>7. CASE i # j
      BY <2>1, <2>4, <3>4, <3>5, <3>7, NothingMoves
    <3> QED
      BY <3>6, <3>7
  <2>6. CASE ~(states[j] = "Executing" /\ interval[j] > 0 /\ Running)
    <3>1. heap' = heap /\ Erase({j})
      BY <1>4, <2>6 DEF End
    <3>2. states'[i] = IF i = j THEN "none" ELSE states[i]
      BY <3>1 DEF Erase
    <3> HIDE DEF j
    <3>3. CASE i = j
      BY <1>1, <2>1, <2>2, <2>4, <3>1, <3>2, <3>3 DEF OnePlace, Recorded, Placed
    <3>4. CASE i # j
      BY <2>1, <2>4, <3>1, <3>2, <3>4, NothingMoves
    <3> QED
      BY <3>3, <3>4
  <2> QED
    BY <2>5, <2>6
<1>5. ASSUME NotifyPush(p) \/ Destroy(p) \/ PoolNotify(p) PROVE OnePlace(i)' /\ Recorded(i)'
  <2>1. UNCHANGED <<heap, states, nextId, ready, queue, stranded>>
    BY <1>5 DEF NotifyPush, Destroy, PoolNotify, sharedVars, workerVars
  <2>2. worker' = "release" <=> worker = "release"
    BY <1>5 DEF NotifyPush, WakeWorker, Destroy, PoolNotify, workerVars
  <2>3. \A q \in PoolThreads : Busy(q) \/ Busy(q)' => pool'[q] = pool[q] /\ shot'[q].id = shot[q].id
    <3>1. /\ pool[p] \notin {"begin", "callback"}
          /\ \E l \in {"destroy", "idle", "finish"} : pool' = [pool EXCEPT ![p] = l]
          /\ shot' = shot \/ shot' = [shot EXCEPT ![p] = NoShot]
      BY <1>5 DEF NotifyPush, Destroy, PoolNotify, PoolGoto
    <3> QED
      BY <1>1, <3>1 DEF TypeOK, Busy
  <2> QED
    BY <2>1, <2>2, <2>3, ReadyStays, ThreadsStay, NothingMoves
<1> QED
  BY <1>2, <1>3, <1>4, <1>5 DEF PoolStep

\* A step keeps every timer in one place, and its record true to it.
LEMMA PlacesKept ==
    ASSUME TimerInv, [Next]_vars
    PROVE  PlacesInv'
<1>1. ASSUME NEW i \in Ids, Tick \/ SpuriousWakeup \/ UNCHANGED vars PROVE OnePlace(i)' /\ Recorded(i)'
  <2>1. UNCHANGED <<states, nextId, ready, queue, pool, shot, stranded>>
    BY <1>1 DEF Tick, SpuriousWakeup, vars, sharedVars, workerVars, poolVars
  <2>2. worker' = "release" <=> worker = "release"
    BY <1>1 DEF Tick, SpuriousWakeup, WakeWorker, vars, workerVars
  <2>3. Has(heap', i) <=> Has(heap, i)
    <3>1. CASE heap' = heap
      BY <3>1
    <3>2. CASE Tick
      <4>1. heap \in Seq(Entries) /\ Sorted(heap)
        BY DEF TimerInv, ControlInv, TypeOK, Entries, PlacesInv, ListsDistinct
      <4>2. Len(heap') = Len(heap) /\ \A k \in 1 .. Len(heap) : heap'[k].id = heap[k].id
        BY <3>2, <4>1, TickEffect
      <4> QED
        BY <4>2 DEF Has
    <3> QED
      BY <1>1, <3>1, <3>2 DEF SpuriousWakeup, sharedVars, vars
  <2> QED
    BY <2>1, <2>2, <2>3, ReadyStays, PoolStays, NothingMoves
<1>2. ASSUME NEW i \in Ids PROVE OnePlace(i)' /\ Recorded(i)'
  BY <1>1, CallKeepsPlaces, WorkerKeepsPlaces, PoolKeepsPlaces DEF Next
<1> QED
  BY <1>2, ListsKept DEF PlacesInv

-----------------------------------------------------------------------------
(***************************************************************************)
(* Every shot in flight has an owner.                                      *)
(***************************************************************************)

\* A step that moves no wrapper and leaves the worker's share alone.
LEMMA NoShotMoves ==
    ASSUME FlightInv, UNCHANGED <<queue, shot, holds, inFlight>>, Wrapping' = Wrapping,
           \/ worker' = worker
           \/ /\ worker \notin {"post", "rejected", "release"}
              /\ worker' \notin {"post", "rejected", "release"}
    PROVE  FlightInv'
<1>1. Held' = Held
  BY DEF Held
<1>2. Flight'
  BY <1>1 DEF FlightInv, Flight
<1>3. Sharing'
  BY DEF FlightInv, Sharing
<1> QED
  BY <1>2, <1>3 DEF FlightInv

\* The interface moves none.
LEMMA CallKeepsFlight ==
    ASSUME TimerInv, NEW t \in Threads, Call(t) \/ Continue(t)
    PROVE  FlightInv'
<1>1. UNCHANGED <<queue, shot, pool, holds, inFlight>>
  BY DEF Call, Continue, Start, ScheduleAfter, ScheduleEvery, Schedule, Cancel, CallRequestStop, Stop,
         RequestStop, Wait, Notify, Join, Drain, workerVars, poolVars, sharedVars
<1>2. \/ worker' = worker
      \/ /\ worker \notin {"post", "rejected", "release"}
         /\ worker' \notin {"post", "rejected", "release"}
  <2>1. CASE Start(t)
    BY <2>1 DEF Start, TimerInv, ControlInv, Phases
  <2>2. CASE Notify(t)
    BY <2>2 DEF Notify, WakeWorker
  <2>3. ASSUME ~Start(t), ~Notify(t) PROVE worker' = worker
    BY <2>3 DEF Call, Continue, ScheduleAfter, ScheduleEvery, Schedule, Cancel, CallRequestStop, Stop,
                RequestStop, Wait, Join, Drain, workerVars
  <2> QED
    BY <2>1, <2>2, <2>3
<1>3. Wrapping' = Wrapping
  BY <1>1 DEF Wrapping
<1> QED
  BY <1>1, <1>2, <1>3, NoShotMoves DEF TimerInv

\* The worker takes a shot when it dispatches, and hands it over or keeps it.
LEMMA WorkerKeepsFlight ==
    ASSUME TimerInv, WorkerStep
    PROVE  FlightInv'
<1>1. TypeOK /\ FlightInv /\ Flight /\ Sharing
  BY DEF TimerInv, ControlInv, FlightInv
<1>2. Len(queue) \in Nat /\ Cardinality(Wrapping) \in Nat /\ Held \in {0, 1} /\ inFlight \in Nat
  BY <1>1, FlightCounts DEF TypeOK
<1>3. queue \in Seq(Shots)
  BY <1>1 DEF TypeOK
<1>4. CASE Wake \/ Expire \/ FinishNotify
  <2>1. UNCHANGED <<queue, shot, pool, holds, inFlight>>
    BY <1>4 DEF Wake, Expire, FinishNotify, poolVars, sharedVars
  <2>2. /\ worker \notin {"post", "rejected", "release"}
        /\ worker' \notin {"post", "rejected", "release"}
    BY <1>4 DEF Wake, EnterLoop, Expire, FinishNotify
  <2> QED
    BY <1>1, <2>1, <2>2, NoShotMoves DEF Wrapping
<1>5. CASE Expired
  <2>1. UNCHANGED <<queue, shot, pool, holds, inFlight>>
    BY <1>5 DEF Expired, poolVars
  <2>2. worker = "expired"
    BY <1>5 DEF Expired
  <2>3. worker' \notin {"post", "rejected", "release"}
    <3>1. CASE Interrupted
      BY <1>5, <3>1 DEF Expired, EnterLoop
    <3>2. CASE ~Interrupted
      BY <1>5, <3>2 DEF Expired, Collect
    <3> QED
      BY <3>1, <3>2
  <2> QED
    BY <1>1, <2>1, <2>2, <2>3, NoShotMoves DEF Wrapping
<1>6. CASE Dispatch
  <2>1. worker = "dispatch" /\ UNCHANGED <<queue, shot, pool>>
    BY <1>6 DEF Dispatch, poolVars
  <2>2. CASE worker' # "post"
    <3>1. UNCHANGED <<holds, inFlight>> /\ worker' \notin {"post", "rejected", "release"}
      BY <1>6, <2>2 DEF Dispatch
    <3> QED
      BY <1>1, <2>1, <3>1, NoShotMoves DEF Wrapping
  <2>3. CASE worker' = "post"
    <3>1. inFlight' = inFlight + 1 /\ holds' = "shared"
      BY <1>6, <2>1, <2>3 DEF Dispatch
    <3>2. Held = 0 /\ Held' = 1 /\ Wrapping' = Wrapping
      BY <1>1, <2>1, <2>3, <3>1 DEF Held, Sharing, Wrapping
    <3>3. Flight'
      <4>1. inFlight = Len(queue) + Cardinality(Wrapping)
        BY <1>1, <1>2, <3>2, SMT DEF Flight
      <4>2. inFlight' = Len(queue) + Cardinality(Wrapping) + 1
        BY <1>2, <3>1, <4>1, SMT
      <4> QED
        BY <2>1, <3>2, <4>2 DEF Flight
    <3>4. /\ \A k \in 1 .. Len(queue) : ~queue[k].shared
          /\ \A p \in PoolThreads : ~shot[p].shared
      BY <1>1, <2>1 DEF Sharing
    <3>5. Sharing'
      BY <2>1, <2>3, <3>1, <3>4 DEF Sharing
    <3> QED
      BY <3>3, <3>5 DEF FlightInv
  <2> QED
    BY <2>2, <2>3
<1>7. CASE Post
  <2> DEFINE e == [id |-> Head(ready), shared |-> TRUE]
  <2>1. /\ worker = "post" /\ holds = "shared" /\ ready # << >>
        /\ UNCHANGED <<shot, pool, inFlight>>
    BY <1>1, <1>7 DEF Post, Sharing, sharedVars, TimerInv, ControlInv, Dispatching
  <2>2. /\ \A k \in 1 .. Len(queue) : ~queue[k].shared
        /\ \A p \in PoolThreads : ~shot[p].shared
    BY <1>1, <2>1 DEF Sharing
  <2>3. Held = 1 /\ Wrapping' = Wrapping
    BY <2>1 DEF Held, Wrapping
  <2>4. CASE queue' = Append(queue, e) /\ worker' = "release" /\ holds' = holds
    <3>1. e \in Shots
      BY <1>1, <2>1, HeadIsReady DEF Shots
    <3> HIDE DEF e
    <3>2. /\ Len(queue') = Len(queue) + 1
          /\ \A k \in 1 .. Len(queue') : IF k = Len(queue) + 1 THEN queue'[k] = e
                                         ELSE k \in 1 .. Len(queue) /\ queue'[k] = queue[k]
      BY <1>3, <2>4, <3>1, AppendedShot
    <3>3. Held' = 0
      BY <2>1, <2>4 DEF Held
    <3>4. Flight'
      <4>1. inFlight = Len(queue) + Cardinality(Wrapping) + 1
        BY <1>1, <2>3 DEF Flight
      <4>2. inFlight = (Len(queue) + 1) + Cardinality(Wrapping) + 0
        BY <1>2, <4>1, SMT
      <4> QED
        BY <2>1, <2>3, <3>2, <3>3, <4>2 DEF Flight
    <3>5. \A k \in 1 .. Len(queue') : queue'[k].shared => k = Len(queue) + 1
      BY <2>2, <3>2
    <3>6. Sharing'
      BY <2>1, <2>2, <2>4, <3>5 DEF Sharing
    <3> QED
      BY <3>4, <3>6 DEF FlightInv
  <2>5. CASE queue' = queue /\ holds' = "sole" /\ worker' \in {"rejected", "release"}
    <3>1. Held' = 1
      BY <2>5 DEF Held
    <3>2. Flight'
      BY <1>1, <2>1, <2>3, <2>5, <3>1 DEF Flight
    <3>3. Sharing'
      BY <2>1, <2>2, <2>5 DEF Sharing
    <3> QED
      BY <3>2, <3>3 DEF FlightInv
  <2> QED
    BY <1>7, <2>4, <2>5 DEF Post
<1>8. CASE Rejected
  <2>1. worker = "rejected" /\ worker' = "release" /\ UNCHANGED <<queue, shot, pool, holds, inFlight>>
    BY <1>8 DEF Rejected, poolVars
  <2>2. holds = "sole" /\ Held' = Held /\ Wrapping' = Wrapping
    BY <1>1, <2>1 DEF Sharing, Held, Wrapping
  <2>3. Flight'
    BY <1>1, <2>1, <2>2 DEF Flight
  <2>4. Sharing'
    BY <1>1, <2>1, <2>2 DEF Sharing
  <2> QED
    BY <2>3, <2>4 DEF FlightInv
<1>9. CASE Release
  <2>1. worker = "release" /\ holds' = "none" /\ pool' = pool /\ worker' \in {"dispatch", "finish"}
    BY <1>9 DEF Release
  <2>2. Wrapping' = Wrapping /\ Held' = 0
    BY <2>1 DEF Wrapping, Held
  <2>3. CASE holds = "shared"
    <3>1. /\ queue' = [k \in DOMAIN queue |-> Unshare(queue[k])]
          /\ shot' = [p \in PoolThreads |-> Unshare(shot[p])]
          /\ inFlight' = inFlight
      BY <1>9, <2>3 DEF Release
    <3>2. Len(queue') = Len(queue) /\ \A k \in 1 .. Len(queue) : ~queue'[k].shared
      BY <1>3, <3>1, UnsharedQueue
    <3>3. \A p \in PoolThreads : ~shot'[p].shared
      <4>1. \A p \in PoolThreads : shot[p] \in Shots \/ shot[p] = NoShot
        BY <1>1 DEF TypeOK
      <4>2. \A p \in PoolThreads : shot'[p] = Unshare(shot[p])
        BY <3>1
      <4>3. ~NoShot.shared
        BY DEF NoShot
      <4> QED
        BY <4>1, <4>2, <4>3, Unshared
    <3>4. Held = 0
      BY <2>1, <2>3 DEF Held
    <3>5. Flight'
      BY <1>1, <2>2, <3>1, <3>2, <3>4 DEF Flight
    <3>6. Sharing'
      BY <2>1, <3>2, <3>3 DEF Sharing
    <3> QED
      BY <3>5, <3>6 DEF FlightInv
  <2>4. CASE holds = "sole"
    <3>1. UNCHANGED <<queue, shot>> /\ FinishInFlight
      BY <1>9, <2>4 DEF Release
    <3>2. Held = 1
      BY <2>4 DEF Held
    <3>3. Flight'
      <4>1. inFlight = Len(queue) + Cardinality(Wrapping) + 1
        BY <1>1, <3>2 DEF Flight
      <4>2. inFlight' = Len(queue) + Cardinality(Wrapping) + 0
        BY <1>2, <3>1, <4>1, SMT DEF FinishInFlight
      <4> QED
        BY <2>2, <3>1, <4>2 DEF Flight
    <3>4. /\ \A k \in 1 .. Len(queue) : ~queue[k].shared
          /\ \A p \in PoolThreads : ~shot[p].shared
      BY <1>1, <2>4 DEF Sharing
    <3>5. Sharing'
      BY <2>1, <3>1, <3>4 DEF Sharing
    <3> QED
      BY <3>3, <3>5 DEF FlightInv
  <2> QED
    BY <1>9, <2>3, <2>4 DEF Release
<1> QED
  BY <1>4, <1>5, <1>6, <1>7, <1>8, <1>9 DEF WorkerStep

\* A thread of the executor takes a wrapper, or destroys it.
LEMMA PoolKeepsFlight ==
    ASSUME TimerInv, NEW p \in PoolThreads, PoolStep(p)
    PROVE  FlightInv'
<1>1. TypeOK /\ FlightInv /\ Flight /\ Sharing /\ Wrappers
  BY DEF TimerInv, ControlInv, FlightInv
<1>2. /\ Len(queue) \in Nat /\ Cardinality(Wrapping) \in Nat /\ Held \in {0, 1} /\ inFlight \in Nat
      /\ IsFiniteSet(Wrapping)
  BY <1>1, FlightCounts DEF TypeOK
<1>3. CASE Take(p)
  <2>1. /\ pool[p] = "idle" /\ queue # << >> /\ queue' = Tail(queue)
        /\ shot' = [shot EXCEPT ![p] = Head(queue)] /\ pool' = [pool EXCEPT ![p] = "begin"]
        /\ UNCHANGED <<worker, holds, inFlight>>
    BY <1>3 DEF Take, sharedVars, workerVars
  <2>2. queue \in Seq(Shots) /\ Distinct(queue)
    BY DEF TimerInv, ControlInv, TypeOK, PlacesInv, ListsDistinct
  <2>3. /\ Head(queue) = queue[1] /\ 1 \in 1 .. Len(queue) /\ Len(queue') = Len(queue) - 1
        /\ \A k \in 1 .. Len(queue') : k + 1 \in 1 .. Len(queue) /\ queue'[k] = queue[k + 1]
    BY <2>1, <2>2, TailOfShots
  <2>4. p \notin Wrapping /\ Wrapping' = Wrapping \cup {p}
    BY <1>1, <2>1 DEF Wrapping, TypeOK
  <2>5. Cardinality(Wrapping') = Cardinality(Wrapping) + 1
    <3>1. Cardinality(Wrapping \cup {p}) = Cardinality(Wrapping) + 1
      BY <1>2, <2>4, FS_AddElement
    <3> QED
      BY <2>4, <3>1
  <2>6. Held' = Held
    BY <2>1 DEF Held
  <2>7. Flight'
    <3>1. inFlight = Len(queue) + Cardinality(Wrapping) + Held
      BY <1>1 DEF Flight
    <3>2. inFlight = (Len(queue) - 1) + (Cardinality(Wrapping) + 1) + Held
      BY <1>2, <3>1, SMT
    <3> QED
      BY <2>1, <2>3, <2>5, <2>6, <3>2 DEF Flight
  <2>8. \A q \in PoolThreads : IF q = p THEN shot'[q] = queue[1] ELSE shot'[q] = shot[q]
    BY <1>1, <2>1, <2>3 DEF TypeOK
  <2>9. \A k \in 1 .. Len(queue') : k + 1 # 1
    BY <1>2, <2>3, SMT
  <2>10. Sharing'
    <3>1. /\ \A k \in 1 .. Len(queue') : queue'[k].shared => worker = "release" /\ holds = "shared"
          /\ \A q \in PoolThreads : shot'[q].shared => worker = "release" /\ holds = "shared"
      BY <1>1, <2>3, <2>8 DEF Sharing
    <3>2. ASSUME NEW j \in 1 .. Len(queue'), NEW k \in 1 .. Len(queue'), queue'[j].shared, queue'[k].shared
          PROVE  j = k
      <4>1. j + 1 = k + 1
        BY <1>1, <2>3, <3>2 DEF Sharing
      <4> QED
        BY <1>2, <2>3, <4>1, SMT
    <3>3. ASSUME NEW q \in PoolThreads, NEW r \in PoolThreads, shot'[q].shared, shot'[r].shared
          PROVE  q = r
      <4>1. CASE q = p /\ r # p
        BY <1>1, <2>3, <2>8, <3>3, <4>1 DEF Sharing
      <4>2. CASE q # p /\ r = p
        BY <1>1, <2>3, <2>8, <3>3, <4>2 DEF Sharing
      <4>3. CASE q # p /\ r # p
        BY <1>1, <2>8, <3>3, <4>3 DEF Sharing
      <4> QED
        BY <4>1, <4>2, <4>3
    <3>4. ASSUME NEW k \in 1 .. Len(queue'), NEW q \in PoolThreads, queue'[k].shared, shot'[q].shared
          PROVE  FALSE
      <4>1. k + 1 \in 1 .. Len(queue) /\ queue[k + 1].shared
        BY <2>3, <3>4
      <4>2. CASE q = p
        BY <1>1, <2>3, <2>8, <2>9, <3>4, <4>1, <4>2 DEF Sharing
      <4>3. CASE q # p
        BY <1>1, <2>8, <3>4, <4>1, <4>3 DEF Sharing
      <4> QED
        BY <4>2, <4>3
    <3>5. /\ worker = "post" => holds = "shared"
          /\ worker = "rejected" => holds = "sole"
          /\ worker = "release" => holds # "none"
          /\ worker \notin {"post", "rejected", "release"} => holds = "none"
      BY <1>1 DEF Sharing
    <3> QED
      BY <2>1, <3>1, <3>2, <3>3, <3>4, <3>5 DEF Sharing
  <2> QED
    BY <2>7, <2>10 DEF FlightInv
<1>4. ASSUME Begin(p) \/ End(p) \/ NotifyPush(p) \/ PoolNotify(p) PROVE FlightInv'
  <2>1. UNCHANGED <<queue, shot, holds, inFlight>>
    BY <1>4 DEF Begin, End, NotifyPush, PoolNotify, sharedVars, workerVars
  <2>2. \/ worker' = worker
        \/ /\ worker \notin {"post", "rejected", "release"}
           /\ worker' \notin {"post", "rejected", "release"}
    BY <1>4 DEF Begin, End, NotifyPush, WakeWorker, PoolNotify, workerVars
  <2>3. Wrapping' = Wrapping
    <3>1. /\ pool[p] \in {"begin", "callback", "notify"} \/ pool[p] = "finish"
          /\ \E l \in {"callback", "destroy", "notify", "idle"} :
                /\ pool' = [pool EXCEPT ![p] = l]
                /\ pool[p] = "finish" <=> l = "idle"
      BY <1>4 DEF Begin, End, NotifyPush, PoolNotify, PoolGoto
    <3> QED
      BY <1>1, <3>1 DEF Wrapping, TypeOK
  <2> QED
    BY <1>1, <2>1, <2>2, <2>3, NoShotMoves
<1>5. CASE Destroy(p)
  <2>1. /\ pool[p] = "destroy" /\ shot' = [shot EXCEPT ![p] = NoShot]
        /\ UNCHANGED <<queue, worker>>
        /\ \E l \in {"idle", "finish"} : pool' = [pool EXCEPT ![p] = l]
    BY <1>5 DEF Destroy, PoolGoto
  <2>2. p \in Wrapping /\ Wrapping' = Wrapping \ {p}
    BY <1>1, <2>1 DEF Wrapping, TypeOK
  <2>3. Cardinality(Wrapping') = Cardinality(Wrapping) - 1 /\ Cardinality(Wrapping) >= 1
    <3>1. Cardinality(Wrapping \ {p}) = Cardinality(Wrapping) - 1 /\ IsFiniteSet(Wrapping \ {p})
      BY <1>2, <2>2, FS_RemoveElement
    <3>2. Cardinality(Wrapping \ {p}) \in Nat
      BY <3>1, FS_CardinalityType
    <3> QED
      BY <1>2, <2>2, <3>1, <3>2, SMT
  <2>4. \A q \in PoolThreads : IF q = p THEN shot'[q] = NoShot ELSE shot'[q] = shot[q]
    BY <1>1, <2>1 DEF TypeOK
  <2>5. ~NoShot.shared
    BY DEF NoShot
  <2>6. inFlight = Len(queue) + Cardinality(Wrapping) + Held
    BY <1>1 DEF Flight
  <2>7. CASE shot[p].shared
    <3>1. holds' = "sole" /\ inFlight' = inFlight /\ worker = "release" /\ holds = "shared"
      BY <1>1, <1>5, <2>7 DEF Destroy, Sharing
    <3>2. Held = 0 /\ Held' = 1
      BY <2>1, <3>1 DEF Held
    <3>3. Flight'
      <4>1. inFlight = Len(queue) + (Cardinality(Wrapping) - 1) + 1
        BY <1>2, <2>6, <3>2, SMT
      <4> QED
        BY <2>1, <2>3, <3>1, <3>2, <4>1 DEF Flight
    <3>4. /\ \A k \in 1 .. Len(queue) : ~queue[k].shared
          /\ \A q \in PoolThreads : ~shot'[q].shared
      BY <1>1, <2>4, <2>5, <2>7 DEF Sharing
    <3>5. Sharing'
      BY <2>1, <3>1, <3>4 DEF Sharing
    <3> QED
      BY <3>3, <3>5 DEF FlightInv
  <2>8. CASE ~shot[p].shared
    <3>1. holds' = holds /\ FinishInFlight
      BY <1>5, <2>8 DEF Destroy
    <3>2. Held' = Held
      BY <2>1, <3>1 DEF Held
    <3>3. Flight'
      <4>1. inFlight' = Len(queue) + (Cardinality(Wrapping) - 1) + Held
        BY <1>2, <2>3, <2>6, <3>1, SMT DEF FinishInFlight
      <4> QED
        BY <2>1, <2>3, <3>2, <4>1 DEF Flight
    <3>4. \A q \in PoolThreads : shot'[q].shared => q # p /\ shot[q].shared
      BY <2>4, <2>5
    <3>5. Sharing'
      BY <1>1, <2>1, <3>1, <3>4 DEF Sharing
    <3> QED
      BY <3>3, <3>5 DEF FlightInv
  <2> QED
    BY <2>7, <2>8
<1> QED
  BY <1>3, <1>4, <1>5 DEF PoolStep

\* A step keeps the count of the shots and their owners.
LEMMA FlightKept ==
    ASSUME TimerInv, [Next]_vars
    PROVE  FlightInv'
<1>1. ASSUME Tick \/ SpuriousWakeup \/ UNCHANGED vars PROVE FlightInv'
  <2>1. UNCHANGED <<queue, shot, pool, holds, inFlight>>
    BY <1>1 DEF Tick, SpuriousWakeup, vars, sharedVars, workerVars, poolVars
  <2>2. \/ worker' = worker
        \/ /\ worker \notin {"post", "rejected", "release"}
           /\ worker' \notin {"post", "rejected", "release"}
    BY <1>1 DEF Tick, SpuriousWakeup, WakeWorker, vars, workerVars
  <2>3. Wrapping' = Wrapping
    BY <2>1 DEF Wrapping
  <2> QED
    BY <2>1, <2>2, <2>3, NoShotMoves DEF TimerInv
<1> QED
  BY <1>1, CallKeepsFlight, WorkerKeepsFlight, PoolKeepsFlight DEF Next

-----------------------------------------------------------------------------
(***************************************************************************)
(* Who is where.                                                           *)
(***************************************************************************)

\* A thread of the executor has a shot while it has a wrapper.
LEMMA WrappersKept ==
    ASSUME TimerInv, [Next]_vars
    PROVE  Wrappers'
<1>1. TypeOK /\ Wrappers
  BY DEF TimerInv, ControlInv
<1>2. ASSUME pool' = pool, shot' = shot PROVE Wrappers'
  BY <1>1, <1>2 DEF Wrappers
<1>3. ASSUME NEW p \in PoolThreads, PoolStep(p) PROVE Wrappers'
  <2>1. CASE Take(p)
    <3>1. queue \in Seq(Shots) /\ queue # << >>
      BY <1>1, <2>1 DEF Take, TypeOK
    <3>2. Head(queue) \in Shots
      BY <3>1, HeadTailProperties
    <3>3. shot' = [shot EXCEPT ![p] = Head(queue)] /\ pool' = [pool EXCEPT ![p] = "begin"]
      BY <2>1 DEF Take
    <3> QED
      BY <1>1, <3>2, <3>3 DEF Wrappers, TypeOK
  <2>2. CASE Begin(p) \/ End(p) \/ NotifyPush(p) \/ PoolNotify(p)
    <3>1. /\ shot' = shot
          /\ \E l \in {"callback", "destroy", "notify", "idle"} :
                /\ pool' = [pool EXCEPT ![p] = l]
                /\ pool[p] \in {"idle", "finish"} <=> l = "idle"
      BY <2>2 DEF Begin, End, NotifyPush, PoolNotify, PoolGoto
    <3> QED
      BY <1>1, <3>1 DEF Wrappers, TypeOK
  <2>3. CASE Destroy(p)
    <3>1. /\ shot' = [shot EXCEPT ![p] = NoShot]
          /\ \E l \in {"idle", "finish"} : pool' = [pool EXCEPT ![p] = l]
      BY <2>3 DEF Destroy, PoolGoto
    <3> QED
      BY <1>1, <3>1 DEF Wrappers, TypeOK
  <2> QED
    BY <1>3, <2>1, <2>2, <2>3 DEF PoolStep
<1>4. CASE Release
  <2>1. pool' = pool /\ (shot' = shot \/ shot' = [p \in PoolThreads |-> Unshare(shot[p])])
    BY <1>4 DEF Release
  <2>2. CASE shot' = [p \in PoolThreads |-> Unshare(shot[p])]
    <3> SUFFICES ASSUME NEW p \in PoolThreads
                 PROVE  IF pool[p] \in {"idle", "finish"} THEN shot'[p] = NoShot ELSE shot'[p] \in Shots
      BY <2>1 DEF Wrappers
    <3>1. shot'[p] = Unshare(shot[p])
      BY <2>2
    <3>2. IF pool[p] \in {"idle", "finish"} THEN shot[p] = NoShot ELSE shot[p] \in Shots
      BY <1>1 DEF Wrappers
    <3> QED
      BY <3>1, <3>2, Unshared
  <2> QED
    BY <1>2, <2>1, <2>2
<1>5. ASSUME NEW t \in Threads, Call(t) \/ Continue(t) PROVE pool' = pool /\ shot' = shot
  BY <1>5 DEF Call, Continue, Start, ScheduleAfter, ScheduleEvery, Schedule, Cancel, CallRequestStop,
              Stop, RequestStop, Wait, Notify, Join, Drain, poolVars
<1>6. ASSUME WorkerStep, ~Release PROVE pool' = pool /\ shot' = shot
  BY <1>6 DEF WorkerStep, Wake, Expire, Expired, Dispatch, Post, Rejected, FinishNotify, poolVars
<1>7. ASSUME Tick \/ SpuriousWakeup \/ UNCHANGED vars PROVE pool' = pool /\ shot' = shot
  BY <1>7 DEF Tick, SpuriousWakeup, poolVars, vars
<1> QED
  BY <1>2, <1>3, <1>4, <1>5, <1>6, <1>7 DEF Next

\* The worker has ready timers only while it dispatches them.
LEMMA DispatchingKept ==
    ASSUME TimerInv, [Next]_vars
    PROVE  Dispatching'
<1>1. Dispatching /\ TypeOK
  BY DEF TimerInv, ControlInv
<1>2. ASSUME ready' = ready,
             \/ worker' = worker
             \/ /\ worker \notin {"dispatch", "post", "rejected", "release", "finish"}
                /\ worker' \notin {"dispatch", "post", "rejected", "release", "finish"}
      PROVE  Dispatching'
  BY <1>1, <1>2 DEF Dispatching
<1>3. ASSUME EnterLoop, ready' = ready, worker \in {"lock", "woken", "expired"} PROVE Dispatching'
  BY <1>2, <1>3 DEF EnterLoop
<1>4. ASSUME NEW t \in Threads, Call(t) \/ Continue(t) PROVE Dispatching'
  <2>1. CASE Start(t)
    BY <1>2, <2>1 DEF Start, TimerInv, ControlInv, Phases
  <2>2. CASE Notify(t)
    BY <1>2, <2>2 DEF Notify, WakeWorker
  <2>3. ASSUME ~Start(t), ~Notify(t) PROVE worker' = worker /\ ready' = ready
    BY <1>4, <2>3 DEF Call, Continue, ScheduleAfter, ScheduleEvery, Schedule, Cancel, CallRequestStop,
                      Stop, RequestStop, Wait, Join, Drain, workerVars
  <2> QED
    BY <1>2, <2>1, <2>2, <2>3
<1>5. CASE WorkerStep
  <2>1. CASE Wake
    BY <1>3, <2>1 DEF Wake
  <2>2. CASE Expire
    BY <1>2, <2>2 DEF Expire
  <2>3. CASE Expired
    BY <1>3, <2>3 DEF Expired, Collect, Dispatching
  <2>4. CASE Dispatch
    BY <1>1, <2>4 DEF Dispatch, Dispatching
  <2>5. CASE Post \/ Rejected \/ Release \/ FinishNotify
    BY <1>1, <2>5 DEF Post, Rejected, Release, FinishNotify, Dispatching
  <2> QED
    BY <1>5, <2>1, <2>2, <2>3, <2>4, <2>5 DEF WorkerStep
<1>6. ASSUME NEW p \in PoolThreads, PoolStep(p) PROVE Dispatching'
  BY <1>2, <1>6 DEF PoolStep, Take, Begin, End, NotifyPush, WakeWorker, Destroy, PoolNotify, workerVars
<1>7. ASSUME Tick \/ SpuriousWakeup \/ UNCHANGED vars PROVE Dispatching'
  BY <1>2, <1>7 DEF Tick, SpuriousWakeup, WakeWorker, vars, workerVars
<1> QED
  BY <1>4, <1>5, <1>6, <1>7 DEF Next

\* Before start() there is neither a timer nor a shot.
LEMMA CreatedIsEmpty ==
    ASSUME TimerInv, scheduler = "Created"
    PROVE  /\ worker = "none" /\ heap = << >> /\ ready = << >> /\ queue = << >>
           /\ \A i \in Ids : states[i] = "none"
           /\ \A p \in PoolThreads : pool[p] = "idle"
<1>1. worker = "none" /\ nextId = 1 /\ \A p \in PoolThreads : pool[p] = "idle"
  BY DEF TimerInv, ControlInv, Phases
<1>2. ASSUME NEW i \in Ids PROVE ~Placed(i) /\ states[i] = "none"
  <2>1. i >= nextId
    BY <1>1, BoundAssumption, SMT DEF Ids
  <2> QED
    BY <2>1 DEF TimerInv, PlacesInv, Recorded
<1>3. heap \in Seq(Entries) /\ queue \in Seq(Shots)
  BY DEF TimerInv, ControlInv, TypeOK, Entries
<1>4. heap = << >>
  <2> SUFFICES ASSUME heap # << >> PROVE FALSE
    OBVIOUS
  <2>1. 1 \in 1 .. Len(heap)
    BY <1>3, EmptySeq, SMT
  <2>2. heap[1] \in Entries
    BY <1>3, <2>1, ElementOfSeq
  <2> QED
    BY <1>2, <2>1, <2>2 DEF Entries, Placed, Has
<1>5. queue = << >>
  <2> SUFFICES ASSUME queue # << >> PROVE FALSE
    OBVIOUS
  <2>1. 1 \in 1 .. Len(queue)
    BY <1>3, EmptySeq, SMT
  <2>2. queue[1] \in Shots
    BY <1>3, <2>1, ElementOfSeq
  <2> QED
    BY <1>2, <2>1, <2>2 DEF Shots, Placed, Has
<1>6. ready = << >>
  BY <1>1 DEF TimerInv, ControlInv, Dispatching
<1> QED
  BY <1>1, <1>2, <1>4, <1>5, <1>6

\* What a step does to the scheduler's state and its worker: start() starts
\* both, nothing restarts them, and the worker ends when no longer running.
LEMMA LifeMoves ==
    ASSUME TimerInv, [Next]_vars
    PROVE  \/ scheduler' = scheduler /\ worker' = worker
           \/ /\ scheduler' = scheduler /\ scheduler # "Created"
              /\ worker \notin {"none", "exited"} /\ worker' # "none"
              /\ worker' = "exited" => scheduler # "Running"
           \/ scheduler = "Created" /\ scheduler' = "Running" /\ worker' = "lock"
           \/ scheduler = "Created" /\ scheduler' = "Stopped" /\ worker' = worker
           \/ scheduler = "Running" /\ scheduler' = "Stopping" /\ worker' = worker
           \/ scheduler' = "Stopped" /\ worker \in {"none", "exited"} /\ worker' = worker /\ scheduler # "Created"
<1>1. TypeOK /\ Phases
  BY DEF TimerInv, ControlInv
<1>2. scheduler = "Created" => worker = "none"
  BY <1>1 DEF Phases
<1>3. ASSUME NEW t \in Threads, Call(t) \/ Continue(t), ~Start(t), ~Notify(t), ~Drain(t)
      PROVE  /\ worker' = worker
             /\ \/ scheduler' = scheduler
                \/ scheduler = "Created" /\ scheduler' = "Stopped"
                \/ scheduler = "Running" /\ scheduler' = "Stopping"
  BY <1>3 DEF Call, Continue, ScheduleAfter, ScheduleEvery, Schedule, Cancel, CallRequestStop,
              Stop, RequestStop, Running, Wait, Join, workerVars, sharedVars
<1>4. ASSUME NEW t \in Threads, Start(t)
      PROVE  scheduler = "Created" /\ scheduler' = "Running" /\ worker' = "lock"
  BY <1>4 DEF Start
<1>5. ASSUME NEW t \in Threads, Drain(t)
      PROVE  /\ worker' = worker /\ worker \in {"none", "exited"} /\ scheduler # "Created"
             /\ scheduler' = scheduler \/ scheduler' = "Stopped"
  BY <1>1, <1>5 DEF Drain, Phases, workerVars
<1>6. ASSUME WakeWorker
      PROVE  \/ worker' = worker
             \/ worker \notin {"none", "exited"} /\ worker' = "woken"
  BY <1>6 DEF WakeWorker
<1>7. ASSUME NEW t \in Threads, Notify(t) PROVE scheduler' = scheduler /\ WakeWorker
  BY <1>7 DEF Notify, sharedVars
<1>8. ASSUME WorkerStep
      PROVE  /\ scheduler' = scheduler
             /\ worker \notin {"none", "exited"} /\ worker' # "none"
             /\ worker' = "exited" => scheduler # "Running"
  <2>1. CASE Wake \/ Expired
    BY <2>1 DEF Wake, Expired, EnterLoop, Collect, Running
  <2>2. CASE Expire \/ Dispatch \/ Post \/ Rejected \/ Release \/ FinishNotify
    BY <2>2 DEF Expire, Dispatch, Post, Rejected, Release, FinishNotify, sharedVars
  <2> QED
    BY <1>8, <2>1, <2>2 DEF WorkerStep
<1>9. ASSUME NEW p \in PoolThreads, PoolStep(p)
      PROVE  scheduler' = scheduler /\ (worker' = worker \/ WakeWorker)
  BY <1>9 DEF PoolStep, Take, Begin, End, NotifyPush, Destroy, PoolNotify, workerVars, sharedVars
<1>10. ASSUME Tick \/ SpuriousWakeup \/ UNCHANGED vars
       PROVE  scheduler' = scheduler /\ (worker' = worker \/ WakeWorker)
  BY <1>10 DEF Tick, SpuriousWakeup, vars, workerVars, sharedVars
<1>11. CASE \E t \in Threads : Call(t) \/ Continue(t)
  BY <1>2, <1>3, <1>4, <1>5, <1>6, <1>7, <1>11
<1> QED
  BY <1>2, <1>6, <1>8, <1>9, <1>10, <1>11 DEF Next

\* Who waits for what agrees with the life of the scheduler.
LEMMA PhasesKept ==
    ASSUME TimerInv, [Next]_vars
    PROVE  Phases'
<1>1. TypeOK /\ Phases
  BY DEF TimerInv, ControlInv
<1>2. ASSUME scheduler' = "Created"
      PROVE  worker' = "none" /\ nextId' = 1 /\ \A p \in PoolThreads : pool'[p] = "idle"
  <2>1. scheduler = "Created" /\ worker' = worker /\ worker = "none"
    BY <1>1, <1>2, LifeMoves DEF Phases
  <2>2. nextId = 1 /\ queue = << >> /\ \A p \in PoolThreads : pool[p] = "idle"
    BY <2>1, CreatedIsEmpty, <1>1 DEF Phases
  <2>3. ASSUME NEW t \in Threads, Call(t) \/ Continue(t) PROVE nextId' = nextId /\ pool' = pool
    BY <2>1, <2>3 DEF Call, Continue, Start, ScheduleAfter, ScheduleEvery, Schedule, Cancel, CallRequestStop,
              Stop, RequestStop, Running, Wait, Notify, Join, Drain, poolVars, sharedVars
  <2>4. ~WorkerStep
    BY <2>1 DEF WorkerStep, Wake, Expire, Expired, Dispatch, Post, Rejected, Release, FinishNotify
  <2>5. ASSUME NEW p \in PoolThreads PROVE ~PoolStep(p)
    BY <2>2 DEF PoolStep, Take, Begin, End, NotifyPush, Destroy, PoolNotify
  <2>6. ASSUME Tick \/ SpuriousWakeup \/ UNCHANGED vars PROVE nextId' = nextId /\ pool' = pool
    BY <2>6 DEF Tick, SpuriousWakeup, poolVars, sharedVars, vars
  <2> QED
    BY <2>1, <2>2, <2>3, <2>4, <2>5, <2>6 DEF Next
<1>3. worker' = "none" => scheduler' \in {"Created", "Stopped"}
  BY <1>1, LifeMoves DEF Phases
<1>4. worker' = "exited" => scheduler' \in {"Stopping", "Stopped"}
  BY <1>1, LifeMoves DEF Phases, TypeOK
<1> DEFINE Sound(u, l) == /\ l \in {"stopNotify", "join"} => scheduler' # "Created"
                          /\ l \in {"drain", "drainWait", "drainWoken"} =>
                                worker' \in {"none", "exited"} /\ scheduler' # "Created"
<1>5. ASSUME NEW u \in Threads PROVE Sound(u, api[u])
  <2>1. /\ api[u] \in {"stopNotify", "join"} => scheduler # "Created"
        /\ api[u] \in {"drain", "drainWait", "drainWoken"} =>
              worker \in {"none", "exited"} /\ scheduler # "Created"
    BY <1>1 DEF Phases
  <2> QED
    BY <2>1, LifeMoves
<1>6. /\ \A u \in Threads : Sound(u, api'[u])
      /\ sleepers' = {u \in Threads : api'[u] = "drainWait"}
  <2>0. sleepers = {u \in Threads : api[u] = "drainWait"}
    BY <1>1 DEF Phases
  <2>1. ASSUME api' = api, sleepers' = sleepers
        PROVE  /\ \A u \in Threads : Sound(u, api'[u])
               /\ sleepers' = {u \in Threads : api'[u] = "drainWait"}
    BY <1>5, <2>0, <2>1
  <2>2. ASSUME NEW t \in Threads, NEW l, api' = [api EXCEPT ![t] = l], Sound(t, l),
               \/ sleepers' = sleepers /\ api[t] # "drainWait" /\ l # "drainWait"
               \/ sleepers' = sleepers \cup {t} /\ l = "drainWait"
               \/ sleepers' = sleepers \ {t} /\ l # "drainWait"
        PROVE  /\ \A u \in Threads : Sound(u, api'[u])
               /\ sleepers' = {u \in Threads : api'[u] = "drainWait"}
    <3>1. \A u \in Threads : api'[u] = IF u = t THEN l ELSE api[u]
      BY <1>1, <2>2 DEF TypeOK
    <3>2. \A u \in Threads : Sound(u, api'[u])
      <4> HIDE DEF Sound
      <4> QED
        BY <1>5, <2>2, <3>1
    <3>3. sleepers' = {u \in Threads : api'[u] = "drainWait"}
      BY <2>0, <2>2, <3>1
    <3> QED
      BY <3>2, <3>3
  <2>3. ASSUME WakeSleepers
        PROVE  /\ \A u \in Threads : Sound(u, api'[u])
               /\ sleepers' = {u \in Threads : api'[u] = "drainWait"}
    <3>1. \A u \in Threads : api'[u] = IF api[u] = "drainWait" THEN "drainWoken" ELSE api[u]
      BY <2>0, <2>3 DEF WakeSleepers
    <3>2. \A u \in Threads : Sound(u, api'[u])
      BY <1>5, <3>1
    <3>3. sleepers' = {} /\ {u \in Threads : api'[u] = "drainWait"} = {}
      BY <2>3, <3>1 DEF WakeSleepers
    <3> QED
      BY <3>2, <3>3
  <2>4. ASSUME NEW t \in Threads, Call(t) \/ Continue(t)
        PROVE  /\ \A u \in Threads : Sound(u, api'[u])
               /\ sleepers' = {u \in Threads : api'[u] = "drainWait"}
    <3>1. CASE Start(t)
      BY <2>1, <3>1 DEF Start
    <3>2. ASSUME NEW d, NEW every, Schedule(t, d, every)
          PROVE  /\ \A u \in Threads : Sound(u, api'[u])
                 /\ sleepers' = {u \in Threads : api'[u] = "drainWait"}
      <4>1. PICK l \in {"notify", "idle"} : api' = [api EXCEPT ![t] = l]
        BY <3>2 DEF Schedule, Goto
      <4>2. sleepers' = sleepers /\ api[t] = "idle"
        BY <3>2 DEF Schedule, MayCall
      <4> QED
        BY <2>2, <4>1, <4>2
    <3>3. ASSUME NEW i \in Ids, Cancel(t, i)
          PROVE  /\ \A u \in Threads : Sound(u, api'[u])
                 /\ sleepers' = {u \in Threads : api'[u] = "drainWait"}
      <4>1. PICK l \in {"notify", "idle"} : api' = [api EXCEPT ![t] = l]
        BY <3>3 DEF Cancel, Goto
      <4>2. sleepers' = sleepers /\ api[t] = "idle"
        BY <3>3 DEF Cancel, MayCall
      <4> QED
        BY <2>2, <4>1, <4>2
    <3>4. CASE CallRequestStop(t)
      <4>1. PICK l \in {"notify", "idle"} : api' = [api EXCEPT ![t] = l]
        BY <3>4 DEF CallRequestStop, RequestStop, Goto
      <4>2. sleepers' = sleepers /\ api[t] = "idle"
        BY <3>4 DEF CallRequestStop, RequestStop, MayCall
      <4> QED
        BY <2>2, <4>1, <4>2
    <3>5. CASE Stop(t)
      <4>1. PICK l \in {"stopNotify", "join"} : api' = [api EXCEPT ![t] = l]
        BY <3>5 DEF Stop, RequestStop, Goto
      <4>2. sleepers' = sleepers /\ api[t] = "idle" /\ scheduler' # "Created"
        BY <3>5 DEF Stop, RequestStop, MayCall
      <4> QED
        BY <2>2, <4>1, <4>2
    <3>6. CASE Wait(t)
      <4>1. /\ api' = [api EXCEPT ![t] = "join"] /\ sleepers' = sleepers /\ api[t] = "idle"
            /\ scheduler' # "Created"
        BY <3>6 DEF Wait, Goto, MayCall, sharedVars
      <4> QED
        BY <2>2, <4>1
    <3>7. CASE Notify(t)
      <4>1. PICK l \in {"idle", "join"} : api' = [api EXCEPT ![t] = l] /\ (l = "join" => api[t] = "stopNotify")
        BY <3>7 DEF Notify, Goto
      <4>2. sleepers' = sleepers /\ api[t] \in {"notify", "stopNotify"}
        BY <3>7 DEF Notify
      <4>3. Sound(t, l)
        BY <1>5, <4>1
      <4> QED
        BY <2>2, <4>1, <4>2, <4>3
    <3>8. CASE Join(t)
      <4>1. PICK l \in {"idle", "drain"} : api' = [api EXCEPT ![t] = l]
        BY <3>8 DEF Join, Goto
      <4>2. /\ sleepers' = sleepers /\ api[t] = "join"
            /\ worker' \in {"none", "exited"} /\ scheduler' = scheduler
        BY <3>8 DEF Join, sharedVars, workerVars
      <4>3. Sound(t, l)
        BY <1>5, <4>1, <4>2
      <4> QED
        BY <2>2, <4>1, <4>2, <4>3
    <3>9. CASE Drain(t)
      <4>1. Sound(t, "drainWait")
        BY <1>5, <3>9 DEF Drain
      <4>2. api[t] \in {"drain", "drainWoken"}
        BY <3>9 DEF Drain
      <4>3. \/ api' = [api EXCEPT ![t] = "drainWait"] /\ sleepers' = sleepers \cup {t}
            \/ api' = [api EXCEPT ![t] = "idle"] /\ sleepers' = sleepers
        BY <3>9 DEF Drain, Goto
      <4> QED
        BY <2>2, <4>1, <4>2, <4>3
    <3> QED
      BY <2>4, <3>1, <3>2, <3>3, <3>4, <3>5, <3>6, <3>7, <3>8, <3>9 DEF Call, Continue, ScheduleAfter, ScheduleEvery
  <2>5. ASSUME WorkerStep
        PROVE  (api' = api /\ sleepers' = sleepers) \/ WakeSleepers
    BY <2>5 DEF WorkerStep, Wake, Expire, Expired, Dispatch, Post, Rejected, Release, FinishNotify
  <2>6. ASSUME NEW p \in PoolThreads, PoolStep(p)
        PROVE  (api' = api /\ sleepers' = sleepers) \/ WakeSleepers
    BY <2>6 DEF PoolStep, Take, Begin, End, NotifyPush, Destroy, PoolNotify
  <2>7. ASSUME SpuriousWakeup
        PROVE  /\ \A u \in Threads : Sound(u, api'[u])
               /\ sleepers' = {u \in Threads : api'[u] = "drainWait"}
    <3>1. \/ api' = api /\ sleepers' = sleepers
          \/ \E t \in sleepers : api' = [api EXCEPT ![t] = "drainWoken"] /\ sleepers' = sleepers \ {t}
      BY <2>7 DEF SpuriousWakeup, Goto
    <3>2. ASSUME NEW t \in sleepers, api' = [api EXCEPT ![t] = "drainWoken"], sleepers' = sleepers \ {t}
          PROVE  /\ \A u \in Threads : Sound(u, api'[u])
                 /\ sleepers' = {u \in Threads : api'[u] = "drainWait"}
      <4>1. t \in Threads /\ api[t] = "drainWait"
        BY <2>0
      <4>2. Sound(t, "drainWoken")
        BY <1>5, <4>1
      <4> QED
        BY <2>2, <3>2, <4>1, <4>2
    <3> QED
      BY <2>1, <3>1, <3>2
  <2>8. ASSUME Tick \/ UNCHANGED vars PROVE api' = api /\ sleepers' = sleepers
    BY <2>8 DEF Tick, vars
  <2> HIDE DEF Sound
  <2> QED
    BY <2>1, <2>3, <2>4, <2>5, <2>6, <2>7, <2>8 DEF Next
<1> QED
  BY <1>2, <1>3, <1>4, <1>6 DEF Phases

\* A scheduler that stops has nothing left, and nothing comes back.
LEMMA StoppedKept ==
    ASSUME TimerInv, [Next]_vars
    PROVE  StoppedIsQuiet'
<1> SUFFICES ASSUME scheduler' = "Stopped"
             PROVE  /\ worker' \in {"none", "exited"}
                    /\ heap' = << >> /\ queue' = << >>
                    /\ \A i \in Ids : states'[i] = "none"
                    /\ \A p \in PoolThreads : pool'[p] \in {"idle", "finish"}
  BY DEF StoppedIsQuiet
<1>1. TypeOK /\ Phases /\ StoppedIsQuiet
  BY DEF TimerInv, ControlInv
<1>2. worker \in {"none", "exited"} /\ worker' = worker
  BY <1>1, CreatedIsEmpty, LifeMoves DEF StoppedIsQuiet
<1>3. ASSUME NEW t \in Threads, Drain(t), inFlight = 0
      PROVE  /\ heap' = << >> /\ queue' = << >>
             /\ \A i \in Ids : states'[i] = "none"
             /\ \A p \in PoolThreads : pool'[p] \in {"idle", "finish"}
  <2>1. queue = << >> /\ \A p \in PoolThreads : pool[p] \in {"idle", "finish"}
    BY <1>2, <1>3, DrainedIsEmpty
  <2>2. heap' = << >> /\ queue' = queue /\ pool' = pool /\ Erase(Ids)
    BY <1>1, <1>3, SMT DEF Drain, poolVars, TypeOK
  <2> QED
    BY <2>1, <2>2 DEF Erase
<1>4. ASSUME scheduler \in {"Created", "Stopped"}
      PROVE  /\ heap' = << >> /\ queue' = << >>
             /\ \A i \in Ids : states'[i] = "none"
             /\ \A p \in PoolThreads : pool'[p] \in {"idle", "finish"}
  <2>1. /\ heap = << >> /\ queue = << >>
        /\ \A i \in Ids : states[i] = "none"
        /\ \A p \in PoolThreads : pool[p] \in {"idle", "finish"}
    BY <1>1, <1>4, CreatedIsEmpty DEF StoppedIsQuiet
  <2>2. ASSUME NEW t \in Threads, Call(t) \/ Continue(t), ~Drain(t)
        PROVE  heap' = heap /\ queue' = queue /\ states' = states /\ pool' = pool
    <3>1. ASSUME NEW i \in Ids PROVE ~Cancel(t, i)
      BY <2>1 DEF Cancel
    <3> QED
      BY <1>4, <2>2, <3>1 DEF Call, Continue, Start, ScheduleAfter, ScheduleEvery, Schedule, CallRequestStop,
              Stop, RequestStop, Running, Wait, Notify, Join, poolVars, sharedVars
  <2>3. ASSUME NEW t \in Threads, Drain(t), inFlight # 0
        PROVE  heap' = heap /\ queue' = queue /\ states' = states /\ pool' = pool
    BY <2>3 DEF Drain, poolVars
  <2>4. ~WorkerStep
    BY <1>2 DEF WorkerStep, Wake, Expire, Expired, Dispatch, Post, Rejected, Release, FinishNotify
  <2>5. ASSUME NEW p \in PoolThreads, PoolStep(p)
        PROVE  /\ heap' = heap /\ queue' = queue /\ states' = states
               /\ pool' = [pool EXCEPT ![p] = "idle"]
    <3>1. PoolNotify(p)
      BY <2>1, <2>5 DEF PoolStep, Take, Begin, End, NotifyPush, Destroy
    <3> QED
      BY <3>1 DEF PoolNotify, PoolGoto, sharedVars
  <2>6. ~Tick
    BY <2>1 DEF Tick
  <2>7. ASSUME SpuriousWakeup \/ UNCHANGED vars
        PROVE  heap' = heap /\ queue' = queue /\ states' = states /\ pool' = pool
    BY <2>7 DEF SpuriousWakeup, vars, sharedVars, poolVars
  <2>8. CASE \E t \in Threads : Call(t) \/ Continue(t)
    BY <1>3, <2>1, <2>2, <2>3, <2>8
  <2>9. CASE \E p \in PoolThreads : PoolStep(p)
    BY <1>1, <2>1, <2>5, <2>9 DEF TypeOK
  <2> QED
    BY <2>1, <2>4, <2>6, <2>7, <2>8, <2>9 DEF Next
<1>5. ASSUME scheduler \notin {"Created", "Stopped"}
      PROVE  \E t \in Threads : Drain(t) /\ inFlight = 0
  <2>1. ASSUME NEW t \in Threads, Call(t) \/ Continue(t), ~Drain(t) PROVE FALSE
    BY <1>5, <2>1 DEF Call, Continue, Start, ScheduleAfter, ScheduleEvery, Schedule, Cancel, CallRequestStop,
              Stop, RequestStop, Running, Wait, Notify, Join, sharedVars
  <2>2. ASSUME WorkerStep PROVE FALSE
    BY <1>5, <2>2 DEF WorkerStep, Wake, Expire, Expired, Dispatch, Post, Rejected, Release, FinishNotify, sharedVars
  <2>3. ASSUME NEW p \in PoolThreads, PoolStep(p) PROVE FALSE
    BY <1>5, <2>3 DEF PoolStep, Take, Begin, End, NotifyPush, Destroy, PoolNotify, sharedVars
  <2>4. ASSUME Tick \/ SpuriousWakeup \/ UNCHANGED vars PROVE FALSE
    BY <1>5, <2>4 DEF Tick, SpuriousWakeup, vars, sharedVars
  <2>5. ASSUME NEW t \in Threads, Drain(t) PROVE inFlight = 0
    BY <1>5, <2>5 DEF Drain
  <2> QED
    BY <2>1, <2>2, <2>3, <2>4, <2>5 DEF Next
<1> QED
  BY <1>2, <1>3, <1>4, <1>5

-----------------------------------------------------------------------------
(***************************************************************************)
(* No wakeup is lost.                                                      *)
(***************************************************************************)

Asleep == worker \in {"waitEmpty", "waitTop"}

\* What the worker sleeps for.
OnTime ==
    /\ Running
    /\ worker = "waitEmpty" => heap = << >>
    /\ worker = "waitTop" =>
          \E k \in DOMAIN heap : /\ heap[k].id = waitingId
                                 /\ heap[k].left = heap[1].left
                                 /\ k = 1 => states[waitingId] = "Pending"

\* Only the notification itself takes a pending notification away, and then
\* the worker is awake.
LEMMA NotifyStays ==
    ASSUME TimerInv, [Next]_vars, NotifyPending, Asleep'
    PROVE  NotifyPending'
<1>1. TypeOK /\ Phases
  BY DEF TimerInv, ControlInv
<1>2. worker' # "woken"
  BY DEF Asleep
<1>3. ASSUME api' = api, pool' = pool PROVE NotifyPending'
  BY <1>3 DEF NotifyPending
<1>4. ASSUME NEW t \in Threads, NEW l, api' = [api EXCEPT ![t] = l], pool' = pool,
             api[t] \notin {"notify", "stopNotify"}
      PROVE  NotifyPending'
  <2>1. \A u \in Threads : api[u] \in {"notify", "stopNotify"} => api'[u] = api[u]
    BY <1>1, <1>4 DEF TypeOK
  <2> QED
    BY <1>4, <2>1 DEF NotifyPending
<1>5. ASSUME NEW p \in PoolThreads, NEW l, pool' = [pool EXCEPT ![p] = l], api' = api,
             pool[p] # "notify"
      PROVE  NotifyPending'
  <2>1. \A q \in PoolThreads : pool[q] = "notify" => pool'[q] = pool[q]
    BY <1>1, <1>5 DEF TypeOK
  <2> QED
    BY <1>5, <2>1 DEF NotifyPending
<1>6. ASSUME WakeSleepers PROVE \A u \in Threads : api[u] \in {"notify", "stopNotify"} => api'[u] = api[u]
  BY <1>1, <1>6 DEF WakeSleepers, Phases
<1>7. ASSUME NEW t \in Threads, Call(t) \/ Continue(t) PROVE NotifyPending'
  <2>1. ASSUME NEW d, NEW every, Schedule(t, d, every) PROVE NotifyPending'
    <3>1. \E l \in {"notify", "idle"} : api' = [api EXCEPT ![t] = l]
      BY <2>1 DEF Schedule, Goto
    <3>2. api[t] = "idle" /\ pool' = pool
      BY <2>1 DEF Schedule, MayCall, poolVars
    <3> QED
      BY <1>4, <3>1, <3>2
  <2>2. ASSUME NEW i \in Ids, Cancel(t, i) PROVE NotifyPending'
    <3>1. \E l \in {"notify", "idle"} : api' = [api EXCEPT ![t] = l]
      BY <2>2 DEF Cancel, Goto
    <3>2. api[t] = "idle" /\ pool' = pool
      BY <2>2 DEF Cancel, MayCall, poolVars
    <3> QED
      BY <1>4, <3>1, <3>2
  <2>3. ASSUME NEW a, NEW b, RequestStop(t, a, b) PROVE NotifyPending'
    <3>1. api' = [api EXCEPT ![t] = a] \/ api' = [api EXCEPT ![t] = b]
      BY <2>3 DEF RequestStop, Goto
    <3>2. api[t] = "idle" /\ pool' = pool
      BY <2>3 DEF RequestStop, MayCall, poolVars
    <3> QED
      BY <1>4, <3>1, <3>2
  <2>4. CASE Start(t)
    BY <2>4, <1>3 DEF Start, poolVars
  <2>5. CASE Wait(t) \/ Join(t) \/ Drain(t)
    <3>1. \E l \in {"join", "idle", "drain", "drainWait"} : api' = [api EXCEPT ![t] = l]
      BY <2>5 DEF Wait, Join, Drain, Goto
    <3>2. api[t] \in {"idle", "join", "drain", "drainWoken"} /\ pool' = pool
      BY <2>5 DEF Wait, Join, Drain, MayCall, poolVars
    <3> QED
      BY <1>4, <3>1, <3>2
  <2>6. CASE Notify(t)
    BY <1>2, <2>6 DEF Notify, WakeWorker, Asleep
  <2> QED
    BY <1>7, <2>1, <2>2, <2>3, <2>4, <2>5, <2>6 DEF Call, Continue, ScheduleAfter, ScheduleEvery,
                                                    CallRequestStop, Stop
<1>8. CASE WorkerStep
  <2>1. CASE FinishNotify
    BY <2>1 DEF FinishNotify, Asleep
  <2>2. CASE ~FinishNotify
    <3>1. api' = api /\ pool' = pool
      BY <1>8, <2>2 DEF WorkerStep, Wake, Expire, Expired, Dispatch, Post, Rejected, Release, poolVars
    <3> QED
      BY <1>3, <3>1
  <2> QED
    BY <2>1, <2>2
<1>9. ASSUME NEW p \in PoolThreads, PoolStep(p) PROVE NotifyPending'
  <2>1. CASE Take(p) \/ Begin(p) \/ End(p) \/ Destroy(p)
    <3>1. \E l \in {"begin", "callback", "destroy", "notify", "idle", "finish"} :
             pool' = [pool EXCEPT ![p] = l]
      BY <2>1 DEF Take, Begin, End, Destroy, PoolGoto
    <3>2. api' = api /\ pool[p] # "notify"
      BY <2>1 DEF Take, Begin, End, Destroy
    <3> QED
      BY <1>5, <3>1, <3>2
  <2>2. CASE NotifyPush(p)
    BY <1>2, <2>2 DEF NotifyPush, WakeWorker, Asleep
  <2>3. CASE PoolNotify(p)
    <3>1. \A u \in Threads : api[u] \in {"notify", "stopNotify"} => api'[u] = api[u]
      BY <1>6, <2>3 DEF PoolNotify
    <3>2. \A q \in PoolThreads : pool[q] = "notify" => pool'[q] = pool[q]
      BY <1>1, <2>3 DEF PoolNotify, PoolGoto, TypeOK
    <3> QED
      BY <3>1, <3>2 DEF NotifyPending
  <2> QED
    BY <1>9, <2>1, <2>2, <2>3 DEF PoolStep
<1>10. CASE SpuriousWakeup
  <2>1. pool' = pool
    BY <1>10 DEF SpuriousWakeup, poolVars
  <2>2. \/ api' = api
        \/ \E t \in sleepers : api' = [api EXCEPT ![t] = "drainWoken"]
    BY <1>10 DEF SpuriousWakeup, Goto
  <2>3. \A t \in sleepers : t \in Threads /\ api[t] \notin {"notify", "stopNotify"}
    BY <1>1 DEF Phases
  <2> QED
    BY <1>3, <1>4, <2>1, <2>2, <2>3
<1>11. CASE Tick \/ UNCHANGED vars
  BY <1>3, <1>11 DEF Tick, poolVars, vars
<1> QED
  BY <1>7, <1>8, <1>9, <1>10, <1>11 DEF Next

\* The deadline is still the right one while the heap and the timer at its
\* top are as they were.
LEMMA StillOnTime ==
    ASSUME OnTime, heap' = heap, scheduler' = scheduler, worker' = worker, waitingId' = waitingId,
           \/ states'[waitingId] = states[waitingId]
           \/ heap # << >> /\ heap[1].id # waitingId
    PROVE  OnTime'
BY DEF OnTime, Running

\* Nor does it change when an entry is pushed that is not the earliest.
LEMMA LatePush ==
    ASSUME TimerInv, OnTime, Asleep, NEW e \in Entries, ~Has(heap, e.id), ~Earliest(heap, e.left),
           heap' = Push(heap, e), states' = [states EXCEPT ![e.id] = "Pending"],
           scheduler' = scheduler, worker' = worker, waitingId' = waitingId
    PROVE  OnTime'
<1>1. heap \in Seq(Entries) /\ Sorted(heap) /\ Distinct(heap) /\ TypeOK
  BY DEF TimerInv, ControlInv, TypeOK, Entries, PlacesInv, ListsDistinct
<1>2. /\ heap' \in Seq(Entries) /\ heap # << >> /\ heap'[1].left = heap[1].left
      /\ \A k \in 1 .. Len(heap) : \E j \in 1 .. Len(heap') : heap'[j] = heap[k] /\ (j = 1 => k = 1)
  <2>1. /\ Push(heap, e) \in Seq(Entries)
        /\ ~Earliest(heap, e.left) =>
              /\ heap # << >> /\ Push(heap, e)[1].left = heap[1].left
              /\ \A k \in 1 .. Len(heap) :
                    \E j \in 1 .. Len(Push(heap, e)) : Push(heap, e)[j] = heap[k] /\ (j = 1 => k = 1)
    BY <1>1, Pushed
  <2> QED
    BY <2>1
<1>3. worker = "waitTop" /\ Running
  BY <1>2 DEF OnTime, Asleep
<1>4. PICK k \in DOMAIN heap : /\ heap[k].id = waitingId
                               /\ heap[k].left = heap[1].left
                               /\ k = 1 => states[waitingId] = "Pending"
  BY <1>3 DEF OnTime
<1>5. k \in 1 .. Len(heap) /\ DOMAIN heap' = 1 .. Len(heap')
  BY <1>1, <1>2, LenProperties
<1>6. PICK j \in 1 .. Len(heap') : heap'[j] = heap[k] /\ (j = 1 => k = 1)
  BY <1>2, <1>5
<1>7. states[waitingId] = "Pending" => states'[waitingId] = "Pending"
  BY <1>1 DEF TypeOK
<1>8. /\ j \in DOMAIN heap' /\ heap'[j].id = waitingId' /\ heap'[j].left = heap'[1].left
      /\ j = 1 => states'[waitingId'] = "Pending"
  BY <1>2, <1>4, <1>5, <1>6, <1>7
<1> QED
  BY <1>3, <1>8 DEF OnTime, Running

\* A sleeping worker's timer is in the heap.
LEMMA WaitsForTheHeap ==
    ASSUME TimerInv, OnTime, worker = "waitTop"
    PROVE  Has(heap, waitingId) /\ waitingId \in Ids /\ heap # << >>
<1>1. PICK k \in DOMAIN heap : heap[k].id = waitingId
  BY DEF OnTime
<1>2. heap \in Seq(Entries)
  BY DEF TimerInv, ControlInv, TypeOK, Entries
<1>3. k \in 1 .. Len(heap) /\ heap[k] \in Entries
  BY <1>2, LenProperties, ElementOfSeq
<1>4. heap # << >>
  BY <1>1
<1> QED
  BY <1>1, <1>3, <1>4 DEF Has, Entries

\* A worker that goes to sleep does so on the earliest deadline.
LEMMA EntersOnTime ==
    ASSUME TimerInv, EnterLoop, scheduler' = scheduler, Asleep'
    PROVE  OnTime'
<1>1. heap \in Seq(Entries) /\ Sorted(heap) /\ Distinct(heap) /\ TypeOK
  BY DEF TimerInv, ControlInv, TypeOK, Entries, PlacesInv, ListsDistinct
<1>2. Running /\ Running'
  BY DEF EnterLoop, Asleep, Running
<1>3. /\ heap' \in Seq(Entries)
      /\ \A i : Has(heap', i) <=> Has(heap, i) /\ i \notin IdsOf(StaleTop)
      /\ states' = [i \in Ids |-> IF i \in IdsOf(StaleTop) THEN "none" ELSE states[i]]
      /\ \/ heap' = << >> /\ worker' = "waitEmpty" /\ waitingId' = NoId
         \/ /\ heap' # << >> /\ worker' = "waitTop" /\ waitingId' = heap'[1].id
            /\ states[waitingId'] # "Cancelled" /\ waitingId' \notin IdsOf(StaleTop)
  BY <1>1, <1>2, EnterLoopEffect
<1>4. CASE heap' = << >> /\ worker' = "waitEmpty"
  BY <1>2, <1>4 DEF OnTime
<1>5. CASE /\ heap' # << >> /\ worker' = "waitTop" /\ waitingId' = heap'[1].id
           /\ states[waitingId'] # "Cancelled" /\ waitingId' \notin IdsOf(StaleTop)
  <2>1. 1 \in 1 .. Len(heap') /\ 1 \in DOMAIN heap'
    BY <1>3, <1>5, EmptySeq, LenProperties, SMT
  <2>2. heap'[1] \in Entries
    BY <1>3, <2>1, ElementOfSeq
  <2>3. waitingId' \in Ids /\ Has(heap', waitingId')
    BY <1>5, <2>1, <2>2 DEF Entries, Has
  <2>4. Has(heap, waitingId')
    BY <1>3, <2>3
  <2>5. states[waitingId'] = "Pending"
    BY <1>5, <2>3, <2>4 DEF TimerInv, PlacesInv, Recorded
  <2>6. states'[waitingId'] = "Pending"
    BY <1>3, <1>5, <2>3, <2>5
  <2> QED
    BY <1>2, <1>5, <2>1, <2>6 DEF OnTime
<1> QED
  BY <1>3, <1>4, <1>5

\* A step of the interface.
LEMMA CallKeepsTime ==
    ASSUME TimerInv, OnTime, Asleep, NEW t \in Threads, Call(t) \/ Continue(t), ~NotifyPending', Asleep'
    PROVE  OnTime'
<1>1. TypeOK /\ Phases /\ PlacesInv
  BY DEF TimerInv, ControlInv
<1>2. ASSUME NEW l, api' = [api EXCEPT ![t] = l] PROVE l \notin {"notify", "stopNotify"}
  BY <1>1, <1>2 DEF TypeOK, NotifyPending
<1>3. ASSUME NEW d \in 0 .. MaxDelay, NEW every, Schedule(t, d, every) PROVE OnTime'
  <2>1. PICK left \in 0 .. d :
          /\ heap' = Push(heap, [id |-> nextId, left |-> left])
          /\ Goto(t, IF Earliest(heap, left) THEN "notify" ELSE "idle")
    BY <1>3 DEF Schedule
  <2>2. ~Earliest(heap, left)
    BY <1>2, <2>1 DEF Goto
  <2>3. nextId \in Ids /\ left \in 0 .. MaxDelay
    BY <1>3, BoundAssumption, SMT DEF Schedule
  <2> DEFINE e == [id |-> nextId, left |-> left]
  <2>4. e \in Entries /\ e.id = nextId /\ e.left = left
    BY <2>3 DEF Entries
  <2>5. ~Has(heap, nextId)
    <3>1. nextId >= nextId
      BY <2>3, BoundAssumption, SMT DEF Ids
    <3> QED
      BY <1>1, <2>3, <3>1 DEF PlacesInv, Recorded, Placed
  <2>6. /\ states' = [states EXCEPT ![nextId] = "Pending"]
        /\ scheduler' = scheduler /\ worker' = worker /\ waitingId' = waitingId
    BY <1>3 DEF Schedule, workerVars
  <2> HIDE DEF e
  <2>7. heap' = Push(heap, e)
    BY <2>1 DEF e
  <2> QED
    BY <2>2, <2>4, <2>5, <2>6, <2>7, LatePush
<1>4. ASSUME NEW i \in Ids, Cancel(t, i) PROVE OnTime'
  <2>1. /\ heap' = heap /\ scheduler' = scheduler /\ worker' = worker /\ waitingId' = waitingId
        /\ states' = [states EXCEPT ![i] = "Cancelled"]
    BY <1>4 DEF Cancel, workerVars
  <2>2. ~(heap # << >> /\ heap[1].id = i)
    BY <1>2, <1>4 DEF Cancel, Goto
  <2>3. CASE worker = "waitEmpty"
    BY <2>1, <2>3 DEF OnTime, Running
  <2>4. CASE worker = "waitTop"
    <3>1. heap # << >>
      BY <2>4, WaitsForTheHeap
    <3>2. states'[waitingId] = states[waitingId] \/ heap[1].id # waitingId
      BY <1>1, <2>1, <2>2, <3>1 DEF TypeOK
    <3> QED
      BY <2>1, <3>1, <3>2, StillOnTime
  <2> QED
    BY <2>3, <2>4 DEF Asleep
<1>5. ASSUME NEW b, RequestStop(t, "notify", b) \/ RequestStop(t, "stopNotify", b) PROVE FALSE
  BY <1>2, <1>5 DEF RequestStop, Goto, OnTime
<1>6. CASE Start(t)
  BY <1>6 DEF Start, Asleep
<1>7. CASE Wait(t) \/ Join(t)
  BY <1>7, StillOnTime DEF Wait, Join, sharedVars, workerVars
<1>8. CASE Drain(t)
  BY <1>1, <1>8 DEF Drain, Phases, Asleep
<1>9. CASE Notify(t)
  BY <1>9 DEF Notify, WakeWorker, Asleep
<1> QED
  BY <1>3, <1>4, <1>5, <1>6, <1>7, <1>8, <1>9 DEF Call, Continue, ScheduleAfter, ScheduleEvery,
                                                 CallRequestStop, Stop

\* A step of the executor.
LEMMA PoolKeepsTime ==
    ASSUME TimerInv, OnTime, Asleep, NEW p \in PoolThreads, PoolStep(p), ~NotifyPending', Asleep'
    PROVE  OnTime'
<1>1. TypeOK /\ Phases /\ PlacesInv /\ Wrappers
  BY DEF TimerInv, ControlInv
<1>2. ASSUME NEW l, pool' = [pool EXCEPT ![p] = l] PROVE l # "notify"
  BY <1>1, <1>2 DEF TypeOK, NotifyPending
<1>3. ASSUME pool[p] \in {"begin", "callback"} PROVE shot[p].id \in Ids /\ IsAt(shot[p].id, pool[p])
  BY <1>1, <1>3 DEF Wrappers, Shots, IsAt
<1>4. ASSUME NEW i \in Ids, ~Has(heap, i), heap' = heap, scheduler' = scheduler, worker' = worker,
             waitingId' = waitingId, \A j \in Ids \ {i} : states'[j] = states[j]
      PROVE  OnTime'
  <2>1. CASE worker = "waitEmpty"
    BY <1>4, <2>1 DEF OnTime, Running
  <2>2. CASE worker = "waitTop"
    <3>1. Has(heap, waitingId) /\ waitingId \in Ids
      BY <2>2, WaitsForTheHeap
    <3>2. states'[waitingId] = states[waitingId]
      BY <1>4, <3>1
    <3> QED
      BY <1>4, <3>2, StillOnTime
  <2> QED
    BY <2>1, <2>2 DEF Asleep
<1>5. CASE Take(p) \/ Destroy(p) \/ PoolNotify(p)
  BY <1>5, StillOnTime DEF Take, Destroy, PoolNotify, sharedVars, workerVars
<1>6. CASE NotifyPush(p)
  BY <1>6 DEF NotifyPush, WakeWorker, Asleep
<1>7. CASE Begin(p)
  <2> DEFINE i == shot[p].id
  <2>1. i \in Ids /\ ~Has(heap, i)
    BY <1>1, <1>3, <1>7 DEF Begin, PlacesInv, OnePlace
  <2>2. heap' = heap /\ scheduler' = scheduler /\ worker' = worker /\ waitingId' = waitingId
    BY <1>7 DEF Begin, workerVars
  <2>3. \A j \in Ids \ {i} : states'[j] = states[j]
    BY <1>1, <1>7 DEF Begin, Erase, TypeOK
  <2> HIDE DEF i
  <2> QED
    BY <1>4, <2>1, <2>2, <2>3
<1>8. CASE End(p)
  <2> DEFINE i == shot[p].id
  <2>1. i \in Ids /\ ~Has(heap, i)
    BY <1>1, <1>3, <1>8 DEF End, PlacesInv, OnePlace
  <2>2. scheduler' = scheduler /\ worker' = worker /\ waitingId' = waitingId
    BY <1>8 DEF End, workerVars
  <2>3. CASE heap' = heap /\ Erase({i})
    <3>1. \A j \in Ids \ {i} : states'[j] = states[j]
      BY <2>3 DEF Erase
    <3> HIDE DEF i
    <3> QED
      BY <1>4, <2>1, <2>2, <2>3, <3>1
  <2>4. CASE /\ states' = [states EXCEPT ![i] = "Pending"]
             /\ heap' = Push(heap, [id |-> i, left |-> interval[i]])
             /\ PoolGoto(p, IF Earliest(heap, interval[i]) THEN "notify" ELSE "destroy")
    <3> DEFINE e == [id |-> i, left |-> interval[i]]
    <3>0. ~Earliest(heap, interval[i])
      BY <1>2, <2>4 DEF PoolGoto
    <3>1. interval[i] \in 0 .. MaxDelay
      BY <1>1, <2>1 DEF TypeOK
    <3>2. e \in Entries /\ e.id = i /\ e.left = interval[i]
      BY <2>1, <3>1 DEF Entries
    <3> HIDE DEF e, i
    <3>3. heap' = Push(heap, e)
      BY <2>4 DEF e
    <3> QED
      BY <2>1, <2>2, <2>4, <3>0, <3>2, <3>3, LatePush
  <2> QED
    BY <1>8, <2>3, <2>4 DEF End
<1> QED
  BY <1>5, <1>6, <1>7, <1>8 DEF PoolStep

\* Time passes for every entry of the heap alike.
LEMMA TickKeepsTime ==
    ASSUME TimerInv, OnTime, Tick
    PROVE  OnTime'
<1>1. heap \in Seq(Entries) /\ Sorted(heap)
  BY DEF TimerInv, ControlInv, TypeOK, Entries, PlacesInv, ListsDistinct
<1>2. /\ heap' \in Seq(Entries) /\ Len(heap') = Len(heap)
      /\ \A k \in 1 .. Len(heap) : heap'[k].id = heap[k].id
      /\ \A j, k \in 1 .. Len(heap) : heap[j].left = heap[k].left => heap'[j].left = heap'[k].left
  BY <1>1, TickEffect
<1>3. /\ DOMAIN heap = 1 .. Len(heap) /\ DOMAIN heap' = 1 .. Len(heap) /\ Len(heap) \in Nat
  BY <1>1, <1>2, LenProperties
<1>4. scheduler' = scheduler /\ worker' = worker /\ waitingId' = waitingId /\ states' = states
  BY DEF Tick, workerVars
<1>5. CASE worker = "waitTop"
  <2>1. PICK k \in DOMAIN heap : /\ heap[k].id = waitingId
                                 /\ heap[k].left = heap[1].left
                                 /\ k = 1 => states[waitingId] = "Pending"
    BY <1>5 DEF OnTime
  <2>2. k \in 1 .. Len(heap) /\ 1 \in 1 .. Len(heap)
    BY <1>3, SMT
  <2>3. k \in DOMAIN heap' /\ heap'[k].id = waitingId' /\ heap'[k].left = heap'[1].left
    BY <1>2, <1>3, <1>4, <2>1, <2>2
  <2> QED
    BY <1>4, <1>5, <2>1, <2>3 DEF OnTime, Running
<1>6. CASE worker # "waitTop"
  <2>1. worker = "waitEmpty" => FALSE
    BY DEF OnTime, Tick
  <2> QED
    BY <1>4, <1>6, <2>1 DEF OnTime, Running
<1> QED
  BY <1>5, <1>6

\* No wakeup is lost.
LEMMA SleepKept ==
    ASSUME TimerInv, [Next]_vars
    PROVE  SleepsOnTheRightDeadline'
<1> SUFFICES ASSUME Asleep', ~NotifyPending' PROVE OnTime'
  BY DEF SleepsOnTheRightDeadline, Asleep, OnTime
<1>1. ~NotifyPending
  BY NotifyStays
<1>2. Asleep => OnTime
  BY <1>1 DEF TimerInv, ControlInv, SleepsOnTheRightDeadline, Asleep, OnTime
<1>3. CASE WorkerStep
  <2>1. CASE EnterLoop /\ scheduler' = scheduler
    BY <2>1, EntersOnTime
  <2>2. CASE ~(EnterLoop /\ scheduler' = scheduler)
    BY <1>3, <2>2 DEF WorkerStep, Wake, Expire, Expired, Collect, Dispatch, Post, Rejected, Release,
                      FinishNotify, Asleep
  <2> QED
    BY <2>1, <2>2
<1>4. CASE ~WorkerStep
  <2>1. Asleep
    <3>1. ASSUME WakeWorker PROVE Asleep
      BY <3>1 DEF WakeWorker, Asleep
    <3>2. ASSUME NEW t \in Threads, Call(t) \/ Continue(t) PROVE Asleep
      BY <3>1, <3>2 DEF Call, Continue, Start, ScheduleAfter, ScheduleEvery, Schedule, Cancel,
              CallRequestStop, Stop, RequestStop, Wait, Notify, Join, Drain, workerVars, Asleep
    <3>3. ASSUME NEW p \in PoolThreads, PoolStep(p) PROVE Asleep
      BY <3>1, <3>3 DEF PoolStep, Take, Begin, End, NotifyPush, Destroy, PoolNotify, workerVars, Asleep
    <3>4. ASSUME Tick \/ SpuriousWakeup \/ UNCHANGED vars PROVE Asleep
      BY <3>1, <3>4 DEF Tick, SpuriousWakeup, vars, workerVars, Asleep
    <3> QED
      BY <1>4, <3>2, <3>3, <3>4 DEF Next
  <2>2. OnTime
    BY <1>2, <2>1
  <2>3. ASSUME SpuriousWakeup PROVE OnTime'
    <3>1. UNCHANGED <<worker, waitingId, heap, states, scheduler>>
      BY <2>3 DEF SpuriousWakeup, WakeWorker, Asleep, sharedVars
    <3> QED
      BY <2>2, <3>1, StillOnTime
  <2>4. ASSUME UNCHANGED vars PROVE OnTime'
    BY <2>2, <2>4, StillOnTime DEF vars
  <2> QED
    BY <1>4, <2>1, <2>2, <2>3, <2>4, CallKeepsTime, PoolKeepsTime, TickKeepsTime DEF Next
<1> QED
  BY <1>3, <1>4

-----------------------------------------------------------------------------
(***************************************************************************)
(* The theorems.                                                           *)
(***************************************************************************)

\* A new scheduler has nothing.
LEMMA InitTimerInv == Init => TimerInv
<1> SUFFICES ASSUME Init PROVE TimerInv
  OBVIOUS
<1>1. TypeOK
  BY ThreadAssumption, BoundAssumption, SMT DEF Init, TypeOK, NoShot
<1>2. Wrappers /\ Dispatching /\ Phases
  BY DEF Init, Wrappers, Dispatching, Phases
<1>3. StoppedIsQuiet /\ SleepsOnTheRightDeadline
  BY DEF Init, StoppedIsQuiet, SleepsOnTheRightDeadline
<1>4. heap = << >> /\ queue = << >> /\ ready = << >> /\ Len(heap) = 0 /\ Len(queue) = 0 /\ Len(ready) = 0
  BY EmptySeq DEF Init
<1>5. ListsDistinct
  <2>1. Sorted(heap) /\ Distinct(heap) /\ Distinct(queue)
    BY <1>4, SMT DEF Sorted, Distinct
  <2>2. \A j, k \in 1 .. Len(ready) : ready[j] = ready[k] => j = k
    BY <1>4, SMT
  <2>3. \A p \in PoolThreads : ~Busy(p)
    BY DEF Init, Busy
  <2> QED
    BY <2>1, <2>2, <2>3 DEF ListsDistinct
<1>6. ASSUME NEW i \in Ids PROVE OnePlace(i) /\ Recorded(i)
  <2>1. ~Has(heap, i) /\ ~Has(queue, i) /\ ~IsReady(i) /\ ~IsAt(i, "begin") /\ ~IsAt(i, "callback")
    BY <1>4, EmptyHasNone DEF Init
  <2>2. states[i] = "none"
    BY DEF Init
  <2> QED
    BY <2>1, <2>2 DEF OnePlace, Recorded, Placed
<1>7. Flight
  <2>1. Wrapping = {} /\ Held = 0
    BY DEF Init, Wrapping, Held
  <2>2. Cardinality(Wrapping) = 0
    BY <2>1, FS_EmptySet
  <2> QED
    BY <1>4, <2>1, <2>2 DEF Init, Flight
<1>8. Sharing
  <2>1. /\ worker = "none" /\ holds = "none"
        /\ \A p \in PoolThreads : ~shot[p].shared
    BY DEF Init, NoShot
  <2>2. 1 .. Len(queue) = {}
    BY <1>4, SMT
  <2> QED
    BY <2>1, <2>2 DEF Sharing
<1> QED
  BY <1>1, <1>2, <1>3, <1>5, <1>6, <1>7, <1>8 DEF TimerInv, ControlInv, PlacesInv, FlightInv

\* Each step keeps it.
LEMMA NextTimerInv == TimerInv /\ [Next]_vars => TimerInv'
BY TypesKept, WrappersKept, DispatchingKept, PhasesKept, StoppedKept, SleepKept, PlacesKept, FlightKept
   DEF TimerInv, ControlInv

\* The heap, the lists, the records, the shots in flight and the threads of
\* the scheduler always agree with each other.
THEOREM TimerInvariant == Spec => []TimerInv
<1>1. Init => TimerInv
  BY InitTimerInv
<1>2. TimerInv /\ [Next]_vars => TimerInv'
  BY NextTimerInv
<1> QED
  BY <1>1, <1>2, PTL DEF Spec

\* Where the model looks for a timer is where the invariant has it, and every
\* part of that has one member at most.
LEMMA HoldersOfOne ==
    ASSUME TimerInv, NEW i \in Ids
    PROVE  /\ InHeap(i) # {} <=> Has(heap, i)
           /\ Queued(i) # {} <=> Has(queue, i)
           /\ Undispatched(i) # {} <=> IsReady(i)
           /\ InPool(i) # {} <=> IsAt(i, "begin") \/ IsAt(i, "callback")
           /\ \A x, y \in Holders(i) : x = y
<1>1. TypeOK /\ ListsDistinct /\ OnePlace(i)
  BY DEF TimerInv, ControlInv, PlacesInv
<1>2. /\ DOMAIN heap = 1 .. Len(heap) /\ DOMAIN queue = 1 .. Len(queue)
      /\ DOMAIN ready = 1 .. Len(ready)
  BY <1>1, LenProperties DEF TypeOK
<1>3. InHeap(i) # {} <=> Has(heap, i)
  BY <1>2 DEF InHeap, Has
<1>4. Queued(i) # {} <=> Has(queue, i)
  BY <1>2 DEF Queued, Has
<1>5. Undispatched(i) # {} <=> IsReady(i)
  BY <1>2 DEF Undispatched, IsReady
<1>6. InPool(i) # {} <=> IsAt(i, "begin") \/ IsAt(i, "callback")
  BY DEF InPool, IsAt
<1>7. /\ \A x, y \in InHeap(i) : x = y
      /\ \A x, y \in Queued(i) : x = y
      /\ \A x, y \in Undispatched(i) : x = y
      /\ \A x, y \in InPool(i) : x = y
  <2>1. \A x, y \in InHeap(i) : x = y
    BY <1>1, <1>2 DEF InHeap, ListsDistinct, Distinct
  <2>2. \A x, y \in Queued(i) : x = y
    BY <1>1, <1>2 DEF Queued, ListsDistinct, Distinct
  <2>3. \A x, y \in Undispatched(i) : x = y
    BY <1>1, <1>2 DEF Undispatched, ListsDistinct
  <2>4. \A x, y \in InPool(i) : x = y
    BY <1>1 DEF InPool, ListsDistinct, Busy
  <2> QED
    BY <2>1, <2>2, <2>3, <2>4
<1>8. /\ InHeap(i) # {} => Queued(i) = {} /\ Undispatched(i) = {} /\ InPool(i) = {}
      /\ Undispatched(i) # {} => Queued(i) = {} /\ InPool(i) = {}
      /\ Queued(i) # {} => InPool(i) = {}
  BY <1>1, <1>3, <1>4, <1>5, <1>6 DEF OnePlace
<1>9. \A x, y \in Holders(i) : x = y
  BY <1>7, <1>8 DEF Holders
<1> QED
  BY <1>3, <1>4, <1>5, <1>6, <1>9

\* At every moment the heap, the ready list, the executor's queue and its
\* threads have a timer at most once between them, what a record says agrees
\* with where its timer is, and no record is left over.
THEOREM TimerOwnedOnce == Spec => []EveryTimerOwnedOnce
<1>1. TimerInv => EveryTimerOwnedOnce
  <2> SUFFICES ASSUME TimerInv PROVE EveryTimerOwnedOnce
    OBVIOUS
  <2>1. TypeOK
    BY DEF TimerInv, ControlInv
  <2>2. ASSUME NEW i \in Ids
        PROVE  /\ Cardinality(Holders(i)) <= 1
               /\ InHeap(i) # {} => states[i] \in {"Pending", "Cancelled"}
               /\ states[i] = "Pending" => InHeap(i) # {}
               /\ states[i] = "Executing" => \E p \in InPool(i) : pool[p] = "callback"
               /\ states[i] # "none" => Holders(i) # {} \/ i \in stranded
    <3>1. /\ InHeap(i) # {} <=> Has(heap, i)
          /\ Queued(i) # {} <=> Has(queue, i)
          /\ Undispatched(i) # {} <=> IsReady(i)
          /\ InPool(i) # {} <=> IsAt(i, "begin") \/ IsAt(i, "callback")
          /\ \A x, y \in Holders(i) : x = y
      BY HoldersOfOne
    <3>2. Recorded(i)
      BY DEF TimerInv, PlacesInv
    <3>3. Cardinality(Holders(i)) <= 1
      <4>1. CASE Holders(i) = {}
        BY <4>1, FS_EmptySet, SMT
      <4>2. ASSUME NEW x \in Holders(i) PROVE Cardinality(Holders(i)) <= 1
        <5>1. Holders(i) = {x}
          BY <3>1, <4>2
        <5>2. Cardinality({x}) = 1
          BY FS_Singleton
        <5> QED
          BY <5>1, <5>2, SMT
      <4> QED
        BY <4>1, <4>2
    <3>4. InHeap(i) # {} => states[i] \in {"Pending", "Cancelled"}
      BY <3>1, <3>2 DEF Recorded
    <3>5. states[i] = "Pending" => InHeap(i) # {}
      BY <3>1, <3>2 DEF Recorded
    <3>6. states[i] = "Executing" => \E p \in InPool(i) : pool[p] = "callback"
      BY <3>2 DEF Recorded, IsAt, InPool
    <3>7. states[i] # "none" => Holders(i) # {} \/ i \in stranded
      BY <3>1, <3>2 DEF Recorded, Placed, Holders
    <3> QED
      BY <3>3, <3>4, <3>5, <3>6, <3>7
  <2> QED
    BY <2>1, <2>2 DEF EveryTimerOwnedOnce
<1> QED
  BY <1>1, TimerInvariant, PTL

\* Once the scheduler is stopped its thread has ended and nothing of it is
\* recorded, queued or running.
THEOREM StopLeavesNothing == Spec => []StoppedIsQuiet
<1>1. TimerInv => StoppedIsQuiet
  BY DEF TimerInv, ControlInv
<1> QED
  BY <1>1, TimerInvariant, PTL

\* A worker that sleeps, without a notification on its way, sleeps until the
\* earliest deadline of a running scheduler.
THEOREM NoLostTimerWakeup == Spec => []SleepsOnTheRightDeadline
<1>1. TimerInv => SleepsOnTheRightDeadline
  BY DEF TimerInv, ControlInv
<1> QED
  BY <1>1, TimerInvariant, PTL

-----------------------------------------------------------------------------
(***************************************************************************)
(* The scheduler is a timer service.                                       *)
(***************************************************************************)

\* What the service's variable says of a timer.
LifeIs(i) ==
    /\ i >= nextId => Life(i) = "unborn"
    /\ i < nextId =>
          /\ states[i] \in {"Pending", "Submitted"} => Life(i) = "armed"
          /\ states[i] = "Executing" => Life(i) = "firing"
          /\ states[i] = "Cancelled" /\ IsAt(i, "callback") => Life(i) = "lastFiring"
          /\ states[i] = "Cancelled" /\ ~IsAt(i, "callback") => Life(i) = "dead"
          /\ states[i] = "none" => Life(i) = "dead"

\* It says so before and after a step.
LEMMA LivesRead ==
    ASSUME TypeOK, TypeOK', NEW i \in Ids
    PROVE  LifeIs(i) /\ LifeIs(i)' /\ i \in Nat /\ nextId \in Nat /\ nextId' \in Nat
<1>1. i \in Nat /\ nextId \in Nat /\ nextId' \in Nat
  BY BoundAssumption, SMT DEF Ids, TypeOK
<1>2. ASSUME i >= nextId PROVE Life(i) = "unborn"
  BY <1>1, <1>2, SMT DEF Life
<1>3. ASSUME i < nextId PROVE ~(i >= nextId)
  BY <1>1, <1>3, SMT
<1>4. LifeIs(i)
  BY <1>2, <1>3, Zenon DEF LifeIs, Life, InPool, IsAt
<1>5. ASSUME i >= nextId' PROVE Life(i)' = "unborn"
  BY <1>1, <1>5, SMT DEF Life
<1>6. ASSUME i < nextId' PROVE ~(i >= nextId')
  BY <1>1, <1>6, SMT
<1>7. LifeIs(i)'
  BY <1>5, <1>6, Zenon DEF LifeIs, Life, InPool, IsAt
<1> QED
  BY <1>1, <1>4, <1>7

\* A timer's life stays what it was while its record does and its callback
\* neither begins nor ends.
LEMMA LifeStays ==
    ASSUME NEW i, states'[i] = states[i], nextId' = nextId, IsAt(i, "callback")' <=> IsAt(i, "callback")
    PROVE  Life(i)' = Life(i)
<1>1. (\E p \in InPool(i)' : pool'[p] = "callback") <=> (\E p \in InPool(i) : pool[p] = "callback")
  BY DEF IsAt, InPool
<1> QED
  BY <1>1 DEF Life

\* A step that changes no life.
LEMMA NobodyMoves ==
    ASSUME scheduler' = scheduler, \A i \in Ids : Life(i)' = Life(i)
    PROVE  UNCHANGED Service!timerVars
BY DEF Service!timerVars, Phase

\* A step that changes one.
LEMMA OneMoves ==
    ASSUME scheduler' = scheduler, NEW i \in Ids, NEW from, NEW to, Life(i) = from, Life(i)' = to,
           \A j \in Ids \ {i} : Life(j)' = Life(j)
    PROVE  Service!Becomes(i, from, to)
<1>1. Phase' = Phase
  BY DEF Phase
<1> QED
  BY <1>1 DEF Service!Becomes

\* A step of the interface arms a new timer, takes one back, or opens or
\* closes the service.
LEMMA CallServes ==
    ASSUME TimerInv, TypeOK', NEW t \in Threads, Call(t) \/ Continue(t)
    PROVE  [Service!TimerNext]_Service!timerVars
<1>1. TypeOK /\ Phases /\ PlacesInv
  BY DEF TimerInv, ControlInv
<1>2. \A i \in Ids : LifeIs(i) /\ LifeIs(i)' /\ i \in Nat /\ nextId \in Nat /\ nextId' \in Nat
  BY <1>1, LivesRead
<1>3. pool' = pool /\ shot' = shot
  BY DEF Call, Continue, Start, ScheduleAfter, ScheduleEvery, Schedule, Cancel, CallRequestStop,
         Stop, RequestStop, Wait, Notify, Join, Drain, poolVars
<1>4. \A i \in Ids : IsAt(i, "callback")' <=> IsAt(i, "callback")
  BY <1>3, PoolStays
<1>5. CASE Start(t)
  <2>1. \A i \in Ids : Life(i)' = Life(i)
    BY <1>4, <1>5, LifeStays DEF Start
  <2>2. Phase = "new" /\ Phase' = "open"
    BY <1>5 DEF Start, Phase
  <2>3. Service!Open
    BY <2>1, <2>2 DEF Service!Open
  <2> QED
    BY <2>3 DEF Service!TimerNext
<1>6. ASSUME NEW d, NEW every, Schedule(t, d, every) PROVE [Service!TimerNext]_Service!timerVars
  <2>1. PICK i \in Ids : i = nextId
    BY <1>6 DEF Schedule
  <2>2. /\ nextId' = i + 1 /\ scheduler' = scheduler /\ scheduler = "Running"
        /\ states' = [states EXCEPT ![i] = "Pending"]
    BY <1>6, <2>1 DEF Schedule, Running
  <2>3. i >= nextId /\ i < nextId' /\ states'[i] = "Pending"
    BY <1>1, <1>2, <2>1, <2>2, SMT DEF TypeOK
  <2>4. Life(i) = "unborn" /\ Life(i)' = "armed"
    BY <1>2, <2>3 DEF LifeIs
  <2>5. ASSUME NEW j \in Ids \ {i} PROVE Life(j)' = Life(j)
    <3>1. j >= nextId <=> j >= nextId'
      BY <1>2, <2>1, <2>2, SMT
    <3>2. j \in Nat /\ nextId \in Nat /\ nextId' \in Nat
      BY <1>2
    <3>3. CASE j >= nextId
      BY <1>2, <3>1, <3>3 DEF LifeIs
    <3>4. CASE j < nextId
      <4>1. j < nextId'
        BY <3>1, <3>2, <3>4, SMT
      <4>2. states'[j] = states[j]
        BY <1>1, <2>2 DEF TypeOK
      <4>3. states[j] \in {"none", "Pending", "Submitted", "Executing", "Cancelled"}
        BY <1>1 DEF TypeOK
      <4>4. LifeIs(j) /\ LifeIs(j)' /\ (IsAt(j, "callback")' <=> IsAt(j, "callback"))
        BY <1>2, <1>4
      <4> QED
        BY <3>4, <4>1, <4>2, <4>3, <4>4 DEF LifeIs
    <3> QED
      BY <3>2, <3>3, <3>4, SMT
  <2>6. Service!Becomes(i, "unborn", "armed")
    BY <2>2, <2>4, <2>5, OneMoves
  <2>7. Service!Arm(i)
    BY <2>2, <2>6 DEF Service!Arm, Phase
  <2> QED
    BY <2>7 DEF Service!TimerNext
<1>7. ASSUME NEW i \in Ids, Cancel(t, i) PROVE [Service!TimerNext]_Service!timerVars
  <2>1. /\ states[i] \in {"Pending", "Submitted", "Executing"}
        /\ states' = [states EXCEPT ![i] = "Cancelled"] /\ nextId' = nextId /\ scheduler' = scheduler
    BY <1>1, <1>7 DEF Cancel, TypeOK
  <2>2. states'[i] = "Cancelled" /\ \A j \in Ids \ {i} : states'[j] = states[j]
    BY <1>1, <2>1 DEF TypeOK
  <2>3. i < nextId
    <3>1. ~(i >= nextId)
      BY <1>1, <2>1 DEF PlacesInv, Recorded
    <3> QED
      BY <1>2, <3>1, SMT
  <2>4. \A j \in Ids \ {i} : Life(j)' = Life(j)
    BY <1>4, <2>1, <2>2, LifeStays
  <2>5. CASE states[i] = "Executing"
    <3>1. IsAt(i, "callback")
      BY <1>1, <2>5 DEF PlacesInv, Recorded
    <3>2. Life(i) = "firing" /\ Life(i)' = "lastFiring"
      BY <1>2, <1>4, <2>1, <2>2, <2>3, <2>5, <3>1 DEF LifeIs
    <3>3. Service!Becomes(i, "firing", "lastFiring")
      BY <2>1, <2>4, <3>2, OneMoves
    <3> QED
      BY <3>3 DEF Service!Cancel, Service!TimerNext
  <2>6. CASE states[i] # "Executing"
    <3>1. ~IsAt(i, "callback")
      BY <1>1, <2>1, <2>6 DEF PlacesInv, Recorded
    <3>2. Life(i) = "armed" /\ Life(i)' = "dead"
      BY <1>2, <1>4, <2>1, <2>2, <2>3, <2>6, <3>1 DEF LifeIs
    <3>3. Service!Becomes(i, "armed", "dead")
      BY <2>1, <2>4, <3>2, OneMoves
    <3> QED
      BY <3>3 DEF Service!Cancel, Service!TimerNext
  <2> QED
    BY <2>5, <2>6
<1>8. ASSUME Phase' = "closed",
             \A i \in Ids : Life(i)' = Life(i) \/ (Life(i) = "armed" /\ Life(i)' = "dead")
      PROVE  [Service!TimerNext]_Service!timerVars
  <2> DEFINE D == {i \in Ids : Life(i)' # Life(i)}
             lives == [i \in Ids |-> Life(i)]
  <2>1. D \in SUBSET {i \in Ids : lives[i] = "armed"}
    BY <1>8
  <2>2. lives' = [i \in Ids |-> IF i \in D THEN "dead" ELSE lives[i]]
    BY <1>8
  <2>3. Service!Shut
    BY <1>8, <2>1, <2>2 DEF Service!Shut
  <2> QED
    BY <2>3 DEF Service!TimerNext
<1>9. ASSUME NEW a, NEW b, RequestStop(t, a, b) PROVE [Service!TimerNext]_Service!timerVars
  <2>1. Phase' = "closed"
    BY <1>1, <1>9 DEF RequestStop, Running, Phase, TypeOK
  <2>2. ASSUME NEW i \in Ids PROVE Life(i)' = Life(i) \/ (Life(i) = "armed" /\ Life(i)' = "dead")
    <3>1. nextId' = nextId /\ (states'[i] = states[i] \/ (states[i] = "Pending" /\ states'[i] = "Cancelled"))
      BY <1>9 DEF RequestStop
    <3>2. CASE states'[i] = states[i]
      BY <1>4, <3>1, <3>2, LifeStays
    <3>3. CASE states[i] = "Pending" /\ states'[i] = "Cancelled"
      <4>1. ~(i >= nextId) /\ ~IsAt(i, "callback")
        BY <1>1, <3>3 DEF PlacesInv, Recorded
      <4>2. i < nextId
        BY <1>2, <4>1, SMT
      <4> QED
        BY <1>2, <1>4, <3>1, <3>3, <4>1, <4>2 DEF LifeIs
    <3> QED
      BY <3>1, <3>2, <3>3
  <2> QED
    BY <1>8, <2>1, <2>2
<1>10. CASE Drain(t)
  <2>1. worker \in {"none", "exited"} /\ nextId' = nextId
    BY <1>1, <1>10 DEF Drain, Phases
  <2>2. CASE inFlight = 0 /\ Erase(Ids) /\ scheduler' = "Stopped"
    <3>1. \A p \in PoolThreads : pool[p] \in {"idle", "finish"}
      BY <2>1, <2>2, DrainedIsEmpty
    <3>2. ASSUME NEW i \in Ids PROVE Life(i)' = Life(i) \/ (Life(i) = "armed" /\ Life(i)' = "dead")
      <4>1. ~IsAt(i, "callback") /\ states'[i] = "none"
        BY <2>2, <3>1 DEF IsAt, Erase
      <4>2. states[i] \in {"none", "Pending", "Submitted", "Cancelled"}
        BY <1>1, <4>1 DEF TypeOK, PlacesInv, Recorded
      <4>3. LifeIs(i) /\ LifeIs(i)'
        BY <1>2
      <4>4. CASE i >= nextId
        BY <2>1, <4>3, <4>4 DEF LifeIs
      <4>5. CASE i < nextId
        BY <2>1, <4>1, <4>2, <4>3, <4>5 DEF LifeIs
      <4> QED
        BY <1>2, <4>4, <4>5, SMT
    <3>3. Phase' = "closed"
      BY <2>2 DEF Phase
    <3> QED
      BY <1>8, <3>2, <3>3
  <2>3. CASE scheduler' = scheduler /\ states' = states
    <3>1. \A i \in Ids : Life(i)' = Life(i)
      BY <1>4, <2>1, <2>3, LifeStays
    <3> QED
      BY <2>3, <3>1, NobodyMoves
  <2> QED
    BY <1>10, <2>2, <2>3 DEF Drain
<1>11. CASE Wait(t) \/ Notify(t) \/ Join(t)
  <2>1. scheduler' = scheduler /\ states' = states /\ nextId' = nextId
    BY <1>11 DEF Wait, Notify, Join, sharedVars
  <2>2. \A i \in Ids : Life(i)' = Life(i)
    BY <1>4, <2>1, LifeStays
  <2> QED
    BY <2>1, <2>2, NobodyMoves
<1> QED
  BY <1>5, <1>6, <1>7, <1>9, <1>10, <1>11 DEF Call, Continue, ScheduleAfter, ScheduleEvery,
                                              CallRequestStop, Stop

\* A record that is erased ends an armed timer, or one that was dead already.
LEMMA ErasedServes ==
    ASSUME TimerInv, TypeOK', NEW i \in Ids, Erase({i}), ~IsAt(i, "callback"),
           states[i] \in {"Submitted", "Cancelled"},
           nextId' = nextId, scheduler' = scheduler,
           \A j \in Ids : IsAt(j, "callback")' <=> IsAt(j, "callback")
    PROVE  [Service!TimerNext]_Service!timerVars
<1>1. LifeIs(i) /\ LifeIs(i)' /\ i \in Nat /\ nextId \in Nat
  BY LivesRead DEF TimerInv, ControlInv
<1>2. states'[i] = "none" /\ \A j \in Ids \ {i} : states'[j] = states[j]
  BY DEF Erase
<1>3. i < nextId
  <2>1. ~(i >= nextId)
    BY DEF TimerInv, PlacesInv, Recorded
  <2> QED
    BY <1>1, <2>1, SMT
<1>4. \A j \in Ids \ {i} : Life(j)' = Life(j)
  BY <1>2, LifeStays
<1>5. Life(i)' = "dead"
  BY <1>1, <1>2, <1>3 DEF LifeIs
<1>6. CASE states[i] = "Submitted"
  <2>1. Life(i) = "armed"
    BY <1>1, <1>3, <1>6 DEF LifeIs
  <2>2. Service!Becomes(i, "armed", "dead")
    BY <1>4, <1>5, <2>1, OneMoves
  <2> QED
    BY <2>2 DEF Service!Lose, Service!TimerNext
<1>7. CASE states[i] = "Cancelled"
  <2>1. Life(i) = "dead"
    BY <1>1, <1>3, <1>7 DEF LifeIs
  <2>2. \A j \in Ids : Life(j)' = Life(j)
    BY <1>4, <1>5, <2>1
  <2> QED
    BY <2>2, NobodyMoves
<1> QED
  BY <1>6, <1>7

\* A step of the worker takes timers from one list to the next, or loses one.
LEMMA WorkerServes ==
    ASSUME TimerInv, TypeOK', WorkerStep
    PROVE  [Service!TimerNext]_Service!timerVars
<1>1. TypeOK /\ PlacesInv
  BY DEF TimerInv, ControlInv
<1>2. \A i \in Ids : LifeIs(i) /\ LifeIs(i)' /\ i \in Nat /\ nextId \in Nat /\ nextId' \in Nat
  BY <1>1, LivesRead
<1>3. nextId' = nextId /\ scheduler' = scheduler
  BY DEF WorkerStep, Wake, Expire, Expired, Dispatch, Post, Rejected, Release, FinishNotify, sharedVars
<1>4. \A i \in Ids : IsAt(i, "callback")' <=> IsAt(i, "callback")
  <2>1. CASE pool' = pool /\ shot' = shot
    BY <2>1, PoolStays
  <2>2. CASE Release
    <3>1. \A q \in PoolThreads : shot'[q].id = shot[q].id
      BY <1>1, <2>2, UnsharedThreads
    <3>2. pool' = pool
      BY <2>2 DEF Release
    <3> QED
      BY <3>1, <3>2 DEF IsAt
  <2>3. ASSUME ~Release PROVE pool' = pool /\ shot' = shot
    BY <2>3 DEF WorkerStep, Wake, Expire, Expired, Dispatch, Post, Rejected, FinishNotify, poolVars
  <2> QED
    BY <2>1, <2>2, <2>3
<1>5. ASSUME \A i \in Ids : Life(i)' = Life(i) PROVE [Service!TimerNext]_Service!timerVars
  BY <1>3, <1>5, NobodyMoves
<1>6. ASSUME states' = states PROVE [Service!TimerNext]_Service!timerVars
  BY <1>3, <1>4, <1>5, <1>6, LifeStays
<1>7. ASSUME NEW i \in Ids, Has(heap, i), states[i] = "Cancelled", states'[i] = "none"
      PROVE  Life(i)' = Life(i)
  <2>1. ~IsAt(i, "callback") /\ ~(i >= nextId)
    BY <1>1, <1>7 DEF PlacesInv, OnePlace, Recorded
  <2>2. i < nextId /\ i < nextId'
    BY <1>2, <1>3, <2>1, SMT
  <2> QED
    BY <1>2, <1>7, <2>1, <2>2 DEF LifeIs
<1>8. heap \in Seq(Entries) /\ Sorted(heap) /\ Distinct(heap)
  BY <1>1 DEF TypeOK, Entries, PlacesInv, ListsDistinct
<1>9. CASE EnterLoop
  <2>1. CASE ~Running
    BY <1>6, <1>9, <2>1 DEF EnterLoop
  <2>2. CASE Running
    <3>1. /\ \A i \in IdsOf(StaleTop) : Has(heap, i) /\ states[i] = "Cancelled"
          /\ states' = [i \in Ids |-> IF i \in IdsOf(StaleTop) THEN "none" ELSE states[i]]
      BY <1>8, <1>9, <2>2, EnterLoopEffect
    <3>2. ASSUME NEW i \in Ids PROVE Life(i)' = Life(i)
      <4>1. CASE i \in IdsOf(StaleTop)
        BY <1>7, <3>1, <4>1
      <4>2. CASE i \notin IdsOf(StaleTop)
        BY <1>3, <1>4, <3>1, <4>2, LifeStays
      <4> QED
        BY <4>1, <4>2
    <3> QED
      BY <1>5, <3>2
  <2> QED
    BY <2>1, <2>2
<1>10. CASE Collect
  <2>1. \A i \in IdsOf(Due) : Has(heap, i)
    BY <1>8, <1>10, CollectEffect
  <2>2. states' = [i \in Ids |-> IF i \notin IdsOf(Due) THEN states[i]
                                 ELSE IF states[i] = "Pending" THEN "Submitted"
                                 ELSE IF states[i] = "Cancelled" THEN "none"
                                 ELSE states[i]]
    BY <1>10 DEF Collect
  <2>3. ASSUME NEW i \in Ids PROVE Life(i)' = Life(i)
    <3>1. CASE states'[i] = states[i]
      BY <1>3, <1>4, <3>1, LifeStays
    <3>2. CASE i \in IdsOf(Due) /\ states[i] = "Pending"
      <4>1. ~(i >= nextId) /\ states'[i] = "Submitted"
        BY <1>1, <2>2, <3>2 DEF PlacesInv, Recorded
      <4>2. i < nextId /\ i < nextId'
        BY <1>2, <1>3, <4>1, SMT
      <4> QED
        BY <1>2, <3>2, <4>1, <4>2 DEF LifeIs
    <3>3. CASE i \in IdsOf(Due) /\ states[i] = "Cancelled"
      BY <1>7, <2>1, <2>2, <3>3
    <3> QED
      BY <2>2, <3>1, <3>2, <3>3
  <2> QED
    BY <1>5, <2>3
<1>11. ASSUME NEW i \in Ids, IsReady(i), Erase({i}) PROVE [Service!TimerNext]_Service!timerVars
  <2>1. ~IsAt(i, "callback") /\ states[i] \in {"Submitted", "Cancelled"}
    BY <1>1, <1>11 DEF PlacesInv, OnePlace, Recorded
  <2> QED
    BY <1>3, <1>4, <1>11, <2>1, ErasedServes
<1>12. CASE Dispatch
  <2>1. CASE states' = states
    BY <1>6, <2>1
  <2>2. CASE /\ ready # << >>
             /\ Erase(IF Running /\ states[Head(ready)] \notin {"none", "Cancelled"}
                        THEN {} ELSE {Head(ready)})
    <3>1. Head(ready) \in Ids /\ IsReady(Head(ready))
      BY <1>1, <1>12, <2>2, HeadIsReady DEF Dispatch
    <3>2. PICK i \in Ids : i = Head(ready)
      BY <3>1
    <3>3. CASE Erase({})
      BY <1>1, <1>6, <3>3 DEF Erase, TypeOK
    <3> QED
      BY <1>11, <2>2, <3>1, <3>2, <3>3
  <2> QED
    BY <1>12, <2>1, <2>2 DEF Dispatch
<1>13. CASE Rejected
  <2>1. ready # << >>
    BY <1>13 DEF Rejected, TimerInv, ControlInv, Dispatching
  <2>2. Head(ready) \in Ids /\ IsReady(Head(ready)) /\ Erase({Head(ready)})
    BY <1>1, <1>13, <2>1, HeadIsReady DEF Rejected
  <2>3. PICK i \in Ids : i = Head(ready)
    BY <2>2
  <2> QED
    BY <1>11, <2>2, <2>3
<1>14. CASE Expire \/ Post \/ Release \/ FinishNotify
  BY <1>6, <1>14 DEF Expire, Post, Release, FinishNotify, sharedVars
<1> QED
  BY <1>9, <1>10, <1>12, <1>13, <1>14 DEF WorkerStep, Wake, Expired

\* A step of the executor fires a timer, arms it again or finishes it.
LEMMA PoolServes ==
    ASSUME TimerInv, TypeOK', NEW p \in PoolThreads, PoolStep(p)
    PROVE  [Service!TimerNext]_Service!timerVars
<1>1. TypeOK /\ PlacesInv /\ ListsDistinct /\ Wrappers
  BY DEF TimerInv, ControlInv, PlacesInv
<1>2. \A i \in Ids : LifeIs(i) /\ LifeIs(i)' /\ i \in Nat /\ nextId \in Nat /\ nextId' \in Nat
  BY <1>1, LivesRead
<1>3. nextId' = nextId /\ scheduler' = scheduler
  BY DEF PoolStep, Take, Begin, End, NotifyPush, Destroy, PoolNotify, sharedVars
<1>4. ASSUME NEW i \in Ids, IsAt(i, "begin") \/ IsAt(i, "callback")
      PROVE  i < nextId /\ i < nextId'
  <2>1. ~(i >= nextId)
    BY <1>1, <1>4 DEF PlacesInv, Recorded, Placed
  <2> QED
    BY <1>2, <1>3, <2>1, SMT
<1>5. ASSUME states' = states,
             \A i \in Ids : IsAt(i, "callback")' <=> IsAt(i, "callback")
      PROVE  [Service!TimerNext]_Service!timerVars
  BY <1>3, <1>5, LifeStays, NobodyMoves
<1>6. CASE Take(p) \/ Destroy(p)
  <2>1. /\ states' = states /\ pool[p] # "callback"
        /\ \E l \in {"begin", "idle", "finish"} : pool' = [pool EXCEPT ![p] = l]
        /\ \E s : shot' = [shot EXCEPT ![p] = s]
    BY <1>6 DEF Take, Destroy, PoolGoto, sharedVars
  <2>2. ASSUME NEW i \in Ids PROVE IsAt(i, "callback")' <=> IsAt(i, "callback")
    BY <1>1, <2>1 DEF IsAt, TypeOK
  <2> QED
    BY <1>5, <2>1, <2>2
<1>7. CASE NotifyPush(p) \/ PoolNotify(p)
  <2>1. /\ states' = states /\ pool[p] # "callback" /\ shot' = shot
        /\ \E l \in {"destroy", "idle"} : pool' = [pool EXCEPT ![p] = l]
    BY <1>7 DEF NotifyPush, PoolNotify, PoolGoto, sharedVars
  <2>2. ASSUME NEW i \in Ids PROVE IsAt(i, "callback")' <=> IsAt(i, "callback")
    BY <1>1, <2>1 DEF IsAt, TypeOK
  <2> QED
    BY <1>5, <2>1, <2>2
<1>8. ASSUME pool[p] \in {"begin", "callback"}
      PROVE  \E i \in Ids : i = shot[p].id /\ IsAt(i, pool[p])
  BY <1>1, <1>8 DEF Wrappers, Shots, IsAt
<1>9. CASE Begin(p)
  <2>1. PICK i \in Ids : i = shot[p].id /\ IsAt(i, "begin")
    BY <1>8, <1>9 DEF Begin
  <2>2. ~IsAt(i, "callback") /\ states[i] \in {"Submitted", "Cancelled"} /\ i < nextId /\ i < nextId'
    BY <1>1, <1>4, <2>1 DEF PlacesInv, OnePlace, Recorded
  <2>3. shot' = shot /\ pool[p] = "begin"
    BY <1>9 DEF Begin
  <2>4. CASE /\ states[i] = "Submitted" /\ states' = [states EXCEPT ![i] = "Executing"]
             /\ pool' = [pool EXCEPT ![p] = "callback"]
    <3>1. \A j \in Ids \ {i} : IsAt(j, "callback")' <=> IsAt(j, "callback")
      BY <1>1, <2>1, <2>3, <2>4 DEF IsAt, TypeOK
    <3>2. states'[i] = "Executing" /\ \A j \in Ids \ {i} : states'[j] = states[j]
      BY <1>1, <2>4 DEF TypeOK
    <3>3. Life(i) = "armed" /\ Life(i)' = "firing"
      BY <1>2, <2>2, <2>4, <3>2 DEF LifeIs
    <3>4. \A j \in Ids \ {i} : Life(j)' = Life(j)
      BY <1>3, <3>1, <3>2, LifeStays
    <3>5. Service!Becomes(i, "armed", "firing")
      BY <1>3, <3>3, <3>4, OneMoves
    <3> QED
      BY <3>5 DEF Service!Fire, Service!TimerNext
  <2>5. CASE /\ states[i] # "Submitted" /\ Erase(IF states[i] = "Cancelled" THEN {i} ELSE {})
             /\ pool' = [pool EXCEPT ![p] = "destroy"]
    <3>1. states[i] = "Cancelled" /\ Erase({i})
      BY <2>2, <2>5
    <3>2. \A j \in Ids : IsAt(j, "callback")' <=> IsAt(j, "callback")
      BY <1>1, <2>3, <2>5 DEF IsAt, TypeOK
    <3> QED
      BY <1>3, <2>2, <3>1, <3>2, ErasedServes
  <2> QED
    BY <1>9, <2>1, <2>4, <2>5 DEF Begin, PoolGoto
<1>10. CASE End(p)
  <2>1. PICK i \in Ids : i = shot[p].id /\ IsAt(i, "callback")
    BY <1>8, <1>10 DEF End
  <2>2. states[i] \in {"Executing", "Cancelled"} /\ i < nextId /\ i < nextId'
    BY <1>1, <1>4, <2>1 DEF PlacesInv, Recorded
  <2>3. /\ shot' = shot /\ pool[p] = "callback"
        /\ \E l \in {"notify", "destroy"} : pool' = [pool EXCEPT ![p] = l]
    BY <1>10 DEF End, PoolGoto
  <2>4. ASSUME NEW j \in Ids \ {i} PROVE IsAt(j, "callback")' <=> IsAt(j, "callback")
    BY <1>1, <2>1, <2>3 DEF IsAt, TypeOK
  <2>5. CASE states[i] = "Executing" /\ Running /\ states' = [states EXCEPT ![i] = "Pending"]
    <3>1. states'[i] = "Pending" /\ \A j \in Ids \ {i} : states'[j] = states[j]
      BY <1>1, <2>5 DEF TypeOK
    <3>2. Life(i) = "firing" /\ Life(i)' = "armed"
      BY <1>2, <2>2, <2>5, <3>1 DEF LifeIs
    <3>3. \A j \in Ids \ {i} : Life(j)' = Life(j)
      BY <1>3, <2>4, <3>1, LifeStays
    <3>4. Service!Becomes(i, "firing", "armed")
      BY <1>3, <3>2, <3>3, OneMoves
    <3>5. Service!Rearm(i)
      BY <2>5, <3>4 DEF Service!Rearm, Phase, Running
    <3> QED
      BY <3>5 DEF Service!TimerNext
  <2>6. CASE Erase({i})
    <3>1. states'[i] = "none" /\ \A j \in Ids \ {i} : states'[j] = states[j]
      BY <2>6 DEF Erase
    <3>2. Life(i) \in {"firing", "lastFiring"} /\ Life(i)' = "dead"
      BY <1>2, <2>1, <2>2, <3>1 DEF LifeIs
    <3>3. \A j \in Ids \ {i} : Life(j)' = Life(j)
      BY <1>3, <2>4, <3>1, LifeStays
    <3>4. Service!Becomes(i, "firing", "dead") \/ Service!Becomes(i, "lastFiring", "dead")
      BY <1>3, <3>2, <3>3, OneMoves
    <3> QED
      BY <3>4 DEF Service!Finish, Service!TimerNext
  <2> QED
    BY <1>10, <2>1, <2>5, <2>6 DEF End
<1> QED
  BY <1>6, <1>7, <1>9, <1>10 DEF PoolStep

\* Every step of the scheduler is one of the service, or none.
LEMMA ServiceStep ==
    TimerInv /\ [Next]_vars => [Service!TimerNext]_Service!timerVars
<1> SUFFICES ASSUME TimerInv, [Next]_vars PROVE [Service!TimerNext]_Service!timerVars
  OBVIOUS
<1>1. TypeOK'
  BY TypesKept
<1>2. CASE Tick \/ SpuriousWakeup \/ UNCHANGED vars
  <2>1. states' = states /\ nextId' = nextId /\ scheduler' = scheduler /\ pool' = pool /\ shot' = shot
    BY <1>2 DEF Tick, SpuriousWakeup, sharedVars, poolVars, vars
  <2>2. ASSUME NEW i \in Ids PROVE Life(i)' = Life(i)
    <3>1. IsAt(i, "callback")' <=> IsAt(i, "callback")
      BY <2>1, PoolStays
    <3> QED
      BY <2>1, <3>1, LifeStays
  <2> QED
    BY <2>1, <2>2, NobodyMoves
<1> QED
  BY <1>1, <1>2, CallServes, WorkerServes, PoolServes DEF Next

\* The scheduler keeps the promises of a timer service: a timer fires once per
\* arming, never twice at a time, and not after it was cancelled.
THEOREM SchedulerImplementsTimers == Spec => ImplementsTimers
<1>1. Init => Service!TimerInit
  <2> SUFFICES ASSUME Init PROVE Service!TimerInit
    OBVIOUS
  <2>1. \A i \in Ids : Life(i) = "unborn"
    BY BoundAssumption, SMT DEF Init, Life, Ids
  <2>2. Phase = "new"
    BY DEF Init, Phase
  <2> QED
    BY <2>1, <2>2 DEF Service!TimerInit
<1>2. TimerInv /\ [Next]_vars => [Service!TimerNext]_Service!timerVars
  BY ServiceStep
<1> QED
  BY <1>1, <1>2, TimerInvariant, PTL DEF Spec, ImplementsTimers, Service!TimerSpec
=============================================================================
