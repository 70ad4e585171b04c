--------------------------- MODULE WorkQueueProofs ---------------------------
(***************************************************************************)
(* Theorems about Util::WorkQueue for every number of producers, workers,  *)
(* tasks and stops: types, the free slots at start(), the wake-up balance, *)
(* and that the pool implements TaskPool.                                  *)
(***************************************************************************)
EXTENDS WorkQueue, FiniteSetTheorems, TLAPS

(* The mutex is held exactly by the thread inside the locked block.        *)
MutexInv ==
    /\ \A p \in Producers : ppc[p] = "push" <=> mutex = p
    /\ \A w \in Workers : wpc[w] = "check" <=> mutex = w

(* What stop, resize and start rely on: a running pool has no thread that  *)
(* left its loop, and the slots beyond m_workThreads have none at all.     *)
SlotsInv ==
    /\ running => opc = "out"
    /\ \A w \in Workers : running => wpc[w] # "exited"
    /\ \A w \in Workers : w \notin threads => wpc[w] = "none"

(* A thread inside queueTask or job() has a task in hand.                  *)
HandInv ==
    /\ \A p \in Producers : ppc[p] \in {"lock", "push"} => ptask[p] \in Tasks
    /\ \A w \in Workers : wpc[w] = "run" => job[w] \in Tasks

(* What every step keeps.                                                  *)
Inv == TypeOK /\ MutexInv /\ SlotsInv /\ HandInv /\ SlotsFree
-----------------------------------------------------------------------------
(* The basic invariant holds in every state: the mutex protects the queue, *)
(* and stop, resize and start leave no joinable thread in a slot.          *)
THEOREM Basic == Spec => []Inv
<1> USE WorkQueueAssumption DEF WorkQueueAssumption
<1>1. Init => Inv
  <2> SUFFICES ASSUME Init PROVE Inv
    OBVIOUS
  <2> USE DEF Init, WorkerPC, ProducerPC, OwnerPC
  <2>1. TypeOK
    <3>1. taskQueue \in Seq(Tasks) /\ stops \in 0..MaxStops
      OBVIOUS
    <3>2. /\ wpc \in [Workers -> WorkerPC]
          /\ job \in [Workers -> Tasks \cup {NoTask}]
          /\ ppc \in [Producers -> ProducerPC]
          /\ ptask \in [Producers -> Tasks \cup {NoTask}]
      OBVIOUS
    <3> QED
      BY <3>1, <3>2 DEF TypeOK
  <2>2. MutexInv
    BY DEF MutexInv
  <2>3. SlotsInv /\ HandInv /\ SlotsFree
    BY DEF SlotsInv, HandInv, SlotsFree
  <2> QED
    BY <2>1, <2>2, <2>3 DEF Inv
<1>2. Inv /\ [Next]_vars => Inv'
  <2> SUFFICES ASSUME Inv, [Next]_vars PROVE Inv'
    OBVIOUS
  <2> USE DEF Inv, TypeOK, MutexInv, SlotsInv, HandInv, SlotsFree, WorkerPC, ProducerPC, OwnerPC,
              poolVars, workVars, prodVars
  <2>1. ASSUME NEW p \in Producers, NEW t \in Tasks, MakeTask(p, t) PROVE Inv'
    BY <2>1 DEF MakeTask
  <2>2. ASSUME NEW p \in Producers, LockQueue(p) PROVE Inv'
    BY <2>2 DEF LockQueue
  <2>3. ASSUME NEW p \in Producers, PushTask(p) PROVE Inv'
    BY <2>3 DEF PushTask
  <2>4. ASSUME NEW p \in Producers, NotifyOne(p) PROVE Inv'
    BY <2>4 DEF NotifyOne, Asleep
  <2>5. ASSUME NEW w \in Workers, TestRunning(w) PROVE Inv'
    BY <2>5 DEF TestRunning
  <2>6. ASSUME NEW w \in Workers, LockWorker(w) PROVE Inv'
    BY <2>6 DEF LockWorker
  <2>7. ASSUME NEW w \in Workers, Sleep(w) PROVE Inv'
    BY <2>7 DEF Sleep
  <2>8. ASSUME NEW w \in Workers, TakeTask(w) PROVE Inv'
    BY <2>8 DEF TakeTask
  <2>9. ASSUME NEW w \in Workers, FinishJob(w) PROVE Inv'
    BY <2>9 DEF FinishJob
  <2>10. ASSUME NEW w \in Workers, SpuriousWake(w) PROVE Inv'
    BY <2>10 DEF SpuriousWake
  <2>11. CASE Start
    BY <2>11 DEF Start, Spawned
  <2>12. CASE BeginStop
    <3>0. stops' \in 0..MaxStops
      <4>1. stops \in 0..MaxStops /\ stops < MaxStops /\ stops' = stops + 1
        BY <2>12 DEF BeginStop
      <4> QED
        BY <4>1
    <3>1. TypeOK'
      BY <2>12, <3>0 DEF BeginStop
    <3>2. MutexInv'
      BY <2>12 DEF BeginStop
    <3>3. SlotsInv' /\ HandInv' /\ SlotsFree'
      BY <2>12 DEF BeginStop
    <3> QED
      BY <3>1, <3>2, <3>3 DEF Inv
  <2>13. ASSUME NEW W \in SUBSET Workers, SetWorkerCount(W) PROVE Inv'
    <3>0. stops' \in 0..MaxStops
      <4>1. stops \in 0..MaxStops /\ stops < MaxStops /\ stops' = stops + 1
        BY <2>13 DEF SetWorkerCount
      <4> QED
        BY <4>1
    <3>1. TypeOK'
      BY <2>13, <3>0 DEF SetWorkerCount
    <3>2. MutexInv'
      BY <2>13 DEF SetWorkerCount
    <3>3. SlotsInv' /\ HandInv' /\ SlotsFree'
      BY <2>13 DEF SetWorkerCount
    <3> QED
      BY <3>1, <3>2, <3>3 DEF Inv
  <2>14. CASE NotifyAll
    <3>1. TypeOK'
      BY <2>14 DEF NotifyAll, Asleep
    <3>2. MutexInv'
      BY <2>14 DEF NotifyAll, Asleep
    <3>3. SlotsInv' /\ HandInv' /\ SlotsFree'
      BY <2>14 DEF NotifyAll, Asleep
    <3> QED
      BY <3>1, <3>2, <3>3 DEF Inv
  <2>15. CASE Join
    BY <2>15 DEF Join
  <2>16. CASE Resize
    BY <2>16 DEF Resize, Spawned
  <2>17. CASE UNCHANGED vars
    BY <2>17 DEF vars
  <2> QED
    BY <2>1, <2>2, <2>3, <2>4, <2>5, <2>6, <2>7, <2>8, <2>9, <2>10, <2>11, <2>12,
       <2>13, <2>14, <2>15, <2>16, <2>17 DEF Next, Producer, Worker, Owner
<1>3. QED
  BY <1>1, <1>2, PTL DEF Spec

(* Every variable keeps its type; in particular only tasks are queued.     *)
THEOREM Types == Spec => []TypeOK
BY Basic, PTL DEF Inv

(* start() and resize() never meet a joinable thread.                      *)
THEOREM FreeSlots == Spec => []SlotsFree
BY Basic, PTL DEF Inv
-----------------------------------------------------------------------------
(* Adding or removing one thread changes the count of a set of threads by  *)
(* one, and a larger set of threads has no smaller count.                  *)
LEMMA Counting ==
    ASSUME NEW U, IsFiniteSet(U), NEW S \in SUBSET U, NEW x \in U
    PROVE  /\ Cardinality(S) \in Nat
           /\ x \notin S => Cardinality(S \cup {x}) = Cardinality(S) + 1
           /\ x \in S => Cardinality(S \ {x}) = Cardinality(S) - 1
<1>1. IsFiniteSet(S)
  BY FS_Subset
<1>2. Cardinality(S) \in Nat
  BY <1>1, FS_CardinalityType
<1>3. ASSUME x \notin S PROVE Cardinality(S \cup {x}) = Cardinality(S) + 1
  BY <1>1, <1>3, FS_AddElement
<1>4. ASSUME x \in S PROVE Cardinality(S \ {x}) = Cardinality(S) - 1
  BY <1>1, <1>4, FS_RemoveElement
<1> QED
  BY <1>2, <1>3, <1>4

(* The pool never lets a worker sleep through a backlog: queueTask's       *)
(* notification after the unlock and the predicate of wait() balance.      *)
THEOREM WakeUps == Spec => []EnoughAwake
<1> USE WorkQueueAssumption DEF WorkQueueAssumption
<1>1. Init => EnoughAwake
  BY DEF Init, EnoughAwake
<1>2. Inv /\ Inv' /\ EnoughAwake /\ [Next]_vars => EnoughAwake'
  <2> SUFFICES ASSUME Inv, Inv', EnoughAwake, [Next]_vars, running',
                      Asleep' # {}
               PROVE  Cardinality(Awake') + Cardinality(Notifying') >= Len(taskQueue')
    BY DEF EnoughAwake, Asleep, Awake, Notifying
  <2> DEFINE A == Cardinality(Awake)
             N == Cardinality(Notifying)
             L == Len(taskQueue)
  <2>a. /\ Awake \in SUBSET Workers /\ Awake' \in SUBSET Workers
        /\ Notifying \in SUBSET Producers /\ Notifying' \in SUBSET Producers
    BY DEF Awake, Notifying
  <2>b. A \in Nat /\ N \in Nat /\ L \in Nat
    <3>1. A \in Nat
      BY <2>a, FS_Subset, FS_CardinalityType
    <3>2. N \in Nat
      BY <2>a, FS_Subset, FS_CardinalityType
    <3>3. L \in Nat
      BY DEF Inv, TypeOK
    <3> QED
      BY <3>1, <3>2, <3>3
  <2> HIDE DEF A, N, L
  <2>c. running /\ Asleep # {} => A + N >= L
    BY DEF EnoughAwake, A, N, L
  <2> USE DEF Inv, TypeOK
  <2>1. ASSUME NEW p \in Producers, NEW t \in Tasks, MakeTask(p, t)
        PROVE  Asleep # {} /\ running /\ Awake' = Awake /\ Notifying' = Notifying /\ taskQueue' = taskQueue
    BY <2>1 DEF MakeTask, Asleep, Awake, Notifying, poolVars, workVars
  <2>2. ASSUME NEW p \in Producers, LockQueue(p)
        PROVE  Asleep # {} /\ running /\ Awake' = Awake /\ Notifying' = Notifying /\ taskQueue' = taskQueue
    BY <2>2 DEF LockQueue, Asleep, Awake, Notifying, poolVars, workVars
  <2>3. ASSUME NEW p \in Producers, PushTask(p)
        PROVE  /\ Asleep # {} /\ running /\ Awake' = Awake
               /\ Cardinality(Notifying') = N + 1 /\ Len(taskQueue') = L + 1
    <3>1. Asleep # {} /\ running /\ Awake' = Awake
      BY <2>3 DEF PushTask, Asleep, Awake, poolVars, workVars
    <3>2. p \notin Notifying /\ Notifying' = Notifying \cup {p}
      BY <2>3 DEF PushTask, Notifying
    <3>3. Cardinality(Notifying') = N + 1
      BY <3>2, <2>a, Counting DEF N
    <3>4. Len(taskQueue') = L + 1
      BY <2>3 DEF PushTask, HandInv, L
    <3> QED
      BY <3>1, <3>3, <3>4
  <2>4. ASSUME NEW p \in Producers, NotifyOne(p)
        PROVE  /\ Asleep # {} /\ running /\ taskQueue' = taskQueue
               /\ Cardinality(Notifying') = N - 1 /\ Cardinality(Awake') = A + 1
    <3>1. running /\ taskQueue' = taskQueue
      BY <2>4 DEF NotifyOne, poolVars
    <3>2. p \in Notifying /\ Notifying' = Notifying \ {p}
      BY <2>4 DEF NotifyOne, Notifying
    <3>3. Cardinality(Notifying') = N - 1
      BY <3>2, <2>a, Counting DEF N
    <3>4. PICK w \in Asleep : wpc' = [wpc EXCEPT ![w] = "woken"]
      BY <2>4 DEF NotifyOne, Asleep
    <3>5. w \in Workers /\ w \notin Awake /\ Awake' = Awake \cup {w}
      BY <3>4 DEF Asleep, Awake
    <3>6. Cardinality(Awake') = A + 1
      BY <3>5, <2>a, Counting DEF A
    <3> QED
      BY <3>1, <3>3, <3>4, <3>6
  <2>5. ASSUME NEW w \in Workers, TestRunning(w)
        PROVE  Asleep # {} /\ running /\ Awake' = Awake /\ Notifying' = Notifying /\ taskQueue' = taskQueue
    BY <2>5 DEF TestRunning, Asleep, Awake, Notifying, poolVars, prodVars
  <2>6. ASSUME NEW w \in Workers, LockWorker(w)
        PROVE  Asleep # {} /\ running /\ Awake' = Awake /\ Notifying' = Notifying /\ taskQueue' = taskQueue
    BY <2>6 DEF LockWorker, Asleep, Awake, Notifying, poolVars, prodVars
  <2>7. ASSUME NEW w \in Workers, Sleep(w)
        PROVE  /\ Len(taskQueue') = 0
               /\ Cardinality(Awake') \in Nat /\ Cardinality(Notifying') \in Nat
    <3>1. Len(taskQueue') = 0
      BY <2>7 DEF Sleep
    <3>2. Cardinality(Awake') \in Nat
      BY <2>a, FS_Subset, FS_CardinalityType
    <3>3. Cardinality(Notifying') \in Nat
      BY <2>a, FS_Subset, FS_CardinalityType
    <3> QED
      BY <3>1, <3>2, <3>3
  <2>8. ASSUME NEW w \in Workers, TakeTask(w)
        PROVE  /\ Asleep # {} /\ running /\ Notifying' = Notifying
               /\ Cardinality(Awake') = A - 1 /\ Len(taskQueue') = L - 1
    <3>1. Asleep # {} /\ running /\ Notifying' = Notifying
      BY <2>8 DEF TakeTask, Asleep, Notifying, poolVars, prodVars
    <3>2. w \in Awake /\ Awake' = Awake \ {w}
      BY <2>8 DEF TakeTask, Awake
    <3>3. Cardinality(Awake') = A - 1
      BY <3>2, <2>a, Counting DEF A
    <3>4. Len(taskQueue') = L - 1
      BY <2>8 DEF TakeTask, L
    <3> QED
      BY <3>1, <3>3, <3>4
  <2>9. ASSUME NEW w \in Workers, wpc[w] \in {"run", "asleep"},
               wpc'[w] \in {"test", "woken"},
               \A v \in Workers : v # w => wpc'[v] = wpc[v],
               running' = running, taskQueue' = taskQueue, Notifying' = Notifying
        PROVE  /\ Asleep # {} /\ running /\ Notifying' = Notifying /\ taskQueue' = taskQueue
               /\ Cardinality(Awake') = A + 1
    <3>1. Asleep # {} /\ running
      BY <2>9 DEF Asleep
    <3>2. w \notin Awake /\ Awake' = Awake \cup {w}
      BY <2>9 DEF Awake
    <3>3. Cardinality(Awake') = A + 1
      BY <3>2, <2>a, Counting DEF A
    <3> QED
      BY <2>9, <3>1, <3>3
  <2>10. ASSUME NEW w \in Workers, FinishJob(w) \/ SpuriousWake(w)
         PROVE  /\ Asleep # {} /\ running /\ Notifying' = Notifying /\ taskQueue' = taskQueue
                /\ Cardinality(Awake') = A + 1
    <3>1. /\ wpc[w] \in {"run", "asleep"} /\ wpc'[w] \in {"test", "woken"}
          /\ \A v \in Workers : v # w => wpc'[v] = wpc[v]
      BY <2>10 DEF FinishJob, SpuriousWake
    <3>2. running' = running /\ taskQueue' = taskQueue /\ Notifying' = Notifying
      BY <2>10 DEF FinishJob, SpuriousWake, Notifying, poolVars, prodVars
    <3> QED
      BY <2>9, <3>1, <3>2
  <2>11. CASE Start
    BY <2>11 DEF Start, Spawned, Asleep
  <2>12. CASE BeginStop
    BY <2>12 DEF BeginStop
  <2>13. ASSUME NEW W \in SUBSET Workers, SetWorkerCount(W) PROVE FALSE
    BY <2>13 DEF SetWorkerCount, workVars, SlotsFree, Asleep
  <2>14. CASE NotifyAll
    BY <2>14 DEF NotifyAll, SlotsInv
  <2>15. CASE Join
    BY <2>15 DEF Join, SlotsInv
  <2>16. CASE Resize
    BY <2>16 DEF Resize, Spawned, Asleep
  <2>17. CASE UNCHANGED vars
    BY <2>17, <2>b, <2>c DEF vars, Asleep, Awake, Notifying, A, N, L
  <2>18. CASE \/ \E p \in Producers : Producer(p)
              \/ \E w \in Workers : Worker(w) \/ SpuriousWake(w)
    BY <2>b, <2>c, <2>1, <2>2, <2>3, <2>4, <2>5, <2>6, <2>7, <2>8, <2>10, <2>18
       DEF Producer, Worker, A, N, L
  <2> QED
    BY <2>11, <2>12, <2>13, <2>14, <2>15, <2>16, <2>17, <2>18 DEF Next, Owner
<1>3. QED
  BY <1>1, <1>2, Basic, PTL DEF Spec
-----------------------------------------------------------------------------
(* Every task made so far is in one place only: in the hand of the         *)
(* producer that queues it, once in m_taskQueue, in one running worker, or *)
(* behind a ready future.                                                  *)
InHand == {ptask[p] : p \in {q \in Producers : ppc[q] \in {"lock", "push"}}}

(* The tasks that are being run.                                           *)
Executing == {job[w] : w \in Busy}

(* No task is at two of those places, or at one of them twice.             *)
OnePlace ==
    /\ InHand \cup Queued \cup Executing \cup ready \subseteq made
    /\ InHand \cap (Queued \cup Executing \cup ready) = {}
    /\ Queued \cap (Executing \cup ready) = {}
    /\ Executing \cap ready = {}
    /\ \A p, q \in Producers :
          (ppc[p] \in {"lock", "push"} /\ ppc[q] \in {"lock", "push"} /\ ptask[p] = ptask[q]) => p = q
    /\ \A v, w \in Busy : job[v] = job[w] => v = w
    /\ \A i, j \in 1..Len(taskQueue) : taskQueue[i] = taskQueue[j] => i = j

(* What Append and Tail do to a sequence without repetitions.              *)
LEMMA AppendFresh ==
    ASSUME NEW T, NEW s \in Seq(T), NEW e \in T,
           \A i, j \in 1..Len(s) : s[i] = s[j] => i = j,
           \A i \in DOMAIN s : s[i] # e
    PROVE  /\ {Append(s, e)[i] : i \in DOMAIN Append(s, e)} = {s[i] : i \in DOMAIN s} \cup {e}
           /\ \A i, j \in 1..Len(Append(s, e)) : Append(s, e)[i] = Append(s, e)[j] => i = j
<1>1. /\ Append(s, e) \in Seq(T)
      /\ Len(Append(s, e)) = Len(s) + 1
      /\ \A i \in 1..Len(s) : Append(s, e)[i] = s[i]
      /\ Append(s, e)[Len(s) + 1] = e
  OBVIOUS
<1>2. DOMAIN s = 1..Len(s) /\ DOMAIN Append(s, e) = 1..(Len(s) + 1) /\ Len(s) \in Nat
  BY <1>1
<1>3. 1..(Len(s) + 1) = 1..Len(s) \cup {Len(s) + 1}
  BY <1>2
<1>4. {Append(s, e)[i] : i \in DOMAIN Append(s, e)} = {s[i] : i \in DOMAIN s} \cup {e}
  BY <1>1, <1>2, <1>3
<1>5. ASSUME NEW i \in 1..(Len(s) + 1), NEW j \in 1..(Len(s) + 1),
             Append(s, e)[i] = Append(s, e)[j]
      PROVE  i = j
  BY <1>1, <1>2, <1>3, <1>5
<1> QED
  BY <1>1, <1>4, <1>5

(* Tail takes the first element out, which is nowhere else.                *)
LEMMA TailFresh ==
    ASSUME NEW T, NEW s \in Seq(T), s # <<>>,
           \A i, j \in 1..Len(s) : s[i] = s[j] => i = j
    PROVE  /\ {Tail(s)[i] : i \in DOMAIN Tail(s)} = {s[i] : i \in DOMAIN s} \ {Head(s)}
           /\ Head(s) \in {s[i] : i \in DOMAIN s}
           /\ \A i, j \in 1..Len(Tail(s)) : Tail(s)[i] = Tail(s)[j] => i = j
<1>1. /\ Tail(s) \in Seq(T)
      /\ Len(s) \in Nat /\ Len(s) > 0
      /\ Len(Tail(s)) = Len(s) - 1
      /\ Head(s) = s[1]
      /\ \A i \in 1..(Len(s) - 1) : Tail(s)[i] = s[i + 1]
  OBVIOUS
<1>2. DOMAIN s = 1..Len(s) /\ DOMAIN Tail(s) = 1..(Len(s) - 1)
  BY <1>1
<1>3. ASSUME NEW x \in {Tail(s)[i] : i \in DOMAIN Tail(s)}
      PROVE  x \in {s[i] : i \in DOMAIN s} \ {Head(s)}
  <2>1. PICK i \in 1..(Len(s) - 1) : x = s[i + 1]
    BY <1>1, <1>2
  <2>2. i + 1 \in 1..Len(s) /\ 1 \in 1..Len(s) /\ i + 1 # 1
    BY <1>1
  <2> QED
    BY <2>1, <2>2, <1>1, <1>2
<1>4. ASSUME NEW x \in {s[i] : i \in DOMAIN s} \ {Head(s)}
      PROVE  x \in {Tail(s)[i] : i \in DOMAIN Tail(s)}
  <2>1. PICK i \in 1..Len(s) : x = s[i]
    BY <1>2
  <2>2. i # 1
    BY <2>1, <1>1
  <2>3. i - 1 \in 1..(Len(s) - 1) /\ Tail(s)[i - 1] = s[i]
    <3>1. i - 1 \in 1..(Len(s) - 1) /\ (i - 1) + 1 = i
      BY <2>2, <1>1
    <3> QED
      BY <3>1, <1>1
  <2> QED
    BY <2>1, <2>3, <1>2
<1>5. ASSUME NEW i \in 1..(Len(s) - 1), NEW j \in 1..(Len(s) - 1), Tail(s)[i] = Tail(s)[j]
      PROVE  i = j
  <2>1. i + 1 \in 1..Len(s) /\ j + 1 \in 1..Len(s) /\ s[i + 1] = s[j + 1]
    BY <1>1, <1>5
  <2>2. i + 1 = j + 1
    BY <2>1
  <2> QED
    BY <2>2
<1>6. Head(s) \in {s[i] : i \in DOMAIN s}
  BY <1>1, <1>2
<1> QED
  BY <1>1, <1>3, <1>4, <1>5, <1>6
-----------------------------------------------------------------------------
(* How each kind of step moves tasks between those places.                 *)
Still == /\ InHand' = InHand /\ taskQueue' = taskQueue /\ Queued' = Queued
         /\ Executing' = Executing /\ Busy' = Busy
         /\ ready' = ready /\ made' = made
         /\ \A w \in Busy : job'[w] = job[w]

(* Locking and notifying move no task.                                     *)
LEMMA StillProducers ==
    ASSUME Inv, NEW p \in Producers, LockQueue(p) \/ NotifyOne(p)
    PROVE  Still /\ ptask' = ptask /\ \A q \in Producers : ppc'[q] \in {"lock", "push"} <=> ppc[q] \in {"lock", "push"}
<1> USE DEF Inv, TypeOK
<1>1. /\ ptask' = ptask /\ taskQueue' = taskQueue /\ ready' = ready /\ made' = made /\ job' = job
      /\ \A q \in Producers : ppc'[q] \in {"lock", "push"} <=> ppc[q] \in {"lock", "push"}
  BY DEF LockQueue, NotifyOne, poolVars, workVars
<1>2. Busy' = Busy
  BY DEF LockQueue, NotifyOne, workVars, Busy, Asleep
<1>3. InHand' = InHand
  BY <1>1 DEF InHand
<1>4. Queued' = Queued /\ Executing' = Executing
  BY <1>1, <1>2 DEF Queued, Executing
<1> QED
  BY <1>1, <1>2, <1>3, <1>4 DEF Still

(* Nor do the steps of a worker that neither takes nor finishes one.       *)
LEMMA StillWorkers ==
    ASSUME Inv, NEW w \in Workers,
           TestRunning(w) \/ LockWorker(w) \/ Sleep(w) \/ SpuriousWake(w)
    PROVE  Still /\ UNCHANGED <<ppc, ptask>>
<1> USE DEF Inv, TypeOK
<1>1. UNCHANGED <<ppc, ptask, taskQueue, ready, made, job>>
  BY DEF TestRunning, LockWorker, Sleep, SpuriousWake, poolVars, prodVars
<1>2. Busy' = Busy
  BY DEF TestRunning, LockWorker, Sleep, SpuriousWake, Busy
<1>3. InHand' = InHand /\ Queued' = Queued
  BY <1>1 DEF InHand, Queued
<1>4. Executing' = Executing
  BY <1>1, <1>2 DEF Executing
<1> QED
  BY <1>1, <1>2, <1>3, <1>4 DEF Still

(* Nor do start, stop and setWorkerCount.                                  *)
LEMMA StillOwner ==
    ASSUME Inv, Owner \/ UNCHANGED vars
    PROVE  Still /\ UNCHANGED <<ppc, ptask>>
<1> USE DEF Inv, TypeOK
<1>1. UNCHANGED <<ppc, ptask, taskQueue, ready, made, job>>
  BY DEF Owner, Start, BeginStop, SetWorkerCount, NotifyAll, Join, Resize, prodVars, workVars, vars
<1>2. Busy' = Busy
  <2>1. CASE Start
    BY <2>1 DEF Start, Spawned, Busy, SlotsFree
  <2>2. CASE Resize
    BY <2>2 DEF Resize, Spawned, Busy, SlotsFree
  <2>3. CASE Join \/ NotifyAll
    BY <2>3 DEF Join, NotifyAll, Busy, Asleep
  <2>4. CASE BeginStop \/ \E W \in SUBSET Workers : SetWorkerCount(W)
    BY <2>4 DEF BeginStop, SetWorkerCount, Busy, workVars
  <2>5. CASE UNCHANGED vars
    BY <2>5 DEF vars, Busy
  <2> QED
    BY <2>1, <2>2, <2>3, <2>4, <2>5 DEF Owner
<1>3. InHand' = InHand /\ Queued' = Queued
  BY <1>1 DEF InHand, Queued
<1>4. Executing' = Executing
  BY <1>1, <1>2 DEF Executing
<1> QED
  BY <1>1, <1>2, <1>3, <1>4 DEF Still

(* A task that is made is new, and in its producer's hand.                 *)
LEMMA MakeEffect ==
    ASSUME Inv, OnePlace, NEW p \in Producers, NEW t \in Tasks, MakeTask(p, t)
    PROVE  /\ InHand' = InHand \cup {t} /\ made' = made \cup {t} /\ t \notin made
           /\ Queued' = Queued /\ Executing' = Executing /\ Busy' = Busy
           /\ UNCHANGED <<taskQueue, ready, job>>
<1> USE DEF Inv, TypeOK, ProducerPC
<1>1. /\ made' = made \cup {t} /\ t \notin made
      /\ UNCHANGED <<taskQueue, ready, job, wpc>>
  BY DEF MakeTask, workVars, poolVars
<1>2. Queued' = Queued /\ Busy' = Busy
  BY <1>1 DEF Queued, Busy
<1>3. Executing' = Executing
  BY <1>1, <1>2 DEF Executing
<1>4. InHand' = InHand \cup {t}
  BY DEF MakeTask, InHand
<1> QED
  BY <1>1, <1>2, <1>3, <1>4

(* Pushing moves it from the hand to the end of m_taskQueue.               *)
LEMMA PushEffect ==
    ASSUME Inv, OnePlace, NEW p \in Producers, PushTask(p)
    PROVE  /\ InHand' = InHand \ {ptask[p]} /\ ptask[p] \in InHand /\ ptask[p] \in Tasks
           /\ Queued' = Queued \cup {ptask[p]}
           /\ taskQueue' = Append(taskQueue, ptask[p])
           /\ \A i, j \in 1..Len(taskQueue') : taskQueue'[i] = taskQueue'[j] => i = j
           /\ Executing' = Executing /\ Busy' = Busy
           /\ UNCHANGED <<made, ready, job>>
<1> USE DEF Inv, TypeOK, ProducerPC
<1>1. /\ taskQueue' = Append(taskQueue, ptask[p])
      /\ UNCHANGED <<made, ready, job, wpc>>
      /\ ppc[p] = "push" /\ ptask[p] \in Tasks /\ p \in Producers
  BY DEF PushTask, workVars, poolVars, HandInv
<1>2. Busy' = Busy /\ Executing' = Executing
  BY <1>1 DEF Busy, Executing
<1>3. ptask[p] \in InHand
  BY <1>1 DEF InHand
<1>4. InHand' = InHand \ {ptask[p]}
  BY <1>1 DEF PushTask, InHand, OnePlace
<1>5. \A i \in DOMAIN taskQueue : taskQueue[i] # ptask[p]
  BY <1>3 DEF OnePlace, Queued
<1>6. /\ Queued' = Queued \cup {ptask[p]}
      /\ \A i, j \in 1..Len(taskQueue') : taskQueue'[i] = taskQueue'[j] => i = j
  <2>1. PICK s \in Seq(Tasks), e \in Tasks : s = taskQueue /\ e = ptask[p]
    BY <1>1
  <2>2. /\ \A i, j \in 1..Len(s) : s[i] = s[j] => i = j
        /\ \A i \in DOMAIN s : s[i] # e
    BY <1>5, <2>1 DEF OnePlace
  <2>3. /\ {Append(s, e)[i] : i \in DOMAIN Append(s, e)} = {s[i] : i \in DOMAIN s} \cup {e}
        /\ \A i, j \in 1..Len(Append(s, e)) : Append(s, e)[i] = Append(s, e)[j] => i = j
    BY ONLY <2>2, AppendFresh
  <2> QED
    BY ONLY <1>1, <2>1, <2>3 DEF Queued
<1> QED
  BY <1>1, <1>2, <1>3, <1>4, <1>6

(* A worker takes the task at the front.                                   *)
LEMMA TakeEffect ==
    ASSUME Inv, OnePlace, NEW w \in Workers, TakeTask(w)
    PROVE  /\ taskQueue # <<>> /\ taskQueue' = Tail(taskQueue)
           /\ Head(taskQueue) \in Queued
           /\ Queued' = Queued \ {Head(taskQueue)}
           /\ \A i, j \in 1..Len(taskQueue') : taskQueue'[i] = taskQueue'[j] => i = j
           /\ Executing' = Executing \cup {Head(taskQueue)}
           /\ w \notin Busy /\ Busy' = Busy \cup {w}
           /\ job'[w] = Head(taskQueue) /\ \A v \in Busy : job'[v] = job[v]
           /\ UNCHANGED <<made, ready, ppc, ptask>> /\ InHand' = InHand
<1> USE DEF Inv, TypeOK
<1>1. /\ taskQueue # <<>> /\ taskQueue' = Tail(taskQueue)
      /\ UNCHANGED <<made, ready, ppc, ptask>>
  BY DEF TakeTask, poolVars, prodVars
<1>2. InHand' = InHand
  BY <1>1 DEF InHand
<1>3. w \notin Busy /\ Busy' = Busy \cup {w}
  BY DEF TakeTask, Busy
<1>4. job'[w] = Head(taskQueue) /\ \A v \in Busy : job'[v] = job[v]
  BY <1>3 DEF TakeTask, Busy
<1>5. Executing' = Executing \cup {Head(taskQueue)}
  BY <1>3, <1>4 DEF Executing
<1>6. /\ Head(taskQueue) \in Queued
      /\ Queued' = Queued \ {Head(taskQueue)}
      /\ \A i, j \in 1..Len(taskQueue') : taskQueue'[i] = taskQueue'[j] => i = j
  <2>1. taskQueue \in Seq(Tasks) /\ taskQueue # <<>>
    BY <1>1
  <2>2. \A i, j \in 1..Len(taskQueue) : taskQueue[i] = taskQueue[j] => i = j
    BY DEF OnePlace
  <2>3. /\ {Tail(taskQueue)[i] : i \in DOMAIN Tail(taskQueue)}
              = {taskQueue[i] : i \in DOMAIN taskQueue} \ {Head(taskQueue)}
        /\ Head(taskQueue) \in {taskQueue[i] : i \in DOMAIN taskQueue}
        /\ \A i, j \in 1..Len(Tail(taskQueue)) :
              Tail(taskQueue)[i] = Tail(taskQueue)[j] => i = j
    BY ONLY <2>1, <2>2, TailFresh
  <2>4. Head(taskQueue) \in Queued
    BY <2>3 DEF Queued
  <2>5. Queued' = {Tail(taskQueue)[i] : i \in DOMAIN Tail(taskQueue)}
    BY <1>1 DEF Queued
  <2>6. Queued' = Queued \ {Head(taskQueue)}
    BY ONLY <2>3, <2>5 DEF Queued
  <2>7. \A i, j \in 1..Len(taskQueue') : taskQueue'[i] = taskQueue'[j] => i = j
    BY ONLY <2>3, <1>1
  <2> QED
    BY <2>4, <2>6, <2>7
<1> QED
  BY <1>1, <1>2, <1>3, <1>4, <1>5, <1>6

(* When the call returns, the future is ready.                             *)
LEMMA FinishEffect ==
    ASSUME Inv, OnePlace, NEW w \in Workers, FinishJob(w)
    PROVE  /\ job[w] \in Executing /\ job[w] \in Tasks
           /\ Executing' = Executing \ {job[w]} /\ ready' = ready \cup {job[w]}
           /\ Busy' = Busy \ {w} /\ \A v \in Busy' : job'[v] = job[v]
           /\ UNCHANGED <<made, taskQueue, ppc, ptask>>
           /\ Queued' = Queued /\ InHand' = InHand
<1> USE DEF Inv, TypeOK
<1>1. ready' = ready \cup {job[w]} /\ UNCHANGED <<made, taskQueue, ppc, ptask>>
  BY DEF FinishJob, prodVars
<1>2. Queued' = Queued /\ InHand' = InHand
  BY <1>1 DEF Queued, InHand
<1>3. w \in Busy /\ Busy' = Busy \ {w} /\ \A v \in Busy' : job'[v] = job[v]
  BY DEF FinishJob, Busy
<1>4. job[w] \in Executing /\ job[w] \in Tasks
  BY <1>3 DEF Executing, Busy, HandInv
<1>5. Executing' = Executing \ {job[w]}
  BY <1>3 DEF Executing, OnePlace
<1> QED
  BY <1>1, <1>2, <1>3, <1>4, <1>5
-----------------------------------------------------------------------------
(* No task is ever lost, queued twice or run twice: the partition is an    *)
(* invariant.                                                              *)
THEOREM OnlyOnce == Spec => []OnePlace
<1>1. Init => OnePlace
  BY DEF Init, OnePlace, InHand, Queued, Executing, Busy
<1>2. Inv /\ OnePlace /\ [Next]_vars => OnePlace'
  <2> SUFFICES ASSUME Inv, OnePlace, [Next]_vars PROVE OnePlace'
    OBVIOUS
  <2>1. ASSUME NEW p \in Producers, NEW t \in Tasks, MakeTask(p, t) PROVE OnePlace'
    <3>1. t \notin InHand
      BY <2>1, MakeEffect DEF OnePlace
    <3>2. \A q, r \in Producers :
             (ppc'[q] \in {"lock", "push"} /\ ppc'[r] \in {"lock", "push"} /\ ptask'[q] = ptask'[r]) => q = r
      BY <3>1, <2>1 DEF MakeTask, InHand, OnePlace, Inv, TypeOK, ProducerPC
    <3> QED
      BY <2>1, <3>2, MakeEffect DEF OnePlace
  <2>2. ASSUME NEW p \in Producers, LockQueue(p) \/ NotifyOne(p) PROVE OnePlace'
    BY <2>2, StillProducers DEF Still, OnePlace
  <2>3. ASSUME NEW p \in Producers, PushTask(p) PROVE OnePlace'
    <3>1. \A q, r \in Producers :
             (ppc'[q] \in {"lock", "push"} /\ ppc'[r] \in {"lock", "push"} /\ ptask'[q] = ptask'[r]) => q = r
      BY <2>3 DEF PushTask, OnePlace, Inv, TypeOK, ProducerPC
    <3> QED
      BY <2>3, <3>1, PushEffect DEF OnePlace
  <2>4. ASSUME NEW w \in Workers,
               TestRunning(w) \/ LockWorker(w) \/ Sleep(w) \/ SpuriousWake(w)
        PROVE  OnePlace'
    BY <2>4, StillWorkers DEF Still, OnePlace
  <2>5. ASSUME NEW w \in Workers, TakeTask(w) PROVE OnePlace'
    <3>1. \A u, v \in Busy' : job'[u] = job'[v] => u = v
      <4>1. \A v \in Busy : job'[v] \in Executing
        BY <2>5, TakeEffect DEF Executing
      <4>2. \A v \in Busy : job'[v] # job'[w]
        BY <2>5, <4>1, TakeEffect DEF OnePlace
      <4> QED
        BY <2>5, <4>2, TakeEffect DEF OnePlace
    <3> QED
      BY <2>5, <3>1, TakeEffect DEF OnePlace
  <2>6. ASSUME NEW w \in Workers, FinishJob(w) PROVE OnePlace'
    <3>1. \A u, v \in Busy' : job'[u] = job'[v] => u = v
      BY <2>6, FinishEffect DEF OnePlace
    <3> QED
      BY <2>6, <3>1, FinishEffect DEF OnePlace
  <2>7. CASE Owner \/ UNCHANGED vars
    BY <2>7, StillOwner DEF Still, OnePlace
  <2> QED
    BY <2>1, <2>2, <2>3, <2>4, <2>5, <2>6, <2>7 DEF Next, Producer, Worker
<1>3. QED
  BY <1>1, <1>2, Basic, PTL DEF Spec

(* The pool implements its abstract specification: arrival order, each     *)
(* task started once, each future made ready once and never before.        *)
THEOREM Implements == Spec => PoolSpec
<1> USE DEF Pool!vars, Pool!Known
<1>0. Executing = {job[w] : w \in Busy} /\ Executing' = {job'[w] : w \in Busy'}
  BY DEF Executing
<1>1. Init => Pool!Init
  BY DEF Init, Pool!Init, Busy
<1>2. Inv /\ OnePlace /\ [Next]_vars => [Pool!Next]_Pool!vars
  <2> SUFFICES ASSUME Inv, OnePlace, [Next]_vars PROVE [Pool!Next]_Pool!vars
    OBVIOUS
  <2>a. ASSUME Still PROVE UNCHANGED Pool!vars
    BY <2>a, <1>0 DEF Still
  <2>1. ASSUME NEW p \in Producers, NEW t \in Tasks, MakeTask(p, t) PROVE UNCHANGED Pool!vars
    BY <2>1, <1>0, MakeEffect
  <2>2. ASSUME NEW p \in Producers, LockQueue(p) \/ NotifyOne(p) PROVE UNCHANGED Pool!vars
    BY <2>2, <2>a, StillProducers
  <2>3. ASSUME NEW p \in Producers, PushTask(p) PROVE Pool!Submit(ptask[p]) /\ ptask[p] \in Tasks
    <3>1. ptask[p] \notin Queued \cup Executing \cup ready
      BY <2>3, PushEffect DEF OnePlace
    <3> QED
      BY <2>3, <3>1, <1>0, PushEffect DEF Pool!Submit, Queued
  <2>4. ASSUME NEW w \in Workers,
               TestRunning(w) \/ LockWorker(w) \/ Sleep(w) \/ SpuriousWake(w)
        PROVE  UNCHANGED Pool!vars
    BY <2>4, <2>a, StillWorkers
  <2>5. ASSUME NEW w \in Workers, TakeTask(w) PROVE Pool!Start
    BY <2>5, <1>0, TakeEffect DEF Pool!Start
  <2>6. ASSUME NEW w \in Workers, FinishJob(w) PROVE Pool!Next
    <3>1. PICK t \in Tasks : t = job[w]
      BY <2>6, FinishEffect
    <3>2. Pool!Finish(t)
      BY <2>6, <3>1, <1>0, FinishEffect DEF Pool!Finish
    <3> QED
      BY <3>2 DEF Pool!Next
  <2>7. CASE Owner \/ UNCHANGED vars
    BY <2>7, <2>a, StillOwner
  <2> HIDE DEF Pool!vars, Pool!Known
  <2>8. CASE \E p \in Producers : Producer(p)
    BY <2>1, <2>2, <2>3, <2>8 DEF Producer, Pool!Next
  <2>9. CASE \E w \in Workers : Worker(w) \/ SpuriousWake(w)
    <3>1. PICK w \in Workers : Worker(w) \/ SpuriousWake(w)
      BY <2>9
    <3>2. CASE TestRunning(w) \/ LockWorker(w) \/ Sleep(w) \/ SpuriousWake(w)
      BY <3>2, <2>4
    <3>3. CASE TakeTask(w)
      BY <3>3, <2>5 DEF Pool!Next
    <3>4. CASE FinishJob(w)
      BY <3>4, <2>6
    <3> QED
      BY <3>1, <3>2, <3>3, <3>4 DEF Worker
  <2> QED
    BY <2>7, <2>8, <2>9 DEF Next
<1>3. QED
  BY <1>1, <1>2, Basic, OnlyOnce, PTL DEF Spec, PoolSpec, Pool!Spec
=============================================================================
