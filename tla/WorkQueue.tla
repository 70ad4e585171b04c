----------------------------- MODULE WorkQueue -----------------------------
(***************************************************************************)
(* Util::WorkQueue (src/src/Util/WorkQueue.hpp, WorkQueue.cpp): the pool   *)
(* of threads that runs the youtube-dl lookups of the playlists.           *)
(*                                                                         *)
(* Producers are the threads that call queueTask; Workers are the slots of *)
(* m_workThreads; one more thread owns the pool and calls start, stop and  *)
(* setWorkerCount.  m_queueMutex is modelled by its holder, m_queueCV by   *)
(* the workers that are asleep on it; a waiter may wake spuriously.  A     *)
(* step between two lock operations is one action.                         *)
(***************************************************************************)
EXTENDS Sequences, FiniteSets, Integers

CONSTANTS
    Producers,      \* threads that queue tasks
    Workers,        \* the largest set of worker threads the pool may have
    Tasks,          \* the packaged tasks that may be made
    Nobody,         \* holder of a free mutex
    NoTask,         \* the job of a worker that has none
    MaxStops        \* bound: how often the owner calls stop or setWorkerCount

ASSUME WorkQueueAssumption ==
    /\ IsFiniteSet(Producers)
    /\ IsFiniteSet(Workers)
    /\ Producers \cap Workers = {}
    /\ Nobody \notin Producers \cup Workers
    /\ NoTask \notin Tasks
    /\ MaxStops \in Nat

VARIABLES
    running,        \* m_running, read by the workers without the mutex
    taskQueue,      \* m_taskQueue
    mutex,          \* the thread that holds m_queueMutex, or Nobody
    threads,        \* the slots m_workThreads has now
    wpc,            \* where each worker thread is
    job,            \* the task copied out of the queue by each worker
    ppc,            \* where each producer is inside queueTask
    ptask,          \* the task each producer is queueing
    opc,            \* where the owner is
    wanted,         \* the slots setWorkerCount resizes to
    restart,        \* setWorkerCount's local copy of m_running
    made,           \* every packaged_task made so far
    ready,          \* tasks whose future is ready
    stops           \* stops begun so far, up to MaxStops

poolVars == <<running, threads, opc, wanted, restart, stops>>
workVars == <<wpc, job>>
prodVars == <<ppc, ptask, made>>
vars == <<running, taskQueue, mutex, threads, wpc, job, ppc, ptask,
          opc, wanted, restart, made, ready, stops>>

(* "none": no thread in the slot; "test": at while (m_running); "lock":    *)
(* at _lock.lock(); "check": holds the mutex and evaluates the predicate;  *)
(* "asleep": blocked in wait; "woken": left the wait, wants the mutex;     *)
(* "run": inside job(); "exited": returned from _workThread.               *)
WorkerPC == {"none", "test", "lock", "check", "asleep", "woken", "run", "exited"}
ProducerPC == {"out", "lock", "push", "notify"}
OwnerPC == {"out", "notifyAll", "join", "resize"}

Asleep == {w \in Workers : wpc[w] = "asleep"}
Awake  == {w \in Workers : wpc[w] \in {"test", "lock", "check", "woken"}}
Busy   == {w \in Workers : wpc[w] = "run"}
Notifying == {p \in Producers : ppc[p] = "notify"}
Queued == {taskQueue[i] : i \in DOMAIN taskQueue}

Init == /\ running = FALSE
        /\ taskQueue = <<>>
        /\ mutex = Nobody
        /\ threads = Workers
        /\ wpc = [w \in Workers |-> "none"]
        /\ job = [w \in Workers |-> NoTask]
        /\ ppc = [p \in Producers |-> "out"]
        /\ ptask = [p \in Producers |-> NoTask]
        /\ opc = "out"
        /\ wanted = Workers
        /\ restart = FALSE
        /\ made = {}
        /\ ready = {}
        /\ stops = 0
-----------------------------------------------------------------------------
(* queueTask: make the packaged_task and its future ...                    *)
MakeTask(p, t) ==
    /\ ppc[p] = "out"
    /\ t \notin made
    /\ made' = made \cup {t}
    /\ ptask' = [ptask EXCEPT ![p] = t]
    /\ ppc' = [ppc EXCEPT ![p] = "lock"]
    /\ UNCHANGED <<taskQueue, mutex, ready, poolVars, workVars>>

(* ... take the mutex ...                                                  *)
LockQueue(p) ==
    /\ ppc[p] = "lock"
    /\ mutex = Nobody
    /\ mutex' = p
    /\ ppc' = [ppc EXCEPT ![p] = "push"]
    /\ UNCHANGED <<taskQueue, ready, ptask, made, poolVars, workVars>>

(* Mutant: the task is pushed after it was moved from.                     *)
PushTask_MovedFrom(p) ==
    /\ ppc[p] = "push"
    /\ taskQueue' = Append(taskQueue, NoTask)
    /\ mutex' = Nobody
    /\ ptask' = [ptask EXCEPT ![p] = NoTask]
    /\ ppc' = [ppc EXCEPT ![p] = "notify"]
    /\ UNCHANGED <<ready, made, poolVars, workVars>>

(* ... append the task and leave the locked block ...                      *)
PushTask(p) ==
    /\ ppc[p] = "push"
    /\ taskQueue' = Append(taskQueue, ptask[p])
    /\ mutex' = Nobody
    /\ ptask' = [ptask EXCEPT ![p] = NoTask]
    /\ ppc' = [ppc EXCEPT ![p] = "notify"]
    /\ UNCHANGED <<ready, made, poolVars, workVars>>

(* Mutant: notify only when the queue was empty before.                    *)
NotifyOne_WhenFirst(p) ==
    /\ ppc[p] = "notify"
    /\ ppc' = [ppc EXCEPT ![p] = "out"]
    /\ \/ /\ Asleep = {} \/ Len(taskQueue) > 1
          /\ UNCHANGED wpc
       \/ \E w \in Asleep : /\ Len(taskQueue) <= 1
                            /\ wpc' = [wpc EXCEPT ![w] = "woken"]
    /\ UNCHANGED <<taskQueue, mutex, ready, ptask, made, job, poolVars>>

(* Mutant: nobody is notified.                                             *)
NotifyOne_Forgotten(p) ==
    /\ ppc[p] = "notify"
    /\ ppc' = [ppc EXCEPT ![p] = "out"]
    /\ UNCHANGED <<taskQueue, mutex, ready, ptask, made, poolVars, workVars>>

(* ... and notify_one after the unlock, which wakes one sleeper if there   *)
(* is one and is forgotten otherwise.                                      *)
NotifyOne(p) ==
    /\ ppc[p] = "notify"
    /\ ppc' = [ppc EXCEPT ![p] = "out"]
    /\ \/ /\ Asleep = {}
          /\ UNCHANGED wpc
       \/ \E w \in Asleep : wpc' = [wpc EXCEPT ![w] = "woken"]
    /\ UNCHANGED <<taskQueue, mutex, ready, ptask, made, job, poolVars>>
-----------------------------------------------------------------------------
(* _workThread: the loop test, without the mutex.                          *)
TestRunning(w) ==
    /\ wpc[w] = "test"
    /\ wpc' = [wpc EXCEPT ![w] = IF running THEN "lock" ELSE "exited"]
    /\ UNCHANGED <<taskQueue, mutex, ready, job, poolVars, prodVars>>

(* _lock.lock(), or wait() taking the mutex back before it returns to the  *)
(* predicate.                                                              *)
LockWorker(w) ==
    /\ wpc[w] \in {"lock", "woken"}
    /\ mutex = Nobody
    /\ mutex' = w
    /\ wpc' = [wpc EXCEPT ![w] = "check"]
    /\ UNCHANGED <<taskQueue, ready, job, poolVars, prodVars>>

(* The predicate is false: release the mutex and sleep.  It looks at the   *)
(* queue only, so that a stopped pool puts its workers to sleep as well.   *)
Sleep(w) ==
    /\ wpc[w] = "check"
    /\ taskQueue = <<>>
    /\ mutex' = Nobody
    /\ wpc' = [wpc EXCEPT ![w] = "asleep"]
    /\ UNCHANGED <<taskQueue, ready, job, poolVars, prodVars>>

(* Mutant: the front task is copied and left in the queue.                 *)
TakeTask_NoErase(w) ==
    /\ wpc[w] = "check"
    /\ taskQueue # <<>>
    /\ job' = [job EXCEPT ![w] = Head(taskQueue)]
    /\ mutex' = Nobody
    /\ wpc' = [wpc EXCEPT ![w] = "run"]
    /\ UNCHANGED <<taskQueue, ready, poolVars, prodVars>>

(* Mutant: the unlock before job() is missing.                             *)
TakeTask_NoUnlock(w) ==
    /\ wpc[w] = "check"
    /\ taskQueue # <<>>
    /\ job' = [job EXCEPT ![w] = Head(taskQueue)]
    /\ taskQueue' = Tail(taskQueue)
    /\ wpc' = [wpc EXCEPT ![w] = "run"]
    /\ UNCHANGED <<mutex, ready, poolVars, prodVars>>

(* The predicate is true: copy the front task, erase it, unlock.           *)
TakeTask(w) ==
    /\ wpc[w] = "check"
    /\ taskQueue # <<>>
    /\ job' = [job EXCEPT ![w] = Head(taskQueue)]
    /\ taskQueue' = Tail(taskQueue)
    /\ mutex' = Nobody
    /\ wpc' = [wpc EXCEPT ![w] = "run"]
    /\ UNCHANGED <<ready, poolVars, prodVars>>

(* job() returned: the packaged_task made its future ready.                *)
FinishJob(w) ==
    /\ wpc[w] = "run"
    /\ ready' = ready \cup {job[w]}
    /\ job' = [job EXCEPT ![w] = NoTask]
    /\ wpc' = [wpc EXCEPT ![w] = "test"]
    /\ UNCHANGED <<taskQueue, mutex, poolVars, prodVars>>

(* A condition variable may wake a waiter nobody notified.                 *)
SpuriousWake(w) ==
    /\ wpc[w] = "asleep"
    /\ wpc' = [wpc EXCEPT ![w] = "woken"]
    /\ UNCHANGED <<taskQueue, mutex, ready, job, poolVars, prodVars>>
-----------------------------------------------------------------------------
(* A thread for every slot of m_workThreads.                               *)
Spawned(slots) == [w \in Workers |-> IF w \in slots THEN "test" ELSE "none"]

(* start(), which the Playlist constructor calls on a pool that is not     *)
(* running.                                                                *)
Start ==
    /\ opc = "out"
    /\ ~running
    /\ running' = TRUE
    /\ wpc' = Spawned(threads)
    /\ UNCHANGED <<taskQueue, mutex, ready, threads, job, opc, wanted,
                   restart, stops, prodVars>>

(* stop(), from the destructor: clear the flag, with notify_all to come.   *)
BeginStop ==
    /\ opc = "out"
    /\ running
    /\ stops < MaxStops
    /\ stops' = stops + 1
    /\ running' = FALSE
    /\ wanted' = threads
    /\ restart' = FALSE
    /\ opc' = "notifyAll"
    /\ UNCHANGED <<taskQueue, mutex, ready, threads, workVars, prodVars>>

(* setWorkerCount on a running pool: the same stop, then resize and start. *)
(* On a pool that is not running it only resizes.                          *)
SetWorkerCount(W) ==
    /\ opc = "out"
    /\ stops < MaxStops
    /\ stops' = stops + 1
    /\ wanted' = W
    /\ restart' = running
    /\ IF running
       THEN /\ running' = FALSE
            /\ opc' = "notifyAll"
            /\ UNCHANGED threads
       ELSE /\ threads' = W
            /\ UNCHANGED <<running, opc>>
    /\ UNCHANGED <<taskQueue, mutex, ready, workVars, prodVars>>

NotifyAll ==
    /\ opc = "notifyAll"
    /\ opc' = "join"
    /\ wpc' = [w \in Workers |-> IF w \in Asleep THEN "woken" ELSE wpc[w]]
    /\ UNCHANGED <<running, taskQueue, mutex, ready, threads, job, wanted,
                   restart, stops, prodVars>>

(* Mutant: stop() returns without joining.                                 *)
Join_Skipped ==
    /\ opc = "join"
    /\ opc' = IF restart THEN "resize" ELSE "out"
    /\ wpc' = [w \in Workers |-> IF wpc[w] = "exited" THEN "none" ELSE wpc[w]]
    /\ UNCHANGED <<running, taskQueue, mutex, ready, threads, job, wanted,
                   restart, stops, prodVars>>

(* Every thread was joined and stop() returns.                             *)
Join ==
    /\ opc = "join"
    /\ \A w \in threads : wpc[w] = "exited"
    /\ opc' = IF restart THEN "resize" ELSE "out"
    /\ wpc' = [w \in Workers |-> IF wpc[w] = "exited" THEN "none" ELSE wpc[w]]
    /\ UNCHANGED <<running, taskQueue, mutex, ready, threads, job, wanted,
                   restart, stops, prodVars>>

(* setWorkerCount goes on: m_workThreads.resize, then start().             *)
Resize ==
    /\ opc = "resize"
    /\ opc' = "out"
    /\ threads' = wanted
    /\ running' = TRUE
    /\ wpc' = Spawned(wanted)
    /\ UNCHANGED <<taskQueue, mutex, ready, job, wanted, restart, stops, prodVars>>
-----------------------------------------------------------------------------
Producer(p) == \/ \E t \in Tasks : MakeTask(p, t)
               \/ LockQueue(p)
               \/ PushTask(p)
               \/ NotifyOne(p)

Worker(w) == \/ TestRunning(w)
             \/ LockWorker(w)
             \/ Sleep(w)
             \/ TakeTask(w)
             \/ FinishJob(w)

Owner == \/ Start
         \/ BeginStop
         \/ \E W \in SUBSET Workers : SetWorkerCount(W)
         \/ NotifyAll
         \/ Join
         \/ Resize

Next == \/ \E p \in Producers : Producer(p)
        \/ \E w \in Workers : Worker(w) \/ SpuriousWake(w)
        \/ Owner

Spec == Init /\ [][Next]_vars

(* Threads that can run do; a thread that keeps asking for the mutex gets  *)
(* it; youtube-dl returns.  Nobody has to call queueTask, stop or          *)
(* setWorkerCount, and nothing has to wake spuriously.                     *)
Fairness ==
    /\ \A p \in Producers : /\ WF_vars(PushTask(p) \/ NotifyOne(p))
                            /\ SF_vars(LockQueue(p))
    /\ \A w \in Workers : /\ WF_vars(TestRunning(w) \/ Sleep(w) \/ TakeTask(w) \/ FinishJob(w))
                          /\ SF_vars(LockWorker(w))
    /\ WF_vars(NotifyAll)
    /\ WF_vars(Join \/ Resize)

FairSpec == Spec /\ Fairness
-----------------------------------------------------------------------------
(* Types of the variables.                                                 *)
TypeOK ==
    /\ running \in BOOLEAN
    /\ taskQueue \in Seq(Tasks)
    /\ mutex \in Producers \cup Workers \cup {Nobody}
    /\ threads \in SUBSET Workers
    /\ wpc \in [Workers -> WorkerPC]
    /\ job \in [Workers -> Tasks \cup {NoTask}]
    /\ ppc \in [Producers -> ProducerPC]
    /\ ptask \in [Producers -> Tasks \cup {NoTask}]
    /\ opc \in OwnerPC
    /\ wanted \in SUBSET Workers
    /\ restart \in BOOLEAN
    /\ made \in SUBSET Tasks
    /\ ready \in SUBSET Tasks
    /\ stops \in 0..MaxStops

(* While the pool runs, no task waits behind a long lookup although a      *)
(* worker sleeps: as long as any worker is asleep, the workers on their    *)
(* way to the queue and the notifications still to come are at least as    *)
(* many as the waiting tasks.  queueTask notifies after it released the    *)
(* mutex, and a notification that finds nobody asleep is lost.             *)
EnoughAwake ==
    running => \/ Asleep = {}
               \/ Cardinality(Awake) + Cardinality(Notifying) >= Len(taskQueue)

(* start() and resize() touch a slot only when its thread is gone: moving  *)
(* into, or destroying, a std::thread that is still joinable terminates    *)
(* the program.  start() is called whenever running() is false, which is   *)
(* also what a pool in the middle of stop() answers.                       *)
SlotsFree ==
    (opc = "resize" \/ (opc = "out" /\ ~running)) =>
        \A w \in Workers : wpc[w] = "none"

(* Every task is queued once, started once in the order of arrival, and    *)
(* made ready once, whatever the notifications and stops in between.       *)
Pool == INSTANCE TaskPool WITH
            waiting <- taskQueue,
            executing <- {job[w] : w \in Busy},
            completed <- ready
PoolSpec == Pool!Spec

(* A task given to a pool that has threads ends with its future ready,     *)
(* unless the pool is stopped.                                             *)
TasksComplete ==
    \A t \in Tasks : (t \in made /\ running /\ threads # {})
                       ~> (t \in ready \/ ~running)

(* stop() gets past its joins unless a worker is left asleep in wait(),    *)
(* whose predicate never looks at m_running: notify_all alone does not     *)
(* end a worker that finds the queue empty.                                *)
StopReturns == (opc = "join") ~> (opc # "join" \/ Asleep # {})
=============================================================================
