------------------------------ MODULE TaskPool ------------------------------
(***************************************************************************)
(* What Util::WorkQueue promises the code that queues song updates, with   *)
(* no lock, condition variable or thread in sight: a task that was queued  *)
(* waits in arrival order, is started once, and makes its future ready     *)
(* once, after it was started.  WorkQueue.tla is shown to implement it.    *)
(***************************************************************************)
EXTENDS Sequences

CONSTANT Tasks      \* the tasks that may ever be queued

VARIABLES
    waiting,        \* the queued tasks, oldest first
    executing,      \* the tasks some worker is running
    completed       \* the tasks whose future is ready

vars == <<waiting, executing, completed>>

Known == {waiting[i] : i \in DOMAIN waiting} \cup executing \cup completed

Init == /\ waiting = <<>>
        /\ executing = {}
        /\ completed = {}

(* WorkQueue::queueTask: a task nobody queued before goes to the back.     *)
Submit(t) == /\ t \notin Known
             /\ waiting' = Append(waiting, t)
             /\ UNCHANGED <<executing, completed>>

(* A worker takes the oldest waiting task.                                 *)
Start == /\ waiting # <<>>
         /\ waiting' = Tail(waiting)
         /\ executing' = executing \cup {Head(waiting)}
         /\ UNCHANGED completed

(* The job returned and its future is ready.                               *)
Finish(t) == /\ t \in executing
             /\ executing' = executing \ {t}
             /\ completed' = completed \cup {t}
             /\ UNCHANGED waiting

Next == \/ \E t \in Tasks : Submit(t) \/ Finish(t)
        \/ Start

Spec == Init /\ [][Next]_vars
=============================================================================
