----------------------------- MODULE ThreadPool -----------------------------
(***************************************************************************)
(* The thread pool of Hw11/thread_pool.c, driven by its only client, the   *)
(* main() of Hw11/log_analyzer.c: create the pool, submit one task per log *)
(* file, await, free, report, exit.                                        *)
(*                                                                         *)
(* Main and the workers interleave.  A section that runs under pool->mutex *)
(* is cut only where a thread that does not hold the mutex can look: main  *)
(* reads `counter' in DgdPool_await and `queue->head' in DgdPool_free      *)
(* without it.                                                             *)
(***************************************************************************)
EXTENDS Naturals, Sequences, FiniteSets

CONSTANTS
    Workers,      \* the threads DgdPool_create starts; pool->size many
    Tasks,        \* one ThreadPoolTask_t per directory entry
    NoThread,     \* the mutex is not held
    NoTask,       \* the worker has no task in hand
    MaxSpurious   \* bound on the spurious wakeups of pthread_cond_wait

ASSUME WorkersAssumption ==
    /\ IsFiniteSet(Workers)
    /\ Workers # {}
    /\ NoThread \notin Workers

ASSUME TasksAssumption == NoTask \notin Tasks

ASSUME BoundAssumption == MaxSpurious \in Nat

VARIABLES
    pool,       \* "live", "no_queue" (queue freed), "freed"
    mutex,      \* the worker that holds pool->mutex, or NoThread
    queue,      \* the tasks linked behind the sentinel node, oldest first
    counter,    \* pool->counter
    wpc,        \* where each worker is in thread_function
    task,       \* the task each worker has taken off the queue
    cancelled,  \* the workers pthread_cancel has been called for
    mpc,        \* where main is
    todo,       \* the tasks main has not submitted yet
    refused,    \* the tasks DgdPool_submit returned -1 for
    done,       \* the tasks whose job has returned
    spurious    \* how many spurious wakeups there have been

clientVars == <<mpc, todo, refused, cancelled>>
vars == <<pool, mutex, queue, counter, wpc, task, cancelled, mpc, todo,
          refused, done, spurious>>

-----------------------------------------------------------------------------
(* unborn    pthread_create not called yet                                 *)
(* start     before pthread_mutex_lock, line 36                            *)
(* holding   has the mutex and is counted, tests queue->head, line 38      *)
(* sleeping  blocked in pthread_cond_wait                                  *)
(* woken     released by the condition, wants the mutex back               *)
(* running   in task->job                                                  *)
(* dead      terminated by a cancellation                                  *)
(* stray     has used the pool after it was freed: undefined from here on  *)
WorkerStates == {"unborn", "start", "holding", "sleeping", "woken",
                 "running", "dead", "stray"}

(* create, submit, await, free, cancel, report follow main; unwind is the  *)
(* error path of DgdPool_create; exited is the end of the process.         *)
MainStates == {"create", "unwind", "submit", "await", "free", "cancel",
               "report", "exited"}

(* Between the increment of line 37 and the decrement of line 41.          *)
Counted == {"holding", "sleeping", "woken"}

(* On the way to the test of queue->head, with the mutex or after it.      *)
Coming == {"woken", "holding"}

Asleep == {"sleeping"}

In(s) == {w \in Workers : wpc[w] \in s}

Created == Workers \ In({"unborn"})

Move(w, s) == wpc' = [wpc EXCEPT ![w] = s]

Init ==
    /\ pool = "live"
    /\ mutex = NoThread
    /\ queue = <<>>
    /\ counter = 0
    /\ wpc = [w \in Workers |-> "unborn"]
    /\ task = [w \in Workers |-> NoTask]
    /\ cancelled = {}
    /\ mpc = "create"
    /\ todo = Tasks
    /\ refused = {}
    /\ done = {}
    /\ spurious = 0

-----------------------------------------------------------------------------
(* Seeded faults.  None is part of the pool: each is one of the actions    *)
(* below with a slip of the pen, used to show that a property notices it.  *)

(* The head is taken and not unlinked, line 44.                            *)
TakeLinked(w) ==
    /\ mpc # "exited" /\ pool = "live"
    /\ wpc[w] = "holding"
    /\ queue # <<>>
    /\ counter' = counter - 1
    /\ task' = [task EXCEPT ![w] = Head(queue)]
    /\ mutex' = NoThread
    /\ Move(w, "running")
    /\ UNCHANGED <<pool, queue, done, spurious, clientVars>>

(* The decrement of line 41 is left out.                                   *)
TakeUncounted(w) ==
    /\ mpc # "exited" /\ pool = "live"
    /\ wpc[w] = "holding"
    /\ queue # <<>>
    /\ task' = [task EXCEPT ![w] = Head(queue)]
    /\ queue' = Tail(queue)
    /\ mutex' = NoThread
    /\ Move(w, "running")
    /\ UNCHANGED <<pool, counter, done, spurious, clientVars>>

(* The signal of line 156 is left out.                                     *)
SignalNobody == UNCHANGED wpc

(* The signal is sent only when the queue was empty.                       *)
SignalOnFirst ==
    \/ /\ queue # <<>> \/ In(Asleep) = {}
       /\ UNCHANGED wpc
    \/ /\ queue = <<>>
       /\ \E w \in In(Asleep) : Move(w, "woken")

(* The new node goes to the front of the list.                             *)
SubmitFront(t) ==
    /\ mpc = "submit"
    /\ t \in todo
    /\ mutex = NoThread
    /\ queue' = <<t>> \o queue
    /\ todo' = todo \ {t}
    /\ UNCHANGED <<pool, mutex, counter, wpc, task, cancelled, mpc, refused,
                   done, spurious>>

(* DgdPool_free does not test the head, line 125.                          *)
FreeAnyway ==
    /\ mpc = "free"
    /\ pool' = "no_queue"
    /\ mpc' = "cancel"
    /\ UNCHANGED <<mutex, queue, counter, wpc, task, cancelled, todo, refused,
                   done, spurious>>

-----------------------------------------------------------------------------
(* Main.                                                                   *)

(* One turn of the pthread_create loop; the last one stores pool->size.    *)
Create(w) ==
    /\ mpc = "create"
    /\ wpc[w] = "unborn"
    /\ Move(w, "start")
    /\ mpc' = IF In({"unborn"}) = {w} THEN "submit" ELSE mpc
    /\ UNCHANGED <<pool, mutex, queue, counter, task, cancelled, todo, refused,
                   done, spurious>>

(* pthread_create fails: the error path cancels the threads made so far.   *)
CreateFails ==
    /\ mpc = "create"
    /\ mpc' = "unwind"
    /\ UNCHANGED <<pool, mutex, queue, counter, wpc, task, cancelled, todo,
                   refused, done, spurious>>

(* pthread_cond_signal: one sleeper, if there is one, is released.         *)
Signal ==
    IF In(Asleep) = {}
    THEN UNCHANGED wpc
    ELSE \E w \in In(Asleep) : Move(w, "woken")

(* DgdPool_submit: the node goes to the end of the list under the mutex.   *)
Submit(t) ==
    /\ mpc = "submit"
    /\ t \in todo
    /\ mutex = NoThread
    /\ queue' = Append(queue, t)
    /\ todo' = todo \ {t}
    /\ Signal
    /\ UNCHANGED <<pool, mutex, counter, task, cancelled, mpc, refused, done,
                   spurious>>

(* DgdPool_submit cannot allocate the node; main ignores the -1.           *)
SubmitFails(t) ==
    /\ mpc = "submit"
    /\ t \in todo
    /\ mutex = NoThread
    /\ todo' = todo \ {t}
    /\ refused' = refused \cup {t}
    /\ UNCHANGED <<pool, mutex, queue, counter, wpc, task, cancelled, mpc, done,
                   spurious>>

(* readdir returned NULL: main calls DgdPool_await.                        *)
AwaitBegins ==
    /\ mpc = "submit"
    /\ todo = {}
    /\ mpc' = "await"
    /\ UNCHANGED <<pool, mutex, queue, counter, wpc, task, cancelled, todo,
                   refused, done, spurious>>

(* DgdPool_await: the spin ends when the counter equals the pool size.     *)
AwaitReturns ==
    /\ mpc = "await"
    /\ counter = Cardinality(Workers)
    /\ mpc' = "free"
    /\ UNCHANGED <<pool, mutex, queue, counter, wpc, task, cancelled, todo,
                   refused, done, spurious>>

(* DgdPool_free returns -1: the queue is not empty.  Main ignores it.      *)
FreeRefuses ==
    /\ mpc = "free"
    /\ queue # <<>>
    /\ mpc' = "report"
    /\ UNCHANGED <<pool, mutex, queue, counter, wpc, task, cancelled, todo,
                   refused, done, spurious>>

(* DgdPool_free finds no head, without the mutex, and frees the sentinel.  *)
FreeQueue ==
    /\ mpc = "free"
    /\ queue = <<>>
    /\ pool' = "no_queue"
    /\ mpc' = "cancel"
    /\ UNCHANGED <<mutex, queue, counter, wpc, task, cancelled, todo, refused,
                   done, spurious>>

(* pthread_cancel on one thread, in DgdPool_free or in the error path of   *)
(* DgdPool_create.  No thread is joined.                                   *)
Cancel(w) ==
    /\ mpc \in {"cancel", "unwind"}
    /\ w \in Created \ cancelled
    /\ cancelled' = cancelled \cup {w}
    /\ UNCHANGED <<pool, mutex, queue, counter, wpc, task, mpc, todo, refused,
                   done, spurious>>

(* After the cancel loop: threads, condition, mutex and pool are gone.     *)
FreePool ==
    /\ mpc \in {"cancel", "unwind"}
    /\ Created \subseteq cancelled
    /\ pool' = "freed"
    /\ mpc' = "report"
    /\ UNCHANGED <<mutex, queue, counter, wpc, task, cancelled, todo, refused,
                   done, spurious>>

(* main returns, after the report or after DgdPool_create gave NULL: the   *)
(* process ends with every thread in it.                                   *)
Exit ==
    /\ mpc = "report"
    /\ mpc' = "exited"
    /\ UNCHANGED <<pool, mutex, queue, counter, wpc, task, cancelled, todo,
                   refused, done, spurious>>

-----------------------------------------------------------------------------
(* A worker, in thread_function.  Each step needs a process and a pool.    *)

Usable == mpc # "exited" /\ pool # "freed"

(* Lines 36-37: take the mutex and count oneself as waiting.               *)
Lock(w) ==
    /\ Usable
    /\ wpc[w] = "start"
    /\ mutex = NoThread
    /\ mutex' = w
    /\ counter' = counter + 1
    /\ Move(w, "holding")
    /\ UNCHANGED <<pool, queue, task, done, spurious, clientVars>>

(* Lines 38-39: nothing queued, release the mutex and block.               *)
Wait(w) ==
    /\ Usable
    /\ pool = "live"
    /\ wpc[w] = "holding"
    /\ queue = <<>>
    /\ mutex' = NoThread
    /\ Move(w, "sleeping")
    /\ UNCHANGED <<pool, queue, counter, task, done, spurious, clientVars>>

(* pthread_cond_wait returns with the mutex; the loop tests head again.    *)
(* It may do so after a cancellation that came when it had been released.  *)
Reacquire(w) ==
    /\ Usable
    /\ wpc[w] = "woken"
    /\ mutex = NoThread
    /\ mutex' = w
    /\ Move(w, "holding")
    /\ UNCHANGED <<pool, queue, counter, task, done, spurious, clientVars>>

(* Lines 41-50: no longer waiting, unlink the first node, unlock.          *)
Take(w) ==
    /\ Usable
    /\ pool = "live"
    /\ wpc[w] = "holding"
    /\ queue # <<>>
    /\ counter' = counter - 1
    /\ task' = [task EXCEPT ![w] = Head(queue)]
    /\ queue' = Tail(queue)
    /\ mutex' = NoThread
    /\ Move(w, "running")
    /\ UNCHANGED <<pool, done, spurious, clientVars>>

(* Lines 51-52: the job returned and the task is freed.  The job itself    *)
(* does not touch the pool.                                                *)
Finish(w) ==
    /\ mpc # "exited"
    /\ wpc[w] = "running"
    /\ done' = done \cup {task[w]}
    /\ task' = [task EXCEPT ![w] = NoTask]
    /\ Move(w, "start")
    /\ UNCHANGED <<pool, mutex, queue, counter, spurious, clientVars>>

(* pthread_cond_wait may return without a signal.                          *)
SpuriousWakeup(w) ==
    /\ Usable
    /\ spurious < MaxSpurious
    /\ wpc[w] = "sleeping"
    /\ spurious' = spurious + 1
    /\ Move(w, "woken")
    /\ UNCHANGED <<pool, mutex, queue, counter, task, done, clientVars>>

(* Cancelled in pthread_cond_wait: it takes the mutex back and the cleanup *)
(* handler unlock_mutextes releases it.                                    *)
DieWaiting(w) ==
    /\ Usable
    /\ w \in cancelled
    /\ wpc[w] \in {"sleeping", "woken"}
    /\ mutex = NoThread
    /\ Move(w, "dead")
    /\ UNCHANGED <<pool, mutex, queue, counter, task, done, spurious,
                   clientVars>>

(* Cancelled inside the job (stat, open, close, printf are cancellation    *)
(* points): the handler unlocks a mutex this thread does not hold, which   *)
(* for the default mutex type releases it from whoever does.               *)
DieRunning(w) ==
    /\ Usable
    /\ w \in cancelled
    /\ wpc[w] = "running"
    /\ mutex' = NoThread
    /\ Move(w, "dead")
    /\ UNCHANGED <<pool, queue, counter, task, done, spurious, clientVars>>

(* A worker reads memory main has freed: pool->mutex, pool->counter or the *)
(* condition once the pool is gone, pool->queue->head once the queue is.   *)
Stray(w) ==
    /\ mpc # "exited"
    /\ \/ pool = "freed" /\ wpc[w] \in {"start", "holding", "woken"}
       \/ pool = "freed" /\ wpc[w] \in {"sleeping", "running"} /\ w \in cancelled
       \/ pool = "no_queue" /\ wpc[w] = "holding"
    /\ Move(w, "stray")
    /\ UNCHANGED <<pool, mutex, queue, counter, task, done, spurious,
                   clientVars>>

-----------------------------------------------------------------------------
Client ==
    \/ \E w \in Workers : Create(w) \/ Cancel(w)
    \/ \E t \in Tasks : Submit(t) \/ SubmitFails(t)
    \/ CreateFails
    \/ AwaitBegins
    \/ AwaitReturns
    \/ FreeRefuses
    \/ FreeQueue
    \/ FreePool
    \/ Exit

Worker(w) ==
    \/ Lock(w)
    \/ Wait(w)
    \/ Reacquire(w)
    \/ Take(w)
    \/ Finish(w)
    \/ DieWaiting(w)
    \/ DieRunning(w)
    \/ Stray(w)

(* The process has ended: nothing moves.                                   *)
Terminated == mpc = "exited" /\ UNCHANGED vars

Next ==
    \/ Client
    \/ \E w \in Workers : Worker(w) \/ SpuriousWakeup(w)
    \/ Terminated

Spec == Init /\ [][Next]_vars

(* The scheduler runs every worker that can run; main may be slow or stop. *)
WorkerFairSpec == Spec /\ \A w \in Workers : WF_vars(Worker(w))

-----------------------------------------------------------------------------
(* Every variable keeps its shape.                                         *)
TypeOK ==
    /\ pool \in {"live", "no_queue", "freed"}
    /\ mutex \in Workers \cup {NoThread}
    /\ queue \in Seq(Tasks)
    /\ counter \in Nat
    /\ wpc \in [Workers -> WorkerStates]
    /\ task \in [Workers -> Tasks \cup {NoTask}]
    /\ cancelled \in SUBSET Workers
    /\ mpc \in MainStates
    /\ todo \in SUBSET Tasks
    /\ refused \in SUBSET Tasks
    /\ done \in SUBSET Tasks
    /\ spurious \in Nat

Queued == {queue[i] : i \in DOMAIN queue}

InHand == {task[w] : w \in Workers} \ {NoTask}

(* Every task main made is in exactly one place - still to submit, refused *)
(* by DgdPool_submit, queued once, in the hands of one worker, or done -   *)
(* so no interleaving of the workers runs a task twice or loses one.       *)
TasksConserved ==
    /\ Tasks = todo \cup refused \cup Queued \cup InHand \cup done
    /\ \A i, j \in DOMAIN queue : i # j => queue[i] # queue[j]
    /\ \A v, w \in Workers : v # w /\ task[v] # NoTask => task[v] # task[w]
    /\ todo \cap (refused \cup Queued \cup InHand \cup done) = {}
    /\ refused \cap (Queued \cup InHand \cup done) = {}
    /\ Queued \cap (InHand \cup done) = {}
    /\ InHand \cap done = {}

(* No signal is lost: while some worker sleeps in pthread_cond_wait, at    *)
(* least one worker per queued task is on its way to the queue.            *)
NoLostWakeup ==
    In(Asleep) # {} =>
        Len(queue) <= Cardinality(In(Coming))

(* As long as the pool is whole, pool->counter, which DgdPool_await        *)
(* trusts, is exactly the number of workers between lines 37 and 41.       *)
CounterExact ==
    pool = "live" /\ cancelled = {} =>
        counter = Cardinality(In(Counted))

(* DgdPool_free tests queue->head without the mutex, yet it never drops a  *)
(* task that is still queued.                                              *)
FreeLosesNothingQueued ==
    pool # "live" => queue = <<>>

(* The comment on the counter: it counts waiting threads.  So when the     *)
(* await that compares it with pool->size has returned, every thread is    *)
(* waiting: nothing is queued and no job is running.                       *)
AwaitReturnsIdle ==
    mpc = "free" => queue = <<>> /\ In({"running"}) = {}

(* A queued task is started even if main never runs again, unless main     *)
(* ends the process first.                                                 *)
QueuedIsTaken ==
    \A t \in Tasks : t \in Queued ~> (t \notin Queued \/ mpc = "exited")

-----------------------------------------------------------------------------
(* What the pool promises its client, see TaskQueue.                       *)
TQ == INSTANCE TaskQueue WITH
        pending  <- queue,
        active   <- InHand,
        finished <- done

TaskQueueSpec == TQ!Spec

=============================================================================
