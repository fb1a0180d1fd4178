-------------------------- MODULE ThreadPoolProofs --------------------------
(***************************************************************************)
(* Proofs about ThreadPool, for any number of workers and tasks.           *)
(*                                                                         *)
(* Shutdown says what the client protocol buys: once anything is freed or  *)
(* cancelled, nothing is queued and nothing more can be.  HandsMatch ties  *)
(* a worker's task to its place in thread_function.  With these two the    *)
(* invariants the runs check are inductive.                                *)
(***************************************************************************)
EXTENDS ThreadPool, FiniteSetTheorems, SequenceTheorems, TLAPS

Ending == {"cancel", "unwind", "report", "exited"}

Shutdown ==
    /\ mpc \in {"create", "unwind", "cancel"} => queue = <<>>
    /\ cancelled # {} => queue = <<>> /\ mpc \in Ending
    /\ pool # "live" => queue = <<>> /\ mpc \in Ending

Empty == {"unborn", "start", "holding", "sleeping", "woken"}

HandsMatch ==
    \A w \in Workers :
        /\ wpc[w] \in Empty => task[w] = NoTask
        /\ wpc[w] = "running" => task[w] # NoTask

(* Tasks in hand are distinct and no place shares a task with another.     *)
Inv ==
    /\ TypeOK
    /\ Shutdown
    /\ HandsMatch
    /\ CounterExact
    /\ NoLostWakeup
    /\ TasksConserved

USE WorkersAssumption, TasksAssumption, BoundAssumption

-----------------------------------------------------------------------------
(* Moving one worker changes the size of a group of workers by at most     *)
(* that worker.                                                            *)
LEMMA InFinite ==
    ASSUME NEW S PROVE IsFiniteSet(In(S)) /\ Cardinality(In(S)) \in Nat
  <1>1. In(S) \subseteq Workers BY DEF In
  <1> QED BY <1>1, FS_Subset, FS_CardinalityType

LEMMA MoveIn ==
    ASSUME NEW w \in Workers, NEW s, NEW S,
           wpc \in [Workers -> WorkerStates], Move(w, s)
    PROVE  /\ wpc[w] \in S /\ s \in S => In(S)' = In(S)
           /\ wpc[w] \notin S /\ s \notin S => In(S)' = In(S)
           /\ wpc[w] \notin S /\ s \in S =>
                Cardinality(In(S)') = Cardinality(In(S)) + 1
           /\ wpc[w] \in S /\ s \notin S =>
                Cardinality(In(S)') = Cardinality(In(S)) - 1
  <1>1. \A v \in Workers : wpc'[v] = IF v = w THEN s ELSE wpc[v]
    BY DEF Move
  <1>2. CASE wpc[w] \in S /\ s \in S
    BY <1>1, <1>2 DEF In
  <1>3. CASE wpc[w] \notin S /\ s \notin S
    BY <1>1, <1>3 DEF In
  <1>4. CASE wpc[w] \notin S /\ s \in S
    <2>1. In(S)' = In(S) \cup {w} /\ w \notin In(S)
      BY <1>1, <1>4 DEF In
    <2> QED BY <1>4, <2>1, InFinite, FS_AddElement
  <1>5. CASE wpc[w] \in S /\ s \notin S
    <2>1. In(S)' = In(S) \ {w} /\ w \in In(S)
      BY <1>1, <1>5 DEF In
    <2> QED BY <1>5, <2>1, InFinite, FS_RemoveElement
  <1> QED BY <1>2, <1>3, <1>4, <1>5

-----------------------------------------------------------------------------
(* One lemma for each part of Inv.  Shutdown: main never goes back to        *)
(* submitting, so a queue found empty stays empty.                         *)
LEMMA ShutdownStep ==
    ASSUME Shutdown, [Next]_vars PROVE Shutdown'
  <1>1. ASSUME NEW w \in Workers, Create(w) PROVE Shutdown'
    BY <1>1 DEF Shutdown, Ending, clientVars, Create
  <1>2. CASE CreateFails
    BY <1>2 DEF Shutdown, Ending, clientVars, CreateFails
  <1>3. ASSUME NEW t \in Tasks, Submit(t) PROVE Shutdown'
    BY <1>3 DEF Shutdown, Ending, clientVars, Submit
  <1>4. ASSUME NEW t \in Tasks, SubmitFails(t) PROVE Shutdown'
    BY <1>4 DEF Shutdown, Ending, clientVars, SubmitFails
  <1>5. CASE AwaitBegins
    BY <1>5 DEF Shutdown, Ending, clientVars, AwaitBegins
  <1>6. CASE AwaitReturns
    BY <1>6 DEF Shutdown, Ending, clientVars, AwaitReturns
  <1>7. CASE FreeRefuses
    BY <1>7 DEF Shutdown, Ending, clientVars, FreeRefuses
  <1>8. CASE FreeQueue
    BY <1>8 DEF Shutdown, Ending, clientVars, FreeQueue
  <1>9. ASSUME NEW w \in Workers, Cancel(w) PROVE Shutdown'
    BY <1>9 DEF Shutdown, Ending, clientVars, Cancel
  <1>10. CASE FreePool
    BY <1>10 DEF Shutdown, Ending, clientVars, FreePool
  <1>11. CASE Exit
    BY <1>11 DEF Shutdown, Ending, clientVars, Exit
  <1>12. ASSUME NEW w \in Workers, Lock(w) PROVE Shutdown'
    BY <1>12 DEF Shutdown, Ending, clientVars, Lock
  <1>13. ASSUME NEW w \in Workers, Wait(w) PROVE Shutdown'
    BY <1>13 DEF Shutdown, Ending, clientVars, Wait
  <1>14. ASSUME NEW w \in Workers, Reacquire(w) PROVE Shutdown'
    BY <1>14 DEF Shutdown, Ending, clientVars, Reacquire
  <1>15. ASSUME NEW w \in Workers, Take(w) PROVE Shutdown'
    BY <1>15 DEF Shutdown, Ending, clientVars, Take
  <1>16. ASSUME NEW w \in Workers, Finish(w) PROVE Shutdown'
    BY <1>16 DEF Shutdown, Ending, clientVars, Finish
  <1>17. ASSUME NEW w \in Workers, SpuriousWakeup(w) PROVE Shutdown'
    BY <1>17 DEF Shutdown, Ending, clientVars, SpuriousWakeup
  <1>18. ASSUME NEW w \in Workers, DieWaiting(w) PROVE Shutdown'
    BY <1>18 DEF Shutdown, Ending, clientVars, DieWaiting
  <1>19. ASSUME NEW w \in Workers, DieRunning(w) PROVE Shutdown'
    BY <1>19 DEF Shutdown, Ending, clientVars, DieRunning
  <1>20. ASSUME NEW w \in Workers, Stray(w) PROVE Shutdown'
    BY <1>20 DEF Shutdown, Ending, clientVars, Stray
  <1>21. CASE UNCHANGED vars
    BY <1>21 DEF Shutdown, Ending, clientVars, vars
  <1> QED
    BY <1>1, <1>2, <1>3, <1>4, <1>5, <1>6, <1>7, <1>8, <1>9, <1>10,
       <1>11, <1>12, <1>13, <1>14, <1>15, <1>16, <1>17, <1>18, <1>19, <1>20,
       <1>21
       DEF Next, Client, Worker, Terminated

(* HandsMatch: Take fills a hand, Finish empties it, nobody else does.      *)
LEMMA HandsMatchStep ==
    ASSUME TypeOK, HandsMatch, [Next]_vars PROVE HandsMatch'
  <1>1. ASSUME NEW w \in Workers, Create(w) PROVE HandsMatch'
    BY <1>1
       DEF HandsMatch, Empty, TypeOK, Move, WorkerStates, clientVars, Create
  <1>2. CASE CreateFails
    BY <1>2
       DEF HandsMatch, Empty, TypeOK, Move, WorkerStates, clientVars,
           CreateFails
  <1>3. ASSUME NEW t \in Tasks, Submit(t) PROVE HandsMatch'
    <2>1. CASE UNCHANGED wpc
      BY <1>3, <2>1 DEF HandsMatch, Empty, Submit
    <2>2. ASSUME NEW w \in In(Asleep), Move(w, "woken")
          PROVE HandsMatch'
      BY <1>3, <2>2 DEF HandsMatch, Empty, Submit, Move, In, Asleep, TypeOK
    <2> QED BY <1>3, <2>1, <2>2 DEF Submit, Signal
  <1>4. ASSUME NEW t \in Tasks, SubmitFails(t) PROVE HandsMatch'
    BY <1>4
       DEF HandsMatch, Empty, TypeOK, Move, WorkerStates, clientVars,
           SubmitFails
  <1>5. CASE AwaitBegins
    BY <1>5
       DEF HandsMatch, Empty, TypeOK, Move, WorkerStates, clientVars,
           AwaitBegins
  <1>6. CASE AwaitReturns
    BY <1>6
       DEF HandsMatch, Empty, TypeOK, Move, WorkerStates, clientVars,
           AwaitReturns
  <1>7. CASE FreeRefuses
    BY <1>7
       DEF HandsMatch, Empty, TypeOK, Move, WorkerStates, clientVars,
           FreeRefuses
  <1>8. CASE FreeQueue
    BY <1>8
       DEF HandsMatch, Empty, TypeOK, Move, WorkerStates, clientVars, FreeQueue
  <1>9. ASSUME NEW w \in Workers, Cancel(w) PROVE HandsMatch'
    BY <1>9
       DEF HandsMatch, Empty, TypeOK, Move, WorkerStates, clientVars, Cancel
  <1>10. CASE FreePool
    BY <1>10
       DEF HandsMatch, Empty, TypeOK, Move, WorkerStates, clientVars, FreePool
  <1>11. CASE Exit
    BY <1>11
       DEF HandsMatch, Empty, TypeOK, Move, WorkerStates, clientVars, Exit
  <1>12. ASSUME NEW w \in Workers, Lock(w) PROVE HandsMatch'
    BY <1>12
       DEF HandsMatch, Empty, TypeOK, Move, WorkerStates, clientVars, Lock
  <1>13. ASSUME NEW w \in Workers, Wait(w) PROVE HandsMatch'
    BY <1>13
       DEF HandsMatch, Empty, TypeOK, Move, WorkerStates, clientVars, Wait
  <1>14. ASSUME NEW w \in Workers, Reacquire(w) PROVE HandsMatch'
    BY <1>14
       DEF HandsMatch, Empty, TypeOK, Move, WorkerStates, clientVars, Reacquire
  <1>15. ASSUME NEW w \in Workers, Take(w) PROVE HandsMatch'
    BY <1>15
       DEF HandsMatch, Empty, TypeOK, Move, WorkerStates, clientVars, Take
  <1>16. ASSUME NEW w \in Workers, Finish(w) PROVE HandsMatch'
    BY <1>16
       DEF HandsMatch, Empty, TypeOK, Move, WorkerStates, clientVars, Finish
  <1>17. ASSUME NEW w \in Workers, SpuriousWakeup(w) PROVE HandsMatch'
    BY <1>17
       DEF HandsMatch, Empty, TypeOK, Move, WorkerStates, clientVars,
           SpuriousWakeup
  <1>18. ASSUME NEW w \in Workers, DieWaiting(w) PROVE HandsMatch'
    BY <1>18
       DEF HandsMatch, Empty, TypeOK, Move, WorkerStates, clientVars,
           DieWaiting
  <1>19. ASSUME NEW w \in Workers, DieRunning(w) PROVE HandsMatch'
    BY <1>19
       DEF HandsMatch, Empty, TypeOK, Move, WorkerStates, clientVars,
           DieRunning
  <1>20. ASSUME NEW w \in Workers, Stray(w) PROVE HandsMatch'
    BY <1>20
       DEF HandsMatch, Empty, TypeOK, Move, WorkerStates, clientVars, Stray
  <1>21. CASE UNCHANGED vars
    BY <1>21
       DEF HandsMatch, Empty, TypeOK, Move, WorkerStates, clientVars, vars
  <1> QED
    BY <1>1, <1>2, <1>3, <1>4, <1>5, <1>6, <1>7, <1>8, <1>9, <1>10,
       <1>11, <1>12, <1>13, <1>14, <1>15, <1>16, <1>17, <1>18, <1>19, <1>20,
       <1>21
       DEF Next, Client, Worker, Terminated

(* TypeOK: what needs care is the decrement of the counter, which is        *)
(* positive because the worker that takes a task is one of those counted.  *)
LEMMA TypeOKStep ==
    ASSUME TypeOK, Shutdown, HandsMatch, CounterExact, [Next]_vars
    PROVE TypeOK'
  <1>1. ASSUME NEW w \in Workers, Create(w) PROVE TypeOK'
    BY <1>1 DEF TypeOK, Move, WorkerStates, MainStates, clientVars, Create
  <1>2. CASE CreateFails
    BY <1>2 DEF TypeOK, Move, WorkerStates, MainStates, clientVars, CreateFails
  <1>3. ASSUME NEW t \in Tasks, Submit(t) PROVE TypeOK'
    <2>1. queue' \in Seq(Tasks)
      BY <1>3 DEF Submit, TypeOK
    <2>2. wpc' \in [Workers -> WorkerStates]
      BY <1>3 DEF Submit, Signal, Move, TypeOK, WorkerStates, In, Asleep
    <2> QED BY <1>3, <2>1, <2>2 DEF Submit, TypeOK
  <1>4. ASSUME NEW t \in Tasks, SubmitFails(t) PROVE TypeOK'
    BY <1>4 DEF TypeOK, Move, WorkerStates, MainStates, clientVars, SubmitFails
  <1>5. CASE AwaitBegins
    BY <1>5 DEF TypeOK, Move, WorkerStates, MainStates, clientVars, AwaitBegins
  <1>6. CASE AwaitReturns
    BY <1>6
       DEF TypeOK, Move, WorkerStates, MainStates, clientVars, AwaitReturns
  <1>7. CASE FreeRefuses
    BY <1>7 DEF TypeOK, Move, WorkerStates, MainStates, clientVars, FreeRefuses
  <1>8. CASE FreeQueue
    BY <1>8 DEF TypeOK, Move, WorkerStates, MainStates, clientVars, FreeQueue
  <1>9. ASSUME NEW w \in Workers, Cancel(w) PROVE TypeOK'
    BY <1>9 DEF TypeOK, Move, WorkerStates, MainStates, clientVars, Cancel
  <1>10. CASE FreePool
    BY <1>10 DEF TypeOK, Move, WorkerStates, MainStates, clientVars, FreePool
  <1>11. CASE Exit
    BY <1>11 DEF TypeOK, Move, WorkerStates, MainStates, clientVars, Exit
  <1>12. ASSUME NEW w \in Workers, Lock(w) PROVE TypeOK'
    BY <1>12 DEF TypeOK, Move, WorkerStates, MainStates, clientVars, Lock
  <1>13. ASSUME NEW w \in Workers, Wait(w) PROVE TypeOK'
    BY <1>13 DEF TypeOK, Move, WorkerStates, MainStates, clientVars, Wait
  <1>14. ASSUME NEW w \in Workers, Reacquire(w) PROVE TypeOK'
    BY <1>14 DEF TypeOK, Move, WorkerStates, MainStates, clientVars, Reacquire
  <1>15. ASSUME NEW w \in Workers, Take(w) PROVE TypeOK'
    <2>1. counter - 1 \in Nat
      <3>1. pool = "live" /\ cancelled = {}
        BY <1>15 DEF Take, Shutdown
      <3>2. w \in In(Counted)
        BY <1>15 DEF Take, In, Counted
      <3>3. Cardinality(In(Counted)) # 0
        BY <3>2, InFinite, FS_EmptySet
      <3> QED BY <3>1, <3>3, InFinite DEF CounterExact
    <2>2. Head(queue) \in Tasks /\ Tail(queue) \in Seq(Tasks)
      BY <1>15 DEF Take, TypeOK
    <2>3. /\ wpc' \in [Workers -> WorkerStates]
          /\ task' \in [Workers -> Tasks \cup {NoTask}]
      BY <1>15, <2>2 DEF Take, TypeOK, Move, WorkerStates
    <2> QED BY <1>15, <2>1, <2>2, <2>3 DEF Take, TypeOK, clientVars
  <1>16. ASSUME NEW w \in Workers, Finish(w) PROVE TypeOK'
    <2>1. task[w] \in Tasks
      BY <1>16 DEF Finish, TypeOK, HandsMatch
    <2> QED BY <1>16, <2>1 DEF Finish, TypeOK, Move, WorkerStates, clientVars
  <1>17. ASSUME NEW w \in Workers, SpuriousWakeup(w) PROVE TypeOK'
    BY <1>17
       DEF TypeOK, Move, WorkerStates, MainStates, clientVars, SpuriousWakeup
  <1>18. ASSUME NEW w \in Workers, DieWaiting(w) PROVE TypeOK'
    BY <1>18 DEF TypeOK, Move, WorkerStates, MainStates, clientVars, DieWaiting
  <1>19. ASSUME NEW w \in Workers, DieRunning(w) PROVE TypeOK'
    BY <1>19 DEF TypeOK, Move, WorkerStates, MainStates, clientVars, DieRunning
  <1>20. ASSUME NEW w \in Workers, Stray(w) PROVE TypeOK'
    BY <1>20 DEF TypeOK, Move, WorkerStates, MainStates, clientVars, Stray
  <1>21. CASE UNCHANGED vars
    BY <1>21 DEF TypeOK, Move, WorkerStates, MainStates, clientVars, vars
  <1> QED
    BY <1>1, <1>2, <1>3, <1>4, <1>5, <1>6, <1>7, <1>8, <1>9, <1>10,
       <1>11, <1>12, <1>13, <1>14, <1>15, <1>16, <1>17, <1>18, <1>19, <1>20,
       <1>21
       DEF Next, Client, Worker, Terminated

(* CounterExact: only Lock and Take move a worker across the border of the *)
(* group that is counted; the exceptions need a cancellation or a freed    *)
(* pool, and the counter means nothing after those.                        *)
LEMMA CounterExactStep ==
    ASSUME TypeOK, Shutdown, CounterExact, [Next]_vars PROVE CounterExact'
  <1> USE DEF CounterExact
  <1>1. ASSUME NEW w \in Workers, Create(w) PROVE CounterExact'
    <2>1. wpc[w] = "unborn" /\ Move(w, "start") BY <1>1 DEF Create
    <2>2. "unborn" \notin Counted /\ "start" \notin Counted BY DEF Counted
    <2>3. In(Counted)' = In(Counted)
      BY <2>1, <2>2, MoveIn DEF TypeOK
    <2> QED BY <1>1, <2>3 DEF Create
  <1>2. CASE CreateFails
    BY <1>2 DEF CreateFails, In, vars, clientVars
  <1>3. ASSUME NEW t \in Tasks, Submit(t) PROVE CounterExact'
    <2>1. CASE UNCHANGED wpc
      BY <1>3, <2>1 DEF Submit, In
    <2>2. ASSUME NEW w \in In(Asleep), Move(w, "woken")
          PROVE CounterExact'
      <3>1. w \in Workers /\ wpc[w] = "sleeping" BY <2>2 DEF In, Asleep
      <3>2. "sleeping" \in Counted /\ "woken" \in Counted BY DEF Counted
      <3>3. In(Counted)' = In(Counted)
        BY <2>2, <3>1, <3>2, MoveIn DEF TypeOK
      <3> QED BY <1>3, <3>3 DEF Submit
    <2> QED BY <1>3, <2>1, <2>2 DEF Submit, Signal
  <1>4. ASSUME NEW t \in Tasks, SubmitFails(t) PROVE CounterExact'
    BY <1>4 DEF SubmitFails, In, vars, clientVars
  <1>5. CASE AwaitBegins
    BY <1>5 DEF AwaitBegins, In, vars, clientVars
  <1>6. CASE AwaitReturns
    BY <1>6 DEF AwaitReturns, In, vars, clientVars
  <1>7. CASE FreeRefuses
    BY <1>7 DEF FreeRefuses, In, vars, clientVars
  <1>8. CASE FreeQueue
    BY <1>8 DEF FreeQueue, In, vars, clientVars
  <1>9. ASSUME NEW w \in Workers, Cancel(w) PROVE CounterExact'
    BY <1>9 DEF Cancel, TypeOK
  <1>10. CASE FreePool
    BY <1>10 DEF FreePool, In, vars, clientVars
  <1>11. CASE Exit
    BY <1>11 DEF Exit, In, vars, clientVars
  <1>12. ASSUME NEW w \in Workers, Lock(w) PROVE CounterExact'
    <2>1. wpc[w] = "start" /\ Move(w, "holding") BY <1>12 DEF Lock
    <2>2. "start" \notin Counted /\ "holding" \in Counted BY DEF Counted
    <2>3. Cardinality(In(Counted)') = Cardinality(In(Counted)) + 1
      BY <2>1, <2>2, MoveIn DEF TypeOK
    <2> QED BY <1>12, <2>3, InFinite DEF Lock, TypeOK, clientVars
  <1>13. ASSUME NEW w \in Workers, Wait(w) PROVE CounterExact'
    <2>1. wpc[w] = "holding" /\ Move(w, "sleeping") BY <1>13 DEF Wait
    <2>2. "holding" \in Counted /\ "sleeping" \in Counted BY DEF Counted
    <2>3. In(Counted)' = In(Counted)
      BY <2>1, <2>2, MoveIn DEF TypeOK
    <2> QED BY <1>13, <2>3 DEF Wait, clientVars
  <1>14. ASSUME NEW w \in Workers, Reacquire(w) PROVE CounterExact'
    <2>1. wpc[w] = "woken" /\ Move(w, "holding") BY <1>14 DEF Reacquire
    <2>2. "woken" \in Counted /\ "holding" \in Counted BY DEF Counted
    <2>3. In(Counted)' = In(Counted)
      BY <2>1, <2>2, MoveIn DEF TypeOK
    <2> QED BY <1>14, <2>3 DEF Reacquire, clientVars
  <1>15. ASSUME NEW w \in Workers, Take(w) PROVE CounterExact'
    <2>1. wpc[w] = "holding" /\ Move(w, "running") BY <1>15 DEF Take
    <2>2. "holding" \in Counted /\ "running" \notin Counted BY DEF Counted
    <2>3. Cardinality(In(Counted)') = Cardinality(In(Counted)) - 1
      BY <2>1, <2>2, MoveIn DEF TypeOK
    <2> QED BY <1>15, <2>3, InFinite DEF Take, TypeOK, clientVars
  <1>16. ASSUME NEW w \in Workers, Finish(w) PROVE CounterExact'
    <2>1. wpc[w] = "running" /\ Move(w, "start") BY <1>16 DEF Finish
    <2>2. "running" \notin Counted /\ "start" \notin Counted BY DEF Counted
    <2>3. In(Counted)' = In(Counted)
      BY <2>1, <2>2, MoveIn DEF TypeOK
    <2> QED BY <1>16, <2>3 DEF Finish, clientVars
  <1>17. ASSUME NEW w \in Workers, SpuriousWakeup(w) PROVE CounterExact'
    <2>1. wpc[w] = "sleeping" /\ Move(w, "woken") BY <1>17 DEF SpuriousWakeup
    <2>2. "sleeping" \in Counted /\ "woken" \in Counted BY DEF Counted
    <2>3. In(Counted)' = In(Counted)
      BY <2>1, <2>2, MoveIn DEF TypeOK
    <2> QED BY <1>17, <2>3 DEF SpuriousWakeup, clientVars
  <1>18. ASSUME NEW w \in Workers, DieWaiting(w) PROVE CounterExact'
    BY <1>18 DEF DieWaiting, clientVars
  <1>19. ASSUME NEW w \in Workers, DieRunning(w) PROVE CounterExact'
    BY <1>19 DEF DieRunning, clientVars
  <1>20. ASSUME NEW w \in Workers, Stray(w) PROVE CounterExact'
    BY <1>20 DEF Stray, clientVars
  <1>21. CASE UNCHANGED vars
    BY <1>21 DEF vars, In, vars, clientVars
  <1> QED
    BY <1>1, <1>2, <1>3, <1>4, <1>5, <1>6, <1>7, <1>8, <1>9, <1>10,
       <1>11, <1>12, <1>13, <1>14, <1>15, <1>16, <1>17, <1>18, <1>19, <1>20,
       <1>21
       DEF Next, Client, Worker, Terminated

(* With nothing queued there is nothing to wake up for.                    *)
LEMMA NothingQueued ==
    ASSUME queue' = <<>> PROVE NoLostWakeup'
  <1>1. Len(queue') = 0 OBVIOUS
  <1>2. Cardinality(In(Coming)') \in Nat
    <2>1. In(Coming)' \subseteq Workers BY DEF In
    <2> QED BY <2>1, FS_Subset, FS_CardinalityType
  <1> QED BY <1>1, <1>2 DEF NoLostWakeup

(* NoLostWakeup: Submit lengthens the queue and moves one sleeper, Take    *)
(* shortens it by what the taker was good for, Wait needs an empty queue;  *)
(* a worker dies or strays only when Shutdown says the queue is empty.     *)
LEMMA NoLostWakeupStep ==
    ASSUME TypeOK, Shutdown, NoLostWakeup, [Next]_vars PROVE NoLostWakeup'
  <1> USE DEF NoLostWakeup
  <1>1. ASSUME NEW w \in Workers, Create(w) PROVE NoLostWakeup'
    <2>1. wpc[w] = "unborn" /\ Move(w, "start") BY <1>1 DEF Create
    <2>2. "unborn" \notin Coming /\ "start" \notin Coming BY DEF Coming
    <2>3. In(Coming)' = In(Coming)
      BY <2>1, <2>2, MoveIn DEF TypeOK
    <2>4. "unborn" \notin Asleep /\ "start" \notin Asleep BY DEF Asleep
    <2>5. In(Asleep)' = In(Asleep)
      BY <2>1, <2>4, MoveIn DEF TypeOK
    <2> QED BY <1>1, <2>3, <2>5 DEF Create
  <1>2. CASE CreateFails
    BY <1>2 DEF CreateFails, In, vars, clientVars
  <1>3. ASSUME NEW t \in Tasks, Submit(t) PROVE NoLostWakeup'
    <2>1. Len(queue') = Len(queue) + 1 /\ Len(queue) \in Nat
      BY <1>3, AppendProperties, LenProperties DEF Submit, TypeOK
    <2>2. CASE In(Asleep) = {}
      BY <1>3, <2>2 DEF Submit, Signal, In
    <2>3. ASSUME NEW w \in In(Asleep), Move(w, "woken")
          PROVE NoLostWakeup'
      <3>1. w \in Workers /\ wpc[w] = "sleeping" BY <2>3 DEF In, Asleep
      <3>2. "sleeping" \notin Coming /\ "woken" \in Coming BY DEF Coming
      <3>3. Cardinality(In(Coming)') = Cardinality(In(Coming)) + 1
        BY <2>3, <3>1, <3>2, MoveIn DEF TypeOK
      <3> QED BY <2>1, <2>3, <3>3, InFinite
    <2> QED BY <1>3, <2>2, <2>3 DEF Submit, Signal
  <1>4. ASSUME NEW t \in Tasks, SubmitFails(t) PROVE NoLostWakeup'
    BY <1>4 DEF SubmitFails, In, vars, clientVars
  <1>5. CASE AwaitBegins
    BY <1>5 DEF AwaitBegins, In, vars, clientVars
  <1>6. CASE AwaitReturns
    BY <1>6 DEF AwaitReturns, In, vars, clientVars
  <1>7. CASE FreeRefuses
    BY <1>7 DEF FreeRefuses, In, vars, clientVars
  <1>8. CASE FreeQueue
    BY <1>8 DEF FreeQueue, In, vars, clientVars
  <1>9. ASSUME NEW w \in Workers, Cancel(w) PROVE NoLostWakeup'
    BY <1>9 DEF Cancel, In, vars, clientVars
  <1>10. CASE FreePool
    BY <1>10 DEF FreePool, In, vars, clientVars
  <1>11. CASE Exit
    BY <1>11 DEF Exit, In, vars, clientVars
  <1>12. ASSUME NEW w \in Workers, Lock(w) PROVE NoLostWakeup'
    <2>1. wpc[w] = "start" /\ Move(w, "holding") BY <1>12 DEF Lock
    <2>2. "start" \notin Coming /\ "holding" \in Coming BY DEF Coming
    <2>3. Cardinality(In(Coming)') = Cardinality(In(Coming)) + 1
      BY <2>1, <2>2, MoveIn DEF TypeOK
    <2>4. "start" \notin Asleep /\ "holding" \notin Asleep BY DEF Asleep
    <2>5. In(Asleep)' = In(Asleep)
      BY <2>1, <2>4, MoveIn DEF TypeOK
    <2> QED BY <1>12, <2>3, <2>5, InFinite, LenProperties DEF Lock, TypeOK
  <1>13. ASSUME NEW w \in Workers, Wait(w) PROVE NoLostWakeup'
    BY <1>13, NothingQueued DEF Wait
  <1>14. ASSUME NEW w \in Workers, Reacquire(w) PROVE NoLostWakeup'
    <2>1. wpc[w] = "woken" /\ Move(w, "holding") BY <1>14 DEF Reacquire
    <2>2. "woken" \in Coming /\ "holding" \in Coming BY DEF Coming
    <2>3. In(Coming)' = In(Coming)
      BY <2>1, <2>2, MoveIn DEF TypeOK
    <2>4. "woken" \notin Asleep /\ "holding" \notin Asleep BY DEF Asleep
    <2>5. In(Asleep)' = In(Asleep)
      BY <2>1, <2>4, MoveIn DEF TypeOK
    <2> QED BY <1>14, <2>3, <2>5 DEF Reacquire
  <1>15. ASSUME NEW w \in Workers, Take(w) PROVE NoLostWakeup'
    <2>1. wpc[w] = "holding" /\ Move(w, "running") BY <1>15 DEF Take
    <2>2. "holding" \in Coming /\ "running" \notin Coming BY DEF Coming
    <2>3. Cardinality(In(Coming)') = Cardinality(In(Coming)) - 1
      BY <2>1, <2>2, MoveIn DEF TypeOK
    <2>4. "holding" \notin Asleep /\ "running" \notin Asleep BY DEF Asleep
    <2>5. In(Asleep)' = In(Asleep)
      BY <2>1, <2>4, MoveIn DEF TypeOK
    <2>6. Len(queue') = Len(queue) - 1
      BY <1>15, HeadTailProperties DEF Take, TypeOK
    <2> QED BY <1>15, <2>3, <2>5, <2>6, InFinite, LenProperties
       DEF Take, TypeOK
  <1>16. ASSUME NEW w \in Workers, Finish(w) PROVE NoLostWakeup'
    <2>1. wpc[w] = "running" /\ Move(w, "start") BY <1>16 DEF Finish
    <2>2. "running" \notin Coming /\ "start" \notin Coming BY DEF Coming
    <2>3. In(Coming)' = In(Coming)
      BY <2>1, <2>2, MoveIn DEF TypeOK
    <2>4. "running" \notin Asleep /\ "start" \notin Asleep BY DEF Asleep
    <2>5. In(Asleep)' = In(Asleep)
      BY <2>1, <2>4, MoveIn DEF TypeOK
    <2> QED BY <1>16, <2>3, <2>5 DEF Finish
  <1>17. ASSUME NEW w \in Workers, SpuriousWakeup(w) PROVE NoLostWakeup'
    <2>1. wpc[w] = "sleeping" /\ Move(w, "woken") BY <1>17 DEF SpuriousWakeup
    <2>2. "sleeping" \notin Coming /\ "woken" \in Coming BY DEF Coming
    <2>3. Cardinality(In(Coming)') = Cardinality(In(Coming)) + 1
      BY <2>1, <2>2, MoveIn DEF TypeOK
    <2>4. In(Asleep) # {} BY <1>17 DEF SpuriousWakeup, In, Asleep
    <2> QED BY <1>17, <2>3, <2>4, InFinite, LenProperties
       DEF SpuriousWakeup, TypeOK
  <1>18. ASSUME NEW w \in Workers, DieWaiting(w) PROVE NoLostWakeup'
    BY <1>18, NothingQueued DEF DieWaiting, Shutdown
  <1>19. ASSUME NEW w \in Workers, DieRunning(w) PROVE NoLostWakeup'
    BY <1>19, NothingQueued DEF DieRunning, Shutdown
  <1>20. ASSUME NEW w \in Workers, Stray(w) PROVE NoLostWakeup'
    BY <1>20, NothingQueued DEF Stray, Shutdown
  <1>21. CASE UNCHANGED vars
    BY <1>21 DEF vars, In, vars, clientVars
  <1> QED
    BY <1>1, <1>2, <1>3, <1>4, <1>5, <1>6, <1>7, <1>8, <1>9, <1>10,
       <1>11, <1>12, <1>13, <1>14, <1>15, <1>16, <1>17, <1>18, <1>19, <1>20,
       <1>21
       DEF Next, Client, Worker, Terminated

-----------------------------------------------------------------------------
(* What the three steps that move a task do to Queued and InHand.          *)
LEMMA SubmitEffect ==
    ASSUME TypeOK, TasksConserved, NEW t \in Tasks, Submit(t)
    PROVE  /\ Queued' = Queued \cup {t}
           /\ InHand' = InHand
           /\ t \notin Queued \cup InHand \cup done \cup refused
           /\ \A i, j \in DOMAIN queue' : i # j => queue'[i] # queue'[j]
  <1>1. /\ DOMAIN queue = 1..Len(queue) /\ Len(queue) \in Nat
        /\ DOMAIN queue' = 1..(Len(queue) + 1)
        /\ \A i \in 1..Len(queue) : queue'[i] = queue[i]
        /\ queue'[Len(queue) + 1] = t
    BY AppendProperties, LenProperties DEF Submit, TypeOK
  <1>2. t \notin Queued \cup InHand \cup done \cup refused
    BY DEF Submit, TasksConserved
  <1>3. Queued' = Queued \cup {t}
    BY <1>1 DEF Queued
  <1>4. InHand' = InHand
    BY DEF InHand, Submit
  <1>5. \A i, j \in DOMAIN queue' : i # j => queue'[i] # queue'[j]
    BY <1>1, <1>2 DEF TasksConserved, Queued
  <1> QED BY <1>2, <1>3, <1>4, <1>5

LEMMA TakeEffect ==
    ASSUME TypeOK, HandsMatch, TasksConserved, NEW w \in Workers, Take(w)
    PROVE  /\ Head(queue) \in Queued
           /\ Head(queue) \in Tasks
           /\ Queued' = Queued \ {Head(queue)}
           /\ InHand' = InHand \cup {Head(queue)}
           /\ \A i, j \in DOMAIN queue' : i # j => queue'[i] # queue'[j]
           /\ \A u, v \in Workers : u # v /\ task'[u] # NoTask =>
                    task'[u] # task'[v]
  <1>1. /\ DOMAIN queue = 1..Len(queue) /\ Len(queue) \in Nat \ {0}
        /\ DOMAIN queue' = 1..(Len(queue) - 1)
        /\ \A i \in 1..(Len(queue) - 1) : queue'[i] = queue[i + 1]
        /\ Head(queue) = queue[1] /\ Head(queue) \in Tasks
    BY EmptySeq, HeadTailProperties, LenProperties DEF Take, TypeOK
  <1>2. /\ task[w] = NoTask
        /\ \A v \in Workers : task'[v] = IF v = w THEN Head(queue) ELSE task[v]
    BY DEF Take, HandsMatch, Empty, TypeOK
  <1>3. Head(queue) \in Queued
    BY <1>1 DEF Queued
  <1>4. \A i \in DOMAIN queue : i # 1 => queue[i] # queue[1]
    BY <1>1 DEF TasksConserved
  <1>5. Queued' = Queued \ {Head(queue)}
    <2>1. ASSUME NEW x \in Queued' PROVE x \in Queued \ {Head(queue)}
      BY <1>1, <1>4, <2>1 DEF Queued
    <2>2. ASSUME NEW x \in Queued, x # Head(queue) PROVE x \in Queued'
      <3>1. PICK i \in DOMAIN queue : x = queue[i] BY DEF Queued
      <3>2. i - 1 \in DOMAIN queue' /\ queue'[i - 1] = x
        BY <1>1, <2>2, <3>1
      <3> QED BY <3>2 DEF Queued
    <2> QED BY <2>1, <2>2
  <1>6. InHand' = InHand \cup {Head(queue)}
    BY <1>1, <1>2, TasksAssumption DEF InHand
  <1>7. \A i, j \in DOMAIN queue' : i # j => queue'[i] # queue'[j]
    BY <1>1 DEF TasksConserved
  <1>8. Head(queue) \notin InHand
    BY <1>3 DEF TasksConserved
  <1>9. \A u, v \in Workers : u # v /\ task'[u] # NoTask => task'[u] # task'[v]
    BY <1>2, <1>8 DEF TasksConserved, InHand
  <1> QED BY <1>1, <1>3, <1>5, <1>6, <1>7, <1>9

LEMMA FinishEffect ==
    ASSUME TypeOK, HandsMatch, TasksConserved, NEW w \in Workers, Finish(w)
    PROVE  /\ task[w] \in InHand
           /\ task[w] \in Tasks
           /\ InHand' = InHand \ {task[w]}
           /\ Queued' = Queued
           /\ \A u, v \in Workers : u # v /\ task'[u] # NoTask =>
                    task'[u] # task'[v]
  <1>1. /\ task[w] # NoTask /\ task[w] \in Tasks
        /\ \A v \in Workers : task'[v] = IF v = w THEN NoTask ELSE task[v]
    BY DEF Finish, HandsMatch, TypeOK
  <1>2. InHand' = InHand \ {task[w]}
    BY <1>1 DEF InHand, TasksConserved
  <1>3. \A u, v \in Workers : u # v /\ task'[u] # NoTask => task'[u] # task'[v]
    BY <1>1 DEF TasksConserved
  <1>4. Queued' = Queued
    BY DEF Finish, Queued
  <1> QED BY <1>1, <1>2, <1>3, <1>4 DEF InHand

(* TasksConserved: every other action leaves all five places alone.        *)
LEMMA TasksConservedStep ==
    ASSUME TypeOK, HandsMatch, TasksConserved, [Next]_vars
    PROVE TasksConserved'
  <1>1. ASSUME NEW w \in Workers, Create(w) PROVE TasksConserved'
    BY <1>1 DEF Create, TasksConserved, Queued, InHand, clientVars
  <1>2. CASE CreateFails
    BY <1>2 DEF CreateFails, TasksConserved, Queued, InHand, clientVars
  <1>3. ASSUME NEW t \in Tasks, Submit(t) PROVE TasksConserved'
    BY <1>3, SubmitEffect DEF Submit, TasksConserved
  <1>4. ASSUME NEW t \in Tasks, SubmitFails(t) PROVE TasksConserved'
    <2>1. Queued' = Queued /\ InHand' = InHand
      BY <1>4 DEF SubmitFails, Queued, InHand
    <2> QED BY <1>4, <2>1 DEF SubmitFails, TasksConserved
  <1>5. CASE AwaitBegins
    BY <1>5 DEF AwaitBegins, TasksConserved, Queued, InHand, clientVars
  <1>6. CASE AwaitReturns
    BY <1>6 DEF AwaitReturns, TasksConserved, Queued, InHand, clientVars
  <1>7. CASE FreeRefuses
    BY <1>7 DEF FreeRefuses, TasksConserved, Queued, InHand, clientVars
  <1>8. CASE FreeQueue
    BY <1>8 DEF FreeQueue, TasksConserved, Queued, InHand, clientVars
  <1>9. ASSUME NEW w \in Workers, Cancel(w) PROVE TasksConserved'
    BY <1>9 DEF Cancel, TasksConserved, Queued, InHand, clientVars
  <1>10. CASE FreePool
    BY <1>10 DEF FreePool, TasksConserved, Queued, InHand, clientVars
  <1>11. CASE Exit
    BY <1>11 DEF Exit, TasksConserved, Queued, InHand, clientVars
  <1>12. ASSUME NEW w \in Workers, Lock(w) PROVE TasksConserved'
    BY <1>12 DEF Lock, TasksConserved, Queued, InHand, clientVars
  <1>13. ASSUME NEW w \in Workers, Wait(w) PROVE TasksConserved'
    BY <1>13 DEF Wait, TasksConserved, Queued, InHand, clientVars
  <1>14. ASSUME NEW w \in Workers, Reacquire(w) PROVE TasksConserved'
    BY <1>14 DEF Reacquire, TasksConserved, Queued, InHand, clientVars
  <1>15. ASSUME NEW w \in Workers, Take(w) PROVE TasksConserved'
    <2> DEFINE h == Head(queue)
    <2>1. /\ h \in Queued
          /\ Queued' = Queued \ {h}
          /\ InHand' = InHand \cup {h}
      BY <1>15, TakeEffect
    <2>2. UNCHANGED <<todo, refused, done>>
      BY <1>15 DEF Take, clientVars
    <2> HIDE DEF h
    <2>3. Tasks = todo' \cup refused' \cup Queued' \cup InHand' \cup done'
      BY <2>1, <2>2 DEF TasksConserved
    <2>4. /\ todo' \cap (refused' \cup Queued' \cup InHand' \cup done') = {}
          /\ refused' \cap (Queued' \cup InHand' \cup done') = {}
          /\ Queued' \cap (InHand' \cup done') = {}
          /\ InHand' \cap done' = {}
      BY <2>1, <2>2 DEF TasksConserved
    <2>5. /\ \A i, j \in DOMAIN queue' : i # j => queue'[i] # queue'[j]
          /\ \A u, v \in Workers : u # v /\ task'[u] # NoTask =>
                task'[u] # task'[v]
      BY <1>15, TakeEffect
    <2> QED BY <2>3, <2>4, <2>5 DEF TasksConserved
  <1>16. ASSUME NEW w \in Workers, Finish(w) PROVE TasksConserved'
    <2> DEFINE t == task[w]
    <2>1. /\ t \in InHand
          /\ Queued' = Queued
          /\ InHand' = InHand \ {t}
      BY <1>16, FinishEffect
    <2>2. UNCHANGED <<todo, refused, queue>> /\ done' = done \cup {t}
      BY <1>16 DEF Finish, clientVars
    <2> HIDE DEF t
    <2>3. Tasks = todo' \cup refused' \cup Queued' \cup InHand' \cup done'
      BY <2>1, <2>2 DEF TasksConserved
    <2>4. /\ todo' \cap (refused' \cup Queued' \cup InHand' \cup done') = {}
          /\ refused' \cap (Queued' \cup InHand' \cup done') = {}
          /\ Queued' \cap (InHand' \cup done') = {}
          /\ InHand' \cap done' = {}
      BY <2>1, <2>2 DEF TasksConserved
    <2>5. \A u, v \in Workers : u # v /\ task'[u] # NoTask =>
                task'[u] # task'[v]
      BY <1>16, FinishEffect
    <2>6. \A i, j \in DOMAIN queue' : i # j => queue'[i] # queue'[j]
      BY <2>2 DEF TasksConserved
    <2> QED BY <2>3, <2>4, <2>5, <2>6 DEF TasksConserved
  <1>17. ASSUME NEW w \in Workers, SpuriousWakeup(w) PROVE TasksConserved'
    BY <1>17 DEF SpuriousWakeup, TasksConserved, Queued, InHand, clientVars
  <1>18. ASSUME NEW w \in Workers, DieWaiting(w) PROVE TasksConserved'
    BY <1>18 DEF DieWaiting, TasksConserved, Queued, InHand, clientVars
  <1>19. ASSUME NEW w \in Workers, DieRunning(w) PROVE TasksConserved'
    BY <1>19 DEF DieRunning, TasksConserved, Queued, InHand, clientVars
  <1>20. ASSUME NEW w \in Workers, Stray(w) PROVE TasksConserved'
    BY <1>20 DEF Stray, TasksConserved, Queued, InHand, clientVars
  <1>21. CASE UNCHANGED vars
    BY <1>21 DEF vars, TasksConserved, Queued, InHand, clientVars
  <1> QED
    BY <1>1, <1>2, <1>3, <1>4, <1>5, <1>6, <1>7, <1>8, <1>9, <1>10,
       <1>11, <1>12, <1>13, <1>14, <1>15, <1>16, <1>17, <1>18, <1>19, <1>20,
       <1>21
       DEF Next, Client, Worker, Terminated

-----------------------------------------------------------------------------
(* Inv is inductive: it holds at first and each step keeps it.             *)
LEMMA InvInit == Init => Inv
  <1> SUFFICES ASSUME Init PROVE Inv OBVIOUS
  <1>1. TypeOK
    BY DEF Init, TypeOK, WorkerStates, MainStates
  <1>2. Shutdown /\ HandsMatch
    BY DEF Init, Shutdown, HandsMatch
  <1>3. In(Counted) = {} /\ In(Asleep) = {}
    BY DEF Init, In, Counted, Asleep
  <1>4. CounterExact /\ NoLostWakeup
    BY <1>3, FS_EmptySet DEF Init, CounterExact, NoLostWakeup
  <1>5. TasksConserved
    BY DEF Init, TasksConserved, Queued, InHand
  <1> QED BY <1>1, <1>2, <1>4, <1>5 DEF Inv

(* TypeOK, Shutdown and HandsMatch carry the parts that come after them.   *)
LEMMA InvStep == Inv /\ [Next]_vars => Inv'
  BY TypeOKStep, ShutdownStep, HandsMatchStep, CounterExactStep,
     NoLostWakeupStep, TasksConservedStep DEF Inv

(* So Inv holds in every state thread_pool.c can be in.                    *)
THEOREM Invariance == Spec => []Inv
  BY InvInit, InvStep, PTL DEF Spec

(* Every variable keeps its shape; in particular pool->counter, an         *)
(* unsigned atomic, never goes below zero in thread_function.              *)
THEOREM TypeCorrect == Spec => []TypeOK
  <1>1. Inv => TypeOK BY DEF Inv
  <1> QED BY <1>1, Invariance, PTL

(* No task is run twice or lost between main, the queue and the workers.   *)
THEOREM Conservation == Spec => []TasksConserved
  <1>1. Inv => TasksConserved BY DEF Inv
  <1> QED BY <1>1, Invariance, PTL

(* One pthread_cond_signal per DgdPool_submit is enough: while a worker    *)
(* sleeps there are as many workers coming as there are tasks queued.      *)
THEOREM NoWakeupIsLost == Spec => []NoLostWakeup
  <1>1. Inv => NoLostWakeup BY DEF Inv
  <1> QED BY <1>1, Invariance, PTL

(* The counter DgdPool_await spins on counts the workers between its       *)
(* increment and its decrement.                                            *)
THEOREM CounterIsExact == Spec => []CounterExact
  <1>1. Inv => CounterExact BY DEF Inv
  <1> QED BY <1>1, Invariance, PTL

(* DgdPool_free never frees a queue that still has a task in it.           *)
THEOREM FreeIsSafeForTasks == Spec => []FreeLosesNothingQueued
  <1>1. Inv => FreeLosesNothingQueued
    BY DEF Inv, Shutdown, FreeLosesNothingQueued
  <1> QED BY <1>1, Invariance, PTL

-----------------------------------------------------------------------------
(* The pool implements TaskQueue: Submit accepts, SubmitFails refuses,     *)
(* Take starts, Finish completes, and every other step is a stutter.       *)
LEMMA RefinesInit == Init => TQ!Init
  BY DEF Init, TQ!Init, InHand

(* Each step of the threads is one of TaskQueue's or invisible to it.      *)
LEMMA RefinesStep == Inv /\ [Next]_vars => [TQ!Next]_(TQ!tqVars)
  <1> SUFFICES ASSUME Inv, [Next]_vars PROVE [TQ!Next]_(TQ!tqVars)
    OBVIOUS
  <1>1. ASSUME NEW w \in Workers, Create(w) PROVE [TQ!Next]_(TQ!tqVars)
    BY <1>1 DEF Create, TQ!tqVars, InHand, clientVars
  <1>2. CASE CreateFails
    BY <1>2 DEF CreateFails, TQ!tqVars, InHand, clientVars
  <1>3. ASSUME NEW t \in Tasks, Submit(t) PROVE [TQ!Next]_(TQ!tqVars)
    <2>1. t \notin TQ!Seen
      BY <1>3, SubmitEffect DEF Inv, TQ!Seen, Queued
    <2>2. TQ!Accept(t)
      BY <1>3, <2>1, SubmitEffect DEF Inv, TQ!Accept, Submit
    <2> QED BY <2>2 DEF TQ!Next
  <1>4. ASSUME NEW t \in Tasks, SubmitFails(t) PROVE [TQ!Next]_(TQ!tqVars)
    <2>1. t \notin TQ!Seen
      BY <1>4 DEF Inv, SubmitFails, TasksConserved, Queued, TQ!Seen
    <2>2. InHand' = InHand BY <1>4 DEF SubmitFails, InHand
    <2>3. TQ!Refuse(t)
      BY <1>4, <2>1, <2>2 DEF TQ!Refuse, SubmitFails
    <2> QED BY <2>3 DEF TQ!Next
  <1>5. CASE AwaitBegins
    BY <1>5 DEF AwaitBegins, TQ!tqVars, InHand, clientVars
  <1>6. CASE AwaitReturns
    BY <1>6 DEF AwaitReturns, TQ!tqVars, InHand, clientVars
  <1>7. CASE FreeRefuses
    BY <1>7 DEF FreeRefuses, TQ!tqVars, InHand, clientVars
  <1>8. CASE FreeQueue
    BY <1>8 DEF FreeQueue, TQ!tqVars, InHand, clientVars
  <1>9. ASSUME NEW w \in Workers, Cancel(w) PROVE [TQ!Next]_(TQ!tqVars)
    BY <1>9 DEF Cancel, TQ!tqVars, InHand, clientVars
  <1>10. CASE FreePool
    BY <1>10 DEF FreePool, TQ!tqVars, InHand, clientVars
  <1>11. CASE Exit
    BY <1>11 DEF Exit, TQ!tqVars, InHand, clientVars
  <1>12. ASSUME NEW w \in Workers, Lock(w) PROVE [TQ!Next]_(TQ!tqVars)
    BY <1>12 DEF Lock, TQ!tqVars, InHand, clientVars
  <1>13. ASSUME NEW w \in Workers, Wait(w) PROVE [TQ!Next]_(TQ!tqVars)
    BY <1>13 DEF Wait, TQ!tqVars, InHand, clientVars
  <1>14. ASSUME NEW w \in Workers, Reacquire(w) PROVE [TQ!Next]_(TQ!tqVars)
    BY <1>14 DEF Reacquire, TQ!tqVars, InHand, clientVars
  <1>15. ASSUME NEW w \in Workers, Take(w) PROVE [TQ!Next]_(TQ!tqVars)
    <2>1. TQ!Start
      BY <1>15, TakeEffect DEF Inv, TQ!Start, Take, clientVars
    <2> QED BY <2>1 DEF TQ!Next
  <1>16. ASSUME NEW w \in Workers, Finish(w) PROVE [TQ!Next]_(TQ!tqVars)
    <2>1. TQ!Complete(task[w]) /\ task[w] \in Tasks
      BY <1>16, FinishEffect DEF Inv, TQ!Complete, Finish, clientVars
    <2> QED BY <2>1 DEF TQ!Next
  <1>17. ASSUME NEW w \in Workers, SpuriousWakeup(w)
         PROVE [TQ!Next]_(TQ!tqVars)
    BY <1>17 DEF SpuriousWakeup, TQ!tqVars, InHand, clientVars
  <1>18. ASSUME NEW w \in Workers, DieWaiting(w) PROVE [TQ!Next]_(TQ!tqVars)
    BY <1>18 DEF DieWaiting, TQ!tqVars, InHand, clientVars
  <1>19. ASSUME NEW w \in Workers, DieRunning(w) PROVE [TQ!Next]_(TQ!tqVars)
    BY <1>19 DEF DieRunning, TQ!tqVars, InHand, clientVars
  <1>20. ASSUME NEW w \in Workers, Stray(w) PROVE [TQ!Next]_(TQ!tqVars)
    BY <1>20 DEF Stray, TQ!tqVars, InHand, clientVars
  <1>21. CASE UNCHANGED vars
    BY <1>21 DEF vars, TQ!tqVars, InHand, vars, clientVars
  <1> QED
    BY <1>1, <1>2, <1>3, <1>4, <1>5, <1>6, <1>7, <1>8, <1>9, <1>10,
       <1>11, <1>12, <1>13, <1>14, <1>15, <1>16, <1>17, <1>18, <1>19, <1>20,
       <1>21
       DEF Next, Client, Worker, Terminated

(* What thread_pool.h promises its caller is what the threads deliver.     *)
THEOREM PoolIsTaskQueue == Spec => TaskQueueSpec
  <1>1. Init => TQ!Init BY RefinesInit
  <1>2. Inv /\ [Next]_vars => [TQ!Next]_(TQ!tqVars) BY RefinesStep
  <1> QED BY <1>1, <1>2, Invariance, PTL DEF Spec, TaskQueueSpec, TQ!Spec

=============================================================================
