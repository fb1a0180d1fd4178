------------------------- MODULE LogAnalyzerProofs --------------------------
(***************************************************************************)
(* The log analyzer, for any number of workers, any files and any failing  *)
(* allocations, spurious wakeups and cancellations.                        *)
(*                                                                         *)
(* 1. Its jobs keep the contract of the hash map: they add only what is    *)
(*    missing.  AddIsMissing alone is not inductive: Placed also ties the  *)
(*    place of a job in collect_statistics to the mutex of the map, and    *)
(*    says that a worker which takes a task is at the start of the loop.   *)
(* 2. Its totals are exact.  Books says that a counter is the sum of the   *)
(*    parts counted for its key (Summed), that nothing is counted before   *)
(*    its job has come to it, so that no part is counted twice (Fresh),    *)
(*    and that no line behind a job is missing (NoneSkipped).              *)
(* 3. Its report is right.  Topped says that the arrays hold the largest   *)
(*    of the keys seen so far; that filter_statistics keeps this for the   *)
(*    next key is the loop invariant Loop.                                 *)
(* 4. DgdPool_await does not wait for ever.  Busy: up to then whoever has  *)
(*    a mutex is at a step that gives it back, so if nobody could go on    *)
(*    both would be free and all workers would be asleep, which is what    *)
(*    the counter waits for (CounterExact).                                *)
(*                                                                         *)
(* The sum over a set and the loop over an array are recursive functions,  *)
(* which are choices in TLA+.  What they compute is proved by a least      *)
(* counterexample, as the naturals are well-founded.                       *)
(***************************************************************************)
EXTENDS LogAnalyzer, ThreadPoolProofs, WellFoundedInduction

Places == {"parse", "url", "newurl", "referer", "newreferer"}

(* As far as it takes to follow one worker.                                *)
Shape ==
    /\ wpc \in [Workers -> WorkerStates] /\ lpc \in [Workers -> Places]
    /\ task = [w \in Workers |-> task[w]] /\ line = [w \in Workers |-> line[w]]

(* The worker w is where the invariant wants it.                           *)
Placed(w) ==
    /\ wpc[w] = "running" /\ lpc[w] # "parse" => maplock = w
    /\ wpc[w] \notin {"running", "dead", "stray"} => lpc[w] = "parse"
    /\ stage = "collect" /\ wpc[w] = "running" =>
          /\ lpc[w] = "newurl" => ThisLine(w).url \notin DOMAIN table
          /\ lpc[w] = "newreferer" => ThisLine(w).referer \in Strings \ DOMAIN table

(* The mutex is not free while a worker holds it.                          *)
LEMMA NobodyIs == NoThread \notin Workers
  BY WorkersAssumption

-----------------------------------------------------------------------------
(* A step of the pool that takes no task and ends none.                    *)
Bystanding ==
    \/ Client
    \/ \E w \in Workers : \/ Lock(w) \/ Wait(w) \/ Reacquire(w) \/ DieWaiting(w)
                          \/ DieRunning(w) \/ Stray(w) \/ SpuriousWakeup(w)
    \/ Terminated

(* It starts no job: a worker that is in none is in none afterwards, and   *)
(* one that is in a job is cancelled or lost, or stays where it is.        *)
Undisturbed(w) ==
    \/ wpc'[w] = wpc[w]
    \/ wpc'[w] \in {"dead", "stray"}
    \/ wpc[w] \notin {"running", "dead", "stray"} /\ wpc'[w] # "running"

(* Such a step leaves the tasks in the hands of the workers.               *)
LEMMA PoolTypes ==
    ASSUME Shape, Bystanding
    PROVE  /\ wpc' \in [Workers -> WorkerStates] /\ task' = task
<1> USE DEF Shape, WorkerStates, Move, clientVars
<1>1. ASSUME NEW w \in Workers, Create(w) \/ Cancel(w) PROVE
           /\ wpc' \in [Workers -> WorkerStates] /\ task' = task
  BY <1>1 DEF Create, Cancel
<1>2. ASSUME NEW t \in Tasks, Submit(t) PROVE
           /\ wpc' \in [Workers -> WorkerStates] /\ task' = task
  BY <1>2 DEF Submit, Signal, In
<1>3. ASSUME NEW t \in Tasks, SubmitFails(t) PROVE
           /\ wpc' \in [Workers -> WorkerStates] /\ task' = task
  BY <1>3 DEF SubmitFails
<1>4. CASE CreateFails \/ AwaitBegins \/ AwaitReturns \/ FreeRefuses \/ FreeQueue
           \/ FreePool \/ Exit
  BY <1>4 DEF CreateFails, AwaitBegins, AwaitReturns, FreeRefuses, FreeQueue,
              FreePool, Exit
<1>5. ASSUME NEW w \in Workers, \/ Lock(w) \/ Wait(w) \/ Reacquire(w) \/ DieWaiting(w)
                                \/ DieRunning(w) \/ Stray(w) \/ SpuriousWakeup(w)
      PROVE  /\ wpc' \in [Workers -> WorkerStates] /\ task' = task
    BY <1>5 DEF Lock, Wait, Reacquire, DieWaiting, DieRunning, Stray,
              SpuriousWakeup
<1>6. CASE Terminated
  BY <1>6 DEF Terminated, vars
<1> QED
  BY <1>1, <1>2, <1>3, <1>4, <1>5, <1>6 DEF Bystanding, Client

(* Such a step starts no job.                                              *)
LEMMA PoolDisturbs ==
    ASSUME Shape, Bystanding, NEW v \in Workers
    PROVE  Undisturbed(v)
<1> USE DEF Shape, Move, Undisturbed
<1>1. ASSUME NEW w \in Workers, Create(w) \/ Cancel(w) PROVE Undisturbed(v)
  BY <1>1 DEF Create, Cancel
<1>2. ASSUME NEW t \in Tasks, Submit(t) PROVE Undisturbed(v)
  BY <1>2 DEF Submit, Signal, In, Asleep
<1>3. ASSUME NEW t \in Tasks, SubmitFails(t) PROVE Undisturbed(v)
  BY <1>3 DEF SubmitFails
<1>4. CASE CreateFails \/ AwaitBegins \/ AwaitReturns \/ FreeRefuses \/ FreeQueue
           \/ FreePool \/ Exit
  BY <1>4 DEF CreateFails, AwaitBegins, AwaitReturns, FreeRefuses, FreeQueue,
              FreePool, Exit
<1>5. ASSUME NEW w \in Workers, \/ Lock(w) \/ Wait(w) \/ Reacquire(w) \/ DieWaiting(w)
                                \/ DieRunning(w) \/ Stray(w) \/ SpuriousWakeup(w)
      PROVE  Undisturbed(v)
  BY <1>5 DEF Lock, Wait, Reacquire, DieWaiting, DieRunning, Stray,
              SpuriousWakeup
<1>6. CASE Terminated
  BY <1>6 DEF Terminated, vars
<1> QED
  BY <1>1, <1>2, <1>3, <1>4, <1>5, <1>6 DEF Bystanding, Client

-----------------------------------------------------------------------------
(* A step of a job moves one worker in collect_statistics and changes the  *)
(* map only while that worker holds the mutex.                             *)
Inside == {"url", "newurl", "referer", "newreferer"}

(* What a step of a job changes.                                           *)
LEMMA JobIs ==
    ASSUME Shape, NEW w \in Workers, Job(w) \/ ParseFails(w)
    PROVE  /\ lpc' \in [Workers -> Places] /\ line' = [v \in Workers |-> line'[v]]
           /\ \A v \in Workers \ {w} : lpc'[v] = lpc[v] /\ line'[v] = line[v]
           /\ stage' = stage /\ task' = task
           /\ lpc[w] \in Inside \/ table' = table
           /\ maplock' = maplock \/ maplock = NoThread \/ lpc[w] \in Inside
           /\ (wpc[w] = "running" /\ UNCHANGED wpc) \/ Race(w)
<1> USE DEF Shape, Places, Inside, Step, Abandon, NextLine, InJob, Safe, vars,
            reportVars
<1>1. CASE LockMap(w)
  BY <1>1 DEF LockMap
<1>2. CASE AddTraffic(w)
  BY <1>2 DEF AddTraffic
<1>3. CASE MissUrl(w)
  BY <1>3 DEF MissUrl
<1>4. CASE NewUrl(w)
  BY <1>4 DEF NewUrl
<1>5. CASE EntryFails(w)
  BY <1>5 DEF EntryFails
<1>6. CASE NoRefererHere(w)
  BY <1>6 DEF NoRefererHere
<1>7. CASE AddReferer(w)
  BY <1>7 DEF AddReferer
<1>8. CASE MissReferer(w)
  BY <1>8 DEF MissReferer
<1>9. CASE NewReferer(w)
  BY <1>9 DEF NewReferer
<1>10. CASE Race(w)
  BY <1>10 DEF Race, logVars, jobVars
<1>11. CASE ParseFails(w)
  BY <1>11 DEF ParseFails
<1> QED
  BY <1>1, <1>2, <1>3, <1>4, <1>5, <1>6, <1>7, <1>8, <1>9, <1>10, <1>11 DEF Job

(* The other jobs: one that is in the map holds the mutex, so the step is  *)
(* outside the map, and leaves the map and the mutex alone.                *)
LEMMA OthersStay ==
    ASSUME Shape, NEW w \in Workers, Job(w) \/ ParseFails(w),
           Placed(w), NEW v \in Workers \ {w}, Placed(v)
    PROVE  Placed(v)'
<1>1. /\ lpc'[v] = lpc[v] /\ line'[v] = line[v] /\ stage' = stage /\ task' = task
      /\ lpc[w] \in Inside \/ table' = table
      /\ maplock' = maplock \/ maplock = NoThread \/ lpc[w] \in Inside
  BY JobIs
<1>2. wpc'[v] = wpc[v] /\ wpc[w] = "running"
  <2>1. CASE Race(w)
    BY <2>1 DEF Race, Move, InJob, Shape
  <2>2. CASE ~Race(w)
    BY <2>2, JobIs
  <2> QED
    BY <2>1, <2>2
<1>3. CASE wpc[v] = "running" /\ lpc[v] # "parse"
  <2>1. maplock = v /\ v # w /\ v # NoThread
    BY <1>3, NobodyIs DEF Placed
  <2>2. lpc[w] \notin Inside
    BY <1>2, <2>1 DEF Placed, Inside
  <2>3. table' = table /\ maplock' = maplock
    BY <1>1, <2>1, <2>2
  <2> QED
    BY <1>1, <1>2, <2>3 DEF Placed, ThisLine
<1>4. CASE ~(wpc[v] = "running" /\ lpc[v] # "parse")
  BY <1>1, <1>2, <1>4 DEF Placed
<1> QED
  BY <1>3, <1>4

(* The job itself: from the lookup to the addition it keeps the mutex.     *)
LEMMA JobStays ==
    ASSUME Shape, NEW w \in Workers, Job(w) \/ ParseFails(w), Placed(w)
    PROVE  Placed(w)'
<1> USE DEF Shape, Placed, Step, Abandon, NextLine, InJob, Safe, vars, reportVars,
            ThisLine
<1>1. CASE LockMap(w)
  BY <1>1 DEF LockMap
<1>2. CASE AddTraffic(w)
  BY <1>2 DEF AddTraffic
<1>3. CASE MissUrl(w)
  BY <1>3 DEF MissUrl
<1>4. CASE NewUrl(w)
  BY <1>4 DEF NewUrl
<1>5. CASE EntryFails(w)
  BY <1>5 DEF EntryFails
<1>6. CASE NoRefererHere(w)
  BY <1>6 DEF NoRefererHere
<1>7. CASE AddReferer(w)
  BY <1>7 DEF AddReferer
<1>8. CASE MissReferer(w)
  BY <1>8 DEF MissReferer
<1>9. CASE NewReferer(w)
  BY <1>9 DEF NewReferer
<1>10. CASE Race(w)
  BY <1>10 DEF Race, Move
<1>11. CASE ParseFails(w)
  BY <1>11 DEF ParseFails
<1> QED
  BY <1>1, <1>2, <1>3, <1>4, <1>5, <1>6, <1>7, <1>8, <1>9, <1>10, <1>11 DEF Job

-----------------------------------------------------------------------------
AllPlaced == \A w \in Workers : Placed(w)

(* Every step of the pool, of a job or of the report.                      *)
LEMMA StepInv ==
    ASSUME Shape, AllPlaced, [LogNext]_<<vars, logVars>>
    PROVE  Shape' /\ AllPlaced'
<1>1. ASSUME Bystanding, UNCHANGED logVars
      PROVE  Shape' /\ AllPlaced'
  <2>1. Shape'
    BY <1>1, PoolTypes DEF Shape, logVars, jobVars
  <2>2. ASSUME NEW v \in Workers PROVE Placed(v)'
    <3>1. Undisturbed(v) /\ task' = task
      BY <1>1, PoolTypes, PoolDisturbs
    <3>2. Placed(v)
      BY DEF AllPlaced
    <3> QED
      BY <1>1, <3>1, <3>2 DEF Undisturbed, Placed, ThisLine, logVars, jobVars,
                              reportVars
  <2> QED
    BY <2>1, <2>2 DEF AllPlaced
<1>2. ASSUME NEW w \in Workers, Job(w) \/ ParseFails(w)
      PROVE  Shape' /\ AllPlaced'
  <2>1. lpc' \in [Workers -> Places] /\ line' = [v \in Workers |-> line'[v]]
        /\ task' = task
    BY <1>2, JobIs
  <2>2. wpc' \in [Workers -> WorkerStates]
    <3>1. CASE Race(w)
      BY <3>1 DEF Race, Move, Shape, WorkerStates
    <3>2. CASE ~Race(w)
      BY <1>2, <3>2, JobIs DEF Shape
    <3> QED
      BY <3>1, <3>2
  <2>3. ASSUME NEW v \in Workers PROVE Placed(v)'
    <3>1. CASE v = w
      BY <1>2, <3>1, JobStays DEF AllPlaced
    <3>2. CASE v # w
      BY <1>2, <3>2, OthersStay DEF AllPlaced
    <3> QED
      BY <3>1, <3>2
  <2> QED
    BY <2>1, <2>2, <2>3 DEF Shape, AllPlaced
<1>3. ASSUME NEW w \in Workers, StartJob(w) PROVE Shape' /\ AllPlaced'
  <2>1. /\ wpc[w] = "holding" /\ wpc' = [wpc EXCEPT ![w] = "running"]
        /\ task' = [task EXCEPT ![w] = Head(queue)]
        /\ line' = [line EXCEPT ![w] = 1]
        /\ UNCHANGED <<maplock, lpc, table, stage>>
    BY <1>3 DEF StartJob, Take, Move, reportVars
  <2>2. Shape'
    BY <2>1 DEF Shape, WorkerStates
  <2>3. ASSUME NEW v \in Workers PROVE Placed(v)'
    BY <2>1 DEF Shape, AllPlaced, Placed, ThisLine
  <2> QED
    BY <2>2, <2>3 DEF AllPlaced
<1>4. ASSUME NEW w \in Workers, EndJob(w) PROVE Shape' /\ AllPlaced'
  <2>1. /\ wpc' = [wpc EXCEPT ![w] = "start"] /\ lpc[w] = "parse"
        /\ task' = [task EXCEPT ![w] = NoTask]
        /\ UNCHANGED <<maplock, lpc, line, table, stage>>
    BY <1>4 DEF EndJob, Finish, Move, logVars, jobVars, reportVars
  <2>2. Shape'
    BY <2>1 DEF Shape, WorkerStates
  <2>3. ASSUME NEW v \in Workers PROVE Placed(v)'
    BY <2>1 DEF Shape, AllPlaced, Placed, ThisLine
  <2> QED
    BY <2>2, <2>3 DEF AllPlaced
<1>5. ASSUME UNCHANGED <<wpc, lpc, task, line, maplock>>,
             stage' # "collect" \/ UNCHANGED <<stage, table>>
      PROVE  Shape' /\ AllPlaced'
  BY <1>5 DEF Shape, AllPlaced, Placed, ThisLine
<1>6. CASE \/ StartReport \/ PrintTop \/ ClearMap
           \/ (\E k \in unseen : Filter(k)) \/ UNCHANGED <<vars, logVars>>
  BY <1>5, <1>6 DEF StartReport, PrintTop, ClearMap, Filter, vars, logVars, jobVars,
                    reportVars
<1>7. CASE \/ Main \/ (\E w \in Workers : Thread(w))
           \/ (\E w \in Workers : SpuriousWakeup(w) /\ UNCHANGED logVars)
           \/ (Terminated /\ UNCHANGED logVars)
  BY <1>1, <1>2, <1>3, <1>4, <1>6, <1>7 DEF Main, Thread, PoolStep, Bystanding, Client
<1> QED
  BY <1>2, <1>6, <1>7 DEF LogNext

(* HashMap_add is called for missing keys only, which is what HashMap      *)
(* needs of the log analyzer: the mutex of the map keeps every other job   *)
(* from adding the key after the lookup.                                   *)
THEOREM JobsAddMissing == LogSpec => []AddIsMissing
<1>1. LogInit => Shape /\ AllPlaced
  BY DEF LogInit, Init, Shape, AllPlaced, Placed, Places, WorkerStates
<1>2. Shape /\ AllPlaced /\ [LogNext]_<<vars, logVars>> => Shape' /\ AllPlaced'
  BY StepInv
<1>3. AllPlaced => AddIsMissing
  BY DEF AllPlaced, Placed, AddIsMissing
<1> QED
  BY <1>1, <1>2, <1>3, PTL DEF LogSpec

(* The least of a set of numbers.                                          *)
LEMMA LeastOf ==
    ASSUME NEW T, T \subseteq Nat, T # {}
    PROVE  \E x \in T : \A y \in T : x <= y
<1>1. PICK x \in T : \A y \in T : ~ (<<y, x>> \in OpToRel(<, Nat))
  BY NatLessThanWellFounded, WFMin
<1>2. \A y \in T : <<y, x>> \in OpToRel(<, Nat) <=> y < x
  BY DEF OpToRel
<1>3. \A y \in T : ~ (y < x)
  BY <1>1, <1>2, Zenon
<1> QED
  BY <1>3

(* The smallest of a set of finite sets.                                   *)
LEMMA SmallestOf ==
    ASSUME NEW Q, Q # {}, \A s \in Q : IsFiniteSet(s)
    PROVE  \E s \in Q : \A t \in Q : Cardinality(s) <= Cardinality(t)
<1> DEFINE T == {Cardinality(s) : s \in Q}
<1>1. T \subseteq Nat
  BY FS_CardinalityType
<1>2. PICK n \in T : \A m \in T : n <= m
  BY <1>1, LeastOf
<1> QED
  BY <1>2

-----------------------------------------------------------------------------
(* Sums over finite sets. MapThenSumSet picks an element, and adds its   *)
(* weight to the sum over the rest; what it picks is not known, so it    *)
(* takes a proof that the order does not matter.                         *)
Pick(s) == CHOOSE x \in s : TRUE

Turn(f, k, s) == Weight(k, Pick(s)) + f[s \ {Pick(s)}]

(* f gives the sum over every subset of S.                               *)
IsSum(f, k, S) == f = [s \in SUBSET S |-> IF s = {} THEN 0 ELSE Turn(f, k, s)]

SumOver(k, S) == CHOOSE f : IsSum(f, k, S)

(* What TotalsExact calls the sum of the parts for k.                    *)
Sum(k, S) == MapThenSumSet(LAMBDA part : Weight(k, part), S)

(* MapThenSumSet is a recursive function over the subsets.               *)
LEMMA SumIs == ASSUME NEW k, NEW S PROVE Sum(k, S) = SumOver(k, S)[S]
  BY DEF Sum, MapThenSumSet, MapThenFoldSet, SumOver, IsSum, Turn, Pick

(* What CHOOSE picks of a set is in it.                                  *)
LEMMA PickIs == ASSUME NEW s, s # {} PROVE Pick(s) \in s
  BY DEF Pick

(* What is left of a finite set is smaller.                                *)
LEMMA LeftIs ==
    ASSUME NEW S, IsFiniteSet(S), NEW s \in SUBSET S, NEW x \in s
    PROVE  /\ IsFiniteSet(s) /\ Cardinality(s) \in Nat
           /\ s \ {x} \in SUBSET S
           /\ Cardinality(s \ {x}) \in Nat /\ Cardinality(s \ {x}) < Cardinality(s)
<1>1. IsFiniteSet(s) /\ Cardinality(s) \in Nat
  BY FS_Subset, FS_CardinalityType
<1>2. IsFiniteSet(s \ {x}) /\ Cardinality(s \ {x}) = Cardinality(s) - 1
  BY <1>1, FS_RemoveElement
<1>3. Cardinality(s \ {x}) \in Nat
  BY <1>2, FS_CardinalityType
<1> QED
  BY <1>1, <1>2, <1>3

(* There is such a function: if the sums of the sets of up to some size  *)
(* were the first for which there is none, those one smaller would give  *)
(* it.                                                                   *)
LEMMA SumExists ==
    ASSUME NEW k, NEW S, IsFiniteSet(S)
    PROVE  \E f : IsSum(f, k, S)
<1> DEFINE Upto(f, n) ==
      f = [s \in SUBSET S |->
            IF Cardinality(s) > n \/ s = {} THEN 0 ELSE Turn(f, k, s)]
      Bad == {n \in Nat : ~ \E f : Upto(f, n)}
<1>1. \A s \in SUBSET S : Cardinality(s) \in Nat /\ (Cardinality(s) = 0 => s = {})
  BY FS_Subset, FS_CardinalityType, FS_EmptySet
<1>2. Cardinality(S) \in Nat /\ \A s \in SUBSET S : Cardinality(s) <= Cardinality(S)
  BY <1>1, FS_Subset
<1>3. Bad = {}
  <2>1. SUFFICES ASSUME Bad # {} PROVE FALSE
    OBVIOUS
  <2>2. PICK m \in Bad : \A i \in Bad : m <= i
    BY <2>1, LeastOf
  <2>3. m # 0
    <3>1. Upto([s \in SUBSET S |-> 0], 0)
      BY <1>1
    <3>2. 0 \notin Bad
      BY <3>1
    <3> QED
      BY <3>2, <2>2
  <2>4. m \in Nat /\ m - 1 \in Nat /\ m - 1 \notin Bad
    <3>1. m \in Nat
      BY <2>2
    <3> HIDE DEF Bad
    <3>2. m - 1 \in Nat /\ ~ (m <= m - 1)
      BY <2>3, <3>1
    <3> QED
      BY <2>2, <3>1, <3>2
  <2>5. PICK f : Upto(f, m - 1)
    BY <2>4
  <2> DEFINE g == [s \in SUBSET S |->
                     IF Cardinality(s) > m \/ s = {} THEN 0 ELSE Turn(f, k, s)]
  <2>6. ASSUME NEW u \in SUBSET S, Cardinality(u) <= m - 1
        PROVE  g[u] = f[u]
    <3>1. Cardinality(u) \in Nat
      BY <1>1
    <3>2. ~ (Cardinality(u) > m) /\ ~ (Cardinality(u) > m - 1)
      BY <3>1, <2>4, <2>6
    <3>3. f[u] = IF u = {} THEN 0 ELSE Turn(f, k, u)
      BY <3>2, <2>5, Zenon
    <3> QED
      BY <3>2, <3>3
  <2>7. ASSUME NEW s \in SUBSET S, ~ (Cardinality(s) > m), s # {}
        PROVE  Turn(f, k, s) = Turn(g, k, s)
    <3> DEFINE u == s \ {Pick(s)}
    <3>1. /\ u \in SUBSET S /\ Cardinality(u) \in Nat /\ Cardinality(s) \in Nat
          /\ Cardinality(u) < Cardinality(s)
      BY <2>7, PickIs, LeftIs
    <3>2. Cardinality(u) <= m - 1
      <4> HIDE DEF u
      <4> QED
        BY <3>1, <2>4, <2>7
    <3>3. g[u] = f[u]
      BY <3>1, <3>2, <2>6
    <3> QED
      BY <3>3 DEF Turn
  <2>8. Upto(g, m)
    <3>1. ASSUME NEW s \in SUBSET S
          PROVE  (IF Cardinality(s) > m \/ s = {} THEN 0 ELSE Turn(f, k, s))
                   = (IF Cardinality(s) > m \/ s = {} THEN 0 ELSE Turn(g, k, s))
      BY <2>7
    <3> QED
      BY <3>1, Zenon
  <2>9. m \notin Bad
    <3> HIDE DEF g
    <3> QED
      BY <2>8
  <2> QED
    BY <2>2, <2>9
<1>4. PICK f : Upto(f, Cardinality(S))
  BY <1>2, <1>3
<1>5. ASSUME NEW s \in SUBSET S
      PROVE  (IF Cardinality(s) > Cardinality(S) \/ s = {} THEN 0 ELSE Turn(f, k, s))
               = (IF s = {} THEN 0 ELSE Turn(f, k, s))
  <2>1. ~ (Cardinality(s) > Cardinality(S))
    BY <1>1, <1>2
  <2> QED
    BY <2>1
<1>6. IsSum(f, k, S)
  BY <1>4, <1>5, Zenon DEF IsSum
<1> QED
  BY <1>6

(* So the function that is chosen obeys the recursion.                   *)
LEMMA SumOverIs ==
    ASSUME NEW k, NEW S, IsFiniteSet(S)
    PROVE  \A s \in SUBSET S :
             SumOver(k, S)[s] = IF s = {} THEN 0 ELSE Turn(SumOver(k, S), k, s)
<1>1. IsSum(SumOver(k, S), k, S)
  BY SumExists, Zenon DEF SumOver
<1> QED
  BY <1>1, Zenon DEF IsSum

(* The sum of a subset does not depend on the set it is taken from.        *)
LEMMA SumOverAgrees ==
    ASSUME NEW k, NEW S, IsFiniteSet(S), NEW T \in SUBSET S
    PROVE  SumOver(k, S)[T] = Sum(k, T)
<1> DEFINE f == SumOver(k, S)
           g == SumOver(k, T)
           Q == {s \in SUBSET T : f[s] # g[s]}
<1>1. IsFiniteSet(T)
  BY FS_Subset
<1>2. /\ \A s \in SUBSET T : f[s] = IF s = {} THEN 0 ELSE Turn(f, k, s)
      /\ \A s \in SUBSET T : g[s] = IF s = {} THEN 0 ELSE Turn(g, k, s)
  BY <1>1, SumOverIs
<1> HIDE DEF f, g
<1>3. Q = {}
  <2>1. SUFFICES ASSUME Q # {} PROVE FALSE
    OBVIOUS
  <2>2. \A s \in Q : IsFiniteSet(s)
    BY <1>1, FS_Subset
  <2>3. PICK s \in Q : \A t \in Q : Cardinality(s) <= Cardinality(t)
    BY <2>1, <2>2, SmallestOf
  <2>4. s \in SUBSET T /\ s # {}
    BY <1>2
  <2> DEFINE u == s \ {Pick(s)}
  <2>5. /\ u \in SUBSET T /\ Cardinality(u) \in Nat /\ Cardinality(s) \in Nat
        /\ Cardinality(u) < Cardinality(s)
    BY <1>1, <2>4, PickIs, LeftIs
  <2>6. f[u] = g[u]
    <3> HIDE DEF u
    <3> QED
      BY <2>3, <2>5
  <2>7. Turn(f, k, s) = Turn(g, k, s)
    BY <2>6 DEF Turn
  <2> QED
    BY <1>2, <2>4, <2>7
<1>4. f[T] = g[T]
  BY <1>3
<1> QED
  BY <1>4, SumIs DEF f, g

(* A sum by one step of the recursion.                                   *)
LEMMA SumTurn ==
    ASSUME NEW k, NEW S, IsFiniteSet(S)
    PROVE  Sum(k, S) = IF S = {} THEN 0
                       ELSE Weight(k, Pick(S)) + Sum(k, S \ {Pick(S)})
<1>1. Sum(k, S) = IF S = {} THEN 0 ELSE Turn(SumOver(k, S), k, S)
  BY SumOverIs, SumIs
<1>2. SumOver(k, S)[S \ {Pick(S)}] = Sum(k, S \ {Pick(S)})
  BY SumOverAgrees
<1> QED
  BY <1>1, <1>2 DEF Turn

(* Every element weighs a natural.                                       *)
Weighed(k, S) == \A p \in S : Weight(k, p) \in Nat

(* A sum of naturals is one.                                             *)
LEMMA SumIsNat ==
    ASSUME NEW k, NEW S, IsFiniteSet(S), Weighed(k, S)
    PROVE  Sum(k, S) \in Nat
<1> DEFINE Q == {s \in SUBSET S : Sum(k, s) \notin Nat}
<1>1. Q = {}
  <2>1. SUFFICES ASSUME Q # {} PROVE FALSE
    OBVIOUS
  <2>2. \A s \in Q : IsFiniteSet(s)
    BY FS_Subset
  <2>3. PICK s \in Q : \A t \in Q : Cardinality(s) <= Cardinality(t)
    BY <2>1, <2>2, SmallestOf
  <2>4. s \in SUBSET S /\ IsFiniteSet(s) /\ Sum(k, s) \notin Nat
    BY <2>2
  <2>5. s # {} /\ Sum(k, s) = Weight(k, Pick(s)) + Sum(k, s \ {Pick(s)})
    BY <2>4, SumTurn
  <2> DEFINE u == s \ {Pick(s)}
  <2>6. /\ u \in SUBSET S /\ Cardinality(u) \in Nat /\ Cardinality(s) \in Nat
        /\ Cardinality(u) < Cardinality(s)
    BY <2>4, <2>5, PickIs, LeftIs
  <2>7. Sum(k, u) \in Nat
    <3> HIDE DEF u
    <3> QED
      BY <2>3, <2>6
  <2>8. Weight(k, Pick(s)) \in Nat
    BY <2>4, <2>5, PickIs DEF Weighed
  <2> QED
    BY <2>4, <2>5, <2>7, <2>8
<1> QED
  BY <1>1

(* The order does not matter: any element may be taken out of the sum.   *)
(* In a smallest set for which this fails, both that element and the one *)
(* picked could be taken out of what is left, in either order.           *)
LEMMA SumWithout ==
    ASSUME NEW k, NEW S, IsFiniteSet(S), Weighed(k, S), NEW p \in S
    PROVE  Sum(k, S) = Weight(k, p) + Sum(k, S \ {p})
<1> DEFINE Q == {s \in SUBSET S :
                   \E q \in s : Sum(k, s) # Weight(k, q) + Sum(k, s \ {q})}
<1>1. Q = {}
  <2>1. SUFFICES ASSUME Q # {} PROVE FALSE
    OBVIOUS
  <2>2. \A s \in Q : IsFiniteSet(s)
    BY FS_Subset
  <2>3. PICK s \in Q : \A t \in Q : Cardinality(s) <= Cardinality(t)
    BY <2>1, <2>2, SmallestOf
  <2>4. s \in SUBSET S /\ IsFiniteSet(s)
    BY <2>2
  <2>5. PICK q \in s : Sum(k, s) # Weight(k, q) + Sum(k, s \ {q})
    OBVIOUS
  <2>6. PICK x \in s : x = Pick(s)
    BY <2>5, PickIs
  <2>7. Sum(k, s) = Weight(k, x) + Sum(k, s \ {x})
    BY <2>4, <2>6, SumTurn
  <2>8. q # x
    BY <2>5, <2>7
  <2>9. \A y \in s : s \ {y} \notin Q
    <3> TAKE y \in s
    <3>1. /\ Cardinality(s \ {y}) \in Nat /\ Cardinality(s) \in Nat
          /\ Cardinality(s \ {y}) < Cardinality(s)
      BY <2>4, LeftIs
    <3>2. \A m, n \in Nat : m < n => ~ (n <= m)
      OBVIOUS
    <3> QED
      BY <2>3, <3>1, <3>2, Zenon
  <2>10. \A y \in s : s \ {y} \in SUBSET S
    BY <2>4
  <2>11. Sum(k, s \ {x}) = Weight(k, q) + Sum(k, (s \ {x}) \ {q})
    BY <2>8, <2>9, <2>10
  <2>12. Sum(k, s \ {q}) = Weight(k, x) + Sum(k, (s \ {q}) \ {x})
    BY <2>8, <2>9, <2>10
  <2>13. (s \ {x}) \ {q} = (s \ {q}) \ {x}
    OBVIOUS
  <2>14. Sum(k, (s \ {q}) \ {x}) \in Nat
    <3>1. IsFiniteSet((s \ {q}) \ {x})
      BY <2>4, FS_Subset
    <3>2. Weighed(k, (s \ {q}) \ {x})
      BY <2>4 DEF Weighed
    <3> QED
      BY <3>1, <3>2, SumIsNat
  <2>15. Weight(k, q) \in Nat /\ Weight(k, x) \in Nat
    BY <2>4 DEF Weighed
  <2>16. \A a, b, c \in Nat : a + (b + c) = b + (a + c)
    OBVIOUS
  <2>17. Weight(k, x) + (Weight(k, q) + Sum(k, (s \ {q}) \ {x}))
           = Weight(k, q) + (Weight(k, x) + Sum(k, (s \ {q}) \ {x}))
    BY <2>14, <2>15, <2>16, Zenon
  <2> QED
    BY <2>5, <2>7, <2>11, <2>12, <2>13, <2>17, Zenon
<1> QED
  BY <1>1

(* An element that is added to a set adds its weight.                    *)
LEMMA SumWith ==
    ASSUME NEW k, NEW S, IsFiniteSet(S), Weighed(k, S),
           NEW p, p \notin S, Weight(k, p) \in Nat
    PROVE  Sum(k, S \cup {p}) = Sum(k, S) + Weight(k, p)
<1>1. IsFiniteSet(S \cup {p}) /\ Weighed(k, S \cup {p})
  BY FS_AddElement DEF Weighed
<1>2. (S \cup {p}) \ {p} = S
  OBVIOUS
<1>3. Sum(k, S) \in Nat
  BY SumIsNat
<1>4. Sum(k, S \cup {p}) = Weight(k, p) + Sum(k, (S \cup {p}) \ {p})
  BY <1>1, SumWithout
<1>5. \A a, b \in Nat : a + b = b + a
  OBVIOUS
<1>6. Weight(k, p) + Sum(k, S) = Sum(k, S) + Weight(k, p)
  BY <1>3, <1>5, Zenon
<1> QED
  BY <1>2, <1>4, <1>6, Zenon


-----------------------------------------------------------------------------
(* The types of the map and of its books.                                  *)
Entered ==
    /\ DOMAIN table \subseteq Strings
    /\ table \in [DOMAIN table -> [type : Types, counter : Nat]]
    /\ line \in [Workers -> Nat] /\ \A w \in Workers : line[w] >= 1

(* A part of a line of a file.                                             *)
IsPart(p) == p[1] \in Tasks /\ p[2] \in DOMAIN Log[p[1]] /\ p[3] \in Types

(* What the map says of a key.                                             *)
Counter(k) == IF k \in DOMAIN table THEN table[k].counter ELSE 0

(* A counter is what was added to it.                                      *)
Summed == stage # "cleared" => \A k \in Strings : Sum(k, counted) = Counter(k)

(* The url of the line at which w is has been dealt with.                  *)
UrlDone(w) == lpc[w] \in {"referer", "newreferer"}

(* Nothing is counted before the job has come to it.                       *)
Ahead(w) ==
    wpc[w] = "running" =>
        \A p \in counted : p[1] = task[w] =>
            \/ p[2] < line[w]
            \/ p[2] = line[w] /\ p[3] = "url" /\ UrlDone(w)

Fresh ==
    /\ IsFiniteSet(counted)
    /\ \A p \in counted : IsPart(p) /\ p[1] \in InHand \cup done
    /\ \A w \in Workers : Ahead(w)

(* The lines of a file before n are in the books.                          *)
Booked(t, n) ==
    \A i \in DOMAIN Log[t] : i < n =>
        /\ <<t, i, "url">> \in counted \cup lost
        /\ Log[t][i].referer # NoReferer =>
                <<t, i, "referer">> \in counted \cup lost

Behind(w) ==
    wpc[w] = "running" /\ task[w] \notin cut =>
        /\ Booked(task[w], line[w])
        /\ UrlDone(w) => Part(w, "url") \in counted \cup lost

NoneSkipped ==
    /\ \A w \in Workers : Behind(w)
    /\ \A t \in done \ cut : Booked(t, Len(Log[t]) + 1)

Books == Entered /\ Summed /\ Fresh /\ NoneSkipped

(* The pool, the places of the jobs, and the books.                      *)
LogInv == Inv /\ Shape /\ AllPlaced /\ Books

-----------------------------------------------------------------------------
(* Under the log analyzer the pool takes its own steps, but for a job that *)
(* is lost.                                                                *)
LEMMA RaceKeeps ==
    ASSUME Inv, NEW w \in Workers, Race(w)
    PROVE  Inv'
<1>1. /\ wpc[w] = "running" /\ wpc' = [wpc EXCEPT ![w] = "stray"]
      /\ UNCHANGED <<pool, mutex, queue, counter, task, done, spurious, mpc,
                     todo, refused, cancelled>>
  BY DEF Race, InJob, Move, clientVars
<1>2. wpc \in [Workers -> WorkerStates]
  BY DEF Inv, TypeOK
<1>3. TypeOK'
  BY <1>1, <1>2 DEF Inv, TypeOK, WorkerStates
<1>4. Shutdown'
  BY <1>1 DEF Inv, Shutdown
<1>5. HandsMatch'
  BY <1>1, <1>2 DEF Inv, HandsMatch, Empty
<1>6. /\ In(Counted)' = In(Counted) /\ In(Coming)' = In(Coming)
      /\ In(Asleep)' = In(Asleep)
  BY <1>1, <1>2 DEF In, Counted, Coming, Asleep
<1>7. CounterExact' /\ NoLostWakeup'
  BY <1>1, <1>6 DEF Inv, CounterExact, NoLostWakeup
<1>8. TasksConserved'
  BY <1>1 DEF Inv, TasksConserved, Queued, InHand
<1> QED
  BY <1>3, <1>4, <1>5, <1>7, <1>8 DEF Inv

(* The invariant of the pool holds under the log analyzer.               *)
LEMMA PoolKeeps ==
    ASSUME Inv, [LogNext]_<<vars, logVars>>
    PROVE  Inv'
<1>1. ASSUME NEW w \in Workers, Job(w) \/ ParseFails(w) PROVE Inv'
  <2>1. CASE Race(w)
    BY <2>1, RaceKeeps
  <2>2. CASE ~Race(w)
    <3>1. UNCHANGED vars
      BY <1>1, <2>2 DEF Job, LockMap, AddTraffic, MissUrl, NewUrl, EntryFails,
            NoRefererHere, AddReferer, MissReferer, NewReferer, ParseFails, vars
    <3> QED
      BY <3>1, InvStep
  <2> QED
    BY <2>1, <2>2
<1>2. CASE [Next]_vars
  BY <1>2, InvStep
<1>3. CASE Main
  <2>1. Client \/ UNCHANGED vars
    BY <1>3 DEF Main, StartReport, Filter, PrintTop, ClearMap, Client, vars
  <2> QED
    BY <2>1, <1>2 DEF Next
<1>4. ASSUME NEW w \in Workers, StartJob(w) \/ EndJob(w) \/ PoolStep(w) PROVE Inv'
  <2>1. Worker(w)
    BY <1>4 DEF StartJob, EndJob, PoolStep, Worker
  <2> QED
    BY <2>1, <1>2 DEF Next
<1>5. CASE (\E w \in Workers : SpuriousWakeup(w)) \/ Terminated
  BY <1>2, <1>5 DEF Next
<1>6. CASE UNCHANGED <<vars, logVars>>
  BY <1>2, <1>6
<1> QED
  BY <1>1, <1>3, <1>4, <1>5, <1>6 DEF LogNext, Thread

-----------------------------------------------------------------------------
(* The lines of a running job.                                             *)
LEMMA LineIs ==
    ASSUME Inv, NEW w \in Workers, wpc[w] = "running"
    PROVE  task[w] \in Tasks /\ task[w] \in InHand
  BY TasksAssumption DEF Inv, HandsMatch, TypeOK, InHand

(* Two jobs work on two files.                                           *)
LEMMA TwoJobs ==
    ASSUME Inv, NEW v \in Workers, NEW w \in Workers, v # w,
           wpc[v] = "running", wpc[w] = "running"
    PROVE  task[v] # task[w]
  BY DEF Inv, HandsMatch, TasksConserved

(* What the log holds, by name.                                          *)
LEMMA LogIs ==
    ASSUME NEW t \in Tasks
    PROVE  /\ Len(Log[t]) \in Nat /\ DOMAIN Log[t] = 1..Len(Log[t])
           /\ \A i \in DOMAIN Log[t] :
                /\ Log[t][i].url \in Strings /\ Log[t][i].traffic \in Nat
                /\ Log[t][i].referer \in Strings \cup {NoReferer}
<1> DEFINE R == [url : Strings, referer : Strings \cup {NoReferer}, traffic : Nat]
<1>1. Log[t] \in Seq(R)
  BY LogAssumption
<1> HIDE DEF R
<1>2. \A s \in Seq(R) : /\ Len(s) \in Nat /\ DOMAIN s = 1..Len(s)
                        /\ \A i \in DOMAIN s : s[i] \in R
  OBVIOUS
<1>3. \A i \in DOMAIN Log[t] : Log[t][i] \in R
  BY <1>1, <1>2
<1> QED
  BY <1>1, <1>2, <1>3 DEF R

(* What the parts of a line add to a key.                                *)
LEMMA WeightIs ==
    ASSUME NEW t \in Tasks, NEW i \in DOMAIN Log[t], NEW k
    PROVE  /\ Weight(k, <<t, i, "url">>) =
                 IF Log[t][i].url = k THEN Log[t][i].traffic ELSE 0
           /\ Weight(k, <<t, i, "referer">>) =
                 IF Log[t][i].referer = k THEN 1 ELSE 0
  BY DEF Weight

(* A part adds a natural.                                                *)
LEMMA WeightIsNat ==
    ASSUME NEW p, IsPart(p), NEW k
    PROVE  Weight(k, p) \in Nat
  BY LogIs DEF IsPart, Weight

(* A job in the map is at a line of its file.                            *)
LEMMA InJobIs ==
    ASSUME Inv, Entered, NEW w \in Workers, wpc[w] = "running",
           line[w] <= Len(Log[task[w]])
    PROVE  /\ task[w] \in Tasks /\ line[w] \in DOMAIN Log[task[w]]
           /\ ThisLine(w) = Log[task[w]][line[w]]
           /\ IsPart(Part(w, "url")) /\ IsPart(Part(w, "referer"))
<1>1. task[w] \in Tasks
  BY LineIs
<1>2. line[w] \in Nat /\ line[w] >= 1
  BY DEF Entered
<1>3. line[w] \in DOMAIN Log[task[w]]
  BY <1>1, <1>2, LogIs
<1> QED
  BY <1>1, <1>3 DEF IsPart, Part, Types, ThisLine

(* A part is counted once, and the counter of its key grows by it.         *)
LEMMA CountKeepsSums ==
    ASSUME Fresh, Summed, NEW p, IsPart(p), p \notin counted,
           counted' = counted \cup {p}, stage' = stage,
           stage # "cleared" =>
              \A k \in Strings : Counter(k)' = Counter(k) + Weight(k, p)
    PROVE  Summed'
<1>1. \A k : Weighed(k, counted)
  BY WeightIsNat DEF Fresh, Weighed
<1>2. \A k : Sum(k, counted \cup {p}) = Sum(k, counted) + Weight(k, p)
  BY <1>1, SumWith, WeightIsNat DEF Fresh
<1>3. ASSUME stage # "cleared", NEW k \in Strings
      PROVE  Sum(k, counted') = Counter(k)'
  <2>1. Sum(k, counted) = Counter(k)
    BY <1>3 DEF Summed
  <2>2. Sum(k, counted') = Sum(k, counted) + Weight(k, p)
    BY <1>2
  <2> QED
    BY <1>3, <2>1, <2>2
<1> QED
  BY <1>3 DEF Summed

(* What a step of a job writes into the books.                             *)
Writes(w) ==
    /\ cut \subseteq cut' /\ lost \subseteq lost'
    /\ \/ counted' = counted
       \/ counted' = counted \cup {Part(w, "url")}
       \/ counted' = counted \cup {Part(w, "referer")}

(* Each step of a job writes at most one part of its line.               *)
LEMMA JobWrites ==
    ASSUME NEW w \in Workers, Job(w) \/ ParseFails(w)
    PROVE  Writes(w) /\ done' = done
<1> USE DEF Writes, Count, Lose, NextLine, Abandon, vars
<1>1. CASE LockMap(w) \/ MissUrl(w) \/ MissReferer(w)
  BY <1>1 DEF LockMap, MissUrl, MissReferer
<1>2. CASE AddTraffic(w)
  BY <1>2 DEF AddTraffic
<1>3. CASE NewUrl(w)
  BY <1>3 DEF NewUrl
<1>4. CASE EntryFails(w) \/ ParseFails(w)
  BY <1>4 DEF EntryFails, ParseFails
<1>5. CASE NoRefererHere(w)
  BY <1>5 DEF NoRefererHere
<1>6. CASE AddReferer(w)
  BY <1>6 DEF AddReferer
<1>7. CASE NewReferer(w)
  BY <1>7 DEF NewReferer
<1>8. CASE Race(w)
  BY <1>8 DEF Race, logVars, jobVars
<1> QED
  BY <1>1, <1>2, <1>3, <1>4, <1>5, <1>6, <1>7, <1>8 DEF Job

(* What is in the books of another job, or of one that is done, stays so.  *)
LEMMA BookedStays ==
    ASSUME NEW t, NEW n, Booked(t, n), counted \subseteq counted',
           lost \subseteq lost'
    PROVE  Booked(t, n)'
  BY DEF Booked

(* The other jobs' files are not touched.                                *)
LEMMA OthersBooks ==
    ASSUME LogInv, NEW w \in Workers, Job(w) \/ ParseFails(w),
           NEW v \in Workers \ {w}
    PROVE  Ahead(v)' /\ Behind(v)'
<1>1. /\ lpc'[v] = lpc[v] /\ line'[v] = line[v] /\ task' = task
      /\ wpc[w] = "running" /\ wpc'[v] = wpc[v]
  <2>1. CASE Race(w)
    BY <2>1, JobIs DEF LogInv, Race, Move, InJob, Shape
  <2>2. CASE ~Race(w)
    BY <2>2, JobIs DEF LogInv
  <2> QED
    BY <2>1, <2>2
<1>2. Writes(w)
  BY JobWrites
<1>3. SUFFICES ASSUME wpc[v] = "running" PROVE Ahead(v)' /\ Behind(v)'
  BY <1>1 DEF Ahead, Behind
<1>4. task[v] # task[w]
  BY <1>1, <1>3, TwoJobs DEF LogInv
<1>5. Ahead(v) /\ Behind(v)
  BY DEF LogInv, Books, Fresh, NoneSkipped
<1>6. Ahead(v)'
  <2>1. ASSUME NEW p \in counted', p[1] = task[v] PROVE p \in counted
    <3>1. Part(w, "url")[1] = task[w] /\ Part(w, "referer")[1] = task[w]
      BY DEF Part
    <3> QED
      BY <1>2, <1>4, <2>1, <3>1 DEF Writes
  <2> QED
    BY <1>1, <1>3, <1>5, <2>1 DEF Ahead, UrlDone
<1>7. Behind(v)'
  <2>1. SUFFICES ASSUME task[v] \notin cut'
                 PROVE  /\ Booked(task[v], line[v])'
                        /\ UrlDone(v)' => Part(v, "url")' \in counted' \cup lost'
    BY <1>1 DEF Behind, Booked
  <2>2. task[v] \notin cut /\ counted \subseteq counted' /\ lost \subseteq lost'
    BY <1>2, <2>1 DEF Writes
  <2>3. /\ Booked(task[v], line[v])
        /\ UrlDone(v) => Part(v, "url") \in counted \cup lost
    BY <1>3, <1>5, <2>2 DEF Behind
  <2>4. Booked(task[v], line[v])'
    BY <1>1, <2>2, <2>3 DEF Booked
  <2>5. UrlDone(v)' = UrlDone(v) /\ Part(v, "url")' = Part(v, "url")
    BY <1>1 DEF UrlDone, Part
  <2> QED
    BY <2>2, <2>3, <2>4, <2>5
<1> QED
  BY <1>6, <1>7

-----------------------------------------------------------------------------
(* A step of a job that only moves it, at a line whose url is dealt with   *)
(* before and after or neither.                                            *)
LEMMA MoveBooks ==
    ASSUME LogInv, NEW w \in Workers,
           wpc'[w] # "running" \/ UrlDone(w)' = UrlDone(w),
           wpc'[w] = "running" => wpc[w] = "running",
           UNCHANGED <<task, line, table, counted, lost, cut, stage, done>>
    PROVE  Entered' /\ Summed' /\ Ahead(w)' /\ Behind(w)'
<1>1. Entered' /\ Summed'
  BY DEF LogInv, Books, Entered, Summed, Counter
<1>2. Ahead(w) /\ Behind(w)
  BY DEF LogInv, Books, Fresh, NoneSkipped
<1>3. Part(w, "url")' = Part(w, "url")
  BY DEF Part
<1> QED
  BY <1>1, <1>2, <1>3 DEF Ahead, Behind, Booked

(* The rest of a file is given up.                                         *)
LEMMA AbandonBooks ==
    ASSUME LogInv, NEW w \in Workers, wpc[w] = "running", Abandon(w),
           UNCHANGED <<wpc, task, table, counted, lost, stage, done>>
    PROVE  Entered' /\ Summed' /\ Ahead(w)' /\ Behind(w)'
<1>1. task[w] \in Tasks
  BY LineIs DEF LogInv
<1>2. /\ line' = [line EXCEPT ![w] = Len(Log[task[w]]) + 1]
      /\ cut' = cut \cup {task[w]}
  BY DEF Abandon
<1>3. line \in [Workers -> Nat] /\ Len(Log[task[w]]) + 1 \in Nat
      /\ Len(Log[task[w]]) + 1 >= 1
  BY <1>1, LogIs DEF LogInv, Books, Entered
<1>4. Entered'
  <2>1. line' \in [Workers -> Nat] /\ \A v \in Workers : line'[v] >= 1
    BY <1>2, <1>3 DEF LogInv, Books, Entered
  <2> QED
    BY <2>1 DEF LogInv, Books, Entered
<1>5. Summed'
  BY DEF LogInv, Books, Summed, Counter
<1>6. ASSUME NEW p \in counted, p[1] = task[w] PROVE p[2] < line'[w]
  <2>1. p[2] \in DOMAIN Log[task[w]]
    BY <1>6 DEF LogInv, Books, Fresh, IsPart
  <2>2. line'[w] = Len(Log[task[w]]) + 1
    BY <1>2, <1>3
  <2> QED
    BY <1>1, <2>1, <2>2, LogIs
<1>7. Ahead(w)'
  BY <1>6 DEF Ahead
<1>8. Behind(w)'
  BY <1>2 DEF Behind
<1> QED
  BY <1>4, <1>5, <1>7, <1>8

(* The url of a line is added to the map, or lost.                         *)
LEMMA UrlBooks ==
    ASSUME LogInv, NEW w \in Workers, wpc[w] = "running", ~UrlDone(w),
           line[w] <= Len(Log[task[w]]), UrlDone(w)', stage = "collect",
           UNCHANGED <<wpc, task, line, cut, stage, done>>,
           \/ Lose(w, "url")
           \/ /\ Count(w, "url")
              /\ DOMAIN table' \subseteq Strings
              /\ table' \in [DOMAIN table' -> [type : Types, counter : Nat]]
              /\ \A k \in Strings :
                    Counter(k)' = Counter(k) + Weight(k, Part(w, "url"))
    PROVE  Entered' /\ Summed' /\ Ahead(w)' /\ Behind(w)'
<1> DEFINE p == Part(w, "url")
<1>1. IsPart(p) /\ p = <<task[w], line[w], "url">>
  BY InJobIs DEF LogInv, Books, Part
<1>2. Ahead(w) /\ Behind(w) /\ Fresh /\ Summed /\ Entered
  BY DEF LogInv, Books, Fresh, NoneSkipped
<1>3. p \notin counted
  <2>1. SUFFICES ASSUME p \in counted PROVE FALSE
    OBVIOUS
  <2>2. p[1] = task[w] /\ p[2] = line[w]
    BY <1>1
  <2>3. p[2] < line[w]
    BY <1>2, <2>1, <2>2 DEF Ahead
  <2> QED
    BY <1>2, <2>2, <2>3 DEF Entered
<1>4. Entered'
  BY <1>2 DEF Entered, Lose
<1>5. Summed'
  <2>1. CASE Lose(w, "url")
    BY <1>2, <2>1 DEF Lose, Summed, Counter
  <2>2. CASE ~Lose(w, "url")
    <3>1. counted' = counted \cup {p}
          /\ \A k \in Strings : Counter(k)' = Counter(k) + Weight(k, p)
      BY <2>2 DEF Count
    <3> HIDE DEF p
    <3> QED
      BY <1>1, <1>2, <1>3, <3>1, CountKeepsSums
  <2> QED
    BY <2>1, <2>2
<1>6. /\ counted' = counted \/ counted' = counted \cup {p}
      /\ counted \subseteq counted' /\ lost \subseteq lost'
      /\ p \in counted' \cup lost'
  BY DEF Count, Lose
<1>7. Ahead(w)'
  <2>1. ASSUME NEW q \in counted', q[1] = task[w]
        PROVE  q[2] < line[w] \/ (q[2] = line[w] /\ q[3] = "url")
    <3>1. CASE q \in counted
      BY <1>2, <2>1, <3>1 DEF Ahead
    <3>2. CASE q = p
      BY <1>1, <3>2
    <3> QED
      BY <1>6, <3>1, <3>2
  <2> QED
    BY <2>1 DEF Ahead
<1>8. Behind(w)'
  <2>1. SUFFICES ASSUME task[w] \notin cut
                 PROVE  Booked(task[w], line[w])' /\ p \in counted' \cup lost'
    <3>1. p' = p
      BY DEF Part
    <3> QED
      BY <3>1 DEF Behind
  <2>2. Booked(task[w], line[w])
    BY <1>2, <2>1 DEF Behind
  <2> QED
    BY <1>6, <2>2 DEF Booked
<1> QED
  BY <1>4, <1>5, <1>7, <1>8

(* The referer of a line is added to the map, or lost, or there is none,   *)
(* and the job goes on to the next line.                                   *)
LEMMA RefererBooks ==
    ASSUME LogInv, NEW w \in Workers, wpc[w] = "running", UrlDone(w),
           line[w] <= Len(Log[task[w]]), NextLine(w), stage = "collect",
           UNCHANGED <<wpc, task, cut, stage, done>>,
           \/ Lose(w, "referer")
           \/ /\ ThisLine(w).referer = NoReferer
              /\ UNCHANGED <<table, counted, lost>>
           \/ /\ Count(w, "referer")
              /\ DOMAIN table' \subseteq Strings
              /\ table' \in [DOMAIN table' -> [type : Types, counter : Nat]]
              /\ \A k \in Strings :
                    Counter(k)' = Counter(k) + Weight(k, Part(w, "referer"))
    PROVE  Entered' /\ Summed' /\ Ahead(w)' /\ Behind(w)'
<1> DEFINE p == Part(w, "referer")
<1>1. IsPart(p) /\ p = <<task[w], line[w], "referer">> /\ task[w] \in Tasks
      /\ line[w] \in DOMAIN Log[task[w]]
  BY InJobIs DEF LogInv, Books, Part
<1>2. Ahead(w) /\ Behind(w) /\ Fresh /\ Summed /\ Entered
  BY DEF LogInv, Books, Fresh, NoneSkipped
<1>3. p \notin counted
  <2>1. SUFFICES ASSUME p \in counted PROVE FALSE
    OBVIOUS
  <2>2. p[1] = task[w] /\ p[2] = line[w] /\ p[3] = "referer"
    BY <1>1
  <2>3. p[2] < line[w]
    BY <1>2, <2>1, <2>2 DEF Ahead
  <2> QED
    BY <1>2, <2>2, <2>3 DEF Entered
<1>4. line'[w] = line[w] + 1 /\ lpc'[w] = "parse" /\ line[w] \in Nat
      /\ line' \in [Workers -> Nat] /\ \A v \in Workers : line'[v] >= 1
  BY <1>2 DEF NextLine, Step, Entered, LogInv, Shape
<1>5. Entered'
  BY <1>2, <1>4 DEF Entered, Lose
<1>6. Summed'
  <2>1. CASE Lose(w, "referer") \/ UNCHANGED <<table, counted, lost>>
    BY <1>2, <2>1 DEF Lose, Summed, Counter
  <2>2. CASE ~(Lose(w, "referer") \/ UNCHANGED <<table, counted, lost>>)
    <3>1. counted' = counted \cup {p}
          /\ \A k \in Strings : Counter(k)' = Counter(k) + Weight(k, p)
      BY <2>2 DEF Count
    <3> HIDE DEF p
    <3> QED
      BY <1>1, <1>2, <1>3, <3>1, CountKeepsSums
  <2> QED
    BY <2>1, <2>2
<1>7. /\ counted' = counted \/ counted' = counted \cup {p}
      /\ counted \subseteq counted' /\ lost \subseteq lost'
      /\ Log[task[w]][line[w]].referer # NoReferer => p \in counted' \cup lost'
  BY DEF Count, Lose, ThisLine
<1>8. Ahead(w)'
  <2>1. ASSUME NEW q \in counted', q[1] = task[w] PROVE q[2] < line'[w]
    <3>1. CASE q \in counted
      <4>1. q[2] < line[w] \/ q[2] = line[w]
        BY <1>2, <2>1, <3>1 DEF Ahead
      <4>2. q[2] \in Nat
        BY <1>1, <1>2, <2>1, <3>1, LogIs DEF Fresh, IsPart
      <4> QED
        BY <1>4, <4>1, <4>2
    <3>2. CASE q = p
      BY <1>1, <1>4, <3>2
    <3> QED
      BY <1>7, <3>1, <3>2
  <2> QED
    BY <2>1 DEF Ahead
<1>9. Behind(w)'
  <2>1. SUFFICES ASSUME task[w] \notin cut PROVE Booked(task[w], line[w])'
    BY <1>4 DEF Behind, UrlDone
  <2>2. Booked(task[w], line[w]) /\ Part(w, "url") \in counted \cup lost
    BY <1>2, <2>1 DEF Behind
  <2>3. Part(w, "url") = <<task[w], line[w], "url">>
    BY DEF Part
  <2>4. ASSUME NEW i \in DOMAIN Log[task[w]], i < line'[w]
        PROVE  /\ <<task[w], i, "url">> \in counted' \cup lost'
               /\ Log[task[w]][i].referer # NoReferer =>
                      <<task[w], i, "referer">> \in counted' \cup lost'
    <3>1. i \in Nat /\ (i < line[w] \/ i = line[w])
      BY <1>1, <1>4, <2>4, LogIs
    <3>2. CASE i < line[w]
      BY <1>7, <2>2, <3>2 DEF Booked
    <3>3. CASE i = line[w]
      BY <1>1, <1>7, <2>2, <2>3, <3>3
    <3> QED
      BY <3>1, <3>2, <3>3
  <2> QED
    BY <2>4 DEF Booked
<1> QED
  BY <1>5, <1>6, <1>8, <1>9

(* The two ways to add to the map.                                         *)
LEMMA BumpAdds ==
    ASSUME Entered, NEW u \in DOMAIN table, NEW n \in Nat, Bump(u, n)
    PROVE  /\ DOMAIN table' \subseteq Strings
           /\ table' \in [DOMAIN table' -> [type : Types, counter : Nat]]
           /\ \A k \in Strings :
                 Counter(k)' = Counter(k) + (IF u = k THEN n ELSE 0)
<1>1. table' = [table EXCEPT ![u].counter = @ + n]
  BY DEF Bump
<1>2. table[u] \in [type : Types, counter : Nat]
  BY DEF Entered
<1>3. PICK r \in [type : Types, counter : Nat] :
        r = [table[u] EXCEPT !.counter = @ + n]
  <2> DEFINE e == [table[u] EXCEPT !.counter = table[u].counter + n]
  <2>1. table[u].counter + n \in Nat
    BY <1>2
  <2>2. e \in [type : Types, counter : Nat]
    BY <1>2, <2>1, Zenon
  <2> QED
    BY <2>2
<1>4. r.counter = table[u].counter + n
  BY <1>2, <1>3
<1>5. table' = [table EXCEPT ![u] = r]
  BY <1>1, <1>3
<1>6. /\ DOMAIN table' = DOMAIN table
      /\ table' \in [DOMAIN table -> [type : Types, counter : Nat]]
  BY <1>5 DEF Entered
<1>7. ASSUME NEW k \in DOMAIN table PROVE table[k].counter \in Nat
  BY <1>7 DEF Entered
<1>8. ASSUME NEW k \in Strings
      PROVE  Counter(k)' = Counter(k) + (IF u = k THEN n ELSE 0)
  <2>1. CASE k = u
    BY <1>4, <1>5, <1>6, <2>1 DEF Counter
  <2>2. CASE k # u
    <3>1. Counter(k)' = Counter(k)
      BY <1>5, <1>6, <2>2 DEF Counter
    <3>2. Counter(k) \in Nat
      BY <1>7 DEF Counter
    <3> QED
      BY <2>2, <3>1, <3>2
  <2> QED
    BY <2>1, <2>2
<1> QED
  BY <1>6, <1>8 DEF Entered

(* A new entry has the weight of the part that made it.                  *)
LEMMA PutAdds ==
    ASSUME Entered, NEW u \in Strings \ DOMAIN table, NEW y \in Types,
           NEW n \in Nat, Put(u, y, n)
    PROVE  /\ DOMAIN table' \subseteq Strings
           /\ table' \in [DOMAIN table' -> [type : Types, counter : Nat]]
           /\ \A k \in Strings :
                 Counter(k)' = Counter(k) + (IF u = k THEN n ELSE 0)
<1>1. PICK r \in [type : Types, counter : Nat] : r = [type |-> y, counter |-> n]
  OBVIOUS
<1>2. table' = [s \in DOMAIN table \cup {u} |-> IF s = u THEN r ELSE table[s]]
  BY <1>1 DEF Put
<1>3. DOMAIN table' = DOMAIN table \cup {u}
  BY <1>2
<1>4. \A s \in DOMAIN table' : table'[s] = IF s = u THEN r ELSE table[s]
  BY <1>2, <1>3
<1>5. table' \in [DOMAIN table' -> [type : Types, counter : Nat]]
  BY <1>2, <1>3 DEF Entered
<1>6. ASSUME NEW k \in Strings
      PROVE  Counter(k)' = Counter(k) + (IF u = k THEN n ELSE 0)
  <2>1. CASE k = u
    <3>1. Counter(k) = 0 /\ Counter(k)' = n
      BY <1>1, <1>3, <1>4, <2>1 DEF Counter
    <3> QED
      BY <2>1, <3>1
  <2>2. CASE k # u
    <3>1. Counter(k)' = Counter(k)
      BY <1>3, <1>4, <2>2 DEF Counter
    <3>2. Counter(k) \in Nat
      BY DEF Counter, Entered
    <3> QED
      BY <2>2, <3>1, <3>2
  <2> QED
    BY <2>1, <2>2
<1> QED
  BY <1>3, <1>5, <1>6 DEF Entered

(* The job itself keeps its books.                                         *)
LEMMA OwnBooks ==
    ASSUME LogInv, NEW w \in Workers, Job(w) \/ ParseFails(w)
    PROVE  Entered' /\ Summed' /\ Ahead(w)' /\ Behind(w)'
<1>1. /\ lpc \in [Workers -> Places] /\ Entered /\ Inv
      /\ wpc \in [Workers -> WorkerStates]
  BY DEF LogInv, Shape, Books
<1> USE DEF InJob, Safe, vars, reportVars
<1>2. ASSUME wpc[w] = "running", line[w] <= Len(Log[task[w]])
      PROVE  /\ ThisLine(w).url \in Strings /\ ThisLine(w).traffic \in Nat
             /\ ThisLine(w).referer \in Strings \cup {NoReferer}
             /\ \A k : Weight(k, Part(w, "url")) =
                         IF ThisLine(w).url = k THEN ThisLine(w).traffic ELSE 0
             /\ \A k : Weight(k, Part(w, "referer")) =
                         IF ThisLine(w).referer = k THEN 1 ELSE 0
  BY <1>1, <1>2, InJobIs, LogIs, WeightIs DEF Part
<1>3. "url" \in Types /\ "referer" \in Types
  BY DEF Types
<1>4. CASE LockMap(w)
  BY <1>1, <1>4, MoveBooks DEF LockMap, Step, UrlDone
<1>5. CASE MissUrl(w)
  BY <1>1, <1>5, MoveBooks DEF MissUrl, Step, UrlDone
<1>6. CASE MissReferer(w)
  BY <1>1, <1>6, MoveBooks DEF MissReferer, Step, UrlDone
<1>7. CASE Race(w)
  BY <1>1, <1>7, MoveBooks DEF Race, Move, logVars, jobVars
<1>8. CASE EntryFails(w)
  BY <1>8, AbandonBooks DEF EntryFails
<1>9. CASE ParseFails(w)
  BY <1>9, AbandonBooks DEF ParseFails
<1>10. CASE AddTraffic(w)
  <2>1. /\ wpc[w] = "running" /\ lpc[w] = "url" /\ stage = "collect"
        /\ line[w] <= Len(Log[task[w]])
        /\ ThisLine(w).url \in DOMAIN table
        /\ Bump(ThisLine(w).url, ThisLine(w).traffic) /\ Count(w, "url")
        /\ UNCHANGED <<wpc, task, line, cut, stage, done>>
        /\ ~UrlDone(w) /\ UrlDone(w)'
    BY <1>1, <1>10 DEF AddTraffic, Step, UrlDone
  <2> QED
    BY <1>1, <1>2, <2>1, BumpAdds, UrlBooks
<1>11. CASE NewUrl(w)
  <2>1. /\ wpc[w] = "running" /\ lpc[w] = "newurl" /\ stage = "collect"
        /\ line[w] <= Len(Log[task[w]])
        /\ \/ Put(ThisLine(w).url, "url", ThisLine(w).traffic) /\ Count(w, "url")
           \/ Lose(w, "url")
        /\ UNCHANGED <<wpc, task, line, cut, stage, done>>
        /\ ~UrlDone(w) /\ UrlDone(w)'
    BY <1>1, <1>11 DEF NewUrl, Step, UrlDone
  <2>2. ThisLine(w).url \notin DOMAIN table
    BY <2>1 DEF LogInv, AllPlaced, Placed
  <2> QED
    BY <1>1, <1>2, <1>3, <2>1, <2>2, PutAdds, UrlBooks
<1>12. CASE NoRefererHere(w)
  <2>1. /\ wpc[w] = "running" /\ UrlDone(w) /\ stage = "collect"
        /\ line[w] <= Len(Log[task[w]]) /\ NextLine(w)
        /\ \/ ThisLine(w).referer = NoReferer /\ UNCHANGED lost
           \/ Lose(w, "referer")
        /\ UNCHANGED <<table, counted>>
        /\ UNCHANGED <<wpc, task, cut, stage, done>>
    BY <1>12 DEF NoRefererHere, UrlDone, Lose
  <2> QED
    BY <2>1, RefererBooks
<1>13. CASE AddReferer(w)
  <2>1. /\ wpc[w] = "running" /\ UrlDone(w) /\ stage = "collect"
        /\ line[w] <= Len(Log[task[w]]) /\ NextLine(w)
        /\ ThisLine(w).referer \in DOMAIN table
        /\ Bump(ThisLine(w).referer, 1) /\ Count(w, "referer")
        /\ UNCHANGED <<wpc, task, cut, stage, done>>
    BY <1>13 DEF AddReferer, UrlDone
  <2> QED
    BY <1>1, <1>2, <2>1, BumpAdds, RefererBooks
<1>14. CASE NewReferer(w)
  <2>1. /\ wpc[w] = "running" /\ UrlDone(w) /\ stage = "collect"
        /\ lpc[w] = "newreferer"
        /\ line[w] <= Len(Log[task[w]]) /\ NextLine(w)
        /\ \/ Put(ThisLine(w).referer, "referer", 1) /\ Count(w, "referer")
           \/ Lose(w, "referer")
        /\ UNCHANGED <<wpc, task, cut, stage, done>>
    BY <1>14 DEF NewReferer, UrlDone
  <2>2. ThisLine(w).referer \in Strings \ DOMAIN table
    BY <2>1 DEF LogInv, AllPlaced, Placed
  <2> QED
    BY <1>1, <1>2, <1>3, <2>1, <2>2, PutAdds, RefererBooks
<1> QED
  BY <1>4, <1>5, <1>6, <1>7, <1>8, <1>9, <1>10, <1>11, <1>12, <1>13, <1>14 DEF Job

-----------------------------------------------------------------------------
(* A step of a job is one of a running job, at one of its lines.           *)
LEMMA JobRuns ==
    ASSUME NEW w \in Workers, Job(w) \/ ParseFails(w)
    PROVE  wpc[w] = "running" /\ line[w] <= Len(Log[task[w]])
  BY DEF Job, LockMap, AddTraffic, MissUrl, NewUrl, EntryFails, NoRefererHere,
         AddReferer, MissReferer, NewReferer, Race, ParseFails, InJob, Safe

(* A step of a job keeps the books.                                      *)
LEMMA JobBooks ==
    ASSUME LogInv, NEW w \in Workers, Job(w) \/ ParseFails(w)
    PROVE  Books'
<1>1. Entered' /\ Summed' /\ Ahead(w)' /\ Behind(w)'
  BY OwnBooks
<1>2. \A v \in Workers : Ahead(v)' /\ Behind(v)'
  BY <1>1, OthersBooks
<1>3. Writes(w) /\ done' = done /\ task' = task
  BY JobWrites, JobIs DEF LogInv
<1>4. /\ IsPart(Part(w, "url")) /\ IsPart(Part(w, "referer"))
      /\ Part(w, "url")[1] = task[w] /\ Part(w, "referer")[1] = task[w]
      /\ task[w] \in InHand
  BY JobRuns, InJobIs, LineIs DEF LogInv, Books, Part
<1>5. Fresh /\ NoneSkipped
  BY DEF LogInv, Books
<1>6. IsFiniteSet(counted')
  BY <1>3, <1>5, FS_AddElement DEF Writes, Fresh
<1>7. \A p \in counted' : IsPart(p) /\ p[1] \in InHand \cup done
  BY <1>3, <1>4, <1>5 DEF Writes, Fresh
<1>8. InHand' = InHand
  BY <1>3 DEF InHand
<1>9. Fresh'
  BY <1>2, <1>3, <1>6, <1>7, <1>8 DEF Fresh
<1>10. ASSUME NEW t \in done' \ cut' PROVE Booked(t, Len(Log[t]) + 1)'
  <2>1. t \in done \ cut /\ counted \subseteq counted' /\ lost \subseteq lost'
    BY <1>3 DEF Writes
  <2>2. Booked(t, Len(Log[t]) + 1)
    BY <1>5, <2>1 DEF NoneSkipped
  <2> QED
    BY <2>1, <2>2 DEF Booked
<1> QED
  BY <1>1, <1>2, <1>9, <1>10 DEF Books, NoneSkipped

(* A step of the pool writes nothing.                                      *)
LEMMA PoolBooks ==
    ASSUME LogInv, Bystanding, UNCHANGED logVars
    PROVE  Books'
<1>1. task' = task
  BY PoolTypes DEF LogInv
<1>2. done' = done
  BY DEF Bystanding, Client, Create, Cancel, Submit, SubmitFails, CreateFails,
         AwaitBegins, AwaitReturns, FreeRefuses, FreeQueue, FreePool, Exit, Lock,
         Wait, Reacquire, DieWaiting, DieRunning, Stray, SpuriousWakeup,
         Terminated, vars
<1>3. \A v \in Workers : wpc'[v] = "running" => wpc[v] = "running"
  <2> TAKE v \in Workers
  <2>1. Undisturbed(v)
    BY PoolDisturbs DEF LogInv
  <2> QED
    BY <2>1 DEF Undisturbed
<1>4. /\ lpc' = lpc /\ line' = line /\ table' = table /\ counted' = counted
      /\ lost' = lost /\ cut' = cut /\ stage' = stage
  BY DEF logVars, jobVars, reportVars
<1>5. Entered' /\ Summed'
  BY <1>4 DEF LogInv, Books, Entered, Summed, Counter
<1>6. Fresh'
  BY <1>1, <1>2, <1>3, <1>4 DEF LogInv, Books, Fresh, Ahead, UrlDone, InHand
<1>7. NoneSkipped'
  BY <1>1, <1>2, <1>3, <1>4
     DEF LogInv, Books, NoneSkipped, Behind, Booked, UrlDone, Part
<1> QED
  BY <1>5, <1>6, <1>7 DEF Books

(* A job starts on a file of which nothing has been counted.               *)
LEMMA StartBooks ==
    ASSUME LogInv, NEW w \in Workers, StartJob(w)
    PROVE  Books'
<1>1. /\ wpc[w] = "holding" /\ wpc' = [wpc EXCEPT ![w] = "running"]
      /\ task' = [task EXCEPT ![w] = Head(queue)]
      /\ line' = [line EXCEPT ![w] = 1]
      /\ UNCHANGED <<lpc, table, counted, lost, cut, stage, done>>
  BY DEF StartJob, Take, Move, reportVars
<1>2. Head(queue) \in Queued /\ Head(queue) \in Tasks
  BY TakeEffect DEF LogInv, Inv, StartJob
<1>3. Head(queue) \notin InHand \cup done
  BY <1>2 DEF LogInv, Inv, TasksConserved
<1>4. /\ wpc \in [Workers -> WorkerStates] /\ task[w] = NoTask
      /\ task \in [Workers -> Tasks \cup {NoTask}] /\ lpc[w] = "parse"
  BY <1>1 DEF LogInv, Inv, TypeOK, HandsMatch, Empty, AllPlaced, Placed
<1>5. InHand \subseteq InHand'
  BY <1>1, <1>4 DEF InHand
<1>6. Entered' /\ Summed'
  BY <1>1 DEF LogInv, Books, Entered, Summed, Counter
<1>7. Fresh /\ NoneSkipped /\ line \in [Workers -> Nat]
  BY DEF LogInv, Books, Entered
<1>8. ASSUME NEW v \in Workers PROVE Ahead(v)' /\ Behind(v)'
  <2>1. CASE v = w
    <3>1. task'[w] = Head(queue) /\ line'[w] = 1 /\ ~UrlDone(w)'
      BY <1>1, <1>4, <1>7 DEF UrlDone
    <3>2. Ahead(w)'
      BY <1>1, <1>3, <1>7, <3>1 DEF Ahead, Fresh
    <3>3. ~ \E i \in DOMAIN Log[Head(queue)] : i < 1
      BY <1>2, LogIs
    <3>4. Behind(w)'
      BY <3>1, <3>3 DEF Behind, Booked
    <3> QED
      BY <2>1, <3>2, <3>4
  <2>2. CASE v # w
    <3>1. /\ wpc'[v] = wpc[v] /\ task'[v] = task[v] /\ line'[v] = line[v]
          /\ Ahead(v) /\ Behind(v)
      BY <1>1, <1>7, <2>2 DEF Fresh, NoneSkipped
    <3> QED
      BY <1>1, <3>1 DEF Ahead, Behind, Booked, UrlDone, Part
  <2> QED
    BY <2>1, <2>2
<1>9. Fresh'
  BY <1>1, <1>5, <1>7, <1>8 DEF Fresh
<1>10. NoneSkipped'
  BY <1>1, <1>7, <1>8 DEF NoneSkipped, Booked
<1> QED
  BY <1>6, <1>9, <1>10 DEF Books

(* A job that ends has all the lines of its file behind it.                *)
LEMMA EndBooks ==
    ASSUME LogInv, NEW w \in Workers, EndJob(w)
    PROVE  Books'
<1>1. /\ wpc[w] = "running" /\ wpc' = [wpc EXCEPT ![w] = "start"]
      /\ task' = [task EXCEPT ![w] = NoTask]
      /\ done' = done \cup {task[w]} /\ line[w] > Len(Log[task[w]])
      /\ UNCHANGED <<lpc, line, table, counted, lost, cut, stage>>
  BY DEF EndJob, Finish, Move, logVars, jobVars, reportVars
<1>2. /\ wpc \in [Workers -> WorkerStates]
      /\ task \in [Workers -> Tasks \cup {NoTask}] /\ line[w] \in Nat
      /\ task[w] \in Tasks
  BY <1>1, LineIs DEF LogInv, Inv, TypeOK, Books, Entered
<1>3. InHand \cup done \subseteq InHand' \cup done'
  BY <1>1, <1>2 DEF InHand
<1>4. Entered' /\ Summed'
  BY <1>1 DEF LogInv, Books, Entered, Summed, Counter
<1>5. Fresh /\ NoneSkipped
  BY DEF LogInv, Books
<1>6. ASSUME NEW v \in Workers PROVE Ahead(v)' /\ Behind(v)'
  <2>1. CASE v = w
    BY <1>1, <1>2, <2>1 DEF Ahead, Behind
  <2>2. CASE v # w
    <3>1. /\ wpc'[v] = wpc[v] /\ task'[v] = task[v] /\ line'[v] = line[v]
          /\ Ahead(v) /\ Behind(v)
      BY <1>1, <1>2, <1>5, <2>2 DEF Fresh, NoneSkipped
    <3> QED
      BY <1>1, <3>1 DEF Ahead, Behind, Booked, UrlDone, Part
  <2> QED
    BY <2>1, <2>2
<1>7. Fresh'
  BY <1>1, <1>3, <1>5, <1>6 DEF Fresh
<1>8. ASSUME NEW t \in done' \ cut' PROVE Booked(t, Len(Log[t]) + 1)'
  <2>1. CASE t \in done
    BY <1>1, <1>5, <1>8, <2>1 DEF NoneSkipped, Booked
  <2>2. CASE t = task[w]
    <3>1. Booked(task[w], line[w])
      BY <1>1, <1>5, <1>8, <2>2 DEF NoneSkipped, Behind
    <3>2. \A i \in DOMAIN Log[task[w]] : i < line[w]
      BY <1>1, <1>2, LogIs
    <3> QED
      BY <1>1, <2>2, <3>1, <3>2 DEF Booked
  <2> QED
    BY <1>1, <1>8, <2>1, <2>2
<1> QED
  BY <1>4, <1>6, <1>7, <1>8 DEF Books, NoneSkipped

(* The report reads the map, and clears it in the end.                     *)
LEMMA ReportBooks ==
    ASSUME LogInv,
           UNCHANGED <<wpc, task, done, lpc, line, counted, lost, cut>>,
           \/ /\ table' = table
              /\ (stage' = stage \/ (stage' # "cleared" /\ stage # "cleared"))
           \/ table' = <<>> /\ stage' = "cleared"
    PROVE  Books'
<1>1. Fresh'
  BY DEF LogInv, Books, Fresh, Ahead, UrlDone, InHand
<1>2. NoneSkipped'
  BY DEF LogInv, Books, NoneSkipped, Behind, Booked, UrlDone, Part
<1>3. CASE table' = <<>> /\ stage' = "cleared"
  <2>1. /\ DOMAIN <<>> \subseteq Strings
        /\ <<>> \in [DOMAIN <<>> -> [type : Types, counter : Nat]]
    OBVIOUS
  <2>2. Entered'
    BY <1>3, <2>1 DEF LogInv, Books, Entered
  <2>3. Summed'
    BY <1>3 DEF Summed
  <2> QED
    BY <1>1, <1>2, <2>2, <2>3 DEF Books
<1>4. CASE /\ table' = table
           /\ (stage' = stage \/ (stage' # "cleared" /\ stage # "cleared"))
  <2>1. Entered' /\ Summed'
    BY <1>4 DEF LogInv, Books, Entered, Summed, Counter
  <2> QED
    BY <1>1, <1>2, <2>1 DEF Books
<1> QED
  BY <1>3, <1>4

(* Every step keeps the books.                                           *)
LEMMA BooksStep == LogInv /\ [LogNext]_<<vars, logVars>> => LogInv'
<1> SUFFICES ASSUME LogInv, [LogNext]_<<vars, logVars>> PROVE LogInv'
  OBVIOUS
<1>1. Inv' /\ Shape' /\ AllPlaced'
  BY PoolKeeps, StepInv DEF LogInv
<1>2. ASSUME NEW w \in Workers, Job(w) \/ ParseFails(w) PROVE Books'
  BY <1>2, JobBooks
<1>3. ASSUME NEW w \in Workers, StartJob(w) PROVE Books'
  BY <1>3, StartBooks
<1>4. ASSUME NEW w \in Workers, EndJob(w) PROVE Books'
  BY <1>4, EndBooks
<1>5. ASSUME Bystanding, UNCHANGED logVars PROVE Books'
  BY <1>5, PoolBooks
<1>6. ASSUME \/ StartReport \/ PrintTop \/ ClearMap
             \/ (\E k \in unseen : Filter(k)) \/ UNCHANGED <<vars, logVars>>
      PROVE  Books'
  <2>1. UNCHANGED <<wpc, task, done, lpc, line, counted, lost, cut>>
    BY <1>6 DEF StartReport, PrintTop, ClearMap, Filter, vars, logVars, jobVars
  <2>2. CASE ClearMap
    <3>1. table' = <<>> /\ stage' = "cleared"
      BY <2>2 DEF ClearMap
    <3> QED
      BY <2>1, <3>1, ReportBooks
  <2>3. CASE ~ClearMap
    <3>1. /\ table' = table
          /\ (stage' = stage \/ (stage' # "cleared" /\ stage # "cleared"))
      <4>1. CASE StartReport
        BY <4>1 DEF StartReport, jobVars
      <4>2. CASE PrintTop
        BY <4>2 DEF PrintTop, jobVars
      <4>3. CASE \E k \in unseen : Filter(k)
        BY <4>3 DEF Filter, jobVars
      <4>4. CASE UNCHANGED <<vars, logVars>>
        BY <4>4 DEF logVars, jobVars, reportVars
      <4> QED
        BY <1>6, <2>3, <4>1, <4>2, <4>3, <4>4
    <3> QED
      BY <2>1, <3>1, ReportBooks
  <2> QED
    BY <2>2, <2>3
<1>7. ASSUME Main PROVE Books'
  <2>1. CASE Client /\ UNCHANGED logVars
    BY <1>5, <2>1 DEF Bystanding
  <2>2. CASE Exit /\ UNCHANGED logVars
    BY <1>5, <2>2 DEF Bystanding, Client
  <2> QED
    BY <1>6, <1>7, <2>1, <2>2 DEF Main
<1>8. ASSUME NEW w \in Workers, PoolStep(w) PROVE Books'
  <2>1. Bystanding /\ UNCHANGED logVars
    BY <1>8 DEF PoolStep, Bystanding
  <2> QED
    BY <1>5, <2>1
<1>9. ASSUME NEW w \in Workers, Thread(w) PROVE Books'
  BY <1>2, <1>3, <1>4, <1>8, <1>9 DEF Thread
<1>10. ASSUME \/ \E w \in Workers : SpuriousWakeup(w) /\ UNCHANGED logVars
              \/ Terminated /\ UNCHANGED logVars
       PROVE  Books'
  <2>1. Bystanding /\ UNCHANGED logVars
    BY <1>10 DEF Bystanding
  <2> QED
    BY <1>5, <2>1
<1>11. Books'
  BY <1>2, <1>6, <1>7, <1>9, <1>10 DEF LogNext
<1> QED
  BY <1>1, <1>11 DEF LogInv

(* The program begins with an empty map and empty books.                 *)
LEMMA BooksInit == LogInit => LogInv
<1> SUFFICES ASSUME LogInit PROVE LogInv
  OBVIOUS
<1>1. Inv
  BY InvInit DEF LogInit
<1>2. Shape /\ AllPlaced
  BY DEF LogInit, Init, Shape, AllPlaced, Placed, Places, WorkerStates
<1>3. Entered
  <2>1. /\ DOMAIN <<>> \subseteq Strings
        /\ <<>> \in [DOMAIN <<>> -> [type : Types, counter : Nat]]
    OBVIOUS
  <2> QED
    BY <2>1 DEF LogInit, Entered
<1>4. Summed
  <2>1. IsFiniteSet({}) /\ DOMAIN <<>> = {}
    BY FS_EmptySet
  <2>2. \A k : Sum(k, {}) = 0
    BY <2>1, SumTurn
  <2> QED
    BY <2>1, <2>2 DEF LogInit, Summed, Counter
<1>5. Fresh
  BY FS_EmptySet DEF LogInit, Init, Fresh, Ahead
<1>6. NoneSkipped
  BY DEF LogInit, Init, NoneSkipped, Behind
<1> QED
  BY <1>1, <1>2, <1>3, <1>4, <1>5, <1>6 DEF LogInv, Books

(* The inductive invariant of the log analyzer: the pool's, the places   *)
(* of the jobs, and the books of collect_statistics.                     *)
THEOREM LogInvariance == LogSpec => []LogInv
  BY BooksInit, BooksStep, PTL DEF LogSpec

(* When the report is made, a counter of the map is the sum of all the   *)
(* parts counted for its key, over all files and whatever the order of   *)
(* the jobs; and no line of a file that was read to its end is left out, *)
(* unless an allocation failed.                                          *)
THEOREM TotalsAreExact == LogSpec => []TotalsExact
<1>1. LogInv => TotalsExact
  <2> SUFFICES ASSUME LogInv PROVE TotalsExact
    OBVIOUS
  <2>1. ASSUME stage # "cleared", NEW k \in DOMAIN table
        PROVE  table[k].counter = MapThenSumSet(LAMBDA part : Weight(k, part), counted)
    <3>1. Sum(k, counted) = table[k].counter
      BY <2>1 DEF LogInv, Books, Summed, Entered, Counter
    <3> QED
      BY <3>1 DEF Sum
  <2>2. ASSUME NEW t \in done \ cut, NEW i \in DOMAIN Log[t]
        PROVE  /\ <<t, i, "url">> \in counted \cup lost
               /\ Log[t][i].referer # NoReferer =>
                      <<t, i, "referer">> \in counted \cup lost
    <3>1. Booked(t, Len(Log[t]) + 1)
      BY DEF LogInv, Books, NoneSkipped
    <3>2. t \in Tasks
      BY DEF LogInv, Inv, TypeOK
    <3>3. i < Len(Log[t]) + 1
      BY <3>2, LogIs
    <3> QED
      BY <3>1, <3>3 DEF Booked
  <2> QED
    BY <2>1, <2>2 DEF TotalsExact
<1> QED
  BY <1>1, LogInvariance, PTL

-----------------------------------------------------------------------------
(* The counter by which the report compares.                             *)
Of(x) == table[x].counter

(* What stays of the entry x behind index i, and what is put there.        *)
Left(array, x, i) ==
    CASE x = NoEntry -> NoEntry
      [] array[i] = NoEntry -> NoEntry
      [] OTHER -> IF Of(array[i]) < Of(x) THEN array[i] ELSE x

PutAt(array, x, i) ==
    IF x = NoEntry THEN array[i]
    ELSE IF array[i] = NoEntry THEN x
    ELSE IF Of(array[i]) < Of(x) THEN x ELSE array[i]

(* f is what is carried to each index.                                   *)
IsCarry(f, array, k) ==
    f = [i \in 1..TopSize |-> IF i = 1 THEN k ELSE Left(array, f[i - 1], i - 1)]

CarryOf(array, k) == CHOOSE f : IsCarry(f, array, k)

(* The loop by its steps.                                                *)
LEMMA CarriedIs ==
    ASSUME NEW array, NEW k
    PROVE  Carried(array, k) =
             [i \in 1..TopSize |-> PutAt(array, CarryOf(array, k)[i], i)]
  BY DEF Carried, CarryOf, IsCarry, Left, PutAt, Of

(* SIZE_RESULT_ARRAYS is positive.                                       *)
LEMMA SizeIs == TopSize \in Nat /\ TopSize >= 1
<1>1. TopSize \in Nat \ {0}
  BY LogAssumption
<1> QED
  BY <1>1

(* There is such a function: if it stopped at some index, what it is one *)
(* index earlier would give it there.                                    *)
LEMMA CarryExists ==
    ASSUME NEW array, NEW k
    PROVE  \E f : IsCarry(f, array, k)
<1> DEFINE Upto(f, n) ==
      f = [i \in 1..TopSize |->
            IF i > n \/ i = 1 THEN k ELSE Left(array, f[i - 1], i - 1)]
      Bad == {n \in Nat : ~ \E f : Upto(f, n)}
<1>1. Bad = {}
  <2>1. SUFFICES ASSUME Bad # {} PROVE FALSE
    OBVIOUS
  <2>2. PICK m \in Bad : \A i \in Bad : m <= i
    BY <2>1, LeastOf
  <2>3. m # 0
    <3>1. \A i \in 1..TopSize : i > 0
      BY SizeIs
    <3>2. Upto([i \in 1..TopSize |-> k], 0)
      BY <3>1
    <3>3. 0 \notin Bad
      BY <3>2
    <3> QED
      BY <3>3, <2>2
  <2>4. m \in Nat /\ m - 1 \in Nat /\ m - 1 \notin Bad
    <3>1. m \in Nat
      BY <2>2
    <3> HIDE DEF Bad
    <3>2. m - 1 \in Nat /\ ~ (m <= m - 1)
      BY <2>3, <3>1
    <3> QED
      BY <2>2, <3>1, <3>2
  <2>5. PICK f : Upto(f, m - 1)
    BY <2>4
  <2> DEFINE g == [i \in 1..TopSize |->
                     IF i > m \/ i = 1 THEN k ELSE Left(array, f[i - 1], i - 1)]
  <2>6. ASSUME NEW i \in 1..TopSize, i <= m - 1 PROVE g[i] = f[i]
    <3>1. ~ (i > m) /\ ~ (i > m - 1)
      BY <2>4, <2>6, SizeIs
    <3>2. f[i] = IF i = 1 THEN k ELSE Left(array, f[i - 1], i - 1)
      BY <3>1, <2>5, Zenon
    <3> QED
      BY <3>1, <3>2
  <2>7. ASSUME NEW i \in 1..TopSize, ~ (i > m), i # 1
        PROVE  Left(array, f[i - 1], i - 1) = Left(array, g[i - 1], i - 1)
    <3>1. i - 1 \in 1..TopSize /\ i - 1 <= m - 1
      BY <2>4, <2>7, SizeIs
    <3>2. g[i - 1] = f[i - 1]
      BY <2>6, <3>1
    <3> QED
      BY <3>2
  <2>8. Upto(g, m)
    <3>1. ASSUME NEW i \in 1..TopSize
          PROVE  (IF i > m \/ i = 1 THEN k ELSE Left(array, f[i - 1], i - 1))
                   = (IF i > m \/ i = 1 THEN k ELSE Left(array, g[i - 1], i - 1))
      BY <2>7
    <3> QED
      BY <3>1, Zenon
  <2>9. m \notin Bad
    <3> HIDE DEF g
    <3> QED
      BY <2>8
  <2> QED
    BY <2>2, <2>9
<1>2. PICK f : Upto(f, TopSize)
  BY <1>1, SizeIs
<1>3. ASSUME NEW i \in 1..TopSize
      PROVE  (IF i > TopSize \/ i = 1 THEN k ELSE Left(array, f[i - 1], i - 1))
               = (IF i = 1 THEN k ELSE Left(array, f[i - 1], i - 1))
  <2>1. ~ (i > TopSize)
    BY SizeIs
  <2> QED
    BY <2>1
<1>4. IsCarry(f, array, k)
  BY <1>2, <1>3, Zenon DEF IsCarry
<1> QED
  BY <1>4

(* The loop as a run: what is carried to each index, and past the last.    *)
Run(f, r, array, k) ==
    /\ f[1] = k
    /\ \A i \in 1..TopSize : f[i + 1] = Left(array, f[i], i)
    /\ r = [i \in 1..TopSize |-> PutAt(array, f[i], i)]

(* filter_statistics is such a run.                                      *)
LEMMA CarriedRuns ==
    ASSUME NEW array, NEW k
    PROVE  \E f : Run(f, Carried(array, k), array, k)
<1> DEFINE c == CarryOf(array, k)
           f == [i \in 1..(TopSize + 1) |->
                   IF i <= TopSize THEN c[i] ELSE Left(array, c[TopSize], TopSize)]
<1>1. IsCarry(c, array, k)
  BY CarryExists, Zenon DEF CarryOf
<1>2. Carried(array, k) = [i \in 1..TopSize |-> PutAt(array, c[i], i)]
  BY CarriedIs
<1> HIDE DEF c
<1>3. \A i \in 1..TopSize : c[i] = IF i = 1 THEN k ELSE Left(array, c[i - 1], i - 1)
  BY <1>1, Zenon DEF IsCarry
<1>4. \A i \in 1..TopSize : f[i] = c[i]
  BY SizeIs
<1>5. f[1] = k
  BY <1>3, <1>4, SizeIs
<1>6. ASSUME NEW i \in 1..TopSize PROVE f[i + 1] = Left(array, f[i], i)
  <2>1. CASE i = TopSize
    <3>1. f[TopSize + 1] = Left(array, c[TopSize], TopSize)
      BY SizeIs
    <3> QED
      BY <1>4, <2>1, <3>1
  <2>2. CASE i # TopSize
    <3>1. i + 1 \in 1..TopSize /\ (i + 1) - 1 = i /\ i + 1 # 1
      BY <2>2, SizeIs
    <3>2. c[i + 1] = Left(array, c[i], i)
      BY <1>3, <3>1
    <3> QED
      BY <1>4, <3>1, <3>2
  <2> QED
    BY <2>1, <2>2
<1>7. Carried(array, k) = [i \in 1..TopSize |-> PutAt(array, f[i], i)]
  BY <1>2, <1>4
<1> HIDE DEF f
<1> QED
  BY <1>5, <1>6, <1>7 DEF Run

-----------------------------------------------------------------------------
(* What an array shows.                                                  *)
Shown(array) == {array[i] : i \in 1..TopSize} \ {NoEntry}

(* An array holds the largest of the keys K, in descending order.          *)
Largest(array, K) ==
    /\ array \in [1..TopSize -> K \cup {NoEntry}]
    /\ \A i, j \in 1..TopSize : i < j /\ array[j] # NoEntry =>
          array[i] # NoEntry /\ array[i] # array[j] /\ Of(array[j]) <= Of(array[i])
    /\ \A k \in K \ Shown(array) :
          array[TopSize] # NoEntry /\ Of(k) <= Of(array[TopSize])

(* The keys of a type.                                                   *)
KeysOf(y) == {k \in DOMAIN table : table[k].type = y}

(* The arrays hold the largest of the keys the report has seen.          *)
Topped ==
    /\ stage = "collect" => top = [y \in Types |-> [i \in 1..TopSize |-> NoEntry]]
    /\ stage \in {"iterate", "print"} =>
          /\ unseen \subseteq DOMAIN table
          /\ top = [y \in Types |-> top[y]]
          /\ \A y \in Types : Largest(top[y], KeysOf(y) \ unseen)
    /\ stage = "print" => unseen = {}
    /\ IsFiniteSet(DOMAIN table)

-----------------------------------------------------------------------------
(* The entries of the map can be compared and are no NULL.                 *)
Comparable ==
    NoEntry \notin DOMAIN table /\ \A x \in DOMAIN table : Of(x) \in Nat

(* The key k is about to be put into an array of the largest keys of K.    *)
Inserting(array, K, k) ==
    /\ K \subseteq DOMAIN table /\ k \in DOMAIN table \ K
    /\ Largest(array, K)

(* What has been put before i, and what is carried there, is what was    *)
(* there before and the key.                                             *)
Got(f, r, i) == ({r[j] : j \in 1..(i - 1)} \cup {f[i]}) \ {NoEntry}

Had(array, k, i) == ({array[j] : j \in 1..(i - 1)} \cup {k}) \ {NoEntry}

(* Before i there are entries only, none of them x and none less than x.   *)
Above(r, x, i) ==
    \A j \in 1..(i - 1) : r[j] # NoEntry /\ r[j] # x /\ Of(x) <= Of(r[j])

(* The first n entries descend, without a gap.                           *)
Descends(r, n) ==
    \A i, j \in 1..n : i < j /\ r[j] # NoEntry =>
        r[i] # NoEntry /\ r[i] # r[j] /\ Of(r[j]) <= Of(r[i])

(* The loop when it has come to index i.                                   *)
Loop(f, r, array, k, i) ==
    /\ Got(f, r, i) = Had(array, k, i)
    /\ Descends(r, i - 1)
    /\ f[i] # NoEntry => Above(r, f[i], i)
    /\ f[i] = NoEntry => \E j \in 1..(i - 1) : array[j] = NoEntry
    /\ i <= TopSize /\ array[i] # NoEntry => Above(r, array[i], i)

(* The loop before its first turn.                                       *)
LEMMA LoopStarts ==
    ASSUME Comparable, NEW array, NEW K, NEW k, Inserting(array, K, k),
           NEW f, NEW r, Run(f, r, array, k)
    PROVE  Loop(f, r, array, k, 1)
<1>1. 1..(1 - 1) = {}
  OBVIOUS
<1>2. f[1] = k /\ k # NoEntry
  BY DEF Run, Inserting, Comparable
<1> QED
  BY <1>1, <1>2 DEF Loop, Got, Had, Above, Descends

(* What stands before an index.                                          *)
LEMMA IndexIs ==
    ASSUME NEW i \in 1..TopSize
    PROVE  /\ i \in Nat /\ i + 1 \in Nat
           /\ 1..((i + 1) - 1) = 1..(i - 1) \cup {i}
           /\ 1..((i + 1) - 1) \subseteq 1..TopSize
           /\ \A j \in 1..(i - 1) : j \in 1..TopSize /\ j < i
  BY SizeIs

(* What the loop holds when it comes to i, by name.                        *)
LEMMA LoopHolds ==
    ASSUME Comparable, NEW array, NEW K, NEW k, Inserting(array, K, k),
           NEW f, NEW r, Run(f, r, array, k), NEW i \in 1..TopSize,
           Loop(f, r, array, k, i)
    PROVE  /\ \A x \in Had(array, k, i) : x \in DOMAIN table
           /\ \A j \in 1..(i - 1) : r[j] # NoEntry => r[j] \in Had(array, k, i)
           /\ f[i] # NoEntry => f[i] \in Had(array, k, i)
           /\ array[i] # NoEntry =>
                 array[i] \in DOMAIN table /\ array[i] \notin Had(array, k, i)
           /\ \A j \in 1..TopSize : i < j /\ array[j] # NoEntry =>
                 /\ array[i] # NoEntry /\ array[i] # array[j]
                 /\ Of(array[j]) <= Of(array[i])
                 /\ array[j] \notin Had(array, k, i)
<1>1. /\ array \in [1..TopSize -> K \cup {NoEntry}] /\ Descends(array, TopSize)
      /\ K \subseteq DOMAIN table /\ k \in DOMAIN table /\ k \notin K
  BY DEF Inserting, Largest, Descends
<1>2. \A j \in 1..(i - 1) : j \in 1..TopSize /\ j < i
  BY IndexIs
<1>3. \A x \in Had(array, k, i) : x \in DOMAIN table
  BY <1>1, <1>2 DEF Had
<1>4. \A j \in 1..(i - 1) : r[j] # NoEntry => r[j] \in Had(array, k, i)
  BY DEF Loop, Got
<1>5. f[i] # NoEntry => f[i] \in Had(array, k, i)
  BY DEF Loop, Got
<1>6. ASSUME NEW j \in 1..TopSize, i <= j, array[j] # NoEntry
      PROVE  array[j] \in DOMAIN table /\ array[j] \notin Had(array, k, i)
  <2>1. array[j] \in K
    BY <1>1, <1>6
  <2>2. \A l \in 1..(i - 1) : array[l] # array[j]
    <3> TAKE l \in 1..(i - 1)
    <3>1. l \in 1..TopSize /\ l < j
      BY <1>2, <1>6, SizeIs
    <3> QED
      BY <1>1, <1>6, <3>1 DEF Descends
  <2> QED
    BY <1>1, <2>1, <2>2 DEF Had
<1>7. i <= i /\ \A j \in 1..TopSize : i < j => i <= j
  BY SizeIs
<1> QED
  BY <1>1, <1>3, <1>4, <1>5, <1>6, <1>7 DEF Descends

(* Nothing is carried any more: the rest of the array is empty.            *)
LEMMA LoopIdles ==
    ASSUME Comparable, NEW array, NEW K, NEW k, Inserting(array, K, k),
           NEW f, NEW r, Run(f, r, array, k), NEW i \in 1..TopSize,
           Loop(f, r, array, k, i), f[i] = NoEntry \/ array[i] = NoEntry
    PROVE  Loop(f, r, array, k, i + 1)
<1>1. /\ 1..((i + 1) - 1) = 1..(i - 1) \cup {i} /\ i \in 1..((i + 1) - 1)
      /\ \A j \in 1..(i - 1) : j \in 1..TopSize /\ j < i
  BY IndexIs, SizeIs
<1>2. array[i] = NoEntry
  <2>1. CASE f[i] = NoEntry
    <3>1. PICK j \in 1..(i - 1) : array[j] = NoEntry
      BY <2>1 DEF Loop
    <3>2. j \in 1..TopSize /\ j < i
      BY <1>1
    <3> QED
      BY <3>1, <3>2 DEF Inserting, Largest
  <2> QED
    BY <2>1
<1>3. r[i] = f[i] /\ f[i + 1] = NoEntry
  BY <1>2 DEF Run, PutAt, Left
<1>4. i + 1 <= TopSize => array[i + 1] = NoEntry
  <2> SUFFICES ASSUME i + 1 <= TopSize PROVE array[i + 1] = NoEntry
    OBVIOUS
  <2>1. i + 1 \in 1..TopSize /\ i < i + 1
    BY SizeIs
  <2> QED
    BY <1>2, <2>1 DEF Inserting, Largest
<1>5. Got(f, r, i + 1) = Got(f, r, i)
  BY <1>1, <1>3 DEF Got
<1>6. Had(array, k, i + 1) = Had(array, k, i)
  BY <1>1, <1>2 DEF Had
<1>7. Descends(r, (i + 1) - 1)
  <2>1. ASSUME NEW j \in 1..((i + 1) - 1), NEW l \in 1..((i + 1) - 1), j < l,
               r[l] # NoEntry
        PROVE  r[j] # NoEntry /\ r[j] # r[l] /\ Of(r[l]) <= Of(r[j])
    <3>1. CASE l \in 1..(i - 1)
      <4>1. j \in 1..(i - 1)
        BY <1>1, <2>1, <3>1, SizeIs
      <4> QED
        BY <2>1, <3>1, <4>1 DEF Loop, Descends
    <3>2. CASE l = i
      <4>1. j \in 1..(i - 1)
        BY <1>1, <2>1, <3>2, SizeIs
      <4> QED
        BY <1>3, <2>1, <3>2, <4>1 DEF Loop, Above
    <3> QED
      BY <1>1, <2>1, <3>1, <3>2
  <2> QED
    BY <2>1 DEF Descends
<1> QED
  BY <1>1, <1>2, <1>3, <1>4, <1>5, <1>6, <1>7 DEF Loop

(* The larger of the two is put down and the other one carried on.         *)
LEMMA LoopTurns ==
    ASSUME Comparable, NEW array, NEW K, NEW k, Inserting(array, K, k),
           NEW f, NEW r, Run(f, r, array, k), NEW i \in 1..TopSize,
           Loop(f, r, array, k, i), f[i] # NoEntry, array[i] # NoEntry
    PROVE  Loop(f, r, array, k, i + 1)
<1>1. /\ 1..((i + 1) - 1) = 1..(i - 1) \cup {i} /\ i \in 1..((i + 1) - 1)
      /\ \A j \in 1..(i - 1) : j \in 1..TopSize /\ j < i
  BY IndexIs, SizeIs
<1> DEFINE a == array[i]
           c == f[i]
<1>2. /\ c \in DOMAIN table /\ a \in DOMAIN table /\ c # a
      /\ Of(c) \in Nat /\ Of(a) \in Nat
      /\ c # NoEntry /\ a # NoEntry
  BY LoopHolds DEF Comparable
<1>3. \/ r[i] = c /\ f[i + 1] = a /\ Of(a) < Of(c)
      \/ r[i] = a /\ f[i + 1] = c /\ ~ (Of(a) < Of(c))
  BY <1>2 DEF Run, PutAt, Left
<1>4. Above(r, a, i) /\ Above(r, c, i)
  <2>1. i <= TopSize
    BY SizeIs
  <2> QED
    BY <1>2, <2>1 DEF Loop
<1> HIDE DEF a, c
<1>5. /\ r[i] \in DOMAIN table /\ f[i + 1] \in DOMAIN table
      /\ r[i] # NoEntry /\ f[i + 1] # NoEntry /\ r[i] # f[i + 1]
      /\ Of(f[i + 1]) <= Of(r[i]) /\ Of(a) <= Of(r[i])
      /\ Above(r, r[i], i) /\ Above(r, f[i + 1], i)
  BY <1>2, <1>3, <1>4
<1>6. Got(f, r, i + 1) = Had(array, k, i + 1)
  <2>1. Got(f, r, i + 1) = (Got(f, r, i) \cup {a}) \ {NoEntry}
    BY <1>1, <1>3 DEF Got, c
  <2>2. Had(array, k, i + 1) = (Had(array, k, i) \cup {a}) \ {NoEntry}
    BY <1>1 DEF Had, a
  <2> QED
    BY <2>1, <2>2 DEF Loop
<1>7. Descends(r, (i + 1) - 1)
  <2>1. ASSUME NEW j \in 1..((i + 1) - 1), NEW l \in 1..((i + 1) - 1), j < l,
               r[l] # NoEntry
        PROVE  r[j] # NoEntry /\ r[j] # r[l] /\ Of(r[l]) <= Of(r[j])
    <3>1. CASE l \in 1..(i - 1)
      <4>1. j \in 1..(i - 1)
        BY <1>1, <2>1, <3>1, SizeIs
      <4> QED
        BY <2>1, <3>1, <4>1 DEF Loop, Descends
    <3>2. CASE l = i
      <4>1. j \in 1..(i - 1)
        BY <1>1, <2>1, <3>2, SizeIs
      <4> QED
        BY <1>5, <3>2, <4>1 DEF Above
    <3> QED
      BY <1>1, <2>1, <3>1, <3>2
  <2> QED
    BY <2>1 DEF Descends
<1>8. Above(r, f[i + 1], i + 1)
  BY <1>1, <1>5 DEF Above
<1>9. ASSUME i + 1 <= TopSize, array[i + 1] # NoEntry
      PROVE  Above(r, array[i + 1], i + 1)
  <2>1. i + 1 \in 1..TopSize /\ i < i + 1
    BY <1>9, SizeIs
  <2> DEFINE b == array[i + 1]
  <2>2. /\ b # a /\ Of(b) <= Of(a) /\ b \notin Had(array, k, i)
    BY <1>9, <2>1, LoopHolds DEF a
  <2>3. b \in DOMAIN table /\ Of(b) \in Nat
    BY <1>9, <2>1 DEF Inserting, Largest, Comparable
  <2> HIDE DEF b
  <2>4. ASSUME NEW j \in 1..(i - 1)
        PROVE  r[j] # NoEntry /\ r[j] # b /\ Of(b) <= Of(r[j])
    <3>1. r[j] # NoEntry /\ Of(a) <= Of(r[j])
      BY <1>4 DEF Above
    <3>2. r[j] \in Had(array, k, i) /\ r[j] \in DOMAIN table
      BY <3>1, LoopHolds
    <3>3. Of(r[j]) \in Nat
      BY <3>2 DEF Comparable
    <3> QED
      BY <1>2, <2>2, <2>3, <3>1, <3>2, <3>3
  <2>5. r[i] # b /\ Of(b) <= Of(r[i])
    <3>1. c \in Had(array, k, i)
      BY <1>2, LoopHolds DEF c
    <3>2. Of(r[i]) \in Nat
      BY <1>5 DEF Comparable
    <3> QED
      BY <1>2, <1>3, <1>5, <2>2, <2>3, <3>1, <3>2
  <2> QED
    BY <1>1, <1>5, <2>4, <2>5 DEF Above, b
<1> QED
  BY <1>5, <1>6, <1>7, <1>8, <1>9 DEF Loop

(* So the loop holds to its end.                                         *)
LEMMA LoopEnds ==
    ASSUME Comparable, NEW array, NEW K, NEW k, Inserting(array, K, k),
           NEW f, NEW r, Run(f, r, array, k)
    PROVE  \A i \in 1..(TopSize + 1) : Loop(f, r, array, k, i)
<1> DEFINE Bad == {i \in 1..(TopSize + 1) : ~Loop(f, r, array, k, i)}
<1>1. SUFFICES ASSUME Bad # {} PROVE FALSE
  OBVIOUS
<1>2. Bad \subseteq Nat
  BY SizeIs
<1>3. PICK m \in Bad : \A i \in Bad : m <= i
  BY <1>1, <1>2, LeastOf
<1>4. m \in 1..(TopSize + 1) /\ ~Loop(f, r, array, k, m)
  OBVIOUS
<1>5. m # 1
  BY <1>4, LoopStarts
<1>6. PICK i \in 1..TopSize : m = i + 1
  <2>1. m - 1 \in 1..TopSize /\ m = (m - 1) + 1
    BY <1>4, <1>5, SizeIs
  <2> QED
    BY <2>1
<1>7. i \in 1..(TopSize + 1) /\ ~ (m <= i)
  BY <1>6, SizeIs
<1>8. Loop(f, r, array, k, i)
  BY <1>3, <1>7
<1> QED
  BY <1>4, <1>6, <1>8, LoopIdles, LoopTurns

(* filter_statistics keeps the largest keys it has seen, in their order.   *)
LEMMA LargestCarried ==
    ASSUME Comparable, NEW array, NEW K, NEW k, Inserting(array, K, k)
    PROVE  Largest(Carried(array, k), K \cup {k})
<1>1. PICK r : r = Carried(array, k)
  OBVIOUS
<1>2. PICK f : Run(f, r, array, k)
  BY <1>1, CarriedRuns
<1> DEFINE N == TopSize
<1>3. /\ N \in Nat /\ N \in 1..N /\ N + 1 \in 1..(N + 1) /\ 1..((N + 1) - 1) = 1..N
      /\ (N + 1) - 1 = N
  BY SizeIs
<1>4. Loop(f, r, array, k, N + 1) /\ Loop(f, r, array, k, N)
  <2>1. N \in 1..(N + 1)
    BY SizeIs
  <2> QED
    BY <1>2, <1>3, <2>1, LoopEnds
<1>5. /\ Largest(array, K) /\ k # NoEntry
      /\ K \subseteq DOMAIN table /\ k \in DOMAIN table
  BY DEF Inserting, Comparable
<1>6. Had(array, k, N + 1) = (Shown(array) \cup {k}) \ {NoEntry}
  BY <1>3 DEF Had, Shown
<1>7. Got(f, r, N + 1) = (Shown(r) \cup {f[N + 1]}) \ {NoEntry}
  BY <1>3 DEF Got, Shown
<1>8. r \in [1..N -> (K \cup {k}) \cup {NoEntry}]
  <2>1. \A i \in 1..N : r[i] # NoEntry => r[i] \in Had(array, k, N + 1)
    BY <1>4, <1>7 DEF Loop, Shown
  <2>2. Had(array, k, N + 1) \subseteq K \cup {k}
    BY <1>5, <1>6 DEF Shown, Largest
  <2>3. r = [i \in 1..N |-> r[i]]
    BY <1>2 DEF Run
  <2>4. \A i \in 1..N : r[i] \in (K \cup {k}) \cup {NoEntry}
    BY <2>1, <2>2
  <2> QED
    BY <2>3, <2>4
<1>9. Descends(r, N)
  BY <1>3, <1>4 DEF Loop
<1>10. ASSUME array[N] # NoEntry PROVE r[N] # NoEntry /\ Of(array[N]) <= Of(r[N])
  <2>1. f[N] # NoEntry
    <3>1. SUFFICES ASSUME f[N] = NoEntry PROVE FALSE
      OBVIOUS
    <3>2. PICK j \in 1..(N - 1) : array[j] = NoEntry
      BY <1>4, <3>1 DEF Loop
    <3>3. j \in 1..N /\ j < N
      BY <1>3
    <3> QED
      BY <1>3, <1>5, <1>10, <3>2, <3>3 DEF Largest
  <2>2. array[N] \in DOMAIN table /\ f[N] \in DOMAIN table
    BY <1>2, <1>3, <1>4, <1>10, <2>1, LoopHolds
  <2>3. Of(array[N]) \in Nat /\ Of(f[N]) \in Nat
    BY <2>2 DEF Comparable
  <2>4. r[N] = IF Of(array[N]) < Of(f[N]) THEN f[N] ELSE array[N]
    BY <1>2, <1>3, <1>10, <2>1 DEF Run, PutAt
  <2> QED
    BY <1>10, <2>1, <2>3, <2>4
<1>11. ASSUME NEW x \in (K \cup {k}) \ Shown(r)
       PROVE  r[N] # NoEntry /\ Of(x) <= Of(r[N])
  <2>1. x \in DOMAIN table /\ x # NoEntry /\ Of(x) \in Nat
    BY <1>5 DEF Comparable
  <2>2. CASE x \in Had(array, k, N + 1)
    <3>1. x = f[N + 1]
      BY <1>4, <1>7, <2>2 DEF Loop
    <3>2. Above(r, x, N + 1)
      BY <1>4, <2>1, <3>1 DEF Loop
    <3> QED
      BY <1>3, <3>2 DEF Above
  <2>3. CASE x \notin Had(array, k, N + 1)
    <3>1. x \in K \ Shown(array)
      BY <1>6, <2>1, <2>3
    <3>2. array[N] # NoEntry /\ Of(x) <= Of(array[N])
      BY <1>5, <3>1 DEF Largest
    <3>3. r[N] # NoEntry /\ Of(array[N]) <= Of(r[N])
      BY <1>10, <3>2
    <3>4. Of(array[N]) \in Nat /\ Of(r[N]) \in Nat
      <4>1. array[N] \in K /\ r[N] \in K \cup {k}
        BY <1>3, <1>5, <1>8, <3>2, <3>3 DEF Largest
      <4> QED
        BY <1>5, <4>1 DEF Comparable
    <3> QED
      BY <2>1, <3>2, <3>3, <3>4
  <2> QED
    BY <2>2, <2>3
<1> QED
  BY <1>1, <1>8, <1>9, <1>11 DEF Largest, Descends

-----------------------------------------------------------------------------
(* What is printed.                                                        *)
LEMMA EmptyIsLargest ==
    Largest([i \in 1..TopSize |-> NoEntry], {})
<1>1. TopSize \in 1..TopSize
  BY SizeIs
<1> QED
  BY <1>1 DEF Largest, Shown

(* What TopIsRight asks of an array that holds the largest of K.         *)
LEMMA LargestIsRight ==
    ASSUME NEW array, NEW K, IsFiniteSet(K), NoEntry \notin K,
           \A x \in K : Of(x) \in Nat, Largest(array, K)
    PROVE  LET shown == {i \in 1..TopSize : array[i] # NoEntry}
               best == {array[i] : i \in shown}
           IN  /\ Cardinality(best) = Cardinality(shown)
               /\ best \subseteq K
               /\ Cardinality(best) = Min({TopSize, Cardinality(K)})
               /\ \A i, j \in shown : i < j => Of(array[i]) >= Of(array[j])
               /\ \A k \in K \ best : \A b \in best : Of(k) <= Of(b)
<1> DEFINE N == TopSize
           shown == {i \in 1..N : array[i] # NoEntry}
           best == {array[i] : i \in shown}
<1>1. /\ array \in [1..N -> K \cup {NoEntry}]
      /\ \A i, j \in 1..N : i < j /\ array[j] # NoEntry =>
            array[i] # NoEntry /\ array[i] # array[j] /\ Of(array[j]) <= Of(array[i])
      /\ \A k \in K \ best : array[N] # NoEntry /\ Of(k) <= Of(array[N])
  <2>1. Shown(array) = best
    BY DEF Shown
  <2> QED
    BY <2>1 DEF Largest
<1>2. N \in Nat /\ N \in 1..N /\ 1..N \subseteq Nat
  BY SizeIs
<1>3. best \subseteq K
  BY <1>1
<1>4. IsFiniteSet(1..N) /\ Cardinality(1..N) = N
  BY <1>2, FS_Interval
<1>5. IsFiniteSet(shown) /\ Cardinality(shown) <= N /\ Cardinality(shown) \in Nat
  BY <1>4, FS_Subset, FS_CardinalityType
<1>6. Cardinality(best) = Cardinality(shown)
  <2>1. \A i, j \in shown : i # j => array[i] # array[j]
    <3>1. \A i, j \in 1..N : i # j => i < j \/ j < i
      BY <1>2
    <3> QED
      BY <1>1, <3>1
  <2> DEFINE h == [i \in shown |-> array[i]]
  <2>2. h \in Bijection(shown, best)
    <3>1. h \in [shown -> best] /\ \A i, j \in shown : h[i] = h[j] => i = j
      BY <2>1
    <3>2. \A b \in best : \E i \in shown : h[i] = b
      OBVIOUS
    <3> HIDE DEF h, shown, best
    <3> QED
      BY <3>1, <3>2 DEF Bijection, Injection, Surjection, IsInjective
  <2>3. ExistsBijection(shown, best)
    BY <2>2 DEF ExistsBijection
  <2> QED
    BY <1>5, <2>3, FS_Bijection
<1>7. Cardinality(K) \in Nat /\ Cardinality(best) <= Cardinality(K)
  BY <1>3, FS_CardinalityType, FS_Subset
<1>8. Cardinality(best) = N \/ best = K
  <2>1. CASE array[N] # NoEntry
    <3>1. \A i \in 1..N : i # N => i < N
      BY <1>2
    <3>2. shown = 1..N
      BY <1>1, <1>2, <2>1, <3>1
    <3> QED
      BY <1>4, <1>6, <3>2
  <2>2. CASE array[N] = NoEntry
    BY <1>1, <1>3, <2>2
  <2> QED
    BY <2>1, <2>2
<1>9. Cardinality(best) = Min({N, Cardinality(K)})
  <2> DEFINE n == Cardinality(K)
             m == Cardinality(best)
  <2>1. /\ n \in Nat /\ m \in Nat /\ m <= n /\ m <= N /\ (m = N \/ m = n)
    BY <1>5, <1>6, <1>7, <1>8
  <2> HIDE DEF n, m
  <2>2. m \in {N, n} /\ \A y \in {N, n} : m <= y
    BY <2>1
  <2>3. \A x \in {N, n} : (\A y \in {N, n} : x <= y) => x = m
    BY <1>2, <2>1
  <2>4. Min({N, n}) = m
    BY <2>2, <2>3, Zenon DEF Min
  <2> QED
    BY <2>4 DEF n, m
<1>10. \A i, j \in shown : i < j => Of(array[i]) >= Of(array[j])
  <2>1. \A x, y \in K : Of(x) <= Of(y) => Of(y) >= Of(x)
    OBVIOUS
  <2> QED
    BY <1>1, <2>1
<1>11. ASSUME NEW k \in K \ best, NEW b \in best PROVE Of(k) <= Of(b)
  <2>1. PICK i \in shown : b = array[i]
    OBVIOUS
  <2>2. array[N] # NoEntry /\ Of(k) <= Of(array[N]) /\ array[N] \in K
    BY <1>1, <1>2
  <2>3. Of(array[N]) <= Of(b)
    <3>1. CASE i = N
      BY <2>1, <2>2, <3>1
    <3>2. CASE i # N
      <4>1. i \in 1..N /\ i < N
        BY <1>2, <3>2
      <4> QED
        BY <1>1, <1>2, <2>1, <2>2, <4>1
    <3> QED
      BY <3>1, <3>2
  <2>4. Of(k) \in Nat /\ Of(b) \in Nat /\ Of(array[N]) \in Nat
    BY <1>3, <2>2
  <2> QED
    BY <2>2, <2>3, <2>4
<1> QED
  BY <1>3, <1>6, <1>9, <1>10, <1>11

-----------------------------------------------------------------------------
(* The map in the books is one the report can compare.                     *)
LEMMA EnteredCompares ==
    ASSUME Entered
    PROVE  Comparable /\ \A k \in DOMAIN table : table[k].type \in Types
<1>1. NoEntry \notin Strings
  BY LogAssumption
<1> QED
  BY <1>1 DEF Entered, Comparable, Of

(* The map stays finite: a step adds one key to it, or empties it.         *)
Grows ==
    \/ DOMAIN table' = DOMAIN table
    \/ \E k : DOMAIN table' = DOMAIN table \cup {k}
    \/ table' = <<>>

(* Outside the report only a job writes into the map, while main collects. *)
LEMMA JobGrows ==
    ASSUME NEW w \in Workers, Job(w) \/ ParseFails(w)
    PROVE  /\ Grows /\ (stage # "collect" => table' = table)
           /\ stage' = stage /\ top' = top /\ unseen' = unseen
<1> USE DEF Grows, Safe, vars, reportVars
<1>1. CASE LockMap(w) \/ MissUrl(w) \/ MissReferer(w)
  BY <1>1 DEF LockMap, MissUrl, MissReferer
<1>2. CASE AddTraffic(w)
  BY <1>2 DEF AddTraffic, Bump
<1>3. CASE NewUrl(w)
  BY <1>3, Zenon DEF NewUrl, Put, Lose
<1>4. CASE EntryFails(w) \/ ParseFails(w)
  BY <1>4 DEF EntryFails, ParseFails
<1>5. CASE NoRefererHere(w)
  BY <1>5 DEF NoRefererHere
<1>6. CASE AddReferer(w)
  BY <1>6 DEF AddReferer, Bump
<1>7. CASE NewReferer(w)
  BY <1>7, Zenon DEF NewReferer, Put, Lose
<1>8. CASE Race(w)
  BY <1>8 DEF Race, logVars, jobVars
<1> QED
  BY <1>1, <1>2, <1>3, <1>4, <1>5, <1>6, <1>7, <1>8 DEF Job

(* So it stays finite.                                                   *)
LEMMA GrowsFinite ==
    ASSUME IsFiniteSet(DOMAIN table), Grows
    PROVE  IsFiniteSet(DOMAIN table')
<1>1. CASE \E k : DOMAIN table' = DOMAIN table \cup {k}
  BY <1>1, FS_AddElement
<1>2. CASE table' = <<>>
  <2>1. DOMAIN <<>> = {}
    OBVIOUS
  <2> QED
    BY <1>2, <2>1, FS_EmptySet
<1> QED
  BY <1>1, <1>2 DEF Grows

(* Nothing of the report changes but perhaps the map it has not begun to   *)
(* read.                                                                   *)
LEMMA ToppedStays ==
    ASSUME Topped, Grows, stage # "collect" => table' = table,
           stage' = stage, top' = top, unseen' = unseen
    PROVE  Topped'
<1>1. IsFiniteSet(DOMAIN table')
  BY GrowsFinite DEF Topped
<1>2. CASE stage = "collect"
  BY <1>1, <1>2 DEF Topped
<1>3. CASE stage # "collect"
  BY <1>1, <1>3 DEF Topped, Largest, Shown, Of, KeysOf
<1> QED
  BY <1>2, <1>3

(* The report begins with every key of the map unseen.                     *)
LEMMA StartTops ==
    ASSUME Topped, StartReport
    PROVE  Topped'
<1>1. /\ stage = "collect" /\ stage' = "iterate" /\ unseen' = DOMAIN table
      /\ table' = table /\ top' = top
  BY DEF StartReport, jobVars
<1>2. top = [y \in Types |-> [i \in 1..TopSize |-> NoEntry]]
  BY <1>1 DEF Topped
<1>3. ASSUME NEW y \in Types PROVE Largest(top[y], KeysOf(y) \ DOMAIN table)
  <2>1. KeysOf(y) \ DOMAIN table = {}
    BY DEF KeysOf
  <2>2. top[y] = [i \in 1..TopSize |-> NoEntry]
    BY <1>2
  <2> QED
    BY <2>1, <2>2, EmptyIsLargest
<1>4. \A y \in Types : Largest(top[y], KeysOf(y) \ unseen)'
  BY <1>1, <1>3 DEF Largest, Shown, Of, KeysOf
<1> QED
  BY <1>1, <1>2, <1>4 DEF Topped

(* The next key goes into the array of its type; the others do not change. *)
LEMMA FilterTops ==
    ASSUME Topped, Entered, NEW k, Filter(k)
    PROVE  Topped'
<1>1. /\ stage = "iterate" /\ stage' = "iterate" /\ k \in unseen
      /\ unseen' = unseen \ {k} /\ table' = table
      /\ top' = [top EXCEPT ![table[k].type] = Carried(@, k)]
  BY DEF Filter, jobVars
<1>2. /\ unseen \subseteq DOMAIN table /\ top = [y \in Types |-> top[y]]
      /\ \A y \in Types : Largest(top[y], KeysOf(y) \ unseen)
      /\ IsFiniteSet(DOMAIN table)
  BY <1>1 DEF Topped
<1>3. Comparable /\ table[k].type \in Types /\ k \in DOMAIN table
  BY <1>1, <1>2, EnteredCompares
<1>4. ASSUME NEW y \in Types
      PROVE  Largest(top'[y], KeysOf(y) \ (unseen \ {k}))
  <2>1. CASE y = table[k].type
    <3> DEFINE K == KeysOf(y) \ unseen
    <3>1. Inserting(top[y], K, k)
      BY <1>1, <1>2, <1>3 DEF Inserting, KeysOf
    <3>2. Largest(Carried(top[y], k), K \cup {k})
      <4> HIDE DEF K
      <4> QED
        BY <1>3, <3>1, LargestCarried
    <3>3. top'[y] = Carried(top[y], k)
      BY <1>1, <1>2, <2>1, Zenon
    <3>4. K \cup {k} = KeysOf(y) \ (unseen \ {k})
      BY <1>1, <1>3, <2>1 DEF KeysOf
    <3> QED
      BY <3>2, <3>3, <3>4
  <2>2. CASE y # table[k].type
    <3>1. top'[y] = top[y]
      BY <1>1, <1>2, <2>2, Zenon
    <3>2. KeysOf(y) \ (unseen \ {k}) = KeysOf(y) \ unseen
      BY <2>2 DEF KeysOf
    <3> QED
      BY <1>2, <3>1, <3>2
  <2> QED
    BY <2>1, <2>2
<1>5. \A y \in Types : Largest(top[y], KeysOf(y) \ unseen)'
  BY <1>1, <1>4 DEF Largest, Shown, Of, KeysOf
<1>6. top' = [y \in Types |-> top'[y]] /\ unseen' \subseteq DOMAIN table'
  BY <1>1, <1>2
<1> QED
  BY <1>1, <1>2, <1>5, <1>6 DEF Topped

(* Every step keeps the report right.                                    *)
LEMMA ToppedStep == LogInv /\ Topped /\ [LogNext]_<<vars, logVars>> => Topped'
<1> SUFFICES ASSUME LogInv, Topped, [LogNext]_<<vars, logVars>> PROVE Topped'
  OBVIOUS
<1>1. ASSUME UNCHANGED logVars PROVE Topped'
  BY <1>1, ToppedStays DEF logVars, jobVars, reportVars, Grows
<1>2. ASSUME NEW w \in Workers, Job(w) \/ ParseFails(w) PROVE Topped'
  BY <1>2, JobGrows, ToppedStays
<1>3. ASSUME NEW w \in Workers, StartJob(w) PROVE Topped'
  BY <1>3, ToppedStays DEF StartJob, reportVars, Grows
<1>4. ASSUME NEW w \in Workers, EndJob(w) \/ PoolStep(w) PROVE Topped'
  BY <1>1, <1>4 DEF EndJob, PoolStep
<1>5. CASE StartReport
  BY <1>5, StartTops
<1>6. ASSUME NEW k, Filter(k) PROVE Topped'
  BY <1>6, FilterTops DEF LogInv, Books
<1>7. CASE PrintTop
  <2>1. /\ stage = "iterate" /\ unseen = {} /\ stage' = "print"
        /\ unseen' = unseen /\ top' = top /\ table' = table
    BY <1>7 DEF PrintTop, jobVars
  <2> QED
    BY <2>1 DEF Topped, Largest, Shown, Of, KeysOf
<1>8. CASE ClearMap
  <2>1. stage' = "cleared" /\ table' = <<>>
    BY <1>8 DEF ClearMap
  <2>2. IsFiniteSet(DOMAIN table')
    BY <2>1, GrowsFinite DEF Topped, Grows
  <2> QED
    BY <2>1, <2>2 DEF Topped
<1>9. ASSUME Main PROVE Topped'
  BY <1>1, <1>5, <1>6, <1>7, <1>8, <1>9 DEF Main
<1> QED
  BY <1>1, <1>2, <1>3, <1>4, <1>9 DEF LogNext, Thread, logVars

(* The program prints, for each type, as many of its entries as fit,     *)
(* none of them twice, in descending order, and none that is left out is *)
(* larger, whatever the order in which HashMap_iterate comes to the      *)
(* keys.                                                                 *)
THEOREM TopIsLargest == LogSpec => []TopIsRight
<1>1. LogInit => Topped
  <2>1. IsFiniteSet(DOMAIN <<>>)
    <3>1. DOMAIN <<>> = {}
      OBVIOUS
    <3> QED
      BY <3>1, FS_EmptySet
  <2> QED
    BY <2>1 DEF LogInit, Topped
<1>2. LogInv /\ Topped => TopIsRight
  <2> SUFFICES ASSUME LogInv, Topped, stage = "print", NEW y \in Types
               PROVE  LET shown == {i \in 1..TopSize : top[y][i] # NoEntry}
                          keys == {k \in DOMAIN table : table[k].type = y}
                          best == {top[y][i] : i \in shown}
                      IN  /\ Cardinality(best) = Cardinality(shown)
                          /\ best \subseteq keys
                          /\ Cardinality(best) = Min({TopSize, Cardinality(keys)})
                          /\ \A i, j \in shown : i < j =>
                                  table[top[y][i]].counter >= table[top[y][j]].counter
                          /\ \A k \in keys \ best : \A b \in best :
                                  table[k].counter <= table[b].counter
    BY DEF TopIsRight
  <2>1. Largest(top[y], KeysOf(y))
    <3>1. unseen = {} /\ Largest(top[y], KeysOf(y) \ unseen)
      BY DEF Topped
    <3>2. KeysOf(y) \ unseen = KeysOf(y)
      BY <3>1
    <3> QED
      BY <3>1, <3>2
  <2>2. IsFiniteSet(KeysOf(y))
    <3>1. KeysOf(y) \subseteq DOMAIN table
      BY DEF KeysOf
    <3> QED
      BY <3>1, FS_Subset DEF Topped
  <2>3. NoEntry \notin KeysOf(y) /\ \A x \in KeysOf(y) : Of(x) \in Nat
    BY EnteredCompares DEF LogInv, Books, KeysOf, Comparable
  <2> QED
    BY <2>1, <2>2, <2>3, LargestIsRight DEF KeysOf, Of
<1>3. LogSpec => []Topped
  BY <1>1, LogInvariance, ToppedStep, PTL DEF LogSpec
<1> QED
  BY <1>2, <1>3, LogInvariance, PTL

-----------------------------------------------------------------------------
(* Nobody is stuck.                                                        *)

(* Before main has called DgdPool_free nothing is cancelled and nothing is *)
(* read without the mutex.  A worker that holds the mutex of the pool is   *)
(* at the test of queue->head, one that holds that of the map is in a line *)
(* of its file.                                                            *)
Working == mpc \in {"create", "submit", "await"}

Kept == mutex # NoThread => wpc[mutex] = "holding"

MapKept ==
    maplock # NoThread =>
        /\ maplock \in Workers /\ wpc[maplock] = "running"
        /\ lpc[maplock] \in Inside
        /\ line[maplock] <= Len(Log[task[maplock]])

Alive(w) ==
    /\ wpc[w] \notin {"dead", "stray"}
    /\ wpc[w] = "unborn" => mpc = "create"

Busy ==
    Working =>
        /\ stage = "collect" /\ Kept /\ MapKept
        /\ \A w \in Workers : Alive(w)

(* A step of a job.                                                        *)
LEMMA JobKeeps ==
    ASSUME Shape, NEW w \in Workers, Job(w) \/ ParseFails(w),
           stage = "collect", MapKept
    PROVE  UNCHANGED vars /\ stage' = stage /\ MapKept'
<1> USE DEF Shape, MapKept, Places, Inside, Step, Abandon, NextLine, InJob, Safe,
            vars, reportVars
<1>1. CASE LockMap(w)
  BY <1>1 DEF LockMap
<1>2. CASE AddTraffic(w)
  BY <1>2 DEF AddTraffic
<1>3. CASE MissUrl(w)
  BY <1>3 DEF MissUrl
<1>4. CASE NewUrl(w)
  BY <1>4 DEF NewUrl
<1>5. CASE EntryFails(w)
  BY <1>5, NobodyIs DEF EntryFails
<1>6. CASE NoRefererHere(w)
  BY <1>6, NobodyIs DEF NoRefererHere
<1>7. CASE AddReferer(w)
  BY <1>7, NobodyIs DEF AddReferer
<1>8. CASE MissReferer(w)
  BY <1>8 DEF MissReferer
<1>9. CASE NewReferer(w)
  BY <1>9, NobodyIs DEF NewReferer
<1>10. CASE ParseFails(w)
  BY <1>10 DEF ParseFails
<1> QED
  BY <1>1, <1>2, <1>3, <1>4, <1>5, <1>6, <1>7, <1>8, <1>9, <1>10 DEF Job, Race

LEMMA JobBusy ==
    ASSUME Shape, Busy, NEW w \in Workers, Job(w) \/ ParseFails(w)
    PROVE  Busy'
<1>1. mpc' = mpc
  BY DEF Job, LockMap, AddTraffic, MissUrl, NewUrl, EntryFails, NoRefererHere,
         AddReferer, MissReferer, NewReferer, Race, ParseFails, vars, clientVars
<1>2. CASE Working
  <2>1. UNCHANGED vars /\ stage' = stage /\ MapKept'
    BY <1>2, JobKeeps DEF Busy
  <2> QED
    BY <1>2, <2>1 DEF Busy, Working, Kept, Alive, vars
<1>3. CASE ~Working
  BY <1>1, <1>3 DEF Busy, Working
<1> QED
  BY <1>2, <1>3

(* A worker takes a task, or ends a job: it is not the one in the map.     *)
LEMMA StartBusy ==
    ASSUME Shape, Busy, NEW w \in Workers, StartJob(w)
    PROVE  Busy'
<1>1. /\ wpc[w] = "holding" /\ wpc' = [wpc EXCEPT ![w] = "running"]
      /\ task' = [task EXCEPT ![w] = Head(queue)]
      /\ line' = [line EXCEPT ![w] = 1] /\ mutex' = NoThread
      /\ UNCHANGED <<maplock, lpc, stage, mpc>>
  BY DEF StartJob, Take, Move, reportVars, clientVars
<1>2. Working' <=> Working
  BY <1>1 DEF Working
<1>3. Busy /\ Working => MapKept'
  BY <1>1 DEF Busy, MapKept, Shape
<1>4. Busy /\ Working => \A v \in Workers : Alive(v)'
  BY <1>1 DEF Busy, Alive, Shape
<1> QED
  BY <1>1, <1>2, <1>3, <1>4 DEF Busy, Kept

LEMMA EndBusy ==
    ASSUME Shape, Inv, Busy, NEW w \in Workers, EndJob(w)
    PROVE  Busy'
<1>1. /\ wpc[w] = "running" /\ wpc' = [wpc EXCEPT ![w] = "start"]
      /\ task' = [task EXCEPT ![w] = NoTask] /\ lpc[w] = "parse"
      /\ UNCHANGED <<maplock, lpc, line, stage, mpc, mutex>>
  BY DEF EndJob, Finish, Move, logVars, jobVars, reportVars, clientVars
<1>2. Working' <=> Working
  BY <1>1 DEF Working
<1>3. Busy /\ Working => MapKept'
  BY <1>1 DEF Busy, MapKept, Shape, Inside
<1>4. Busy /\ Working => \A v \in Workers : Alive(v)'
  BY <1>1 DEF Busy, Alive, Shape
<1>5. Busy /\ Working => Kept'
  BY <1>1 DEF Busy, Kept, Shape, Inv, TypeOK
<1> QED
  BY <1>1, <1>2, <1>3, <1>4, <1>5 DEF Busy

(* The pool's own steps: what they move is not in a job, but for those     *)
(* that come after a cancellation.                                         *)
LEMMA PoolBusy ==
    ASSUME Shape, Inv, Busy, Bystanding, UNCHANGED logVars
    PROVE  Busy'
<1> SUFFICES ASSUME Working' PROVE Busy'
  BY DEF Busy
<1>1. UNCHANGED <<maplock, lpc, line, stage>>
  BY DEF logVars, jobVars, reportVars
<1>2. Working
  BY DEF Bystanding, Client, Create, Cancel, Submit, SubmitFails, CreateFails,
         AwaitBegins, AwaitReturns, FreeRefuses, FreeQueue, FreePool, Exit, Lock,
         Wait, Reacquire, DieWaiting, DieRunning, Stray, SpuriousWakeup,
         Terminated, Working, clientVars, vars
<1>3. pool = "live" /\ cancelled = {}
  BY <1>2 DEF Inv, Shutdown, Ending, Working, TypeOK
<1>4. /\ stage = "collect" /\ Kept /\ MapKept /\ \A w \in Workers : Alive(w)
      /\ wpc \in [Workers -> WorkerStates] /\ mutex \in Workers \cup {NoThread}
  BY <1>2 DEF Busy, Inv, TypeOK
<1>5. task' = task
  BY PoolTypes
<1> DEFINE Good == Kept' /\ MapKept' /\ \A w \in Workers : Alive(w)'
<1>6. ASSUME NEW w \in Workers, NEW s, s \notin {"dead", "stray", "unborn"},
             wpc' = [wpc EXCEPT ![w] = s], wpc[w] # "running",
             mpc' = mpc \/ In({"unborn"}) \subseteq {w},
             \/ mutex' = mutex /\ wpc[w] # "holding"
             \/ mutex' = NoThread \/ (mutex' = w /\ s = "holding")
      PROVE  Good
  <2>1. \A v \in Workers : wpc'[v] = IF v = w THEN s ELSE wpc[v]
    BY <1>4, <1>6
  <2>2. MapKept'
    BY <1>1, <1>4, <1>5, <1>6, <2>1 DEF MapKept
  <2>3. Kept'
    BY <1>4, <1>6, <2>1 DEF Kept
  <2>4. \A v \in Workers : Alive(v)'
    BY <1>4, <1>6, <2>1 DEF Alive, In
  <2> QED
    BY <2>2, <2>3, <2>4
<1>7. ASSUME UNCHANGED <<wpc, mutex>>, mpc' = mpc \/ mpc # "create" PROVE Good
  BY <1>1, <1>4, <1>5, <1>7 DEF Kept, MapKept, Alive
<1> HIDE DEF Good
<1>8. ASSUME NEW w \in Workers, Create(w) PROVE Good
  BY <1>6, <1>8 DEF Create, Move, In
<1>9. ASSUME NEW t \in Tasks, Submit(t) PROVE Good
  <2>1. mpc' = mpc /\ mutex' = mutex /\ Signal
    BY <1>9 DEF Submit
  <2>2. CASE UNCHANGED wpc
    BY <1>7, <2>1, <2>2
  <2>3. ASSUME NEW w \in In(Asleep), Move(w, "woken") PROVE Good
    BY <1>6, <2>1, <2>3 DEF In, Asleep, Move
  <2> QED
    BY <2>1, <2>2, <2>3 DEF Signal
<1>10. ASSUME NEW t \in Tasks, SubmitFails(t) PROVE Good
  BY <1>7, <1>10 DEF SubmitFails
<1>11. ASSUME AwaitBegins PROVE Good
  BY <1>7, <1>11 DEF AwaitBegins
<1>12. ~(CreateFails \/ AwaitReturns \/ FreeRefuses \/ FreeQueue \/ FreePool \/ Exit)
  BY DEF CreateFails, AwaitReturns, FreeRefuses, FreeQueue, FreePool, Exit, Working
<1>13. ASSUME NEW w \in Workers, Lock(w) \/ Wait(w) \/ Reacquire(w) \/ SpuriousWakeup(w)
       PROVE  Good
  BY <1>6, <1>13 DEF Lock, Wait, Reacquire, SpuriousWakeup, Move, clientVars
<1>14. ASSUME NEW w \in Workers
       PROVE  ~(Cancel(w) \/ DieWaiting(w) \/ DieRunning(w) \/ Stray(w))
  BY <1>2, <1>3 DEF Cancel, DieWaiting, DieRunning, Stray, Working
<1>15. ASSUME Terminated PROVE Good
  BY <1>7, <1>15 DEF Terminated, vars
<1>16. Good
  BY <1>8, <1>9, <1>10, <1>11, <1>12, <1>13, <1>14, <1>15 DEF Bystanding, Client
<1> QED
  BY <1>1, <1>4, <1>16 DEF Busy, Good

(* Every step.                                                             *)
LEMMA BusyStep == LogInv /\ Busy /\ [LogNext]_<<vars, logVars>> => Busy'
<1> SUFFICES ASSUME LogInv, Busy, [LogNext]_<<vars, logVars>> PROVE Busy'
  OBVIOUS
<1> USE DEF LogInv
<1>1. ASSUME Bystanding, UNCHANGED logVars PROVE Busy'
  BY <1>1, PoolBusy
<1>2. CASE \/ StartReport \/ PrintTop \/ ClearMap \/ (\E k \in unseen : Filter(k))
  <2>1. mpc = "report" /\ mpc' = mpc
    BY <1>2 DEF StartReport, PrintTop, ClearMap, Filter, vars
  <2> QED
    BY <2>1 DEF Busy, Working
<1>3. CASE UNCHANGED <<vars, logVars>>
  BY <1>3 DEF Busy, Working, Kept, MapKept, Alive, vars, logVars, jobVars, reportVars
<1>4. CASE Main
  BY <1>1, <1>2, <1>4 DEF Main, Bystanding, Client
<1>5. ASSUME NEW w \in Workers, Thread(w) \/ ParseFails(w) PROVE Busy'
  BY <1>1, <1>5, JobBusy, StartBusy, EndBusy DEF Thread, PoolStep, Bystanding
<1>6. CASE \/ \E w \in Workers : SpuriousWakeup(w) /\ UNCHANGED logVars
           \/ Terminated /\ UNCHANGED logVars
  BY <1>1, <1>6 DEF Bystanding
<1> QED
  BY <1>3, <1>4, <1>5, <1>6 DEF LogNext

(* If nobody could go on, both mutexes would be free and all workers       *)
(* asleep: counted, each of them.                                          *)
LEMMA BusyGoesOn == LogInv /\ Busy => AwaitGoesOn
<1> SUFFICES ASSUME LogInv, Busy, mpc = "await",
                    \A w \in Workers : ~CanGoOn(w)
             PROVE  counter = Cardinality(Workers)
  BY DEF AwaitGoesOn
<1>1. /\ Kept /\ MapKept /\ \A w \in Workers : Alive(w)
      /\ wpc \in [Workers -> WorkerStates] /\ mutex \in Workers \cup {NoThread}
  BY DEF Busy, Working, LogInv, Inv, TypeOK
<1>2. mutex = NoThread
  BY <1>1 DEF Kept, CanGoOn
<1>3. maplock = NoThread
  BY <1>1 DEF MapKept, Inside, CanGoOn
<1>4. ASSUME NEW w \in Workers PROVE wpc[w] = "sleeping"
  <2>1. wpc[w] \notin {"start", "holding", "woken", "dead", "stray", "unborn"}
    BY <1>1, <1>2 DEF CanGoOn, Alive
  <2>2. wpc[w] # "running"
    <3>1. SUFFICES ASSUME wpc[w] = "running" PROVE FALSE
      OBVIOUS
    <3>2. lpc[w] # "parse" => maplock = w
      BY <3>1 DEF LogInv, AllPlaced, Placed
    <3>3. lpc[w] = "parse"
      BY <1>3, <3>2, NobodyIs
    <3> QED
      BY <1>3, <3>1, <3>3 DEF CanGoOn
  <2> QED
    BY <1>1, <2>1, <2>2 DEF WorkerStates
<1>5. In(Counted) = Workers
  BY <1>4 DEF In, Counted
<1>6. pool = "live" /\ cancelled = {}
  BY DEF LogInv, Inv, Shutdown, Ending, TypeOK
<1> QED
  BY <1>5, <1>6 DEF LogInv, Inv, CounterExact

(* DgdPool_await does not spin for nothing: until the counter is right     *)
(* some worker can go on, for any number of workers and any files, and     *)
(* whatever fails in the jobs.                                             *)
THEOREM AwaitIsNotStuck == LogSpec => []AwaitGoesOn
<1>1. LogInit => Busy
  BY DEF LogInit, Init, Busy, Kept, MapKept, Alive
<1> QED
  BY <1>1, BooksInit, BooksStep, BusyStep, BusyGoesOn, PTL DEF LogSpec

=============================================================================
