-------------------------- MODULE ClibFetchProofs ---------------------------
(***************************************************************************)
(* Proofs about ClibFetch, for any number of sources and any concurrency.  *)
(*                                                                         *)
(* Batches ties the index i to the source the iterator stands at: with the *)
(* index at its limit that source is a loose one.  Slots says what the     *)
(* slots below the index hold, Started where the threads of the sources    *)
(* before it are to be found, Copied when the cache is filled, and Counted *)
(* what pkg->refs is while no update of it is lost.                        *)
(***************************************************************************)
EXTENDS ClibFetch, FiniteSetTheorems, TLAPS

ThreadStates == Idle \cup {"created", "look", "get", "body", "count", "store"}

(* The variables have the types the code gives them.                       *)
TypeOK ==
    /\ pc \in {"next", "start", "batch", "drain", "save", "free", "freed", "exit"}
    /\ next \in 1..(Sources + 1) /\ i \in Int
    /\ fetchs \in [0..(Sources - 1) -> Files \cup {Nobody}]
    /\ thread \in [Files -> ThreadStates]
    /\ joined \subseteq Files /\ lock \in Files \cup {Nobody}
    /\ refs \in Int /\ seen \in [Files \cup {Main} -> Int]
    /\ failed \in Nat
    /\ disk \in [Files -> FileStates]
    /\ copy \in [Files -> FileStates \cup {"none"}]
    /\ freed \in BOOLEAN /\ raced \in BOOLEAN

Taken == IF i < 0 THEN 0 ELSE i

Batches ==
    /\ i <= Concurrency /\ i < next
    /\ pc \in {"next", "start"} => (next - 1 - Taken) % (Concurrency + 1) = 0
    /\ pc = "batch" => (next - 1) % (Concurrency + 1) = 0
    /\ pc = "start" => next \in Files
    /\ pc \in {"drain", "save"} => next = Sources + 1
    /\ pc = "save" => i < 0

Slots ==
    \A k \in Nat : k < i =>
        /\ fetchs[k] \in Files /\ fetchs[k] < next
        /\ fetchs[k] \notin joined
        /\ \A l \in Nat : l < i /\ fetchs[k] = fetchs[l] => k = l

InSlot(f) == \E k \in Nat : k < i /\ fetchs[k] = f

Started ==
    /\ \A f \in Files : thread[f] = "none" <=> f >= next
    /\ \A f \in joined : thread[f] = "done"
    /\ \A f \in Files \ Loose : f < next => f \in joined \/ InSlot(f)

Copied ==
    /\ pc \notin {"free", "freed", "exit"} => \A f \in Files : copy[f] = "none"
    /\ CopyIsFinal

Active == {f \in Files : thread[f] \notin {"none", "done"}}

Counted ==
    /\ ~raced /\ pc # "exit" => refs = Cardinality(Active) + failed
    /\ freed => pc \in {"freed", "exit"}
    /\ FreedIsUnused

Inv == TypeOK /\ Batches /\ Slots /\ Started /\ Copied /\ Counted

-----------------------------------------------------------------------------
(* A batch further on is a whole batch as well.                            *)
LEMMA NextBatch ==
    ASSUME NEW a \in Nat, NEW b \in Nat \ {0}, a % b = 0
    PROVE  (a + b) % b = 0
<1>1. a = b * (a \div b) + (a % b) /\ a \div b \in Int
  OBVIOUS
<1>2. a + b = b * (a \div b + 1)
  BY <1>1
<1>3. ASSUME NEW q \in Int PROVE (b * q) % b = 0
  BY SMT
<1> QED
  BY <1>1, <1>2, <1>3

(* What the assumptions say of the constants.                              *)
LEMMA Sizes == Sources \in Nat /\ Sources > 0 /\ Concurrency \in Nat
  BY SourcesAssumption

USE Sizes

(* The source that fills a batch is a loose one.                           *)
LEMMA LastIsLoose ==
    ASSUME TypeOK, Batches, pc = "start", Taken = Concurrency
    PROVE  next % (Concurrency + 1) = 0 /\ next \in Loose
<1>1. next - 1 - Concurrency \in Nat /\ Concurrency + 1 \in Nat \ {0}
  BY DEF TypeOK, Batches, Taken
<1>2. (next - 1 - Concurrency) % (Concurrency + 1) = 0
  BY DEF Batches
<1>3. (next - 1 - Concurrency + (Concurrency + 1)) % (Concurrency + 1) = 0
  BY <1>1, <1>2, NextBatch
<1>4. next - 1 - Concurrency + (Concurrency + 1) = next
  BY DEF TypeOK
<1> QED
  BY <1>3, <1>4 DEF Batches, Loose

-----------------------------------------------------------------------------
(* What the steps are that move the slots.                                 *)
LEMMA StartIs ==
    ASSUME TypeOK, Batches, Start
    PROVE  /\ pc = "start" /\ next \in Files /\ Taken \in 0..(Sources - 1)
           /\ Taken <= Concurrency /\ Taken < next
           /\ thread[next] = "none" /\ thread' = [thread EXCEPT ![next] = "created"]
           /\ next' = next + 1 /\ fetchs' = [fetchs EXCEPT ![Taken] = next]
           /\ Taken = Concurrency => i' = Taken /\ pc' = "batch"
           /\ Taken # Concurrency => i' = Taken + 1 /\ pc' = "next"
           /\ UNCHANGED <<joined, failed, freed, lock, disk, copy>>
<1>1. next \in Files /\ Taken \in 0..(Sources - 1) /\ Taken <= Concurrency
      /\ Taken < next
  BY DEF Start, TypeOK, Batches, Files, Taken
<1>2. Taken = Concurrency <=> Taken >= Concurrency
  BY <1>1
<1> QED
  BY <1>1, <1>2 DEF Start, Move, Taken, fileVars

(* A join empties the slot below the index.                                *)
LEMMA JoinIs ==
    ASSUME TypeOK, Join
    PROVE  /\ Joins /\ i \in Nat \ {0}
           /\ fetchs[i - 1] \in Files /\ thread[fetchs[i - 1]] = "done"
           /\ fetchs' = [fetchs EXCEPT ![i - 1] = Nobody]
           /\ joined' = joined \cup {fetchs[i - 1]} /\ i' = i - 1
           /\ UNCHANGED <<pc, next, failed, freed, thread, lock, disk, copy,
                          refs, seen, raced>>
<1> QED
  BY DEF Join, TypeOK, fileVars, countVars

(* A step of a thread leaves main's variables and the other threads alone. *)
LEMMA ThreadIs ==
    ASSUME TypeOK, NEW f \in Files, ThreadStep(f)
    PROVE  /\ thread[f] \notin Idle /\ thread'[f] # "none"
           /\ thread' = [thread EXCEPT ![f] = thread'[f]]
           /\ \A g \in Files \ {f} : thread'[g] = thread[g] /\ disk'[g] = disk[g]
           /\ UNCHANGED <<mainVars, copy>>
<1> USE DEF TypeOK, Idle, Move, fileVars, Files, mainVars
<1>1. CASE Look(f)
  BY <1>1 DEF Look
<1>2. CASE Decide(f)
  BY <1>2 DEF Decide
<1>3. CASE Open(f)
  BY <1>3 DEF Open
<1>4. CASE OpenFails(f)
  BY <1>4 DEF OpenFails
<1>5. CASE Body(f)
  BY <1>5 DEF Body
<1>6. CASE BodyFails(f)
  BY <1>6 DEF BodyFails
<1>7. CASE CountDown(f)
  BY <1>7 DEF CountDown
<1>8. CASE End(f)
  BY <1>8 DEF End
<1> QED
  BY <1>1, <1>2, <1>3, <1>4, <1>5, <1>6, <1>7, <1>8 DEF ThreadStep

-----------------------------------------------------------------------------
(* Types.                                                                  *)
LEMMA TypeStep == TypeOK /\ Batches /\ [Next]_vars => TypeOK'
<1> SUFFICES ASSUME TypeOK, Batches, [Next]_vars PROVE TypeOK'
  OBVIOUS
<1> USE DEF TypeOK, ThreadStates, Idle, Files, Main, Nobody, FileStates,
            fileVars, countVars, mainVars
<1>1. CASE Count
  BY <1>1 DEF Count, Read
<1>2. CASE NoMemory
  BY <1>2 DEF NoMemory
<1>3. CASE CreateFails
  BY <1>3 DEF CreateFails, Written
<1>4. CASE Start
  <2>1. refs' \in Int /\ raced' \in BOOLEAN /\ seen' = seen
    <3>1. Written(Main, 1)
      BY <1>4 DEF Start
    <3> QED
      BY <3>1 DEF Written
  <2>2. pc' \in {"next", "batch"} /\ i' \in Int
    BY <1>4, StartIs
  <2>3. fetchs' \in [0..(Sources - 1) -> Files \cup {Nobody}]
    <3>1. next \in Files /\ fetchs' = [fetchs EXCEPT ![Taken] = next]
      BY <1>4, StartIs
    <3> QED
      BY <3>1
  <2>4. thread' \in [Files -> ThreadStates]
    <3>1. thread' = [thread EXCEPT ![next] = "created"]
      BY <1>4, StartIs
    <3> QED
      BY <3>1
  <2>6. next' \in 1..(Sources + 1)
    <3>1. next \in Files /\ next' = next + 1
      BY <1>4, StartIs
    <3> QED
      BY <3>1
  <2>5. UNCHANGED <<joined, failed, freed, lock, disk, copy>>
    BY <1>4, StartIs
  <2> QED
    BY <2>1, <2>2, <2>3, <2>4, <2>5, <2>6
<1>5. CASE EndOfList
  BY <1>5 DEF EndOfList
<1>6. CASE Join
  <2>1. fetchs' \in [0..(Sources - 1) -> Files \cup {Nobody}]
    <3>1. fetchs' = [fetchs EXCEPT ![i - 1] = Nobody]
      BY <1>6, JoinIs
    <3> QED
      BY <3>1
  <2>2. joined' \subseteq Files
    <3>1. fetchs[i - 1] \in Files /\ joined' = joined \cup {fetchs[i - 1]}
      BY <1>6, JoinIs
    <3> QED
      BY <3>1
  <2>4. i' \in Int
    BY <1>6, JoinIs
  <2>3. UNCHANGED <<pc, next, failed, freed, thread, lock, disk, copy, refs,
                    seen, raced>>
    BY <1>6, JoinIs
  <2> QED
    BY <2>1, <2>2, <2>3, <2>4
<1>7. CASE JoinedAll
  BY <1>7 DEF JoinedAll, Joins
<1>8. CASE Save
  BY <1>8 DEF Save
<1>9. CASE Free
  BY <1>9 DEF Free
<1>10. CASE Exit
  BY <1>10 DEF Exit
<1>11. ASSUME NEW f \in Files, ThreadStep(f) PROVE TypeOK'
  <2>1. CASE Look(f)
    BY <2>1 DEF Look, Move
  <2>2. CASE Decide(f)
    BY <2>2 DEF Decide, Move
  <2>3. CASE Open(f)
    BY <2>3 DEF Open, Move
  <2>4. CASE OpenFails(f)
    BY <2>4 DEF OpenFails, Move
  <2>5. CASE Body(f)
    BY <2>5 DEF Body, Move
  <2>6. CASE BodyFails(f)
    BY <2>6 DEF BodyFails, Move
  <2>7. CASE CountDown(f)
    BY <2>7 DEF CountDown, Move, Read
  <2>8. CASE End(f)
    BY <2>8 DEF End, Move, Written
  <2> QED
    BY <1>11, <2>1, <2>2, <2>3, <2>4, <2>5, <2>6, <2>7, <2>8 DEF ThreadStep
<1>12. CASE UNCHANGED vars
  BY <1>12 DEF vars
<1> QED
  BY <1>1, <1>2, <1>3, <1>4, <1>5, <1>6, <1>7, <1>8, <1>9, <1>10, <1>11,
     <1>12 DEF Next, MainStep, Ended

(* Batches.  A batch ends at a loose source, and the next begins after it. *)
LEMMA BatchesStep == TypeOK /\ Batches /\ [Next]_vars => Batches'
<1> SUFFICES ASSUME TypeOK, Batches, [Next]_vars PROVE Batches'
  OBVIOUS
<1> USE DEF TypeOK, Batches, Taken
<1>1. CASE Count
  BY <1>1 DEF Count
<1>2. CASE NoMemory
  BY <1>2 DEF NoMemory
<1>3. CASE CreateFails
  BY <1>3 DEF CreateFails
<1>4. CASE Start
  <2>1. CASE Taken = Concurrency
    <3>1. next % (Concurrency + 1) = 0
      BY <1>4, <2>1, StartIs, LastIsLoose
    <3>2. next' = next + 1 /\ i' = Concurrency /\ pc' = "batch" /\ i' < next
      BY <1>4, <2>1, StartIs
    <3>3. next' - 1 = next /\ i' < next'
      BY <3>2
    <3> QED
      BY <3>1, <3>2, <3>3
  <2>2. CASE Taken # Concurrency
    <3>1. /\ i' = Taken + 1 /\ Taken' = i' /\ next' = next + 1
          /\ Taken < Concurrency /\ Taken < next /\ pc = "start"
          /\ pc' = "next"
      BY <1>4, <2>2, StartIs
    <3>2. next' - 1 - Taken' = next - 1 - Taken
      BY <3>1
    <3>3. (next' - 1 - Taken') % (Concurrency + 1) = 0
      BY <3>1, <3>2
    <3> QED
      BY <3>1, <3>3
  <2> QED
    BY <2>1, <2>2
<1>5. CASE EndOfList
  BY <1>5 DEF EndOfList, Files
<1>6. CASE Join
  <2>1. pc \in {"batch", "drain"} /\ pc' = pc /\ i' = i - 1 /\ next' = next
    BY <1>6, JoinIs DEF Joins
  <2> QED
    BY <2>1
<1>7. CASE JoinedAll
  <2>1. i' = i - 1 /\ i <= 0 /\ next' = next
    BY <1>7 DEF JoinedAll
  <2>2. next' - 1 - Taken' = next - 1
    BY <2>1
  <2>3. CASE pc = "batch"
    BY <1>7, <2>1, <2>2, <2>3 DEF JoinedAll
  <2>4. CASE pc = "drain"
    BY <1>7, <2>1, <2>4 DEF JoinedAll
  <2> QED
    BY <1>7, <2>3, <2>4 DEF JoinedAll, Joins
<1>8. CASE Save
  BY <1>8 DEF Save
<1>9. CASE Free
  BY <1>9 DEF Free
<1>10. CASE Exit
  BY <1>10 DEF Exit
<1>11. ASSUME NEW f \in Files, ThreadStep(f) PROVE Batches'
  BY <1>11, ThreadIs DEF mainVars
<1>12. CASE UNCHANGED vars
  BY <1>12 DEF vars, mainVars
<1> QED
  BY <1>1, <1>2, <1>3, <1>4, <1>5, <1>6, <1>7, <1>8, <1>9, <1>10, <1>11,
     <1>12 DEF Next, MainStep, Ended

-----------------------------------------------------------------------------
(* Slots.  The slot that is filled is the first above the index, the one   *)
(* that is emptied the last below it.                                      *)
LEMMA SlotsStep ==
    TypeOK /\ Batches /\ Slots /\ Started /\ [Next]_vars => Slots'
<1> SUFFICES ASSUME TypeOK, Batches, Slots, Started, [Next]_vars PROVE Slots'
  OBVIOUS
<1>1. ASSUME i' \in Int, i' <= i, next' = next, fetchs' = fetchs, joined' = joined
      PROVE  Slots'
  <2>1. i \in Int /\ i' \in Int /\ i' <= i
    BY <1>1 DEF TypeOK
  <2>2. \A k \in Nat : k < i' => k < i
    BY <2>1
  <2> QED
    BY <1>1, <2>2 DEF Slots
<1>2. CASE Start
  <2>1. Taken \in 0..(Sources - 1) /\ i \in Int /\ i' \in {Taken, Taken + 1}
    BY <1>2, StartIs DEF TypeOK
  <2>2. \A k \in Nat : k < i' => k = Taken \/ k < i
    BY <2>1 DEF Taken
  <2>3. \A k \in Nat : k < i' => k \in 0..(Sources - 1)
    BY <2>1
  <2>4. fetchs' = [fetchs EXCEPT ![Taken] = next]
    BY <1>2, StartIs
  <2>5. \A k \in Nat : k < i' => fetchs'[k] = IF k = Taken THEN next ELSE fetchs[k]
    BY <2>3, <2>4 DEF TypeOK
  <2>6. next \notin joined /\ next' = next + 1 /\ joined' = joined /\ next \in Files
    BY <1>2, StartIs DEF Started
  <2> QED
    BY <2>2, <2>5, <2>6 DEF Slots, Files
<1>3. CASE Join
  <2>1. i \in Nat \ {0} /\ i' = i - 1
    BY <1>3, JoinIs
  <2>2. \A k \in Nat : k < i' => k < i /\ k # i - 1
    BY <2>1
  <2>3. \A k \in Nat : k < i' => k \in 0..(Sources - 1)
    BY <2>1 DEF Batches, TypeOK
  <2>4. fetchs' = [fetchs EXCEPT ![i - 1] = Nobody]
    BY <1>3, JoinIs
  <2>5. \A k \in Nat : k < i' => fetchs'[k] = fetchs[k]
    BY <2>2, <2>3, <2>4 DEF TypeOK
  <2>6. \A k \in Nat : k < i' => fetchs[k] # fetchs[i - 1]
    <3>1. i - 1 \in Nat /\ i - 1 < i
      BY <2>1
    <3> QED
      BY <2>2, <3>1 DEF Slots
  <2>7. joined' = joined \cup {fetchs[i - 1]} /\ next' = next
    BY <1>3, JoinIs
  <2> QED
    BY <2>2, <2>5, <2>6, <2>7 DEF Slots
<1>4. CASE Count \/ NoMemory \/ CreateFails \/ EndOfList \/ JoinedAll \/ Save
           \/ Free \/ Exit
  BY <1>1, <1>4 DEF Count, NoMemory, CreateFails, EndOfList, JoinedAll, Save,
                    Free, Exit, TypeOK
<1>5. ASSUME NEW f \in Files, ThreadStep(f) PROVE Slots'
  BY <1>1, <1>5, ThreadIs DEF mainVars, TypeOK
<1>6. CASE UNCHANGED vars
  BY <1>1, <1>6 DEF vars, mainVars, TypeOK
<1> QED
  BY <1>2, <1>3, <1>4, <1>5, <1>6 DEF Next, MainStep, Ended

-----------------------------------------------------------------------------
(* Started.  A thread leaves its slot when it is joined; only a loose one  *)
(* loses its slot to the next batch.                                       *)
LEMMA StartedStep ==
    TypeOK /\ Batches /\ Started /\ [Next]_vars => Started'
<1> SUFFICES ASSUME TypeOK, Batches, Started, [Next]_vars PROVE Started'
  OBVIOUS
<1>1. ASSUME i' \in Int, i' = i \/ i <= 0, UNCHANGED <<next, fetchs, joined>>,
             \A f \in Files : thread'[f] = "none" <=> thread[f] = "none",
             \A f \in Files : thread[f] = "done" => thread'[f] = "done"
      PROVE  Started'
  <2>1. \A k \in Nat : k < i => k < i'
    BY <1>1 DEF TypeOK
  <2>2. \A f : InSlot(f) => InSlot(f)'
    BY <1>1, <2>1 DEF InSlot
  <2>3. \A f \in joined : f \in Files
    BY DEF TypeOK
  <2> QED
    BY <1>1, <2>2, <2>3 DEF Started
<1>2. CASE Start
  <2>1. /\ next \in Files /\ next' = next + 1 /\ joined' = joined
        /\ thread' = [thread EXCEPT ![next] = "created"] /\ thread[next] = "none"
    BY <1>2, StartIs
  <2>2. \A f \in Files : thread'[f] = "none" <=> f >= next'
    BY <2>1 DEF TypeOK, Started, Files
  <2>3. \A f \in joined : thread'[f] = "done"
    BY <2>1 DEF TypeOK, Started
  <2>4. \A f : InSlot(f) => InSlot(f)'
    <3>1. Taken \in 0..(Sources - 1) /\ i \in Int /\ i' \in {Taken, Taken + 1}
      BY <1>2, StartIs DEF TypeOK
    <3>2. \A k \in Nat : k < i => k < i' /\ k # Taken /\ k \in 0..(Sources - 1)
      BY <3>1 DEF Taken
    <3>3. fetchs' = [fetchs EXCEPT ![Taken] = next]
      BY <1>2, StartIs
    <3> QED
      BY <3>2, <3>3 DEF InSlot, TypeOK
  <2>5. ASSUME NEW f \in Files, f = next, f \notin Loose PROVE InSlot(f)'
    <3>1. next \notin Loose
      BY <2>5
    <3>2. Taken # Concurrency
      BY <1>2, <3>1, LastIsLoose DEF Start
    <3>3. Taken \in 0..(Sources - 1) /\ i' = Taken + 1
      BY <1>2, <3>2, StartIs
    <3>4. fetchs' = [fetchs EXCEPT ![Taken] = next]
      BY <1>2, StartIs
    <3>5. Taken \in Nat /\ Taken < i' /\ fetchs'[Taken] = next
      BY <3>3, <3>4 DEF TypeOK
    <3> QED
      BY <2>5, <3>5 DEF InSlot
  <2>6. \A f \in Files : f < next' => f < next \/ f = next
    BY <2>1 DEF Files
  <2> QED
    BY <2>1, <2>2, <2>3, <2>4, <2>5, <2>6 DEF Started
<1>3. CASE Join
  <2>1. /\ thread' = thread /\ next' = next /\ thread[fetchs[i - 1]] = "done"
        /\ joined' = joined \cup {fetchs[i - 1]}
    BY <1>3, JoinIs
  <2>2. i \in Nat \ {0} /\ i' = i - 1
    BY <1>3, JoinIs
  <2>3. \A k \in Nat : k < i => k = i - 1 \/ (k < i' /\ k \in 0..(Sources - 1))
    BY <2>2 DEF Batches, TypeOK
  <2>4. fetchs' = [fetchs EXCEPT ![i - 1] = Nobody]
    BY <1>3, JoinIs
  <2>5. \A k \in Nat : k < i => k = i - 1 \/ (k < i' /\ fetchs'[k] = fetchs[k])
    BY <2>2, <2>3, <2>4 DEF TypeOK
  <2>6. \A f : InSlot(f) => f = fetchs[i - 1] \/ InSlot(f)'
    BY <2>5 DEF InSlot
  <2> QED
    BY <2>1, <2>6 DEF Started
<1>4. CASE Count \/ NoMemory \/ CreateFails \/ EndOfList \/ Save \/ Free
  BY <1>1, <1>4 DEF Count, NoMemory, CreateFails, EndOfList, Save, Free, TypeOK
<1>5. CASE JoinedAll
  BY <1>1, <1>5 DEF JoinedAll, TypeOK
<1>6. CASE Exit
  <2>1. \A f \in Files : /\ thread'[f] = "none" <=> thread[f] = "none"
                         /\ thread[f] = "done" => thread'[f] = "done"
    BY <1>6 DEF Exit
  <2> QED
    BY <1>1, <1>6, <2>1 DEF Exit, TypeOK
<1>7. ASSUME NEW f \in Files, ThreadStep(f) PROVE Started'
  <2>1. UNCHANGED <<i, next, fetchs, joined>>
    BY <1>7, ThreadIs DEF mainVars
  <2>2. \A g \in Files : /\ thread'[g] = "none" <=> thread[g] = "none"
                         /\ thread[g] = "done" => thread'[g] = "done"
    BY <1>7, ThreadIs DEF Idle
  <2> QED
    BY <1>1, <2>1, <2>2 DEF TypeOK
<1>8. CASE UNCHANGED vars
  BY <1>1, <1>8 DEF vars, mainVars, TypeOK
<1> QED
  BY <1>2, <1>3, <1>4, <1>5, <1>6, <1>7, <1>8 DEF Next, MainStep, Ended

-----------------------------------------------------------------------------
(* Copied.  Nothing but the threads writes to the directory, and when it   *)
(* is saved the index is below every slot.                                 *)
LEMMA CopiedStep ==
    TypeOK /\ Batches /\ Started /\ Copied /\ [Next]_vars => Copied'
<1> SUFFICES ASSUME TypeOK, Batches, Started, Copied, [Next]_vars PROVE Copied'
  OBVIOUS
<1>1. ASSUME UNCHANGED <<disk, copy>>,
             pc' \notin {"free", "freed", "exit"} => pc \notin {"free", "freed", "exit"},
             \A f \in Files : thread[f] = "done" => thread'[f] = "done"
      PROVE  Copied'
  BY <1>1 DEF Copied, CopyIsFinal
<1>2. CASE Start
  <2>1. /\ thread[next] = "none" /\ thread' = [thread EXCEPT ![next] = "created"]
        /\ next \in Files /\ UNCHANGED <<disk, copy>> /\ pc = "start"
    BY <1>2, StartIs
  <2> QED
    BY <1>1, <2>1 DEF TypeOK
<1>3. CASE Save
  <2>1. \A f \in Files \ Loose : thread[f] = "done"
    <3>1. next = Sources + 1 /\ i < 0 /\ i \in Int
      BY <1>3 DEF Save, Batches, TypeOK
    <3>2. \A f \in Files : f < next /\ ~InSlot(f)
      BY <3>1 DEF InSlot, Files
    <3> QED
      BY <3>2 DEF Started
  <2>2. copy' = disk /\ disk' = disk /\ thread' = thread /\ pc' = "free"
    BY <1>3 DEF Save
  <2> QED
    BY <2>1, <2>2 DEF Copied, CopyIsFinal
<1>4. CASE Count \/ NoMemory \/ CreateFails \/ EndOfList \/ Join \/ JoinedAll
           \/ Free
  BY <1>1, <1>4 DEF Count, NoMemory, CreateFails, EndOfList, Join, Joins,
                    JoinedAll, Free, fileVars
<1>5. CASE Exit
  <2>1. \A f \in Files : thread[f] = "done" => thread'[f] = "done"
    BY <1>5 DEF Exit
  <2> QED
    BY <1>1, <1>5, <2>1 DEF Exit, fileVars
<1>6. ASSUME NEW f \in Files, ThreadStep(f) PROVE Copied'
  <2>1. copy' = copy /\ pc' = pc /\ thread[f] # "done"
    BY <1>6, ThreadIs DEF mainVars, Idle
  <2>2. \A g \in Files \ {f} : thread'[g] = thread[g] /\ disk'[g] = disk[g]
    BY <1>6, ThreadIs
  <2> QED
    BY <2>1, <2>2 DEF Copied, CopyIsFinal
<1>7. CASE UNCHANGED vars
  BY <1>1, <1>7 DEF vars, mainVars, fileVars
<1> QED
  BY <1>2, <1>3, <1>4, <1>5, <1>6, <1>7 DEF Next, MainStep, Ended

-----------------------------------------------------------------------------
(* Counted.  As long as no write is based on an old value, refs counts the *)
(* threads that have been started and have not ended.                      *)
LEMMA ActiveFinite == IsFiniteSet(Active) /\ Cardinality(Active) \in Nat
<1>1. IsFiniteSet(Files)
  BY FS_Interval DEF Files
<1>2. Active \subseteq Files
  BY DEF Active
<1> QED
  BY <1>1, <1>2, FS_Subset, FS_CardinalityType

(* Counted.  A thread that starts or ends moves refs by one unless an      *)
(* update is lost, and the package is freed when refs is 0.                *)
LEMMA CountedStep == TypeOK /\ Batches /\ Counted /\ [Next]_vars => Counted'
<1> SUFFICES ASSUME TypeOK, Batches, Counted, [Next]_vars PROVE Counted'
  OBVIOUS
<1>1. ASSUME UNCHANGED <<refs, raced, failed, freed, thread>>,
             pc \notin {"freed", "exit"}, pc' # "exit"
      PROVE  Counted'
  <2>1. Active' = Active
    BY <1>1 DEF Active
  <2> QED
    BY <1>1, <2>1 DEF Counted, FreedIsUnused
<1>2. CASE CreateFails
  <2>1. Written(Main, 1) /\ failed' = failed + 1 /\ thread' = thread /\ freed' = freed
        /\ pc = "start"
    BY <1>2 DEF CreateFails
  <2>2. ~raced' => ~raced /\ refs' = refs + 1
    BY <2>1 DEF Written
  <2>3. Active' = Active
    BY <2>1 DEF Active
  <2>4. ~freed
    BY <2>1 DEF Counted
  <2> QED
    BY <2>1, <2>2, <2>3, <2>4, ActiveFinite DEF Counted, FreedIsUnused, TypeOK
<1>3. CASE Start
  <2>1. Written(Main, 1) /\ pc = "start"
    BY <1>3 DEF Start
  <2>2. ~raced' => ~raced /\ refs' = refs + 1
    BY <2>1 DEF Written
  <2>3. /\ next \in Files /\ thread[next] = "none"
        /\ thread' = [thread EXCEPT ![next] = "created"]
        /\ failed' = failed /\ freed' = freed
    BY <1>3, StartIs
  <2>4. Active' = Active \cup {next} /\ next \notin Active
    BY <2>3 DEF Active, TypeOK
  <2>5. Cardinality(Active') = Cardinality(Active) + 1
    BY <2>4, ActiveFinite, FS_AddElement
  <2>6. ~freed /\ ~freed'
    BY <2>1, <2>3 DEF Counted
  <2>7. ~raced' => refs' = Cardinality(Active') + failed'
    <3>1. ~raced => refs = Cardinality(Active) + failed
      BY <2>1 DEF Counted
    <3>2. refs \in Int /\ failed \in Nat /\ failed' = failed
      BY <2>3 DEF TypeOK
    <3> QED
      BY <2>2, <2>5, <3>1, <3>2, ActiveFinite
  <2> QED
    BY <2>6, <2>7 DEF Counted, FreedIsUnused
<1>4. CASE Free
  <2>1. /\ pc = "free" /\ pc' = "freed" /\ freed' = (refs = 0)
        /\ UNCHANGED <<refs, raced, failed, thread>>
    BY <1>4 DEF Free, countVars
  <2>2. Active' = Active
    BY <2>1 DEF Active
  <2>3. freed' /\ ~raced => Active = {}
    BY <2>1, ActiveFinite, FS_EmptySet DEF Counted, TypeOK
  <2> QED
    BY <2>1, <2>2, <2>3 DEF Counted, FreedIsUnused, Active, Idle
<1>5. CASE Exit
  <2>1. \A f \in Files : thread'[f] \in Idle
    BY <1>5 DEF Exit, Idle
  <2> QED
    BY <1>5, <2>1 DEF Exit, Counted, FreedIsUnused
<1>6. CASE Count \/ NoMemory \/ EndOfList \/ Join \/ JoinedAll \/ Save
  BY <1>1, <1>6 DEF Count, NoMemory, EndOfList, Join, Joins, JoinedAll, Save,
                    Read, countVars
<1>7. ASSUME NEW f \in Files, ThreadStep(f) PROVE Counted'
  <2>1. /\ thread[f] \notin Idle /\ thread'[f] # "none"
        /\ thread' = [thread EXCEPT ![f] = thread'[f]]
        /\ UNCHANGED <<pc, failed, freed>>
    BY <1>7, ThreadIs DEF mainVars
  <2>2. (freed => raced) /\ (raced => raced')
    BY <1>7, <2>1 DEF Counted, FreedIsUnused, ThreadStep, Look, Decide, Open,
       OpenFails, Body, BodyFails, CountDown, Read, End, Written, countVars
  <2>3. CASE End(f)
    <3>1. Written(f, -1) /\ thread' = [thread EXCEPT ![f] = "done"]
      BY <2>3 DEF End, Move
    <3>2. ~raced' => ~raced /\ refs' = refs - 1
      BY <3>1 DEF Written, TypeOK
    <3>3. Active' = Active \ {f} /\ f \in Active
      BY <2>1, <3>1 DEF Active, Idle, TypeOK
    <3>4. Cardinality(Active') = Cardinality(Active) - 1
      BY <3>3, ActiveFinite, FS_RemoveElement
    <3> QED
      BY <2>1, <2>2, <3>2, <3>4, ActiveFinite DEF Counted, FreedIsUnused, TypeOK
  <2>4. CASE ~End(f)
    <3>1. thread'[f] # "done" /\ UNCHANGED <<refs, raced>>
      BY <1>7, <2>4 DEF ThreadStep, Look, Decide, Open, OpenFails, Body,
         BodyFails, CountDown, Read, Move, countVars, TypeOK
    <3>2. Active' = Active
      BY <2>1, <3>1 DEF Active, Idle, TypeOK
    <3> QED
      BY <2>1, <2>2, <3>1, <3>2 DEF Counted, FreedIsUnused
  <2> QED
    BY <2>3, <2>4
<1>8. CASE UNCHANGED vars
  <2>1. Active' = Active
    BY <1>8 DEF vars, Active
  <2> QED
    BY <1>8, <2>1 DEF vars, mainVars, countVars, Counted, FreedIsUnused
<1> QED
  BY <1>2, <1>3, <1>4, <1>5, <1>6, <1>7, <1>8 DEF Next, MainStep, Ended

-----------------------------------------------------------------------------
(* At first no thread is started and all slots are empty.                  *)
LEMMA InitInv == Init => Inv
<1> SUFFICES ASSUME Init PROVE Inv
  OBVIOUS
<1>1. TypeOK
  <2>1. next \in 1..(Sources + 1) /\ i \in Int /\ refs \in Int /\ failed \in Nat
    BY DEF Init
  <2>2. fetchs \in [0..(Sources - 1) -> Files \cup {Nobody}]
    BY DEF Init
  <2>3. thread \in [Files -> ThreadStates]
    BY DEF Init, ThreadStates, Idle
  <2>4. seen \in [Files \cup {Main} -> Int]
    BY DEF Init
  <2>5. /\ disk \in [Files -> FileStates]
        /\ copy \in [Files -> FileStates \cup {"none"}]
    BY DEF Init
  <2>6. freed \in BOOLEAN /\ raced \in BOOLEAN
    BY DEF Init
  <2> QED
    BY <2>1, <2>2, <2>3, <2>4, <2>5, <2>6 DEF Init, TypeOK
<1>2. Batches
  <2>1. next = 1 /\ i = 0 /\ pc = "next"
    BY DEF Init
  <2>2. next - 1 - Taken = 0 /\ Concurrency + 1 \in Nat \ {0}
    BY <2>1 DEF Taken
  <2>3. 0 % (Concurrency + 1) = 0
    BY <2>2
  <2> QED
    BY <2>1, <2>2, <2>3 DEF Batches
<1>3. Slots
  BY DEF Init, Slots
<1>4. Started
  BY DEF Init, Started, Files
<1>5. Copied
  BY DEF Init, Copied, CopyIsFinal
<1>6. Counted
  <2>1. Active = {}
    BY DEF Init, Active
  <2> QED
    BY <2>1, FS_EmptySet DEF Init, Counted, FreedIsUnused
<1> QED
  BY <1>1, <1>2, <1>3, <1>4, <1>5, <1>6 DEF Inv

(* The inductive invariant holds of every state that main and the          *)
(* downloads of one package reach.                                         *)
THEOREM Invariance == Spec => []Inv
<1>1. Inv /\ [Next]_vars => Inv'
  BY TypeStep, BatchesStep, SlotsStep, StartedStep, CopiedStep, CountedStep
     DEF Inv
<1> QED
  BY <1>1, InitInv, PTL DEF Spec

(* Every variable keeps the type the code gives it.                        *)
THEOREM TypeCorrect == Spec => []TypeOK
<1>1. Inv => TypeOK
  BY DEF Inv
<1> QED
  BY <1>1, Invariance, PTL

(* The loops that join find a live thread in every slot below the index,   *)
(* each in one slot only, for any number of sources and any concurrency.   *)
THEOREM JoinsFindThreads == Spec => []JoinsAreLive
<1>1. Inv => JoinsAreLive
  <2> SUFFICES ASSUME Inv PROVE JoinsAreLive
    OBVIOUS
  <2>1. \A k \in 0..(i - 1) : k \in Nat /\ k < i
    BY DEF Inv, TypeOK
  <2>2. \A f \in Files : f < next => thread[f] # "none"
    BY DEF Inv, TypeOK, Started, Files
  <2> QED
    BY <2>1, <2>2 DEF Inv, Slots, JoinsAreLive
<1> QED
  BY <1>1, Invariance, PTL

(* What is saved in the cache is the final file of each source but the     *)
(* loose ones, whichever way the threads and main are interleaved.         *)
THEOREM CachedIsFinal == Spec => []CopyIsFinal
<1>1. Inv => CopyIsFinal
  BY DEF Inv, Copied
<1> QED
  BY <1>1, Invariance, PTL

(* While no update of pkg->refs is lost, no thread is left that could      *)
(* touch a package after clib_package_free has freed it.                   *)
THEOREM FreeWaitsForThreads == Spec => []FreedIsUnused
<1>1. Inv => FreedIsUnused
  BY DEF Inv, Counted
<1> QED
  BY <1>1, Invariance, PTL

(* opts.concurrency bounds the downloads that run beside the loose ones:   *)
(* each has a slot below the index.                                        *)
THEOREM ConcurrencyBounds == Spec => []FetchesBounded
<1> DEFINE busy == {f \in Files \ Loose : thread[f] \notin Idle}
<1>1. Inv => FetchesBounded
  <2> SUFFICES ASSUME Inv PROVE Cardinality(busy) <= Concurrency
    BY DEF FetchesBounded
  <2>1. \A f \in busy : InSlot(f)
    BY DEF Inv, Started, Idle, TypeOK, Files
  <2> DEFINE slot == [f \in busy |-> CHOOSE k \in Nat : k < i /\ fetchs[k] = f]
  <2>2. \A f \in busy : slot[f] \in Nat /\ slot[f] < i /\ fetchs[slot[f]] = f
    BY <2>1 DEF InSlot
  <2>3. i \in Int /\ i <= Concurrency
    BY DEF Inv, TypeOK, Batches
  <2>4. \A f \in busy : slot[f] \in 0..(Concurrency - 1)
    BY <2>2, <2>3
  <2>5. slot \in [busy -> 0..(Concurrency - 1)]
    BY <2>4
  <2>6. slot \in Injection(busy, 0..(Concurrency - 1))
    BY <2>2, <2>5 DEF Injection, IsInjective
  <2>7. IsFiniteSet(0..(Concurrency - 1)) /\ Cardinality(0..(Concurrency - 1)) = Concurrency
    BY FS_Interval
  <2> QED
    BY <2>6, <2>7, FS_Injection
<1> QED
  BY <1>1, Invariance, PTL

-----------------------------------------------------------------------------
(* Nobody is stuck.  A thread that holds the lock is on its way to give it *)
(* up, and no thread has been killed before main returns.                  *)
Lively ==
    pc # "exit" =>
        /\ lock # Nobody => thread[lock] = "look"
        /\ \A f \in Files : thread[f] # "killed"

LEMMA LivelyStep == TypeOK /\ Batches /\ Lively /\ [Next]_vars => Lively'
<1> SUFFICES ASSUME TypeOK, Batches, Lively, [Next]_vars, pc' # "exit"
             PROVE  /\ lock' # Nobody => thread'[lock'] = "look"
                    /\ \A f \in Files : thread'[f] # "killed"
  BY DEF Lively
<1>1. CASE Start
  <2>1. /\ thread[next] = "none" /\ thread' = [thread EXCEPT ![next] = "created"]
        /\ pc = "start" /\ UNCHANGED lock
    BY <1>1, StartIs
  <2> QED
    BY <2>1 DEF Lively, TypeOK
<1>2. CASE MainStep /\ ~Start
  <2>1. pc # "exit" /\ UNCHANGED <<thread, lock>>
    BY <1>2 DEF MainStep, Count, NoMemory, CreateFails, EndOfList, Join,
                JoinedAll, Save, Free, Exit, Joins
  <2> QED
    BY <2>1 DEF Lively
<1>3. ASSUME NEW f \in Files, ThreadStep(f)
      PROVE  /\ lock' # Nobody => thread'[lock'] = "look"
             /\ \A g \in Files : thread'[g] # "killed"
  <2>1. UNCHANGED pc /\ thread' = [thread EXCEPT ![f] = thread'[f]]
    BY <1>3, ThreadIs DEF mainVars
  <2>2. thread'[f] \in {"look", "get", "body", "count", "store", "done"}
    BY <1>3 DEF ThreadStep, Look, Decide, Open, OpenFails, Body, BodyFails,
                CountDown, End, Move, TypeOK
  <2>3. \A g \in Files \ {f} : thread'[g] = thread[g]
    BY <2>1 DEF TypeOK
  <2>4. \A g \in Files : thread'[g] # "killed"
    BY <2>1, <2>2, <2>3 DEF Lively
  <2>5. \/ lock' = f /\ thread'[f] = "look"
        \/ lock' = Nobody
        \/ lock' = lock /\ thread[f] # "look"
    BY <1>3, <2>3 DEF ThreadStep, Look, Decide, Open, OpenFails, Body, BodyFails,
                      CountDown, End, Move, TypeOK
  <2> QED
    BY <2>1, <2>3, <2>4, <2>5 DEF Lively, TypeOK
<1>4. CASE Ended \/ UNCHANGED vars
  BY <1>4 DEF Ended, vars, mainVars, Lively
<1> QED
  BY <1>1, <1>2, <1>3, <1>4 DEF Next

(* For any number of sources and any concurrency, main and its threads     *)
(* never all wait: the two branches of fetch_package_file_work both give   *)
(* up the lock, and a slot that is joined holds a thread that will end.    *)
THEOREM SomebodyFetches == Spec => []FetchGoesOn
<1>1. Init => Lively
  BY DEF Init, Lively
<1>2. Inv /\ Lively /\ [Next]_vars => Lively'
  BY LivelyStep DEF Inv
<1>3. ASSUME Inv, Lively PROVE FetchGoesOn
  <2> SUFFICES ASSUME pc # "exit", MainWaits PROVE \E f \in Files : CanGoOn(f)
    BY DEF FetchGoesOn
  <2>1. CASE lock # Nobody
    BY <1>3, <2>1 DEF Lively, CanGoOn, Idle, Inv, TypeOK
  <2>2. CASE lock = Nobody
    <3>1. i \in Int /\ i > 0 /\ thread[fetchs[i - 1]] # "done"
      BY <1>3, <2>2 DEF MainWaits, Inv, TypeOK
    <3>2. fetchs[i - 1] \in Files /\ fetchs[i - 1] < next
      BY <1>3, <3>1 DEF Inv, Slots
    <3>3. thread[fetchs[i - 1]] \notin Idle
      BY <1>3, <3>1, <3>2 DEF Inv, Started, Lively, Idle, TypeOK, Files
    <3> QED
      BY <2>2, <3>2, <3>3 DEF CanGoOn
  <2> QED
    BY <2>1, <2>2
<1> QED
  BY <1>1, <1>2, <1>3, Invariance, PTL DEF Spec

=============================================================================
