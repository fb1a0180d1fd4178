-------------------------- MODULE ClibBuildProofs ---------------------------
(***************************************************************************)
(* clib build and clib configure, for any packages, command lines,         *)
(* concurrency and number of threads.                                      *)
(*                                                                         *)
(* A step moves one thread, or it starts or joins one besides, or it ends  *)
(* them all.                                                               *)
(*                                                                         *)
(* 1. The mutex of clib-package.c (Inv).  Of a thread only its label       *)
(*    matters: inside the cache it holds the mutex, unless the mutex has   *)
(*    been unlocked by another; and whoever holds it is inside.            *)
(* 2. Threads are awaited and packages looked after (AwaitInv).  The batch *)
(*    of a live call holds what it started (Owned), and in every set of    *)
(*    threads is one that no other of the set waits for (NoRing): at the   *)
(*    end all would wait for each other, so there are none.  What a noted  *)
(*    package needs is noted or some thread is coming to it (Covered).     *)
(* 3. Nobody is stuck (LiveInv).  The threads of a batch are there, each   *)
(*    once, until they are joined (JoinsAreLive).  Were no thread able to  *)
(*    go on, the mutex would be free, so all would wait in a join for one  *)
(*    that waits as well: a set of threads that NoRing excludes (NoRingIs, *)
(*    by the least such set).                                              *)
(***************************************************************************)
EXTENDS ClibConfigure, WellFoundedInduction, FiniteSetTheorems, TLAPS

(* A call has a label; what its other fields are does not matter.          *)
Labelled(r) == "at" \in DOMAIN r

Shape ==
    /\ th = [t \in Threads |-> th[t]]
    /\ \A t \in Threads : Labelled(th[t])

Inside == {"held", "saving"}

Outside == {"idle", "start", "look", "read", "have", "mark", "slug", "get",
            "parse", "keep", "deps", "create", "join", "done", "free", "freed"}

Guarded == ~stolen => \A t \in Threads : th[t].at \in Inside => lock = t

(* Whoever holds the mutex is inside.                                      *)
Kept == lock # Nobody => lock \in Threads /\ th[lock].at \in Inside

Inv == Shape /\ Guarded /\ Kept

(* Nobody is no thread, and main is one.                                   *)
LEMMA ThreadsAre == Nobody \notin Threads /\ Main \in Threads
  BY BoundsAssumption DEF Nobody, Threads, Main

(* A thread that does not run is outside the cache.                        *)
LEMMA NoCallIs == Labelled(NoCall) /\ NoCall.at = "idle"
  BY DEF Labelled, NoCall

(* A new call has the label it is given.                                   *)
LEMMA CallIs ==
    ASSUME NEW p, NEW place, NEW label
    PROVE  Labelled(Call(p, place, label)) /\ Call(p, place, label).at = label
  BY NoCallIs DEF Labelled, Call

(* The least of a set of numbers.                                          *)
LEMMA LeastOf ==
    ASSUME NEW T, T \subseteq Nat, T # {}
    PROVE  \E x \in T : \A y \in T : x <= y
<1>1. PICK x \in T : \A y \in T : ~ (<<y, x>> \in OpToRel(<, Nat))
  BY NatLessThanWellFounded, WFMin
<1>2. \A y \in T : <<y, x>> \in OpToRel(<, Nat) <=> y < x
  BY DEF OpToRel
<1>3. \A y \in T : ~ (y < x)
  BY <1>1, <1>2, Zenon
<1> QED
  BY <1>3

(* A thread that is unused is one to start.                                *)
LEMMA UnusedIs ==
    ASSUME Unused # {}
    PROVE  (CHOOSE u \in Unused : \A w \in Unused : u <= w) \in Unused
<1>1. Unused \subseteq Nat
  BY BoundsAssumption DEF Unused, Threads
<1>2. \E u \in Unused : \A w \in Unused : u <= w
  BY <1>1, LeastOf
<1> HIDE DEF Unused
<1> QED
  BY <1>2

-----------------------------------------------------------------------------
(* The thread t comes to a label in S, and no other thread moves.          *)
Comes(t, S) == \E r : Labelled(r) /\ r.at \in S /\ Become(t, r)

(* What such a step does to the threads.                                   *)
LEMMA ComesIs ==
    ASSUME Shape, NEW t \in Threads, NEW S, Comes(t, S)
    PROVE  /\ Shape' /\ th'[t].at \in S
           /\ \A u \in Threads \ {t} : th'[u] = th[u]
  BY DEF Comes, Become, Shape

(* A step to a label outside that leaves the mutex alone.                  *)
LEMMA StaysOut ==
    ASSUME Inv, NEW t \in Threads, th[t].at \notin Inside,
           Comes(t, Outside), UNCHANGED lockVars
    PROVE  Inv'
<1>1. /\ Shape' /\ th'[t].at \in Outside
      /\ \A u \in Threads \ {t} : th'[u] = th[u]
  BY ComesIs DEF Inv
<1>2. Guarded'
  BY <1>1 DEF Inv, Guarded, Inside, Outside, lockVars
<1>3. Kept'
  BY <1>1 DEF Inv, Kept, lockVars
<1> QED
  BY <1>1, <1>2, <1>3 DEF Inv

(* The same, for a step that is given as a record.                         *)
LEMMA RecordStaysOut ==
    ASSUME Inv, NEW t \in Threads, th[t].at \notin Inside,
           NEW r, Labelled(r), r.at \in Outside, Become(t, r),
           UNCHANGED lockVars
    PROVE  Inv'
  BY StaysOut DEF Comes

(* Two threads move (or one of them only, if the other does not exist).    *)
LEMMA BothStayOut ==
    ASSUME Inv, NEW t, NEW u,
           NEW r, Labelled(r), r.at \in Outside,
           NEW q, Labelled(q), q.at \in Outside,
           th' = [th EXCEPT ![t] = r, ![u] = q], UNCHANGED lockVars,
           th[t].at \notin Inside, th[u].at \notin Inside
    PROVE  Inv'
<1>1. \A w \in Threads :
         \/ w \in {t, u} /\ (th'[w] = r \/ th'[w] = q)
         \/ w \notin {t, u} /\ th'[w] = th[w]
  BY DEF Inv, Shape
<1>2. Shape'
  BY <1>1 DEF Inv, Shape
<1>3. Guarded'
  BY <1>1 DEF Inv, Guarded, Inside, Outside, lockVars
<1>4. Kept'
  BY <1>1 DEF Inv, Kept, lockVars
<1> QED
  BY <1>2, <1>3, <1>4 DEF Inv

(* The mutex is free afterwards; if a thread is inside, it was stolen.     *)
LEMMA Leaves ==
    ASSUME Inv, NEW t \in Threads, Comes(t, Outside), Unlock(t)
    PROVE  Inv'
<1>1. /\ Shape' /\ th'[t].at \in Outside
      /\ \A u \in Threads \ {t} : th'[u] = th[u]
  BY ComesIs DEF Inv
<1>2. ~stolen' => ~stolen /\ lock \in {t, Nobody}
  BY Zenon DEF Unlock
<1>3. ASSUME ~stolen', NEW u \in Threads, th'[u].at \in Inside
      PROVE  lock' = u
  <2>1. u # t /\ th[u].at \in Inside
    BY <1>1, <1>3 DEF Inside, Outside
  <2>2. lock = u
    BY <1>2, <1>3, <2>1 DEF Inv, Guarded
  <2> QED
    BY <1>2, <1>3, <2>1, <2>2, ThreadsAre
<1> QED
  BY <1>1, <1>3 DEF Inv, Guarded, Kept, Unlock

(* A mutex that is free is held by no thread inside.                       *)
LEMMA Enters ==
    ASSUME Inv, NEW t \in Threads, Comes(t, Inside),
           lock = Nobody, lock' = t, stolen' = stolen
    PROVE  Inv'
<1>1. /\ Shape' /\ th'[t].at \in Inside
      /\ \A u \in Threads \ {t} : th'[u] = th[u]
  BY ComesIs DEF Inv
<1>2. Guarded'
  BY <1>1, ThreadsAre DEF Inv, Guarded
<1> QED
  BY <1>1, <1>2 DEF Inv, Kept

(* All threads end at once.                                                *)
LEMMA Ends ==
    ASSUME Inv, NEW status, End(status)
    PROVE  Inv'
  BY NoCallIs DEF End, Inv, Shape, Guarded, Inside, Kept

-----------------------------------------------------------------------------
(* Where the steps that more than one action takes come to.                *)
LEMMA GotoComes ==
    ASSUME Shape, NEW t \in Threads, NEW S, NEW label \in S, Goto(t, label)
    PROVE  Comes(t, S)
<1> DEFINE r == [th[t] EXCEPT !.at = label]
<1>1. Labelled(th[t])
  BY DEF Shape
<1>2. Labelled(r) /\ r.at = label
  BY <1>1 DEF Labelled
<1> QED
  BY <1>2 DEF Goto, Comes

(* A call that has a result goes on with the other name or is done.        *)
LEMMA ResultComes ==
    ASSUME Shape, NEW t \in Threads, NEW rc, Result(t, rc)
    PROVE  Comes(t, Outside)
<1> DEFINE again == rc # 0 /\ th[t].file = 1
           a == IF again THEN "look" ELSE "done"
           f == IF again THEN 2 ELSE th[t].file
           r == [th[t] EXCEPT !.at = a, !.file = f, !.phase = "own",
                              !.todo = <<>>, !.batch = <<>>, !.rc = rc]
<1>1. Labelled(th[t])
  BY DEF Shape
<1>2. a \in Outside
  BY DEF Outside
<1>3. Become(t, r)
  BY DEF Result
<1> HIDE DEF a, f
<1>4. Labelled(r) /\ r.at = a
  BY <1>1 DEF Labelled
<1> QED
  BY <1>2, <1>3, <1>4 DEF Comes

(* A record whose label is outside, and what is made of it.                *)
LEMMA AskComes ==
    ASSUME Shape, NEW t \in Threads, AskFor(t, th[t])
    PROVE  Comes(t, Outside)
<1> DEFINE r == [th[t] EXCEPT !.at = "slug", !.tries = Retries, !.names = 1]
<1>1. Labelled(th[t])
  BY DEF Shape
<1>2. Labelled(r) /\ r.at = "slug"
  BY <1>1 DEF Labelled
<1> QED
  BY <1>2 DEF AskFor, Comes, Outside

(* A thread that takes one of these steps is outside.                      *)
LEMMA StartsOutside ==
    ASSUME NEW t,
           \/ Begin(t) \/ Look(t) \/ Read(t) \/ Make(t) \/ Configure(t)
           \/ Mark(t) \/ PrintFlags(t) \/ MarkConfigured(t)
           \/ Fetched(t) \/ Parsed(t) \/ NextName(t)
           \/ NoPackage(t) \/ NoDependency(t)
           \/ NextDep(t) \/ Create(t) \/ CreateFails(t) \/ Join(t)
           \/ Joined(t) \/ AllStarted(t)
    PROVE  th[t].at \notin Inside
<1> USE DEF At, Inside
<1>1. CASE \/ Begin(t) \/ Look(t) \/ Read(t) \/ Make(t) \/ Configure(t)
           \/ Mark(t) \/ PrintFlags(t) \/ MarkConfigured(t)
  BY <1>1 DEF Begin, Look, Read, Make, Configure, Mark, PrintFlags, MarkConfigured
<1>2. CASE \/ Fetched(t) \/ Parsed(t) \/ NextName(t)
           \/ NoPackage(t) \/ NoDependency(t)
  BY <1>2 DEF Fetched, Parsed, NextName, NoPackage, NoDependency, NoManifest,
              NoAnswer
<1>3. CASE \/ NextDep(t) \/ Create(t) \/ CreateFails(t) \/ Join(t)
           \/ Joined(t) \/ AllStarted(t)
  BY <1>3 DEF NextDep, Create, CreateFails, Join, Joined, AllStarted
<1> QED
  BY <1>1, <1>2, <1>3

-----------------------------------------------------------------------------
(* The actions, but for main's, Create, Join and the ends.                 *)
LEMMA LookupStep ==
    ASSUME Inv, NEW t \in Threads, Begin(t) \/ Look(t) \/ Read(t)
    PROVE  Inv'
<1>1. Shape /\ Labelled(th[t])
  BY DEF Inv, Shape
<1>2. CASE Begin(t)
  <2>1. "look" \in Outside
    BY DEF Outside
  <2> QED
    BY <1>1, <1>2, <2>1, GotoComes, StaysOut, StartsOutside DEF Begin
<1>3. CASE Look(t)
  <2>1. "read" \in Outside
    BY DEF Outside
  <2> QED
    BY <1>1, <1>3, <2>1, GotoComes, ResultComes, StaysOut, StartsOutside DEF Look
<1>4. CASE Read(t)
  <2>1. "have" \in Outside
    BY DEF Outside
  <2> QED
    BY <1>1, <1>4, <2>1, GotoComes, AskComes, StaysOut, StartsOutside DEF Read
<1> QED
  BY <1>2, <1>3, <1>4

(* A package is noted; its dependencies come next.                         *)
LEMMA MarkedStep ==
    ASSUME Inv, NEW t \in Threads, th[t].at \notin Inside, Marked(t)
    PROVE  Inv'
<1> DEFINE r == [th[t] EXCEPT !.at = "deps", !.phase = "deps", !.rc = 0,
                              !.todo = Deps[th[t].pkg]]
<1>1. Labelled(th[t])
  BY DEF Inv, Shape
<1>2. Labelled(r) /\ r.at = "deps"
  BY <1>1 DEF Labelled
<1>3. Become(t, r) /\ UNCHANGED lockVars
  BY DEF Marked
<1>4. Comes(t, Outside)
  BY <1>2, <1>3 DEF Comes, Outside
<1> QED
  BY <1>3, <1>4, StaysOut

(* The lookup and the download of a manifest: the only steps that take or  *)
(* release the mutex.                                                      *)
LEMMA SlugInv ==
    ASSUME Inv, NEW t \in Threads, SlugStep(t)
    PROVE  Inv'
<1>1. Shape /\ Labelled(th[t])
  BY DEF Inv, Shape
<1>2. CASE Lock(t)
  <2>1. "held" \in Inside
    BY DEF Inside
  <2>2. Comes(t, Inside)
    BY <1>1, <1>2, <2>1, GotoComes DEF Lock
  <2> QED
    BY <1>2, <2>2, Enters DEF Lock
<1>3. CASE Cached(t)
  <2>1. "parse" \in Outside
    BY DEF Outside
  <2>2. Comes(t, Outside)
    BY <1>1, <1>3, <2>1, GotoComes DEF Cached
  <2> QED
    BY <1>3, <2>2, Leaves DEF Cached
<1>4. CASE NotCached(t)
  <2>1. "get" \in Outside
    BY DEF Outside
  <2>2. Comes(t, Outside)
    BY <1>1, <1>4, <2>1, GotoComes DEF NotCached
  <2> QED
    BY <1>4, <2>2, Leaves DEF NotCached
<1>5. CASE Fetched(t)
  <2>1. "parse" \in Outside
    BY DEF Outside
  <2> QED
    BY <1>1, <1>5, <2>1, GotoComes, StaysOut, StartsOutside DEF Fetched
<1>6. CASE NotFetched(t)
  <2> DEFINE r == [th[t] EXCEPT !.tries = th[t].tries - 1]
  <2>1. Labelled(r) /\ r.at = th[t].at
    BY <1>1 DEF Labelled
  <2>2. th[t].at = "get" /\ Become(t, r)
    BY <1>6 DEF NotFetched, At
  <2>3. Comes(t, Outside)
    BY <2>1, <2>2 DEF Comes, Outside
  <2> QED
    BY <1>6, <2>3, Leaves DEF NotFetched
<1>7. CASE Parsed(t)
  <2>1. "keep" \in Outside
    BY DEF Outside
  <2> QED
    BY <1>1, <1>7, <2>1, GotoComes, StaysOut, StartsOutside DEF Parsed
<1>8. CASE NextName(t)
  <2> DEFINE r == [th[t] EXCEPT !.at = "slug", !.tries = Retries,
                                !.names = th[t].names - 1]
  <2>1. Labelled(r) /\ r.at = "slug"
    BY <1>1 DEF Labelled
  <2>2. Become(t, r) /\ UNCHANGED lockVars
    BY <1>8 DEF NextName
  <2> QED
    BY <1>8, <2>1, <2>2, RecordStaysOut, StartsOutside DEF Outside
<1>9. CASE LockAgain(t)
  <2>1. "saving" \in Inside
    BY DEF Inside
  <2>2. Comes(t, Inside)
    BY <1>1, <1>9, <2>1, GotoComes DEF LockAgain
  <2> QED
    BY <1>9, <2>2, Enters DEF LockAgain
<1>10. CASE Saved(t)
  <2> DEFINE label == IF th[t].phase = "own" THEN "have" ELSE "create"
  <2>1. label \in Outside
    BY DEF Outside
  <2>2. Goto(t, label) /\ Unlock(t)
    BY <1>10 DEF Saved
  <2> HIDE DEF label
  <2>3. Comes(t, Outside)
    BY <1>1, <2>1, <2>2, GotoComes
  <2> QED
    BY <2>2, <2>3, Leaves
<1> QED
  BY <1>2, <1>3, <1>4, <1>5, <1>6, <1>7, <1>8, <1>9, <1>10 DEF SlugStep

(* The calls that end without a dependency or without a package.           *)
LEMMA GivesUpInv ==
    ASSUME Inv, NEW t \in Threads, NoPackage(t) \/ NoDependency(t)
    PROVE  Inv'
<1>1. Shape
  BY DEF Inv
<1>2. Result(t, -1) /\ UNCHANGED lockVars
  BY DEF NoPackage, NoDependency
<1> QED
  BY <1>1, <1>2, ResultComes, StaysOut, StartsOutside

(* A thread is started, or its slot stays empty.                           *)
LEMMA CreateInv ==
    ASSUME Inv, NEW t \in Threads, Create(t) \/ CreateFails(t)
    PROVE  Inv'
<1> DEFINE S(u, rc) == Started(t, u, rc)
<1>1. ASSUME NEW u, NEW rc
      PROVE  Labelled(S(u, rc)) /\ S(u, rc).at \in Outside
  <2> DEFINE batch == Append(th[t].batch, u)
             label == IF Len(batch) >= Concurrency THEN "join" ELSE "deps"
             rest == Tail(th[t].todo)
             r == [th[t] EXCEPT !.at = label, !.todo = rest, !.batch = batch,
                                !.rc = rc]
  <2>1. label \in Outside
    BY DEF Outside
  <2>2. S(u, rc) = r
    BY DEF Started
  <2> HIDE DEF label, rest, batch
  <2>3. Labelled(th[t])
    BY DEF Inv, Shape
  <2>4. Labelled(r) /\ r.at = label
    BY <2>3 DEF Labelled
  <2> QED
    BY <2>1, <2>2, <2>4
<1> HIDE DEF S
<1>2. CASE Create(t)
  <2> DEFINE u == CHOOSE u \in Unused : \A w \in Unused : u <= w
             q == Call(Head(th[t].todo), "deps", "start")
  <2>1. th' = [th EXCEPT ![t] = S(u, 0), ![u] = q] /\ UNCHANGED lockVars
    BY <1>2 DEF Create, S
  <2>2. Labelled(q) /\ q.at \in Outside
    BY CallIs DEF Outside
  <2>3. th[u].at \notin Inside
    BY <1>2, UnusedIs, NoCallIs DEF Create, Unused, Inside
  <2> HIDE DEF u, q
  <2> QED
    BY <1>1, <1>2, <2>1, <2>2, <2>3, BothStayOut, StartsOutside
<1>3. CASE CreateFails(t)
  <2>1. Become(t, S(Nobody, 1)) /\ UNCHANGED lockVars
    BY <1>3 DEF CreateFails, S
  <2> QED
    BY <1>1, <1>3, <2>1, RecordStaysOut, StartsOutside
<1> QED
  BY <1>2, <1>3

(* A thread is joined, or an empty slot is passed over.                    *)
LEMMA JoinInv ==
    ASSUME Inv, NEW t \in Threads, Join(t)
    PROVE  Inv'
<1> DEFINE u == Head(th[t].batch)
           others == Tail(th[t].batch)
           r == [th[t] EXCEPT !.batch = others]
<1>1. Labelled(th[t]) /\ th[t].at = "join"
  BY DEF Inv, Shape, Join, At
<1>2. /\ \/ Become(t, r)
         \/ At(u, "done") /\ th' = [th EXCEPT ![t] = r, ![u] = NoCall]
      /\ UNCHANGED lockVars
  BY DEF Join
<1> HIDE DEF others, u
<1>3. Labelled(r) /\ r.at \in Outside
  BY <1>1 DEF Labelled, Outside
<1> HIDE DEF r
<1>4. CASE Become(t, r)
  BY <1>2, <1>3, <1>4, RecordStaysOut, StartsOutside
<1>5. CASE At(u, "done") /\ th' = [th EXCEPT ![t] = r, ![u] = NoCall]
  <2>1. Labelled(NoCall) /\ NoCall.at \in Outside
    BY NoCallIs DEF Outside
  <2>2. th[u].at \notin Inside
    BY <1>5 DEF At, Inside
  <2> QED
    BY <1>2, <1>3, <1>5, <2>1, <2>2, BothStayOut, StartsOutside
<1> QED
  BY <1>2, <1>4, <1>5

(* The loop over the dependencies, and its last round.                     *)
LEMMA LoopInv ==
    ASSUME Inv, NEW t \in Threads, NextDep(t) \/ Joined(t) \/ AllStarted(t)
    PROVE  Inv'
<1>1. Shape /\ Labelled(th[t])
  BY DEF Inv, Shape
<1>2. CASE NextDep(t)
  BY <1>1, <1>2, AskComes, StaysOut, StartsOutside DEF NextDep
<1>3. CASE Joined(t)
  <2>1. "deps" \in Outside
    BY DEF Outside
  <2> QED
    BY <1>1, <1>3, <2>1, GotoComes, StaysOut, StartsOutside DEF Joined
<1>4. CASE AllStarted(t)
  <2> DEFINE devs == Devs[th[t].pkg]
             r == [th[t] EXCEPT !.phase = "dev", !.todo = devs]
  <2>1. /\ Goto(t, "join") \/ Become(t, r) \/ Result(t, th[t].rc)
        /\ th[t].at = "deps" /\ UNCHANGED lockVars
    BY <1>4 DEF AllStarted, At
  <2> HIDE DEF devs
  <2>2. Labelled(r) /\ r.at = th[t].at
    BY <1>1 DEF Labelled
  <2>3. "join" \in Outside /\ "deps" \in Outside
    BY DEF Outside
  <2> HIDE DEF r
  <2>4. CASE Become(t, r)
    BY <1>4, <2>1, <2>2, <2>3, <2>4, RecordStaysOut, StartsOutside
  <2>5. CASE Goto(t, "join") \/ Result(t, th[t].rc)
    BY <1>1, <1>4, <2>1, <2>3, <2>5, GotoComes, ResultComes, StaysOut,
       StartsOutside
  <2> QED
    BY <2>1, <2>4, <2>5
<1> QED
  BY <1>2, <1>3, <1>4

(* All steps of the loop over the dependencies.                            *)
LEMMA DepInv ==
    ASSUME Inv, NEW t \in Threads, DepStep(t)
    PROVE  Inv'
<1>1. CASE JoinCrashes(t)
  BY <1>1, Ends DEF JoinCrashes
<1> QED
  BY <1>1, LoopInv, CreateInv, JoinInv DEF DepStep

(* The steps of main.                                                      *)
LEMMA MainInv ==
    ASSUME Inv, MainStep
    PROVE  Inv'
<1>1. Shape /\ Labelled(th[Main]) /\ Main \in Threads
  BY ThreadsAre DEF Inv, Shape
<1>2. NextArg \/ NoArgs \/ ArgDone \/ Free => th[Main].at \notin Inside
  BY DEF NextArg, NoArgs, ArgDone, Free, At, Inside
<1>3. CASE NextArg \/ NoArgs
  <2>1. PICK p, place : Become(Main, Call(p, place, "look")) /\ UNCHANGED lockVars
    BY <1>3 DEF NextArg, NoArgs, lockVars
  <2> QED
    BY <1>1, <1>2, <1>3, <2>1, CallIs, RecordStaysOut DEF Outside
<1>4. CASE ArgDone
  <2> DEFINE label == IF args = <<>> THEN "free" ELSE "idle"
             q == Call(th[Main].pkg, "slug", "look")
             r == [th[Main] EXCEPT !.at = label]
  <2>1. /\ Become(Main, q) \/ Become(Main, r)
        /\ UNCHANGED lockVars
    BY <1>4 DEF ArgDone
  <2>2. label \in Outside
    BY DEF Outside
  <2> HIDE DEF label
  <2>3. Labelled(r) /\ r.at = label
    BY <1>1 DEF Labelled
  <2>4. Labelled(q) /\ q.at \in Outside
    BY CallIs DEF Outside
  <2> HIDE DEF q, r
  <2> QED
    BY <1>1, <1>2, <1>4, <2>1, <2>2, <2>3, <2>4, RecordStaysOut
<1>5. CASE Free
  <2>1. "freed" \in Outside
    BY DEF Outside
  <2> QED
    BY <1>1, <1>2, <1>5, <2>1, GotoComes, StaysOut DEF Free
<1>6. CASE Exit
  BY <1>6, Ends DEF Exit
<1> QED
  BY <1>3, <1>4, <1>5, <1>6 DEF MainStep

(* Nothing happens.                                                        *)
LEMMA StutterInv == Inv /\ UNCHANGED vars => Inv'
  BY DEF vars, Inv, Shape, Guarded, Kept

(* The steps of a thread of clib build.                                    *)
LEMMA BuildInv ==
    ASSUME Inv, NEW t \in Threads, Step(t)
    PROVE  Inv'
<1>1. CASE Begin(t) \/ Look(t) \/ Read(t)
  BY <1>1, LookupStep
<1>2. CASE Make(t)
  <2>1. "mark" \in Outside /\ Shape
    BY DEF Outside, Inv
  <2> QED
    BY <1>2, <2>1, GotoComes, StaysOut, StartsOutside DEF Make
<1>3. CASE Mark(t)
  BY <1>3, MarkedStep, StartsOutside DEF Mark
<1>4. CASE NullDependency(t)
  BY <1>4, Ends DEF NullDependency
<1> QED
  BY <1>1, <1>2, <1>3, <1>4, SlugInv, GivesUpInv, DepInv DEF Step

(* The steps of a thread of clib configure.                                *)
LEMMA ConfigureInv ==
    ASSUME Inv, NEW t \in Threads, ConfigureStep(t)
    PROVE  Inv'
<1>1. CASE Lookup(t)
  BY <1>1, LookupStep, GivesUpInv DEF Lookup
<1>2. CASE Configure(t)
  <2>1. "mark" \in Outside /\ Shape
    BY DEF Outside, Inv
  <2> QED
    BY <1>2, <2>1, GotoComes, StaysOut, StartsOutside DEF Configure
<1>3. CASE PrintFlags(t) \/ MarkConfigured(t)
  BY <1>3, MarkedStep, StartsOutside DEF PrintFlags, MarkConfigured
<1>4. CASE NullName(t)
  BY <1>4, Ends DEF NullName
<1> QED
  BY <1>1, <1>2, <1>3, <1>4, SlugInv, DepInv DEF ConfigureStep, Dependencies

-----------------------------------------------------------------------------
(* No thread is inside at first.                                           *)
LEMMA InitInv == Init => Inv
  BY NoCallIs DEF Init, Inv, Shape, Guarded, Inside, Kept

(* The invariant, as the run states it.                                    *)
LEMMA InvGuards == Inv => CacheIsGuarded
  BY DEF Inv, Guarded, Inside, CacheIsGuarded

(* clib build: one thread at a time is inside the cache of manifests, for  *)
(* any packages and any number of threads, until a request that is tried   *)
(* again unlocks the mutex of another thread.                              *)
THEOREM BuildGuardsCache == Spec => []CacheIsGuarded
<1>1. Inv /\ [Next]_vars => Inv'
  BY BuildInv, MainInv, StutterInv DEF Next
<1> QED
  BY <1>1, InitInv, InvGuards, PTL DEF Spec

(* clib configure, which has its own steps beside those of clib build.     *)
THEOREM ConfigureGuardsCache == ConfigureSpec => []CacheIsGuarded
<1>1. Inv /\ [ConfigureNext]_vars => Inv'
  BY ConfigureInv, MainInv, StutterInv DEF ConfigureNext, ConfigureMain
<1> QED
  BY <1>1, InitInv, InvGuards, PTL DEF ConfigureSpec

-----------------------------------------------------------------------------
(* Who waits for whom, and what is still to be looked after.               *)

(* The labels of a call that looks for its own package, of one that looks  *)
(* for a manifest, of the loop over the dependencies, and the others.      *)
Early == {"start", "look", "read", "have", "mark"}
Slug  == {"slug", "held", "get", "parse", "keep", "saving"}
Loop  == {"deps", "create", "join"}
Rest  == {"idle", "done", "free", "freed"}

Items(s) == {s[k] : k \in DOMAIN s}

HeldBy(t) == Items(th[t].batch)

(* The fields of a call that matter here, and how they fit together.       *)
Fields(r) ==
    /\ "at" \in DOMAIN r /\ "pkg" \in DOMAIN r /\ "file" \in DOMAIN r
    /\ "phase" \in DOMAIN r /\ "todo" \in DOMAIN r /\ "batch" \in DOMAIN r

Typed(r) ==
    /\ r.at \in Early \cup Slug \cup Loop \cup Rest
    /\ r.pkg \in Packages /\ r.file \in {1, 2}
    /\ r.phase \in {"own", "deps", "dev"}
    /\ r.todo \in Seq(Packages)
    /\ r.batch \in Seq((Threads \ {Main}) \cup {Nobody})

Fitting(r) ==
    /\ r.at \in Early \cup Rest => r.phase = "own"
    /\ r.at \in Loop => r.phase # "own"
    /\ r.phase = "own" => r.batch = <<>>
    /\ r.phase # "own" /\ r.at \in Slug \cup {"create"} => r.todo # <<>>

Good(r) == Fields(r) /\ Typed(r) /\ Fitting(r)

(* The packages that have been noted.                                      *)
Done == {b[2] : b \in built}

Formed ==
    /\ th = [t \in Threads |-> th[t]]
    /\ \A t \in Threads : Good(th[t])
    /\ args \in Seq(Packages) /\ asked \in Invocations
    /\ Done \subseteq Packages

(* A thread that is not there has no traces of an earlier one.             *)
Gone == \A u \in Threads \ {Main} : th[u].at = "idle" => th[u] = NoCall

Owned ==
    \A u \in Threads \ {Main} :
        th[u].at = "idle" \/ u \in forsaken \/ \E t \in Threads : u \in HeldBy(t)

(* In every set of threads is one that no other of the set waits for.      *)
NoRing ==
    \A S \in SUBSET Threads :
        S # {} => \E u \in S : \A t \in S : u \notin HeldBy(t)

(* No argument is left when the packages are freed.                        *)
Spent == th[Main].at \in {"free", "freed"} => args = <<>>

Ended ==
    code # "running" => args = <<>> /\ \A t \in Threads : th[t].at = "idle"

Pardoned == forsaken # {} => mishap

(* The packages a thread is going to look after.                           *)
Coming(r) ==
    IF r.at \in Rest THEN {}
    ELSE IF r.phase = "own" THEN {r.pkg}
    ELSE Items(r.todo) \cup (IF r.phase = "deps" /\ asked.dev
                             THEN Items(Devs[r.pkg]) ELSE {})

Attended == Done \cup UNION {Coming(th[t]) : t \in Threads}

Left ==
    Items(args) \cup
        (IF th[Main].at = "idle" /\ args = <<>> /\ code = "running"
         THEN {Root} ELSE {})

NeededBy(p) ==
    Items(Deps[p]) \cup (IF asked.dev THEN Items(Devs[p]) ELSE {})

Covered ==
    code \in {"running", "ok"} /\ ~mishap =>
        /\ \A p \in Done : NeededBy(p) \subseteq Attended
        /\ Wanted \subseteq Attended \cup Left

AwaitInv ==
    /\ Formed /\ Gone /\ Owned /\ NoRing
    /\ Spent /\ Ended /\ Pardoned /\ Covered

-----------------------------------------------------------------------------
(* A thread that is not there is idle and has no batch.                    *)
LEMMA NoCallIsGood ==
    /\ Good(NoCall) /\ NoCall.at = "idle" /\ NoCall.batch = <<>>
    /\ Coming(NoCall) = {}
<1>1. /\ Fields(NoCall) /\ NoCall.at = "idle" /\ NoCall.batch = <<>>
      /\ NoCall.pkg = Root /\ NoCall.file = 1 /\ NoCall.phase = "own"
      /\ NoCall.todo = <<>>
  BY DEF Fields, NoCall
<1>2. Root \in Packages
  BY PackagesAssumption
<1> HIDE DEF NoCall
<1>3. Good(NoCall)
  BY <1>1, <1>2 DEF Good, Typed, Fitting, Early, Rest, Slug, Loop
<1>4. Coming(NoCall) = {}
  BY <1>1 DEF Coming, Rest
<1> QED
  BY <1>1, <1>3, <1>4

(* A call that begins looks for its own package.                           *)
LEMMA NewCallIsGood ==
    ASSUME NEW p \in Packages, NEW place, NEW label \in Early
    PROVE  /\ Good(Call(p, place, label)) /\ Call(p, place, label).at = label
           /\ Call(p, place, label).batch = <<>>
           /\ Coming(Call(p, place, label)) = {p}
<1> DEFINE c == Call(p, place, label)
<1>1. /\ Fields(c) /\ c.at = label /\ c.batch = <<>> /\ c.pkg = p
      /\ c.file = 1 /\ c.phase = "own" /\ c.todo = <<>>
  BY DEF Fields, NoCall, Call
<1> HIDE DEF c
<1>2. Good(c)
  BY <1>1 DEF Good, Typed, Fitting, Early, Rest, Slug, Loop
<1>3. Coming(c) = {p}
  BY <1>1 DEF Coming, Early, Rest
<1> QED
  BY <1>1, <1>2, <1>3 DEF c

(* What a step of one thread does to the threads.                          *)
LEMMA BecomeIs ==
    ASSUME Formed, NEW t \in Threads, NEW r, Become(t, r)
    PROVE  /\ th' = [u \in Threads |-> th'[u]] /\ th'[t] = r
           /\ \A u \in Threads \ {t} : th'[u] = th[u]
  BY DEF Become, Formed

(* The threads wait for each other as before.                              *)
LEMMA StepWaits ==
    ASSUME AwaitInv, NEW t \in Threads, NEW r, Good(r), Become(t, r),
           r.batch = th[t].batch,
           t # Main => th[t].at # "idle" /\ r.at # "idle",
           code = "running", UNCHANGED <<asked, code, forsaken>>,
           mishap => mishap',
           args' \in Seq(Packages), t # Main => args' = args,
           t = Main /\ r.at \in {"free", "freed"} => args' = <<>>,
           Done' \subseteq Packages
    PROVE  /\ Formed' /\ Gone' /\ Owned' /\ NoRing'
           /\ Spent' /\ Ended' /\ Pardoned'
<1>1. /\ th' = [u \in Threads |-> th'[u]] /\ th'[t] = r
      /\ \A u \in Threads \ {t} : th'[u] = th[u]
  BY BecomeIs DEF AwaitInv
<1>2. Formed'
  BY <1>1 DEF AwaitInv, Formed
<1>3. Gone'
  BY <1>1 DEF AwaitInv, Gone
<1>4. \A u \in Threads : HeldBy(u)' = HeldBy(u)
  BY <1>1 DEF HeldBy
<1>5. Owned'
  BY <1>1, <1>4 DEF AwaitInv, Owned
<1>6. NoRing'
  BY <1>4 DEF AwaitInv, NoRing
<1>7. Spent'
  BY <1>1, ThreadsAre DEF AwaitInv, Spent
<1>8. Ended' /\ Pardoned'
  BY DEF AwaitInv, Ended, Pardoned
<1> QED
  BY <1>2, <1>3, <1>5, <1>6, <1>7, <1>8

(* What a call comes to does not depend on the step, only on the command   *)
(* line.                                                                   *)
LEMMA ComingNext ==
    ASSUME asked' = asked
    PROVE  /\ Attended' = Done' \cup UNION {Coming(th'[u]) : u \in Threads}
           /\ \A p : NeededBy(p)' = NeededBy(p)
           /\ Wanted' = Wanted
<1>1. Attended' = Done' \cup UNION {Coming(th'[u]) : u \in Threads}
  BY DEF Attended, Coming
<1>2. \A p : NeededBy(p)' = NeededBy(p)
  BY DEF NeededBy
<1>3. Wanted' = Wanted
  BY DEF Wanted
<1> QED
  BY <1>1, <1>2, <1>3

(* Nothing that is needed is lost from sight.                              *)
LEMMA StillCovered ==
    ASSUME Covered, code = "running", asked' = asked,
           mishap => mishap', Done \subseteq Done',
           ~mishap' => Attended \subseteq Attended',
           ~mishap' => \A p \in Done' \ Done : NeededBy(p) \subseteq Attended',
           ~mishap' => Left \subseteq Left' \cup Attended'
    PROVE  Covered'
<1> SUFFICES ASSUME ~mishap'
             PROVE  /\ \A p \in Done' : NeededBy(p) \subseteq Attended'
                    /\ Wanted \subseteq Attended' \cup Left'
  BY ComingNext DEF Covered
<1>1. ~mishap
  OBVIOUS
<1> QED
  BY <1>1 DEF Covered

(* A step of one thread keeps the invariant if the thread goes on with     *)
(* what it was to look after, or that has been noted.                      *)
LEMMA Stepped ==
    ASSUME AwaitInv, NEW t \in Threads, NEW r, Good(r), Become(t, r),
           r.batch = th[t].batch,
           t # Main => th[t].at # "idle" /\ r.at # "idle",
           code = "running", UNCHANGED <<asked, code, forsaken>>,
           mishap => mishap',
           args' \in Seq(Packages), t # Main => args' = args,
           t = Main /\ r.at \in {"free", "freed"} => args' = <<>>,
           Done \subseteq Done', Done' \subseteq Packages,
           ~mishap' => Coming(th[t]) \subseteq Coming(r) \cup Done',
           ~mishap' => \A p \in Done' \ Done :
                          NeededBy(p) \subseteq Coming(r) \cup Done',
           ~mishap' => Left \subseteq Left' \cup Coming(r)
    PROVE  AwaitInv'
<1>1. /\ Formed' /\ Gone' /\ Owned' /\ NoRing'
      /\ Spent' /\ Ended' /\ Pardoned'
  BY StepWaits
<1>2. /\ th'[t] = r
      /\ \A u \in Threads \ {t} : th'[u] = th[u]
  BY BecomeIs DEF AwaitInv
<1>3. Attended' = Done' \cup UNION {Coming(th'[u]) : u \in Threads}
  BY ComingNext
<1>4. Coming(r) \subseteq Attended'
  BY <1>2, <1>3
<1>5. ASSUME ~mishap' PROVE Attended \subseteq Attended'
  <2>1. ASSUME NEW u \in Threads PROVE Coming(th[u]) \subseteq Attended'
    <3>1. CASE u = t
      BY <1>3, <1>4, <1>5, <3>1
    <3>2. CASE u # t
      BY <1>2, <1>3, <3>2
    <3> QED
      BY <3>1, <3>2
  <2> QED
    BY <1>3, <2>1 DEF Attended
<1>6. Done' \subseteq Attended'
  BY <1>3
<1>7. Covered'
  BY <1>4, <1>5, <1>6, StillCovered DEF AwaitInv
<1> QED
  BY <1>1, <1>7 DEF AwaitInv

(* Only the label of a call is new.                                        *)
Same(r, q) ==
    /\ Fields(r) /\ r.pkg = q.pkg /\ r.file = q.file /\ r.phase = q.phase
    /\ r.todo = q.todo /\ r.batch = q.batch

(* A step from label to label, in a call that goes on.                     *)
LEMMA Onward ==
    ASSUME AwaitInv, NEW t \in Threads, NEW r, Become(t, r),
           Same(r, th[t]), Fitting(r), th[t].at \notin Rest,
           r.at \in Early \cup Slug \cup Loop,
           UNCHANGED <<mainVars, built, forsaken>>, mishap => mishap'
    PROVE  AwaitInv'
<1>1. Good(th[t])
  BY DEF AwaitInv, Formed
<1>2. Good(r) /\ r.batch = th[t].batch
  BY <1>1 DEF Good, Typed, Same
<1>3. r.at \notin Rest
  BY DEF Early, Slug, Loop, Rest
<1>4. Coming(r) = Coming(th[t])
  BY <1>3 DEF Coming, Same
<1>5. code = "running"
  BY DEF AwaitInv, Ended, Rest
<1>6. th[t].at # "idle" /\ r.at \notin {"idle", "free", "freed"}
  BY <1>3 DEF Rest
<1>7. Left' = Left
  <2>1. (th'[Main].at = "idle") <=> (th[Main].at = "idle")
    BY <1>6, ThreadsAre, BecomeIs DEF AwaitInv
  <2> QED
    BY <2>1 DEF Left, mainVars
<1>8. Done' = Done
  BY DEF Done
<1>9. Done \subseteq Packages /\ args \in Seq(Packages)
  BY DEF AwaitInv, Formed
<1> QED
  BY <1>2, <1>4, <1>5, <1>6, <1>7, <1>8, <1>9, Stepped DEF mainVars

(* A label that suits the call.                                            *)
Suits(label, q) ==
    /\ label \in Early \cup Slug \cup Loop
    /\ label \in Early => q.phase = "own"
    /\ label \in Loop => q.phase # "own"
    /\ q.phase # "own" /\ label \in Slug \cup {"create"} => q.todo # <<>>

(* A record with another label fits together if the label suits the call.  *)
LEMMA SameFits ==
    ASSUME NEW q, Good(q), NEW r, Same(r, q), Suits(r.at, q)
    PROVE  Fitting(r)
  BY DEF Good, Fitting, Same, Suits, Early, Slug, Loop, Rest

(* A step from label to label, as most actions are written.                *)
LEMMA GotoOnward ==
    ASSUME AwaitInv, NEW t \in Threads, NEW label, Goto(t, label),
           Suits(label, th[t]), th[t].at \notin Rest,
           UNCHANGED <<mainVars, built, forsaken>>, mishap => mishap'
    PROVE  AwaitInv'
<1> DEFINE r == [th[t] EXCEPT !.at = label]
<1>1. Good(th[t]) /\ Become(t, r)
  BY DEF AwaitInv, Formed, Goto
<1>2. Same(r, th[t]) /\ r.at = label
  BY <1>1, Zenon DEF Good, Fields, Same
<1> HIDE DEF r
<1>3. Fitting(r) /\ r.at \in Early \cup Slug \cup Loop
  BY <1>1, <1>2, SameFits DEF Suits
<1> QED
  BY <1>1, <1>2, <1>3, Onward

(* The request for a manifest: its own, or that of the next dependency.    *)
LEMMA AskOnward ==
    ASSUME AwaitInv, NEW t \in Threads, AskFor(t, th[t]),
           th[t].phase # "own" => th[t].todo # <<>>, th[t].at \notin Rest,
           UNCHANGED <<mainVars, built, forsaken>>, mishap => mishap'
    PROVE  AwaitInv'
<1> DEFINE r == [th[t] EXCEPT !.at = "slug", !.tries = Retries, !.names = 1]
<1>1. Good(th[t]) /\ Become(t, r)
  BY DEF AwaitInv, Formed, AskFor
<1>2. Same(r, th[t]) /\ r.at = "slug"
  BY <1>1, Zenon DEF Good, Fields, Same
<1> HIDE DEF r
<1>3. Suits("slug", th[t]) /\ "slug" \in Slug
  BY DEF Suits, Early, Slug, Loop
<1>4. Fitting(r) /\ r.at \in Early \cup Slug \cup Loop
  BY <1>1, <1>2, <1>3, SameFits
<1> QED
  BY <1>1, <1>2, <1>4, Onward

(* Of an early call, what it looks for is its own package.                 *)
LEMMA EarlySuits ==
    ASSUME AwaitInv, NEW t \in Threads, th[t].at \in Early
    PROVE  /\ th[t].phase = "own" /\ th[t].at \notin Rest
           /\ Coming(th[t]) = {th[t].pkg} /\ th[t].pkg \in Packages
           /\ th[t].batch = <<>> /\ code = "running" /\ th[t].at # "idle"
           /\ \A label \in Early \cup Slug : Suits(label, th[t])
<1>1. Good(th[t])
  BY DEF AwaitInv, Formed
<1>2. th[t].at \notin Rest /\ th[t].at # "idle"
  BY DEF Early, Rest
<1>3. th[t].phase = "own"
  BY <1>1 DEF Good, Fitting
<1>4. code = "running"
  BY <1>2 DEF AwaitInv, Ended
<1>5. \A label \in Early \cup Slug : Suits(label, th[t])
  BY <1>3 DEF Suits, Early, Slug, Loop
<1> QED
  BY <1>1, <1>2, <1>3, <1>4, <1>5 DEF Good, Typed, Fitting, Coming

(* While a manifest is looked for any label of the lookup suits the call.  *)
LEMMA SlugSuits ==
    ASSUME AwaitInv, NEW t \in Threads, th[t].at \in Slug
    PROVE  /\ th[t].at \notin Rest
           /\ \A label \in Slug : Suits(label, th[t])
           /\ th[t].phase = "own" => Suits("have", th[t])
           /\ th[t].phase # "own" => Suits("create", th[t])
<1>1. Good(th[t])
  BY DEF AwaitInv, Formed
<1>2. th[t].at \notin Rest
  BY DEF Slug, Rest
<1>3. th[t].phase # "own" => th[t].todo # <<>>
  BY <1>1 DEF Good, Fitting
<1>4. \A label \in Slug : Suits(label, th[t])
  BY <1>3 DEF Suits, Early, Slug, Loop
<1>5. th[t].phase = "own" => Suits("have", th[t])
  BY DEF Suits, Early, Slug, Loop
<1>6. th[t].phase # "own" => Suits("create", th[t])
  BY <1>3 DEF Suits, Early, Slug, Loop
<1> QED
  BY <1>2, <1>4, <1>5, <1>6

(* In the loop over the dependencies.                                      *)
LEMMA LoopSuits ==
    ASSUME AwaitInv, NEW t \in Threads, th[t].at \in Loop
    PROVE  /\ th[t].at \notin Rest /\ th[t].at # "idle"
           /\ th[t].phase # "own" /\ code = "running"
           /\ \A label \in {"deps", "join"} : Suits(label, th[t])
<1>1. Good(th[t])
  BY DEF AwaitInv, Formed
<1>2. th[t].at \notin Rest /\ th[t].at # "idle" /\ th[t].phase # "own"
  BY <1>1 DEF Loop, Rest, Good, Fitting
<1>3. \A label \in {"deps", "join"} : Suits(label, th[t])
  BY <1>2 DEF Suits, Early, Slug, Loop
<1> QED
  BY <1>2, <1>3 DEF AwaitInv, Ended

-----------------------------------------------------------------------------
(* The lookup of a package, of a manifest and the makefile.                *)
LEMMA SlugAwaits ==
    ASSUME AwaitInv, NEW t \in Threads, SlugStep(t)
    PROVE  AwaitInv'
<1> USE DEF mainVars, pastVars
<1>1. ASSUME NEW label \in Slug, Goto(t, label), th[t].at \in Slug,
             UNCHANGED <<mainVars, built, pastVars>>
      PROVE  AwaitInv'
  BY <1>1, SlugSuits, GotoOnward
<1>2. {"slug", "held", "get", "parse", "keep", "saving"} = Slug
  BY DEF Slug
<1>3. CASE Lock(t)
  BY <1>1, <1>2, <1>3 DEF Lock, At
<1>4. CASE Cached(t)
  BY <1>1, <1>2, <1>4 DEF Cached, At
<1>5. CASE NotCached(t)
  BY <1>1, <1>2, <1>5 DEF NotCached, At
<1>6. CASE Fetched(t)
  BY <1>1, <1>2, <1>6 DEF Fetched, At
<1>7. CASE NotFetched(t)
  <2> DEFINE r == [th[t] EXCEPT !.tries = th[t].tries - 1]
  <2>1. Good(th[t]) /\ Become(t, r) /\ th[t].at \in Slug
    BY <1>2, <1>7 DEF AwaitInv, Formed, NotFetched, At
  <2>2. Same(r, th[t]) /\ r.at = th[t].at
    BY <2>1, Zenon DEF Good, Fields, Same
  <2> HIDE DEF r
  <2>3. Suits(r.at, th[t]) /\ th[t].at \notin Rest
    BY <2>1, <2>2, SlugSuits
  <2>4. Fitting(r)
    BY <2>1, <2>2, <2>3, SameFits
  <2> QED
    BY <1>7, <2>1, <2>2, <2>3, <2>4, Onward DEF NotFetched
<1>8. CASE Parsed(t)
  BY <1>1, <1>2, <1>8 DEF Parsed, At
<1>9. CASE NextName(t)
  <2> DEFINE r == [th[t] EXCEPT !.at = "slug", !.tries = Retries,
                                !.names = th[t].names - 1]
  <2>1. Good(th[t]) /\ Become(t, r) /\ th[t].at \in Slug
    BY <1>2, <1>9 DEF AwaitInv, Formed, NextName, NoAnswer, At
  <2>2. Same(r, th[t]) /\ r.at = "slug"
    BY <2>1, Zenon DEF Good, Fields, Same
  <2> HIDE DEF r
  <2>3. Suits(r.at, th[t]) /\ th[t].at \notin Rest
    BY <1>2, <2>1, <2>2, SlugSuits
  <2>4. Fitting(r) /\ r.at \in Slug
    BY <1>2, <2>1, <2>2, <2>3, SameFits
  <2> QED
    BY <1>9, <2>1, <2>2, <2>3, <2>4, Onward DEF NextName
<1>10. CASE LockAgain(t)
  BY <1>1, <1>2, <1>10 DEF LockAgain, At
<1>11. CASE Saved(t)
  <2> DEFINE label == IF th[t].phase = "own" THEN "have" ELSE "create"
  <2>1. Goto(t, label) /\ th[t].at \in Slug
    BY <1>2, <1>11 DEF Saved, At
  <2>2. Suits(label, th[t]) /\ th[t].at \notin Rest
    BY <2>1, SlugSuits
  <2> HIDE DEF label
  <2> QED
    BY <1>11, <2>1, <2>2, GotoOnward DEF Saved
<1> QED
  BY <1>3, <1>4, <1>5, <1>6, <1>7, <1>8, <1>9, <1>10, <1>11 DEF SlugStep

(* A call that has a result is done, or goes on with the other name; its   *)
(* batch is empty, or forsaken.                                            *)
LEMMA ResultIs ==
    ASSUME NEW t, Good(th[t]), NEW rc, Result(t, rc)
    PROVE  \E r : /\ Become(t, r) /\ Good(r) /\ r.batch = <<>>
                  /\ r.pkg = th[t].pkg
                  /\ IF rc # 0 /\ th[t].file = 1
                     THEN r.at = "look" ELSE r.at = "done"
                  /\ Coming(r) = IF r.at = "look" THEN {th[t].pkg} ELSE {}
<1> DEFINE again == rc # 0 /\ th[t].file = 1
           a == IF again THEN "look" ELSE "done"
           f == IF again THEN 2 ELSE th[t].file
           r == [th[t] EXCEPT !.at = a, !.file = f, !.phase = "own",
                              !.todo = <<>>, !.batch = <<>>, !.rc = rc]
<1>1. Become(t, r)
  BY DEF Result
<1>2. a = (IF rc # 0 /\ th[t].file = 1 THEN "look" ELSE "done")
  OBVIOUS
<1>3. f \in {1, 2}
  BY DEF Good, Typed
<1> HIDE DEF a, f
<1>4. Fields(r)
  BY Zenon DEF Good, Fields
<1>5. /\ r.at = a /\ r.file = f /\ r.phase = "own" /\ r.todo = <<>>
      /\ r.batch = <<>> /\ r.pkg = th[t].pkg
  BY Zenon DEF Good, Fields
<1> HIDE DEF r
<1>6. Good(r)
  BY <1>2, <1>3, <1>4, <1>5 DEF Good, Typed, Fitting, Early, Slug, Loop, Rest
<1>7. Coming(r) = IF r.at = "look" THEN {th[t].pkg} ELSE {}
  BY <1>2, <1>5 DEF Coming, Rest
<1> QED
  BY <1>1, <1>2, <1>5, <1>6, <1>7

(* What main has left to do changes only with its own call.                *)
LEMMA LeftStays ==
    ASSUME Formed, NEW t \in Threads, NEW r, Become(t, r),
           th[t].at # "idle", r.at # "idle", UNCHANGED mainVars
    PROVE  Left' = Left
<1>1. (th'[Main].at = "idle") <=> (th[Main].at = "idle")
  BY ThreadsAre, BecomeIs
<1> QED
  BY <1>1 DEF Left, mainVars

(* A call with an empty batch has a result, and with it its package has    *)
(* been noted, or will be with the other name.                             *)
LEMMA ResultAwaits ==
    ASSUME AwaitInv, NEW t \in Threads, NEW rc, Result(t, rc),
           th[t].batch = <<>>, th[t].at \notin Rest,
           UNCHANGED <<mainVars, built, forsaken>>, mishap => mishap',
           \/ mishap'
           \/ Coming(th[t]) \subseteq Done
           \/ Coming(th[t]) = {th[t].pkg} /\ rc # 0 /\ th[t].file = 1
    PROVE  AwaitInv'
<1>1. Good(th[t]) /\ Formed
  BY DEF AwaitInv, Formed
<1>2. PICK r : /\ Become(t, r) /\ Good(r) /\ r.batch = <<>>
               /\ IF rc # 0 /\ th[t].file = 1
                  THEN r.at = "look" ELSE r.at = "done"
               /\ Coming(r) = IF r.at = "look" THEN {th[t].pkg} ELSE {}
  BY <1>1, ResultIs
<1>3. th[t].at # "idle" /\ r.at \notin {"idle", "free", "freed"}
  BY <1>2 DEF Rest
<1>4. code = "running"
  BY <1>3 DEF AwaitInv, Ended
<1>5. Left' = Left
  BY <1>1, <1>2, <1>3, LeftStays
<1>6. Done' = Done
  BY DEF Done
<1>7. Done \subseteq Packages /\ args \in Seq(Packages)
  BY <1>1 DEF Formed
<1>8. ~mishap' => Coming(th[t]) \subseteq Coming(r) \cup Done'
  BY <1>2, <1>6
<1> QED
  BY <1>2, <1>3, <1>4, <1>5, <1>6, <1>7, <1>8, Stepped DEF mainVars

(* A package is noted and what it needs is the thread's to look after.     *)
LEMMA MarkedAwaits ==
    ASSUME AwaitInv, NEW t \in Threads, Marked(t), th[t].at \in Early
    PROVE  AwaitInv'
<1> DEFINE p == th[t].pkg
           deps == Deps[p]
           r == [th[t] EXCEPT !.at = "deps", !.phase = "deps", !.rc = 0,
                              !.todo = deps]
<1>1. Good(th[t]) /\ Formed
  BY DEF AwaitInv, Formed
<1>2. /\ p \in Packages /\ Coming(th[t]) = {p} /\ th[t].batch = <<>>
      /\ code = "running" /\ th[t].at # "idle"
  BY EarlySuits
<1>3. deps \in Seq(Packages)
  BY <1>2, PackagesAssumption
<1>4. Become(t, r)
  BY DEF Marked
<1>5. UNCHANGED <<asked, args, code, forsaken, mishap>>
  BY DEF Marked, mainVars, pastVars
<1>6. Done' = Done \cup {p}
  <2> DEFINE key == Key(t)
  <2>1. key[2] = p
    BY DEF Key
  <2>2. built' = built \cup {key}
    BY DEF Marked
  <2> HIDE DEF key, p
  <2> QED
    BY <2>1, <2>2 DEF Done
<1> HIDE DEF deps
<1>7. /\ Fields(r) /\ r.at = "deps" /\ r.phase = "deps" /\ r.todo = deps
      /\ r.batch = th[t].batch /\ r.pkg = p /\ r.file = th[t].file
  BY <1>1, Zenon DEF Good, Fields
<1> HIDE DEF r
<1>8. Good(r)
  <2>1. Typed(r)
    BY <1>1, <1>3, <1>7 DEF Good, Typed, Loop
  <2>2. Fitting(r)
    BY <1>7 DEF Fitting, Early, Slug, Rest
  <2> QED
    BY <1>7, <2>1, <2>2 DEF Good
<1>9. Coming(r) = NeededBy(p)
  BY <1>7 DEF Coming, NeededBy, Rest, deps
<1>10. Left' = Left
  BY <1>1, <1>2, <1>4, <1>5, <1>7, LeftStays DEF mainVars
<1>11. Done \subseteq Packages /\ args \in Seq(Packages)
  BY <1>1 DEF Formed
<1>12. \A q \in Done' \ Done : NeededBy(q) \subseteq Coming(r) \cup Done'
  BY <1>6, <1>9
<1>13. r.at \notin {"idle", "free", "freed"}
  BY <1>7
<1> HIDE DEF p
<1> QED
  BY <1>2, <1>4, <1>5, <1>6, <1>7, <1>8, <1>10, <1>11, <1>12, <1>13, Stepped

(* All threads end at once, when the program has crashed or when there is  *)
(* nothing left.                                                           *)
LEMMA EndAwaits ==
    ASSUME AwaitInv, NEW status, End(status),
           status \in {"ok", "failed", "crashed"},
           status = "ok" /\ ~mishap => /\ code = "running"
                                      /\ Attended \subseteq Done /\ Left = {}
    PROVE  AwaitInv'
<1>1. \A t \in Threads : th'[t] = NoCall
  BY DEF End
<1>2. Formed'
  BY <1>1, NoCallIsGood DEF AwaitInv, Formed, End, Done
<1>3. Gone' /\ Owned' /\ Ended' /\ Spent' /\ Pardoned'
  BY <1>1, NoCallIsGood, ThreadsAre DEF End, Gone, Owned, Ended, Spent, Pardoned
<1>4. NoRing'
  <2>1. \A t \in Threads : HeldBy(t)' = {}
    BY <1>1, NoCallIsGood DEF HeldBy, Items
  <2> QED
    BY <2>1 DEF NoRing
<1>5. Covered'
  <2>1. CASE status = "ok" /\ ~mishap
    <3>1. \A p \in Done : NeededBy(p) \subseteq Done
      BY <2>1 DEF AwaitInv, Covered
    <3>2. Wanted \subseteq Done
      BY <2>1 DEF AwaitInv, Covered
    <3>3. Done' = Done
      BY DEF End, Done
    <3>4. Done' \subseteq Attended'
      BY DEF Attended
    <3>5. asked' = asked
      BY DEF End
    <3> QED
      BY <3>1, <3>2, <3>3, <3>4, <3>5, ComingNext DEF Covered
  <2>2. CASE ~ (status = "ok" /\ ~mishap)
    BY <2>2 DEF Covered, End
  <2> QED
    BY <2>1, <2>2
<1> QED
  BY <1>2, <1>3, <1>4, <1>5 DEF AwaitInv

-----------------------------------------------------------------------------
(* What Append adds to the items of a sequence.                            *)
LEMMA ItemsAppend ==
    ASSUME NEW S, NEW s \in Seq(S), NEW e
    PROVE  Items(Append(s, e)) = Items(s) \cup {e}
<1>1. /\ DOMAIN s = 1..Len(s) /\ Len(s) \in Nat
      /\ DOMAIN Append(s, e) = 1..(Len(s) + 1)
      /\ Append(s, e)[Len(s) + 1] = e
      /\ \A k \in 1..Len(s) : Append(s, e)[k] = s[k]
  OBVIOUS
<1>2. 1..(Len(s) + 1) = (1..Len(s)) \cup {Len(s) + 1}
  BY <1>1
<1> QED
  BY <1>1, <1>2 DEF Items

(* The items of a sequence are its head and those of its tail.             *)
LEMMA ItemsOf ==
    ASSUME NEW S, NEW s \in Seq(S), s # <<>>
    PROVE  /\ Head(s) \in S /\ Tail(s) \in Seq(S)
           /\ Items(s) = {Head(s)} \cup Items(Tail(s))
<1>1. /\ DOMAIN s = 1..Len(s) /\ Len(s) \in Nat /\ Len(s) > 0
      /\ Head(s) = s[1] /\ Tail(s) \in Seq(S) /\ s[1] \in S
      /\ DOMAIN Tail(s) = 1..(Len(s) - 1)
      /\ \A k \in 1..(Len(s) - 1) : Tail(s)[k] = s[k + 1]
  OBVIOUS
<1>2. Items(s) \subseteq {Head(s)} \cup Items(Tail(s))
  <2>1. ASSUME NEW k \in 1..Len(s), k # 1
        PROVE  \E j \in 1..(Len(s) - 1) : s[k] = Tail(s)[j]
    <3>1. k - 1 \in 1..(Len(s) - 1) /\ (k - 1) + 1 = k
      BY <1>1, <2>1
    <3>2. s[k] = Tail(s)[k - 1]
      BY <1>1, <3>1
    <3> QED
      BY <3>1, <3>2
  <2>2. \A k \in DOMAIN s : s[k] \in {Head(s)} \cup Items(Tail(s))
    BY <1>1, <2>1 DEF Items
  <2> QED
    BY <2>2 DEF Items
<1>3. {Head(s)} \cup Items(Tail(s)) \subseteq Items(s)
  BY <1>1 DEF Items
<1> QED
  BY <1>1, <1>2, <1>3

(* The call that has started a thread has it in its batch and one package  *)
(* less to do.                                                             *)
LEMMA StartedIs ==
    ASSUME NEW t, Good(th[t]), th[t].at = "create",
           NEW u \in (Threads \ {Main}) \cup {Nobody}, NEW rc
    PROVE  LET s == Started(t, u, rc)
           IN  /\ Good(s) /\ s.at \in {"deps", "join"}
               /\ Items(s.batch) = HeldBy(t) \cup {u}
               /\ Head(th[t].todo) \in Packages
               /\ Coming(th[t]) = Coming(s) \cup {Head(th[t].todo)}
<1> DEFINE batch == Append(th[t].batch, u)
           label == IF Len(batch) >= Concurrency THEN "join" ELSE "deps"
           rest == Tail(th[t].todo)
           s == [th[t] EXCEPT !.at = label, !.todo = rest, !.batch = batch,
                              !.rc = rc]
<1>1. Started(t, u, rc) = s
  BY DEF Started
<1>2. label \in {"deps", "join"}
  OBVIOUS
<1>3. /\ th[t].phase # "own" /\ th[t].todo # <<>> /\ th[t].todo \in Seq(Packages)
      /\ th[t].batch \in Seq((Threads \ {Main}) \cup {Nobody})
  BY DEF Good, Typed, Fitting, Loop
<1>4. /\ rest \in Seq(Packages) /\ Head(th[t].todo) \in Packages
      /\ Items(th[t].todo) = {Head(th[t].todo)} \cup Items(rest)
  BY <1>3, ItemsOf
<1>5. batch \in Seq((Threads \ {Main}) \cup {Nobody})
  BY <1>3
<1>6. Items(batch) = HeldBy(t) \cup {u}
  BY <1>3, ItemsAppend DEF HeldBy
<1> HIDE DEF label, rest, batch
<1>7. Fields(s)
  BY Zenon DEF Good, Fields
<1>8. /\ s.at = label /\ s.phase = th[t].phase /\ s.todo = rest
      /\ s.batch = batch /\ s.pkg = th[t].pkg /\ s.file = th[t].file
  BY Zenon DEF Good, Fields
<1> HIDE DEF s
<1>9. Typed(s)
  BY <1>2, <1>4, <1>5, <1>8 DEF Good, Typed, Loop
<1>10. Fitting(s)
  BY <1>2, <1>3, <1>8 DEF Fitting, Early, Slug, Rest
<1>11. Coming(th[t]) = Coming(s) \cup {Head(th[t].todo)}
  BY <1>2, <1>3, <1>4, <1>8 DEF Coming, Rest
<1> QED
  BY <1>1, <1>2, <1>4, <1>6, <1>7, <1>8, <1>9, <1>10, <1>11 DEF Good

(* Threads that end, or are waited for no more because they are forsaken.  *)
LEMMA FewerWaits ==
    ASSUME AwaitInv, code = "running", UNCHANGED <<asked, args, code, built>>,
           mishap => mishap', forsaken \subseteq forsaken',
           forsaken' # {} => mishap',
           th' = [w \in Threads |-> th'[w]],
           \A w \in Threads : Good(th'[w]),
           \A w, x \in Threads : x \in HeldBy(w)' => x \in HeldBy(w),
           \A w \in Threads \ {Main} :
              \/ th'[w] = NoCall
              \/ /\ th[w].at # "idle" /\ th'[w].at # "idle"
                 /\ \/ w \in forsaken'
                    \/ \A x \in Threads : w \in HeldBy(x) => w \in HeldBy(x)',
           th'[Main].at \in {"free", "freed"} => th[Main].at \in {"free", "freed"}
    PROVE  /\ Formed' /\ Gone' /\ Owned' /\ NoRing'
           /\ Spent' /\ Ended' /\ Pardoned'
<1>1. Formed'
  BY DEF AwaitInv, Formed, Done
<1>2. Gone'
  BY NoCallIsGood DEF AwaitInv, Gone
<1>3. Owned'
  BY NoCallIsGood DEF AwaitInv, Owned
<1>4. NoRing'
  BY DEF AwaitInv, NoRing
<1>5. Spent' /\ Ended' /\ Pardoned'
  BY DEF AwaitInv, Spent, Ended, Pardoned
<1> QED
  BY <1>1, <1>2, <1>3, <1>4, <1>5

(* A thread that is started is waited for by its creator and looks after   *)
(* the package that was next.                                              *)
LEMMA CreateAwaits ==
    ASSUME AwaitInv, NEW t \in Threads, Create(t)
    PROVE  AwaitInv'
<1> DEFINE c == Call(Head(th[t].todo), "deps", "start")
<1>1. /\ Good(th[t]) /\ Formed /\ th[t].at = "create"
      /\ \A w \in Threads : Good(th[w])
  BY DEF AwaitInv, Formed, Create, At
<1>2. PICK u \in Unused : th' = [th EXCEPT ![t] = Started(t, u, 0), ![u] = c]
  BY UnusedIs DEF Create
<1> DEFINE s == Started(t, u, 0)
<1>3. th' = [th EXCEPT ![t] = s, ![u] = c]
  BY <1>2
<1>4. UNCHANGED <<asked, args, code, built, forsaken, mishap>>
  BY DEF Create, mainVars, pastVars
<1> HIDE DEF s, c
<1>5. u \in Threads \ {Main} /\ th[u] = NoCall
  BY <1>2 DEF Unused
<1>6. u # t /\ th[u].at = "idle" /\ HeldBy(u) = {} /\ Coming(th[u]) = {}
  BY <1>1, <1>5, NoCallIsGood DEF HeldBy, Items
<1>7. /\ Good(s) /\ s.at \in {"deps", "join"}
      /\ Items(s.batch) = HeldBy(t) \cup {u}
      /\ Head(th[t].todo) \in Packages
      /\ Coming(th[t]) = Coming(s) \cup {Head(th[t].todo)}
  BY <1>1, <1>5, StartedIs DEF s
<1>8. /\ Good(c) /\ c.at = "start" /\ Items(c.batch) = {}
      /\ Coming(c) = {Head(th[t].todo)}
  BY <1>7, NewCallIsGood DEF c, Items, Early
<1>9. /\ th' = [w \in Threads |-> th'[w]] /\ th'[t] = s /\ th'[u] = c
      /\ \A w \in Threads \ {t, u} : th'[w] = th[w]
  BY <1>1, <1>3, <1>5, <1>6 DEF Formed
<1>10. /\ HeldBy(t)' = HeldBy(t) \cup {u} /\ HeldBy(u)' = {}
       /\ \A w \in Threads \ {t, u} : HeldBy(w)' = HeldBy(w)
  BY <1>7, <1>8, <1>9 DEF HeldBy
<1>11. code = "running"
  BY <1>1 DEF AwaitInv, Ended
<1>12. Formed'
  BY <1>1, <1>4, <1>7, <1>8, <1>9 DEF Formed, Done
<1>13. Gone'
  BY <1>7, <1>8, <1>9 DEF AwaitInv, Gone
<1>14. Owned'
  <2>1. ASSUME NEW w \in Threads \ {Main}, th'[w].at # "idle"
        PROVE  w \in forsaken' \/ \E x \in Threads : w \in HeldBy(x)'
    <3>1. CASE w = u
      BY <1>10, <3>1
    <3>2. CASE w # u
      <4>1. th[w].at # "idle"
        BY <1>1, <1>9, <2>1, <3>2
      <4>2. w \in forsaken \/ \E x \in Threads : w \in HeldBy(x)
        BY <4>1 DEF AwaitInv, Owned
      <4> QED
        BY <1>4, <1>6, <1>10, <4>2
    <3> QED
      BY <3>1, <3>2
  <2> QED
    BY <2>1 DEF Owned
<1>15. NoRing'
  <2>1. ASSUME NEW S \in SUBSET Threads, S # {}
        PROVE  \E v \in S : \A x \in S : v \notin HeldBy(x)'
    <3> DEFINE R == S \ {u}
    <3>1. CASE R = {}
      BY <1>10, <2>1, <3>1
    <3>2. CASE R # {}
      <4>1. PICK v \in R : \A x \in R : v \notin HeldBy(x)
        BY <3>2 DEF AwaitInv, NoRing
      <4>2. \A x \in S : v \notin HeldBy(x)'
        BY <1>10, <4>1
      <4> QED
        BY <4>1, <4>2
    <3> QED
      BY <3>1, <3>2
  <2> QED
    BY <2>1 DEF NoRing
<1>16. th'[Main].at \notin {"idle", "free", "freed"} \/ th'[Main] = th[Main]
  BY <1>5, <1>7, <1>9, ThreadsAre
<1>17. Spent' /\ Ended' /\ Pardoned'
  BY <1>4, <1>11, <1>16 DEF AwaitInv, Spent, Ended, Pardoned
<1>18. Covered'
  <2>1. Attended' = Done' \cup UNION {Coming(th'[w]) : w \in Threads}
    BY <1>4, ComingNext
  <2>2. Done' = Done
    BY <1>4 DEF Done
  <2>3. Coming(s) \subseteq Attended' /\ Coming(c) \subseteq Attended'
    BY <1>5, <1>9, <2>1
  <2>4. \A w \in Threads : Coming(th[w]) \subseteq Attended'
    BY <1>6, <1>7, <1>8, <1>9, <2>1, <2>3
  <2>5. Attended \subseteq Attended'
    BY <2>1, <2>2, <2>4 DEF Attended
  <2>6. Left' = Left
    <3>1. th'[Main].at = "idle" <=> th[Main].at = "idle"
      BY <1>1, <1>5, <1>7, <1>9, ThreadsAre
    <3> QED
      BY <1>4, <3>1 DEF Left
  <2> QED
    BY <1>4, <1>11, <2>2, <2>5, <2>6, StillCovered DEF AwaitInv
<1> QED
  BY <1>12, <1>13, <1>14, <1>15, <1>17, <1>18 DEF AwaitInv

(* A thread that could not be started leaves an empty slot.                *)
LEMMA CreateFailsAwaits ==
    ASSUME AwaitInv, NEW t \in Threads, CreateFails(t)
    PROVE  AwaitInv'
<1> DEFINE s == Started(t, Nobody, 1)
<1>1. /\ Good(th[t]) /\ Formed /\ th[t].at = "create"
      /\ \A w \in Threads : Good(th[w])
  BY DEF AwaitInv, Formed, CreateFails, At
<1>2. Become(t, s) /\ UNCHANGED <<asked, args, code, built, forsaken>> /\ mishap'
  BY DEF CreateFails, mainVars
<1>3. Good(s) /\ s.at \in {"deps", "join"} /\ Items(s.batch) = HeldBy(t) \cup {Nobody}
  BY <1>1, StartedIs
<1> HIDE DEF s
<1>4. /\ th' = [w \in Threads |-> th'[w]] /\ th'[t] = s
      /\ \A w \in Threads \ {t} : th'[w] = th[w]
  BY <1>1, <1>2, BecomeIs
<1>5. /\ HeldBy(t)' = HeldBy(t) \cup {Nobody}
      /\ \A w \in Threads \ {t} : HeldBy(w)' = HeldBy(w)
  BY <1>3, <1>4 DEF HeldBy
<1>6. code = "running"
  BY <1>1 DEF AwaitInv, Ended
<1>7. \A w, x \in Threads : x \in HeldBy(w)' => x \in HeldBy(w)
  BY <1>5, ThreadsAre
<1>8. \A w, x \in Threads : w \in HeldBy(x) => w \in HeldBy(x)'
  BY <1>5
<1>9. \A w \in Threads \ {Main} :
         th'[w] = NoCall \/ (th[w].at # "idle" /\ th'[w].at # "idle")
  BY <1>1, <1>3, <1>4 DEF AwaitInv, Gone
<1>10. th'[Main].at \in {"free", "freed"} => th[Main].at \in {"free", "freed"}
  BY <1>3, <1>4, ThreadsAre
<1>11. \A w \in Threads : Good(th'[w])
  BY <1>1, <1>3, <1>4
<1>12. /\ Formed' /\ Gone' /\ Owned' /\ NoRing'
       /\ Spent' /\ Ended' /\ Pardoned'
  BY <1>2, <1>4, <1>6, <1>7, <1>8, <1>9, <1>10, <1>11, FewerWaits
<1>13. Covered'
  BY <1>2 DEF Covered
<1> QED
  BY <1>12, <1>13 DEF AwaitInv

(* A thread is joined when it is done, and waits for nobody itself.        *)
LEMMA JoinAwaits ==
    ASSUME AwaitInv, NEW t \in Threads, Join(t)
    PROVE  AwaitInv'
<1>0. PICK u : u = Head(th[t].batch)
  OBVIOUS
<1> DEFINE others == Tail(th[t].batch)
           r == [th[t] EXCEPT !.batch = others]
<1>1. /\ Good(th[t]) /\ Formed /\ th[t].at = "join" /\ th[t].batch # <<>>
      /\ \A w \in Threads : Good(th[w])
  BY DEF AwaitInv, Formed, Join, At
<1>2. \/ u = Nobody /\ Become(t, r)
      \/ u # Nobody /\ At(u, "done") /\ th' = [th EXCEPT ![t] = r, ![u] = NoCall]
  BY <1>0 DEF Join
<1>3. UNCHANGED <<asked, args, code, built, forsaken, mishap>>
  BY DEF Join, mainVars, pastVars
<1>4. /\ u \in (Threads \ {Main}) \cup {Nobody}
      /\ others \in Seq((Threads \ {Main}) \cup {Nobody})
      /\ HeldBy(t) = {u} \cup Items(others)
  BY <1>0, <1>1, ItemsOf DEF Good, Typed, HeldBy
<1> HIDE DEF others
<1>5. Fields(r)
  BY <1>1, Zenon DEF Good, Fields
<1>6. /\ r.at = th[t].at /\ r.phase = th[t].phase /\ r.todo = th[t].todo
      /\ r.batch = others /\ r.pkg = th[t].pkg /\ r.file = th[t].file
  BY <1>1, Zenon DEF Good, Fields
<1> HIDE DEF r
<1>7. Good(r)
  <2>1. Typed(r)
    BY <1>1, <1>4, <1>6 DEF Good, Typed
  <2>2. Fitting(r)
    BY <1>1, <1>6 DEF Good, Fitting, Early, Slug, Loop, Rest
  <2> QED
    BY <1>5, <2>1, <2>2 DEF Good
<1>8. Coming(r) = Coming(th[t])
  BY <1>6 DEF Coming
<1>9. /\ th' = [w \in Threads |-> th'[w]] /\ th'[t] = r
      /\ \A w \in Threads \ {t, u} : th'[w] = th[w]
      /\ u # t
      /\ u \in Threads => th[u].at = "done" /\ th'[u] = NoCall
  <2>1. CASE u = Nobody /\ Become(t, r)
    BY <1>1, <2>1, BecomeIs, ThreadsAre
  <2>2. CASE u # Nobody /\ At(u, "done") /\ th' = [th EXCEPT ![t] = r, ![u] = NoCall]
    <3>1. u \in Threads /\ th[u].at = "done" /\ u # t
      BY <1>1, <1>4, <2>2 DEF At
    <3> QED
      BY <1>1, <2>2, <3>1 DEF Formed
  <2> QED
    BY <1>2, <2>1, <2>2
<1>10. u \in Threads => HeldBy(u) = {} /\ Coming(th[u]) = {}
  BY <1>1, <1>9 DEF Good, Fitting, HeldBy, Items, Coming, Rest
<1>11. u \in Threads => HeldBy(u)' = {}
  BY <1>9, NoCallIsGood DEF HeldBy, Items
<1>12. /\ HeldBy(t)' = Items(others)
       /\ \A w \in Threads \ {t, u} : HeldBy(w)' = HeldBy(w)
  BY <1>6, <1>9 DEF HeldBy
<1>13. code = "running"
  BY <1>1 DEF AwaitInv, Ended
<1>14. \A w, x \in Threads : x \in HeldBy(w)' => x \in HeldBy(w)
  BY <1>4, <1>11, <1>12
<1>15. \A w \in Threads \ {u} : \A x \in Threads :
          w \in HeldBy(x) => w \in HeldBy(x)'
  BY <1>4, <1>10, <1>12
<1>16. \A w \in Threads \ {Main} :
          \/ th'[w] = NoCall
          \/ w # u /\ th[w].at # "idle" /\ th'[w].at # "idle"
  BY <1>1, <1>6, <1>9 DEF AwaitInv, Gone
<1>17. th'[Main].at = th[Main].at
  BY <1>4, <1>6, <1>9, ThreadsAre
<1>18. \A w \in Threads : Good(th'[w])
  BY <1>1, <1>7, <1>9, NoCallIsGood
<1>19. /\ Formed' /\ Gone' /\ Owned' /\ NoRing'
       /\ Spent' /\ Ended' /\ Pardoned'
  <2>1. forsaken' # {} => mishap'
    BY <1>3 DEF AwaitInv, Pardoned
  <2> QED
    BY <1>3, <1>9, <1>13, <1>14, <1>15, <1>16, <1>17, <1>18, <2>1, FewerWaits
<1>20. Covered'
  <2>1. Attended' = Done' \cup UNION {Coming(th'[w]) : w \in Threads}
    BY <1>3, ComingNext
  <2>2. Done' = Done
    BY <1>3 DEF Done
  <2>3. \A w \in Threads : Coming(th[w]) \subseteq Coming(th'[w])
    BY <1>8, <1>9, <1>10
  <2>4. \A w \in Threads : Coming(th[w]) \subseteq Attended'
    BY <2>1, <2>3
  <2>5. Attended \subseteq Attended'
    BY <2>1, <2>2, <2>4 DEF Attended
  <2>6. Left' = Left
    BY <1>3, <1>17 DEF Left
  <2> QED
    BY <1>3, <1>13, <2>2, <2>5, <2>6, StillCovered DEF AwaitInv
<1> QED
  BY <1>19, <1>20 DEF AwaitInv

(* The loop over the dependencies, and its last round.                     *)
LEMMA LoopAwaits ==
    ASSUME AwaitInv, NEW t \in Threads, NextDep(t) \/ Joined(t) \/ AllStarted(t)
    PROVE  AwaitInv'
<1> USE DEF mainVars, pastVars
<1>1. /\ th[t].at \in Loop /\ Good(th[t]) /\ Formed
      /\ UNCHANGED <<mainVars, built, forsaken, mishap>>
  BY DEF NextDep, Joined, AllStarted, At, Loop, AwaitInv, Formed
<1>2. /\ th[t].at \notin Rest /\ th[t].at # "idle"
      /\ th[t].phase # "own" /\ code = "running"
      /\ Suits("deps", th[t]) /\ Suits("join", th[t])
  BY <1>1, LoopSuits
<1>3. CASE NextDep(t)
  BY <1>1, <1>2, <1>3, AskOnward DEF NextDep
<1>4. CASE Joined(t)
  BY <1>1, <1>2, <1>4, GotoOnward DEF Joined
<1>5. CASE AllStarted(t) /\ Goto(t, "join")
  BY <1>1, <1>2, <1>5, GotoOnward
<1>6. CASE /\ th[t].at = "deps" /\ th[t].todo = <<>> /\ th[t].batch = <<>>
           /\ ~ (th[t].phase = "deps" /\ asked.dev) /\ Result(t, th[t].rc)
  <2>1. Coming(th[t]) = {}
    BY <1>2, <1>6 DEF Coming, Items
  <2> QED
    BY <1>1, <1>2, <1>6, <2>1, ResultAwaits
<1>7. CASE /\ th[t].at = "deps" /\ th[t].todo = <<>>
           /\ th[t].phase = "deps" /\ asked.dev
           /\ Become(t, [th[t] EXCEPT !.phase = "dev", !.todo = Devs[th[t].pkg]])
  <2> DEFINE devs == Devs[th[t].pkg]
             r == [th[t] EXCEPT !.phase = "dev", !.todo = devs]
  <2>1. devs \in Seq(Packages)
    BY <1>1, PackagesAssumption DEF Good, Typed
  <2>2. Coming(th[t]) = Items(devs)
    BY <1>2, <1>7 DEF Coming, Items
  <2>3. Become(t, r)
    BY <1>7
  <2> HIDE DEF devs
  <2>4. /\ Fields(r) /\ r.at = th[t].at /\ r.phase = "dev" /\ r.todo = devs
        /\ r.batch = th[t].batch /\ r.pkg = th[t].pkg /\ r.file = th[t].file
    BY <1>1, Zenon DEF Good, Fields
  <2> HIDE DEF r
  <2>5. Typed(r)
    BY <1>1, <2>1, <2>4 DEF Good, Typed
  <2>6. Fitting(r)
    BY <1>7, <2>4 DEF Fitting, Early, Slug, Rest
  <2>7. Good(r)
    BY <2>4, <2>5, <2>6 DEF Good
  <2>8. Coming(r) = Items(devs)
    BY <1>7, <2>4 DEF Coming, Rest
  <2>9. r.at \notin {"idle", "free", "freed"}
    BY <1>7, <2>4
  <2>10. Left' = Left
    BY <1>1, <1>2, <2>3, <2>9, LeftStays
  <2>11. Done' = Done
    BY <1>1 DEF Done
  <2>12. Done \subseteq Packages /\ args \in Seq(Packages)
    BY <1>1 DEF Formed
  <2> QED
    BY <1>1, <1>2, <2>2, <2>3, <2>4, <2>7, <2>8, <2>9, <2>10, <2>11, <2>12, Stepped
<1>8. AllStarted(t) =>
         \/ Goto(t, "join")
         \/ /\ th[t].at = "deps" /\ th[t].todo = <<>> /\ th[t].batch = <<>>
            /\ ~ (th[t].phase = "deps" /\ asked.dev) /\ Result(t, th[t].rc)
         \/ /\ th[t].at = "deps" /\ th[t].todo = <<>>
            /\ th[t].phase = "deps" /\ asked.dev
            /\ Become(t, [th[t] EXCEPT !.phase = "dev", !.todo = Devs[th[t].pkg]])
  BY Zenon DEF AllStarted, At
<1> QED
  BY <1>3, <1>4, <1>5, <1>6, <1>7, <1>8

(* A call that gives up for want of a dependency forsakes its batch.       *)
LEMMA NoDependencyAwaits ==
    ASSUME AwaitInv, NEW t \in Threads, NoDependency(t)
    PROVE  AwaitInv'
<1>1. /\ Good(th[t]) /\ Formed /\ th[t].at \in {"get", "parse"}
      /\ \A w \in Threads : Good(th[w])
  BY DEF AwaitInv, Formed, NoDependency, NoManifest, NoAnswer, At
<1>2. /\ Result(t, -1) /\ UNCHANGED <<asked, args, code, built>> /\ mishap'
      /\ forsaken' = forsaken \cup HeldBy(t)
  BY DEF NoDependency, mainVars, HeldBy, Items
<1>3. PICK r : /\ Become(t, r) /\ Good(r) /\ r.batch = <<>>
               /\ r.at \in {"look", "done"}
  BY <1>1, <1>2, ResultIs
<1>4. /\ th' = [w \in Threads |-> th'[w]] /\ th'[t] = r
      /\ \A w \in Threads \ {t} : th'[w] = th[w]
  BY <1>1, <1>3, BecomeIs
<1>5. /\ HeldBy(t)' = {}
      /\ \A w \in Threads \ {t} : HeldBy(w)' = HeldBy(w)
  BY <1>3, <1>4 DEF HeldBy, Items
<1>6. code = "running"
  BY <1>1 DEF AwaitInv, Ended
<1>7. \A w, x \in Threads : x \in HeldBy(w)' => x \in HeldBy(w)
  BY <1>5
<1>8. \A w \in Threads :
         \/ w \in forsaken'
         \/ \A x \in Threads : w \in HeldBy(x) => w \in HeldBy(x)'
  BY <1>2, <1>5
<1>9. \A w \in Threads \ {Main} :
         th'[w] = NoCall \/ (th[w].at # "idle" /\ th'[w].at # "idle")
  BY <1>1, <1>3, <1>4 DEF AwaitInv, Gone
<1>10. th'[Main].at \in {"free", "freed"} => th[Main].at \in {"free", "freed"}
  BY <1>3, <1>4, ThreadsAre
<1>11. \A w \in Threads : Good(th'[w])
  BY <1>1, <1>3, <1>4
<1>12. /\ Formed' /\ Gone' /\ Owned' /\ NoRing'
       /\ Spent' /\ Ended' /\ Pardoned'
  BY <1>2, <1>4, <1>6, <1>7, <1>8, <1>9, <1>10, <1>11, FewerWaits
<1>13. Covered'
  BY <1>2 DEF Covered
<1> QED
  BY <1>12, <1>13 DEF AwaitInv

(* A call without a manifest is a failure, or goes on with the other name. *)
LEMMA NoPackageAwaits ==
    ASSUME AwaitInv, NEW t \in Threads, NoPackage(t)
    PROVE  AwaitInv'
<1>1. /\ Good(th[t]) /\ th[t].at \in {"get", "parse"} /\ th[t].phase = "own"
  BY DEF AwaitInv, Formed, NoPackage, NoManifest, NoAnswer, At
<1>2. Result(t, -1) /\ UNCHANGED <<mainVars, built, forsaken>>
  BY DEF NoPackage
<1>3. mishap' = (mishap \/ th[t].file = 2)
  BY DEF NoPackage
<1>4. mishap => mishap'
  BY <1>3, Zenon
<1>5. th[t].file = 2 => mishap'
  BY <1>3, Zenon
<1>6. /\ th[t].batch = <<>> /\ th[t].at \notin Rest
      /\ Coming(th[t]) = {th[t].pkg} /\ th[t].file \in {1, 2}
  BY <1>1 DEF Good, Typed, Fitting, Coming, Rest
<1> QED
  BY <1>2, <1>4, <1>5, <1>6, ResultAwaits

(* The lookup of a package.                                                *)
LEMMA LookupAwaits ==
    ASSUME AwaitInv, NEW t \in Threads, Begin(t) \/ Look(t) \/ Read(t)
    PROVE  AwaitInv'
<1> USE DEF mainVars, pastVars
<1>1. /\ th[t].at \in Early
      /\ UNCHANGED <<mainVars, built, forsaken, mishap>>
  BY DEF Begin, Look, Read, At, Early
<1>2. /\ th[t].phase = "own" /\ th[t].at \notin Rest
      /\ Coming(th[t]) = {th[t].pkg} /\ th[t].batch = <<>>
      /\ \A label \in {"look", "read", "have"} : Suits(label, th[t])
  BY <1>1, EarlySuits DEF Early
<1>3. CASE Begin(t)
  BY <1>1, <1>2, <1>3, GotoOnward DEF Begin
<1>4. CASE Look(t) /\ Key(t) \in built /\ Result(t, 0)
  <2>1. th[t].pkg \in Done
    BY <1>4 DEF Done, Key
  <2> QED
    BY <1>1, <1>2, <1>4, <2>1, ResultAwaits
<1>5. CASE Look(t) /\ Goto(t, "read")
  BY <1>1, <1>2, <1>5, GotoOnward
<1>6. CASE Read(t) /\ Goto(t, "have")
  BY <1>1, <1>2, <1>6, GotoOnward
<1>7. CASE Read(t) /\ AskFor(t, th[t])
  BY <1>1, <1>2, <1>7, AskOnward
<1> QED
  BY <1>3, <1>4, <1>5, <1>6, <1>7 DEF Look, Read

(* make, and the configure command, whatever their results.                *)
LEMMA CommandAwaits ==
    ASSUME AwaitInv, NEW t \in Threads, Make(t) \/ Configure(t)
    PROVE  AwaitInv'
<1>1. /\ th[t].at \in Early /\ Goto(t, "mark")
      /\ UNCHANGED <<mainVars, built, forsaken>>
  BY DEF Make, Configure, At, Early
<1>2. mishap => mishap'
  BY Zenon DEF Make, Configure
<1>3. Suits("mark", th[t]) /\ th[t].at \notin Rest
  BY <1>1, EarlySuits DEF Early
<1> QED
  BY <1>1, <1>2, <1>3, GotoOnward

(* The package is noted after the command, or without one.                 *)
LEMMA MarkAwaits ==
    ASSUME AwaitInv, NEW t \in Threads,
           Mark(t) \/ PrintFlags(t) \/ MarkConfigured(t)
    PROVE  AwaitInv'
<1>1. th[t].at \in Early /\ Marked(t)
  BY DEF Mark, PrintFlags, MarkConfigured, At, Early
<1> QED
  BY <1>1, MarkedAwaits

(* The program dies of a null pointer or an empty slot.                    *)
LEMMA CrashAwaits ==
    ASSUME AwaitInv, End("crashed")
    PROVE  AwaitInv'
  BY EndAwaits

-----------------------------------------------------------------------------
(* When main waits for nobody no thread is left, but for forsaken ones:    *)
(* those that are left wait for each other, and there is no ring.          *)
LEMMA AllAwaited ==
    ASSUME AwaitInv, th[Main].at \in Rest, forsaken = {}
    PROVE  \A u \in Threads \ {Main} : th[u] = NoCall
<1> DEFINE S == {u \in Threads \ {Main} : th[u].at # "idle"}
<1>1. \A t \in Threads : Good(th[t])
  BY DEF AwaitInv, Formed
<1>2. HeldBy(Main) = {}
  BY <1>1, ThreadsAre DEF Good, Fitting, HeldBy, Items
<1>3. ASSUME NEW u \in S PROVE \E t \in S : u \in HeldBy(t)
  <2>1. PICK t \in Threads : u \in HeldBy(t)
    BY <1>3 DEF AwaitInv, Owned
  <2>2. t # Main
    BY <1>2, <2>1
  <2>3. th[t].at # "idle"
    <3>1. th[t].batch # <<>>
      BY <2>1 DEF HeldBy, Items
    <3> QED
      BY <1>1, <3>1 DEF Good, Fitting, Rest
  <2> QED
    BY <2>1, <2>2, <2>3
<1>4. S = {}
  BY <1>3 DEF AwaitInv, NoRing
<1> QED
  BY <1>4 DEF AwaitInv, Gone

(* Between two calls main waits for nobody and looks after nothing.        *)
LEMMA MainRests ==
    ASSUME AwaitInv, th[Main].at \in Rest
    PROVE  /\ Good(th[Main]) /\ th[Main].batch = <<>> /\ Coming(th[Main]) = {}
           /\ th[Main].pkg \in Packages /\ args \in Seq(Packages)
           /\ Done \subseteq Packages
  BY ThreadsAre DEF AwaitInv, Formed, Good, Typed, Fitting, Coming

(* main begins with an argument, or with the package it is in.             *)
LEMMA NextArgAwaits ==
    ASSUME AwaitInv, NextArg \/ NoArgs
    PROVE  AwaitInv'
<1>1. /\ code = "running" /\ th[Main].at = "idle" /\ th[Main].at \in Rest
      /\ UNCHANGED <<asked, built, code, forsaken, mishap>> /\ Main \in Threads
  BY ThreadsAre DEF NextArg, NoArgs, At, Rest, mainVars, pastVars
<1>2. /\ th[Main].batch = <<>> /\ Coming(th[Main]) = {}
      /\ args \in Seq(Packages) /\ Done \subseteq Packages /\ Done' = Done
  BY <1>1, MainRests DEF Done
<1>3. Left = Items(args) \cup (IF args = <<>> THEN {Root} ELSE {})
  BY <1>1 DEF Left
<1>4. PICK p, place : /\ p \in Packages /\ Become(Main, Call(p, place, "look"))
                      /\ args' \in Seq(Packages) /\ Left \subseteq Items(args') \cup {p}
  <2>1. CASE NextArg
    <3>1. /\ args # <<>> /\ args' = Tail(args)
          /\ Become(Main, Call(Head(args), "deps", "look"))
      BY <2>1 DEF NextArg
    <3>2. /\ Head(args) \in Packages /\ Tail(args) \in Seq(Packages)
          /\ Items(args) = {Head(args)} \cup Items(Tail(args))
      BY <1>2, <3>1, ItemsOf
    <3> QED
      BY <1>3, <3>1, <3>2
  <2>2. CASE NoArgs
    <3>1. args = <<>> /\ args' = args /\ Become(Main, Call(Root, "here", "look"))
      BY <2>2 DEF NoArgs, mainVars
    <3>2. Root \in Packages /\ Items(args) = {}
      BY <3>1, PackagesAssumption DEF Items
    <3> QED
      BY <1>2, <1>3, <3>1, <3>2
  <2> QED
    BY <2>1, <2>2
<1> DEFINE r == Call(p, place, "look")
<1>5. Good(r) /\ r.at = "look" /\ r.batch = <<>> /\ Coming(r) = {p}
  BY <1>4, NewCallIsGood DEF Early
<1>6. Become(Main, r)
  BY <1>4
<1> HIDE DEF r
<1>7. Items(args') \subseteq Left'
  BY DEF Left
<1>8. r.at \notin {"free", "freed"}
  BY <1>5
<1> QED
  BY <1>1, <1>2, <1>4, <1>5, <1>6, <1>7, <1>8, Stepped

(* main is done with one of its packages, or tries it by its name.         *)
LEMMA ArgDoneAwaits ==
    ASSUME AwaitInv, ArgDone
    PROVE  AwaitInv'
<1>1. /\ th[Main].at = "done" /\ th[Main].at \in Rest
      /\ UNCHANGED <<asked, args, code, built, forsaken, mishap>> /\ Main \in Threads
  BY ThreadsAre DEF ArgDone, At, Rest, mainVars, pastVars
<1>2. /\ Good(th[Main]) /\ th[Main].batch = <<>> /\ Coming(th[Main]) = {}
      /\ args \in Seq(Packages) /\ Done \subseteq Packages
      /\ th[Main].pkg \in Packages /\ Done' = Done
  BY <1>1, MainRests DEF Done
<1>3. code = "running"
  BY <1>1 DEF AwaitInv, Ended
<1>4. Left \subseteq Left'
  BY <1>1 DEF Left
<1> DEFINE label == IF args = <<>> THEN "free" ELSE "idle"
           q == Call(th[Main].pkg, "slug", "look")
           r == [th[Main] EXCEPT !.at = label]
<1>5. Become(Main, q) \/ Become(Main, r)
  BY DEF ArgDone
<1>6. Good(q) /\ q.at = "look" /\ q.batch = <<>>
  BY <1>2, NewCallIsGood DEF Early
<1>7. label \in {"free", "idle"} /\ (label = "free" => args = <<>>)
  OBVIOUS
<1> HIDE DEF q, label
<1>8. Same(r, th[Main]) /\ r.at = label
  BY <1>2, Zenon DEF Good, Fields, Same
<1> HIDE DEF r
<1>9. Good(r)
  BY <1>1, <1>2, <1>7, <1>8
     DEF Good, Typed, Fitting, Same, Early, Slug, Loop, Rest
<1>10. CASE Become(Main, q)
  <2>1. q.at \notin {"free", "freed"}
    BY <1>6
  <2> QED
    BY <1>1, <1>2, <1>3, <1>4, <1>6, <1>10, <2>1, Stepped
<1>11. CASE Become(Main, r)
  <2>1. r.at \in {"free", "freed"} => args' = <<>>
    BY <1>1, <1>7, <1>8
  <2>2. r.batch = th[Main].batch
    BY <1>8 DEF Same
  <2> QED
    BY <1>1, <1>2, <1>3, <1>4, <1>9, <1>11, <2>1, <2>2, Stepped
<1> QED
  BY <1>5, <1>10, <1>11

(* The packages are freed.                                                 *)
LEMMA FreeAwaits ==
    ASSUME AwaitInv, Free
    PROVE  AwaitInv'
<1>1. /\ th[Main].at = "free" /\ th[Main].at \in Rest
      /\ UNCHANGED <<asked, args, code, built, forsaken, mishap>> /\ Main \in Threads
  BY ThreadsAre DEF Free, At, Rest, mainVars, pastVars
<1>2. /\ Good(th[Main]) /\ th[Main].batch = <<>> /\ Coming(th[Main]) = {}
      /\ args \in Seq(Packages) /\ Done \subseteq Packages /\ Done' = Done
  BY <1>1, MainRests DEF Done
<1>3. code = "running" /\ args = <<>>
  BY <1>1 DEF AwaitInv, Ended, Spent
<1>4. Left \subseteq Left'
  BY <1>1 DEF Left
<1> DEFINE r == [th[Main] EXCEPT !.at = "freed"]
<1>5. Become(Main, r)
  BY DEF Free, Goto
<1>6. Same(r, th[Main]) /\ r.at = "freed"
  BY <1>2, Zenon DEF Good, Fields, Same
<1> HIDE DEF r
<1>7. Good(r)
  BY <1>1, <1>2, <1>6 DEF Good, Typed, Fitting, Same, Early, Slug, Loop, Rest
<1>8. r.batch = th[Main].batch
  BY <1>6 DEF Same
<1> QED
  BY <1>1, <1>2, <1>3, <1>4, <1>5, <1>7, <1>8, Stepped

(* main returns when nothing is left to look after, unless something went  *)
(* wrong.                                                                  *)
LEMMA ExitAwaits ==
    ASSUME AwaitInv, Exit
    PROVE  AwaitInv'
<1>1. th[Main].at = "freed" /\ th[Main].at \in Rest /\ Main \in Threads
  BY ThreadsAre DEF Exit, At, Rest
<1>2. code = "running" /\ args = <<>>
  BY <1>1 DEF AwaitInv, Ended, Spent
<1>3. ASSUME ~mishap PROVE Attended \subseteq Done /\ Left = {}
  <2>1. forsaken = {}
    BY <1>3 DEF AwaitInv, Pardoned
  <2>2. \A u \in Threads \ {Main} : Coming(th[u]) = {}
    BY <1>1, <2>1, AllAwaited, NoCallIsGood
  <2>3. Coming(th[Main]) = {}
    BY <1>1, MainRests
  <2>4. \A u \in Threads : Coming(th[u]) = {}
    BY <2>2, <2>3
  <2>5. Attended \subseteq Done
    BY <2>4 DEF Attended
  <2>6. Left = {}
    BY <1>1, <1>2 DEF Left, Items
  <2> QED
    BY <2>5, <2>6
<1>4. PICK status \in {"ok", "failed", "crashed"} : End(status)
  BY DEF Exit
<1> QED
  BY <1>2, <1>3, <1>4, EndAwaits

(* The steps of main.                                                      *)
LEMMA MainAwaits ==
    ASSUME AwaitInv, MainStep
    PROVE  AwaitInv'
  BY NextArgAwaits, ArgDoneAwaits, FreeAwaits, ExitAwaits DEF MainStep

(* The steps for the dependencies.                                         *)
LEMMA DepAwaits ==
    ASSUME AwaitInv, NEW t \in Threads, DepStep(t)
    PROVE  AwaitInv'
<1>1. CASE JoinCrashes(t)
  BY <1>1, CrashAwaits DEF JoinCrashes
<1> QED
  BY <1>1, LoopAwaits, CreateAwaits, CreateFailsAwaits, JoinAwaits DEF DepStep

(* The steps of a thread of clib build.                                    *)
LEMMA BuildAwaits ==
    ASSUME AwaitInv, NEW t \in Threads, Step(t)
    PROVE  AwaitInv'
<1>1. CASE NullDependency(t)
  BY <1>1, CrashAwaits DEF NullDependency
<1> QED
  BY <1>1, LookupAwaits, CommandAwaits, MarkAwaits, SlugAwaits, NoPackageAwaits,
     NoDependencyAwaits, DepAwaits DEF Step

(* The steps of a thread of clib configure.                                *)
LEMMA ConfigureAwaits ==
    ASSUME AwaitInv, NEW t \in Threads, ConfigureStep(t)
    PROVE  AwaitInv'
<1>1. CASE NullName(t)
  BY <1>1, CrashAwaits DEF NullName
<1> QED
  BY <1>1, LookupAwaits, CommandAwaits, MarkAwaits, SlugAwaits, NoPackageAwaits,
     DepAwaits DEF ConfigureStep, Lookup, Dependencies

(* Nothing happens.                                                        *)
LEMMA StutterAwaits == AwaitInv /\ UNCHANGED vars => AwaitInv'
<1> SUFFICES ASSUME AwaitInv, UNCHANGED vars PROVE AwaitInv'
  OBVIOUS
<1> USE DEF vars
<1>1. Formed' /\ Gone' /\ Spent' /\ Ended' /\ Pardoned'
  BY DEF AwaitInv, Formed, Done, Gone, Spent, Ended, Pardoned
<1>2. Owned' /\ NoRing'
  BY DEF AwaitInv, Owned, NoRing, HeldBy
<1>3. Attended' = Attended /\ Left' = Left /\ Done' = Done
  BY DEF Attended, Coming, Left, Done
<1>4. Covered'
  BY <1>3, ComingNext DEF AwaitInv, Covered
<1> QED
  BY <1>1, <1>2, <1>4 DEF AwaitInv

(* Before the first step there is only main, with its arguments.           *)
LEMMA InitAwaits == Init => AwaitInv
<1> SUFFICES ASSUME Init PROVE AwaitInv
  OBVIOUS
<1> USE DEF Init
<1>1. \A t \in Threads : th[t] = NoCall
  OBVIOUS
<1>2. Done = {} /\ args \in Seq(Packages)
  BY InvocationsAssumption DEF Done
<1>3. Formed
  BY <1>1, <1>2, NoCallIsGood DEF Formed
<1>4. \A t \in Threads : HeldBy(t) = {}
  BY <1>1, NoCallIsGood DEF HeldBy, Items
<1>5. Gone /\ Owned /\ NoRing
  BY <1>1, <1>4, NoCallIsGood DEF Gone, Owned, NoRing
<1>6. Spent /\ Ended /\ Pardoned
  BY <1>1, NoCallIsGood, ThreadsAre DEF Spent, Ended, Pardoned
<1>7. Wanted \subseteq Left
  BY <1>1, NoCallIsGood, ThreadsAre DEF Wanted, Left, Items
<1>8. Covered
  BY <1>2, <1>7 DEF Covered
<1> QED
  BY <1>3, <1>5, <1>6, <1>8 DEF AwaitInv

(* A call has every thread it has started in its batch.                    *)
LEMMA AwaitsThreads == AwaitInv => ThreadsAreAwaited
<1> SUFFICES ASSUME AwaitInv PROVE ThreadsAreAwaited
  OBVIOUS
<1>1. \A u \in Threads \ {Main} :
         \/ th[u].at = "idle" \/ u \in forsaken
         \/ \E t \in Threads : \E k \in DOMAIN th[t].batch : th[t].batch[k] = u
  BY DEF AwaitInv, Owned, HeldBy, Items
<1>2. At(Main, "freed") /\ forsaken = {} =>
         \A u \in Threads \ {Main} : th[u] = NoCall
  BY AllAwaited DEF At, Rest
<1> QED
  BY <1>1, <1>2 DEF ThreadsAreAwaited

(* The packages that have been noted are closed at the end.                *)
LEMMA AwaitsPackages == AwaitInv => SuccessMeansBuilt
<1> SUFFICES ASSUME AwaitInv, code = "ok", ~mishap, NEW p \in Needed
             PROVE  \E b \in built : b[2] = p
  BY DEF SuccessMeansBuilt
<1>1. args = <<>> /\ \A t \in Threads : th[t].at = "idle"
  BY DEF AwaitInv, Ended
<1>2. Attended = Done /\ Left = {}
  <2>1. \A t \in Threads : Coming(th[t]) = {}
    BY <1>1 DEF Coming, Rest
  <2> QED
    BY <1>1, <2>1 DEF Attended, Left, Items
<1>3. (\A q \in Done : NeededBy(q) \subseteq Done) /\ Wanted \subseteq Done
  BY <1>2 DEF AwaitInv, Covered
<1>4. Closed(Done) /\ Done \in SUBSET Packages
  BY <1>3 DEF Closed, NeededBy, Items, AwaitInv, Formed
<1>5. p \in Done
  BY <1>3, <1>4 DEF Needed
<1> QED
  BY <1>5 DEF Done

(* What clib build keeps.                                                  *)
LEMMA BuildInvariance == Spec => []AwaitInv
<1>1. AwaitInv /\ [Next]_vars => AwaitInv'
  BY BuildAwaits, MainAwaits, StutterAwaits DEF Next
<1> QED
  BY <1>1, InitAwaits, PTL DEF Spec

(* What clib configure keeps.                                              *)
LEMMA ConfigureInvariance == ConfigureSpec => []AwaitInv
<1>1. AwaitInv /\ [ConfigureNext]_vars => AwaitInv'
  BY ConfigureAwaits, MainAwaits, StutterAwaits
     DEF ConfigureNext, ConfigureMain
<1> QED
  BY <1>1, InitAwaits, PTL DEF ConfigureSpec

(* clib build: a thread is joined by the call that started it, unless a    *)
(* dependency had no manifest, and none is left when main has freed the    *)
(* packages.                                                               *)
THEOREM BuildAwaitsThreads == Spec => []ThreadsAreAwaited
  BY BuildInvariance, AwaitsThreads, PTL

(* clib build: when main returns 0 all that is needed has been looked      *)
(* after, for packages that depend on each other in any way, unless a      *)
(* manifest, a thread or a makefile failed.                                *)
THEOREM BuildBuildsAll == Spec => []SuccessMeansBuilt
  BY BuildInvariance, AwaitsPackages, PTL

(* clib configure waits for its threads as clib build does, also where it  *)
(* does not look whether a dependency was found.                           *)
THEOREM ConfigureAwaitsThreads == ConfigureSpec => []ThreadsAreAwaited
  BY ConfigureInvariance, AwaitsThreads, PTL

(* clib configure goes through all that is needed.                         *)
THEOREM ConfigureConfiguresAll == ConfigureSpec => []SuccessMeansBuilt
  BY ConfigureInvariance, AwaitsPackages, PTL

-----------------------------------------------------------------------------
(* No thread is joined twice.                                              *)

(* A step of one thread by which no other is started or joined: its batch  *)
(* stays or is given up, and it does not go away.                          *)
Keeps(t) ==
    \E r : /\ Become(t, r) /\ r.batch \in {th[t].batch, <<>>}
           /\ t # Main => r.at # "idle"

(* What the batch of a thread holds are threads, or nobody.                *)
LEMMA BatchIs ==
    ASSUME AwaitInv, NEW t \in Threads
    PROVE  /\ Good(th[t]) /\ Len(th[t].batch) \in Nat
           /\ th[t].batch \in Seq((Threads \ {Main}) \cup {Nobody})
           /\ DOMAIN th[t].batch = 1..Len(th[t].batch)
           /\ \A k \in DOMAIN th[t].batch :
                 th[t].batch[k] \in (Threads \ {Main}) \cup {Nobody}
  BY DEF AwaitInv, Formed, Good, Typed

(* Such a step keeps the slots.                                            *)
LEMMA KeepsLive ==
    ASSUME AwaitInv, JoinsAreLive, NEW t \in Threads, Keeps(t)
    PROVE  JoinsAreLive'
<1>1. PICK r : /\ Become(t, r) /\ r.batch \in {th[t].batch, <<>>}
               /\ t # Main => r.at # "idle"
  BY DEF Keeps
<1>2. /\ th'[t] = r
      /\ \A u \in Threads \ {t} : th'[u] = th[u]
  BY <1>1, BecomeIs DEF AwaitInv
<1>3. \A v \in Threads : \A k \in DOMAIN th'[v].batch :
         /\ k \in DOMAIN th[v].batch /\ th'[v].batch[k] = th[v].batch[k]
  BY <1>1, <1>2
<1>4. ASSUME NEW v \in Threads, NEW k \in DOMAIN th'[v].batch,
             th'[v].batch[k] # Nobody
      PROVE  th'[th'[v].batch[k]].at # "idle"
  <2>1. th[v].batch[k] \in Threads \ {Main}
    BY <1>3, <1>4, BatchIs
  <2>2. th[th[v].batch[k]].at # "idle"
    BY <1>3, <1>4 DEF JoinsAreLive
  <2> QED
    BY <1>1, <1>2, <1>3, <1>4, <2>1, <2>2
<1>5. ASSUME NEW v \in Threads, NEW k \in DOMAIN th'[v].batch,
             th'[v].batch[k] # Nobody,
             NEW w \in Threads, NEW i \in DOMAIN th'[w].batch,
             th'[w].batch[i] = th'[v].batch[k]
      PROVE  w = v /\ i = k
  BY <1>3, <1>5 DEF JoinsAreLive
<1> QED
  BY <1>4, <1>5 DEF JoinsAreLive

(* So does one after which no batch holds anything.                        *)
LEMMA EmptyLive ==
    ASSUME \A t \in Threads : th[t] = NoCall
    PROVE  JoinsAreLive
  BY NoCallIsGood DEF JoinsAreLive

(* A step from label to label,                                             *)
LEMMA GotoKeeps ==
    ASSUME NEW t \in Threads, Good(th[t]), NEW label, label # "idle",
           Goto(t, label)
    PROVE  Keeps(t)
<1> DEFINE r == [th[t] EXCEPT !.at = label]
<1>1. Become(t, r)
  BY DEF Goto
<1>2. r.at = label /\ r.batch = th[t].batch
  BY Zenon DEF Good, Fields
<1> QED
  BY <1>1, <1>2 DEF Keeps

(* a request for a manifest,                                               *)
LEMMA AskKeeps ==
    ASSUME NEW t \in Threads, Good(th[t]), NEW names, NEW tries,
           Become(t, [th[t] EXCEPT !.at = "slug", !.tries = tries, !.names = names])
    PROVE  Keeps(t)
<1> DEFINE r == [th[t] EXCEPT !.at = "slug", !.tries = tries, !.names = names]
<1>1. r.at = "slug" /\ r.batch = th[t].batch
  BY Zenon DEF Good, Fields
<1> QED
  BY <1>1 DEF Keeps

(* and the result of a call.                                               *)
LEMMA ResultKeeps ==
    ASSUME NEW t \in Threads, Good(th[t]), NEW rc, Result(t, rc)
    PROVE  Keeps(t)
<1>1. PICK r : /\ Become(t, r) /\ r.batch = <<>>
               /\ r.at \in {"look", "done"}
  BY ResultIs
<1> QED
  BY <1>1 DEF Keeps

(* The steps of a thread that start and join none.                         *)
LEMMA OwnKeeps ==
    ASSUME NEW t \in Threads, Good(th[t]),
           \/ Begin(t) \/ Look(t) \/ Read(t) \/ Make(t) \/ Configure(t)
           \/ Mark(t) \/ PrintFlags(t) \/ MarkConfigured(t)
           \/ NoPackage(t) \/ NoDependency(t)
           \/ NextDep(t) \/ Joined(t) \/ AllStarted(t)
    PROVE  Keeps(t)
<1>1. CASE Begin(t) \/ Make(t) \/ Configure(t) \/ Joined(t)
  BY <1>1, GotoKeeps DEF Begin, Make, Configure, Joined
<1>2. CASE Look(t)
  BY <1>2, GotoKeeps, ResultKeeps DEF Look
<1>3. CASE Read(t) \/ NextDep(t)
  BY <1>3, GotoKeeps, AskKeeps DEF Read, NextDep, AskFor
<1>4. CASE Mark(t) \/ PrintFlags(t) \/ MarkConfigured(t)
  <2> DEFINE todo == Deps[th[t].pkg]
             r == [th[t] EXCEPT !.at = "deps", !.phase = "deps", !.rc = 0,
                                !.todo = todo]
  <2>1. Become(t, r)
    BY <1>4 DEF Mark, PrintFlags, MarkConfigured, Marked
  <2> HIDE DEF todo
  <2>2. r.at = "deps" /\ r.batch = th[t].batch
    BY Zenon DEF Good, Fields
  <2> QED
    BY <2>1, <2>2 DEF Keeps
<1>5. CASE NoPackage(t) \/ NoDependency(t)
  BY <1>5, ResultKeeps DEF NoPackage, NoDependency
<1>6. CASE AllStarted(t)
  <2> DEFINE devs == Devs[th[t].pkg]
             r == [th[t] EXCEPT !.phase = "dev", !.todo = devs]
  <2>1. /\ Goto(t, "join") \/ Become(t, r) \/ Result(t, th[t].rc)
        /\ th[t].at = "deps"
    BY <1>6 DEF AllStarted, At
  <2> HIDE DEF devs
  <2>2. r.at = th[t].at /\ r.batch = th[t].batch
    BY Zenon DEF Good, Fields
  <2> HIDE DEF r
  <2>3. CASE Become(t, r)
    BY <2>1, <2>2, <2>3 DEF Keeps
  <2>4. CASE Goto(t, "join") \/ Result(t, th[t].rc)
    BY <2>4, GotoKeeps, ResultKeeps
  <2> QED
    BY <2>1, <2>3, <2>4
<1> QED
  BY <1>1, <1>2, <1>3, <1>4, <1>5, <1>6

(* The lookup and the download of a manifest.                              *)
LEMMA SlugKeeps ==
    ASSUME NEW t \in Threads, Good(th[t]), SlugStep(t)
    PROVE  Keeps(t)
<1>1. CASE Lock(t) \/ Cached(t) \/ NotCached(t) \/ Fetched(t) \/ Parsed(t)
           \/ LockAgain(t)
  BY <1>1, GotoKeeps DEF Lock, Cached, NotCached, Fetched, Parsed, LockAgain
<1>2. CASE Saved(t)
  <2> DEFINE label == IF th[t].phase = "own" THEN "have" ELSE "create"
  <2>1. Goto(t, label) /\ label # "idle"
    BY <1>2 DEF Saved
  <2> QED
    BY <2>1, GotoKeeps
<1>3. CASE NotFetched(t)
  <2> DEFINE tries == th[t].tries - 1
             r == [th[t] EXCEPT !.tries = tries]
  <2>1. Become(t, r) /\ th[t].at = "get"
    BY <1>3 DEF NotFetched, At
  <2> HIDE DEF tries
  <2>2. r.at = th[t].at /\ r.batch = th[t].batch
    BY Zenon DEF Good, Fields
  <2> QED
    BY <2>1, <2>2 DEF Keeps
<1>4. CASE NextName(t)
  BY <1>4, AskKeeps DEF NextName
<1> QED
  BY <1>1, <1>2, <1>3, <1>4 DEF SlugStep

(* The steps of main, but for the last.                                    *)
LEMMA MainKeeps ==
    ASSUME Good(th[Main]), NextArg \/ NoArgs \/ ArgDone \/ Free
    PROVE  Keeps(Main)
<1>1. CASE NextArg \/ NoArgs
  <2>1. PICK p, place : Become(Main, Call(p, place, "look"))
    BY <1>1 DEF NextArg, NoArgs
  <2>2. Call(p, place, "look").batch = <<>>
    BY DEF Call, NoCall
  <2> QED
    BY <2>1, <2>2 DEF Keeps
<1>2. CASE ArgDone
  <2> DEFINE label == IF args = <<>> THEN "free" ELSE "idle"
             r == [th[Main] EXCEPT !.at = label]
             q == Call(th[Main].pkg, "slug", "look")
  <2>1. Become(Main, q) \/ Become(Main, r)
    BY <1>2 DEF ArgDone
  <2>2. q.batch = <<>>
    BY DEF Call, NoCall
  <2> HIDE DEF label, q
  <2>3. r.batch = th[Main].batch
    BY Zenon DEF Good, Fields
  <2> QED
    BY <2>1, <2>2, <2>3 DEF Keeps
<1>3. CASE Free
  BY <1>3, GotoKeeps, ThreadsAre DEF Free
<1> QED
  BY <1>1, <1>2, <1>3

(* A thread that is started was in no slot, and gets one.                  *)
LEMMA CreateLive ==
    ASSUME AwaitInv, JoinsAreLive, NEW t \in Threads, Create(t)
    PROVE  JoinsAreLive'
<1> DEFINE c == Call(Head(th[t].todo), "deps", "start")
<1>1. Good(th[t]) /\ Formed /\ th[t].at = "create"
  BY DEF AwaitInv, Formed, Create, At
<1>2. PICK u \in Unused : th' = [th EXCEPT ![t] = Started(t, u, 0), ![u] = c]
  BY UnusedIs DEF Create
<1> DEFINE s == Started(t, u, 0)
<1>3. u \in Threads \ {Main} /\ th[u].at = "idle" /\ u # t /\ u # Nobody
  BY <1>1, <1>2, NoCallIsGood, ThreadsAre DEF Unused
<1>4. s.batch = Append(th[t].batch, u) /\ s.at # "idle"
  <2> DEFINE batch == Append(th[t].batch, u)
             label == IF Len(batch) >= Concurrency THEN "join" ELSE "deps"
             rest == Tail(th[t].todo)
             r == [th[t] EXCEPT !.at = label, !.todo = rest, !.batch = batch,
                                !.rc = 0]
  <2>1. s = r
    BY DEF Started
  <2>2. label # "idle"
    OBVIOUS
  <2> HIDE DEF s, label, batch, rest
  <2>3. r.batch = batch /\ r.at = label
    BY <1>1, Zenon DEF Good, Fields
  <2> QED
    BY <2>1, <2>2, <2>3 DEF batch
<1>5. c.batch = <<>> /\ c.at = "start"
  BY DEF Call, NoCall
<1>6. th' = [th EXCEPT ![t] = s, ![u] = c]
  BY <1>2
<1> HIDE DEF s, c
<1>7. /\ th'[t] = s /\ th'[u] = c
      /\ \A w \in Threads \ {t, u} : th'[w] = th[w]
  BY <1>1, <1>3, <1>6 DEF Formed
<1> DEFINE n == Len(th[t].batch)
<1>8. /\ n \in Nat /\ DOMAIN th[t].batch = 1..n /\ DOMAIN s.batch = 1..(n + 1)
      /\ s.batch[n + 1] = u /\ \A k \in 1..n : s.batch[k] = th[t].batch[k]
  BY <1>4, BatchIs
<1> HIDE DEF n
<1>9. \A v \in Threads : \A k \in DOMAIN th'[v].batch :
         \/ v = t /\ k = n + 1 /\ th'[v].batch[k] = u
         \/ k \in DOMAIN th[v].batch /\ th'[v].batch[k] = th[v].batch[k]
  <2>1. ASSUME NEW k \in DOMAIN s.batch
        PROVE  \/ k = n + 1 /\ s.batch[k] = u
               \/ k \in DOMAIN th[t].batch /\ s.batch[k] = th[t].batch[k]
    <3>1. k = n + 1 \/ k \in 1..n
      BY <1>8
    <3> QED
      BY <1>8, <3>1
  <2> QED
    BY <1>5, <1>7, <2>1
<1>10. \A v \in Threads : \A k \in DOMAIN th[v].batch : th[v].batch[k] # u
  BY <1>3 DEF JoinsAreLive
<1>11. \A w \in Threads : th[w].at # "idle" => th'[w].at # "idle"
  BY <1>4, <1>5, <1>7
<1>12. ASSUME NEW v \in Threads, NEW k \in DOMAIN th'[v].batch,
              th'[v].batch[k] # Nobody
       PROVE  th'[th'[v].batch[k]].at # "idle"
  <2>1. CASE th'[v].batch[k] = u
    BY <1>5, <1>7, <2>1
  <2>2. CASE k \in DOMAIN th[v].batch /\ th'[v].batch[k] = th[v].batch[k]
    <3>1. th[v].batch[k] \in Threads
      BY <1>12, <2>2, BatchIs
    <3> QED
      BY <1>11, <1>12, <2>2, <3>1 DEF JoinsAreLive
  <2> QED
    BY <1>9, <2>1, <2>2
<1>13. ASSUME NEW v \in Threads, NEW k \in DOMAIN th'[v].batch,
              th'[v].batch[k] # Nobody,
              NEW w \in Threads, NEW i \in DOMAIN th'[w].batch,
              th'[w].batch[i] = th'[v].batch[k]
       PROVE  w = v /\ i = k
  BY <1>9, <1>10, <1>13 DEF JoinsAreLive
<1> QED
  BY <1>12, <1>13 DEF JoinsAreLive

(* A slot without a thread is added.                                       *)
LEMMA CreateFailsLive ==
    ASSUME AwaitInv, JoinsAreLive, NEW t \in Threads, CreateFails(t)
    PROVE  JoinsAreLive'
<1> DEFINE s == Started(t, Nobody, 1)
           n == Len(th[t].batch)
<1>1. Good(th[t]) /\ Formed
  BY DEF AwaitInv, Formed
<1>2. Become(t, s)
  BY DEF CreateFails
<1>3. s.batch = Append(th[t].batch, Nobody) /\ s.at # "idle"
  <2> DEFINE batch == Append(th[t].batch, Nobody)
             label == IF Len(batch) >= Concurrency THEN "join" ELSE "deps"
             rest == Tail(th[t].todo)
             r == [th[t] EXCEPT !.at = label, !.todo = rest, !.batch = batch,
                                !.rc = 1]
  <2>1. s = r
    BY DEF Started
  <2>2. label # "idle"
    OBVIOUS
  <2> HIDE DEF s, label, batch, rest
  <2>3. r.batch = batch /\ r.at = label
    BY <1>1, Zenon DEF Good, Fields
  <2> QED
    BY <2>1, <2>2, <2>3 DEF batch
<1> HIDE DEF s
<1>4. /\ th'[t] = s
      /\ \A u \in Threads \ {t} : th'[u] = th[u]
  BY <1>1, <1>2, BecomeIs
<1>5. /\ n \in Nat /\ DOMAIN th[t].batch = 1..n /\ DOMAIN s.batch = 1..(n + 1)
      /\ s.batch[n + 1] = Nobody /\ \A k \in 1..n : s.batch[k] = th[t].batch[k]
  BY <1>3, BatchIs
<1> HIDE DEF n
<1>6. \A v \in Threads : \A k \in DOMAIN th'[v].batch :
         \/ th'[v].batch[k] = Nobody
         \/ k \in DOMAIN th[v].batch /\ th'[v].batch[k] = th[v].batch[k]
  <2>1. ASSUME NEW k \in DOMAIN s.batch
        PROVE  \/ s.batch[k] = Nobody
               \/ k \in DOMAIN th[t].batch /\ s.batch[k] = th[t].batch[k]
    <3>1. k = n + 1 \/ k \in 1..n
      BY <1>5
    <3> QED
      BY <1>5, <3>1
  <2> QED
    BY <1>4, <2>1
<1>7. \A w \in Threads : th[w].at # "idle" => th'[w].at # "idle"
  BY <1>3, <1>4
<1>8. ASSUME NEW v \in Threads, NEW k \in DOMAIN th'[v].batch,
             th'[v].batch[k] # Nobody
      PROVE  th'[th'[v].batch[k]].at # "idle"
  <2>1. k \in DOMAIN th[v].batch /\ th'[v].batch[k] = th[v].batch[k]
    BY <1>6, <1>8
  <2>2. th[v].batch[k] \in Threads
    BY <1>8, <2>1, BatchIs
  <2> QED
    BY <1>7, <1>8, <2>1, <2>2 DEF JoinsAreLive
<1>9. ASSUME NEW v \in Threads, NEW k \in DOMAIN th'[v].batch,
             th'[v].batch[k] # Nobody,
             NEW w \in Threads, NEW i \in DOMAIN th'[w].batch,
             th'[w].batch[i] = th'[v].batch[k]
      PROVE  w = v /\ i = k
  BY <1>6, <1>9 DEF JoinsAreLive
<1> QED
  BY <1>8, <1>9 DEF JoinsAreLive

(* A thread that is joined goes away, and with it the only slot it was in. *)
LEMMA JoinLive ==
    ASSUME AwaitInv, JoinsAreLive, NEW t \in Threads, Join(t)
    PROVE  JoinsAreLive'
<1>0. PICK u : u = Head(th[t].batch)
  OBVIOUS
<1> DEFINE others == Tail(th[t].batch)
           r == [th[t] EXCEPT !.batch = others]
           n == Len(th[t].batch)
<1>1. /\ Good(th[t]) /\ Formed /\ th[t].at = "join" /\ th[t].batch # <<>>
  BY DEF AwaitInv, Formed, Join, At
<1>2. \/ u = Nobody /\ Become(t, r)
      \/ u # Nobody /\ At(u, "done") /\ th' = [th EXCEPT ![t] = r, ![u] = NoCall]
  BY <1>0 DEF Join
<1>3. /\ n \in Nat /\ n > 0 /\ DOMAIN th[t].batch = 1..n
      /\ DOMAIN others = 1..(n - 1) /\ u = th[t].batch[1]
      /\ \A k \in 1..(n - 1) : others[k] = th[t].batch[k + 1]
      /\ u \in (Threads \ {Main}) \cup {Nobody}
  <2>1. th[t].batch \in Seq((Threads \ {Main}) \cup {Nobody})
    BY BatchIs
  <2> QED
    BY <1>0, <1>1, <2>1
<1> HIDE DEF others, n
<1>4. r.batch = others /\ r.at = "join"
  BY <1>1, Zenon DEF Good, Fields
<1> HIDE DEF r
<1>5. /\ th'[t] = r
      /\ \A w \in Threads \ {t, u} : th'[w] = th[w]
      /\ u # t
      /\ u \in Threads => th[u].at = "done" /\ th'[u] = NoCall
  <2>1. CASE u = Nobody /\ Become(t, r)
    BY <1>1, <2>1, BecomeIs, ThreadsAre
  <2>2. CASE u # Nobody /\ At(u, "done") /\ th' = [th EXCEPT ![t] = r, ![u] = NoCall]
    <3>1. u \in Threads /\ th[u].at = "done" /\ u # t
      BY <1>1, <1>3, <2>2 DEF At
    <3> QED
      BY <1>1, <2>2, <3>1 DEF Formed
  <2> QED
    BY <1>2, <2>1, <2>2
<1> DEFINE From(v, k) == IF v = t THEN k + 1 ELSE k
<1>6. \A v \in Threads : \A k \in DOMAIN th'[v].batch :
         /\ From(v, k) \in DOMAIN th[v].batch
         /\ th'[v].batch[k] = th[v].batch[From(v, k)]
         /\ v = t => From(v, k) # 1
  <2>1. ASSUME NEW k \in DOMAIN others
        PROVE  k + 1 \in DOMAIN th[t].batch /\ others[k] = th[t].batch[k + 1]
               /\ k + 1 # 1
    BY <1>3
  <2>2. u \in Threads => th'[u].batch = <<>>
    BY <1>5, NoCallIsGood
  <2> QED
    BY <1>4, <1>5, <2>1, <2>2
<1>7. \A v \in Threads : \A k \in DOMAIN th'[v].batch :
         \/ th'[v].batch[k] = Nobody
         \/ th'[v].batch[k] # u
  <2>1. 1 \in DOMAIN th[t].batch
    BY <1>3
  <2> QED
    BY <1>3, <1>6, <2>1 DEF JoinsAreLive
<1>8. \A w \in Threads \ {u} : th[w].at # "idle" => th'[w].at # "idle"
  BY <1>4, <1>5
<1>9. ASSUME NEW v \in Threads, NEW k \in DOMAIN th'[v].batch,
             th'[v].batch[k] # Nobody
      PROVE  th'[th'[v].batch[k]].at # "idle"
  <2>1. /\ From(v, k) \in DOMAIN th[v].batch
        /\ th'[v].batch[k] = th[v].batch[From(v, k)]
    BY <1>6
  <2> HIDE DEF From
  <2>2. th'[v].batch[k] \in Threads \ {u} /\ th[th'[v].batch[k]].at # "idle"
    BY <1>7, <1>9, <2>1, BatchIs DEF JoinsAreLive
  <2> QED
    BY <1>8, <2>2
<1>10. ASSUME NEW v \in Threads, NEW k \in DOMAIN th'[v].batch,
              th'[v].batch[k] # Nobody,
              NEW w \in Threads, NEW i \in DOMAIN th'[w].batch,
              th'[w].batch[i] = th'[v].batch[k]
       PROVE  w = v /\ i = k
  <2>1. /\ From(v, k) \in DOMAIN th[v].batch /\ From(w, i) \in DOMAIN th[w].batch
        /\ th'[v].batch[k] = th[v].batch[From(v, k)]
        /\ th'[w].batch[i] = th[w].batch[From(w, i)]
    BY <1>6
  <2>2. w = v /\ From(w, i) = From(v, k)
    <3> HIDE DEF From
    <3> QED
      BY <1>10, <2>1 DEF JoinsAreLive
  <2>3. v = t => k \in Int /\ i \in Int
    BY <1>3, <1>4, <1>5, <1>10, <2>2
  <2> QED
    BY <2>2, <2>3
<1> QED
  BY <1>9, <1>10 DEF JoinsAreLive

(* The end of the program leaves no thread.                                *)
LEMMA EndLive ==
    ASSUME NEW status, End(status)
    PROVE  JoinsAreLive'
  BY NoCallIsGood DEF End, JoinsAreLive

(* Every step of a thread, of either program.                              *)
LEMMA StepLive ==
    ASSUME AwaitInv, JoinsAreLive, NEW t \in Threads, Step(t) \/ ConfigureStep(t)
    PROVE  JoinsAreLive'
<1>1. Good(th[t])
  BY DEF AwaitInv, Formed
<1>2. CASE \/ Begin(t) \/ Look(t) \/ Read(t) \/ Make(t) \/ Configure(t)
           \/ Mark(t) \/ PrintFlags(t) \/ MarkConfigured(t)
           \/ NoPackage(t) \/ NoDependency(t)
           \/ NextDep(t) \/ Joined(t) \/ AllStarted(t)
  BY <1>1, <1>2, OwnKeeps, KeepsLive
<1>3. CASE SlugStep(t)
  BY <1>1, <1>3, SlugKeeps, KeepsLive
<1>4. CASE NullDependency(t) \/ NullName(t) \/ JoinCrashes(t)
  BY <1>4, EndLive DEF NullDependency, NullName, JoinCrashes
<1> QED
  BY <1>2, <1>3, <1>4, CreateLive, CreateFailsLive, JoinLive
     DEF Step, ConfigureStep, Lookup, Dependencies, DepStep

(* Every step of main.                                                     *)
LEMMA MainLive ==
    ASSUME AwaitInv, JoinsAreLive, MainStep
    PROVE  JoinsAreLive'
<1>1. Good(th[Main]) /\ Main \in Threads
  BY ThreadsAre DEF AwaitInv, Formed
<1> QED
  BY <1>1, MainKeeps, KeepsLive, EndLive DEF MainStep, Exit

(* What both programs keep.                                                *)
LiveInv == Inv /\ AwaitInv /\ JoinsAreLive

LEMMA LiveInit == Init => LiveInv
<1>1. Init => JoinsAreLive
  BY EmptyLive DEF Init
<1> QED
  BY <1>1, InitInv, InitAwaits DEF LiveInv

LEMMA LiveStays == LiveInv /\ UNCHANGED vars => LiveInv'
<1>1. JoinsAreLive /\ UNCHANGED vars => JoinsAreLive'
  BY DEF JoinsAreLive, vars
<1> QED
  BY <1>1, StutterInv, StutterAwaits DEF LiveInv

LEMMA BuildLive == Spec => []LiveInv
<1>1. LiveInv /\ [Next]_vars => LiveInv'
  BY BuildInv, MainInv, BuildAwaits, MainAwaits, StepLive, MainLive, LiveStays
     DEF LiveInv, Next
<1> QED
  BY <1>1, LiveInit, PTL DEF Spec

LEMMA ConfigureLive == ConfigureSpec => []LiveInv
<1>1. LiveInv /\ [ConfigureNext]_vars => LiveInv'
  BY ConfigureInv, MainInv, ConfigureAwaits, MainAwaits, StepLive, MainLive,
     LiveStays DEF LiveInv, ConfigureNext, ConfigureMain
<1> QED
  BY <1>1, LiveInit, PTL DEF ConfigureSpec

-----------------------------------------------------------------------------
(* Somebody can go on.                                                     *)

(* The one that t waits for.                                               *)
Heed(t) == Head(th[t].batch)

(* A set of threads that all wait for one of them.                         *)
Ring(C) ==
    /\ C \subseteq Threads /\ C # {}
    /\ \A t \in C : Heed(t) \in C /\ Heed(t) \in HeldBy(t)

(* There is none: the least would have one that no other waits for, and    *)
(* would be a ring without it.                                             *)
LEMMA NoRingIs ==
    ASSUME NoRing, NEW S, Ring(S)
    PROVE  FALSE
<1> DEFINE Sizes == {Cardinality(C) : C \in {D \in SUBSET Threads : Ring(D)}}
<1>1. \A C \in SUBSET Threads : IsFiniteSet(C) /\ Cardinality(C) \in Nat
  <2>1. IsFiniteSet(Threads)
    BY BoundsAssumption, FS_Interval DEF Threads
  <2> QED
    BY <2>1, FS_Subset, FS_CardinalityType
<1>2. Sizes \subseteq Nat /\ Sizes # {}
  BY <1>1 DEF Ring
<1>3. PICK m \in Sizes : \A k \in Sizes : m <= k
  BY <1>2, LeastOf
<1>4. PICK C \in SUBSET Threads : Ring(C) /\ Cardinality(C) = m
  BY <1>3
<1>5. PICK u \in C : \A t \in C : u \notin HeldBy(t)
  BY <1>4 DEF Ring, NoRing
<1> DEFINE R == C \ {u}
<1>6. Ring(R)
  BY <1>4, <1>5 DEF Ring
<1>7. Cardinality(R) = Cardinality(C) - 1
  BY <1>1, <1>4, FS_RemoveElement
<1>8. Cardinality(R) \in Sizes
  BY <1>6
<1>9. m <= m - 1 /\ m \in Nat
  BY <1>2, <1>3, <1>4, <1>7, <1>8
<1> QED
  BY <1>9

LEMMA LiveRuns == LiveInv => SomebodyRuns
<1> SUFFICES ASSUME LiveInv, ~Over,
                    \A t \in Threads :
                       (t # Main /\ th[t].at \in {"idle", "done"}) \/ Waits(t)
             PROVE  FALSE
  BY DEF SomebodyRuns
<1>1. \A t \in Threads : th[t].at \in Inside => FALSE
  BY DEF Waits, Inside, At
<1>2. lock = Nobody
  BY <1>1 DEF LiveInv, Inv, Kept
<1> DEFINE S == {t \in Threads :
                    /\ At(t, "join") /\ th[t].batch # <<>>
                    /\ Heed(t) # Nobody /\ ~At(Heed(t), "done")}
<1>3. \A t \in Threads :
         (t # Main /\ th[t].at \in {"idle", "done"}) \/ t \in S
  BY <1>2 DEF Waits, Heed
<1>4. Main \in S
  BY <1>3, ThreadsAre
<1>5. ASSUME NEW t \in S
      PROVE  Heed(t) \in S /\ Heed(t) \in HeldBy(t)
  <2>1. th[t].batch \in Seq((Threads \ {Main}) \cup {Nobody})
    BY BatchIs DEF LiveInv
  <2>2. 1 \in DOMAIN th[t].batch /\ Heed(t) = th[t].batch[1]
    BY <1>5, <2>1 DEF Heed
  <2>3. Heed(t) \in Threads
    BY <1>5, <2>1, <2>2
  <2>4. th[Heed(t)].at # "idle"
    BY <1>5, <2>2 DEF LiveInv, JoinsAreLive
  <2>5. Heed(t) \in S
    BY <1>3, <1>5, <2>3, <2>4 DEF At
  <2> QED
    BY <2>2, <2>5 DEF HeldBy, Items
<1>6. Ring(S)
  BY <1>4, <1>5 DEF Ring
<1> QED
  BY <1>6, NoRingIs DEF LiveInv, AwaitInv

(* clib build: a thread is joined once, by the call that started it, and   *)
(* it is there until then.                                                 *)
THEOREM BuildJoinsOnce == Spec => []JoinsAreLive
<1>1. LiveInv => JoinsAreLive
  BY DEF LiveInv
<1> QED
  BY <1>1, BuildLive, PTL

(* clib build: until the program is over a thread can go on, for packages  *)
(* that depend on each other in any way, however many threads there are    *)
(* and whoever unlocks the mutex of the cache.                             *)
THEOREM BuildGoesOn == Spec => []SomebodyRuns
  BY BuildLive, LiveRuns, PTL

(* clib configure joins its threads as clib build does,                    *)
THEOREM ConfigureJoinsOnce == ConfigureSpec => []JoinsAreLive
<1>1. LiveInv => JoinsAreLive
  BY DEF LiveInv
<1> QED
  BY <1>1, ConfigureLive, PTL

(* and cannot get stuck either.                                            *)
THEOREM ConfigureGoesOn == ConfigureSpec => []SomebodyRuns
  BY ConfigureLive, LiveRuns, PTL

=============================================================================
