------------------------------ MODULE ClibBuild -----------------------------
(***************************************************************************)
(* Hw08, clib-build.c: clib build runs the makefile of a package and then  *)
(* builds the packages it depends on, each in a thread of its own, which   *)
(* does the same.  The packages that have been looked after are noted in   *)
(* the map `built', under the path of their manifest.                      *)
(*                                                                         *)
(* A thread runs build_package once; main runs it for each of its          *)
(* arguments.  The sections under the mutex of clib-build.c let nobody see *)
(* their middle and are one step each.  Those under the mutex of           *)
(* clib-package.c, which guards the cache of manifests, are not, since     *)
(* that mutex is also unlocked by threads that do not hold it.             *)
(* An argument is a package in the directory of dependencies; a manifest   *)
(* on disk is JSON.  Compiler flags and prefixes in the environment are    *)
(* not modelled.                                                           *)
(***************************************************************************)
EXTENDS Integers, Sequences, FiniteSets

CONSTANTS
    Packages,
    Deps, Devs,    \* (development) dependencies in the manifest of a package
    Filename,      \* the number of the manifest's name, 0 if it is not there
    Makefiles,     \* the packages with a makefile
    Root,          \* the package in the current directory
    Invocations,   \* command lines: [args, dev (-d)]
    Concurrency,   \* opts.concurrency (-C)
    Retries,       \* requests for a manifest
    MaxThreads     \* bound on the threads, not met

ASSUME PackagesAssumption ==
    /\ Deps \in [Packages -> Seq(Packages)] /\ Devs \in [Packages -> Seq(Packages)]
    /\ Filename \in [Packages -> 0..2]
    /\ Makefiles \subseteq Packages /\ Root \in Packages

ASSUME InvocationsAssumption ==
    \A c \in Invocations : c.args \in Seq(Packages) /\ c.dev \in BOOLEAN

ASSUME BoundsAssumption ==
    /\ Concurrency \in Nat \ {0}
    /\ Retries \in Nat /\ MaxThreads \in Nat

VARIABLES
    th,        \* the state of each thread
    asked,     \* the command line
    args,      \* the arguments main has yet to look at
    built,     \* the packages in `built'
    lock,      \* who holds the mutex of clib-package.c
    code,      \* how the program stands
    stolen,    \* history: a mutex was unlocked that another thread held
    forsaken,  \* history: threads whose creator returned before they ended
    mishap     \* history: a manifest, a makefile or a thread failed

vars == <<th, asked, args, built, lock, code, stolen, forsaken, mishap>>
lockVars == <<lock, stolen>>
pastVars == <<forsaken, mishap>>
mainVars == <<asked, args, code>>

Main == 0
Threads == 0..MaxThreads
Nobody == -1

(* The package of a call is in the current directory ("here"), in the      *)
(* directory of dependencies ("deps") or known by its slug only ("slug").  *)
NoCall == [at |-> "idle", pkg |-> Root, place |-> "here", file |-> 1,
           phase |-> "own", todo |-> <<>>, tries |-> 0, names |-> 0,
           batch |-> <<>>, rc |-> 0]

Call(p, place, at) == [NoCall EXCEPT !.pkg = p, !.place = place, !.at = at]

At(t, label) == th[t].at = label

Become(t, r) == th' = [th EXCEPT ![t] = r]

Goto(t, label) == Become(t, [th[t] EXCEPT !.at = label])

(* build_package_with_manifest_name returns rc: a failure with clib.json   *)
(* is followed by package.json.                                            *)
Result(t, rc) ==
    LET again == rc # 0 /\ th[t].file = 1
    IN  Become(t, [th[t] EXCEPT !.at = IF again THEN "look" ELSE "done",
                                !.file = IF again THEN 2 ELSE @,
                                !.phase = "own", !.todo = <<>>,
                                !.batch = <<>>, !.rc = rc])

Key(t) == <<th[t].place, th[t].pkg, th[t].file>>

(* The process dies, or ends, and all its threads with it.                 *)
End(status) ==
    /\ th' = [t \in Threads |-> NoCall]
    /\ args' = <<>> /\ code' = status
    /\ lock' = Nobody /\ forsaken' = {}
    /\ UNCHANGED <<asked, built, stolen, mishap>>

Init ==
    /\ th = [t \in Threads |-> NoCall]
    /\ asked \in Invocations /\ args = asked.args
    /\ built = {} /\ lock = Nobody /\ code = "running"
    /\ stolen = FALSE /\ forsaken = {} /\ mishap = FALSE

-----------------------------------------------------------------------------
(* Seeded faults, not part of the program.                                 *)

(* The threads of a batch that is not full are not joined.                 *)
AllStartedUnjoined(t) ==
    /\ At(t, "deps") /\ th[t].todo = <<>>
    /\ IF th[t].phase = "deps" /\ asked.dev
       THEN Become(t, [th[t] EXCEPT !.phase = "dev", !.todo = Devs[th[t].pkg]])
       ELSE Result(t, th[t].rc)
    /\ UNCHANGED <<mainVars, built, lockVars, pastVars>>

(* The manifest is saved without the mutex.                                *)
LockAgainNot(t) ==
    /\ At(t, "keep")
    /\ Goto(t, "saving")
    /\ UNCHANGED <<mainVars, built, lockVars, pastVars>>

(* A full batch ends the loop over the dependencies.                       *)
JoinedLeaves(t) ==
    /\ At(t, "join") /\ th[t].batch = <<>>
    /\ Become(t, [th[t] EXCEPT !.at = "deps", !.todo = <<>>])
    /\ UNCHANGED <<mainVars, built, lockVars, pastVars>>

(* Every failed request is followed by another.                            *)
NotFetchedAnyway(t) ==
    /\ At(t, "get") /\ th[t].tries > 0
    /\ lock' = Nobody /\ stolen' = (stolen \/ lock \notin {t, Nobody})
    /\ UNCHANGED <<th, mainVars, built, pastVars>>

-----------------------------------------------------------------------------
(* main.                                                                   *)

NextArg ==
    /\ code = "running" /\ At(Main, "idle") /\ args # <<>>
    /\ Become(Main, Call(Head(args), "deps", "look"))
    /\ args' = Tail(args)
    /\ UNCHANGED <<asked, built, lockVars, code, pastVars>>

(* Without arguments, the package in the current directory.                *)
NoArgs ==
    /\ code = "running" /\ At(Main, "idle") /\ args = <<>>
    /\ Become(Main, Call(Root, "here", "look"))
    /\ UNCHANGED <<mainVars, built, lockVars, pastVars>>

(* What could not be built in the directory of dependencies is tried again *)
(* by its name; main returns the result of the last.                       *)
ArgDone ==
    /\ At(Main, "done")
    /\ LET r == th[Main]
       IN  Become(Main, IF r.rc # 0 /\ r.place = "deps"
                        THEN Call(r.pkg, "slug", "look")
                        ELSE [r EXCEPT !.at = IF args = <<>> THEN "free" ELSE "idle"])
    /\ UNCHANGED <<mainVars, built, lockVars, pastVars>>

(* `built' and the packages are freed.                                     *)
Free ==
    /\ At(Main, "free")
    /\ Goto(Main, "freed")
    /\ UNCHANGED <<mainVars, built, lockVars, pastVars>>

Exit ==
    /\ At(Main, "freed")
    /\ End(IF th[Main].rc = 0 THEN "ok" ELSE "failed")

-----------------------------------------------------------------------------
(* build_package_with_manifest_name up to the makefile.                    *)

(* A thread takes its directory from the array of its creator.             *)
Begin(t) ==
    /\ At(t, "start")
    /\ Goto(t, "look")
    /\ UNCHANGED <<mainVars, built, lockVars, pastVars>>

Look(t) ==
    /\ At(t, "look")
    /\ IF Key(t) \in built THEN Result(t, 0) ELSE Goto(t, "read")
    /\ UNCHANGED <<mainVars, built, lockVars, pastVars>>

(* clib_package_new_from_slug, for the package or for a dependency.        *)
AskFor(t, r) == Become(t, [r EXCEPT !.at = "slug", !.tries = Retries, !.names = 1])

(* A manifest that is not there is asked for, with the directory as slug.  *)
Read(t) ==
    /\ At(t, "read")
    /\ IF th[t].place # "slug" /\ Filename[th[t].pkg] = th[t].file
       THEN Goto(t, "have")
       ELSE AskFor(t, th[t])
    /\ UNCHANGED <<mainVars, built, lockVars, pastVars>>

(* The result of make is overwritten by that of pthread_mutex_lock.        *)
Make(t) ==
    /\ At(t, "have") /\ th[t].pkg \in Makefiles
    /\ Goto(t, "mark")
    /\ \E works \in BOOLEAN : mishap' = (mishap \/ ~works)
    /\ UNCHANGED <<mainVars, built, lockVars, forsaken>>

Marked(t) ==
    /\ built' = built \cup {Key(t)}
    /\ Become(t, [th[t] EXCEPT !.at = "deps", !.phase = "deps", !.rc = 0,
                               !.todo = Deps[th[t].pkg]])
    /\ UNCHANGED <<mainVars, lockVars, pastVars>>

Mark(t) ==
    /\ At(t, "mark") \/ (At(t, "have") /\ th[t].pkg \notin Makefiles)
    /\ Marked(t)

-----------------------------------------------------------------------------
(* clib_package_new_from_slug with the mutex of clib-package.c.            *)

Unlock(t) ==
    /\ lock' = Nobody
    /\ stolen' = (stolen \/ lock \notin {t, Nobody})

Lock(t) ==
    /\ At(t, "slug") /\ lock = Nobody
    /\ lock' = t
    /\ Goto(t, "held")
    /\ UNCHANGED <<mainVars, built, stolen, pastVars>>

(* A directory is no slug a manifest could be known by.                    *)
Known(t) == th[t].phase # "own" \/ th[t].place = "slug"

Cached(t) ==
    /\ At(t, "held") /\ Known(t)
    /\ Unlock(t) /\ Goto(t, "parse")
    /\ UNCHANGED <<mainVars, built, pastVars>>

NotCached(t) ==
    /\ At(t, "held")
    /\ Unlock(t) /\ Goto(t, "get")
    /\ UNCHANGED <<mainVars, built, pastVars>>

Fetched(t) ==
    /\ At(t, "get") /\ th[t].tries > 0 /\ Known(t)
    /\ Goto(t, "parse")
    /\ UNCHANGED <<mainVars, built, lockVars, pastVars>>

(* Back to the label download, which unlocks once more.                    *)
NotFetched(t) ==
    /\ At(t, "get") /\ th[t].tries > 0
    /\ Unlock(t)
    /\ Become(t, [th[t] EXCEPT !.tries = @ - 1])
    /\ UNCHANGED <<mainVars, built, pastVars>>

Parsed(t) ==
    /\ At(t, "parse")
    /\ Goto(t, "keep")
    /\ UNCHANGED <<mainVars, built, lockVars, pastVars>>

(* There was no answer to the last request, or none that is a manifest.    *)
NoAnswer(t) == (At(t, "get") /\ th[t].tries = 0) \/ At(t, "parse")

NextName(t) ==
    /\ NoAnswer(t) /\ th[t].names > 0
    /\ Become(t, [th[t] EXCEPT !.at = "slug", !.tries = Retries, !.names = @ - 1])
    /\ UNCHANGED <<mainVars, built, lockVars, pastVars>>

NoManifest(t) == NoAnswer(t) /\ th[t].names = 0

LockAgain(t) ==
    /\ At(t, "keep") /\ lock = Nobody
    /\ lock' = t
    /\ Goto(t, "saving")
    /\ UNCHANGED <<mainVars, built, stolen, pastVars>>

Saved(t) ==
    /\ At(t, "saving")
    /\ Unlock(t)
    /\ Goto(t, IF th[t].phase = "own" THEN "have" ELSE "create")
    /\ UNCHANGED <<mainVars, built, pastVars>>

(* The package itself has no manifest.                                     *)
NoPackage(t) ==
    /\ NoManifest(t) /\ th[t].phase = "own"
    /\ Result(t, -1)
    /\ mishap' = (mishap \/ th[t].file = 2)
    /\ UNCHANGED <<mainVars, built, lockVars, forsaken>>

(* A dependency has none: the threads started so far are left to run.      *)
NoDependency(t) ==
    /\ NoManifest(t) /\ th[t].phase = "deps"
    /\ Result(t, -1)
    /\ mishap' = TRUE
    /\ forsaken' = forsaken \cup {th[t].batch[k] : k \in DOMAIN th[t].batch}
    /\ UNCHANGED <<mainVars, built, lockVars>>

(* A development dependency has none: its name is read from a null pointer.*)
NullDependency(t) ==
    /\ NoManifest(t) /\ th[t].phase = "dev"
    /\ End("crashed")

-----------------------------------------------------------------------------
(* The threads for the dependencies.                                       *)

NextDep(t) ==
    /\ At(t, "deps") /\ th[t].todo # <<>>
    /\ AskFor(t, th[t])
    /\ UNCHANGED <<mainVars, built, lockVars, pastVars>>

Unused == {u \in Threads \ {Main} : th[u] = NoCall}

(* The slot of the next thread; a batch that is full is joined.            *)
Started(t, u, rc) ==
    LET batch == Append(th[t].batch, u)
    IN  [th[t] EXCEPT !.at = IF Len(batch) >= Concurrency THEN "join" ELSE "deps",
                      !.todo = Tail(@), !.batch = batch, !.rc = rc]

Create(t) ==
    /\ At(t, "create") /\ Unused # {}
    /\ LET u == CHOOSE u \in Unused : \A w \in Unused : u <= w
       IN  th' = [th EXCEPT ![t] = Started(t, u, 0),
                            ![u] = Call(Head(th[t].todo), "deps", "start")]
    /\ UNCHANGED <<mainVars, built, lockVars, pastVars>>

(* The result of pthread_create is not looked at.                          *)
CreateFails(t) ==
    /\ At(t, "create")
    /\ Become(t, Started(t, Nobody, 1))
    /\ mishap' = TRUE
    /\ UNCHANGED <<mainVars, built, lockVars, forsaken>>

Join(t) ==
    /\ At(t, "join") /\ th[t].batch # <<>>
    /\ LET u == Head(th[t].batch)
           rest == [th[t] EXCEPT !.batch = Tail(@)]
       IN  IF u = Nobody THEN Become(t, rest)
           ELSE At(u, "done") /\ th' = [th EXCEPT ![t] = rest, ![u] = NoCall]
    /\ UNCHANGED <<mainVars, built, lockVars, pastVars>>

(* A slot without a thread holds anything.                                 *)
JoinCrashes(t) ==
    /\ At(t, "join") /\ th[t].batch # <<>> /\ Head(th[t].batch) = Nobody
    /\ End("crashed")

Joined(t) ==
    /\ At(t, "join") /\ th[t].batch = <<>>
    /\ Goto(t, "deps")
    /\ UNCHANGED <<mainVars, built, lockVars, pastVars>>

(* The rest is joined; then come the development dependencies, or the end. *)
AllStarted(t) ==
    /\ At(t, "deps") /\ th[t].todo = <<>>
    /\ IF th[t].batch # <<>> THEN Goto(t, "join")
       ELSE IF th[t].phase = "deps" /\ asked.dev
       THEN Become(t, [th[t] EXCEPT !.phase = "dev", !.todo = Devs[th[t].pkg]])
       ELSE Result(t, th[t].rc)
    /\ UNCHANGED <<mainVars, built, lockVars, pastVars>>

-----------------------------------------------------------------------------

MainStep == NextArg \/ NoArgs \/ ArgDone \/ Free \/ Exit

SlugStep(t) ==
    \/ Lock(t) \/ Cached(t) \/ NotCached(t) \/ Fetched(t) \/ NotFetched(t)
    \/ Parsed(t) \/ NextName(t) \/ LockAgain(t) \/ Saved(t)

DepStep(t) ==
    \/ NextDep(t) \/ Create(t) \/ CreateFails(t) \/ Join(t) \/ JoinCrashes(t)
    \/ Joined(t) \/ AllStarted(t)

Step(t) ==
    \/ Begin(t) \/ Look(t) \/ Read(t) \/ Make(t) \/ Mark(t)
    \/ SlugStep(t) \/ NoPackage(t) \/ NoDependency(t) \/ NullDependency(t)
    \/ DepStep(t)

Over == code # "running"

Next ==
    \/ MainStep
    \/ \E t \in Threads : Step(t)
    \/ Over /\ UNCHANGED vars

Spec == Init /\ [][Next]_vars

(* Threads are scheduled, and commands and requests come to an end.  The   *)
(* mutex need not be fair: every thread takes it a few times only.         *)
FairSpec == Spec /\ WF_vars(MainStep) /\ \A t \in Threads : WF_vars(Step(t))

-----------------------------------------------------------------------------
(* Properties.                                                             *)

(* A thread is joined by the call that started it, before the array it     *)
(* took its directory from is gone and before main frees `built' -- unless *)
(* a dependency had no manifest, which makes the call return at once.      *)
ThreadsAreAwaited ==
    /\ \A u \in Threads \ {Main} :
        \/ th[u].at = "idle" \/ u \in forsaken
        \/ \E t \in Threads : \E k \in DOMAIN th[t].batch : th[t].batch[k] = u
    /\ At(Main, "freed") /\ forsaken = {} =>
        \A u \in Threads \ {Main} : th[u] = NoCall

(* pthread_join is called for a thread once: a slot of a batch holds a     *)
(* thread that has not been joined, and no other slot of any batch holds   *)
(* it, whatever order the threads end in and whoever starts the next.      *)
JoinsAreLive ==
    \A t \in Threads : \A k \in DOMAIN th[t].batch :
        th[t].batch[k] # Nobody =>
            /\ th[th[t].batch[k]].at # "idle"
            /\ \A v \in Threads : \A i \in DOMAIN th[v].batch :
                  th[v].batch[i] = th[t].batch[k] => v = t /\ i = k

(* The thread waits for the mutex of clib-package.c, or for another one.   *)
Waits(t) ==
    \/ th[t].at \in {"slug", "keep"} /\ lock # Nobody
    \/ /\ At(t, "join") /\ th[t].batch # <<>>
       /\ Head(th[t].batch) # Nobody /\ ~At(Head(th[t].batch), "done")

(* As long as the program is not over there is a thread that can go on:    *)
(* whoever holds the mutex releases it, however often it has been unlocked *)
(* for somebody else, and threads do not wait for each other in a ring.    *)
SomebodyRuns ==
    Over \/ \E t \in Threads :
               /\ t # Main => th[t].at \notin {"idle", "done"}
               /\ ~Waits(t)

(* One thread at a time is inside the cache of manifests, until a request  *)
(* that is tried again unlocks the mutex of another thread.                *)
CacheIsGuarded ==
    ~stolen => {t \in Threads : th[t].at \in {"held", "saving"}} \subseteq {lock}

(* What is asked for needs: it and all it depends on.                      *)
Closed(S) ==
    \A p \in S :
        /\ \A k \in DOMAIN Deps[p] : Deps[p][k] \in S
        /\ asked.dev => \A k \in DOMAIN Devs[p] : Devs[p][k] \in S

Wanted == IF asked.args = <<>> THEN {Root}
          ELSE {asked.args[k] : k \in DOMAIN asked.args}

Needed == {p \in Packages : \A S \in SUBSET Packages :
                                Closed(S) /\ Wanted \subseteq S => p \in S}

(* When main returns 0, every package that is needed has been looked       *)
(* after, also one that another thread was at work on -- unless a manifest *)
(* or a thread could not be had or a makefile failed (of which main may    *)
(* hear nothing).                                                          *)
SuccessMeansBuilt ==
    code = "ok" /\ ~mishap => \A p \in Needed : \E b \in built : b[2] = p

(* The program ends, also when packages depend on each other.              *)
BuildEnds == <>Over

=============================================================================
