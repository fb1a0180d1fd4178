------------------------------ MODULE ClibFetch -----------------------------
(***************************************************************************)
(* Hw08, clib-package.c: how clib_package_install downloads the sources of *)
(* one package, a thread for each, joins the threads in batches, saves the *)
(* directory in the cache and frees the package.                           *)
(*                                                                         *)
(* Source f is the f-th of pkg->src; no two have the same base name, so    *)
(* each has a file of its own.  A step is what happens between two points  *)
(* where main or a thread may be interrupted: taking or dropping the lock, *)
(* opening and filling a file, and the read and the write of pkg->refs,    *)
(* which no lock protects.  Messages are not modelled, nor the times the   *)
(* lock is held to print one.                                              *)
(***************************************************************************)
EXTENDS Integers, FiniteSets

CONSTANTS
    Sources,       \* pkg->src->len
    Concurrency,   \* opts.concurrency
    Forced,        \* opts.force
    StartsFail     \* malloc and pthread_create may fail

ASSUME SourcesAssumption == Sources \in Nat \ {0} /\ Concurrency \in Nat

ASSUME OptionsAssumption == Forced \in BOOLEAN /\ StartsFail \in BOOLEAN

Files == 1..Sources
Nobody == 0        \* no file, and no holder of the lock
Main == Sources + 1

VARIABLES
    pc,        \* where main is
    next,      \* the source the list iterator stands at
    i,         \* the index i
    fetchs,    \* the thread in each slot, as its source, or Nobody
    thread,    \* where each thread is
    joined,    \* sources whose thread has been joined
    lock,      \* the holder of lock.mutex
    refs,      \* pkg->refs
    seen,      \* the value of refs main or a thread has read
    failed,    \* increments of refs without a thread
    disk,      \* the file of each source in the directory of the package
    copy,      \* ... and in the cache; "none" before clib_cache_save_package
    freed,     \* the package has been freed
    raced      \* history: an update of refs was lost

fileVars == <<disk, copy>>
mainVars == <<pc, next, i, fetchs, joined, failed, freed>>
countVars == <<refs, seen, raced>>
vars == <<mainVars, thread, lock, countVars, fileVars>>

FileStates == {"absent", "part", "whole"}

(* The directory may be that of an earlier install.                        *)
Init ==
    /\ pc = "next" /\ next = 1 /\ i = 0
    /\ fetchs = [k \in 0..(Sources - 1) |-> Nobody]
    /\ thread = [f \in Files |-> "none"]
    /\ joined = {} /\ failed = 0 /\ freed = FALSE
    /\ lock = Nobody
    /\ refs = 0 /\ seen = [a \in Files \cup {Main} |-> 0] /\ raced = FALSE
    /\ disk \in [Files -> FileStates]
    /\ copy = [f \in Files |-> "none"]

Move(f, from, to) ==
    /\ thread[f] = from
    /\ thread' = [thread EXCEPT ![f] = to]

Read(a) ==
    /\ seen' = [seen EXCEPT ![a] = refs]
    /\ UNCHANGED <<refs, raced>>

(* What a wrote is based on what it read, whatever happened in between.    *)
Written(a, by) ==
    /\ refs' = seen[a] + by
    /\ raced' = (raced \/ refs # seen[a])
    /\ UNCHANGED seen

-----------------------------------------------------------------------------
(* Seeded faults, not part of the program.                                 *)

(* A download that fails is tried again, for ever.                         *)
BodyRetries(f) ==
    /\ Move(f, "body", "get")
    /\ UNCHANGED <<mainVars, lock, countVars, fileVars>>

(* Nothing is joined after the last source.                                *)
EndOfListUndrained ==
    /\ pc = "next" /\ next \notin Files
    /\ pc' = "save"
    /\ UNCHANGED <<next, i, fetchs, joined, failed, freed, thread, lock,
                   countVars, fileVars>>

(* After a batch the index is at its last slot again.                      *)
JoinedAllKeepsIndex ==
    /\ pc \in {"batch", "drain"} /\ i <= 0
    /\ i' = Concurrency
    /\ pc' = IF pc = "batch" THEN "next" ELSE "save"
    /\ UNCHANGED <<next, fetchs, joined, failed, freed, thread, lock,
                   countVars, fileVars>>

(* The package is freed whatever its count.                                *)
FreeAnyway ==
    /\ pc = "free"
    /\ freed' = TRUE
    /\ pc' = "freed"
    /\ UNCHANGED <<next, i, fetchs, joined, failed, thread, lock, countVars,
                   fileVars>>

-----------------------------------------------------------------------------
(* fetch_package_file, called by main for each source.                     *)

Count ==
    /\ pc = "next" /\ next \in Files
    /\ pc' = "start"
    /\ Read(Main)
    /\ UNCHANGED <<next, i, fetchs, joined, failed, freed, thread, lock,
                   fileVars>>

NoMemory ==
    /\ StartsFail
    /\ pc = "next" /\ next \in Files
    /\ pc' = "free"
    /\ UNCHANGED <<next, i, fetchs, joined, failed, freed, thread, lock,
                   countVars, fileVars>>

(* The increment stays.                                                    *)
CreateFails ==
    /\ StartsFail
    /\ pc = "start"
    /\ Written(Main, 1)
    /\ failed' = failed + 1
    /\ pc' = "free"
    /\ UNCHANGED <<next, i, fetchs, joined, freed, thread, lock, fileVars>>

(* A slot is taken; the slot after the last of a batch is not a new one.   *)
Start ==
    /\ pc = "start"
    /\ Written(Main, 1)
    /\ Move(next, "none", "created")
    /\ next' = next + 1
    /\ LET at == IF i < 0 THEN 0 ELSE i
           full == at >= Concurrency
       IN  /\ fetchs' = [fetchs EXCEPT ![at] = next]
           /\ i' = IF full THEN at ELSE at + 1
           /\ pc' = IF full THEN "batch" ELSE "next"
    /\ UNCHANGED <<joined, failed, freed, lock, fileVars>>

EndOfList ==
    /\ pc = "next" /\ next \notin Files
    /\ pc' = "drain"
    /\ UNCHANGED <<next, i, fetchs, joined, failed, freed, thread, lock,
                   countVars, fileVars>>

-----------------------------------------------------------------------------
(* The loops that join: the one after a full batch and the one at the end. *)

Joins == pc \in {"batch", "drain"}

Join ==
    /\ Joins /\ i > 0
    /\ LET f == fetchs[i - 1]
       IN  /\ f \in Files /\ thread[f] = "done"
           /\ fetchs' = [fetchs EXCEPT ![i - 1] = Nobody]
           /\ joined' = joined \cup {f}
    /\ i' = i - 1
    /\ UNCHANGED <<pc, next, failed, freed, thread, lock, countVars, fileVars>>

JoinedAll ==
    /\ Joins /\ i <= 0
    /\ i' = i - 1
    /\ pc' = IF pc = "batch" THEN "next" ELSE "save"
    /\ UNCHANGED <<next, fetchs, joined, failed, freed, thread, lock,
                   countVars, fileVars>>

(* clib_cache_save_package, with the lock held; threads write without it.  *)
Save ==
    /\ pc = "save" /\ lock = Nobody
    /\ copy' = disk
    /\ pc' = "free"
    /\ UNCHANGED <<next, i, fetchs, joined, failed, freed, thread, lock,
                   countVars, disk>>

(* clib_package_free, by the caller of clib_package_install.               *)
Free ==
    /\ pc = "free"
    /\ freed' = (refs = 0)
    /\ pc' = "freed"
    /\ UNCHANGED <<next, i, fetchs, joined, failed, thread, lock, countVars,
                   fileVars>>

(* main returns, which ends the threads that still run.                    *)
Exit ==
    /\ pc = "freed"
    /\ pc' = "exit"
    /\ thread' = [f \in Files |-> IF thread[f] \in {"none", "done"}
                                  THEN thread[f] ELSE "killed"]
    /\ UNCHANGED <<next, i, fetchs, joined, failed, freed, lock, countVars,
                   fileVars>>

MainStep ==
    \/ Count \/ NoMemory \/ CreateFails \/ Start \/ EndOfList
    \/ Join \/ JoinedAll \/ Save \/ Free \/ Exit

-----------------------------------------------------------------------------
(* fetch_package_file_thread.                                              *)

Look(f) ==
    /\ lock = Nobody
    /\ Move(f, "created", "look")
    /\ lock' = f
    /\ UNCHANGED <<mainVars, countVars, fileVars>>

(* The lock goes on both branches.                                         *)
Decide(f) ==
    /\ Move(f, "look", IF Forced \/ disk[f] = "absent" THEN "get" ELSE "count")
    /\ lock' = Nobody
    /\ UNCHANGED <<mainVars, countVars, fileVars>>

(* http_get_file_shared truncates the file before the request.             *)
Open(f) ==
    /\ Move(f, "get", "body")
    /\ disk' = [disk EXCEPT ![f] = "part"]
    /\ UNCHANGED <<mainVars, lock, countVars, copy>>

OpenFails(f) ==
    /\ Move(f, "get", "count")
    /\ UNCHANGED <<mainVars, lock, countVars, fileVars>>

Body(f) ==
    /\ Move(f, "body", "count")
    /\ disk' = [disk EXCEPT ![f] = "whole"]
    /\ UNCHANGED <<mainVars, lock, countVars, copy>>

BodyFails(f) ==
    /\ Move(f, "body", "count")
    /\ UNCHANGED <<mainVars, lock, countVars, fileVars>>

CountDown(f) ==
    /\ Move(f, "count", "store")
    /\ Read(f)
    /\ UNCHANGED <<mainVars, lock, fileVars>>

End(f) ==
    /\ Move(f, "store", "done")
    /\ Written(f, -1)
    /\ UNCHANGED <<mainVars, lock, fileVars>>

ThreadStep(f) ==
    \/ Look(f) \/ Decide(f) \/ Open(f) \/ OpenFails(f) \/ Body(f)
    \/ BodyFails(f) \/ CountDown(f) \/ End(f)

Ended == pc = "exit" /\ UNCHANGED vars

Next == MainStep \/ (\E f \in Files : ThreadStep(f)) \/ Ended

Spec == Init /\ [][Next]_vars

(* A process that can run does, and every request is answered or fails.    *)
FairSpec ==
    /\ Spec
    /\ WF_vars(MainStep)
    /\ \A f \in Files : WF_vars(ThreadStep(f))

-----------------------------------------------------------------------------
(* Properties.                                                             *)

Idle == {"none", "done", "killed"}

(* The sources whose slot the next batch reuses: with Concurrency + 1      *)
(* threads to a batch, the last is left in its slot and never joined.      *)
Loose == {f \in Files : f % (Concurrency + 1) = 0}

(* The loops that join find a thread in each slot they come to, one that   *)
(* was created and that nobody has joined yet: neither the index nor the   *)
(* reuse of the slots makes them follow a null pointer or join twice.      *)
JoinsAreLive ==
    Joins => \A k \in 0..(i - 1) :
                /\ fetchs[k] \in Files
                /\ thread[fetchs[k]] # "none"
                /\ fetchs[k] \notin joined
                /\ \A l \in 0..(i - 1) : fetchs[k] = fetchs[l] => k = l

(* What is saved in the cache is final: the copy of each source but the    *)
(* loose ones is made after its thread has ended and is what stays in the  *)
(* directory.  (A loose one may be copied while it is written.)            *)
CopyIsFinal ==
    \A f \in Files \ Loose :
        copy[f] # "none" => thread[f] = "done" /\ copy[f] = disk[f]

(* opts.concurrency bounds the downloads: no more than that many run       *)
(* beside the loose ones.                                                  *)
FetchesBounded ==
    Cardinality({f \in Files \ Loose : thread[f] \notin Idle}) <= Concurrency

(* The count keeps the package: while no update of refs is lost, a package *)
(* is freed only when no thread will touch it again.                       *)
FreedIsUnused == freed /\ ~raced => \A f \in Files : thread[f] \in Idle

(* Main joins a thread that still runs, or somebody has the lock it wants. *)
MainWaits ==
    \/ Joins /\ i > 0 /\ thread[fetchs[i - 1]] # "done"
    \/ pc = "save" /\ lock # Nobody

CanGoOn(f) == thread[f] \notin Idle /\ (thread[f] = "created" => lock = Nobody)

(* As long as main has not returned somebody can go on: main, unless it    *)
(* waits, or a thread.  The lock and the joins do not block each other,    *)
(* whichever branch each thread gives up the lock on.                      *)
FetchGoesOn == pc # "exit" => ~MainWaits \/ \E f \in Files : CanGoOn(f)

(* Main and the threads do not wait for each other for ever.               *)
Returns == <>(pc = "exit")

=============================================================================
