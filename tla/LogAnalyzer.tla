---------------------------- MODULE LogAnalyzer -----------------------------
(***************************************************************************)
(* Hw11/log_analyzer.c on top of its thread pool.  A job reads one file    *)
(* line by line and adds each line to the shared map under `mutex'; main   *)
(* awaits the pool and then, without the mutex, picks the ten largest      *)
(* entries of each type, prints them and frees the map.                    *)
(*                                                                         *)
(* The map is what HashMap promises: a partial function from keys to       *)
(* entries.  What a line says is given by Log; the parser's lines that     *)
(* yield no entry are not in it.                                           *)
(***************************************************************************)
EXTENDS ThreadPool, FiniteSetsExt

CONSTANTS
    Strings,     \* urls and referers: keys of one map
    NoReferer,   \* the referer is "-"
    Log,         \* the lines of each file: url, referer and traffic
    TopSize,     \* SIZE_RESULT_ARRAYS
    NoEntry      \* NULL in a result array

ASSUME LogAssumption ==
    /\ NoReferer \notin Strings
    /\ NoEntry \notin Strings
    /\ TopSize \in Nat \ {0}
    /\ \A t \in Tasks : Log[t] \in Seq(
          [url : Strings, referer : Strings \cup {NoReferer}, traffic : Nat])

VARIABLES
    maplock,   \* `mutex': the worker that holds it, or NoThread
    lpc,       \* where each job is in collect_statistics
    line,      \* the line each job is at
    table,     \* `map': key to [type, counter]
    counted,   \* history: the <<file, line, type>> added to a counter
    lost,      \* history: those dropped because HashMap_add failed
    cut,       \* history: the files left before their end, out of memory
    stage,     \* of main: "collect", "iterate", "print", "cleared"
    unseen,    \* the keys HashMap_iterate has not come to
    top        \* stats_url and stats_referer

jobVars == <<maplock, lpc, line, table, counted, lost, cut>>
reportVars == <<stage, unseen, top>>
logVars == <<jobVars, reportVars>>

Types == {"url", "referer"}

LogInit ==
    /\ Init
    /\ maplock = NoThread
    /\ lpc = [w \in Workers |-> "parse"]
    /\ line = [w \in Workers |-> 1]
    /\ table = <<>>
    /\ counted = {}
    /\ lost = {}
    /\ cut = {}
    /\ stage = "collect"
    /\ unseen = {}
    /\ top = [y \in Types |-> [i \in 1..TopSize |-> NoEntry]]

-----------------------------------------------------------------------------
(* A job, in collect_statistics.                                           *)

InJob(w, p) ==
    /\ mpc # "exited"
    /\ wpc[w] = "running"
    /\ lpc[w] = p
    /\ line[w] <= Len(Log[task[w]])

(* The map is safe to touch: main has not begun to read it.                *)
Safe(w, p) == InJob(w, p) /\ stage = "collect"

ThisLine(w) == Log[task[w]][line[w]]

Part(w, y) == <<task[w], line[w], y>>

Step(w, p) == lpc' = [lpc EXCEPT ![w] = p]

(* The end of a line: unlock and go on with the next.                      *)
NextLine(w) ==
    /\ maplock' = NoThread
    /\ Step(w, "parse")
    /\ line' = [line EXCEPT ![w] = @ + 1]

(* `return' in the middle of a file.                                       *)
Abandon(w) ==
    /\ Step(w, "parse")
    /\ line' = [line EXCEPT ![w] = Len(Log[task[w]]) + 1]
    /\ cut' = cut \cup {task[w]}

(* Seeded fault: the counter is set, not added to.                         *)
BumpOverwrites(k, n) == table' = [table EXCEPT ![k].counter = n]

Bump(k, n) == table' = [table EXCEPT ![k].counter = @ + n]

Put(k, y, n) ==
    table' = [s \in DOMAIN table \cup {k} |->
                IF s = k THEN [type |-> y, counter |-> n] ELSE table[s]]

Count(w, y) == counted' = counted \cup {Part(w, y)} /\ UNCHANGED lost

Lose(w, y) == lost' = lost \cup {Part(w, y)} /\ UNCHANGED <<table, counted>>

-----------------------------------------------------------------------------
(* Seeded faults, not part of the program.                                 *)

(* The mutex is not taken.                                                 *)
LockNothing(w) ==
    /\ InJob(w, "parse")
    /\ Step(w, "url")
    /\ UNCHANGED <<vars, reportVars, maplock, line, table, counted, lost, cut>>

(* `return' without pthread_mutex_unlock.                                  *)
EntryFailsLocked(w) ==
    /\ Safe(w, "newurl") \/ Safe(w, "newreferer")
    /\ Abandon(w)
    /\ UNCHANGED <<vars, reportVars, maplock, table, counted, lost>>

(* The entry that is pushed out of its place is dropped.                   *)
CarriedOnce(array, k) ==
    LET here == {i \in 1..TopSize :
                    array[i] = NoEntry \/ table[array[i]].counter < table[k].counter}
    IN  [i \in 1..TopSize |->
            IF here # {} /\ i = Min(here) THEN k ELSE array[i]]

-----------------------------------------------------------------------------
(* The steps of a job.                                                     *)

(* The url cannot be allocated: the rest of the file is given up.          *)
ParseFails(w) ==
    /\ InJob(w, "parse")
    /\ Abandon(w)
    /\ UNCHANGED <<vars, reportVars, maplock, table, counted, lost>>

LockMap(w) ==
    /\ InJob(w, "parse")
    /\ maplock = NoThread
    /\ maplock' = w
    /\ Step(w, "url")
    /\ UNCHANGED <<vars, reportVars, line, table, counted, lost, cut>>

(* Lines 186 and 204: the url is known.                                    *)
AddTraffic(w) ==
    /\ Safe(w, "url")
    /\ ThisLine(w).url \in DOMAIN table
    /\ Bump(ThisLine(w).url, ThisLine(w).traffic)
    /\ Count(w, "url")
    /\ Step(w, "referer")
    /\ UNCHANGED <<vars, reportVars, maplock, line, cut>>

(* Line 187: the url is new.                                               *)
MissUrl(w) ==
    /\ Safe(w, "url")
    /\ ThisLine(w).url \notin DOMAIN table
    /\ Step(w, "newurl")
    /\ UNCHANGED <<vars, reportVars, maplock, line, table, counted, lost, cut>>

(* Lines 196-202: a new entry, which HashMap_add may fail to store; the    *)
(* program prints a message and goes on.                                   *)
NewUrl(w) ==
    /\ Safe(w, "newurl")
    /\ \/ Put(ThisLine(w).url, "url", ThisLine(w).traffic) /\ Count(w, "url")
       \/ Lose(w, "url")
    /\ Step(w, "referer")
    /\ UNCHANGED <<vars, reportVars, maplock, line, cut>>

(* Lines 189-195 and 210-216: no memory for the entry.                     *)
EntryFails(w) ==
    /\ Safe(w, "newurl") \/ Safe(w, "newreferer")
    /\ Abandon(w)
    /\ maplock' = NoThread
    /\ UNCHANGED <<vars, reportVars, table, counted, lost>>

(* Line 207: the line has no referer, or no memory was found for it.       *)
NoRefererHere(w) ==
    /\ Safe(w, "referer")
    /\ IF ThisLine(w).referer = NoReferer
       THEN UNCHANGED lost
       ELSE lost' = lost \cup {Part(w, "referer")}
    /\ NextLine(w)
    /\ UNCHANGED <<vars, reportVars, table, counted, cut>>

(* Lines 208 and 225: the referer is known, as a referer or as a url.      *)
AddReferer(w) ==
    /\ Safe(w, "referer")
    /\ ThisLine(w).referer \in DOMAIN table
    /\ Bump(ThisLine(w).referer, 1)
    /\ Count(w, "referer")
    /\ NextLine(w)
    /\ UNCHANGED <<vars, reportVars, cut>>

(* Line 209: the referer is new.                                           *)
MissReferer(w) ==
    /\ Safe(w, "referer")
    /\ ThisLine(w).referer \in Strings \ DOMAIN table
    /\ Step(w, "newreferer")
    /\ UNCHANGED <<vars, reportVars, maplock, line, table, counted, lost, cut>>

(* Lines 217-223.                                                          *)
NewReferer(w) ==
    /\ Safe(w, "newreferer")
    /\ \/ Put(ThisLine(w).referer, "referer", 1) /\ Count(w, "referer")
       \/ Lose(w, "referer")
    /\ NextLine(w)
    /\ UNCHANGED <<vars, reportVars, cut>>

(* The job goes on with the map while main iterates over it, or after main *)
(* has freed it: undefined from here on.                                   *)
Race(w) ==
    /\ \E p \in {"url", "newurl", "referer", "newreferer"} : InJob(w, p)
    /\ stage # "collect"
    /\ Move(w, "stray")
    /\ UNCHANGED <<pool, mutex, queue, counter, task, done, spurious,
                   clientVars, logVars>>

-----------------------------------------------------------------------------
(* The pool's own steps.  A job starts at the first line and ends after    *)
(* the last.                                                               *)

StartJob(w) ==
    /\ Take(w)
    /\ line' = [line EXCEPT ![w] = 1]
    /\ UNCHANGED <<maplock, lpc, table, counted, lost, cut, reportVars>>

EndJob(w) ==
    /\ Finish(w)
    /\ lpc[w] = "parse"
    /\ line[w] > Len(Log[task[w]])
    /\ UNCHANGED logVars

PoolStep(w) ==
    /\ \/ Lock(w)
       \/ Wait(w)
       \/ Reacquire(w)
       \/ DieWaiting(w)
       \/ DieRunning(w)
       \/ Stray(w)
    /\ UNCHANGED logVars

-----------------------------------------------------------------------------
(* The report.                                                             *)

(* What the loop of filter_statistics still has to place when it comes to  *)
(* index i, and what it leaves behind there.                               *)
Carried(array, k) ==
    LET less(x, y) == table[x].counter < table[y].counter
        carry[i \in 1..TopSize] ==
            IF i = 1 THEN k
            ELSE CASE carry[i - 1] = NoEntry -> NoEntry
                   [] array[i - 1] = NoEntry -> NoEntry
                   [] OTHER -> IF less(array[i - 1], carry[i - 1])
                               THEN array[i - 1] ELSE carry[i - 1]
    IN  [i \in 1..TopSize |->
            IF carry[i] = NoEntry THEN array[i]
            ELSE IF array[i] = NoEntry THEN carry[i]
            ELSE IF less(array[i], carry[i]) THEN carry[i] ELSE array[i]]

(* main calls HashMap_iterate.  After DgdPool_create has failed the map is *)
(* empty and so is the report.                                             *)
StartReport ==
    /\ mpc = "report"
    /\ stage = "collect"
    /\ stage' = "iterate"
    /\ unseen' = DOMAIN table
    /\ UNCHANGED <<vars, jobVars, top>>

(* filter_statistics, for the next key in the order of the slots.          *)
Filter(k) ==
    /\ mpc = "report"
    /\ stage = "iterate"
    /\ k \in unseen
    /\ unseen' = unseen \ {k}
    /\ top' = [top EXCEPT ![table[k].type] = Carried(@, k)]
    /\ UNCHANGED <<vars, jobVars, stage>>

PrintTop ==
    /\ mpc = "report"
    /\ stage = "iterate"
    /\ unseen = {}
    /\ stage' = "print"
    /\ UNCHANGED <<vars, jobVars, unseen, top>>

ClearMap ==
    /\ mpc = "report"
    /\ stage = "print"
    /\ stage' = "cleared"
    /\ table' = <<>>
    /\ UNCHANGED <<vars, maplock, lpc, line, counted, lost, cut, unseen, top>>

Main ==
    \/ (mpc # "report" /\ Client) /\ UNCHANGED logVars
    \/ StartReport
    \/ \E k \in unseen : Filter(k)
    \/ PrintTop
    \/ ClearMap
    \/ (stage = "cleared" /\ Exit) /\ UNCHANGED logVars

Job(w) ==
    \/ LockMap(w)
    \/ AddTraffic(w)
    \/ MissUrl(w)
    \/ NewUrl(w)
    \/ EntryFails(w)
    \/ NoRefererHere(w)
    \/ AddReferer(w)
    \/ MissReferer(w)
    \/ NewReferer(w)
    \/ Race(w)

Thread(w) == Job(w) \/ StartJob(w) \/ EndJob(w) \/ PoolStep(w)

LogNext ==
    \/ Main
    \/ \E w \in Workers : Thread(w) \/ ParseFails(w)
    \/ \E w \in Workers : SpuriousWakeup(w) /\ UNCHANGED logVars
    \/ Terminated /\ UNCHANGED logVars

LogSpec == LogInit /\ [][LogNext]_<<vars, logVars>>

(* The scheduler runs main and every worker that can run.  The allocation  *)
(* before the lock need not fail, so it does not help a job that waits.    *)
LogFairSpec ==
    /\ LogSpec
    /\ WF_<<vars, logVars>>(Main)
    /\ \A w \in Workers : WF_<<vars, logVars>>(Thread(w))

-----------------------------------------------------------------------------
Undefined == \E w \in Workers : wpc[w] = "stray"

(* HashMap_add is called only for a key that is not in the map, which is   *)
(* what HashMap needs of its callers: no other job can add the key between *)
(* the lookup and the call.                                                *)
AddIsMissing ==
    stage = "collect" =>
        \A w \in Workers : wpc[w] = "running" =>
            /\ lpc[w] = "newurl" => ThisLine(w).url \notin DOMAIN table
            /\ lpc[w] = "newreferer" => ThisLine(w).referer \notin DOMAIN table

(* What a counted part of a line adds to the entry of k.                   *)
Weight(k, part) ==
    LET l == Log[part[1]][part[2]]
    IN  IF part[3] = "url"
        THEN IF l.url = k THEN l.traffic ELSE 0
        ELSE IF l.referer = k THEN 1 ELSE 0

(* Jobs that add to the same entry do not overwrite each other: an entry   *)
(* is the sum over all lines added to it, of whatever file.  And when a    *)
(* job is done, each line of its file has been added to the map, or was    *)
(* lost to a failed allocation: none is skipped and none added twice.      *)
TotalsExact ==
    /\ stage # "cleared" =>
          \A k \in DOMAIN table :
              table[k].counter =
                  MapThenSumSet(LAMBDA part : Weight(k, part), counted)
    /\ \A t \in done \ cut : \A i \in DOMAIN Log[t] :
          /\ <<t, i, "url">> \in counted \cup lost
          /\ Log[t][i].referer # NoReferer =>
                  <<t, i, "referer">> \in counted \cup lost

(* The printed arrays are the largest entries of each type, in descending  *)
(* order, whatever the order of the slots.                                 *)
TopIsRight ==
    stage = "print" /\ ~Undefined =>
        \A y \in Types :
            LET shown == {i \in 1..TopSize : top[y][i] # NoEntry}
                keys == {k \in DOMAIN table : table[k].type = y}
                best == {top[y][i] : i \in shown}
            IN  /\ Cardinality(best) = Cardinality(shown)
                /\ best \subseteq keys
                /\ Cardinality(best) = Min({TopSize, Cardinality(keys)})
                /\ \A i, j \in shown : i < j =>
                        table[top[y][i]].counter >= table[top[y][j]].counter
                /\ \A k \in keys \ best : \A b \in best :
                        table[k].counter <= table[b].counter

(* A worker for which Thread has a step: it can have the mutex it wants,   *)
(* that of the pool or that of the map.                                    *)
CanGoOn(w) ==
    \/ wpc[w] = "holding"
    \/ wpc[w] \in {"start", "woken"} /\ mutex = NoThread
    \/ /\ wpc[w] = "running"
       /\ IF line[w] <= Len(Log[task[w]])
          THEN lpc[w] = "parse" => maplock = NoThread
          ELSE lpc[w] = "parse"

(* DgdPool_await spins for a reason: as long as the counter is not what it *)
(* waits for, some worker can go on.  The jobs cannot block each other for *)
(* good, whichever of their exits they took with the two mutexes.          *)
AwaitGoesOn ==
    mpc = "await" =>
        counter = Cardinality(Workers) \/ \E w \in Workers : CanGoOn(w)

(* The program always comes to its end, whatever fails on the way.         *)
ProgramEnds == <>(mpc = "exited")

=============================================================================
