# A TLA+ model of OtsProjects

OtsProjects is the homework of a C course: one small program per directory
(`Hw01` to `Hw12`), and in `Hw08` the package manager `clib`, which the author
patched. This directory holds TLA+ modules for the parts that keep state worth
checking, TLC configurations that check them on small instances, and TLAPS
proofs that hold for every instance.

## 1. The system

The programs are independent processes. Code is shared in two places: the hash
map of Hw03 is copied into Hw11, where the log analyzer puts it on top of a
thread pool, and the commands of clib share `clib-package.c` and `clib-cache.c`.

| part | source | state | operations | what is hard |
|---|---|---|---|---|
| thread pool | `Hw11/thread_pool.c` | task list, mutex, condition, counter of waiting threads | create, submit, await, free; the worker loop | workers against main, lost and spurious wakeups, await outside the mutex, cancel without join |
| log analyzer | `Hw11/log_analyzer.c` | one map behind a mutex, two top-10 arrays | read a line, add traffic and referers, merge into the arrays, print | jobs share the map; main reads it without the mutex |
| hash map | `Hw03/hash_map.c`, `Hw11/hash_map.c` | slot array, size, capacity | create, add, get, remove, iterate, clear | probe chains through resizes, removal, two meanings of one result |
| word count | `Hw03/main.c`, `util.c` | the map of words | read a file, count, print | get-miss-then-add on the map, where a word ends |
| file size daemon and client | `Hw09/ots_daemon.c`, `client.c` | lock file with a pid, socket name, configuration, descriptors | lock, bind, serve, shut down, reload | a signal between any two calls, a second daemon, crashes, impatient clients |
| telnet client | `Hw12/telehack_client.c` | connection, phase | connect, read to the prompt, send, read again | the stream is cut anywhere; the peer ends it |
| clib: fetch | `Hw08/clib/src/common/clib-package.c` | slots of download threads, reference count, files | start, join, save in the cache, free | threads nobody joins, an unlocked counter, discarded results |
| clib: install, update, upgrade | `clib-install.c`, `-update.c`, `-upgrade.c`, `clib-package.c` | stack of calls, visited packages, the manifest of the project | manifest, sources, commands, dependencies, saving what was installed | recursion over cyclic dependencies, failures that are not passed on |
| clib: cache | `common/clib-cache.c` | manifests and directories with an age | has, read, save, load, delete | entries left in part, expiry, stale entries |
| clib: build and configure | `clib-build.c`, `-configure.c` | a tree of threads, packages looked after, the mutex of the cache | run the makefile or the command of a package, then of what it depends on | check-then-act on the map, a mutex unlocked by others, discarded results |
| clib: dispatcher, init, search | `clib.c`, `-init.c`, `-search.c` | - | - | command lines, questions to the user, a listing |
| encoding converter | `Hw02/encoding_converter.c`, tables | output | one-byte encodings to UTF-8 | symbols at the edges of the tables and of the UTF-8 ranges |
| weather client | `Hw04/main_weather.c`, `parser_json.c` | receive buffer | grow on each chunk, parse | a chunk larger than the growth step |
| archive check | `Hw01/archive_check.c` | file offset | look for a signature, follow the offsets | the boundaries of the file |
| CRC-32 | `Hw10/crc32_calculator.c` | running checksum | map a file, fold it byte by byte | 256 constants of the table |
| logger | `Hw06/dgd_logger.c` | one `FILE` pointer | init, log, clean | use before init or after clean |
| list | `Hw07/asm_check.c`, `asm/main.asm` | linked list | map, filter, print, free | none: sequential |

How they interact: `main` of Hw11 creates the pool, submits one job per log
file, awaits and frees the pool, then reads the map. Jobs call the map under the
analyzer's mutex. `client.c` meets the daemon through a socket name; daemons meet
each other through the lock file and that name. `clib install` calls itself for
dependencies and leaves its caches and its manifest to the next run, as do
`clib update` and `clib upgrade`; `clib build` and `clib configure` read the
same cache of manifests from many threads.

What makes each part correct:

- thread pool: every task is run exactly once or refused; no task sleeps in the
  queue while all workers sleep; the counter is exact; await means idle.
- log analyzer: no update of an entry is lost, every line is counted, the arrays
  are the true top ten, the program ends whatever fails.
- hash map: what is stored is found, through any resize; there is always a free
  slot to end a search.
- daemon: one daemon at a time, its pid in the file, its name kept; SIGINT cleans
  up whenever it comes; every connected client is told something.
- telnet client: the command follows the whole greeting; what is printed is the
  whole reply; it ends.
- clib: joins meet live threads, what is cached is final, a package in use is not
  freed; installs end; exit code 0 means installed, or built; the manifest lists
  only what was built.
- small programs: the output is what the input means.

`PROJECT.json` lists under `hazards`, each at its line, what is hard to test in
this code, with the properties that would catch it.

## 2. Modules

| module | models | composed of |
|---|---|---|
| `TaskQueue` | what the pool promises: tasks are added, taken in order, finished | - |
| `ThreadPool` | `thread_pool.c` and the calls of main; implements `TaskQueue` | - |
| `LogAnalyzer` | the jobs and the report | EXTENDS `ThreadPool` |
| `KeySet` | what the map promises: a set of keys, one call at a time | - |
| `HashMap` | `hash_map.c`; implements `KeySet` | - |
| `OtsDaemon` | daemons, clients, the kernel's lock and names | - |
| `TelehackClient` | the client, the network, the service | - |
| `ClibFetch` | one package's downloads | - |
| `ClibInstall` | install, update, upgrade, dependencies, cache, manifest, several runs | abstracts `ClibFetch` to one step |
| `ClibBuild` | build: the tree of threads and the mutex of the cache | - |
| `ClibConfigure` | configure | EXTENDS `ClibBuild` |
| `ArchiveCheck`, `EncodingConverter`, `WordCount`, `Crc32`, `WeatherBuffer` | the small programs | - |
| `Programs` | the telnet client and the small programs, one to a behaviour | EXTENDS or INSTANCEs them |
| `...Proofs` | theorems | EXTEND the modules they are about |
| `MC...` | model values of the runs | EXTEND the modules they run |

Each module opens with what a step is and what it leaves out. Operators under
*Seeded faults* are plausible bugs of the code they stand beside; they are used
only to see that a property notices them, and no specification mentions them.

**ThreadPool.** A worker's program counter follows `thread_function`: `start`
(before line 36), `holding` (mutex taken, counted), `sleeping` and `woken`
(around `pthread_cond_wait`), `running` (the job), `dead` (cancelled), `stray`
(has touched freed memory, after which nothing is known of it). A critical
section is one step unless a thread without the mutex can look into it: await
reads `counter` and free reads `queue->head` without. Cancellation takes effect
in `pthread_cond_wait` and in the job only.

**LogAnalyzer.** `table` is the map as a partial function, which `HashMap` shows
it to be for callers that look before they add; `AddIsMissing` shows that the
jobs are such callers. A job is cut at its mutex calls and between the lookup and
the addition. The top-ten insertion is one step per key, in any order of keys.

**HashMap.** A node stands for its key. Only one caller uses a map at a time, so
a call is cut only where its loops turn, to state what holds in the middle. The
hash is any function into `HashValues`. A program may call `HashMap_remove` for
any key at any time; `torn` remembers that it took a node out of a table in which
a chain had wrapped round the end, after which the code loses keys.

**OtsDaemon.** A step is a system call with the code around it. `node` is the
directory entry of each socket name, `holder` the `fcntl` lock, which the kernel
drops when a descriptor is closed or the process dies. SIGINT enters the handler
instead of the next call; SIGHUP rereads the configuration with a `memcpy` that
omits the NUL, which `Overlay` gives for each pair of names, and makes a blocked
`accept` fail; both may come at any point. `late` remembers daemons interrupted
between their unlock and their exit.

**TelehackClient.** A byte is one of those the program can tell apart. `recv`
takes any piece of what has arrived.

**ClibFetch.** `i`, `fetchs` and `pc` are the index, the slots and the two joining
loops of `clib_package_install`. `refs++` and `refs--` are a read and a write, as
the data race allows. `raced` remembers that a write was based on an old value.

**ClibInstall.** A frame of `stack` is a call; its `at` says where it is. A result
of -1 goes all the way up, so it is one step; any other result lets the caller go
on, as the code does. Options are in `asked.opts`; a command line without
arguments installs what `manifest`, the `clib.json` of the current directory,
lists, and `-S` and `-D` rewrite it in place. `clib update` sets "skip"; `clib
upgrade` sets "force" and "global" and installs `Clib`. An entry of the cache may
turn out expired whenever it is looked at. Each run starts in the old directory or
in a new one. `Kill` may strike at any step and leaves in part what is being
written, the manifest included.

**ClibBuild.** `th` holds for main and each thread the state of its call of
`build_package_with_manifest_name`; `place` and `file` are the directory and the
manifest name, which make the key of `built`. What happens under the mutex of
`clib-build.c` is one step. The mutex of `clib-package.c` is not taken that way:
`clib_package_new_from_slug` unlocks it at a label that a failed request jumps
back to, so it is unlocked by threads that do not hold it, and `lock` and
`stolen` follow that. A read of a null pointer, and a join on a slot that no
thread was started for, may end the program (`crashed`).

**ClibConfigure** replaces the makefile by the `configure` command or by the flags
that `--flags` prints, and drops the one null check the two programs differ in;
everything else is the same code under other names and is taken from `ClibBuild`.

**Small programs.** `ArchiveCheck` goes through a file that is a sequence of
places: at one stands the signature of an entry with its name, that of the end
record with the size of the directory, or nothing. `Archive` lays a file out from
what is to be in it; the directory may hold what looks like an entry.
`EncodingConverter` holds the three tables by their ranges and packs UTF-8 into a
number as the code does. `WordCount` reads a character a step and counts in a map
that is a function, as `HashMap` shows. `Crc32` is the table driven loop, compared
with long division of polynomials, computed bit by bit. `WeatherBuffer` is
`write_data` of the weather client; it starts with
`BUFFER_SIZE` pointers, not bytes, of memory. A chunk may be of any length; what a
program does that has written past its block is not known (`overrun`).

## 3. Runs

| run | instance | shows |
|---|---|---|
| `pool` | 3 workers, 3 tasks, 1 spurious wakeup | `TasksConserved`, `NoLostWakeup`, `CounterExact`, `FreeLosesNothingQueued`, `QueuedIsTaken`; ThreadPool implements TaskQueue |
| `pool_idle` (violated) | 2 workers, 2 tasks | await returns while a task is queued |
| `hash_calls` | 4 keys, every hash into {0, 3, 6, 7}, capacity 2 to 8 (648,222 states) | `StoredIsFound`, `RoomIsCounted`; HashMap implements KeySet |
| `log` | 2 workers, 2 files, 3 lines, 3 strings | `AddIsMissing`, `TotalsExact`, `TopIsRight`, `ProgramEnds` (882,628 states) |
| `daemon_names` | 2 daemons, 3 names | `OneDaemon`, `PidFileNamesDaemon`, `ServerIsReachable` |
| `daemon_serve` | 2 daemons, 2 clients, 1 name | types, `NameFreeForBind`, `ClientsAreHeld`, `NoClientIsKept` (220,948 states) |
| `clib_fetch` | 3 sources, concurrency 1 | `JoinsAreLive`, `CopyIsFinal`, `FreedIsUnused`, `Returns` |
| `clib_install` | 5 packages, 7 command lines, 2 runs (245,395 states) | `SkippedIsInProgress`, `SuccessMeansInstalled`, `SavedIsBuilt`, `RunsEnd` |
| `clib_exit` (violated) | the instance of `clib_install`, 1 run | a failed command leaves exit code 0 |
| `clib_build` | 7 packages, batches of 2 threads, both programs (80,638 states) | `ThreadsAreAwaited`, `CacheIsGuarded`, `SuccessMeansBuilt`, `BuildEnds` |
| `programs` | one program on one input to a behaviour (15,408 states) | `WholeConversation`, `EndsUnlessSplit`, `BufferHolds`, `TextIsKept`, `CountsExact`, `CrcIsDivision`, `EntriesAreListed`, `ScanEnds` |
| `telehack_errors` (violated) | the conversation of `programs` | a client whose connection is gone reads for ever |

### Bounds, and why they are enough

- Pool: with three workers one can sleep, one be woken and one run; with three
  tasks the queue holds two while one is in hand. `MaxSpurious` is the only
  counter that needs a bound.
- Map: capacities 2, 4 and 8 are two resizes; the hash values collide, neighbour
  and wrap in all of them. At `MaxCap` calloc fails. Any key may be removed at any
  time. What is removed from a wrapped chain tears the table; the three properties
  say nothing of a table after that, see section 6.
- Log: a referer that is a url of the other file, and two workers, so jobs meet on
  one key. There are up to 3 urls and `TopSize` is 2, so one is left out.
- Daemon: two daemons are the smallest number that contend; every daemon may be
  started again without bound, so each meets what any earlier one left. Three
  names are one shorter, one longer and what the missing NUL makes of them. The
  listen queue holds 20 and never fills up (assumed in `BacklogAssumption`).
- Fetch: three sources and batches of two make a full batch, one thread left
  behind, the reset of the index and a last join. Files may be absent, in part or
  whole at the start.
- Install: two packages that need each other; an executable whose dependency is
  installed twice, in the unpacked archive and in `./deps`; a command line for
  each way into the program (a name with `-S`, no name with `-d`, no cache,
  update, upgrade); two runs, so that each uses what the other left. `Retries` is
  1 for the code's 3: one request that fails and one that is not made. A kit that
  lists itself behind another dependency, and the two packages that need each other
  when they are updated (an update sets `--force`), are installed inside
  themselves up to `MaxDepth`, which no other package meets; these are cases
  `RunsEnd` excepts (`Recurs`), and without the part for either the run finds it
  violated. The third part, executables that need each other, is not in the
  instance.
- Build: an application with three dependencies in batches of two, so that one
  batch is joined full and one is not; one of them is needed twice, so that two
  threads meet on it; a development dependency; two packages that need each
  other; manifests under either name. `MaxThreads` is not met.
- Telnet: lines, an empty line and a dot that is no prompt, cut in pieces of up
  to 5 bytes.
- Small programs: archives of 0 to 3 entries, with a directory that looks like one
  or does not, bytes in front and a comment behind;
  every byte, and every two of eight bytes from the edges of the tables, in each
  encoding; all texts of up to 6 characters; every one-byte file and chosen
  longer ones for the CRC; chunks of up to 6 bytes into a buffer that grows by 3,
  to an answer of 40: longer chunks than the step, with and without room for them.

### Fairness

Safety needs none. Liveness assumes that a thread or process that can take a step
is scheduled. `pool` assumes it of the workers only, so `QueuedIsTaken` does not
lean on main. In `log`, main and the workers are fair, and a failing allocation
is never forced to happen. In `daemon_serve` only the calls that succeed are fair
(`Proceed`): accept need not fail. In `programs` a program that can step does, and
the network of the telnet client delivers; that the connection breaks is not
assumed. In the runs of clib a request is answered or fails in the end (libcurl's
and the kernel's timeouts) and a command returns; `clib_build` assumes weak
fairness of main and of each thread. That is enough for its mutex, though weak
fairness does not rule out that others take it first: each takes it a few times
only.

## 4. Proofs

`ThreadPoolProofs`, for any finite set of workers, any tasks and any number of
spurious wakeups: the inductive invariant is `TypeOK`, `Shutdown` (what main has
done to the pool when), `HandsMatch` (a worker has a task in hand exactly while it
runs one), `CounterExact`, `NoLostWakeup` and `TasksConserved`. `NoLostWakeup`
alone is not inductive: that a signal wakes someone needs to know which workers
are counted and which hold the mutex. From it follow the theorems named in
`PROJECT.json`, and that `ThreadPool` implements `TaskQueue`
(`Spec => TaskQueueSpec`): each step is a step of the queue or none.

`OtsDaemonProofs`, for any daemons, clients, names and overlays: everything rests
on `OneDaemon`. `Fresh` (a process that does not run has no descriptors, queue or
client) and `Reachable` (from bind to the handler, some name leads to the
listening daemon unless another was late) complete the invariant. `Split` reduces
a step to that of one process that leaves the others' variables alone; then each
conjunct has a lemma with a case per action. For `ClientsAreHeld`, `Places` says
that a connection is in one place at a time: in one queue, once, or in the hands
of one process, or nowhere; and that one that waits is somewhere. Without the
first half a queue that is closed could cut off a client that another serves.

`HashMapProofs`, for any keys, hash function and capacities and for any sequence
of calls (`AnyCallSpec`; that the programs of Hw03 and Hw11 make such calls is
`ProgramsMakeCalls`), as long as the table is not torn. Neither property is
inductive. `Chained` is: from the slot a
key hashes to up to its node no slot is free, so a probe finds the node. A removal
breaks it for a while: `Holed` says that the chains are whole but for one hole,
which the scan has yet to carry on. It is true only if no chain has wrapped, so the
invariant is `~torn => IInv`: a removal from a wrapped table ends what can be said.
The programs of Hw03 and Hw11 remove nothing, so for them everything holds without
the exception (`ProgramsKeepOrder`, `ProgramsSeeASet`). During
a resize `Growing` says that the new array is chained and holds exactly the nodes
that have been moved; it is twice as large, which leaves room for the others
(`Counted` knows the size). That the map implements `KeySet`
then follows step by step: only the step of a call that frees, fills or replaces
the array changes the set of keys, and by the key of the call.

`ClibFetchProofs`, for any number of sources and any concurrency: the invariant
says where the thread of each source is to be found. `Batches` ties the index to
the source the list has reached: with the index at its limit, that source is one
of those no batch joins (`Loose`). By `Slots` the slots below the index hold
different threads that were started and not joined, and by `Started` every thread
of an earlier source that is not loose has such a slot or was joined; so when the
index is below every slot, all threads but the loose ones have ended, which is what
`CopyIsFinal` needs. `Counted` says that `refs` is the number of live threads and
of failed starts while no update of it is lost. For `FetchGoesOn` it is enough to
add that the holder of the lock is on its way to give it up (`Lively`): the slot
main joins holds, by `Slots`, a thread that was started.

`ClibInstallProofs`, for any packages, dependencies, command lines and any number
of runs, killed or not. `Nested` orders the stack (the calls that work in `./deps`
are on the outside), `Trail` keeps a visited package tied to a call, which is
`SkippedIsInProgress`; `Clean` says what is in part only after a mishap.
`SuccessMeansInstalled` asks for all that a command line needs, through
dependencies that may be cyclic, when main returns. `Covered` carries it: there is
a set `D` of packages that are installed and whose dependencies are in `D` or in
hand, and what no call has in its list any more is in `D` or in hand. A package
that is passed over is in hand; when a call returns, its package moves into `D`;
when main returns nothing is in hand, so `D` is closed and holds all that is
needed. Least fixed points are not needed, only that what is needed is in every
closed set.

`ClibBuildProofs`, for any packages, command lines, retries and number of threads,
and for both programs, has two invariants. For the mutex: a thread inside the
cache of manifests holds the mutex unless `stolen`. A step moves one thread, or
one more that it starts or joins, or ends them all, so it is enough to know the
labels the steps come to: only `Lock` and `LockAgain` come to one inside, and they
find the mutex free. The theorem has the exception `stolen` because the code does
unlock the mutex of other threads. For `ThreadsAreAwaited` and
`SuccessMeansBuilt`, `AwaitInv`: a thread that is there is in the batch of some
call (`Owned`) unless a call forgot it, which is a mishap. That alone would allow
threads that wait for each other in a ring when main ends; `NoRing` says that in
every set of threads is one no other of the set waits for, and holds because a
thread is started before anything can wait for it. So `SomebodyRuns`: whoever
holds the mutex is inside the cache and can go on; if nobody holds it, all that are
left wait in joins, each for another of them, and that is such a set. It needs
`JoinsAreLive`, inductive beside `AwaitInv`: a slot holds a thread that was not
joined, which no other slot holds. `Covered` says that what a
noted package needs is noted or is still to come: in the list of a call, or as the
package of a thread that has not noted it yet.

`LogAnalyzerProofs`, for any workers and files and whatever fails: `AddIsMissing`
is not inductive. `Placed` adds that a job between the lookup and the end of its
update holds `maplock`, so that no other job touches the map there, and that a
worker which takes a task is at the head of the loop. It builds on the invariant
of `ThreadPoolProofs`. For `TotalsExact` the books must balance in every state: a
counter is the sum of the parts counted for its key (`Summed`), no part is counted
before its job has come to it (`Fresh`), and every line behind a job has been
counted unless an allocation failed (`NoneSkipped`). For `TopIsRight`, `Topped`
says that the arrays hold the largest of the keys seen so far, and the lemmas about
the insertion carry a loop invariant (`Loop`) from slot to slot. The sum and the
insertion are recursive functions; no induction rule is available, so a statement
about one is proved of a least counterexample, which exists because the naturals
are well-founded. `AwaitGoesOn` is about two mutexes: the pool's is held by a
worker that can go on (`Alive`), the map's by a job between its lock and one of
its six exits (`Kept`, `MapKept`); so if no worker can go on, all sleep and the
counter is what main waits for (`Busy`).

`ProgramProofs`, for the programs that go through one input:

- the telnet client, for any greeting and reply whose prompt comes at their end
  only, any buffer that holds a prompt, however the stream is cut and whenever it
  ends: what is printed, what has arrived and what is unsent are consecutive parts
  of the conversation (`InOrder`), so a prompt at the end of a piece is the end of
  the greeting or of the reply. `Rests` says that while the client waits the end
  of what it waits for is still on its way, with the whole prompt, unless a piece
  was cut inside it: hence `WaitsOnlyIfSplit`;
- the weather client, for any step by which its buffer grows, any answer and
  chunks of any length: `BufferHolds` needs that the bytes received stay *below*
  the capacity. A chunk that is not longer than the step keeps them there; one that
  is longer may run over the end, which libcurl's 16384 bytes can do to 1024. The
  theorem names that as the only way it happens;
- the word count, for every file: behind `start_idx` lie only letters and in front
  of it a blank (`WordBegun`), so the map counts the occurrences that end behind
  the program (`MapCounts`);
- the encoding converter, for every file: the tables are gone through piece by
  piece, and the bytes written are the parts of the bytes read, joined (`Joined`
  follows the recursion of `FlattenSeq` along the run);
- the archive check, for every layout: behind the directory nothing has been
  listed, in front of it the names of the entries behind the program have, last
  one first (`EntriesAreListed`), and each step comes nearer to the start
  (`ScanAdvances`), unless the archive is empty;
- the CRC, for every file: division by the polynomial is linear, so the remainder
  of a byte folded into a register is the exclusive or of the remainders of the
  two; a row of the table is such a remainder, shown from one row to the next with
  facts about constants, and the checksum follows the recursion of the division
  along the file (`CrcIsDivision`).

The proofs assume the named ASSUMEs of the modules and nothing else.

Model-checked only: liveness, which the prover cannot do (`QueuedIsTaken`,
`ProgramEnds`, `NoClientIsKept`, `Returns`, `RunsEnd`, `BuildEnds`,
`EndsUnlessSplit`, `ScanEnds`). Behind each of them stands a theorem about its safety side,
that the program cannot come to a state it would have to stay in:

| liveness, for the instance of the run | safety, for all |
|---|---|
| `QueuedIsTaken` | `NoLostWakeup` |
| `ProgramEnds` | `AwaitGoesOn`: while main spins some worker can go on |
| `NoClientIsKept` | `ClientsAreHeld`: a client that waits is with a process that runs |
| `Returns` | `FetchGoesOn`: main and the threads never all wait |
| `RunsEnd` | `SkippedIsInProgress`: only what is in hand is passed over |
| `BuildEnds` | `SomebodyRuns`: the threads never all wait |
| `EndsUnlessSplit` | `WaitsOnlyIfSplit`: nothing is missed but a prompt cut in two |
| `ScanEnds` | `ScanAdvances`: each step comes nearer to the start of the file |

What remains to the runs is that whoever can go on comes to an end.

Proved and in no run: `AwaitGoesOn`, `FetchGoesOn`, `SomebodyRuns` (with
`JoinsAreLive` of `ClibBuild`, which it needs) and `WaitsOnlyIfSplit`, where a run
already checks the liveness property, which fails if they do; and `FetchesBounded`
(no more than `--concurrency` downloads beside the loose ones) and
`NameGoesBeforeLock` (a handler that unlocks the file has taken the name away).

## 5. Where code and words differ

Three runs end in a counterexample; `PROJECT.json` quotes the words.

- `pool_idle`: `counter` also counts workers that were signalled or have just
  locked the mutex, so `DgdPool_await` may return with work left, and main then
  cancels it.
- `telehack_errors`: `recv` returning -1 or 0 is tried again for ever.
- `clib_exit`: only -1 becomes exit code 1; a failing install command does not.

## 6. Observed, with nothing in the repository to contradict it

Hash map and log analyzer
- `add_node` answers 1 for an existing key and for a full table; `HashMap_add`
  takes both for the latter and doubles the table until calloc fails.
  `RESULT_ADD_NODE_ALREDY_EXIST` is never seen. The callers look first.
- `HashMap_remove` moves later nodes only while no chain wraps; one from a wrapped
  chain can leave a key that is not found. Added again, the key has two nodes, and
  the next resize drops one of them without counting it.
- `HashMap_compare`, which no program calls, reads through NULL when a slot is
  empty in both maps.
- The url and referer counters share one map: a string that is both gets one
  entry, of the type it was added with first.
- Main ignores the result of `submit`, cancels workers and does not join them; a
  worker may use the freed pool.

Daemon and telnet client
- A client that leaves early kills the daemon by SIGPIPE; SIGHUP in `accept` ends
  it through EINTR; a shorter name copied over a longer one keeps its end; a
  daemon interrupted after its unlock unlinks the name of its successor.
- A prompt that arrives in two pieces is not recognised.

clib
- A batch of downloads is one larger than `--concurrency` and its last thread is
  never joined; it may still write when its file is cached, when the package is
  freed and when the process exits. With a concurrency of 0 nothing is joined.
- Results of downloads are thrown away, so broken packages are cached for 30 days;
  a file left in part counts as present.
- A manifest taken from the cache is saved again, which renews its age.
- The visited packages are forgotten at the end of each nested install: if a
  package lists a finished dependency before the one that leads back to itself,
  the recursion does not end; nor does it under `--force` for any cycle, nor for
  executables that need each other, whose dependencies are installed twice.
- `clib install .` that fails returns 1 where only -1 is looked for. `clib
  upgrade` returns the raw wait status, of which 256 becomes exit code 0; its
  `-T --tag` sets the token; under `-g` the dependencies of an executable get no
  sources.
- The manifest is rewritten in place: a run that is killed while it saves leaves
  one that later runs without arguments cannot parse.
- The status of `make` and of `configure` is overwritten by that of
  `pthread_mutex_lock`, so a failed command leaves exit code 0. The results of
  threads are discarded, and that of main is the result of its last argument.
- Two threads that need the same package both find it missing from `built` and
  both make it, in the same directory.
- When a dependency has no manifest, `clib build` returns with its threads still
  running; `clib configure` reads through NULL, and so does `clib build` in its
  loop over development dependencies.
- `-C` is both `--clean` and `--concurrency`. Packages are read from the arguments
  as they were given, options included. `CFLAGS` and `PREFIX` in the environment
  are shared by all threads.
- A request that is tried again unlocks a mutex that another thread may hold.

Small programs
- An archive without entries makes `archive_check` loop; up to three bytes past the
  end of the file are read.
- Byte 0x98 of cp1251 becomes a NUL; symbols above 0xFFF are dropped.
- The last word of a file is not counted unless something follows it.
- A chunk longer than `BUFFER_SIZE` can run over the buffer; after `calloc` the url
  is checked in place of the buffer.

## 7. Not modelled

- Vendored code (`clib/deps`): libraries, used through their results.
- The dispatcher, `init` and `search` of clib: a lookup of a program and an exec,
  questions and answers written to a file, a table printed. They keep no state.
- The logger (one pointer, every call sequential), the list in assembly;
  `Hw10/crc32.c`, a third-party file that no target builds.
- Parsing and formatting of log lines, JSON, command lines, configuration files
  and messages; `parser_json.c`.
- In `clib-install.c`: arguments that name a file or directory, tags, makefiles
  of executables, failures of malloc, mkdirp and of writing a manifest; processes
  that share clib's cache. In `clib-build.c`: options passed to make, the
  environment, directories given as arguments.
- Opening and mapping of files in the small programs; the size the daemon sends.

The hazards these leave open carry a note in `PROJECT.json`.

## 8. Plan

Done, in the order the parts matter: ThreadPool, TaskQueue, HashMap, KeySet,
LogAnalyzer, OtsDaemon, TelehackClient, ClibFetch, ClibInstall with update and
upgrade, ClibBuild, ClibConfigure, the small programs; the proofs of every safety
property the runs check, and of the safety side of their liveness.

Next: ClibInstall composed with ClibFetch, so that threads nobody joined meet the
retries of the next manifest and the mutex they unlock; two programs that share
the cache.
