----------------------------- MODULE ClibInstall ----------------------------
(***************************************************************************)
(* Hw08, clib-install.c, clib-update.c, clib-upgrade.c, clib-package.c and *)
(* clib-cache.c: clib install fetches the manifest of each package it is   *)
(* asked for, installs the package and then, by recursion, the packages it *)
(* depends on; without arguments, those its own manifest lists, to which   *)
(* -S and -D add.  clib update does the same without the cache; clib       *)
(* upgrade installs clib itself, without its sources.  Manifests and       *)
(* sources are kept in a cache between the runs.                           *)
(*                                                                         *)
(* A frame of the stack is a call of install_packages or of                *)
(* clib_package_install, with the call of new_from_slug before it.  The    *)
(* download of the sources of a package, which ClibFetch models thread by  *)
(* thread, is one step here.  A package has at most one source and is      *)
(* known by one author and version.  Time is not modelled: an entry of the *)
(* cache may have expired whenever it is looked at.  Neither are arguments *)
(* that name a file or directory, tags, the makefile of a package, and     *)
(* failures of malloc, mkdirp and of writing a manifest.                   *)
(***************************************************************************)
EXTENDS Integers, Sequences

CONSTANTS
    Packages,
    Deps, Devs,    \* (development) dependencies in each manifest
    Sourced,       \* the packages with a source
    Executable,    \* those with an install command
    Invocations,   \* command lines: [program, args, opts]
    Retries,       \* requests for a manifest
    Program,       \* main, the directory it installs in and the manifest there
    Clib,          \* the package clib
    MaxDepth,      \* bound on the stack, met only by a package that Recurs
    MaxRuns        \* bound on the runs of the program

ASSUME PackagesAssumption ==
    /\ Program \notin Packages
    /\ Deps \in [Packages \cup {Program} -> Seq(Packages)]
    /\ Devs \in [Packages \cup {Program} -> Seq(Packages)]
    /\ Clib \in Packages
    /\ Sourced \subseteq Packages /\ Executable \subseteq Packages

ASSUME InvocationsAssumption ==
    \A c \in Invocations :
        /\ c.program \in {"install", "update", "upgrade"}
        /\ c.args \in Seq(Packages)
        /\ c.opts \subseteq {"skip", "force", "global", "dev", "save", "savedev"}

ASSUME BoundsAssumption == Retries \in Nat /\ MaxDepth \in Nat /\ MaxRuns \in Nat

VARIABLES
    stack,      \* the calls that are active, the innermost first
    visited,    \* visited_packages
    asked,      \* the command line, with the options as they are set
    code,       \* how the program stands
    made,       \* the packages whose install command the run has carried out
    jcache,     \* the manifest of each package in the cache
    pcache,     \* its directory in the cache
    disk,       \* its source in each directory of dependencies
    manifest,   \* the manifest in the current directory
    mishap,     \* history: something was left in part, or failed without an
                \* effect on the exit code
    runs        \* history: how often the program was started

callVars == <<stack, visited, asked, code, made>>
cacheVars == <<jcache, pcache>>
restVars == <<manifest, mishap, runs>>
vars == <<callVars, cacheVars, disk, restVars>>

(* ./deps, and where the archives of executables are unpacked.             *)
Dirs == {Program} \cup Executable

Files == {"absent", "part", "whole"}

Init ==
    /\ stack = <<>> /\ visited = {} /\ made = {}
    /\ asked = [program |-> "none", args |-> <<>>, opts |-> {}] /\ code = "none"
    /\ jcache = [p \in Packages |-> "none"]
    /\ pcache = [p \in Packages |-> "none"]
    /\ disk = [d \in Dirs |-> [p \in Packages |-> "absent"]]
    /\ manifest = [deps |-> Deps[Program], devs |-> Devs[Program], whole |-> TRUE]
    /\ mishap = FALSE /\ runs = 0

-----------------------------------------------------------------------------
(* The stack of calls.                                                     *)

Top == Head(stack)

Opt(o) == o \in asked.opts

At(label) == stack # <<>> /\ Top.at = label

Call(p, dir) ==
    [pkg |-> p, dir |-> dir, at |-> "slug", todo |-> <<>>, tries |-> Retries,
     names |-> 1]

Become(frame) == stack' = <<frame>> \o Tail(stack)

Goto(label) == Become([Top EXCEPT !.at = label])

(* On to installing dependencies, into ./deps or into an unpacked archive. *)
GotoDeps(label) == Become([Top EXCEPT !.at = label, !.todo = Deps[Top.pkg]])

(* clib_package_install returns anything but -1, to a caller that goes on; *)
(* clib_package_cleanup forgets all visited packages.                      *)
Return == stack' = Tail(stack) /\ visited' = {}

(* It returns -1, and so do all its callers; main returns 1.               *)
Fail ==
    /\ stack' = <<>> /\ visited' = {}
    /\ code' = "failed"
    /\ UNCHANGED <<asked, made>>

SetDisk(file) == disk' = [disk EXCEPT ![Top.dir][Top.pkg] = file]

Source == disk[Top.dir][Top.pkg]

(* What is at hand is whole, or else a mishap to be remembered.            *)
Remember(whole) == mishap' = (mishap \/ ~whole)

-----------------------------------------------------------------------------
(* Seeded faults, not part of the program.                                 *)

(* The visited packages are remembered to the end of the program.          *)
DepsDoneKeeping ==
    /\ At("deps") /\ Top.todo = <<>>
    /\ stack' = Tail(stack)
    /\ code' = IF Top.pkg = Program THEN "ok" ELSE code
    /\ UNCHANGED <<visited, asked, made, cacheVars, disk, restVars>>

(* The package is not noted as visited.                                    *)
EnterUnmarked ==
    /\ At("enter") /\ (Opt("force") \/ Top.pkg \notin visited)
    /\ Goto(IF Top.pkg \in Sourced /\ ~Opt("global") THEN "cache" ELSE "commands")
    /\ UNCHANGED <<visited, asked, code, made, cacheVars, disk, restVars>>

(* A package that is in the cache is not copied to where it is needed.     *)
LoadNothing ==
    /\ At("cache") /\ pcache[Top.pkg] # "none" /\ ~Opt("skip")
    /\ Goto("commands")
    /\ UNCHANGED <<visited, asked, code, made, cacheVars, disk, restVars>>

(* The status of a command is lost.                                        *)
CommandFailsUnseen ==
    /\ At("commands") \/ At("make")
    /\ Top.pkg \in Executable
    /\ Become([Top EXCEPT !.at = "deps", !.todo = Deps[Top.pkg]])
    /\ mishap' = TRUE
    /\ UNCHANGED <<visited, asked, code, made, cacheVars, disk, manifest, runs>>

-----------------------------------------------------------------------------
(* main, install_packages and clib_package_install_dependencies.           *)

(* Without arguments, what the manifest in the current directory lists.    *)
Local == asked.args = <<>>

(* In the directory of an earlier run or in a new one.                     *)
Start(program, packages, options) ==
    /\ stack = <<>> /\ runs < MaxRuns
    /\ asked' = [program |-> program, args |-> packages, opts |-> options]
    /\ IF packages = <<>> /\ ~manifest.whole
       THEN stack' = <<>> /\ code' = "failed"
       ELSE /\ stack' = <<[Call(Program, Program) EXCEPT !.at = "deps",
                  !.todo = IF packages = <<>> THEN manifest.deps ELSE packages]>>
            /\ code' = "running"
    /\ visited' = {} /\ made' = {}
    /\ \/ UNCHANGED disk
       \/ disk' = [disk EXCEPT ![Program] = [p \in Packages |-> "absent"]]
    /\ runs' = runs + 1
    /\ UNCHANGED <<cacheVars, manifest, mishap>>

Install(c) == c.program = "install" /\ Start("install", c.args, c.opts)

Update(c) ==
    /\ c.program = "update"
    /\ Start("update", c.args, (c.opts \cap {"dev"}) \cup {"skip", "force"})

Upgrade(c) ==
    /\ c.program = "upgrade"
    /\ Start("upgrade", <<Clib>>, (c.opts \cap {"force"}) \cup {"skip", "global"})

NextDep ==
    /\ At("deps") \/ At("tmpdeps") \/ At("devs")
    /\ Top.todo # <<>> /\ Len(stack) < MaxDepth
    /\ LET dir == IF Top.at = "tmpdeps" THEN Top.pkg ELSE Top.dir
       IN  stack' = <<Call(Head(Top.todo), dir),
                      [Top EXCEPT !.todo = Tail(Top.todo)]>> \o Tail(stack)
    /\ UNCHANGED <<visited, asked, code, made, cacheVars, disk, restVars>>

TmpDepsDone ==
    /\ At("tmpdeps") /\ Top.todo = <<>>
    /\ Goto("make")
    /\ UNCHANGED <<visited, asked, code, made, cacheVars, disk, restVars>>

(* install_package of the programs goes on when clib_package_install, or   *)
(* the installation of what the manifest lists, has come to its end.       *)
GoesOn ==
    IF Len(stack) = 1 THEN Local /\ Opt("dev")
    ELSE Len(stack) = 2 /\ ~Local /\ asked.program # "upgrade"

DepsDone ==
    /\ At("deps") /\ Top.todo = <<>> /\ ~GoesOn
    /\ Return
    /\ code' = IF Top.pkg = Program THEN "ok" ELSE code
    /\ UNCHANGED <<asked, made, cacheVars, disk, restVars>>

(* Then come the development dependencies, if they are asked for.          *)
DevDeps ==
    /\ At("deps") /\ Top.todo = <<>> /\ GoesOn
    /\ Become([Top EXCEPT !.at = "devs",
                          !.todo = IF ~Opt("dev") THEN <<>>
                                   ELSE IF Local THEN manifest.devs ELSE Devs[Top.pkg]])
    /\ visited' = {}
    /\ UNCHANGED <<asked, code, made, cacheVars, disk, restVars>>

DevsDone ==
    /\ At("devs") /\ Top.todo = <<>>
    /\ stack' = Tail(stack)
    /\ code' = IF Local THEN "ok" ELSE code
    /\ UNCHANGED <<visited, asked, made, cacheVars, disk, mishap, runs>>

With(list, p) == IF p \in {list[k] : k \in DOMAIN list} THEN list ELSE Append(list, p)

(* save_dependency and save_dev_dependency: a manifest that is no JSON     *)
(* stays as it is.                                                         *)
Recorded ==
    IF Local \/ ~manifest.whole THEN manifest
    ELSE [manifest EXCEPT !.deps = IF Opt("save") THEN With(@, Top.pkg) ELSE @,
                          !.devs = IF Opt("savedev") THEN With(@, Top.pkg) ELSE @]

InstallDone ==
    /\ asked.program = "install" /\ DevsDone
    /\ manifest' = Recorded

UpdateDone ==
    /\ asked.program = "update" /\ DevsDone
    /\ UNCHANGED manifest

-----------------------------------------------------------------------------
(* clib_package_new_from_slug.                                             *)

(* A manifest from the cache is saved again, as it is.                     *)
Cached ==
    /\ At("slug") /\ jcache[Top.pkg] = "whole" /\ ~Opt("skip")
    /\ Goto("enter")
    /\ UNCHANGED <<visited, asked, code, made, cacheVars, disk, restVars>>

(* There is none, it has expired, or -c deletes it.                        *)
NotCached ==
    /\ At("slug")
    /\ jcache' = [jcache EXCEPT ![Top.pkg] = "none"]
    /\ Goto("get")
    /\ UNCHANGED <<visited, asked, code, made, pcache, disk, restVars>>

Fetched ==
    /\ At("get") /\ Top.tries > 0
    /\ jcache' = [jcache EXCEPT ![Top.pkg] = "whole"]
    /\ Goto("enter")
    /\ UNCHANGED <<visited, asked, code, made, pcache, disk, restVars>>

NotFetched ==
    /\ At("get") /\ Top.tries > 0
    /\ Become([Top EXCEPT !.tries = @ - 1])
    /\ UNCHANGED <<visited, asked, code, made, cacheVars, disk, restVars>>

(* No manifest of this name, or one that is no JSON: clib.json is followed *)
(* by package.json, and that by failure.                                   *)
NextName ==
    /\ \/ At("get")
       \/ At("slug") /\ jcache[Top.pkg] = "torn" /\ ~Opt("skip")
    /\ \/ /\ Top.names > 0
          /\ Become([Top EXCEPT !.at = "slug", !.tries = Retries, !.names = @ - 1])
          /\ UNCHANGED <<visited, asked, code, made>>
       \/ Top.names = 0 /\ Fail
    /\ UNCHANGED <<cacheVars, disk, restVars>>

-----------------------------------------------------------------------------
(* clib_package_install up to the sources.                                 *)

Skip ==
    /\ At("enter") /\ ~Opt("force") /\ Top.pkg \in visited
    /\ stack' = Tail(stack)
    /\ UNCHANGED <<visited, asked, code, made, cacheVars, disk, restVars>>

Enter ==
    /\ At("enter") /\ (Opt("force") \/ Top.pkg \notin visited)
    /\ visited' = visited \cup {Top.pkg}
    /\ Goto(IF Top.pkg \in Sourced /\ ~Opt("global") THEN "cache" ELSE "commands")
    /\ UNCHANGED <<asked, code, made, cacheVars, disk, restVars>>

(* As for manifests.                                                       *)
NoCopy ==
    /\ At("cache")
    /\ pcache' = [pcache EXCEPT ![Top.pkg] = "none"]
    /\ Goto("download")
    /\ UNCHANGED <<visited, asked, code, made, jcache, disk, restVars>>

CopyAtHand == At("cache") /\ pcache[Top.pkg] # "none" /\ ~Opt("skip")

Load ==
    /\ CopyAtHand
    /\ IF pcache[Top.pkg] = "absent" THEN UNCHANGED disk
       ELSE SetDisk(pcache[Top.pkg])
    /\ Goto("commands")
    /\ UNCHANGED <<visited, asked, code, made, cacheVars, restVars>>

(* copy_dir stops early; it notices a failed read, but no failed write.    *)
LoadInPart ==
    /\ CopyAtHand
    /\ SetDisk("part") /\ Remember(FALSE)
    /\ Goto("download") \/ Goto("commands")
    /\ UNCHANGED <<visited, asked, code, made, cacheVars, manifest, runs>>

-----------------------------------------------------------------------------
(* The sources, saved in the cache, and the commands.                      *)

Present ==
    /\ At("download") /\ Source # "absent" /\ ~Opt("force")
    /\ Goto("save")
    /\ UNCHANGED <<visited, asked, code, made, cacheVars, disk, restVars>>

Download ==
    /\ At("download") /\ (Source = "absent" \/ Opt("force"))
    /\ \/ SetDisk("whole") /\ UNCHANGED mishap
       \/ /\ UNCHANGED disk \/ SetDisk("part")
          /\ Remember(FALSE)
    /\ Goto("save")
    /\ UNCHANGED <<visited, asked, code, made, cacheVars, manifest, runs>>

CannotStart ==
    /\ At("download")
    /\ Fail
    /\ UNCHANGED <<cacheVars, disk, restVars>>

(* The result of clib_cache_save_package is not looked at.                 *)
Save ==
    /\ At("save")
    /\ \E file \in {Source, "part"} :
        /\ pcache' = [pcache EXCEPT ![Top.pkg] = file]
        /\ Remember(file = Source)
    /\ Goto("commands")
    /\ UNCHANGED <<visited, asked, code, made, jcache, disk, manifest, runs>>

NoCommands ==
    /\ At("commands") /\ Top.pkg \notin Executable
    /\ GotoDeps("deps")
    /\ UNCHANGED <<visited, asked, code, made, cacheVars, disk, restVars>>

(* clib_package_install_executable: the archive, its dependencies, make.   *)
Unpack ==
    /\ At("commands") /\ Top.pkg \in Executable
    /\ GotoDeps("tmpdeps")
    /\ UNCHANGED <<visited, asked, code, made, cacheVars, disk, restVars>>

NoArchive ==
    /\ At("commands") /\ Top.pkg \in Executable
    /\ Fail
    /\ UNCHANGED <<cacheVars, disk, restVars>>

Make ==
    /\ At("make")
    /\ made' = made \cup {Top.pkg}
    /\ GotoDeps("deps")
    /\ UNCHANGED <<visited, asked, code, cacheVars, disk, restVars>>

(* The status of a command is returned; only -1 is a failure to a caller.  *)
CommandFails ==
    /\ At("commands") \/ At("make")
    /\ Top.pkg \in Executable
    /\ Return /\ Remember(FALSE)
    /\ UNCHANGED <<asked, code, made, cacheVars, disk, manifest, runs>>

-----------------------------------------------------------------------------
(* The end of the process from outside.                                    *)

(* What is being written is left in part.                                  *)
Torn ==
    \/ /\ At("get")
       /\ jcache' = [jcache EXCEPT ![Top.pkg] = "torn"]
       /\ UNCHANGED <<pcache, disk, manifest, mishap>>
    \/ /\ \/ CopyAtHand
          \/ At("download") /\ (Source = "absent" \/ Opt("force"))
       /\ SetDisk("part") /\ Remember(FALSE)
       /\ UNCHANGED <<cacheVars, manifest>>
    \/ /\ At("save")
       /\ \E file \in {"absent", "part"} :
            pcache' = [pcache EXCEPT ![Top.pkg] = file]
       /\ Remember(FALSE)
       /\ UNCHANGED <<jcache, disk, manifest>>
    \/ /\ At("devs") /\ Top.todo = <<>> /\ Recorded # manifest
       /\ manifest' = [manifest EXCEPT !.whole = FALSE]
       /\ UNCHANGED <<cacheVars, disk, mishap>>
    \/ UNCHANGED <<cacheVars, disk, manifest, mishap>>

Kill ==
    /\ stack # <<>>
    /\ Torn
    /\ stack' = <<>> /\ visited' = {} /\ code' = "killed"
    /\ UNCHANGED <<asked, made, runs>>

-----------------------------------------------------------------------------

Step ==
    \/ NextDep \/ TmpDepsDone \/ DepsDone
    \/ DevDeps \/ InstallDone \/ UpdateDone
    \/ Cached \/ NotCached \/ Fetched \/ NotFetched \/ NextName
    \/ Skip \/ Enter \/ NoCopy \/ Load \/ LoadInPart
    \/ Present \/ Download \/ CannotStart \/ Save
    \/ NoCommands \/ Unpack \/ NoArchive \/ Make \/ CommandFails

Next ==
    \/ Step
    \/ \E c \in Invocations : Install(c) \/ Update(c) \/ Upgrade(c)
    \/ Kill
    \/ stack = <<>> /\ runs = MaxRuns /\ UNCHANGED vars

Spec == Init /\ [][Next]_vars

(* The program runs, and its requests and commands come to an end.         *)
FairSpec == Spec /\ WF_vars(Step)

-----------------------------------------------------------------------------
(* Properties.                                                             *)

(* Packages that depend on each other are told apart from packages that    *)
(* are installed: one that is passed over is being installed by a call     *)
(* further out, never one that an earlier call has installed elsewhere.    *)
SkippedIsInProgress ==
    visited \subseteq {stack[k].pkg : k \in DOMAIN stack}

(* What the command line needs: its packages and all they depend on.       *)
Closed(S) == \A p \in S : \A k \in DOMAIN Deps[p] : Deps[p][k] \in S

Named(list) == {list[k] : k \in DOMAIN list}

(* Development dependencies count for those that are named only.           *)
Wanted ==
    LET roots == IF Local THEN Named(manifest.deps) ELSE Named(asked.args)
    IN  IF ~Opt("dev") THEN roots
        ELSE roots \cup (IF Local THEN Named(manifest.devs)
                         ELSE UNION {Named(Devs[p]) : p \in roots})

Needed ==
    {p \in Packages :
        \A S \in SUBSET Packages : Closed(S) /\ Wanted \subseteq S => p \in S}

Installed ==
    \A p \in Needed :
        /\ p \in Sourced /\ ~Opt("global") => disk[Program][p] = "whole"
        /\ p \in Executable => p \in made

(* When main returns 0, each package that is needed has its source whole   *)
(* and its command carried out, whatever was skipped, cached, expired or   *)
(* left by earlier runs that failed or were killed -- unless a file or a   *)
(* cached copy was left in part, or a command failed (then main returns 0  *)
(* nevertheless).                                                          *)
SuccessMeansInstalled == code = "ok" /\ ~mishap => Installed

(* test/gh-35-exit-codes.sh: "Failed installations should exit with a      *)
(* non-zero exit code".  The code does not keep to it: only -1 makes main  *)
(* return 1.                                                               *)
FailureIsReported == code = "ok" => Installed

(* -S and -D record a package in the manifest after its command has been   *)
(* carried out, in no other case: a package that could not be built is not *)
(* saved, although main may return 0, and an update saves nothing.         *)
SavedIsBuilt ==
    [][manifest' # manifest /\ manifest'.whole =>
          /\ asked.program = "install" /\ Len(stack) = 2
          /\ Top.pkg \in Executable => Top.pkg \in made]_manifest

(* The dependency brings the installation back to the package.             *)
LeadsBack(p, k) ==
    \A S \in SUBSET Packages : Closed(S) /\ Deps[p][k] \in S => p \in S

(* Packages whose installation comes back to them when they are no longer  *)
(* noted as visited, because that is not asked (--force), or because an    *)
(* installation inside theirs has ended before: that of a dependency they  *)
(* list earlier or, if they have a command, of the same dependency for the *)
(* archive.                                                                *)
Recurs(p) ==
    \E k \in DOMAIN Deps[p] :
        LeadsBack(p, k) /\ (Opt("force") \/ k > 1 \/ p \in Executable)

(* A run ends, also when packages depend on each other, unless it comes to *)
(* a package that Recurs, which may be installed inside itself for ever.   *)
RunsEnd ==
    stack # <<>> ~> stack = <<>> \/ \E k \in DOMAIN stack : Recurs(stack[k].pkg)

=============================================================================
