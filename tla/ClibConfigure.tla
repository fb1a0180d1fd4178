--------------------------- MODULE ClibConfigure ---------------------------
(***************************************************************************)
(* Hw08, clib-configure.c: clib configure goes through a package and what  *)
(* it depends on as clib build does -- most of its code is that of         *)
(* clib-build.c under other names, with the map `configured' for `built'   *)
(* -- but runs the configure command of each package, or prints its        *)
(* compiler flags, and does not look whether a dependency was found.       *)
(***************************************************************************)
EXTENDS ClibBuild

CONSTANTS
    Scripts,    \* the packages with a configure command
    Flagged     \* those with compiler flags

ASSUME ConfigureAssumption ==
    /\ Scripts \subseteq Packages /\ Flagged \subseteq Packages
    /\ \A c \in Invocations : c.flags \in BOOLEAN

(* --flags, for a package that has some.                                   *)
Printed(t) == asked.flags /\ th[t].pkg \in Flagged

-----------------------------------------------------------------------------

(* The lookup of the package, up to its manifest.                          *)
Lookup(t) == Begin(t) \/ Look(t) \/ Read(t) \/ NoPackage(t)

(* The flags are printed and the package is noted under one lock.          *)
PrintFlags(t) ==
    /\ At(t, "have") /\ Printed(t)
    /\ Marked(t)

(* As in clib build, the result of the command is overwritten.             *)
Configure(t) ==
    /\ At(t, "have") /\ ~Printed(t) /\ th[t].pkg \in Scripts
    /\ Goto(t, "mark")
    /\ \E works \in BOOLEAN : mishap' = (mishap \/ ~works)
    /\ UNCHANGED <<mainVars, built, lockVars, forsaken>>

MarkConfigured(t) ==
    /\ \/ At(t, "mark")
       \/ At(t, "have") /\ ~Printed(t) /\ th[t].pkg \notin Scripts
    /\ Marked(t)

(* The name of a dependency that was not found is read, in both loops.     *)
NullName(t) ==
    /\ NoManifest(t) /\ th[t].phase # "own"
    /\ End("crashed")

Dependencies(t) == DepStep(t) \/ NullName(t)

ConfigureMain == MainStep

ConfigureStep(t) ==
    \/ Lookup(t) \/ PrintFlags(t) \/ Configure(t) \/ MarkConfigured(t)
    \/ SlugStep(t) \/ Dependencies(t)

ConfigureNext ==
    \/ ConfigureMain
    \/ \E t \in Threads : ConfigureStep(t)
    \/ Over /\ UNCHANGED vars

ConfigureSpec == Init /\ [][ConfigureNext]_vars

=============================================================================
