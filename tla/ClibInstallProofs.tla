------------------------- MODULE ClibInstallProofs --------------------------
(***************************************************************************)
(* clib install, update and upgrade, for any packages, dependencies,       *)
(* command lines and runs: what is passed over is being installed, what a  *)
(* successful run needs is installed, and what is saved has been built.    *)
(*                                                                         *)
(* The last frame of the stack is main.  The frames whose directory is     *)
(* ./deps are on the outside; within one that unpacks an executable all    *)
(* the others are in its archive.                                          *)
(***************************************************************************)
EXTENDS ClibInstall, TLAPS

Before == {"slug", "get", "enter"}

Sources == {"cache", "download", "save"}

After == {"commands", "tmpdeps", "make", "deps", "devs"}

Frame ==
    [pkg : Packages \cup {Program}, dir : Dirs, at : Before \cup Sources \cup After,
     todo : Seq(Packages), tries : Int, names : Int]

Typed ==
    /\ stack \in Seq(Frame)
    /\ visited \subseteq Packages
    /\ made \subseteq Packages
    /\ asked.args \in Seq(Packages)
    /\ code \in {"none", "running", "ok", "failed", "killed"}
    /\ jcache \in [Packages -> {"none", "torn", "whole"}]
    /\ pcache \in [Packages -> Files \cup {"none"}]
    /\ disk \in [Dirs -> [Packages -> Files]]
    /\ manifest \in [deps : Seq(Packages), devs : Seq(Packages), whole : BOOLEAN]
    /\ mishap \in BOOLEAN

Calls == 1 .. (Len(stack) - 1)

(* Main is the outermost call; it and the calls it makes work in ./deps,   *)
(* and development dependencies are installed by one of these.             *)
Based ==
    /\ stack # <<>> => code = "running"
    /\ asked.program = "upgrade" => ~Opt("dev") /\ ~Local
    /\ \A k \in Calls : stack[k].pkg \in Packages
    /\ \A k \in Calls : stack[k].at = "devs" =>
          ~Local /\ k = Len(stack) - 1 /\ asked.program # "upgrade"
    /\ stack # <<>> =>
          LET main == stack[Len(stack)]
          IN  /\ main.pkg = Program /\ main.dir = Program
              /\ main.at \in {"deps", "devs"}
              /\ main.at = "devs" => Local /\ Opt("dev")
    /\ Len(stack) > 1 => stack[Len(stack) - 1].dir = Program

(* A call that works in ./deps has been made by one that does.             *)
Nested ==
    \A k \in DOMAIN stack : stack[k].dir = Program =>
        \A j \in DOMAIN stack : j > k => stack[j].dir = Program

(* A package is visited while a call installs it.                          *)
Trail ==
    \A p \in visited : \E k \in Calls :
        stack[k].pkg = p /\ stack[k].at \notin Before \cup {"devs"}

(* What has been carried out when the dependencies are installed.          *)
Built ==
    \A k \in Calls : LET f == stack[k] IN
        /\ f.at \in {"tmpdeps", "make"} => f.pkg \in Executable
        /\ f.at \in {"deps", "devs"} /\ f.pkg \in Executable => f.pkg \in made

(* Nothing is there in part, and past the sources they are there.          *)
Clean ==
    ~mishap =>
        /\ \A p \in Packages : pcache[p] \in {"none", "whole"}
        /\ \A d \in Dirs, p \in Packages : disk[d][p] \in {"absent", "whole"}
        /\ \A k \in Calls : LET f == stack[k] IN
              f.at = "save" \/ (f.at \in After /\ f.pkg \in Sourced /\ ~Opt("global"))
                => disk[f.dir][f.pkg] = "whole"

(* The packages that calls are installing in ./deps.                       *)
InHand ==
    {p \in Packages : \E k \in Calls :
        stack[k].pkg = p /\ stack[k].dir = Program /\ stack[k].at # "devs"}

Done(p) ==
    /\ p \in Sourced /\ ~Opt("global") => disk[Program][p] = "whole"
    /\ p \in Executable => p \in made

Roots == IF Local THEN Named(manifest.deps) ELSE Named(asked.args)

(* The packages in D are installed; what they depend on, and what the      *)
(* calls have dealt with, is so too, or is in hand.                        *)
Settled(D) ==
    LET main == stack[Len(stack)]
        S == D \cup InHand
    IN  /\ D \subseteq Packages
        /\ \A p \in D : Done(p) /\ Named(Deps[p]) \subseteq S
        /\ \A k \in Calls : LET f == stack[k] IN
              /\ f.dir = Program /\ f.at = "deps" =>
                    Named(Deps[f.pkg]) \subseteq S \cup Named(f.todo)
              /\ f.at = "devs" => f.pkg \in D
              /\ f.at = "devs" /\ Opt("dev") =>
                    Named(Devs[f.pkg]) \subseteq S \cup Named(f.todo)
        /\ main.at = "deps" => Roots \subseteq S \cup Named(main.todo)
        /\ main.at = "devs" =>
              Roots \subseteq S /\ Named(manifest.devs) \subseteq S \cup Named(main.todo)
        /\ ~Local /\ Opt("dev") =>
              \A p \in Named(asked.args) :
                  \/ Named(Devs[p]) \subseteq S
                  \/ p \in Named(main.todo)
                  \/ Len(stack) > 1 /\ stack[Len(stack) - 1].pkg = p

Covered == stack # <<>> /\ ~mishap => \E D \in SUBSET Packages : Settled(D)

IInv ==
    /\ Typed /\ Based /\ Nested /\ Trail /\ Built /\ Clean /\ Covered
    /\ SuccessMeansInstalled

-----------------------------------------------------------------------------
(* Lists of packages and the stack.                                        *)

(* What a list of packages names.                                          *)
LEMMA NamedIs ==
    ASSUME NEW s \in Seq(Packages)
    PROVE  /\ Named(s) \subseteq Packages
           /\ s = <<>> => Named(s) = {}
           /\ s # <<>> => Head(s) \in Packages /\ Tail(s) \in Seq(Packages)
           /\ s # <<>> => Named(s) = {Head(s)} \cup Named(Tail(s))
<1>1. Named(s) \subseteq Packages
  BY DEF Named
<1>2. s = <<>> => Named(s) = {}
  BY DEF Named
<1>3. ASSUME s # <<>>
      PROVE  /\ Head(s) \in Packages /\ Tail(s) \in Seq(Packages)
             /\ Named(s) = {Head(s)} \cup Named(Tail(s))
  <2>1. /\ Head(s) = s[1] /\ 1 \in DOMAIN s /\ Tail(s) \in Seq(Packages)
        /\ DOMAIN Tail(s) = 1 .. (Len(s) - 1)
        /\ \A k \in 1 .. (Len(s) - 1) : Tail(s)[k] = s[k + 1]
    BY <1>3
  <2>2. ASSUME NEW k \in DOMAIN s, k # 1
        PROVE  k - 1 \in DOMAIN Tail(s) /\ Tail(s)[k - 1] = s[k]
    BY <2>1, <2>2
  <2>3. ASSUME NEW k \in DOMAIN Tail(s)
        PROVE  k + 1 \in DOMAIN s /\ Tail(s)[k] = s[k + 1]
    BY <2>1, <2>3
  <2>4. Named(s) \subseteq {Head(s)} \cup Named(Tail(s))
    <3>1. ASSUME NEW k \in DOMAIN s PROVE s[k] = Head(s) \/ s[k] \in Named(Tail(s))
      BY <2>1, <2>2, Zenon DEF Named
    <3> QED  BY <3>1, Zenon DEF Named
  <2>5. {Head(s)} \cup Named(Tail(s)) \subseteq Named(s)
    <3>1. Head(s) \in Named(s)
      BY <2>1, Zenon DEF Named
    <3>2. Named(Tail(s)) \subseteq Named(s)
      BY <2>3, Zenon DEF Named
    <3> QED  BY <3>1, <3>2
  <2> QED  BY <1>3, <2>1, <2>4, <2>5
<1> QED  BY <1>1, <1>2, <1>3

(* A saved package is added at the end, or it is there.                    *)
LEMMA WithIs ==
    ASSUME NEW s \in Seq(Packages), NEW p \in Packages
    PROVE  With(s, p) \in Seq(Packages)
<1>1. Append(s, p) \in Seq(Packages)
  OBVIOUS
<1> QED  BY <1>1, Zenon DEF With

(* The innermost call is replaced.                                         *)
LEMMA BecomeIs ==
    ASSUME NEW s \in Seq(Frame), s # <<>>, NEW f \in Frame
    PROVE  LET t == <<f>> \o Tail(s)
           IN  /\ t \in Seq(Frame) /\ Len(t) = Len(s) /\ t[1] = f
               /\ \A k \in 2 .. Len(s) : t[k] = s[k]
  OBVIOUS

(* A call is made.                                                         *)
LEMMA PushIs ==
    ASSUME NEW s \in Seq(Frame), s # <<>>, NEW c \in Frame, NEW f \in Frame
    PROVE  LET t == <<c, f>> \o Tail(s)
           IN  /\ t \in Seq(Frame) /\ Len(t) = Len(s) + 1 /\ t[1] = c /\ t[2] = f
               /\ \A k \in 3 .. Len(t) : t[k] = s[k - 1]
  OBVIOUS

(* A call returns.                                                         *)
LEMMA PopIs ==
    ASSUME NEW s \in Seq(Frame), s # <<>>
    PROVE  /\ Tail(s) \in Seq(Frame) /\ Len(Tail(s)) = Len(s) - 1
           /\ \A k \in 1 .. (Len(s) - 1) : Tail(s)[k] = s[k + 1]
  OBVIOUS

(* The innermost call is a frame, and the stack has a length.              *)
LEMMA TopIs ==
    ASSUME Typed, stack # <<>>
    PROVE  /\ Len(stack) \in Nat /\ Len(stack) > 0 /\ Top = stack[1] /\ Top \in Frame
           /\ DOMAIN stack = 1 .. Len(stack)
           /\ \A k \in DOMAIN stack : stack[k] \in Frame
  BY DEF Typed, Top

-----------------------------------------------------------------------------
(* Steps on the way from the manifest of a package to its dependencies.    *)

(* The innermost call goes on: f is the same call with another label.      *)
Moves(f) ==
    /\ stack # <<>> /\ Become(f)
    /\ f.pkg = Top.pkg /\ f.dir = Top.dir
    /\ Top.at \notin {"deps", "devs"} /\ f.at # "devs"
    /\ f.at = "deps" => f.todo = Deps[f.pkg]
    /\ \/ visited' = visited /\ (f.at \in Before => Top.at \in Before)
       \/ visited' = visited \cup {Top.pkg} /\ f.at \notin Before
    /\ UNCHANGED <<asked, code, manifest, runs>>

(* What the package of f has when it comes to its label.                   *)
Brings(f) ==
    /\ f.at \in {"tmpdeps", "make"} => f.pkg \in Executable
    /\ f.at = "deps" /\ f.pkg \in Executable => f.pkg \in made'
    /\ ~mishap' => (f.at = "save" \/ (f.at \in After /\ f.pkg \in Sourced /\ ~Opt("global"))
                      => disk'[f.dir][f.pkg] = "whole")

(* Nothing that is whole or carried out is lost, unless it is remembered.  *)
Betters ==
    /\ made \subseteq made' /\ made' \subseteq Packages
    /\ jcache' \in [Packages -> {"none", "torn", "whole"}]
    /\ pcache' \in [Packages -> Files \cup {"none"}]
    /\ disk' \in [Dirs -> [Packages -> Files]]
    /\ mishap' \in BOOLEAN
    /\ ~mishap' =>
          /\ ~mishap
          /\ \A p \in Packages : pcache'[p] \in {"none", "whole"}
          /\ \A d \in Dirs, p \in Packages :
                /\ disk'[d][p] \in {"absent", "whole"}
                /\ disk[d][p] = "whole" => disk'[d][p] = "whole"

(* The stack after such a step.                                            *)
LEMMA MovesIs ==
    ASSUME Typed, Based, NEW f \in Frame, Moves(f)
    PROVE  /\ stack' \in Seq(Frame) /\ Len(stack') = Len(stack) /\ Len(stack) \in Nat
           /\ Len(stack) > 1 /\ Calls' = Calls /\ 1 \in Calls
           /\ Calls \subseteq DOMAIN stack /\ DOMAIN stack' = DOMAIN stack
           /\ DOMAIN stack = 1 .. Len(stack)
           /\ Top = stack[1] /\ stack'[1] = f
           /\ \A k \in DOMAIN stack : k # 1 => stack'[k] = stack[k]
           /\ \A k \in Calls : stack[k] \in Frame /\ stack[k].pkg \in Packages
<1>1. stack \in Seq(Frame) /\ stack # <<>> /\ stack' = <<f>> \o Tail(stack)
  BY DEF Moves, Become, Typed
<1>2. Len(stack) # 1
  BY <1>1, TopIs DEF Based, Moves
<1>3. Len(stack) \in Nat /\ Len(stack) > 0 /\ Top = stack[1] /\ DOMAIN stack = 1 .. Len(stack)
  BY <1>1, TopIs
<1>4. /\ stack' \in Seq(Frame) /\ Len(stack') = Len(stack) /\ stack'[1] = f
      /\ \A k \in 2 .. Len(stack) : stack'[k] = stack[k]
  BY <1>1, BecomeIs
<1>5. \A k \in Calls : stack[k] \in Frame /\ stack[k].pkg \in Packages
  <2>1. Calls \subseteq DOMAIN stack
    BY <1>3 DEF Calls
  <2> QED  BY <1>1, <2>1, TopIs DEF Based
<1> QED  BY <1>2, <1>3, <1>4, <1>5 DEF Calls

(* Done stays done.                                                        *)
LEMMA DoneStays ==
    ASSUME Betters, ~mishap', asked' = asked, NEW p \in Packages, Done(p)
    PROVE  Done(p)'
<1>1. Program \in Dirs /\ (Opt("global"))' = Opt("global")
  BY DEF Dirs, Opt
<1>2. disk[Program][p] = "whole" => disk'[Program][p] = "whole"
  BY <1>1 DEF Betters
<1>3. p \in made => p \in made'
  BY DEF Betters
<1> QED  BY <1>1, <1>2, <1>3 DEF Done

(* Such a step keeps the shape of the stack and what is visited.           *)
LEMMA MovesShape ==
    ASSUME IInv, NEW f \in Frame, Moves(f), Betters
    PROVE  Typed' /\ Based' /\ Nested' /\ Trail'
<1> USE MovesIs DEF IInv
<1>1. Typed'
  <2>1. visited' \subseteq Packages
    BY DEF Moves, Typed
  <2> QED  BY <2>1 DEF Typed, Moves, Betters
<1>2. Based'
  <2>1. stack # <<>> /\ stack' # <<>> /\ code' = code /\ asked' = asked
    BY DEF Moves
  <2>2. \A k \in Calls : /\ stack'[k].pkg = stack[k].pkg
                         /\ stack'[k].dir = stack[k].dir
                         /\ stack'[k].at = "devs" => stack[k].at = "devs"
    BY DEF Moves
  <2>3. stack'[Len(stack)] = stack[Len(stack)] /\ Len(stack) - 1 \in Calls
    BY DEF Calls
  <2> QED  BY <2>1, <2>2, <2>3 DEF Based, Opt, Local
<1>3. Nested'
  <2>1. \A k \in DOMAIN stack : stack'[k].dir = stack[k].dir
    BY DEF Moves
  <2> QED  BY <2>1 DEF Nested
<1>4. Trail'
  <2>1. SUFFICES ASSUME NEW p \in visited'
                 PROVE  \E k \in Calls : stack'[k].pkg = p
                                         /\ stack'[k].at \notin Before \cup {"devs"}
    BY DEF Trail
  <2>2. CASE p \in visited
    <3>1. PICK k \in Calls : stack[k].pkg = p /\ stack[k].at \notin Before \cup {"devs"}
      BY <2>2 DEF Trail
    <3>2. stack'[k].pkg = p
      BY <3>1 DEF Moves
    <3>3. stack'[k].at \notin Before \cup {"devs"}
      BY <3>1 DEF Moves
    <3> QED  BY <3>2, <3>3
  <2>3. CASE p \notin visited
    BY <2>3 DEF Moves
  <2> QED  BY <2>2, <2>3
<1> QED  BY <1>1, <1>2, <1>3, <1>4

(* It keeps what is known of the files and the commands.                   *)
LEMMA MovesFiles ==
    ASSUME IInv, NEW f \in Frame, Moves(f), Betters, Brings(f)
    PROVE  Built' /\ Clean'
<1> USE MovesIs DEF IInv
<1>1. Built'
  <2>1. \A k \in Calls : k # 1 => stack'[k] = stack[k]
    OBVIOUS
  <2> QED  BY <2>1 DEF Built, Brings, Betters, Moves
<1>2. Clean'
  <2>0. Calls' = Calls /\ (Opt("global"))' = Opt("global")
    BY DEF Moves, Opt
  <2>1. SUFFICES ASSUME ~mishap', NEW k \in Calls,
                        \/ stack'[k].at = "save"
                        \/ /\ stack'[k].at \in After /\ stack'[k].pkg \in Sourced
                           /\ ~Opt("global")
                 PROVE  disk'[stack'[k].dir][stack'[k].pkg] = "whole"
    <3> HIDE DEF IInv
    <3> QED  BY <2>0, Zenon DEF Clean, Betters
  <2>2. CASE k = 1
    BY <2>1, <2>2 DEF Brings
  <2>3. CASE k # 1
    <3>1. stack'[k] = stack[k] /\ stack[k].dir \in Dirs /\ stack[k].pkg \in Packages
      BY <2>3 DEF Frame
    <3>2. disk[stack[k].dir][stack[k].pkg] = "whole"
      BY <2>1, <3>1 DEF Clean, Betters
    <3> QED  BY <2>1, <3>1, <3>2 DEF Betters
  <2> QED  BY <2>2, <2>3
<1> QED  BY <1>1, <1>2

(* It keeps what is covered: the same packages are in hand.                *)
LEMMA MovesCovered ==
    ASSUME IInv, NEW f \in Frame, Moves(f), Betters
    PROVE  Covered'
<1> USE MovesIs DEF IInv
<1>1. SUFFICES ASSUME ~mishap' PROVE \E D \in SUBSET Packages : Settled(D)'
  BY DEF Covered
<1>2. PICK D \in SUBSET Packages : Settled(D)
  BY <1>1 DEF Covered, Betters, Moves
<1>3. InHand' = InHand
  <2>1. \A k \in Calls : /\ stack'[k].pkg = stack[k].pkg
                         /\ stack'[k].dir = stack[k].dir
                         /\ stack'[k].at = "devs" <=> stack[k].at = "devs"
    BY DEF Moves
  <2> QED  BY <2>1, Zenon DEF InHand
<1>4. \A p \in D : Done(p)'
  BY <1>1, <1>2, DoneStays DEF Settled, Moves
<1>5. /\ stack'[Len(stack)] = stack[Len(stack)]
      /\ Len(stack) - 1 \in Calls /\ stack'[Len(stack) - 1].pkg = stack[Len(stack) - 1].pkg
  BY DEF Calls, Moves
<1>6. ASSUME NEW k \in Calls
      PROVE  LET g == stack'[k] S == D \cup InHand
             IN  /\ g.dir = Program /\ g.at = "deps" =>
                       Named(Deps[g.pkg]) \subseteq S \cup Named(g.todo)
                 /\ g.at = "devs" => g.pkg \in D
                 /\ g.at = "devs" /\ Opt("dev") =>
                       Named(Devs[g.pkg]) \subseteq S \cup Named(g.todo)
  <2>1. CASE k = 1
    BY <2>1 DEF Moves
  <2>2. CASE k # 1
    BY <1>2, <2>2 DEF Settled
  <2> QED  BY <2>1, <2>2
<1>7. Roots' = Roots /\ Local' = Local /\ (Opt("dev"))' = Opt("dev")
      /\ asked' = asked /\ manifest' = manifest
  BY DEF Moves, Roots, Local, Opt
<1> QED  BY <1>2, <1>3, <1>4, <1>5, <1>6, <1>7 DEF Settled

(* So it keeps the invariant.                                              *)
LEMMA MovesKeep ==
    ASSUME IInv, NEW f \in Frame, Moves(f), Betters, Brings(f)
    PROVE  IInv'
<1>1. SuccessMeansInstalled'
  BY DEF IInv, Moves, Based, SuccessMeansInstalled
<1> QED  BY <1>1, MovesShape, MovesFiles, MovesCovered DEF IInv

-----------------------------------------------------------------------------
(* The actions that are such steps.                                        *)

Labels == Before \cup Sources \cup After

(* The innermost call with another label, and with its dependencies to do. *)
LEMMA FrameIs ==
    ASSUME Typed, stack # <<>>, Top.pkg \in Packages, NEW l \in Labels
    PROVE  /\ LET f == [Top EXCEPT !.at = l]
              IN  f \in Frame /\ f.pkg = Top.pkg /\ f.dir = Top.dir /\ f.at = l
           /\ LET f == [Top EXCEPT !.at = l, !.todo = Deps[Top.pkg]]
              IN  /\ f \in Frame /\ f.pkg = Top.pkg /\ f.dir = Top.dir /\ f.at = l
                  /\ f.todo = Deps[f.pkg]
<1>1. Deps[Top.pkg] \in Seq(Packages)
  BY PackagesAssumption
<1>2. Top \in Frame
  BY TopIs
<1>3. ASSUME NEW r \in Frame
      PROVE  LET f == [r EXCEPT !.at = l]
             IN  f \in Frame /\ f.pkg = r.pkg /\ f.dir = r.dir /\ f.at = l
  BY DEF Frame, Labels
<1>4. ASSUME NEW r \in Frame, NEW d \in Seq(Packages)
      PROVE  LET f == [r EXCEPT !.todo = d]
             IN  /\ f \in Frame /\ f.pkg = r.pkg /\ f.dir = r.dir /\ f.at = r.at
                 /\ f.todo = d
  BY DEF Frame
<1>5. LET f == [[Top EXCEPT !.at = l] EXCEPT !.todo = Deps[Top.pkg]]
      IN  /\ f \in Frame /\ f.pkg = Top.pkg /\ f.dir = Top.dir /\ f.at = l
          /\ f.todo = Deps[f.pkg]
  <2> DEFINE g == [Top EXCEPT !.at = l]
             f == [g EXCEPT !.todo = Deps[Top.pkg]]
  <2>1. g \in Frame /\ g.pkg = Top.pkg /\ g.dir = Top.dir /\ g.at = l
    BY <1>2, <1>3
  <2> HIDE DEF g
  <2>2. /\ f \in Frame /\ f.pkg = g.pkg /\ f.dir = g.dir /\ f.at = g.at
        /\ f.todo = Deps[Top.pkg]
    BY <1>1, <1>4, <2>1
  <2>3. /\ f \in Frame /\ f.pkg = Top.pkg /\ f.dir = Top.dir /\ f.at = l
        /\ f.todo = Deps[f.pkg]
    <3> HIDE DEF f
    <3> QED  BY <2>1, <2>2
  <2> QED  BY <2>3 DEF g
<1> QED  BY <1>2, <1>3, <1>5

(* A call on this way is not main.                                         *)
LEMMA OnTheWay ==
    ASSUME Typed, Based, stack # <<>>, Top.at \notin {"deps", "devs"}
    PROVE  /\ 1 \in Calls /\ Top = stack[1] /\ Top \in Frame
           /\ Top.pkg \in Packages /\ Top.dir \in Dirs
<1>1. Len(stack) \in Nat /\ Len(stack) > 0 /\ Top = stack[1] /\ Top \in Frame
  BY TopIs
<1>2. Len(stack) # 1
  BY <1>1 DEF Based
<1>3. 1 \in Calls
  <2>1. \A n \in Nat : n > 0 /\ n # 1 => 1 \in 1 .. (n - 1)
    OBVIOUS
  <2> QED  BY <1>1, <1>2, <2>1, Zenon DEF Calls
<1> QED  BY <1>1, <1>3 DEF Based, Frame

(* What a step must be to be covered by MovesKeep.                         *)
LEMMA GotoKeeps ==
    ASSUME IInv, stack # <<>>, Top.at \notin {"deps", "devs"},
           NEW l \in Labels \ {"deps", "devs"},
           Goto(l) \/ GotoDeps(l),
           \/ visited' = visited /\ (l \in Before => Top.at \in Before)
           \/ visited' = visited \cup {Top.pkg} /\ l \notin Before,
           UNCHANGED <<asked, code, manifest, runs>>, Betters,
           l \in {"tmpdeps", "make"} => Top.pkg \in Executable,
           ~mishap' => (l = "save" \/ (l \in After /\ Top.pkg \in Sourced /\ ~Opt("global"))
                         => disk'[Top.dir][Top.pkg] = "whole")
    PROVE  IInv'
<1>1. Top.pkg \in Packages
  BY OnTheWay DEF IInv
<1>2. PICK f \in Frame : Become(f) /\ f.pkg = Top.pkg /\ f.dir = Top.dir /\ f.at = l
  BY <1>1, FrameIs DEF IInv, Goto, GotoDeps
<1>3. Moves(f)
  BY <1>2 DEF Moves
<1>4. Brings(f)
  BY <1>2 DEF Brings
<1> QED  BY <1>2, <1>3, <1>4, MovesKeep

(* The same when the dependencies are next.                                *)
LEMMA DepsKeeps ==
    ASSUME IInv, stack # <<>>, Top.at \notin {"deps", "devs"}, GotoDeps("deps"),
           UNCHANGED <<visited, asked, code, manifest, runs>>, Betters,
           Top.pkg \in Executable => Top.pkg \in made',
           ~mishap' => (Top.pkg \in Sourced /\ ~Opt("global")
                         => disk'[Top.dir][Top.pkg] = "whole")
    PROVE  IInv'
<1>1. Top.pkg \in Packages
  BY OnTheWay DEF IInv
<1>2. PICK f \in Frame : Become(f) /\ f.pkg = Top.pkg /\ f.dir = Top.dir
                         /\ f.at = "deps" /\ f.todo = Deps[f.pkg]
  BY <1>1, FrameIs DEF IInv, GotoDeps, Labels, After
<1>3. Moves(f)
  BY <1>2 DEF Moves, Before
<1>4. Brings(f)
  BY <1>2 DEF Brings
<1> QED  BY <1>2, <1>3, <1>4, MovesKeep

(* A step that leaves files and commands alone.                            *)
LEMMA SameIsBetter ==
    ASSUME IInv, UNCHANGED <<made, jcache, pcache, disk, mishap>>
    PROVE  Betters
  BY DEF IInv, Typed, Clean, Betters

(* A step that changes the cache of manifests only.                        *)
LEMMA JcacheIsBetter ==
    ASSUME IInv, UNCHANGED <<made, pcache, disk, mishap>>, NEW p \in Packages,
           NEW v \in {"none", "torn", "whole"}, jcache' = [jcache EXCEPT ![p] = v]
    PROVE  Betters
  BY DEF IInv, Typed, Clean, Betters

(* A step that writes the sources of the innermost call.                   *)
LEMMA DiskIsBetter ==
    ASSUME IInv, stack # <<>>, Top.at \notin {"deps", "devs"},
           UNCHANGED <<made, jcache, pcache>>, mishap' \in BOOLEAN,
           NEW file \in Files, SetDisk(file) \/ UNCHANGED disk,
           ~mishap' => ~mishap /\ (SetDisk(file) => file = "whole")
    PROVE  Betters
<1>1. Top.pkg \in Packages /\ Top.dir \in Dirs
  BY OnTheWay DEF IInv
<1>2. /\ disk' \in [Dirs -> [Packages -> Files]]
      /\ \A d \in Dirs, p \in Packages :
            \/ disk'[d][p] = disk[d][p]
            \/ SetDisk(file) /\ disk'[d][p] = file
  <2>1. disk \in [Dirs -> [Packages -> Files]]
    BY DEF IInv, Typed
  <2>2. CASE UNCHANGED disk
    BY <2>1, <2>2
  <2>3. CASE SetDisk(file)
    <3>1. disk' \in [Dirs -> [Packages -> Files]]
      BY <1>1, <2>1, <2>3 DEF SetDisk
    <3>2. \A d \in Dirs, p \in Packages : disk'[d][p] \in {file, disk[d][p]}
      BY <1>1, <2>1, <2>3 DEF SetDisk
    <3> QED  BY <2>3, <3>1, <3>2
  <2> QED  BY <2>2, <2>3
<1>3. ASSUME ~mishap'
      PROVE  /\ ~mishap /\ \A p \in Packages : pcache'[p] \in {"none", "whole"}
             /\ \A d \in Dirs, p \in Packages :
                   /\ disk'[d][p] \in {"absent", "whole"}
                   /\ disk[d][p] = "whole" => disk'[d][p] = "whole"
  <2>1. ~mishap /\ (SetDisk(file) => file = "whole")
    BY <1>3
  <2>2. /\ \A p \in Packages : pcache[p] \in {"none", "whole"}
        /\ \A d \in Dirs, p \in Packages : disk[d][p] \in {"absent", "whole"}
    BY <2>1 DEF IInv, Clean
  <2> QED  BY <1>2, <2>1, <2>2
<1>4. /\ made \subseteq Packages /\ jcache \in [Packages -> {"none", "torn", "whole"}]
      /\ pcache \in [Packages -> Files \cup {"none"}]
  BY DEF IInv, Typed
<1> QED  BY <1>2, <1>3, <1>4 DEF Betters

(* Then the source of that call is what was written.                       *)
LEMMA SetDiskIs ==
    ASSUME Typed, Based, stack # <<>>, Top.at \notin {"deps", "devs"}, NEW file,
           SetDisk(file)
    PROVE  disk'[Top.dir][Top.pkg] = file
<1>1. Top.pkg \in Packages /\ Top.dir \in Dirs
  BY OnTheWay
<1> QED  BY <1>1 DEF SetDisk, Typed

(* A step that changes the cache of sources.                               *)
LEMMA PcacheIsBetter ==
    ASSUME IInv, UNCHANGED <<made, jcache, disk>>, mishap' \in BOOLEAN,
           NEW p \in Packages, NEW v \in Files \cup {"none"},
           pcache' = [pcache EXCEPT ![p] = v],
           ~mishap' => ~mishap /\ v \in {"none", "whole"}
    PROVE  Betters
<1>1. pcache' \in [Packages -> Files \cup {"none"}]
      /\ \A q \in Packages : pcache'[q] \in {v, pcache[q]}
  BY DEF IInv, Typed
<1>2. ASSUME ~mishap'
      PROVE  /\ ~mishap /\ \A q \in Packages : pcache'[q] \in {"none", "whole"}
             /\ \A d \in Dirs, q \in Packages : disk[d][q] \in {"absent", "whole"}
  BY <1>1, <1>2 DEF IInv, Clean
<1>3. /\ made \subseteq Packages /\ jcache \in [Packages -> {"none", "torn", "whole"}]
      /\ disk \in [Dirs -> [Packages -> Files]]
  BY DEF IInv, Typed
<1> QED  BY <1>1, <1>2, <1>3 DEF Betters

(* What the innermost call has.                                            *)
LEMMA TopHas ==
    ASSUME IInv, stack # <<>>, Top.at \notin {"deps", "devs"}
    PROVE  /\ Top.at \in {"tmpdeps", "make"} => Top.pkg \in Executable
           /\ Top.at = "save" /\ ~mishap => Source = "whole"
           /\ Top.at \in After /\ Top.pkg \in Sourced /\ ~Opt("global") /\ ~mishap
                => disk[Top.dir][Top.pkg] = "whole"
<1>1. 1 \in Calls /\ Top = stack[1]
  BY OnTheWay DEF IInv
<1>2. Built /\ Clean
  BY DEF IInv
<1> QED  BY <1>1, <1>2 DEF Built, Clean, Source

(* The manifest: from the cache, or fetched.                               *)
LEMMA ManifestKeeps ==
    ASSUME IInv, Cached \/ NotCached \/ Fetched
    PROVE  IInv'
<1>1. stack # <<>> /\ Top.at \in Before
  BY DEF Cached, NotCached, Fetched, At, Before
<1>2. Top.at \notin {"deps", "devs"}
  BY <1>1 DEF Before
<1>3. Top.pkg \in Packages
  BY <1>1, <1>2, OnTheWay DEF IInv
<1>4. Betters
  <2>1. CASE Cached
    BY <2>1, SameIsBetter DEF Cached, cacheVars, restVars
  <2>2. CASE NotCached
    BY <2>2, <1>3, JcacheIsBetter DEF NotCached, restVars
  <2>3. CASE Fetched
    BY <2>3, <1>3, JcacheIsBetter DEF Fetched, restVars
  <2> QED  BY <2>1, <2>2, <2>3
<1>5. PICK l \in {"enter", "get"} : Goto(l)
  BY DEF Cached, NotCached, Fetched
<1>6. UNCHANGED <<visited, asked, code, manifest, runs>>
  BY DEF Cached, NotCached, Fetched, restVars
<1>7. /\ l \in Labels \ {"deps", "devs"} /\ l \in Before /\ l # "save" /\ l \notin After
      /\ l \notin {"tmpdeps", "make"}
  BY DEF Labels, Before, After
<1> QED  BY <1>1, <1>2, <1>4, <1>5, <1>6, <1>7, GotoKeeps

(* A request that fails, and the other name of the manifest.               *)
LEMMA RequestKeeps ==
    ASSUME IInv, stack # <<>>, Top.at \in {"get", "slug"}, NEW f,
           f \in {[Top EXCEPT !.tries = @ - 1],
                  [Top EXCEPT !.at = "slug", !.tries = Retries, !.names = @ - 1]},
           Become(f), UNCHANGED <<visited, asked, code, made, cacheVars, disk, restVars>>
    PROVE  IInv'
<1>1. Top \in Frame
  BY TopIs DEF IInv
<1>2. ASSUME NEW r \in Frame
      PROVE  /\ r.tries - 1 \in Int /\ r.names - 1 \in Int
             /\ LET g == [r EXCEPT !.tries = r.tries - 1]
                IN  g \in Frame /\ g.pkg = r.pkg /\ g.dir = r.dir /\ g.at = r.at
             /\ LET g == [r EXCEPT !.names = r.names - 1]
                IN  g \in Frame /\ g.pkg = r.pkg /\ g.dir = r.dir /\ g.at = r.at
  BY DEF Frame
<1>3. ASSUME NEW r \in Frame
      PROVE  LET g == [r EXCEPT !.at = "slug"]
             IN  g \in Frame /\ g.pkg = r.pkg /\ g.dir = r.dir /\ g.at = "slug"
  BY DEF Frame, Before
<1>4. ASSUME NEW r \in Frame
      PROVE  LET g == [r EXCEPT !.tries = Retries]
             IN  /\ g \in Frame /\ g.pkg = r.pkg /\ g.dir = r.dir /\ g.at = r.at
                 /\ g.names = r.names
  BY BoundsAssumption DEF Frame
<1>5. f \in Frame /\ f.pkg = Top.pkg /\ f.dir = Top.dir /\ f.at \in {Top.at, "slug"}
  <2>1. CASE f = [Top EXCEPT !.tries = @ - 1]
    BY <1>1, <1>2, <2>1
  <2>2. CASE f = [Top EXCEPT !.at = "slug", !.tries = Retries, !.names = @ - 1]
    <3> DEFINE g == [Top EXCEPT !.at = "slug"]
               h == [g EXCEPT !.tries = Retries]
    <3>1. g \in Frame /\ g.pkg = Top.pkg /\ g.dir = Top.dir /\ g.at = "slug"
      BY <1>1, <1>3
    <3>2. g.names = Top.names
      BY <1>1 DEF Frame
    <3>3. f = [h EXCEPT !.names = Top.names - 1]
      BY <2>2
    <3> HIDE DEF g
    <3>4. h \in Frame /\ h.pkg = g.pkg /\ h.dir = g.dir /\ h.at = g.at /\ h.names = g.names
      BY <3>1, <1>4
    <3> HIDE DEF h
    <3>5. f = [h EXCEPT !.names = h.names - 1]
      BY <3>2, <3>3, <3>4
    <3> QED  BY <1>2, <3>1, <3>4, <3>5
  <2> QED  BY <2>1, <2>2
<1>6. f.at \in Before /\ Top.at \in Before /\ f.at \in {"slug", "get"}
  BY <1>5 DEF Before
<1>7. Moves(f)
  BY <1>5, <1>6 DEF Moves, restVars
<1>8. Brings(f)
  BY <1>6 DEF Brings, After
<1>9. Betters
  BY SameIsBetter DEF cacheVars, restVars
<1> QED  BY <1>5, <1>7, <1>8, <1>9, MovesKeep

(* The package is visited.                                                 *)
LEMMA EnterKeeps ==
    ASSUME IInv, Enter
    PROVE  IInv'
<1>1. stack # <<>> /\ Top.at = "enter"
  BY DEF Enter, At
<1>2. PICK l \in {"cache", "commands"} :
        Goto(l) /\ (l = "commands" => ~(Top.pkg \in Sourced /\ ~Opt("global")))
  BY DEF Enter
<1>3. /\ visited' = visited \cup {Top.pkg} /\ UNCHANGED <<asked, code, manifest, runs>>
      /\ Betters
  BY SameIsBetter DEF Enter, cacheVars, restVars
<1>4. /\ l \in Labels \ {"deps", "devs"} /\ l \notin Before /\ l # "save"
      /\ l \notin {"tmpdeps", "make"}
      /\ l \in After => l = "commands"
  BY DEF Labels, Before, After, Sources
<1> QED  BY <1>1, <1>2, <1>3, <1>4, GotoKeeps

(* The sources are loaded from the cache, or none are there.               *)
LEMMA CacheKeeps ==
    ASSUME IInv, NoCopy \/ Load \/ LoadInPart
    PROVE  IInv'
<1>1. stack # <<>> /\ Top.at = "cache" /\ Top.at \notin {"deps", "devs"}
  BY DEF NoCopy, Load, LoadInPart, CopyAtHand, At
<1>2. Top.pkg \in Packages /\ Top.dir \in Dirs
  BY <1>1, OnTheWay DEF IInv
<1>3. visited' = visited /\ UNCHANGED <<asked, code, manifest, runs>>
  BY DEF NoCopy, Load, LoadInPart, restVars
<1>4. /\ {"download", "commands"} \subseteq Labels \ {"deps", "devs"}
      /\ {"download", "commands"} \cap Before = {} /\ "download" \notin After
  BY DEF Labels, Sources, Before, After
<1>5. CASE NoCopy
  <2>1. Betters
    BY <1>2, <1>5, PcacheIsBetter DEF NoCopy, restVars, IInv, Typed
  <2> QED  BY <1>1, <1>3, <1>4, <1>5, <2>1, GotoKeeps DEF NoCopy
<1>6. CASE Load
  <2>1. /\ pcache[Top.pkg] \in Files /\ pcache[Top.pkg] # "none"
        /\ ~mishap => pcache[Top.pkg] = "whole"
    BY <1>2, <1>6 DEF Load, CopyAtHand, IInv, Typed, Clean
  <2>2. SetDisk(pcache[Top.pkg]) \/ (UNCHANGED disk /\ pcache[Top.pkg] = "absent")
    BY <1>6 DEF Load
  <2>3. UNCHANGED <<made, jcache, pcache>> /\ mishap' = mishap /\ mishap \in BOOLEAN
        /\ Goto("commands")
    BY <1>6 DEF Load, cacheVars, restVars, IInv, Typed
  <2>4. Betters
    BY <1>1, <2>1, <2>2, <2>3, DiskIsBetter
  <2>5. ~mishap' => disk'[Top.dir][Top.pkg] = "whole"
    <3>1. ~mishap' => SetDisk("whole")
      BY <2>1, <2>2, <2>3
    <3> QED  BY <1>1, <3>1, SetDiskIs DEF IInv
  <2> QED  BY <1>1, <1>3, <1>4, <2>3, <2>4, <2>5, GotoKeeps
<1>7. CASE LoadInPart
  <2>1. UNCHANGED <<made, jcache, pcache>> /\ mishap' = TRUE /\ SetDisk("part")
    BY <1>7 DEF LoadInPart, cacheVars, Remember, IInv, Typed
  <2>2. Betters
    BY <1>1, <2>1, DiskIsBetter DEF Files
  <2>3. PICK l \in {"download", "commands"} : Goto(l)
    BY <1>7 DEF LoadInPart
  <2> QED  BY <1>1, <1>3, <1>4, <2>1, <2>2, <2>3, GotoKeeps
<1> QED  BY <1>5, <1>6, <1>7

(* The sources are there, or they are downloaded.                          *)
LEMMA DownloadKeeps ==
    ASSUME IInv, Present \/ Download
    PROVE  IInv'
<1>1. stack # <<>> /\ Top.at = "download" /\ Top.at \notin {"deps", "devs"}
  BY DEF Present, Download, At
<1>2. Top.pkg \in Packages /\ Top.dir \in Dirs
  BY <1>1, OnTheWay DEF IInv
<1>3. /\ visited' = visited /\ UNCHANGED <<asked, code, manifest, runs>>
      /\ UNCHANGED <<made, jcache, pcache>> /\ Goto("save")
  BY DEF Present, Download, cacheVars, restVars
<1>4. "save" \in Labels \ {"deps", "devs"} /\ "save" \notin Before
  BY DEF Labels, Sources, Before, After
<1>5. Betters /\ (~mishap' => disk'[Top.dir][Top.pkg] = "whole")
  <2>1. CASE Present
    <3>1. Betters
      BY <2>1, SameIsBetter DEF Present, cacheVars, restVars
    <3>2. ~mishap => disk[Top.dir][Top.pkg] = "whole"
      BY <1>2, <2>1 DEF Present, Source, IInv, Clean
    <3> QED  BY <2>1, <3>1, <3>2 DEF Present, restVars
  <2>2. CASE SetDisk("whole") /\ UNCHANGED mishap
    <3>1. mishap \in BOOLEAN /\ "whole" \in Files
      BY DEF IInv, Typed, Files
    <3>2. Betters
      BY <1>1, <1>3, <2>2, <3>1, DiskIsBetter
    <3> QED  BY <1>1, <2>2, <3>2, SetDiskIs DEF IInv
  <2>3. CASE mishap' = TRUE /\ (UNCHANGED disk \/ SetDisk("part"))
    BY <1>1, <1>3, <2>3, DiskIsBetter DEF Files
  <2>4. Download => \/ SetDisk("whole") /\ UNCHANGED mishap
                    \/ mishap' = TRUE /\ (UNCHANGED disk \/ SetDisk("part"))
    BY DEF Download, Remember, IInv, Typed
  <2> QED  BY <2>1, <2>2, <2>3, <2>4
<1> QED  BY <1>1, <1>3, <1>4, <1>5, GotoKeeps

(* They are put in the cache.                                              *)
LEMMA SaveKeeps ==
    ASSUME IInv, Save
    PROVE  IInv'
<1>1. stack # <<>> /\ Top.at = "save" /\ Top.at \notin {"deps", "devs"}
  BY DEF Save, At
<1>2. Top.pkg \in Packages /\ Top.dir \in Dirs
  BY <1>1, OnTheWay DEF IInv
<1>3. PICK file \in {Source, "part"} : /\ pcache' = [pcache EXCEPT ![Top.pkg] = file]
                                       /\ mishap' = (mishap \/ ~(file = Source))
  BY DEF Save, Remember
<1>4. Source = disk[Top.dir][Top.pkg] /\ Source \in Files /\ mishap \in BOOLEAN
  BY <1>2 DEF Source, IInv, Typed
<1>5. ~mishap' => ~mishap /\ file = "whole" /\ disk[Top.dir][Top.pkg] = "whole"
  BY <1>1, <1>3, <1>4, TopHas
<1>6. Betters
  BY <1>2, <1>3, <1>4, <1>5, PcacheIsBetter DEF Save, Files
<1>7. "commands" \in Labels \ {"deps", "devs"} /\ "commands" \notin Before
  BY DEF Labels, Before, After
<1> QED  BY <1>1, <1>5, <1>6, <1>7, GotoKeeps DEF Save

(* The commands are carried out, and the dependencies come next.           *)
LEMMA CommandsKeep ==
    ASSUME IInv, NoCommands \/ Unpack \/ TmpDepsDone \/ Make
    PROVE  IInv'
<1>1. stack # <<>> /\ Top.at \in After /\ Top.at \notin {"deps", "devs"}
  BY DEF NoCommands, Unpack, TmpDepsDone, Make, At, After
<1>2. Top.pkg \in Packages
  BY <1>1, OnTheWay DEF IInv
<1>3. /\ UNCHANGED <<visited, asked, code, manifest, runs>>
      /\ UNCHANGED <<jcache, pcache, disk, mishap>>
  BY DEF NoCommands, Unpack, TmpDepsDone, Make, cacheVars, restVars
<1>4. ~mishap' => (Top.pkg \in Sourced /\ ~Opt("global")
                    => disk'[Top.dir][Top.pkg] = "whole")
  BY <1>1, <1>3, TopHas
<1>5. CASE NoCommands
  <2>1. Betters
    BY <1>3, <1>5, SameIsBetter DEF NoCommands
  <2> QED  BY <1>1, <1>3, <1>4, <1>5, <2>1, DepsKeeps DEF NoCommands
<1>6. CASE Unpack \/ TmpDepsDone
  <2>1. Betters
    BY <1>3, <1>6, SameIsBetter DEF Unpack, TmpDepsDone
  <2>2. PICK l \in {"tmpdeps", "make"} : Goto(l) \/ GotoDeps(l)
    BY <1>6 DEF Unpack, TmpDepsDone
  <2>3. Top.pkg \in Executable
    BY <1>1, <1>6, TopHas DEF Unpack, TmpDepsDone, At
  <2>4. l \in Labels \ {"deps", "devs"} /\ l \notin Before /\ l # "save"
    BY DEF Labels, Before, After
  <2> QED  BY <1>1, <1>3, <1>4, <2>1, <2>2, <2>3, <2>4, GotoKeeps
<1>7. CASE Make
  <2>1. made' = made \cup {Top.pkg} /\ GotoDeps("deps")
    BY <1>7 DEF Make
  <2>2. Betters
    BY <1>2, <1>3, <2>1 DEF Betters, IInv, Typed, Clean
  <2> QED  BY <1>1, <1>3, <1>4, <2>1, <2>2, DepsKeeps
<1> QED  BY <1>5, <1>6, <1>7

-----------------------------------------------------------------------------
(* A call for the next dependency.                                         *)

(* The new call c, and the caller f, to whom it is no longer to be done.   *)
Pushes(c, f) ==
    /\ stack # <<>> /\ Top.todo # <<>> /\ stack' = <<c, f>> \o Tail(stack)
    /\ Top.at \in {"deps", "tmpdeps", "devs"}
    /\ c.pkg = Head(Top.todo) /\ c.at = "slug"
    /\ IF Top.at = "tmpdeps" THEN c.dir # Program ELSE c.dir = Top.dir
    /\ f.pkg = Top.pkg /\ f.dir = Top.dir /\ f.at = Top.at /\ f.todo = Tail(Top.todo)

(* The innermost call, at any label.                                       *)
LEMMA InnermostIs ==
    ASSUME IInv, stack # <<>>
    PROVE  /\ Top = stack[1] /\ Top \in Frame /\ 1 \in DOMAIN stack
           /\ Len(stack) = 1 \/ 1 \in Calls
           /\ Top.todo \in Seq(Packages)
           /\ Top.at = "tmpdeps" => Top.pkg \in Executable
<1>1. Top = stack[1] /\ Top \in Frame /\ Len(stack) \in Nat /\ Len(stack) > 0
  BY TopIs DEF IInv
<1>2. 1 \in DOMAIN stack /\ (Len(stack) = 1 \/ 1 \in Calls)
  <2>1. \A n \in Nat : n > 0 => 1 \in 1 .. n /\ (n = 1 \/ 1 \in 1 .. (n - 1))
    OBVIOUS
  <2>2. DOMAIN stack = 1 .. Len(stack)
    BY TopIs DEF IInv
  <2> QED  BY <1>1, <2>1, <2>2, Zenon DEF Calls
<1>3. Top.todo \in Seq(Packages)
  BY <1>1 DEF Frame
<1>4. Top.at = "tmpdeps" => Top.pkg \in Executable
  BY TopHas
<1> QED  BY <1>1, <1>2, <1>3, <1>4

(* What the action does to the stack.                                      *)
LEMMA NextDepIs ==
    ASSUME IInv, NextDep
    PROVE  /\ \E c, f \in Frame : Pushes(c, f)
           /\ UNCHANGED <<visited, asked, code, made, cacheVars, disk, restVars>>
<1> DEFINE dir == IF Top.at = "tmpdeps" THEN Top.pkg ELSE Top.dir
           c == Call(Head(Top.todo), dir)
           f == [Top EXCEPT !.todo = Tail(Top.todo)]
<1>1. /\ stack # <<>> /\ Top.todo # <<>> /\ Top.at \in {"deps", "tmpdeps", "devs"}
      /\ stack' = <<c, f>> \o Tail(stack)
      /\ UNCHANGED <<visited, asked, code, made, cacheVars, disk, restVars>>
  BY DEF NextDep, At
<1>2. /\ Top \in Frame /\ Top.todo \in Seq(Packages)
      /\ Top.at = "tmpdeps" => Top.pkg \in Executable
  BY <1>1, InnermostIs
<1>3. Head(Top.todo) \in Packages /\ Tail(Top.todo) \in Seq(Packages)
  BY <1>1, <1>2, NamedIs
<1>4. f \in Frame /\ f.pkg = Top.pkg /\ f.dir = Top.dir /\ f.at = Top.at
      /\ f.todo = Tail(Top.todo)
  BY <1>2, <1>3 DEF Frame
<1>5. dir \in Dirs /\ IF Top.at = "tmpdeps" THEN dir # Program ELSE dir = Top.dir
  BY <1>2, PackagesAssumption DEF Frame, Dirs
<1>6. c \in Frame /\ c.pkg = Head(Top.todo) /\ c.at = "slug" /\ c.dir = dir
  <2> HIDE DEF dir
  <2> QED  BY <1>3, <1>5, BoundsAssumption DEF Call, Frame, Before
<1> HIDE DEF c, f, dir
<1>7. Pushes(c, f)
  BY <1>1, <1>4, <1>5, <1>6 DEF Pushes
<1> QED  BY <1>1, <1>4, <1>6, <1>7

(* The calls that were there are one further out.                          *)
Pushed(c) ==
    /\ stack' \in Seq(Frame) /\ Len(stack') = Len(stack) + 1
    /\ Len(stack) \in Nat /\ Len(stack) > 0 /\ stack'[1] = c
    /\ DOMAIN stack = 1 .. Len(stack) /\ DOMAIN stack' = 1 .. (Len(stack) + 1)
    /\ Calls = 1 .. (Len(stack) - 1) /\ Calls' = 1 .. Len(stack)
    /\ \A k \in DOMAIN stack :
         /\ stack'[k + 1].pkg = stack[k].pkg /\ stack'[k + 1].dir = stack[k].dir
         /\ stack'[k + 1].at = stack[k].at
         /\ stack'[k + 1].todo = IF k = 1 THEN Tail(Top.todo) ELSE stack[k].todo
    /\ \A k \in DOMAIN stack' : k = 1 \/ k - 1 \in DOMAIN stack
    /\ \A k \in Calls' : k = 1 \/ k - 1 \in Calls
    /\ \A k \in Calls : k + 1 \in Calls'

(* That is what such a step does.                                          *)
LEMMA PushesIs ==
    ASSUME IInv, NEW c \in Frame, NEW f \in Frame, Pushes(c, f)
    PROVE  Pushed(c)
<1>1. stack \in Seq(Frame) /\ stack # <<>> /\ stack' = <<c, f>> \o Tail(stack)
  BY DEF IInv, Typed, Pushes
<1>2. Len(stack) \in Nat /\ Len(stack) > 0 /\ Top = stack[1]
      /\ DOMAIN stack = 1 .. Len(stack)
  BY <1>1, TopIs DEF IInv
<1>3. /\ stack' \in Seq(Frame) /\ Len(stack') = Len(stack) + 1
      /\ stack'[1] = c /\ stack'[2] = f
      /\ \A k \in 3 .. Len(stack') : stack'[k] = stack[k - 1]
  BY <1>1, PushIs
<1>4. DOMAIN stack' = 1 .. (Len(stack) + 1)
  BY <1>3
<1>5. ASSUME NEW k \in DOMAIN stack, k # 1
      PROVE  stack'[k + 1] = stack[k]
  <2>1. k + 1 \in 3 .. Len(stack') /\ (k + 1) - 1 = k
    BY <1>2, <1>3, <1>5
  <2> QED  BY <1>3, <2>1
<1>6. \A k \in DOMAIN stack :
        /\ stack'[k + 1].pkg = stack[k].pkg /\ stack'[k + 1].dir = stack[k].dir
        /\ stack'[k + 1].at = stack[k].at
        /\ stack'[k + 1].todo = IF k = 1 THEN Tail(Top.todo) ELSE stack[k].todo
  <2>1. /\ stack'[1 + 1].pkg = stack[1].pkg /\ stack'[1 + 1].dir = stack[1].dir
        /\ stack'[1 + 1].at = stack[1].at /\ stack'[1 + 1].todo = Tail(Top.todo)
    BY <1>2, <1>3 DEF Pushes
  <2> QED  BY <1>5, <2>1
<1>7. Calls = 1 .. (Len(stack) - 1) /\ Calls' = 1 .. Len(stack)
  BY <1>2, <1>3 DEF Calls
<1>8. /\ \A k \in DOMAIN stack' : k = 1 \/ k - 1 \in DOMAIN stack
      /\ \A k \in Calls' : k = 1 \/ k - 1 \in Calls
      /\ \A k \in Calls : k + 1 \in Calls'
  BY <1>2, <1>4, <1>7
<1> QED  BY <1>2, <1>3, <1>4, <1>6, <1>7, <1>8 DEF Pushed

(* The shape of the stack with a call more.                                *)
LEMMA PushShape ==
    ASSUME IInv, NEW c \in Frame, NEW f \in Frame, Pushes(c, f),
           UNCHANGED <<visited, asked, code, made, cacheVars, disk, restVars>>
    PROVE  Typed' /\ Based' /\ Nested' /\ Trail'
<1>0. asked' = asked /\ code' = code /\ visited' = visited
  OBVIOUS
<1>p. Pushed(c)
  BY PushesIs
<1> USE <1>p DEF Pushed
<1>1. Typed'
  BY DEF IInv, Typed, cacheVars, restVars
<1>2. Based'
  <2> USE <1>0
  <2>1. Based /\ stack # <<>> /\ stack' # <<>>
    BY DEF IInv, Pushes
  <2>2. c.pkg \in Packages /\ c.at = "slug"
    BY InnermostIs, NamedIs DEF Pushes
  <2>3. ASSUME NEW k \in Calls'
        PROVE  /\ stack'[k].pkg \in Packages
               /\ stack'[k].at = "devs" =>
                    ~Local /\ k = Len(stack') - 1 /\ asked.program # "upgrade"
    <3>1. CASE k = 1
      BY <2>2, <3>1
    <3>2. CASE k # 1
      <4>1. k - 1 \in Calls /\ (k - 1) + 1 = k /\ k - 1 \in DOMAIN stack
        BY <3>2
      <4>2. stack'[k].pkg = stack[k - 1].pkg /\ stack'[k].at = stack[k - 1].at
        BY <4>1
      <4>3. stack[k - 1].pkg \in Packages
        BY <2>1, <4>1 DEF Based
      <4>4. stack[k - 1].at = "devs" =>
              ~Local /\ k - 1 = Len(stack) - 1 /\ asked.program # "upgrade"
        BY <2>1, <4>1 DEF Based
      <4>5. /\ k \in Int /\ Len(stack) \in Nat /\ Len(stack') = Len(stack) + 1
        OBVIOUS
      <4>6. ASSUME NEW n \in Nat, NEW m, m = n + 1
            PROVE  m - 1 = n /\ (k - 1 = n - 1 => k = n)
        <5> HIDE <1>p
        <5> QED  BY <4>5, <4>6
      <4> HIDE <1>p
      <4> QED  BY <4>2, <4>3, <4>4, <4>5, <4>6
    <3> QED  BY <3>1, <3>2
  <2>4. LET main == stack'[Len(stack')]
        IN  /\ main.pkg = Program /\ main.dir = Program /\ main.at \in {"deps", "devs"}
            /\ main.at = "devs" => Local /\ Opt("dev")
    <3>1. Len(stack) \in DOMAIN stack /\ Len(stack') = Len(stack) + 1
      OBVIOUS
    <3>2. LET main == stack[Len(stack)] main2 == stack'[Len(stack')]
          IN  main2.pkg = main.pkg /\ main2.dir = main.dir /\ main2.at = main.at
      BY <3>1
    <3> HIDE <1>p
    <3> QED  BY <2>1, <3>2 DEF Based
  <2>5. stack'[Len(stack') - 1].dir = Program
    <3>1. CASE Len(stack) = 1
      BY <2>1, <3>1, InnermostIs DEF Based, Pushes
    <3>2. CASE Len(stack) > 1
      <4>1. Len(stack) - 1 \in DOMAIN stack /\ Len(stack') - 1 = (Len(stack) - 1) + 1
        BY <3>2
      <4>3. stack[Len(stack) - 1].dir = Program
        <5> HIDE <1>p
        <5> QED  BY <2>1, <3>2 DEF Based
      <4>2. stack'[(Len(stack) - 1) + 1].dir = Program
        BY <4>1, <4>3
      <4> QED  BY <4>1, <4>2
    <3> QED  BY <3>1, <3>2
  <2>6. code' = "running" /\ (asked.program = "upgrade" => ~Opt("dev") /\ ~Local)
    BY <2>1 DEF Based
  <2>7. Local' = Local /\ (Opt("dev"))' = Opt("dev")
    BY DEF Local, Opt
  <2> QED  BY <2>3, <2>4, <2>5, <2>6, <2>7 DEF Based
<1>3. Nested'
  <2>1. SUFFICES ASSUME NEW k \in DOMAIN stack', stack'[k].dir = Program,
                        NEW j \in DOMAIN stack', j > k
                 PROVE  stack'[j].dir = Program
    BY DEF Nested
  <2>2. j - 1 \in DOMAIN stack /\ stack'[j].dir = stack[j - 1].dir
    <3>1. j - 1 \in DOMAIN stack /\ (j - 1) + 1 = j
      BY <2>1
    <3> QED  BY <3>1
  <2>3. PICK i \in DOMAIN stack : stack[i].dir = Program /\ (i < j - 1 \/ i = j - 1)
    <3>1. CASE k = 1
      <4>1. Top.dir = Program
        BY <2>1, <3>1 DEF Pushes
      <4>2. 1 \in DOMAIN stack /\ stack[1].dir = Program /\ (1 < j - 1 \/ 1 = j - 1)
        BY <2>1, <2>2, <4>1, InnermostIs DEF Pushes
      <4> QED  BY <4>2
    <3>2. CASE k # 1
      <4>1. k - 1 \in DOMAIN stack /\ (k - 1) + 1 = k /\ k - 1 < j - 1
        BY <2>1, <3>2
      <4>2. stack[k - 1].dir = Program
        BY <2>1, <4>1
      <4> QED  BY <4>1, <4>2
    <3> QED  BY <3>1, <3>2
  <2>4. stack[j - 1].dir = Program
    BY <2>2, <2>3 DEF IInv, Nested
  <2> QED  BY <2>2, <2>4
<1>4. Trail'
  <2>1. SUFFICES ASSUME NEW p \in visited
                 PROVE  \E k \in Calls' : stack'[k].pkg = p
                                          /\ stack'[k].at \notin Before \cup {"devs"}
    BY <1>0 DEF Trail
  <2>2. PICK k \in Calls : stack[k].pkg = p /\ stack[k].at \notin Before \cup {"devs"}
    BY DEF IInv, Trail
  <2>3. k + 1 \in Calls' /\ k \in DOMAIN stack
    OBVIOUS
  <2>4. stack'[k + 1].pkg = p /\ stack'[k + 1].at \notin Before \cup {"devs"}
    BY <2>2, <2>3
  <2> QED  BY <2>3, <2>4
<1> QED  BY <1>1, <1>2, <1>3, <1>4

(* What has been carried out with a call more.                             *)
LEMMA PushFiles ==
    ASSUME IInv, NEW c \in Frame, NEW f \in Frame, Pushes(c, f),
           UNCHANGED <<visited, asked, code, made, cacheVars, disk, restVars>>
    PROVE  Built' /\ Clean'
<1>1. /\ UNCHANGED <<asked, made, pcache, disk, mishap>>
      /\ (Opt("global"))' = Opt("global")
  BY DEF cacheVars, restVars, Opt
<1>p. Pushed(c)
  BY PushesIs
<1> USE <1>p DEF Pushed
<1>2. ASSUME NEW k \in Calls'
      PROVE  \/ stack'[k].at = "slug"
             \/ \E j \in Calls : /\ stack'[k].pkg = stack[j].pkg
                                 /\ stack'[k].dir = stack[j].dir
                                 /\ stack'[k].at = stack[j].at
  <2>1. CASE k = 1
    BY <2>1 DEF Pushes
  <2>2. CASE k # 1
    <3>1. k - 1 \in Calls /\ (k - 1) + 1 = k /\ k - 1 \in DOMAIN stack
      BY <2>2
    <3>2. /\ stack'[k].pkg = stack[k - 1].pkg /\ stack'[k].dir = stack[k - 1].dir
          /\ stack'[k].at = stack[k - 1].at
      BY <3>1
    <3> QED  BY <3>1, <3>2
  <2> QED  BY <2>1, <2>2
<1>3. Built'
  BY <1>1, <1>2 DEF IInv, Built
<1>4. Clean'
  BY <1>1, <1>2 DEF IInv, Clean, After
<1> QED  BY <1>3, <1>4

(* What is covered: what the caller had to do is in hand.                  *)
LEMMA PushCovered ==
    ASSUME IInv, NEW c \in Frame, NEW f \in Frame, Pushes(c, f),
           UNCHANGED <<visited, asked, code, made, cacheVars, disk, restVars>>
    PROVE  Covered'
<1>p. Pushed(c)
  BY PushesIs
<1> USE <1>p DEF Pushed
<1>1. SUFFICES ASSUME ~mishap' PROVE \E D \in SUBSET Packages : Settled(D)'
  BY DEF Covered
<1>2. PICK D \in SUBSET Packages : Settled(D)
  BY <1>1 DEF IInv, Covered, Pushes, restVars
<1> DEFINE main == stack[Len(stack)]
           main2 == stack'[Len(stack')]
           S == D \cup InHand
           S2 == D \cup InHand'
<1>3. InHand \subseteq InHand'
  <2>1. SUFFICES ASSUME NEW p \in Packages, NEW k \in Calls, stack[k].pkg = p,
                        stack[k].dir = Program, stack[k].at # "devs"
                 PROVE  \E j \in Calls' : /\ stack'[j].pkg = p /\ stack'[j].dir = Program
                                          /\ stack'[j].at # "devs"
    BY DEF InHand
  <2>2. k + 1 \in Calls' /\ k \in DOMAIN stack
    OBVIOUS
  <2> QED  BY <2>1, <2>2
<1>4. Top.todo \in Seq(Packages) /\ Head(Top.todo) \in Packages
      /\ Named(Top.todo) = {Head(Top.todo)} \cup Named(Tail(Top.todo))
  BY InnermostIs, NamedIs DEF Pushes
<1>5. Top.dir = Program /\ Top.at # "tmpdeps" => Head(Top.todo) \in InHand'
  <2>1. 1 \in Calls' /\ stack'[1] = c
    OBVIOUS
  <2> QED  BY <1>4, <2>1 DEF InHand, Pushes
<1>6. ASSUME NEW k \in DOMAIN stack, stack[k].dir = Program, stack[k].at # "tmpdeps"
      PROVE  S \cup Named(stack[k].todo) \subseteq S2 \cup Named(stack'[k + 1].todo)
  <2>1. CASE k = 1
    <3>1. stack[1] = Top /\ stack'[1 + 1].todo = Tail(Top.todo)
      BY <2>1, InnermostIs DEF Pushes
    <3>2. Head(Top.todo) \in InHand'
      BY <1>5, <1>6, <2>1, <3>1
    <3> HIDE <1>p
    <3> QED  BY <1>3, <1>4, <2>1, <3>1, <3>2
  <2>2. CASE k # 1
    <3>1. stack'[k + 1].todo = stack[k].todo
      BY <2>2
    <3> HIDE <1>p
    <3> QED  BY <1>3, <3>1
  <2> QED  BY <2>1, <2>2
<1>7. \A p \in D : Done(p)' /\ Named(Deps[p]) \subseteq S2
  BY <1>2, <1>3 DEF Settled, Done, Opt, restVars
<1>8. ASSUME NEW j \in Calls'
      PROVE  LET g == stack'[j]
             IN  /\ g.dir = Program /\ g.at = "deps" =>
                       Named(Deps[g.pkg]) \subseteq S2 \cup Named(g.todo)
                 /\ g.at = "devs" => g.pkg \in D
                 /\ g.at = "devs" /\ Opt("dev") =>
                       Named(Devs[g.pkg]) \subseteq S2 \cup Named(g.todo)
  <2>1. CASE j = 1
    BY <2>1 DEF Pushes
  <2>2. CASE j # 1
    <3>1. PICK k \in Calls : j = k + 1 /\ k \in DOMAIN stack
      <4>1. j - 1 \in Calls /\ (j - 1) + 1 = j /\ j - 1 \in DOMAIN stack
        BY <2>2
      <4> QED  BY <4>1
    <3>2. stack'[j].pkg = stack[k].pkg /\ stack'[j].dir = stack[k].dir
          /\ stack'[j].at = stack[k].at
      BY <3>1
    <3>3. stack[k].at = "devs" => stack[k].dir = Program
      <4>1. Len(stack) > 1
        OBVIOUS
      <4> HIDE <1>p
      <4>2. stack[k].at = "devs" => k = Len(stack) - 1
        BY DEF IInv, Based
      <4> QED  BY <4>1, <4>2 DEF IInv, Based
    <3>4. /\ stack[k].dir = Program /\ stack[k].at = "deps" =>
               Named(Deps[stack[k].pkg]) \subseteq S \cup Named(stack[k].todo)
          /\ stack[k].at = "devs" => stack[k].pkg \in D
          /\ stack[k].at = "devs" /\ Opt("dev") =>
               Named(Devs[stack[k].pkg]) \subseteq S \cup Named(stack[k].todo)
      BY <1>2 DEF Settled
    <3>5. stack[k].dir = Program /\ stack[k].at # "tmpdeps"
            => S \cup Named(stack[k].todo) \subseteq S2 \cup Named(stack'[j].todo)
      BY <1>6, <3>1
    <3> HIDE DEF S, S2
    <3> QED  BY <3>2, <3>3, <3>4, <3>5
  <2> QED  BY <2>1, <2>2
<1>9. /\ main2.at = main.at /\ main.dir = Program /\ main.at \in {"deps", "devs"}
      /\ S \cup Named(main.todo) \subseteq S2 \cup Named(main2.todo)
      /\ S \subseteq S2
  <2>1. Len(stack) \in DOMAIN stack /\ Len(stack) + 1 = Len(stack')
    OBVIOUS
  <2>2. main.dir = Program /\ main.at \in {"deps", "devs"}
    BY DEF IInv, Based, Pushes
  <2>3. main2.at = main.at
    BY <2>1
  <2>4. S \cup Named(main.todo) \subseteq S2 \cup Named(main2.todo)
    BY <1>6, <2>1, <2>2
  <2> QED  BY <1>3, <2>2, <2>3, <2>4
<1>10. /\ Roots' = Roots /\ Local' = Local /\ (Opt("dev"))' = Opt("dev")
       /\ asked' = asked /\ manifest' = manifest
  BY DEF Roots, Local, Opt, restVars
<1>11. /\ main2.at = "deps" => Roots \subseteq S2 \cup Named(main2.todo)
       /\ main2.at = "devs" => Roots \subseteq S2
                               /\ Named(manifest.devs) \subseteq S2 \cup Named(main2.todo)
  <2>1. /\ main.at = "deps" => Roots \subseteq S \cup Named(main.todo)
        /\ main.at = "devs" => Roots \subseteq S
                               /\ Named(manifest.devs) \subseteq S \cup Named(main.todo)
    BY <1>2 DEF Settled
  <2> HIDE DEF S, S2, main, main2
  <2> QED  BY <1>9, <2>1
<1>12. ASSUME ~Local, Opt("dev"), NEW p \in Named(asked.args)
       PROVE  \/ Named(Devs[p]) \subseteq S2
              \/ p \in Named(main2.todo)
              \/ Len(stack') > 1 /\ stack'[Len(stack') - 1].pkg = p
  <2>1. \/ Named(Devs[p]) \subseteq S
        \/ p \in Named(main.todo)
        \/ Len(stack) > 1 /\ stack[Len(stack) - 1].pkg = p
    BY <1>2, <1>12 DEF Settled
  <2>2. CASE Named(Devs[p]) \subseteq S
    BY <1>3, <2>2
  <2>3. CASE p \in Named(main.todo)
    <3>1. CASE Len(stack) = 1
      <4>1. main = Top /\ stack'[Len(stack') - 1] = c /\ main2.todo = Tail(Top.todo)
        BY <3>1, InnermostIs DEF Pushes
      <4>2. p = Head(Top.todo) \/ p \in Named(main2.todo)
        BY <1>4, <2>3, <4>1
      <4> QED  BY <3>1, <4>1, <4>2 DEF Pushes
    <3>2. CASE Len(stack) # 1
      <4>1. main2.todo = main.todo
        <5>1. Len(stack) \in DOMAIN stack /\ Len(stack') = Len(stack) + 1
          OBVIOUS
        <5> QED  BY <3>2, <5>1
      <4> QED  BY <2>3, <4>1
    <3> QED  BY <3>1, <3>2
  <2>4. CASE Len(stack) > 1 /\ stack[Len(stack) - 1].pkg = p
    <3>1. Len(stack) - 1 \in DOMAIN stack /\ (Len(stack) - 1) + 1 = Len(stack') - 1
      BY <2>4
    <3>2. stack'[(Len(stack) - 1) + 1].pkg = p
      BY <2>4, <3>1
    <3> QED  BY <3>1, <3>2
  <2> QED  BY <2>1, <2>2, <2>3, <2>4
<1>13. Settled(D)'
  <2> HIDE DEF main2
  <2>1. D \subseteq Packages
    OBVIOUS
  <2> QED  BY <1>7, <1>8, <1>10, <1>11, <1>12, <2>1 DEF Settled, main2
<1> QED  BY <1>13

(* So a call keeps the invariant.                                          *)
LEMMA NextDepKeeps ==
    ASSUME IInv, NextDep
    PROVE  IInv'
<1>1. PICK c \in Frame, f \in Frame : Pushes(c, f)
  BY NextDepIs
<1>2. UNCHANGED <<visited, asked, code, made, cacheVars, disk, restVars>>
  BY NextDepIs
<1>3. SuccessMeansInstalled'
  BY <1>1, <1>2 DEF IInv, Pushes, Based, SuccessMeansInstalled
<1> QED  BY <1>1, <1>2, <1>3, PushShape, PushFiles, PushCovered DEF IInv

-----------------------------------------------------------------------------
(* A call that returns.                                                    *)

Popped ==
    /\ stack' \in Seq(Frame) /\ Len(stack') = Len(stack) - 1
    /\ Len(stack) \in Nat /\ Len(stack) > 0
    /\ Calls = 1 .. (Len(stack) - 1) /\ Calls' = 1 .. (Len(stack) - 2)
    /\ DOMAIN stack = 1 .. Len(stack) /\ DOMAIN stack' = 1 .. (Len(stack) - 1)
    /\ \A k \in DOMAIN stack' : stack'[k] = stack[k + 1] /\ k + 1 \in DOMAIN stack
    /\ \A k \in Calls' : stack'[k] = stack[k + 1] /\ k + 1 \in Calls
    /\ \A k \in Calls : k # 1 => k - 1 \in Calls' /\ stack'[k - 1] = stack[k]

(* That is what returning does to the stack.                               *)
LEMMA PoppedIs ==
    ASSUME IInv, stack # <<>>, stack' = Tail(stack)
    PROVE  Popped
<1>1. /\ Len(stack) \in Nat /\ Len(stack) > 0 /\ stack \in Seq(Frame)
      /\ DOMAIN stack = 1 .. Len(stack)
  BY TopIs DEF IInv, Typed
<1>2. /\ stack' \in Seq(Frame) /\ Len(stack') = Len(stack) - 1
      /\ \A k \in 1 .. (Len(stack) - 1) : stack'[k] = stack[k + 1]
  BY <1>1, PopIs
<1>3. DOMAIN stack' = 1 .. (Len(stack) - 1)
  BY <1>2
<1>4. Calls = 1 .. (Len(stack) - 1) /\ Calls' = 1 .. (Len(stack) - 2)
  BY <1>1, <1>2 DEF Calls
<1>5. \A k \in DOMAIN stack' : stack'[k] = stack[k + 1] /\ k + 1 \in DOMAIN stack
  BY <1>1, <1>2, <1>3
<1>6. \A k \in Calls' : stack'[k] = stack[k + 1] /\ k + 1 \in Calls
  BY <1>1, <1>2, <1>4
<1>7. ASSUME NEW k \in Calls, k # 1
      PROVE  k - 1 \in Calls' /\ stack'[k - 1] = stack[k]
  <2>1. k - 1 \in Calls' /\ k - 1 \in 1 .. (Len(stack) - 1) /\ (k - 1) + 1 = k
    BY <1>1, <1>4, <1>7
  <2> QED  BY <1>2, <2>1
<1> QED  BY <1>1, <1>2, <1>3, <1>4, <1>5, <1>6, <1>7 DEF Popped

(* The shape of the stack and what has been carried out.                   *)
LEMMA PopShape ==
    ASSUME IInv, stack # <<>>, stack' = Tail(stack),
           asked' = asked, Len(stack) > 1 => code' = code,
           UNCHANGED <<made, pcache, disk>>, mishap' = mishap \/ mishap' = TRUE
    PROVE  Based' /\ Nested' /\ Built' /\ Clean'
<1>p. Popped
  BY PoppedIs
<1> USE <1>p DEF Popped
<1>0. Local' = Local /\ \A o : (Opt(o))' = Opt(o)
  BY DEF Local, Opt
<1>1. Based'
  <2>1. Based
    BY DEF IInv
  <2>2. stack' # <<>> => Len(stack) > 1 /\ code' = "running"
    <3>1. Len(stack') = 0 => stack' = <<>>
      OBVIOUS
    <3>2. stack' # <<>> => Len(stack) > 1
      BY <3>1
    <3> HIDE <1>p
    <3> QED  BY <2>1, <3>2 DEF Based
  <2>3. \A k \in Calls' : stack'[k].pkg \in Packages
    <3>1. \A k \in Calls : stack[k].pkg \in Packages
      BY <2>1 DEF Based
    <3> QED  BY <3>1
  <2>4. ASSUME NEW k \in Calls', stack'[k].at = "devs"
        PROVE  ~Local /\ k = Len(stack') - 1 /\ asked.program # "upgrade"
    <3>1. /\ k + 1 \in Calls /\ stack[k + 1].at = "devs" /\ k \in Int
          /\ Len(stack) \in Nat /\ Len(stack') = Len(stack) - 1
      BY <2>4
    <3>2. ~Local /\ k + 1 = Len(stack) - 1 /\ asked.program # "upgrade"
      <4> HIDE <1>p
      <4> QED  BY <2>1, <3>1 DEF Based
    <3> HIDE <1>p
    <3>3. ASSUME NEW n \in Nat, NEW m, m = n - 1, k + 1 = n - 1
          PROVE  k = m - 1
      BY <3>1, <3>3
    <3> QED  BY <3>1, <3>2, <3>3
  <2>5. ASSUME stack' # <<>>
        PROVE  LET main == stack'[Len(stack')]
               IN  /\ main.pkg = Program /\ main.dir = Program
                   /\ main.at \in {"deps", "devs"}
                   /\ main.at = "devs" => Local /\ Opt("dev")
    <3>1. Len(stack') \in DOMAIN stack' /\ Len(stack') + 1 = Len(stack)
      BY <2>2, <2>5
    <3>2. stack'[Len(stack')] = stack[Len(stack)]
      BY <3>1
    <3> HIDE <1>p
    <3> QED  BY <2>1, <3>2 DEF Based
  <2>6. Len(stack') > 1 => stack'[Len(stack') - 1].dir = Program
    <3>1. Len(stack') > 1 => Len(stack') - 1 \in DOMAIN stack' /\ Len(stack) > 1
                             /\ (Len(stack') - 1) + 1 = Len(stack) - 1
      OBVIOUS
    <3>2. Len(stack') > 1 => stack'[Len(stack') - 1] = stack[Len(stack) - 1]
      BY <3>1
    <3> HIDE <1>p
    <3> QED  BY <2>1, <3>1, <3>2 DEF Based
  <2>7. asked.program = "upgrade" => ~Opt("dev") /\ ~Local
    BY <2>1 DEF Based
  <2> HIDE <1>p
  <2> QED  BY <1>0, <2>2, <2>3, <2>4, <2>5, <2>6, <2>7 DEF Based
<1>2. Nested'
  <2>1. SUFFICES ASSUME NEW k \in DOMAIN stack', stack'[k].dir = Program,
                        NEW j \in DOMAIN stack', j > k
                 PROVE  stack'[j].dir = Program
    BY DEF Nested
  <2>2. k + 1 \in DOMAIN stack /\ j + 1 \in DOMAIN stack /\ j + 1 > k + 1
        /\ stack'[k] = stack[k + 1] /\ stack'[j] = stack[j + 1]
    BY <2>1
  <2> HIDE <1>p
  <2> QED  BY <2>1, <2>2 DEF IInv, Nested
<1>3. Built'
  <2>1. \A k \in Calls' : stack'[k] = stack[k + 1] /\ k + 1 \in Calls
    OBVIOUS
  <2> HIDE <1>p
  <2> QED  BY <2>1 DEF IInv, Built
<1>4. Clean'
  <2>1. \A k \in Calls' : stack'[k] = stack[k + 1] /\ k + 1 \in Calls
    OBVIOUS
  <2> HIDE <1>p
  <2>2. /\ ~mishap' => ~mishap
        /\ pcache' = pcache /\ disk' = disk /\ (Opt("global"))' = Opt("global")
    BY <1>0
  <2>3. Clean
    BY DEF IInv
  <2>4. ASSUME ~mishap'
        PROVE  /\ \A p \in Packages : pcache[p] \in {"none", "whole"}
               /\ \A d \in Dirs, p \in Packages : disk[d][p] \in {"absent", "whole"}
    BY <2>2, <2>3, <2>4 DEF Clean
  <2>5. ASSUME ~mishap', NEW k \in Calls',
               \/ stack'[k].at = "save"
               \/ /\ stack'[k].at \in After /\ stack'[k].pkg \in Sourced
                  /\ ~Opt("global")
        PROVE  disk[stack'[k].dir][stack'[k].pkg] = "whole"
    <3>1. PICK j \in Calls : stack'[k] = stack[j]
      BY <2>1
    <3> QED  BY <2>2, <2>3, <2>5, <3>1 DEF Clean
  <2> QED  BY <2>2, <2>4, <2>5, Zenon DEF Clean
<1> QED  BY <1>1, <1>2, <1>3, <1>4

(* What is covered, when the call that returns leaves nothing to be done.  *)
LEMMA PopCovered ==
    ASSUME IInv, Len(stack) > 1, stack' = Tail(stack), asked' = asked,
           UNCHANGED <<made, disk>>, Local => manifest' = manifest,
           NEW D \in SUBSET Packages, Settled(D),
           NEW E \in SUBSET Packages, D \subseteq E, InHand \subseteq E \cup InHand',
           \A p \in E : Done(p) /\ Named(Deps[p]) \subseteq E \cup InHand',
           Len(stack) = 2 /\ ~Local /\ Opt("dev") =>
              Named(Devs[Top.pkg]) \subseteq E \cup InHand'
    PROVE  Settled(E)'
<1>0. stack # <<>> /\ Top = stack[1]
  <2>1. stack # <<>>
    <3>1. Len(<<>>) = 0
      OBVIOUS
    <3> QED  BY <3>1
  <2> QED  BY <2>1, TopIs DEF IInv
<1>p. Popped
  BY <1>0, PoppedIs
<1> USE <1>p DEF Popped
<1> DEFINE main == stack[Len(stack)]
           S == D \cup InHand
           T == E \cup InHand'
<1>1. S \subseteq T
  OBVIOUS
<1>2. /\ stack'[Len(stack')] = main /\ Local' = Local /\ Opt("dev")' = Opt("dev")
      /\ Opt("global")' = Opt("global")
  <2>1. Len(stack') \in DOMAIN stack' /\ Len(stack') + 1 = Len(stack)
    OBVIOUS
  <2> QED  BY <2>1 DEF Local, Opt
<1>3. \A p \in E : Done(p)'
  BY DEF Done, Opt
<1>4. ASSUME NEW k \in Calls'
      PROVE  LET g == stack'[k]
             IN  /\ g.dir = Program /\ g.at = "deps" =>
                       Named(Deps[g.pkg]) \subseteq T \cup Named(g.todo)
                 /\ g.at = "devs" => g.pkg \in E
                 /\ g.at = "devs" /\ Opt("dev") =>
                       Named(Devs[g.pkg]) \subseteq T \cup Named(g.todo)
  <2>1. stack'[k] = stack[k + 1] /\ k + 1 \in Calls
    OBVIOUS
  <2>2. LET g == stack[k + 1]
        IN  /\ g.dir = Program /\ g.at = "deps" =>
                  Named(Deps[g.pkg]) \subseteq S \cup Named(g.todo)
            /\ g.at = "devs" => g.pkg \in D
            /\ g.at = "devs" /\ Opt("dev") =>
                  Named(Devs[g.pkg]) \subseteq S \cup Named(g.todo)
    BY <2>1 DEF Settled
  <2> HIDE <1>p DEF S, T
  <2> QED  BY <1>1, <2>1, <2>2
<1>5. /\ main.at = "deps" => Roots' \subseteq T \cup Named(main.todo)
      /\ main.at = "devs" => Roots' \subseteq T
                             /\ Named(manifest'.devs) \subseteq T \cup Named(main.todo)
  <2>1. /\ main.at = "deps" => Roots \subseteq S \cup Named(main.todo)
        /\ main.at = "devs" => Roots \subseteq S
                               /\ Named(manifest.devs) \subseteq S \cup Named(main.todo)
    BY DEF Settled
  <2>2. Roots' = Roots
    BY <1>2 DEF Roots
  <2>3. main.at = "devs" => manifest' = manifest
    BY <1>0 DEF IInv, Based
  <2> HIDE <1>p DEF S, T, main
  <2> QED  BY <1>1, <2>1, <2>2, <2>3
<1>6. ASSUME ~Local, Opt("dev"), NEW p \in Named(asked.args)
      PROVE  \/ Named(Devs[p]) \subseteq T
             \/ p \in Named(main.todo)
             \/ Len(stack') > 1 /\ stack'[Len(stack') - 1].pkg = p
  <2>1. \/ Named(Devs[p]) \subseteq S
        \/ p \in Named(main.todo)
        \/ stack[Len(stack) - 1].pkg = p
    BY <1>6 DEF Settled
  <2>2. CASE stack[Len(stack) - 1].pkg = p
    <3>1. CASE Len(stack) = 2
      BY <1>0, <1>6, <2>2, <3>1
    <3>2. CASE Len(stack) # 2
      <4>1. /\ Len(stack') > 1 /\ (Len(stack') - 1) + 1 = Len(stack) - 1
            /\ Len(stack') - 1 \in DOMAIN stack'
        BY <3>2
      <4> QED  BY <2>2, <4>1
    <3> QED  BY <3>1, <3>2
  <2> HIDE <1>p DEF main
  <2> QED  BY <1>1, <2>1, <2>2
<1>7. QED
  <2> HIDE <1>p DEF main
  <2> QED  BY <1>2, <1>3, <1>4, <1>5, <1>6 DEF Settled

(* When main has nothing left to do, what is needed is installed.          *)
LEMMA MainDone ==
    ASSUME IInv, ~mishap, Len(stack) = 1, Top.todo = <<>>,
           Top.at = "deps" => ~(Local /\ Opt("dev"))
    PROVE  Installed
<1>1. stack # <<>>
  <2>1. Len(<<>>) = 0
    OBVIOUS
  <2> QED  BY <2>1
<1>2. Top = stack[1] /\ stack[Len(stack)] = Top /\ Calls = {}
  BY <1>1, InnermostIs DEF Calls
<1>3. InHand = {} /\ Named(Top.todo) = {}
  BY <1>2 DEF InHand, Named
<1>4. PICK D \in SUBSET Packages : Settled(D)
  BY <1>1 DEF IInv, Covered
<1>5. /\ \A p \in D : Done(p) /\ Named(Deps[p]) \subseteq D
      /\ Roots \subseteq D
      /\ Top.at = "devs" => Named(manifest.devs) \subseteq D
      /\ ~Local /\ Opt("dev") => \A p \in Named(asked.args) : Named(Devs[p]) \subseteq D
  <2>1. Top.at \in {"deps", "devs"}
    BY <1>1, <1>2 DEF IInv, Based
  <2>2. ~(Len(stack) > 1)
    OBVIOUS
  <2> QED  BY <1>2, <1>3, <1>4, <2>1, <2>2 DEF Settled
<1>6. Closed(D)
  BY <1>5 DEF Closed, Named
<1>7. Wanted \subseteq D
  <2>1. Local /\ Opt("dev") => Named(manifest.devs) \subseteq D
    BY <1>1, <1>2, <1>5 DEF IInv, Based
  <2>2. CASE Local
    BY <1>5, <2>1, <2>2 DEF Wanted, Roots
  <2>3. CASE ~Local
    BY <1>5, <2>3 DEF Wanted, Roots
  <2> QED  BY <2>2, <2>3
<1>8. Needed \subseteq D
  BY <1>6, <1>7 DEF Needed
<1> QED  BY <1>5, <1>8 DEF Installed, Done

(* A package that is visited is being installed further out.               *)
LEMMA SkipKeeps ==
    ASSUME IInv, Skip
    PROVE  IInv'
<1>1. /\ stack # <<>> /\ Top.at = "enter" /\ Top.pkg \in visited
      /\ stack' = Tail(stack)
      /\ UNCHANGED <<visited, asked, code, made, cacheVars, disk, restVars>>
  BY DEF Skip, At
<1>2. Top = stack[1] /\ 1 \in Calls /\ Top.pkg \in Packages
  BY <1>1, OnTheWay DEF IInv
<1>p. Popped
  BY <1>1, PoppedIs
<1>3. PICK k \in Calls : /\ stack[k].pkg = Top.pkg /\ k # 1
                         /\ stack[k].at \notin Before \cup {"devs"}
  BY <1>1, <1>2 DEF IInv, Trail, Before
<1>4. k - 1 \in Calls' /\ stack'[k - 1] = stack[k]
  BY <1>3, <1>p DEF Popped
<1>5. Len(stack) > 2 /\ k > 1 /\ 1 \in DOMAIN stack /\ k \in DOMAIN stack
  BY <1>3, <1>p DEF Popped
<1>6. Top.dir = Program => stack[k].dir = Program
  BY <1>2, <1>5 DEF IInv, Nested
<1>7. InHand \subseteq InHand'
  <2>1. SUFFICES ASSUME NEW p \in Packages, NEW j \in Calls, stack[j].pkg = p,
                        stack[j].dir = Program, stack[j].at # "devs"
                 PROVE  \E i \in Calls' : /\ stack'[i].pkg = p /\ stack'[i].dir = Program
                                          /\ stack'[i].at # "devs"
    BY DEF InHand
  <2>2. CASE j = 1
    BY <1>2, <1>3, <1>4, <1>6, <2>1, <2>2
  <2>3. CASE j # 1
    <3>1. j - 1 \in Calls' /\ stack'[j - 1] = stack[j]
      BY <1>p, <2>3 DEF Popped
    <3> QED  BY <2>1, <3>1
  <2> QED  BY <2>2, <2>3
<1>8. Typed'
  BY <1>1, <1>p DEF IInv, Typed, Popped, cacheVars, restVars
<1>9. Based' /\ Nested' /\ Built' /\ Clean'
  BY <1>1, PopShape DEF cacheVars, restVars
<1>10. Trail'
  <2>1. SUFFICES ASSUME NEW p \in visited
                 PROVE  \E i \in Calls' : stack'[i].pkg = p
                                          /\ stack'[i].at \notin Before \cup {"devs"}
    BY <1>1 DEF Trail
  <2>2. PICK j \in Calls : stack[j].pkg = p /\ stack[j].at \notin Before \cup {"devs"}
    BY DEF IInv, Trail
  <2>3. j # 1
    BY <1>1, <1>2, <2>2 DEF Before
  <2>4. j - 1 \in Calls' /\ stack'[j - 1] = stack[j]
    BY <1>p, <2>3 DEF Popped
  <2> QED  BY <2>2, <2>4
<1>11. Covered'
  <2>1. SUFFICES ASSUME ~mishap' PROVE \E D \in SUBSET Packages : Settled(D)'
    BY DEF Covered
  <2>2. PICK D \in SUBSET Packages : Settled(D)
    BY <1>1, <2>1 DEF IInv, Covered, restVars
  <2>3. \A p \in D : Done(p) /\ Named(Deps[p]) \subseteq D \cup InHand'
    BY <1>7, <2>2 DEF Settled
  <2>4. Len(stack) > 1 /\ Len(stack) # 2 /\ manifest' = manifest
    BY <1>1, <1>5, <1>p DEF Popped, restVars
  <2>5. Settled(D)'
    BY <1>1, <1>7, <2>2, <2>3, <2>4, PopCovered
  <2> QED  BY <2>5
<1>12. SuccessMeansInstalled'
  BY <1>1 DEF IInv, Based, SuccessMeansInstalled
<1> QED  BY <1>8, <1>9, <1>10, <1>11, <1>12 DEF IInv

(* A package whose dependencies are done is installed.                     *)
LEMMA DepsDoneKeeps ==
    ASSUME IInv, DepsDone
    PROVE  IInv'
<1>1. /\ stack # <<>> /\ Top.at = "deps" /\ Top.todo = <<>> /\ ~GoesOn
      /\ stack' = Tail(stack) /\ visited' = {}
      /\ code' = IF Top.pkg = Program THEN "ok" ELSE code
      /\ UNCHANGED <<asked, made, cacheVars, disk, restVars>>
  BY DEF DepsDone, At, Return
<1>p. Popped
  BY <1>1, PoppedIs
<1>2. Top = stack[1] /\ (Len(stack) = 1 \/ 1 \in Calls) /\ Top \in Frame
  BY <1>1, InnermostIs
<1>3. 1 \in Calls => Top.pkg \in Packages /\ Top.pkg # Program /\ Len(stack) > 1
  BY <1>2, <1>p, PackagesAssumption DEF IInv, Based, Popped
<1>q. Len(stack) > 1 => Len(stack) # 1 /\ 1 \in Calls
  BY <1>p DEF Popped
<1>4. Len(stack) > 1 => code' = code
  BY <1>1, <1>q, <1>3
<1>5. Typed'
  <2>1. code' \in {"none", "running", "ok", "failed", "killed"}
    BY <1>1 DEF IInv, Typed
  <2> QED  BY <1>1, <1>p, <2>1 DEF IInv, Typed, Popped, cacheVars, restVars
<1>6. Based' /\ Nested' /\ Built' /\ Clean'
  BY <1>1, <1>4, PopShape DEF cacheVars, restVars
<1>7. Trail'
  BY <1>1 DEF Trail
<1>8. ASSUME Len(stack) > 1
      PROVE  Covered' /\ SuccessMeansInstalled'
  <2>0. 1 \in Calls
    BY <1>q, <1>8
  <2>1. SuccessMeansInstalled'
    BY <1>1, <1>4, <1>8 DEF IInv, Based, SuccessMeansInstalled
  <2>2. SUFFICES ASSUME ~mishap' PROVE \E D \in SUBSET Packages : Settled(D)'
    BY <2>1 DEF Covered
  <2>3. ~mishap
    BY <1>1, <2>2 DEF restVars
  <2>4. PICK D \in SUBSET Packages : Settled(D)
    BY <1>1, <2>3 DEF IInv, Covered
  <2>e. PICK E \in SUBSET Packages :
          E = IF Top.dir = Program THEN D \cup {Top.pkg} ELSE D
    BY <1>3, <2>0
  <2>5. D \subseteq E /\ (Top.dir = Program => Top.pkg \in E)
    BY <2>e
  <2>6. InHand \subseteq E \cup InHand'
    <3>1. SUFFICES ASSUME NEW p \in Packages, NEW j \in Calls, stack[j].pkg = p,
                          stack[j].dir = Program, stack[j].at # "devs", p \notin E
                   PROVE  \E i \in Calls' : /\ stack'[i].pkg = p /\ stack'[i].dir = Program
                                            /\ stack'[i].at # "devs"
      BY DEF InHand
    <3>2. j # 1
      BY <1>2, <2>5, <3>1
    <3>3. j - 1 \in Calls' /\ stack'[j - 1] = stack[j]
      BY <1>p, <3>2 DEF Popped
    <3> QED  BY <3>1, <3>3
  <2>7. Top.dir = Program => Done(Top.pkg) /\ Named(Deps[Top.pkg]) \subseteq D \cup InHand
    <3>1. ASSUME Top.dir = Program PROVE Done(Top.pkg)
      BY <1>1, <1>2, <1>3, <2>0, <2>3, <3>1 DEF IInv, Built, Clean, Done, After
    <3>2. Named(Top.todo) = {}
      BY <1>1 DEF Named
    <3>3. Top.dir = Program => Named(Deps[Top.pkg]) \subseteq D \cup InHand \cup Named(Top.todo)
      BY <1>1, <1>2, <2>0, <2>4 DEF Settled
    <3> QED  BY <3>1, <3>2, <3>3
  <2>8. \A p \in D : Done(p) /\ Named(Deps[p]) \subseteq D \cup InHand
    BY <2>4 DEF Settled
  <2>9. \A p \in E : Done(p) /\ Named(Deps[p]) \subseteq E \cup InHand'
    BY <2>e, <2>5, <2>6, <2>7, <2>8
  <2>10. ~(Len(stack) = 2 /\ ~Local /\ Opt("dev"))
    <3>1. SUFFICES ASSUME Len(stack) = 2, ~Local, Opt("dev") PROVE FALSE
      OBVIOUS
    <3>2. asked.program # "upgrade"
      BY <3>1 DEF IInv, Based
    <3>3. 2 # 1
      OBVIOUS
    <3> QED  BY <1>1, <3>1, <3>2, <3>3, Zenon DEF GoesOn
  <2>11. Settled(E)'
    BY <1>1, <1>8, <2>4, <2>5, <2>6, <2>9, <2>10, PopCovered DEF restVars
  <2> QED  BY <2>11
<1>9. ASSUME Len(stack) = 1
      PROVE  Covered' /\ SuccessMeansInstalled'
  <2>1. stack' = <<>>
    BY <1>p, <1>9 DEF Popped
  <2>2. ~mishap => Installed
    <3>1. ~(Local /\ Opt("dev"))
      BY <1>1, <1>9 DEF GoesOn
    <3> QED  BY <1>1, <1>9, <3>1, MainDone
  <2>3. Installed' = Installed /\ mishap' = mishap
    BY <1>1 DEF Installed, Needed, Wanted, Local, Opt, restVars
  <2> QED  BY <2>1, <2>2, <2>3 DEF Covered, SuccessMeansInstalled
<1>10. Len(stack) = 1 \/ Len(stack) > 1
  BY <1>p DEF Popped
<1> QED  BY <1>5, <1>6, <1>7, <1>8, <1>9, <1>10 DEF IInv

(* So is one whose development dependencies are done.                      *)
LEMMA DevsDoneKeeps ==
    ASSUME IInv, InstallDone \/ UpdateDone
    PROVE  IInv'
<1>1. /\ stack # <<>> /\ Top.at = "devs" /\ Top.todo = <<>>
      /\ stack' = Tail(stack) /\ visited' = visited
      /\ code' = IF Local THEN "ok" ELSE code
      /\ UNCHANGED <<asked, made, cacheVars, disk, mishap, runs>>
      /\ manifest' \in {manifest, Recorded}
  BY DEF InstallDone, UpdateDone, DevsDone, At
<1>p. Popped
  BY <1>1, PoppedIs
<1>2. Top = stack[1] /\ (Len(stack) = 1 \/ 1 \in Calls) /\ Top \in Frame
  BY <1>1, InnermostIs
<1>3. 1 \in Calls => ~Local /\ Len(stack) = 2 /\ Top.pkg \in Packages
  <2>1. 1 \in Calls => ~Local /\ 1 = Len(stack) - 1 /\ Top.pkg \in Packages
    BY <1>1, <1>2 DEF IInv, Based
  <2>2. \A n \in Nat : 1 = n - 1 => n = 2
    OBVIOUS
  <2>3. Len(stack) \in Nat
    BY <1>p DEF Popped
  <2> QED  BY <2>1, <2>2, <2>3, Zenon
<1>4. Len(stack) = 1 => Local
  BY <1>1, <1>2 DEF IInv, Based
<1>q. Len(stack) > 1 => Len(stack) # 1 /\ 1 \in Calls
  BY <1>p DEF Popped
<1>5. Len(stack) > 1 => code' = code
  BY <1>1, <1>q, <1>3
<1>6. Local => manifest' = manifest
  BY <1>1 DEF Recorded
<1>7. Typed'
  <2>1. manifest' \in [deps : Seq(Packages), devs : Seq(Packages), whole : BOOLEAN]
    <3>1. CASE Local
      BY <1>6, <3>1 DEF IInv, Typed
    <3>2. CASE ~Local
      <4>1. Top.pkg \in Packages
        BY <1>2, <1>3, <1>4, <3>2
      <4>2. manifest \in [deps : Seq(Packages), devs : Seq(Packages), whole : BOOLEAN]
        BY DEF IInv, Typed
      <4>3. With(manifest.deps, Top.pkg) \in Seq(Packages)
            /\ With(manifest.devs, Top.pkg) \in Seq(Packages)
        BY <4>1, <4>2, WithIs
      <4>4. Recorded \in [deps : Seq(Packages), devs : Seq(Packages), whole : BOOLEAN]
        BY <4>2, <4>3 DEF Recorded
      <4> QED  BY <1>1, <4>2, <4>4
    <3> QED  BY <3>1, <3>2
  <2>2. code' \in {"none", "running", "ok", "failed", "killed"}
    BY <1>1 DEF IInv, Typed
  <2> QED  BY <1>1, <1>p, <2>1, <2>2 DEF IInv, Typed, Popped, cacheVars
<1>8. Based' /\ Nested' /\ Built' /\ Clean'
  BY <1>1, <1>5, PopShape DEF cacheVars
<1>9. Trail'
  <2>1. SUFFICES ASSUME NEW p \in visited
                 PROVE  \E i \in Calls' : stack'[i].pkg = p
                                          /\ stack'[i].at \notin Before \cup {"devs"}
    BY <1>1 DEF Trail
  <2>2. PICK j \in Calls : stack[j].pkg = p /\ stack[j].at \notin Before \cup {"devs"}
    BY DEF IInv, Trail
  <2>3. j # 1
    BY <1>1, <1>2, <2>2
  <2>4. j - 1 \in Calls' /\ stack'[j - 1] = stack[j]
    BY <1>p, <2>3 DEF Popped
  <2> QED  BY <2>2, <2>4
<1>10. ASSUME Len(stack) > 1
       PROVE  Covered' /\ SuccessMeansInstalled'
  <2>0. 1 \in Calls
    BY <1>q, <1>10
  <2>1. SuccessMeansInstalled'
    BY <1>1, <1>5, <1>10 DEF IInv, Based, SuccessMeansInstalled
  <2>2. SUFFICES ASSUME ~mishap' PROVE \E D \in SUBSET Packages : Settled(D)'
    BY <2>1 DEF Covered
  <2>3. PICK D \in SUBSET Packages : Settled(D)
    BY <1>1, <2>2 DEF IInv, Covered
  <2>4. InHand \subseteq InHand'
    <3>1. SUFFICES ASSUME NEW p \in Packages, NEW j \in Calls, stack[j].pkg = p,
                          stack[j].dir = Program, stack[j].at # "devs"
                   PROVE  \E i \in Calls' : /\ stack'[i].pkg = p /\ stack'[i].dir = Program
                                            /\ stack'[i].at # "devs"
      BY DEF InHand
    <3>2. j # 1
      BY <1>1, <1>2, <3>1
    <3>3. j - 1 \in Calls' /\ stack'[j - 1] = stack[j]
      BY <1>p, <3>2 DEF Popped
    <3> QED  BY <3>1, <3>3
  <2>5. \A p \in D : Done(p) /\ Named(Deps[p]) \subseteq D \cup InHand'
    BY <2>3, <2>4 DEF Settled
  <2>6. Opt("dev") => Named(Devs[Top.pkg]) \subseteq D \cup InHand'
    <3>1. Named(Top.todo) = {}
      BY <1>1 DEF Named
    <3>2. Opt("dev") => Named(Devs[Top.pkg]) \subseteq D \cup InHand \cup Named(Top.todo)
      BY <1>1, <1>2, <2>0, <2>3 DEF Settled
    <3> QED  BY <2>4, <3>1, <3>2
  <2>7. Settled(D)'
    BY <1>1, <1>6, <1>10, <2>3, <2>4, <2>5, <2>6, PopCovered
  <2> QED  BY <2>7
<1>11. ASSUME Len(stack) = 1
       PROVE  Covered' /\ SuccessMeansInstalled'
  <2>1. stack' = <<>>
    BY <1>p, <1>11 DEF Popped
  <2>2. ~mishap => Installed
    BY <1>1, <1>11, MainDone
  <2>3. Installed' = Installed /\ mishap' = mishap
    BY <1>1, <1>4, <1>6, <1>11 DEF Installed, Needed, Wanted, Local, Opt
  <2> QED  BY <2>1, <2>2, <2>3 DEF Covered, SuccessMeansInstalled
<1>12. Len(stack) = 1 \/ Len(stack) > 1
  BY <1>p DEF Popped
<1> QED  BY <1>7, <1>8, <1>9, <1>10, <1>11, <1>12 DEF IInv

(* A command that fails is remembered.                                     *)
LEMMA CommandFailsKeeps ==
    ASSUME IInv, CommandFails
    PROVE  IInv'
<1>1. /\ stack # <<>> /\ Top.at \in {"commands", "make"}
      /\ stack' = Tail(stack) /\ visited' = {} /\ mishap' = TRUE
      /\ UNCHANGED <<asked, code, made, cacheVars, disk, manifest, runs>>
  BY DEF CommandFails, At, Return, Remember, IInv, Typed
<1>p. Popped
  BY <1>1, PoppedIs
<1>2. Typed'
  BY <1>1, <1>p DEF IInv, Typed, Popped, cacheVars
<1>3. Based' /\ Nested' /\ Built' /\ Clean'
  BY <1>1, PopShape DEF cacheVars
<1>4. Trail' /\ Covered' /\ SuccessMeansInstalled'
  BY <1>1 DEF Trail, Covered, SuccessMeansInstalled
<1> QED  BY <1>2, <1>3, <1>4 DEF IInv

-----------------------------------------------------------------------------
(* The turn to the development dependencies.                               *)
LEMMA DevDepsKeeps ==
    ASSUME IInv, DevDeps
    PROVE  IInv'
<1>1. /\ stack # <<>> /\ Top.at = "deps" /\ Top.todo = <<>> /\ GoesOn /\ visited' = {}
      /\ UNCHANGED <<asked, code, made, cacheVars, disk, restVars>>
  BY DEF DevDeps, At
<1>2. /\ Top = stack[1] /\ (Len(stack) = 1 \/ 1 \in Calls) /\ Top \in Frame
      /\ 1 \in DOMAIN stack
  BY <1>1, InnermostIs
<1>3. /\ Len(stack) \in Nat /\ Len(stack) > 0 /\ stack \in Seq(Frame)
      /\ DOMAIN stack = 1 .. Len(stack)
  BY <1>1, TopIs DEF IInv, Typed
<1>4. /\ Len(stack) = 1 => Local /\ Opt("dev")
      /\ Len(stack) # 1 => Len(stack) = 2 /\ ~Local /\ asked.program # "upgrade"
  BY <1>1, Zenon DEF GoesOn
<1>5. Len(stack) = 1 => Top.pkg = Program /\ Top.dir = Program
  BY <1>1, <1>2 DEF IInv, Based
<1>6. Len(stack) = 2 => Top.pkg \in Packages /\ Top.dir = Program /\ 1 \in Calls
  <2>1. Len(stack) = 2 => 1 \in Calls /\ Len(stack) > 1 /\ Len(stack) - 1 = 1
    BY DEF Calls
  <2> QED  BY <1>2, <2>1 DEF IInv, Based
<1> DEFINE list == IF ~Opt("dev") THEN <<>>
                   ELSE IF Local THEN manifest.devs ELSE Devs[Top.pkg]
<1>7. list \in Seq(Packages)
  <2>1. manifest.devs \in Seq(Packages)
    BY DEF IInv, Typed
  <2>2. ~Local => Devs[Top.pkg] \in Seq(Packages)
    BY <1>4, <1>6, PackagesAssumption
  <2> QED  BY <2>1, <2>2
<1>8. PICK f \in Frame : /\ Become(f) /\ f.pkg = Top.pkg /\ f.dir = Top.dir
                         /\ f.at = "devs" /\ f.todo = list
  <2> HIDE DEF list
  <2> DEFINE f == [Top EXCEPT !.at = "devs", !.todo = list]
  <2>1. f \in Frame /\ f.pkg = Top.pkg /\ f.dir = Top.dir /\ f.at = "devs" /\ f.todo = list
    BY <1>2, <1>7 DEF Frame, After
  <2>2. Become(f)
    BY DEF DevDeps, list
  <2> HIDE DEF f
  <2> QED  BY <2>1, <2>2
<1>9. /\ stack' \in Seq(Frame) /\ Len(stack') = Len(stack) /\ stack'[1] = f
      /\ \A k \in 2 .. Len(stack) : stack'[k] = stack[k]
      /\ stack' # <<>>
  BY <1>1, <1>3, <1>8, BecomeIs DEF Become
<1>10. /\ DOMAIN stack' = DOMAIN stack /\ Calls' = Calls
       /\ \A k \in DOMAIN stack : k # 1 => stack'[k] = stack[k]
       /\ \A k \in Calls : k = 1 /\ Len(stack) = 2
       /\ Len(stack) = 1 => Calls = {}
  <2>1. \A k \in Calls : k = 1 /\ Len(stack) = 2
    BY <1>3, <1>4 DEF Calls
  <2>2. Len(stack) = 1 => Calls = {}
    BY DEF Calls
  <2>3. DOMAIN stack' = DOMAIN stack /\ Calls' = Calls
    BY <1>3, <1>9 DEF Calls
  <2>4. \A k \in DOMAIN stack : k # 1 => stack'[k] = stack[k]
    BY <1>3, <1>9
  <2> QED  BY <2>1, <2>2, <2>3, <2>4
<1>11. /\ Local' = Local /\ \A o : (Opt(o))' = Opt(o)
       /\ asked' = asked /\ code' = code /\ made' = made /\ disk' = disk
       /\ pcache' = pcache /\ mishap' = mishap /\ manifest' = manifest
  BY <1>1 DEF Local, Opt, cacheVars, restVars
<1>12. Typed'
  BY <1>1, <1>9 DEF IInv, Typed, cacheVars, restVars
<1>13. Based'
  <2>1. code' = "running" /\ (asked.program = "upgrade" => ~Opt("dev") /\ ~Local)
    BY <1>1, <1>11 DEF IInv, Based
  <2>2. \A k \in Calls : k = 1 /\ k = Len(stack) - 1 /\ stack'[k].pkg \in Packages
                         /\ ~Local /\ asked.program # "upgrade"
    <3>1. ASSUME Len(stack) = 2
          PROVE  1 = Len(stack) - 1 /\ Len(stack) # 1
      BY <3>1
    <3> QED  BY <1>4, <1>6, <1>8, <1>9, <1>10, <3>1
  <2>3. LET main == stack'[Len(stack)]
        IN  /\ main.pkg = Program /\ main.dir = Program
            /\ main.at \in {"deps", "devs"}
            /\ main.at = "devs" => Local /\ Opt("dev")
    <3>1. CASE Len(stack) = 1
      BY <1>4, <1>5, <1>8, <1>9, <3>1
    <3>2. CASE Len(stack) # 1
      <4>1. stack'[Len(stack)] = stack[Len(stack)]
        BY <1>3, <1>10, <3>2
      <4> QED  BY <1>1, <4>1 DEF IInv, Based
    <3> QED  BY <3>1, <3>2
  <2>4. Len(stack) > 1 => stack'[Len(stack) - 1].dir = Program
    <3>1. ASSUME Len(stack) > 1
          PROVE  Len(stack) = 2 /\ Len(stack) - 1 = 1
      <4>1. Len(stack) # 1
        BY <1>3, <3>1
      <4> QED  BY <1>4, <4>1
    <3> QED  BY <1>6, <1>8, <1>9, <3>1
  <2> QED  BY <1>9, <1>10, <1>11, <2>1, <2>2, <2>3, <2>4 DEF Based
<1>14. Nested'
  <2>1. \A k \in DOMAIN stack : stack'[k].dir = stack[k].dir
    BY <1>2, <1>8, <1>9, <1>10
  <2> QED  BY <1>10, <2>1 DEF IInv, Nested
<1>15. Trail'
  BY <1>1 DEF Trail
<1>16. Built'
  BY <1>1, <1>2, <1>8, <1>9, <1>10, <1>11 DEF IInv, Built
<1>17. Clean'
  <2>1. \A k \in Calls : /\ stack'[k].at = "devs" /\ stack[k].at = "deps"
                         /\ stack'[k].pkg = stack[k].pkg /\ stack'[k].dir = stack[k].dir
    BY <1>1, <1>2, <1>8, <1>9, <1>10
  <2> QED  BY <1>10, <1>11, <2>1 DEF IInv, Clean, After
<1>18. Covered'
  <2>1. SUFFICES ASSUME ~mishap PROVE \E D \in SUBSET Packages : Settled(D)'
    BY <1>11 DEF Covered
  <2>2. PICK D \in SUBSET Packages : Settled(D)
    BY <1>1, <2>1 DEF IInv, Covered
  <2>3. PICK E \in SUBSET Packages :
          E = IF Len(stack) = 2 THEN D \cup {Top.pkg} ELSE D
    BY <1>6
  <2>4. D \subseteq E /\ InHand \subseteq E /\ InHand' = {}
    <3>1. InHand' = {}
      BY <1>8, <1>9, <1>10 DEF InHand
    <3>2. InHand \subseteq E
      BY <1>2, <1>10, <2>3 DEF InHand
    <3> QED  BY <2>3, <3>1, <3>2
  <2>5. Named(Top.todo) = {}
    BY <1>1 DEF Named
  <2>6. ASSUME Len(stack) = 2
        PROVE  Done(Top.pkg) /\ Named(Deps[Top.pkg]) \subseteq E
    <3>1. Done(Top.pkg)
      BY <1>1, <1>2, <1>6, <2>1, <2>6 DEF IInv, Built, Clean, Done, After
    <3>2. Named(Deps[Top.pkg]) \subseteq D \cup InHand \cup Named(Top.todo)
      BY <1>1, <1>2, <1>6, <2>2, <2>6 DEF Settled
    <3> QED  BY <2>4, <2>5, <3>1, <3>2
  <2>7. \A p \in D : Done(p) /\ Named(Deps[p]) \subseteq E
    BY <2>2, <2>4 DEF Settled
  <2>8. \A p \in E : Done(p)' /\ Named(Deps[p]) \subseteq E
    <3>1. \A p \in E : Done(p) /\ Named(Deps[p]) \subseteq E
      BY <2>3, <2>6, <2>7
    <3> QED  BY <1>11, <3>1 DEF Done
  <2>9. ASSUME NEW k \in Calls
        PROVE  LET g == stack'[k]
               IN  /\ g.at = "devs" /\ g.pkg \in E
                   /\ Opt("dev") => Named(Devs[g.pkg]) \subseteq Named(g.todo)
    <3>1. k = 1 /\ Len(stack) = 2
      BY <1>10
    <3>2. ~Local
      <4>1. 2 # 1
        OBVIOUS
      <4> QED  BY <1>4, <3>1, <4>1
    <3>3. stack'[k] = f /\ f.pkg \in E /\ f.at = "devs"
      BY <1>8, <1>9, <2>3, <3>1
    <3>4. Opt("dev") => f.todo = Devs[f.pkg]
      BY <1>8, <3>2
    <3> QED  BY <3>3, <3>4
  <2>10. Roots' = Roots
    BY <1>11 DEF Roots
  <2>11. CASE Len(stack) = 1
    <3>1. stack'[Len(stack')] = f /\ stack[Len(stack)] = Top
      BY <1>2, <1>9, <2>11
    <3>2. Roots \subseteq E
      BY <1>1, <2>2, <2>4, <2>5, <3>1 DEF Settled
    <3>3. f.todo = manifest.devs /\ Local
      BY <1>4, <1>8, <2>11
    <3>4. Settled(E)'
      BY <1>8, <1>10, <1>11, <2>4, <2>8, <2>9, <2>10, <3>1, <3>2, <3>3 DEF Settled
    <3> QED  BY <3>4
  <2>12. CASE Len(stack) # 1
    <3> DEFINE main == stack[Len(stack)]
    <3>1. Len(stack) = 2 /\ ~Local
      BY <1>4, <2>12
    <3>2. stack'[Len(stack')] = main
      BY <1>3, <1>9, <1>10, <2>12
    <3>3. main.at = "deps"
      BY <1>1, <3>1 DEF IInv, Based
    <3>4. Roots \subseteq E \cup Named(main.todo)
      BY <2>2, <2>4, <3>3 DEF Settled
    <3>5. stack'[Len(stack') - 1].pkg = stack[Len(stack) - 1].pkg
      <4>1. Len(stack) - 1 = 1
        BY <3>1
      <4> QED  BY <1>2, <1>8, <1>9, <4>1
    <3>6. ASSUME Opt("dev"), NEW p \in Named(asked.args)
          PROVE  \/ Named(Devs[p]) \subseteq E
                 \/ p \in Named(main.todo)
                 \/ Len(stack') > 1 /\ stack'[Len(stack') - 1].pkg = p
      <4>1. \/ Named(Devs[p]) \subseteq D \cup InHand
            \/ p \in Named(main.todo)
            \/ Len(stack) > 1 /\ stack[Len(stack) - 1].pkg = p
        BY <2>2, <3>1, <3>6 DEF Settled
      <4> HIDE DEF main
      <4> QED  BY <1>9, <2>4, <3>5, <4>1
    <3> HIDE DEF main
    <3>7. Settled(E)'
      BY <1>10, <1>11, <2>4, <2>8, <2>9, <2>10, <3>1, <3>2, <3>3, <3>4, <3>6 DEF Settled
    <3> QED  BY <3>7
  <2> QED  BY <2>11, <2>12
<1>19. SuccessMeansInstalled'
  BY <1>1, <1>11 DEF IInv, Based, SuccessMeansInstalled
<1> QED  BY <1>12, <1>13, <1>14, <1>15, <1>16, <1>17, <1>18, <1>19 DEF IInv

-----------------------------------------------------------------------------
(* The ends of a run that are no success, and its start.                   *)

(* Without a call nothing is visited and nothing is to be covered.         *)
LEMMA EndKeeps ==
    ASSUME IInv, stack' = <<>>, visited' = {}, code' \in {"failed", "killed"},
           asked.program = "upgrade" => ~Opt("dev") /\ ~Local, asked' = asked,
           made' = made, jcache' \in [Packages -> {"none", "torn", "whole"}],
           pcache' \in [Packages -> Files \cup {"none"}],
           disk' \in [Dirs -> [Packages -> Files]],
           manifest' \in [deps : Seq(Packages), devs : Seq(Packages), whole : BOOLEAN],
           mishap' \in BOOLEAN,
           ~mishap' => ~mishap /\ pcache' = pcache /\ disk' = disk
    PROVE  IInv'
<1>1. Len(stack') = 0 /\ Calls' = {} /\ DOMAIN stack' = {} /\ stack' \in Seq(Frame)
  BY DEF Calls
<1>2. Typed'
  BY <1>1 DEF IInv, Typed
<1>3. Based'
  BY <1>1 DEF Based, Opt, Local
<1>4. Nested' /\ Trail' /\ Built' /\ Covered'
  BY <1>1 DEF Nested, Trail, Built, Covered
<1>5. Clean'
  BY <1>1 DEF IInv, Clean
<1>6. SuccessMeansInstalled'
  BY DEF SuccessMeansInstalled
<1> QED  BY <1>2, <1>3, <1>4, <1>5, <1>6 DEF IInv

(* A failure that all callers pass on.                                     *)
LEMMA FailKeeps ==
    ASSUME IInv, Fail, UNCHANGED <<cacheVars, disk, restVars>>
    PROVE  IInv'
<1>1. /\ stack' = <<>> /\ visited' = {} /\ code' = "failed"
      /\ UNCHANGED <<asked, made, jcache, pcache, disk, manifest, mishap>>
  BY DEF Fail, cacheVars, restVars
<1>2. /\ asked.program = "upgrade" => ~Opt("dev") /\ ~Local
      /\ jcache \in [Packages -> {"none", "torn", "whole"}]
      /\ pcache \in [Packages -> Files \cup {"none"}]
      /\ disk \in [Dirs -> [Packages -> Files]]
      /\ manifest \in [deps : Seq(Packages), devs : Seq(Packages), whole : BOOLEAN]
      /\ mishap \in BOOLEAN
  BY DEF IInv, Based, Typed
<1> QED  BY <1>1, <1>2, EndKeeps

(* What is torn is remembered, except a manifest.                          *)
LEMMA KillKeeps ==
    ASSUME IInv, Kill
    PROVE  IInv'
<1>1. /\ stack # <<>> /\ Torn /\ stack' = <<>> /\ visited' = {} /\ code' = "killed"
      /\ UNCHANGED <<asked, made>>
  BY DEF Kill
<1>2. /\ asked.program = "upgrade" => ~Opt("dev") /\ ~Local
      /\ jcache \in [Packages -> {"none", "torn", "whole"}]
      /\ pcache \in [Packages -> Files \cup {"none"}]
      /\ disk \in [Dirs -> [Packages -> Files]]
      /\ manifest \in [deps : Seq(Packages), devs : Seq(Packages), whole : BOOLEAN]
      /\ mishap \in BOOLEAN
  BY DEF IInv, Based, Typed
<1>3. "part" \in Files /\ "absent" \in Files
  BY DEF Files
<1>4. /\ jcache' \in [Packages -> {"none", "torn", "whole"}]
      /\ pcache' \in [Packages -> Files \cup {"none"}]
      /\ disk' \in [Dirs -> [Packages -> Files]]
      /\ manifest' \in [deps : Seq(Packages), devs : Seq(Packages), whole : BOOLEAN]
      /\ mishap' \in BOOLEAN
      /\ ~mishap' => ~mishap /\ pcache' = pcache /\ disk' = disk
  <2>1. CASE jcache' = [jcache EXCEPT ![Top.pkg] = "torn"]
             /\ UNCHANGED <<pcache, disk, manifest, mishap>>
    BY <1>2, <2>1
  <2>2. CASE SetDisk("part") /\ mishap' = TRUE /\ UNCHANGED <<jcache, pcache, manifest>>
    BY <1>2, <1>3, <2>2 DEF SetDisk
  <2>3. CASE /\ \E file \in {"absent", "part"} : pcache' = [pcache EXCEPT ![Top.pkg] = file]
             /\ mishap' = TRUE /\ UNCHANGED <<jcache, disk, manifest>>
    <3>1. PICK file \in Files : pcache' = [pcache EXCEPT ![Top.pkg] = file]
      BY <1>3, <2>3
    <3>2. pcache' \in [Packages -> Files \cup {"none"}]
      BY <1>2, <3>1
    <3> QED  BY <1>2, <2>3, <3>2
  <2>4. CASE manifest' = [manifest EXCEPT !.whole = FALSE]
             /\ UNCHANGED <<jcache, pcache, disk, mishap>>
    BY <1>2, <2>4
  <2>5. CASE UNCHANGED <<jcache, pcache, disk, manifest, mishap>>
    BY <1>2, <2>5
  <2>6. mishap' = TRUE \/ ~Remember(FALSE)
    BY <1>2 DEF Remember
  <2> QED  BY <1>1, <2>1, <2>2, <2>3, <2>4, <2>5, <2>6 DEF Torn, cacheVars
<1> QED  BY <1>1, <1>2, <1>4, EndKeeps

(* A run starts with main alone, and everything is to be done.             *)
LEMMA StartKeeps ==
    ASSUME IInv, NEW program, NEW packages \in Seq(Packages), NEW options,
           Start(program, packages, options),
           program = "upgrade" => "dev" \notin options /\ packages # <<>>
    PROVE  IInv'
<1> DEFINE main == [Call(Program, Program) EXCEPT !.at = "deps",
                      !.todo = IF packages = <<>> THEN manifest.deps ELSE packages]
<1>1. /\ stack = <<>>
      /\ asked' = [program |-> program, args |-> packages, opts |-> options]
      /\ \/ stack' = <<>> /\ code' = "failed"
         \/ stack' = <<main>> /\ code' = "running"
      /\ visited' = {} /\ made' = {}
      /\ \/ UNCHANGED disk
         \/ disk' = [disk EXCEPT ![Program] = [p \in Packages |-> "absent"]]
      /\ UNCHANGED <<jcache, pcache, manifest, mishap>>
  BY DEF Start, cacheVars
<1>2. /\ manifest \in [deps : Seq(Packages), devs : Seq(Packages), whole : BOOLEAN]
      /\ disk \in [Dirs -> [Packages -> Files]]
  BY DEF IInv, Typed
<1>3. /\ main \in Frame /\ main.pkg = Program /\ main.dir = Program /\ main.at = "deps"
      /\ main.todo = IF packages = <<>> THEN manifest.deps ELSE packages
  <2> DEFINE list == IF packages = <<>> THEN manifest.deps ELSE packages
  <2>1. list \in Seq(Packages)
    BY <1>2
  <2> HIDE DEF list
  <2>2. LET g == [Call(Program, Program) EXCEPT !.at = "deps", !.todo = list]
        IN  /\ g \in Frame /\ g.pkg = Program /\ g.dir = Program /\ g.at = "deps"
            /\ g.todo = list
    <3> DEFINE c == Call(Program, Program)
               b == [c EXCEPT !.at = "deps"]
    <3>1. c \in Frame /\ c.pkg = Program /\ c.dir = Program
      BY BoundsAssumption DEF Call, Frame, Dirs, Before
    <3> HIDE DEF c
    <3>2. b \in Frame /\ b.pkg = Program /\ b.dir = Program /\ b.at = "deps"
      BY <3>1 DEF Frame, After
    <3> HIDE DEF b
    <3>3. LET g == [b EXCEPT !.todo = list]
          IN  /\ g \in Frame /\ g.pkg = Program /\ g.dir = Program /\ g.at = "deps"
              /\ g.todo = list
      BY <2>1, <3>2 DEF Frame
    <3> QED  BY <3>3 DEF b, c
  <2> QED  BY <2>2 DEF list
<1> HIDE DEF main
<1>4. /\ stack' \in Seq(Frame) /\ Calls' = {} /\ (stack' = <<>> \/ stack' = <<main>>)
      /\ stack' # <<>> => /\ Len(stack') = 1 /\ stack'[1] = main /\ stack' = <<main>>
                          /\ code' = "running" /\ DOMAIN stack' = {1}
  <2>1. CASE stack' = <<>> /\ code' = "failed"
    BY <2>1 DEF Calls
  <2>2. CASE stack' = <<main>> /\ code' = "running"
    BY <1>3, <2>2 DEF Calls
  <2> QED  BY <1>1, <2>1, <2>2
<1>5. /\ disk' \in [Dirs -> [Packages -> Files]]
      /\ \A d \in Dirs, p \in Packages : disk'[d][p] \in {disk[d][p], "absent"}
  <2>1. CASE UNCHANGED disk
    BY <1>2, <2>1
  <2>2. CASE disk' = [disk EXCEPT ![Program] = [p \in Packages |-> "absent"]]
    BY <1>2, <2>2 DEF Files
  <2> QED  BY <1>1, <2>1, <2>2
<1>6. /\ asked'.program = program /\ asked'.args = packages
      /\ (Local)' = (packages = <<>>) /\ (Opt("dev"))' = ("dev" \in options)
  BY <1>1 DEF Local, Opt
<1>7. Typed'
  <2>1. code' \in {"none", "running", "ok", "failed", "killed"}
    BY <1>1
  <2> QED  BY <1>1, <1>4, <1>5, <1>6, <2>1 DEF IInv, Typed
<1>8. Based'
  <2>1. ~(Len(stack') > 1)
    <3>1. Len(<<>>) = 0 /\ ~(0 > 1) /\ ~(1 > 1)
      OBVIOUS
    <3>2. Len(stack') = 0 \/ Len(stack') = 1
      BY <1>4, <3>1
    <3> QED  BY <3>1, <3>2
  <2> QED  BY <1>3, <1>4, <1>6, <2>1 DEF Based
<1>9. Nested'
  <2>1. \A j, k \in DOMAIN stack' : ~(j > k)
    BY <1>4
  <2> QED  BY <2>1 DEF Nested
<1>10. Trail' /\ Built'
  BY <1>1, <1>4 DEF Trail, Built
<1>11. Clean'
  <2>1. ~mishap => /\ \A p \in Packages : pcache[p] \in {"none", "whole"}
                   /\ \A d \in Dirs, p \in Packages : disk[d][p] \in {"absent", "whole"}
    BY DEF IInv, Clean
  <2> QED  BY <1>1, <1>4, <1>5, <2>1 DEF Clean
<1>12. Covered'
  <2>1. SUFFICES ASSUME stack' # <<>> PROVE \E D \in SUBSET Packages : Settled(D)'
    BY DEF Covered
  <2>2. Roots' = Named(main.todo)
    BY <1>1, <1>3, <1>6 DEF Roots
  <2>3. (~Local)' => Named(asked'.args) = Named(main.todo)
    BY <1>3, <1>6
  <2>4. PICK D \in SUBSET Packages : D = {}
    OBVIOUS
  <2>5. Settled(D)'
    BY <1>3, <1>4, <2>1, <2>2, <2>3, <2>4 DEF Settled
  <2> QED  BY <2>5
<1>13. SuccessMeansInstalled'
  BY <1>1 DEF SuccessMeansInstalled
<1> QED  BY <1>7, <1>8, <1>9, <1>10, <1>11, <1>12, <1>13 DEF IInv

(* Each program starts so.                                                 *)
LEMMA ProgramKeeps ==
    ASSUME IInv, NEW c \in Invocations, Install(c) \/ Update(c) \/ Upgrade(c)
    PROVE  IInv'
<1>1. c.args \in Seq(Packages) /\ <<Clib>> \in Seq(Packages) /\ <<Clib>> # <<>>
  BY InvocationsAssumption, PackagesAssumption
<1>2. CASE Install(c)
  BY <1>1, <1>2, StartKeeps DEF Install
<1>3. CASE Update(c)
  BY <1>1, <1>3, StartKeeps DEF Update
<1>4. CASE Upgrade(c)
  <2>1. "dev" \notin (c.opts \cap {"force"}) \cup {"skip", "global"}
    OBVIOUS
  <2> QED  BY <1>1, <1>4, <2>1, StartKeeps DEF Upgrade
<1> QED  BY <1>2, <1>3, <1>4

-----------------------------------------------------------------------------
(* Nothing is asked for at first.                                          *)
LEMMA InitIInv == Init => IInv
<1> SUFFICES ASSUME Init PROVE IInv
  OBVIOUS
<1> USE DEF Init
<1>1. Calls = {} /\ DOMAIN stack = {} /\ stack \in Seq(Frame) /\ Len(stack) = 0
  BY DEF Calls
<1>2. Typed
  <2>1. Deps[Program] \in Seq(Packages) /\ Devs[Program] \in Seq(Packages)
    BY PackagesAssumption
  <2>2. asked.args = <<>> /\ <<>> \in Seq(Packages)
    OBVIOUS
  <2> QED  BY <1>1, <2>1, <2>2 DEF Typed, Files
<1>3. Based
  BY <1>1 DEF Based, Opt
<1>4. Nested /\ Trail /\ Built /\ Covered /\ SuccessMeansInstalled
  BY <1>1 DEF Nested, Trail, Built, Covered, SuccessMeansInstalled
<1>5. Clean
  BY <1>1 DEF Clean
<1> QED  BY <1>2, <1>3, <1>4, <1>5 DEF IInv

(* A step of a running program keeps the invariant.                        *)
LEMMA StepKeeps ==
    ASSUME IInv, Step
    PROVE  IInv'
<1>1. CASE NextDep
  BY <1>1, NextDepKeeps
<1>2. CASE TmpDepsDone \/ NoCommands \/ Unpack \/ Make
  BY <1>2, CommandsKeep
<1>3. CASE DepsDone
  BY <1>3, DepsDoneKeeps
<1>4. CASE DevDeps
  BY <1>4, DevDepsKeeps
<1>5. CASE InstallDone \/ UpdateDone
  BY <1>5, DevsDoneKeeps
<1>6. CASE Cached \/ NotCached \/ Fetched
  BY <1>6, ManifestKeeps
<1>7. CASE NotFetched
  BY <1>7, RequestKeeps DEF NotFetched, At
<1>8. CASE NextName
  <2>1. CASE Fail
    BY <1>8, <2>1, FailKeeps DEF NextName
  <2>2. CASE ~Fail
    BY <1>8, <2>2, RequestKeeps DEF NextName, At
  <2> QED  BY <2>1, <2>2
<1>9. CASE Skip
  BY <1>9, SkipKeeps
<1>10. CASE Enter
  BY <1>10, EnterKeeps
<1>11. CASE NoCopy \/ Load \/ LoadInPart
  BY <1>11, CacheKeeps
<1>12. CASE Present \/ Download
  BY <1>12, DownloadKeeps
<1>13. CASE CannotStart \/ NoArchive
  BY <1>13, FailKeeps DEF CannotStart, NoArchive
<1>14. CASE Save
  BY <1>14, SaveKeeps
<1>15. CASE CommandFails
  BY <1>15, CommandFailsKeeps
<1> QED  BY <1>1, <1>2, <1>3, <1>4, <1>5, <1>6, <1>7, <1>8, <1>9, <1>10, <1>11,
             <1>12, <1>13, <1>14, <1>15 DEF Step

(* The invariant.                                                          *)
THEOREM InstallInvariance == Spec => []IInv
<1>1. IInv /\ [Next]_vars => IInv'
  <2> SUFFICES ASSUME IInv, [Next]_vars PROVE IInv'
    OBVIOUS
  <2>1. CASE Step
    BY <2>1, StepKeeps
  <2>2. CASE \E c \in Invocations : Install(c) \/ Update(c) \/ Upgrade(c)
    BY <2>2, ProgramKeeps
  <2>3. CASE Kill
    BY <2>3, KillKeeps
  <2>4. CASE UNCHANGED vars
    <3>1. UNCHANGED <<stack, visited, asked, code, made, jcache, pcache, disk, manifest,
                      mishap, runs>>
      BY <2>4 DEF vars, callVars, cacheVars, restVars
    <3> USE <3>1
    <3>2. Typed' /\ Based' /\ Nested' /\ Trail'
      BY DEF IInv, Typed, Based, Nested, Trail, Calls, Opt, Local
    <3>3. Built' /\ Clean'
      BY DEF IInv, Built, Clean, Calls, Opt
    <3>4. \A D : Settled(D)' = Settled(D)
      BY DEF Settled, InHand, Calls, Done, Opt, Local, Roots
    <3>5. Covered'
      BY <3>4 DEF IInv, Covered
    <3>6. SuccessMeansInstalled'
      BY DEF IInv, SuccessMeansInstalled, Installed, Needed, Wanted, Local, Opt
    <3> QED  BY <3>2, <3>3, <3>5, <3>6 DEF IInv
  <2> QED  BY <2>1, <2>2, <2>3, <2>4 DEF Next
<1> QED  BY <1>1, InitIInv, PTL DEF Spec

(* A package that is passed over is being installed by a call further out, *)
(* never one that was installed elsewhere.                                 *)
THEOREM SkipsOnlyWhatIsInProgress == Spec => []SkippedIsInProgress
<1>1. IInv => SkippedIsInProgress
  <2> SUFFICES ASSUME IInv, NEW p \in visited
               PROVE  p \in {stack[k].pkg : k \in DOMAIN stack}
    BY DEF SkippedIsInProgress
  <2>1. PICK k \in Calls : stack[k].pkg = p
    BY DEF IInv, Trail
  <2>2. k \in DOMAIN stack
    <3>1. stack \in Seq(Frame)
      BY DEF IInv, Typed
    <3>2. Len(stack) \in Nat /\ DOMAIN stack = 1 .. Len(stack)
      BY <3>1
    <3> QED  BY <3>2 DEF Calls
  <2> QED  BY <2>1, <2>2
<1> QED  BY <1>1, InstallInvariance, PTL

(* A run that ends with 0 has installed what its command line needs,       *)
(* unless something was left in part or a command failed.                  *)
THEOREM SuccessIsInstalled == Spec => []SuccessMeansInstalled
<1>1. IInv => SuccessMeansInstalled
  BY DEF IInv
<1> QED  BY <1>1, InstallInvariance, PTL

(* Only a package whose command has been carried out is saved in the       *)
(* manifest.                                                               *)
THEOREM SavesWhatIsBuilt == Spec => SavedIsBuilt
<1> DEFINE A == manifest' # manifest /\ manifest'.whole =>
                  /\ asked.program = "install" /\ Len(stack) = 2
                  /\ Top.pkg \in Executable => Top.pkg \in made
<1>1. ASSUME IInv, [Next]_vars
      PROVE  A
  <2>1. SUFFICES ASSUME manifest' # manifest, manifest'.whole PROVE A
    OBVIOUS
  <2>2. ~Kill
    <3>1. manifest \in [deps : Seq(Packages), devs : Seq(Packages), whole : BOOLEAN]
      BY <1>1 DEF IInv, Typed
    <3> QED  BY <2>1, <3>1 DEF Kill, Torn
  <2>3. InstallDone
    BY <1>1, <2>1, <2>2
       DEF Next, Step, vars, restVars, NextDep, TmpDepsDone, DepsDone, DevDeps, UpdateDone,
           Cached, NotCached, Fetched, NotFetched, NextName, Skip, Enter, NoCopy, Load,
           LoadInPart, Present, Download, CannotStart, Save, NoCommands, Unpack, NoArchive,
           Make, CommandFails, Install, Update, Upgrade, Start
  <2>4. /\ asked.program = "install" /\ stack # <<>> /\ Top.at = "devs" /\ ~Local
    BY <2>1, <2>3 DEF InstallDone, DevsDone, At, Recorded
  <2>5. Top = stack[1] /\ (Len(stack) = 1 \/ 1 \in Calls)
    BY <1>1, <2>4, InnermostIs
  <2>6. 1 \in Calls
    BY <1>1, <2>4, <2>5 DEF IInv, Based
  <2>7. 1 = Len(stack) - 1 /\ Len(stack) \in Nat
    BY <1>1, <2>4, <2>5, <2>6, TopIs DEF IInv, Based
  <2>8. Len(stack) = 2
    <3>1. \A n \in Nat : 1 = n - 1 => n = 2
      OBVIOUS
    <3> QED  BY <2>7, <3>1, Zenon
  <2>9. Top.pkg \in Executable => Top.pkg \in made
    BY <1>1, <2>4, <2>5, <2>6 DEF IInv, Built
  <2> QED  BY <2>4, <2>8, <2>9
<1>2. Spec => [][A]_manifest
  <2>1. IInv /\ [Next]_vars => [A]_manifest
    BY <1>1
  <2> HIDE DEF A
  <2> QED  BY <2>1, InstallInvariance, PTL DEF Spec
<1> QED  BY <1>2 DEF SavedIsBuilt

=============================================================================
