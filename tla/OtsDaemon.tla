----------------------------- MODULE OtsDaemon ------------------------------
(***************************************************************************)
(* Hw09: ots_daemon answers each connection to a local socket with the     *)
(* size of a file; a lock file keeps a second daemon from starting; SIGINT *)
(* shuts a daemon down and SIGHUP makes it read its configuration again.   *)
(* client.c connects, reads one answer and ends.                           *)
(*                                                                         *)
(* A step is one system call with the code around it, so processes and     *)
(* signals interleave between calls.  All daemons are configured with the  *)
(* same lock file; the name of the socket may change.  A daemon started    *)
(* without -d takes the same steps and is killed by SIGHUP.  The file      *)
(* whose size is sent is not modelled, nor are failures before lock_file.  *)
(***************************************************************************)
EXTENDS Naturals, Sequences, FiniteSets

CONSTANTS
    Procs,       \* daemon processes
    Clients,     \* client processes
    NoProc,
    NoClient,
    Names,       \* names of sockets
    Path,        \* the name compiled into client.c
    Overlay      \* Overlay[old][new]: new copied over old, without its NUL

ASSUME ProcsAssumption == NoProc \notin Procs /\ "stale" \notin Procs

ASSUME ClientsAssumption == NoClient \notin Clients

ASSUME NamesAssumption ==
    Path \in Names /\ Overlay \in [Names -> [Names -> Names]]

(* The listen queue never fills up.                                        *)
ASSUME BacklogAssumption ==
    IsFiniteSet(Clients) /\ Cardinality(Clients) <= 20

VARIABLES
    config,    \* the socket named in the configuration file
    holder,    \* the process with the write lock on lock_filename
    pidfile,   \* the process whose id is in it
    node,      \* what each name leads to: the socket of a process, "stale"
               \* if that socket has been closed, NoProc if there is no file
    ppc,       \* where each daemon is; "off" if it does not run
    name,      \* socket_filename
    lockFd,    \* lock_fd > 0
    sock,      \* the socket: "none" while socket_descriptor is not above 0,
               \* then "open", "listening" and, in the handler, "closed"
    backlog,   \* the connections waiting for accept
    serving,   \* data_socket
    cpc,       \* where each client is
    late       \* history: processes interrupted after start_service's unlock

kernelVars == <<config, holder, pidfile, node>>
procVars == <<ppc, name, lockFd, sock, backlog, serving, late>>
vars == <<kernelVars, procVars, cpc>>

Handler == {"h_close", "h_unlink", "h_unlock", "h_exit"}

ProcStates ==
    {"off", "open", "lock", "writepid", "unlink", "socket", "bind", "listen",
     "accept", "write", "close", "unlock", "exit"} \cup Handler

ClientStates == {"out", "waiting", "answered", "cut", "refused", "gone"}

Init ==
    /\ config = Path
    /\ holder = NoProc
    /\ pidfile = NoProc
    /\ node = [n \in Names |-> NoProc]
    /\ ppc = [p \in Procs |-> "off"]
    /\ name = [p \in Procs |-> Path]
    /\ lockFd = [p \in Procs |-> FALSE]
    /\ sock = [p \in Procs |-> "none"]
    /\ backlog = [p \in Procs |-> <<>>]
    /\ serving = [p \in Procs |-> NoClient]
    /\ cpc = [c \in Clients |-> "out"]
    /\ late = {}

-----------------------------------------------------------------------------
(* The kernel.                                                             *)

Goto(p, label) == ppc' = [ppc EXCEPT ![p] = label]

Unlink(n) == node' = [node EXCEPT ![n] = NoProc]

Release(p) == holder' = IF holder = p THEN NoProc ELSE holder

Queued(p) == {backlog[p][i] : i \in DOMAIN backlog[p]}

(* The other end of the connections in C is closed.                        *)
Cut(C) ==
    cpc' = [c \in Clients |->
              IF c \in C /\ cpc[c] = "waiting" THEN "cut" ELSE cpc[c]]

(* The listening socket is closed, and what waits in its queue.            *)
CloseListener(p, C) ==
    /\ node' = [n \in Names |-> IF node[n] = p THEN "stale" ELSE node[n]]
    /\ backlog' = [backlog EXCEPT ![p] = <<>>]
    /\ Cut(Queued(p) \cup C)

(* The end of a process, however it comes about.  Closing lock_fd drops    *)
(* the lock.  The lock file and the name of the socket stay.               *)
Die(p) ==
    /\ Goto(p, "off")
    /\ Release(p)
    /\ CloseListener(p, {serving[p]})
    /\ lockFd' = [lockFd EXCEPT ![p] = FALSE]
    /\ sock' = [sock EXCEPT ![p] = "none"]
    /\ serving' = [serving EXCEPT ![p] = NoClient]
    /\ UNCHANGED <<config, pidfile, name, late>>

-----------------------------------------------------------------------------
(* Seeded faults, not part of the program.                                 *)

(* The result of lockfile is not looked at.                                *)
LockRegardless(p) ==
    /\ ppc[p] = "lock"
    /\ Goto(p, "writepid")
    /\ holder' = IF holder = NoProc THEN p ELSE holder
    /\ UNCHANGED <<config, pidfile, node, name, lockFd, sock, backlog,
                   serving, late, cpc>>

(* The pid is written before the file is locked.                           *)
OpenAndWritePid(p) ==
    /\ ppc[p] = "open"
    /\ Goto(p, "lock")
    /\ lockFd' = [lockFd EXCEPT ![p] = TRUE]
    /\ pidfile' = p
    /\ UNCHANGED <<config, holder, node, name, sock, backlog, serving,
                   late, cpc>>

(* The old name is left where it is.                                       *)
UnlinkNothing(p) ==
    /\ ppc[p] = "unlink"
    /\ Goto(p, "socket")
    /\ UNCHANGED <<kernelVars, name, lockFd, sock, backlog, serving, late,
                   cpc>>

(* The handler unlocks first and unlinks then.                             *)
InterruptUnlocking(p) ==
    /\ ppc[p] \notin Handler \cup {"off"}
    /\ Goto(p, IF sock[p] # "none" THEN "h_close" ELSE "h_exit")
    /\ Release(p)
    /\ late' = IF ppc[p] = "exit" THEN late \cup {p} ELSE late
    /\ UNCHANGED <<config, pidfile, node, name, lockFd, sock, backlog,
                   serving, cpc>>

(* The handler closes and unlinks whatever the descriptor.                 *)
InterruptAnyway(p) ==
    /\ ppc[p] \notin Handler \cup {"off"}
    /\ Goto(p, "h_close")
    /\ late' = IF ppc[p] = "exit" THEN late \cup {p} ELSE late
    /\ UNCHANGED <<kernelVars, name, lockFd, sock, backlog, serving, cpc>>

(* The queue is taken from its end.                                        *)
AcceptNewest(p) ==
    /\ ppc[p] = "accept"
    /\ backlog[p] # <<>>
    /\ LET n == Len(backlog[p])
       IN  /\ serving' = [serving EXCEPT ![p] = backlog[p][n]]
           /\ backlog' = [backlog EXCEPT ![p] = SubSeq(@, 1, n - 1)]
    /\ Goto(p, "write")
    /\ UNCHANGED <<kernelVars, name, lockFd, sock, late, cpc>>

(* A stat that fails sends the daemon back to accept at once.              *)
WriteNothing(p) ==
    /\ ppc[p] = "write"
    /\ cpc[serving[p]] = "waiting"
    /\ Goto(p, "accept")
    /\ serving' = [serving EXCEPT ![p] = NoClient]
    /\ UNCHANGED <<kernelVars, name, lockFd, sock, backlog, late, cpc>>

-----------------------------------------------------------------------------
(* The daemon.                                                             *)

(* main and daemonize: read_config copies into buffers of zeros.           *)
Start(p) ==
    /\ ppc[p] = "off"
    /\ Goto(p, "open")
    /\ name' = [name EXCEPT ![p] = config]
    /\ UNCHANGED <<kernelVars, lockFd, sock, backlog, serving, late, cpc>>

(* lock_file: open and fcntl.  Any failure ends in exit(0).                *)
Open(p) ==
    /\ ppc[p] = "open"
    /\ Goto(p, "lock")
    /\ lockFd' = [lockFd EXCEPT ![p] = TRUE]
    /\ UNCHANGED <<kernelVars, name, sock, backlog, serving, late, cpc>>

Lock(p) ==
    /\ ppc[p] = "lock"
    /\ holder = NoProc
    /\ holder' = p
    /\ Goto(p, "writepid")
    /\ UNCHANGED <<config, pidfile, node, name, lockFd, sock, backlog,
                   serving, late, cpc>>

LockFails(p) == ppc[p] \in {"open", "lock"} /\ Die(p)

WritePid(p) ==
    /\ ppc[p] = "writepid"
    /\ pidfile' = p
    /\ Goto(p, "unlink")
    /\ UNCHANGED <<config, holder, node, name, lockFd, sock, backlog,
                   serving, late, cpc>>

(* setup_socket.  Any failure returns to start_service with the socket     *)
(* open and, once it has been bound, with its name in place.               *)
UnlinkOld(p) ==
    /\ ppc[p] = "unlink"
    /\ Unlink(name[p])
    /\ Goto(p, "socket")
    /\ UNCHANGED <<config, holder, pidfile, name, lockFd, sock, backlog,
                   serving, late, cpc>>

Socket(p) ==
    /\ ppc[p] = "socket"
    /\ Goto(p, "bind")
    /\ sock' = [sock EXCEPT ![p] = "open"]
    /\ UNCHANGED <<kernelVars, name, lockFd, backlog, serving, late, cpc>>

Bind(p) ==
    /\ ppc[p] = "bind"
    /\ node[name[p]] = NoProc
    /\ node' = [node EXCEPT ![name[p]] = p]
    /\ Goto(p, "listen")
    /\ UNCHANGED <<config, holder, pidfile, name, lockFd, sock, backlog,
                   serving, late, cpc>>

Listen(p) ==
    /\ ppc[p] = "listen"
    /\ Goto(p, "accept")
    /\ sock' = [sock EXCEPT ![p] = "listening"]
    /\ UNCHANGED <<kernelVars, name, lockFd, backlog, serving, late, cpc>>

SetupFails(p) ==
    /\ ppc[p] \in {"socket", "bind", "listen"}
    /\ Goto(p, "unlock")
    /\ UNCHANGED <<kernelVars, name, lockFd, sock, backlog, serving, late,
                   cpc>>

Accept(p) ==
    /\ ppc[p] = "accept"
    /\ backlog[p] # <<>>
    /\ serving' = [serving EXCEPT ![p] = Head(backlog[p])]
    /\ backlog' = [backlog EXCEPT ![p] = Tail(@)]
    /\ Goto(p, "write")
    /\ UNCHANGED <<kernelVars, name, lockFd, sock, late, cpc>>

(* accept returns -1 and so does setup_socket.                             *)
AcceptFails(p) ==
    /\ ppc[p] = "accept"
    /\ Goto(p, "unlock")
    /\ UNCHANGED <<kernelVars, name, lockFd, sock, backlog, serving, late,
                   cpc>>

(* stat and write: the size, or -1, is sent.                               *)
Write(p) ==
    /\ ppc[p] = "write"
    /\ cpc[serving[p]] = "waiting"
    /\ cpc' = [cpc EXCEPT ![serving[p]] = "answered"]
    /\ Goto(p, "close")
    /\ UNCHANGED <<kernelVars, name, lockFd, sock, backlog, serving, late>>

(* write returns -1 and so does setup_socket, with the connection open     *)
(* until the process ends.                                                 *)
WriteFails(p) ==
    /\ ppc[p] = "write"
    /\ Goto(p, "unlock")
    /\ UNCHANGED <<kernelVars, name, lockFd, sock, backlog, serving, late,
                   cpc>>

(* The client is no longer there: SIGPIPE, which the daemon does not       *)
(* handle.                                                                 *)
BrokenPipe(p) ==
    /\ ppc[p] = "write"
    /\ cpc[serving[p]] = "gone"
    /\ Die(p)

Close(p) ==
    /\ ppc[p] = "close"
    /\ Goto(p, "accept")
    /\ serving' = [serving EXCEPT ![p] = NoClient]
    /\ UNCHANGED <<kernelVars, name, lockFd, sock, backlog, late, cpc>>

(* start_service after setup_socket.                                       *)
Unlock(p) ==
    /\ ppc[p] = "unlock"
    /\ Release(p)
    /\ Goto(p, "exit")
    /\ UNCHANGED <<config, pidfile, node, name, lockFd, sock, backlog,
                   serving, late, cpc>>

Exit(p) == ppc[p] = "exit" /\ Die(p)

-----------------------------------------------------------------------------
(* Signals.                                                                *)

(* SIGINT: handle_shutdown runs instead of what comes next, and exits.     *)
Interrupt(p) ==
    /\ ppc[p] \notin Handler \cup {"off"}
    /\ Goto(p, IF sock[p] # "none" THEN "h_close"
               ELSE IF lockFd[p] THEN "h_unlock" ELSE "h_exit")
    /\ late' = IF ppc[p] = "exit" THEN late \cup {p} ELSE late
    /\ UNCHANGED <<kernelVars, name, lockFd, sock, backlog, serving, cpc>>

HandlerCloses(p) ==
    /\ ppc[p] = "h_close"
    /\ CloseListener(p, {})
    /\ Goto(p, "h_unlink")
    /\ sock' = [sock EXCEPT ![p] = "closed"]
    /\ UNCHANGED <<config, holder, pidfile, name, lockFd, serving, late>>

HandlerUnlinks(p) ==
    /\ ppc[p] = "h_unlink"
    /\ Unlink(name[p])
    /\ Goto(p, IF lockFd[p] THEN "h_unlock" ELSE "h_exit")
    /\ UNCHANGED <<config, holder, pidfile, name, lockFd, sock, backlog,
                   serving, late, cpc>>

HandlerUnlocks(p) ==
    /\ ppc[p] = "h_unlock"
    /\ Release(p)
    /\ Goto(p, "h_exit")
    /\ UNCHANGED <<config, pidfile, node, name, lockFd, sock, backlog,
                   serving, late, cpc>>

HandlerExits(p) == ppc[p] = "h_exit" /\ Die(p)

(* SIGHUP: handle_SIGHUP copies the new name over the old one.  If the     *)
(* daemon was waiting in accept, accept fails with EINTR.                  *)
Hangup(p) ==
    /\ ppc[p] # "off"
    /\ name' = [name EXCEPT ![p] = Overlay[name[p]][config]]
    /\ \/ UNCHANGED ppc
       \/ ppc[p] = "accept" /\ backlog[p] = <<>> /\ Goto(p, "unlock")
    /\ UNCHANGED <<kernelVars, lockFd, sock, backlog, serving, late, cpc>>

(* Any other signal that ends a process, or a crash.                       *)
Kill(p) == ppc[p] # "off" /\ Die(p)

Edit ==
    /\ config' \in Names
    /\ UNCHANGED <<holder, pidfile, node, procVars, cpc>>

-----------------------------------------------------------------------------
(* A client.                                                               *)

Reaches(p) == node[Path] = p /\ sock[p] = "listening"

(* connect: the connection waits for accept, even if that will not come.   *)
Connect(c) ==
    /\ cpc[c] = "out"
    /\ \E p \in Procs :
          /\ Reaches(p)
          /\ backlog' = [backlog EXCEPT ![p] = Append(@, c)]
    /\ cpc' = [cpc EXCEPT ![c] = "waiting"]
    /\ UNCHANGED <<kernelVars, ppc, name, lockFd, sock, serving, late>>

(* "The server is down."                                                   *)
Refused(c) ==
    /\ cpc[c] = "out"
    /\ ~ \E p \in Procs : Reaches(p)
    /\ cpc' = [cpc EXCEPT ![c] = "refused"]
    /\ UNCHANGED <<kernelVars, procVars>>

(* The client is killed before its answer comes.                           *)
Leave(c) ==
    /\ cpc[c] = "waiting"
    /\ cpc' = [cpc EXCEPT ![c] = "gone"]
    /\ UNCHANGED <<kernelVars, procVars>>

(* It has printed what it got, or what was in its buffer, and ends.  It is *)
(* run again when the daemon has done with it.                             *)
Leaves(c) ==
    /\ cpc[c] \in {"answered", "cut", "refused", "gone"}
    /\ \A p \in Procs : c \notin Queued(p) \cup {serving[p]}
    /\ cpc' = [cpc EXCEPT ![c] = "out"]
    /\ UNCHANGED <<kernelVars, procVars>>

-----------------------------------------------------------------------------
Setup(p) ==
    \/ Open(p)
    \/ Lock(p)
    \/ LockFails(p)
    \/ WritePid(p)
    \/ UnlinkOld(p)
    \/ Socket(p)
    \/ Bind(p)
    \/ Listen(p)

Loop(p) == Accept(p) \/ Write(p) \/ BrokenPipe(p) \/ Close(p)

Shutdown(p) ==
    \/ Unlock(p)
    \/ Exit(p)
    \/ HandlerCloses(p)
    \/ HandlerUnlinks(p)
    \/ HandlerUnlocks(p)
    \/ HandlerExits(p)

(* What a process does by itself, when the system calls it makes work.     *)
Proceed(p) == Setup(p) \/ Loop(p) \/ Shutdown(p)

Fails(p) == SetupFails(p) \/ AcceptFails(p) \/ WriteFails(p)

Client(c) == Connect(c) \/ Refused(c) \/ Leave(c) \/ Leaves(c)

Next ==
    \/ \E p \in Procs :
          \/ Start(p)
          \/ Proceed(p)
          \/ Fails(p)
          \/ Interrupt(p)
          \/ Hangup(p)
          \/ Kill(p)
    \/ Edit
    \/ \E c \in Clients : Client(c)

Spec == Init /\ [][Next]_vars

(* A process that can run is run in the end.  accept need not fail.        *)
FairSpec ==
    /\ Spec
    /\ \A p \in Procs : WF_vars(Proceed(p))

-----------------------------------------------------------------------------
(* Every variable keeps its shape; what a process writes to or closes is   *)
(* open.                                                                   *)
TypeOK ==
    /\ config \in Names
    /\ holder \in Procs \cup {NoProc}
    /\ pidfile \in Procs \cup {NoProc}
    /\ node \in [Names -> Procs \cup {NoProc, "stale"}]
    /\ ppc \in [Procs -> ProcStates]
    /\ name \in [Procs -> Names]
    /\ lockFd \in [Procs -> BOOLEAN]
    /\ sock \in [Procs -> {"none", "open", "listening", "closed"}]
    /\ backlog \in [Procs -> Seq(Clients)]
    /\ serving \in [Procs -> Clients \cup {NoClient}]
    /\ cpc \in [Clients -> ClientStates]
    /\ late \subseteq Procs
    /\ \A p \in Procs :
          /\ ppc[p] \in {"write", "close"} => serving[p] # NoClient
          /\ ppc[p] \in {"bind", "listen", "accept", "write", "close",
                         "h_close"} =>
                sock[p] # "none"

(* Between lock_file and the release of the lock.                          *)
Holding(p) ==
    \/ ppc[p] \in {"writepid", "unlink", "socket", "bind", "listen", "accept",
                   "write", "close", "unlock"}
    \/ ppc[p] \in {"h_close", "h_unlink"} /\ p \notin late

(* From lock_file to start_service's unlock, or to that of the handler, a  *)
(* daemon is the only one, whatever signal comes when.                     *)
OneDaemon == \A p \in Procs : Holding(p) => holder = p

(* The lock file names the daemon that serves.                             *)
PidFileNamesDaemon ==
    \A p \in Procs :
        ppc[p] \in {"unlink", "socket", "bind", "listen", "accept", "write",
                    "close", "unlock"} => pidfile = p

OneName == \E n \in Names : Names = {n}

(* unlink and bind are two calls: nothing appears under the name between   *)
(* them, so bind does not fail because of it, unless SIGHUP may change the *)
(* name in between.                                                        *)
NameFreeForBind ==
    OneName =>
        \A p \in Procs :
            ppc[p] \in {"socket", "bind"} => node[name[p]] = NoProc

Serving(p) == ppc[p] \in {"accept", "write", "close"}

(* A daemon that serves can be reached by a name: the shutdown or the      *)
(* start of another daemon does not take it away, unless that one was      *)
(* interrupted between its unlock and its exit.                            *)
ServerIsReachable ==
    late = {} => \A p \in Procs : Serving(p) => \E n \in Names : node[n] = p

(* When the handler of SIGINT comes to unlock the file, the socket's name  *)
(* is gone, whenever the signal came, unless SIGHUP may change the name:   *)
(* the next daemon gets the lock and a free name together.                 *)
NameGoesBeforeLock ==
    OneName =>
        \A p \in Procs :
            ppc[p] = "h_unlock" /\ holder = p /\ sock[p] # "none" =>
                node[name[p]] = NoProc

(* The other end of a connection that waits is with a process that runs,   *)
(* in its queue or accepted and not yet done with: no signal, failure or   *)
(* crash leaves a client with nobody.  And a connection that has been      *)
(* accepted has not been answered before.                                  *)
ClientsAreHeld ==
    /\ \A c \in Clients : cpc[c] = "waiting" =>
          \E p \in Procs :
              /\ ppc[p] # "off"
              /\ c \in Queued(p) \/ (serving[p] = c /\ ppc[p] # "close")
    /\ \A p \in Procs : ppc[p] = "write" => cpc[serving[p]] \in {"waiting", "gone"}

(* A client that is connected is answered, or told that it will not be.    *)
NoClientIsKept == \A c \in Clients : cpc[c] = "waiting" ~> cpc[c] # "waiting"

=============================================================================
