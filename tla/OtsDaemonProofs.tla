-------------------------- MODULE OtsDaemonProofs ---------------------------
(***************************************************************************)
(* Proofs about OtsDaemon, for any number of daemons, clients and names.   *)
(*                                                                         *)
(* All rests on the lock.  Whoever is between lock_file and its unlock is  *)
(* the holder (OneDaemon), so only one process at a time unlinks and binds *)
(* names or writes the pid.  Fresh says that a process that has not got    *)
(* the lock yet has no socket: then SIGINT does not send it to unlink one. *)
(*                                                                         *)
(* The last section is about connections.  One is in at most one place at  *)
(* a time, a queue or the hands of a process, and one that waits is in     *)
(* some (Places).                                                          *)
(***************************************************************************)
EXTENDS OtsDaemon, FiniteSetTheorems, SequenceTheorems, TLAPS

Fresh == \A p \in Procs : ppc[p] \in {"off", "open", "lock"} => sock[p] = "none"

(* A name leads to a socket from bind on.                                  *)
Bound(p) == ppc[p] = "listen" \/ Serving(p)

Reachable ==
    late = {} => \A p \in Procs : Bound(p) => \E n \in Names : node[n] = p

Inv ==
    /\ TypeOK
    /\ Fresh
    /\ OneDaemon
    /\ PidFileNamesDaemon
    /\ Reachable
    /\ NameFreeForBind
    /\ NameGoesBeforeLock

USE ProcsAssumption, ClientsAssumption, NamesAssumption

-----------------------------------------------------------------------------
(* The five ways for a process to end have the same effect.                *)
LEMMA Ends ==
    ASSUME NEW p \in Procs,
           \/ LockFails(p) \/ BrokenPipe(p) \/ Exit(p)
           \/ HandlerExits(p) \/ Kill(p)
    PROVE  Die(p)
  BY DEF LockFails, BrokenPipe, Exit, HandlerExits, Kill

(* The shapes.  What write and close use was set by accept.                *)
LEMMA TypeOKStep ==
    ASSUME TypeOK, [Next]_vars PROVE TypeOK'
  <1> USE DEF TypeOK, ProcStates, ClientStates, Handler, Goto, Release, Unlink,
              kernelVars, procVars
  <1>1. ASSUME NEW p \in Procs, Die(p) PROVE TypeOK'
    BY <1>1 DEF Die, CloseListener, Cut
  <1>2. ASSUME NEW p \in Procs, Start(p) PROVE TypeOK'
    BY <1>2 DEF Start
  <1>3. ASSUME NEW p \in Procs, Open(p) PROVE TypeOK'
    BY <1>3 DEF Open
  <1>4. ASSUME NEW p \in Procs, Lock(p) PROVE TypeOK'
    BY <1>4 DEF Lock
  <1>5. ASSUME NEW p \in Procs, WritePid(p) PROVE TypeOK'
    BY <1>5 DEF WritePid
  <1>6. ASSUME NEW p \in Procs, UnlinkOld(p) PROVE TypeOK'
    BY <1>6 DEF UnlinkOld
  <1>7. ASSUME NEW p \in Procs, Socket(p) PROVE TypeOK'
    BY <1>7 DEF Socket
  <1>8. ASSUME NEW p \in Procs, Bind(p) PROVE TypeOK'
    BY <1>8 DEF Bind
  <1>9. ASSUME NEW p \in Procs, Listen(p) PROVE TypeOK'
    BY <1>9 DEF Listen
  <1>10. ASSUME NEW p \in Procs, Accept(p) PROVE TypeOK'
    <2>1. Head(backlog[p]) \in Clients /\ Tail(backlog[p]) \in Seq(Clients)
      BY <1>10, HeadTailProperties DEF Accept
    <2> QED BY <1>10, <2>1 DEF Accept
  <1>11. ASSUME NEW p \in Procs, Write(p) PROVE TypeOK'
    BY <1>11 DEF Write
  <1>12. ASSUME NEW p \in Procs, Close(p) PROVE TypeOK'
    BY <1>12 DEF Close
  <1>13. ASSUME NEW p \in Procs, Unlock(p) PROVE TypeOK'
    BY <1>13 DEF Unlock
  <1>14. ASSUME NEW p \in Procs, HandlerCloses(p) PROVE TypeOK'
    BY <1>14 DEF HandlerCloses, CloseListener, Cut
  <1>15. ASSUME NEW p \in Procs, HandlerUnlinks(p) PROVE TypeOK'
    BY <1>15 DEF HandlerUnlinks
  <1>16. ASSUME NEW p \in Procs, HandlerUnlocks(p) PROVE TypeOK'
    BY <1>16 DEF HandlerUnlocks
  <1>17. ASSUME NEW p \in Procs, Fails(p) PROVE TypeOK'
    BY <1>17 DEF Fails, SetupFails, AcceptFails, WriteFails
  <1>18. ASSUME NEW p \in Procs, Interrupt(p) PROVE TypeOK'
    BY <1>18 DEF Interrupt
  <1>19. ASSUME NEW p \in Procs, Hangup(p) PROVE TypeOK'
    BY <1>19 DEF Hangup
  <1>20. CASE Edit
    BY <1>20 DEF Edit
  <1>21. ASSUME NEW c \in Clients, Connect(c) PROVE TypeOK'
    BY <1>21, AppendProperties DEF Connect
  <1>22. ASSUME NEW c \in Clients, Refused(c) \/ Leave(c) \/ Leaves(c)
         PROVE TypeOK'
    <2>1. /\ cpc' \in [Clients -> ClientStates]
          /\ UNCHANGED <<kernelVars, procVars>>
      BY <1>22 DEF Refused, Leave, Leaves
    <2> QED BY <2>1
  <1>23. CASE UNCHANGED vars
    BY <1>23 DEF vars
  <1> QED
    BY Ends, <1>1, <1>2, <1>3, <1>4, <1>5, <1>6, <1>7, <1>8, <1>9, <1>10,
       <1>11, <1>12, <1>13, <1>14, <1>15, <1>16, <1>17, <1>18, <1>19, <1>20,
       <1>21, <1>22, <1>23
       DEF Next, Proceed, Setup, Loop, Shutdown, Client

-----------------------------------------------------------------------------
(* A step of a client, of whoever edits the configuration, or of nobody.   *)
Aside == UNCHANGED <<holder, pidfile, node, ppc, name, sock, late>>

(* The kinds of steps that the lemmas below tell apart.                    *)
LEMMA Split ==
    ASSUME [Next]_vars
    PROVE  \/ Aside
           \/ \E p \in Procs :
                \/ Die(p)
                \/ Start(p)
                \/ Open(p)
                \/ Lock(p)
                \/ WritePid(p)
                \/ UnlinkOld(p)
                \/ Socket(p)
                \/ Bind(p)
                \/ Listen(p)
                \/ Accept(p)
                \/ Write(p)
                \/ Close(p)
                \/ Unlock(p)
                \/ HandlerCloses(p)
                \/ HandlerUnlinks(p)
                \/ HandlerUnlocks(p)
                \/ Fails(p)
                \/ Interrupt(p)
                \/ Hangup(p)
  <1>1. ASSUME NEW c \in Clients, Client(c) PROVE Aside
    BY <1>1 DEF Aside, Client, Connect, Refused, Leave, Leaves, kernelVars,
                procVars
  <1>2. CASE Edit
    BY <1>2 DEF Aside, Edit, procVars
  <1>3. CASE UNCHANGED vars
    BY <1>3 DEF Aside, vars, kernelVars, procVars
  <1> QED
    BY Ends, <1>1, <1>2, <1>3 DEF Next, Proceed, Setup, Loop, Shutdown

(* socket() is called by the holder of the lock, and a process that ends    *)
(* has no socket.                                                          *)
LEMMA FreshStep ==
    ASSUME TypeOK, Fresh, [Next]_vars PROVE Fresh'
  <1> USE DEF Fresh, TypeOK, ProcStates, Handler, Goto, Release, kernelVars,
              procVars
  <1>1. ASSUME NEW p \in Procs, Die(p) PROVE Fresh'
    BY <1>1 DEF Die, CloseListener
  <1>2. ASSUME NEW p \in Procs, Start(p) PROVE Fresh'
    BY <1>2 DEF Start
  <1>3. ASSUME NEW p \in Procs, Open(p) PROVE Fresh'
    BY <1>3 DEF Open
  <1>4. ASSUME NEW p \in Procs, Lock(p) PROVE Fresh'
    BY <1>4 DEF Lock
  <1>5. ASSUME NEW p \in Procs, WritePid(p) PROVE Fresh'
    BY <1>5 DEF WritePid
  <1>6. ASSUME NEW p \in Procs, UnlinkOld(p) PROVE Fresh'
    BY <1>6 DEF UnlinkOld
  <1>7. ASSUME NEW p \in Procs, Socket(p) PROVE Fresh'
    BY <1>7 DEF Socket
  <1>8. ASSUME NEW p \in Procs, Bind(p) PROVE Fresh'
    BY <1>8 DEF Bind
  <1>9. ASSUME NEW p \in Procs, Listen(p) PROVE Fresh'
    BY <1>9 DEF Listen
  <1>10. ASSUME NEW p \in Procs, Accept(p) PROVE Fresh'
    BY <1>10 DEF Accept
  <1>11. ASSUME NEW p \in Procs, Write(p) PROVE Fresh'
    BY <1>11 DEF Write
  <1>12. ASSUME NEW p \in Procs, Close(p) PROVE Fresh'
    BY <1>12 DEF Close
  <1>13. ASSUME NEW p \in Procs, Unlock(p) PROVE Fresh'
    BY <1>13 DEF Unlock
  <1>14. ASSUME NEW p \in Procs, HandlerCloses(p) PROVE Fresh'
    BY <1>14 DEF HandlerCloses, CloseListener
  <1>15. ASSUME NEW p \in Procs, HandlerUnlinks(p) PROVE Fresh'
    BY <1>15 DEF HandlerUnlinks
  <1>16. ASSUME NEW p \in Procs, HandlerUnlocks(p) PROVE Fresh'
    BY <1>16 DEF HandlerUnlocks
  <1>17. ASSUME NEW p \in Procs, Fails(p) PROVE Fresh'
    BY <1>17 DEF Fails, SetupFails, AcceptFails, WriteFails
  <1>18. ASSUME NEW p \in Procs, Interrupt(p) PROVE Fresh'
    BY <1>18 DEF Interrupt
  <1>19. ASSUME NEW p \in Procs, Hangup(p) PROVE Fresh'
    BY <1>19 DEF Hangup
  <1>20. CASE Aside
    BY <1>20 DEF Aside
  <1> QED
    BY Split, <1>1, <1>2, <1>3, <1>4, <1>5, <1>6, <1>7, <1>8, <1>9, <1>10,
       <1>11, <1>12, <1>13, <1>14, <1>15, <1>16, <1>17, <1>18, <1>19, <1>20

(* Nobody gets the lock while it is held, and only the holder's own steps  *)
(* release it.  A process that SIGINT sends to h_close has a socket, so by *)
(* Fresh it had the lock.                                                  *)
LEMMA OneDaemonStep ==
    ASSUME TypeOK, Fresh, OneDaemon, [Next]_vars PROVE OneDaemon'
  <1> USE DEF Fresh, OneDaemon, Holding, TypeOK, ProcStates, Handler, Goto,
              Release, kernelVars, procVars
  <1>1. ASSUME NEW p \in Procs, Die(p) PROVE OneDaemon'
    BY <1>1 DEF Die, CloseListener
  <1>2. ASSUME NEW p \in Procs, Start(p) PROVE OneDaemon'
    BY <1>2 DEF Start
  <1>3. ASSUME NEW p \in Procs, Open(p) PROVE OneDaemon'
    BY <1>3 DEF Open
  <1>4. ASSUME NEW p \in Procs, Lock(p) PROVE OneDaemon'
    BY <1>4 DEF Lock
  <1>5. ASSUME NEW p \in Procs, WritePid(p) PROVE OneDaemon'
    BY <1>5 DEF WritePid
  <1>6. ASSUME NEW p \in Procs, UnlinkOld(p) PROVE OneDaemon'
    BY <1>6 DEF UnlinkOld
  <1>7. ASSUME NEW p \in Procs, Socket(p) PROVE OneDaemon'
    BY <1>7 DEF Socket
  <1>8. ASSUME NEW p \in Procs, Bind(p) PROVE OneDaemon'
    BY <1>8 DEF Bind
  <1>9. ASSUME NEW p \in Procs, Listen(p) PROVE OneDaemon'
    BY <1>9 DEF Listen
  <1>10. ASSUME NEW p \in Procs, Accept(p) PROVE OneDaemon'
    BY <1>10 DEF Accept
  <1>11. ASSUME NEW p \in Procs, Write(p) PROVE OneDaemon'
    BY <1>11 DEF Write
  <1>12. ASSUME NEW p \in Procs, Close(p) PROVE OneDaemon'
    BY <1>12 DEF Close
  <1>13. ASSUME NEW p \in Procs, Unlock(p) PROVE OneDaemon'
    BY <1>13 DEF Unlock
  <1>14. ASSUME NEW p \in Procs, HandlerCloses(p) PROVE OneDaemon'
    BY <1>14 DEF HandlerCloses, CloseListener
  <1>15. ASSUME NEW p \in Procs, HandlerUnlinks(p) PROVE OneDaemon'
    BY <1>15 DEF HandlerUnlinks
  <1>16. ASSUME NEW p \in Procs, HandlerUnlocks(p) PROVE OneDaemon'
    BY <1>16 DEF HandlerUnlocks
  <1>17. ASSUME NEW p \in Procs, Fails(p) PROVE OneDaemon'
    BY <1>17 DEF Fails, SetupFails, AcceptFails, WriteFails
  <1>18. ASSUME NEW p \in Procs, Interrupt(p) PROVE OneDaemon'
    BY <1>18 DEF Interrupt
  <1>19. ASSUME NEW p \in Procs, Hangup(p) PROVE OneDaemon'
    BY <1>19 DEF Hangup
  <1>20. CASE Aside
    BY <1>20 DEF Aside
  <1> QED
    BY Split, <1>1, <1>2, <1>3, <1>4, <1>5, <1>6, <1>7, <1>8, <1>9, <1>10,
       <1>11, <1>12, <1>13, <1>14, <1>15, <1>16, <1>17, <1>18, <1>19, <1>20

(* The pid is written by the holder, after the last one is out.            *)
LEMMA PidFileStep ==
    ASSUME TypeOK, OneDaemon, PidFileNamesDaemon, [Next]_vars
    PROVE PidFileNamesDaemon'
  <1> USE DEF PidFileNamesDaemon, OneDaemon, Holding, TypeOK, ProcStates,
              Handler, Goto, Release, kernelVars, procVars
  <1>1. ASSUME NEW p \in Procs, Die(p) PROVE PidFileNamesDaemon'
    BY <1>1 DEF Die, CloseListener
  <1>2. ASSUME NEW p \in Procs, Start(p) PROVE PidFileNamesDaemon'
    BY <1>2 DEF Start
  <1>3. ASSUME NEW p \in Procs, Open(p) PROVE PidFileNamesDaemon'
    BY <1>3 DEF Open
  <1>4. ASSUME NEW p \in Procs, Lock(p) PROVE PidFileNamesDaemon'
    BY <1>4 DEF Lock
  <1>5. ASSUME NEW p \in Procs, WritePid(p) PROVE PidFileNamesDaemon'
    BY <1>5 DEF WritePid
  <1>6. ASSUME NEW p \in Procs, UnlinkOld(p) PROVE PidFileNamesDaemon'
    BY <1>6 DEF UnlinkOld
  <1>7. ASSUME NEW p \in Procs, Socket(p) PROVE PidFileNamesDaemon'
    BY <1>7 DEF Socket
  <1>8. ASSUME NEW p \in Procs, Bind(p) PROVE PidFileNamesDaemon'
    BY <1>8 DEF Bind
  <1>9. ASSUME NEW p \in Procs, Listen(p) PROVE PidFileNamesDaemon'
    BY <1>9 DEF Listen
  <1>10. ASSUME NEW p \in Procs, Accept(p) PROVE PidFileNamesDaemon'
    BY <1>10 DEF Accept
  <1>11. ASSUME NEW p \in Procs, Write(p) PROVE PidFileNamesDaemon'
    BY <1>11 DEF Write
  <1>12. ASSUME NEW p \in Procs, Close(p) PROVE PidFileNamesDaemon'
    BY <1>12 DEF Close
  <1>13. ASSUME NEW p \in Procs, Unlock(p) PROVE PidFileNamesDaemon'
    BY <1>13 DEF Unlock
  <1>14. ASSUME NEW p \in Procs, HandlerCloses(p) PROVE PidFileNamesDaemon'
    BY <1>14 DEF HandlerCloses, CloseListener
  <1>15. ASSUME NEW p \in Procs, HandlerUnlinks(p) PROVE PidFileNamesDaemon'
    BY <1>15 DEF HandlerUnlinks
  <1>16. ASSUME NEW p \in Procs, HandlerUnlocks(p) PROVE PidFileNamesDaemon'
    BY <1>16 DEF HandlerUnlocks
  <1>17. ASSUME NEW p \in Procs, Fails(p) PROVE PidFileNamesDaemon'
    BY <1>17 DEF Fails, SetupFails, AcceptFails, WriteFails
  <1>18. ASSUME NEW p \in Procs, Interrupt(p) PROVE PidFileNamesDaemon'
    BY <1>18 DEF Interrupt
  <1>19. ASSUME NEW p \in Procs, Hangup(p) PROVE PidFileNamesDaemon'
    BY <1>19 DEF Hangup
  <1>20. CASE Aside
    BY <1>20 DEF Aside
  <1> QED
    BY Split, <1>1, <1>2, <1>3, <1>4, <1>5, <1>6, <1>7, <1>8, <1>9, <1>10,
       <1>11, <1>12, <1>13, <1>14, <1>15, <1>16, <1>17, <1>18, <1>19, <1>20

(* Whoever unlinks a name is the holder, so it is not the name of another  *)
(* process that is bound; bind only takes a free name.                     *)
LEMMA ReachableStep ==
    ASSUME TypeOK, OneDaemon, Reachable, [Next]_vars PROVE Reachable'
  <1> USE DEF Reachable, Bound, Serving, OneDaemon, Holding, Unlink, TypeOK,
              ProcStates, Handler, Goto, Release, kernelVars, procVars
  <1>1. ASSUME NEW p \in Procs, Die(p) PROVE Reachable'
    BY <1>1 DEF Die, CloseListener
  <1>2. ASSUME NEW p \in Procs, Start(p) PROVE Reachable'
    BY <1>2 DEF Start
  <1>3. ASSUME NEW p \in Procs, Open(p) PROVE Reachable'
    BY <1>3 DEF Open
  <1>4. ASSUME NEW p \in Procs, Lock(p) PROVE Reachable'
    BY <1>4 DEF Lock
  <1>5. ASSUME NEW p \in Procs, WritePid(p) PROVE Reachable'
    BY <1>5 DEF WritePid
  <1>6. ASSUME NEW p \in Procs, UnlinkOld(p) PROVE Reachable'
    BY <1>6 DEF UnlinkOld
  <1>7. ASSUME NEW p \in Procs, Socket(p) PROVE Reachable'
    BY <1>7 DEF Socket
  <1>8. ASSUME NEW p \in Procs, Bind(p) PROVE Reachable'
    BY <1>8 DEF Bind
  <1>9. ASSUME NEW p \in Procs, Listen(p) PROVE Reachable'
    BY <1>9 DEF Listen
  <1>10. ASSUME NEW p \in Procs, Accept(p) PROVE Reachable'
    BY <1>10 DEF Accept
  <1>11. ASSUME NEW p \in Procs, Write(p) PROVE Reachable'
    BY <1>11 DEF Write
  <1>12. ASSUME NEW p \in Procs, Close(p) PROVE Reachable'
    BY <1>12 DEF Close
  <1>13. ASSUME NEW p \in Procs, Unlock(p) PROVE Reachable'
    BY <1>13 DEF Unlock
  <1>14. ASSUME NEW p \in Procs, HandlerCloses(p) PROVE Reachable'
    BY <1>14 DEF HandlerCloses, CloseListener
  <1>15. ASSUME NEW p \in Procs, HandlerUnlinks(p) PROVE Reachable'
    BY <1>15 DEF HandlerUnlinks
  <1>16. ASSUME NEW p \in Procs, HandlerUnlocks(p) PROVE Reachable'
    BY <1>16 DEF HandlerUnlocks
  <1>17. ASSUME NEW p \in Procs, Fails(p) PROVE Reachable'
    BY <1>17 DEF Fails, SetupFails, AcceptFails, WriteFails
  <1>18. ASSUME NEW p \in Procs, Interrupt(p) PROVE Reachable'
    BY <1>18 DEF Interrupt
  <1>19. ASSUME NEW p \in Procs, Hangup(p) PROVE Reachable'
    BY <1>19 DEF Hangup
  <1>20. CASE Aside
    BY <1>20 DEF Aside
  <1> QED
    BY Split, <1>1, <1>2, <1>3, <1>4, <1>5, <1>6, <1>7, <1>8, <1>9, <1>10,
       <1>11, <1>12, <1>13, <1>14, <1>15, <1>16, <1>17, <1>18, <1>19, <1>20

(* Between unlink and bind the process holds the lock, so no other binds.  *)
LEMMA NameFreeStep ==
    ASSUME TypeOK, OneDaemon, NameFreeForBind, [Next]_vars
    PROVE NameFreeForBind'
  <1> SUFFICES ASSUME NEW n, Names = {n} PROVE NameFreeForBind'
    BY DEF OneName, NameFreeForBind
  <1> USE DEF NameFreeForBind, OneName, OneDaemon, Holding, Unlink, TypeOK,
              ProcStates, Handler, Goto, Release, kernelVars, procVars
  <1>1. ASSUME NEW p \in Procs, Die(p) PROVE NameFreeForBind'
    BY <1>1 DEF Die, CloseListener
  <1>2. ASSUME NEW p \in Procs, Start(p) PROVE NameFreeForBind'
    BY <1>2 DEF Start
  <1>3. ASSUME NEW p \in Procs, Open(p) PROVE NameFreeForBind'
    BY <1>3 DEF Open
  <1>4. ASSUME NEW p \in Procs, Lock(p) PROVE NameFreeForBind'
    BY <1>4 DEF Lock
  <1>5. ASSUME NEW p \in Procs, WritePid(p) PROVE NameFreeForBind'
    BY <1>5 DEF WritePid
  <1>6. ASSUME NEW p \in Procs, UnlinkOld(p) PROVE NameFreeForBind'
    BY <1>6 DEF UnlinkOld
  <1>7. ASSUME NEW p \in Procs, Socket(p) PROVE NameFreeForBind'
    BY <1>7 DEF Socket
  <1>8. ASSUME NEW p \in Procs, Bind(p) PROVE NameFreeForBind'
    BY <1>8 DEF Bind
  <1>9. ASSUME NEW p \in Procs, Listen(p) PROVE NameFreeForBind'
    BY <1>9 DEF Listen
  <1>10. ASSUME NEW p \in Procs, Accept(p) PROVE NameFreeForBind'
    BY <1>10 DEF Accept
  <1>11. ASSUME NEW p \in Procs, Write(p) PROVE NameFreeForBind'
    BY <1>11 DEF Write
  <1>12. ASSUME NEW p \in Procs, Close(p) PROVE NameFreeForBind'
    BY <1>12 DEF Close
  <1>13. ASSUME NEW p \in Procs, Unlock(p) PROVE NameFreeForBind'
    BY <1>13 DEF Unlock
  <1>14. ASSUME NEW p \in Procs, HandlerCloses(p) PROVE NameFreeForBind'
    BY <1>14 DEF HandlerCloses, CloseListener
  <1>15. ASSUME NEW p \in Procs, HandlerUnlinks(p) PROVE NameFreeForBind'
    BY <1>15 DEF HandlerUnlinks
  <1>16. ASSUME NEW p \in Procs, HandlerUnlocks(p) PROVE NameFreeForBind'
    BY <1>16 DEF HandlerUnlocks
  <1>17. ASSUME NEW p \in Procs, Fails(p) PROVE NameFreeForBind'
    BY <1>17 DEF Fails, SetupFails, AcceptFails, WriteFails
  <1>18. ASSUME NEW p \in Procs, Interrupt(p) PROVE NameFreeForBind'
    BY <1>18 DEF Interrupt
  <1>19. ASSUME NEW p \in Procs, Hangup(p) PROVE NameFreeForBind'
    BY <1>19 DEF Hangup
  <1>20. CASE Aside
    BY <1>20 DEF Aside
  <1> QED
    BY Split, <1>1, <1>2, <1>3, <1>4, <1>5, <1>6, <1>7, <1>8, <1>9, <1>10,
       <1>11, <1>12, <1>13, <1>14, <1>15, <1>16, <1>17, <1>18, <1>19, <1>20

(* The same for the handler, between its unlink and its unlock.            *)
LEMMA NameGoesStep ==
    ASSUME TypeOK, Fresh, OneDaemon, NameGoesBeforeLock, [Next]_vars
    PROVE NameGoesBeforeLock'
  <1> SUFFICES ASSUME NEW n, Names = {n} PROVE NameGoesBeforeLock'
    BY DEF OneName, NameGoesBeforeLock
  <1> USE DEF NameGoesBeforeLock, OneName, Fresh, OneDaemon, Holding, Unlink,
              TypeOK, ProcStates, Handler, Goto, Release, kernelVars, procVars
  <1>1. ASSUME NEW p \in Procs, Die(p) PROVE NameGoesBeforeLock'
    BY <1>1 DEF Die, CloseListener
  <1>2. ASSUME NEW p \in Procs, Start(p) PROVE NameGoesBeforeLock'
    BY <1>2 DEF Start
  <1>3. ASSUME NEW p \in Procs, Open(p) PROVE NameGoesBeforeLock'
    BY <1>3 DEF Open
  <1>4. ASSUME NEW p \in Procs, Lock(p) PROVE NameGoesBeforeLock'
    BY <1>4 DEF Lock
  <1>5. ASSUME NEW p \in Procs, WritePid(p) PROVE NameGoesBeforeLock'
    BY <1>5 DEF WritePid
  <1>6. ASSUME NEW p \in Procs, UnlinkOld(p) PROVE NameGoesBeforeLock'
    BY <1>6 DEF UnlinkOld
  <1>7. ASSUME NEW p \in Procs, Socket(p) PROVE NameGoesBeforeLock'
    BY <1>7 DEF Socket
  <1>8. ASSUME NEW p \in Procs, Bind(p) PROVE NameGoesBeforeLock'
    BY <1>8 DEF Bind
  <1>9. ASSUME NEW p \in Procs, Listen(p) PROVE NameGoesBeforeLock'
    BY <1>9 DEF Listen
  <1>10. ASSUME NEW p \in Procs, Accept(p) PROVE NameGoesBeforeLock'
    BY <1>10 DEF Accept
  <1>11. ASSUME NEW p \in Procs, Write(p) PROVE NameGoesBeforeLock'
    BY <1>11 DEF Write
  <1>12. ASSUME NEW p \in Procs, Close(p) PROVE NameGoesBeforeLock'
    BY <1>12 DEF Close
  <1>13. ASSUME NEW p \in Procs, Unlock(p) PROVE NameGoesBeforeLock'
    BY <1>13 DEF Unlock
  <1>14. ASSUME NEW p \in Procs, HandlerCloses(p) PROVE NameGoesBeforeLock'
    BY <1>14 DEF HandlerCloses, CloseListener
  <1>15. ASSUME NEW p \in Procs, HandlerUnlinks(p) PROVE NameGoesBeforeLock'
    BY <1>15 DEF HandlerUnlinks
  <1>16. ASSUME NEW p \in Procs, HandlerUnlocks(p) PROVE NameGoesBeforeLock'
    BY <1>16 DEF HandlerUnlocks
  <1>17. ASSUME NEW p \in Procs, Fails(p) PROVE NameGoesBeforeLock'
    BY <1>17 DEF Fails, SetupFails, AcceptFails, WriteFails
  <1>18. ASSUME NEW p \in Procs, Interrupt(p) PROVE NameGoesBeforeLock'
    BY <1>18 DEF Interrupt
  <1>19. ASSUME NEW p \in Procs, Hangup(p) PROVE NameGoesBeforeLock'
    BY <1>19 DEF Hangup
  <1>20. CASE Aside
    BY <1>20 DEF Aside
  <1> QED
    BY Split, <1>1, <1>2, <1>3, <1>4, <1>5, <1>6, <1>7, <1>8, <1>9, <1>10,
       <1>11, <1>12, <1>13, <1>14, <1>15, <1>16, <1>17, <1>18, <1>19, <1>20

-----------------------------------------------------------------------------
(* Inv is inductive: it holds at first and each step keeps it.             *)
LEMMA InvInit == Init => Inv
  BY
     DEF Init, Inv, TypeOK, ProcStates, ClientStates, Handler, Fresh,
         OneDaemon,
         Holding, PidFileNamesDaemon, Reachable, Bound, Serving,
         NameFreeForBind, NameGoesBeforeLock

(* OneDaemon carries the four parts that come after it.                    *)
LEMMA InvStep == Inv /\ [Next]_vars => Inv'
  BY TypeOKStep, FreshStep, OneDaemonStep, PidFileStep, ReachableStep,
     NameFreeStep, NameGoesStep DEF Inv

(* So Inv holds in every state the processes of Hw09 can be in.            *)
THEOREM Invariance == Spec => []Inv
  BY InvInit, InvStep, PTL DEF Spec

(* Every variable keeps its shape, and setup_socket and handle_shutdown    *)
(* use no descriptor that is not open.                                     *)
THEOREM TypeCorrect == Spec => []TypeOK
  <1>1. Inv => TypeOK BY DEF Inv
  <1> QED BY <1>1, Invariance, PTL

(* The lock file lets one daemon in at a time, through any signals,        *)
(* failures and crashes, until that one gives the lock up.                 *)
THEOREM LockExcludes == Spec => []OneDaemon
  <1>1. Inv => OneDaemon BY DEF Inv
  <1> QED BY <1>1, Invariance, PTL

(* The id in the lock file is that of the daemon that holds the lock.      *)
THEOREM PidFileIsRight == Spec => []PidFileNamesDaemon
  <1>1. Inv => PidFileNamesDaemon BY DEF Inv
  <1> QED BY <1>1, Invariance, PTL

(* No start and no shutdown of another daemon takes the name of a socket   *)
(* from the daemon that serves on it, but for the shutdown that was        *)
(* interrupted too late.                                                   *)
THEOREM ServerKeepsName == Spec => []ServerIsReachable
  <1>1. Inv => ServerIsReachable
    BY DEF Inv, Reachable, Bound, ServerIsReachable
  <1> QED BY <1>1, Invariance, PTL

(* With one name, bind finds the name free that unlink has freed.          *)
THEOREM BindFindsRoom == Spec => []NameFreeForBind
  <1>1. Inv => NameFreeForBind BY DEF Inv
  <1> QED BY <1>1, Invariance, PTL

(* With one name, handle_shutdown gives the lock up after the name.        *)
THEOREM NameThenLock == Spec => []NameGoesBeforeLock
  <1>1. Inv => NameGoesBeforeLock BY DEF Inv
  <1> QED BY <1>1, Invariance, PTL

-----------------------------------------------------------------------------
(* Connections.  A connection is in one place at a time.                   *)

With(c, p) == c \in Queued(p) \/ serving[p] = c

(* The queue of p: none twice, none that is served, none that is answered. *)
Waits(p) ==
    /\ \A i, j \in DOMAIN backlog[p] : i # j => backlog[p][i] # backlog[p][j]
    /\ serving[p] \notin Queued(p)
    /\ \A c \in Queued(p) : cpc[c] \in {"waiting", "gone"}

(* A process serves from accept to close, or till it ends.                 *)
Before == {"off", "open", "lock", "writepid", "unlink", "socket", "bind",
           "listen", "accept"}

Serves(p) ==
    /\ ppc[p] \in Before => serving[p] = NoClient
    /\ ppc[p] = "off" => backlog[p] = <<>>
    /\ ppc[p] = "write" => cpc[serving[p]] \in {"waiting", "gone"}
    /\ ppc[p] = "close" => cpc[serving[p]] # "waiting"

Apart ==
    \A p, q \in Procs : p # q => \A c \in Clients : ~(With(c, p) /\ With(c, q))

Outside ==
    \A c \in Clients : cpc[c] \in {"out", "refused"} =>
        \A p \in Procs : ~With(c, p)

Held == \A c \in Clients : cpc[c] = "waiting" => \E p \in Procs : With(c, p)

Places ==
    /\ \A p \in Procs : Waits(p) /\ Serves(p)
    /\ Apart /\ Outside /\ Held

(* Who is in a queue is a client.                                          *)
LEMMA QueuedAre ==
    ASSUME TypeOK, NEW p \in Procs
    PROVE  Queued(p) \subseteq Clients
  <1>1. backlog[p] \in Seq(Clients)
    BY DEF TypeOK
  <1> QED
    BY <1>1, ElementOfSeq DEF Queued

(* A step that leaves the connections alone.                               *)
Quiet(p) ==
    /\ UNCHANGED <<backlog, serving, cpc>>
    /\ \E l : /\ ppc' = [ppc EXCEPT ![p] = l]
              /\ l \notin {"off", "write", "close"} \/ l = ppc[p]
              /\ l \in Before => ppc[p] \in Before

LEMMA QuietPlaces ==
    ASSUME TypeOK, Places, NEW p \in Procs, Quiet(p)
    PROVE  Places'
  <1>1. PICK l : /\ ppc' = [ppc EXCEPT ![p] = l]
                 /\ l \notin {"off", "write", "close"} \/ l = ppc[p]
                 /\ l \in Before => ppc[p] \in Before
    BY DEF Quiet
  <1>2. UNCHANGED <<backlog, serving, cpc>>
    BY DEF Quiet
  <1>3. \A q \in Procs : ppc'[q] = IF q = p THEN l ELSE ppc[q]
    BY <1>1 DEF TypeOK
  <1>4. ASSUME NEW q \in Procs PROVE Waits(q)' /\ Serves(q)'
    BY <1>1, <1>2, <1>3 DEF Places, Waits, Serves, Queued
  <1>5. Apart' /\ Outside' /\ Held'
    BY <1>2 DEF Places, Apart, Outside, Held, With, Queued
  <1> QED
    BY <1>4, <1>5 DEF Places

(* Nothing that Places is about changes.                                   *)
LEMMA IdlePlaces ==
    ASSUME Places, UNCHANGED <<ppc, backlog, serving, cpc>>
    PROVE  Places'
  <1>1. ASSUME NEW q \in Procs PROVE Waits(q)' /\ Serves(q)'
    BY <1>1 DEF Places, Waits, Serves, Queued
  <1>2. Apart' /\ Outside' /\ Held'
    BY DEF Places, Apart, Outside, Held, With, Queued
  <1> QED
    BY <1>1, <1>2 DEF Places

(* The queue of p is closed, and so is what it serves if it ends.          *)
LEMMA ClosePlaces ==
    ASSUME TypeOK, Places, NEW p \in Procs, NEW l, NEW C,
           ppc' = [ppc EXCEPT ![p] = l], CloseListener(p, C),
           \/ l = "h_unlink" /\ C = {} /\ serving' = serving
           \/ /\ l = "off" /\ C = {serving[p]}
              /\ serving' = [serving EXCEPT ![p] = NoClient]
    PROVE  Places'
  <1>1. /\ \A q \in Procs : ppc'[q] = IF q = p THEN l ELSE ppc[q]
        /\ \A q \in Procs : backlog'[q] = IF q = p THEN <<>> ELSE backlog[q]
        /\ \A q \in Procs \ {p} : serving'[q] = serving[q]
        /\ serving'[p] = serving[p] \/ serving'[p] = NoClient
        /\ l = "off" => serving'[p] = NoClient
        /\ serving[p] # NoClient /\ serving'[p] = NoClient => C = {serving[p]}
    BY DEF TypeOK, CloseListener
  <1>2. \A c \in Clients :
          cpc'[c] = IF c \in Queued(p) \cup C /\ cpc[c] = "waiting"
                    THEN "cut" ELSE cpc[c]
    BY DEF CloseListener, Cut
  <1>3. /\ \A q \in Procs \ {p} : Queued(q)' = Queued(q)
        /\ Queued(p)' = {}
    BY <1>1 DEF Queued
  <1>4. \A c \in Queued(p) \cup C : c \in Clients => With(c, p)
    BY DEF With
  <1>5. ASSUME NEW q \in Procs, NEW c \in Clients, With(c, q)'
        PROVE  With(c, q)
    BY <1>1, <1>3, <1>5, ClientsAssumption DEF With
  <1>6. ASSUME NEW q \in Procs \ {p}, NEW c \in Clients, With(c, q)
        PROVE  cpc'[c] = cpc[c]
    BY <1>2, <1>4, <1>6 DEF Places, Apart
  <1>7. ASSUME NEW q \in Procs \ {p} PROVE Waits(q)' /\ Serves(q)'
    <2>1. Waits(q)'
      BY <1>1, <1>3, <1>6, QueuedAre DEF Places, Waits, With
    <2>2. ppc[q] \in {"write", "close"} =>
             serving[q] \in Clients /\ cpc'[serving[q]] = cpc[serving[q]]
      BY <1>6 DEF With, TypeOK
    <2>3. Serves(q)'
      BY <1>1, <2>2 DEF Places, Serves
    <2> QED
      BY <2>1, <2>3
  <1>8. Waits(p)' /\ Serves(p)'
    BY <1>1, <1>3 DEF Waits, Serves, Before
  <1>9. Apart'
    BY <1>5 DEF Places, Apart
  <1>10. Outside'
    BY <1>2, <1>5 DEF Places, Outside
  <1>11. ASSUME NEW c \in Clients, cpc'[c] = "waiting"
         PROVE  \E q \in Procs : With(c, q)'
    <2>1. cpc[c] = "waiting" /\ c \notin Queued(p) \cup C
      BY <1>2, <1>11
    <2>2. PICK q \in Procs : With(c, q)
      BY <2>1 DEF Places, Held
    <2>3. CASE q = p
      BY <1>1, <2>1, <2>2, <2>3, ClientsAssumption DEF With
    <2>4. CASE q # p
      BY <1>1, <1>3, <2>2, <2>4 DEF With
    <2> QED
      BY <2>3, <2>4
  <1> QED
    BY <1>7, <1>8, <1>9, <1>10, <1>11 DEF Places, Held

(* accept takes the first of the queue.                                    *)
LEMMA AcceptPlaces ==
    ASSUME TypeOK, Places, NEW p \in Procs, Accept(p)
    PROVE  Places'
  <1>1. PICK b \in Seq(Clients) : b = backlog[p] /\ b # <<>>
    BY DEF Accept, TypeOK
  <1> DEFINE h == Head(b)
             t == Tail(b)
  <1>2. /\ h \in Clients /\ t \in Seq(Clients) /\ h = b[1] /\ 1 \in DOMAIN b
        /\ \A i \in DOMAIN t : i + 1 \in DOMAIN b /\ t[i] = b[i + 1] /\ i + 1 # 1
        /\ \A j \in DOMAIN b : j # 1 => j - 1 \in DOMAIN t /\ b[j] = t[j - 1]
        /\ DOMAIN t \subseteq Nat
    BY <1>1
  <1> HIDE DEF h, t
  <1>3. /\ ppc[p] = "accept" /\ serving' = [serving EXCEPT ![p] = h]
        /\ backlog' = [backlog EXCEPT ![p] = t]
        /\ ppc' = [ppc EXCEPT ![p] = "write"] /\ cpc' = cpc
    BY <1>1 DEF Accept, Goto, h, t
  <1>4. /\ \A q \in Procs \ {p} : /\ ppc'[q] = ppc[q] /\ serving'[q] = serving[q]
                                  /\ backlog'[q] = backlog[q]
        /\ ppc'[p] = "write" /\ serving'[p] = h /\ backlog'[p] = t
    BY <1>3 DEF TypeOK
  <1>5. \A i, j \in DOMAIN b : i # j => b[i] # b[j]
    BY <1>1 DEF Places, Waits
  <1>6. /\ Queued(p) = {b[i] : i \in DOMAIN b}
        /\ Queued(p)' = {t[i] : i \in DOMAIN t}
        /\ \A q \in Procs \ {p} : Queued(q)' = Queued(q)
    BY <1>1, <1>4 DEF Queued
  <1>7. h \in Queued(p) /\ h \notin Queued(p)' /\ Queued(p) = Queued(p)' \cup {h}
    <2>1. h \in Queued(p)
      BY <1>2, <1>6
    <2>2. \A i \in DOMAIN t : t[i] # h /\ t[i] \in Queued(p)
      BY <1>2, <1>5, <1>6
    <2>3. \A j \in DOMAIN b : b[j] = h \/ b[j] \in Queued(p)'
      BY <1>2, <1>6
    <2>4. h \notin Queued(p)' /\ Queued(p)' \subseteq Queued(p)
      BY <1>6, <2>2
    <2>5. Queued(p) \subseteq Queued(p)' \cup {h}
      BY <1>6, <2>3
    <2> QED
      BY <2>1, <2>4, <2>5
  <1>8. \A i, j \in DOMAIN t : i # j => t[i] # t[j]
    BY <1>2, <1>5
  <1>9. serving[p] = NoClient
    BY <1>3 DEF Places, Serves, Before
  <1>10. \A q \in Procs, c \in Clients : With(c, q)' <=> With(c, q)
    BY <1>4, <1>6, <1>7, <1>9, ClientsAssumption DEF With
  <1>11. Waits(p)' /\ Serves(p)'
    <2>1. Waits(p)'
      BY <1>3, <1>4, <1>7, <1>8 DEF Places, Waits
    <2>2. Serves(p)'
      BY <1>3, <1>4, <1>7 DEF Places, Waits, Serves, Before
    <2> QED
      BY <2>1, <2>2
  <1>12. ASSUME NEW q \in Procs \ {p} PROVE Waits(q)' /\ Serves(q)'
    BY <1>3, <1>4, <1>6 DEF Places, Waits, Serves
  <1>13. Apart' /\ Outside' /\ Held'
    BY <1>3, <1>10 DEF Places, Apart, Outside, Held
  <1> QED
    BY <1>11, <1>12, <1>13 DEF Places

(* The client that is served is answered, and nobody else is told.         *)
LEMMA WritePlaces ==
    ASSUME TypeOK, Places, NEW p \in Procs, Write(p)
    PROVE  Places'
  <1>1. /\ ppc[p] = "write" /\ serving[p] \in Clients
        /\ cpc' = [cpc EXCEPT ![serving[p]] = "answered"]
        /\ ppc' = [ppc EXCEPT ![p] = "close"] /\ UNCHANGED <<backlog, serving>>
    BY DEF Write, Goto, TypeOK
  <1>2. /\ \A q \in Procs : ppc'[q] = IF q = p THEN "close" ELSE ppc[q]
        /\ \A c \in Clients : cpc'[c] = IF c = serving[p] THEN "answered" ELSE cpc[c]
    BY <1>1 DEF TypeOK
  <1>3. \A q \in Procs : Queued(q)' = Queued(q)
    BY <1>1 DEF Queued
  <1>4. \A q \in Procs, c \in Clients : With(c, q)' <=> With(c, q)
    BY <1>1, <1>3 DEF With
  <1>5. With(serving[p], p)
    BY DEF With
  <1>6. ASSUME NEW q \in Procs, NEW c \in Queued(q) PROVE c \in Clients /\ c # serving[p]
    <2>1. c \in Clients /\ With(c, q)
      BY QueuedAre DEF With
    <2> QED
      BY <1>1, <1>5, <2>1 DEF Places, Waits, Apart
  <1>7. ASSUME NEW q \in Procs PROVE Waits(q)'
    BY <1>1, <1>2, <1>3, <1>6 DEF Places, Waits
  <1>8. ASSUME NEW q \in Procs PROVE Serves(q)'
    <2>1. CASE q = p
      BY <1>1, <1>2, <2>1 DEF Serves, Before
    <2>2. CASE q # p
      <3>1. serving[q] \in Clients => serving[q] # serving[p]
        BY <1>5, <2>2 DEF Places, Apart, With
      <3>2. ppc[q] \in {"write", "close"} => serving[q] \in Clients
        BY DEF TypeOK
      <3> QED
        BY <1>1, <1>2, <2>2, <3>1, <3>2 DEF Places, Serves
    <2> QED
      BY <2>1, <2>2
  <1>9. Apart' /\ Outside' /\ Held'
    BY <1>2, <1>4 DEF Places, Apart, Outside, Held
  <1> QED
    BY <1>7, <1>8, <1>9 DEF Places

(* close ends a connection that does not wait any more.                    *)
LEMMA DonePlaces ==
    ASSUME TypeOK, Places, NEW p \in Procs, Close(p)
    PROVE  Places'
  <1>1. /\ ppc[p] = "close" /\ serving' = [serving EXCEPT ![p] = NoClient]
        /\ ppc' = [ppc EXCEPT ![p] = "accept"] /\ UNCHANGED <<backlog, cpc>>
    BY DEF Close, Goto
  <1>2. /\ \A q \in Procs : ppc'[q] = IF q = p THEN "accept" ELSE ppc[q]
        /\ \A q \in Procs : serving'[q] = IF q = p THEN NoClient ELSE serving[q]
    BY <1>1 DEF TypeOK
  <1>3. \A q \in Procs : Queued(q)' = Queued(q) /\ Queued(q) \subseteq Clients
    BY <1>1, QueuedAre DEF Queued
  <1>4. ASSUME NEW q \in Procs, NEW c \in Clients
        PROVE  /\ With(c, q)' => With(c, q)
               /\ With(c, q) => With(c, q)' \/ (q = p /\ c = serving[p])
    BY <1>2, <1>3, ClientsAssumption DEF With
  <1>5. ASSUME NEW q \in Procs PROVE Waits(q)' /\ Serves(q)'
    BY <1>1, <1>2, <1>3, ClientsAssumption DEF Places, Waits, Serves, Before
  <1>6. cpc[serving[p]] # "waiting"
    BY <1>1 DEF Places, Serves
  <1>7. Apart' /\ Outside' /\ Held'
    BY <1>1, <1>4, <1>6 DEF Places, Apart, Outside, Held
  <1> QED
    BY <1>5, <1>7 DEF Places

(* connect puts a client into a queue that is in none.                     *)
LEMMA ConnectPlaces ==
    ASSUME TypeOK, Fresh, Places, NEW c \in Clients, Connect(c)
    PROVE  Places'
  <1>1. PICK p \in Procs : /\ Reaches(p)
                           /\ backlog' = [backlog EXCEPT ![p] = Append(@, c)]
    BY DEF Connect
  <1>2. /\ cpc[c] = "out" /\ cpc' = [cpc EXCEPT ![c] = "waiting"]
        /\ UNCHANGED <<ppc, serving>>
    BY DEF Connect
  <1>3. ppc[p] # "off"
    BY <1>1 DEF Reaches, Fresh
  <1>4. \A q \in Procs : ~With(c, q)
    BY <1>2 DEF Places, Outside
  <1>5. PICK b \in Seq(Clients) : b = backlog[p]
    BY DEF TypeOK
  <1> DEFINE a == Append(b, c)
  <1>6. /\ a \in Seq(Clients) /\ DOMAIN a = DOMAIN b \cup {Len(b) + 1}
        /\ Len(b) + 1 \notin DOMAIN b /\ a[Len(b) + 1] = c
        /\ \A i \in DOMAIN b : a[i] = b[i]
    BY <1>5
  <1> HIDE DEF a
  <1>7. /\ backlog'[p] = a /\ \A q \in Procs \ {p} : backlog'[q] = backlog[q]
        /\ \A d \in Clients : cpc'[d] = IF d = c THEN "waiting" ELSE cpc[d]
    BY <1>1, <1>2, <1>5 DEF TypeOK, a
  <1>8. /\ Queued(p) = {b[i] : i \in DOMAIN b}
        /\ Queued(p)' = {a[i] : i \in DOMAIN a}
        /\ \A q \in Procs \ {p} : Queued(q)' = Queued(q)
    BY <1>5, <1>7 DEF Queued
  <1>9. Queued(p)' = Queued(p) \cup {c} /\ c \notin Queued(p)
    BY <1>4, <1>6, <1>8 DEF With
  <1>10. \A i, j \in DOMAIN b : i # j => b[i] # b[j]
    BY <1>5 DEF Places, Waits
  <1>11. \A i \in DOMAIN b : b[i] # c
    BY <1>8, <1>9
  <1>12. \A i, j \in DOMAIN a : i # j => a[i] # a[j]
    BY <1>6, <1>10, <1>11
  <1>13. /\ \A d \in Clients \ {c}, q \in Procs : With(d, q)' <=> With(d, q)
         /\ \A q \in Procs : With(c, q)' <=> q = p
    BY <1>2, <1>4, <1>8, <1>9 DEF With
  <1>14. ASSUME NEW q \in Procs PROVE Waits(q)'
    <2>1. serving'[q] \notin Queued(q)'
      BY <1>2, <1>4, <1>8, <1>9 DEF Places, Waits, With
    <2>2. ASSUME NEW d \in Queued(q)' PROVE cpc'[d] \in {"waiting", "gone"}
      <3>1. d = c \/ d \in Queued(q)
        BY <1>8, <1>9
      <3>2. d \in Queued(q) => d \in Clients /\ cpc[d] \in {"waiting", "gone"}
        BY QueuedAre DEF Places, Waits
      <3> QED
        BY <1>7, <3>1, <3>2
    <2>3. \A i, j \in DOMAIN backlog'[q] : i # j => backlog'[q][i] # backlog'[q][j]
      BY <1>7, <1>12 DEF Places, Waits
    <2> QED
      BY <2>1, <2>2, <2>3 DEF Waits
  <1>15. ASSUME NEW q \in Procs PROVE Serves(q)'
    <2>1. serving[q] # c
      BY <1>4 DEF With
    <2>2. ppc[q] \in {"write", "close"} => serving[q] \in Clients
      BY DEF TypeOK
    <2>3. ppc'[q] = "off" => backlog'[q] = <<>>
      BY <1>2, <1>3, <1>7 DEF Places, Serves
    <2> QED
      BY <1>2, <1>7, <2>1, <2>2, <2>3 DEF Places, Serves
  <1>16. Apart' /\ Outside' /\ Held'
    BY <1>7, <1>13 DEF Places, Apart, Outside, Held
  <1> QED
    BY <1>14, <1>15, <1>16 DEF Places

(* A client that is refused, that leaves while it waits, or that is run    *)
(* again when nobody has its connection any more.                          *)
LEMMA ClientPlaces ==
    ASSUME TypeOK, Places, NEW c \in Clients, Refused(c) \/ Leave(c) \/ Leaves(c)
    PROVE  Places'
  <1>1. PICK s : /\ cpc' = [cpc EXCEPT ![c] = s]
                 /\ \/ s = "refused" /\ cpc[c] = "out"
                    \/ s = "gone" /\ cpc[c] = "waiting"
                    \/ /\ s = "out"
                       /\ \A p \in Procs : c \notin Queued(p) \cup {serving[p]}
    BY DEF Refused, Leave, Leaves
  <1>2. UNCHANGED <<ppc, backlog, serving>>
    BY DEF Refused, Leave, Leaves, procVars
  <1>3. \A d \in Clients : cpc'[d] = IF d = c THEN s ELSE cpc[d]
    BY <1>1 DEF TypeOK
  <1>4. s # "gone" => \A p \in Procs : ~With(c, p)
    BY <1>1 DEF Places, Outside, With
  <1>5. \A q \in Procs : Queued(q)' = Queued(q)
    BY <1>2 DEF Queued
  <1>6. \A d \in Clients, q \in Procs : With(d, q)' <=> With(d, q)
    BY <1>2, <1>5 DEF With
  <1>7. ASSUME NEW q \in Procs PROVE Waits(q)'
    <2>1. \A d \in Queued(q) : d \in Clients /\ (d = c => s = "gone")
      BY <1>4, QueuedAre DEF With
    <2> QED
      BY <1>2, <1>3, <1>5, <2>1 DEF Places, Waits
  <1>8. ASSUME NEW q \in Procs PROVE Serves(q)'
    <2>1. ppc[q] \in {"write", "close"} =>
            serving[q] \in Clients /\ (serving[q] = c => s = "gone")
      BY <1>4 DEF With, TypeOK
    <2> QED
      BY <1>2, <1>3, <2>1 DEF Places, Serves
  <1>9. Apart' /\ Outside' /\ Held'
    BY <1>1, <1>3, <1>4, <1>6 DEF Places, Apart, Outside, Held
  <1> QED
    BY <1>7, <1>8, <1>9 DEF Places

(* Every step keeps the places.                                            *)
LEMMA PlacesStep ==
    ASSUME TypeOK, Fresh, Places, [Next]_vars
    PROVE  Places'
  <1>1. ASSUME NEW p \in Procs, Die(p) PROVE Places'
    BY <1>1, ClosePlaces DEF Die, Goto
  <1>2. ASSUME NEW p \in Procs, HandlerCloses(p) PROVE Places'
    BY <1>2, ClosePlaces DEF HandlerCloses, Goto
  <1>3. ASSUME NEW p \in Procs, Accept(p) \/ Write(p) \/ Close(p) PROVE Places'
    BY <1>3, AcceptPlaces, WritePlaces, DonePlaces
  <1>4. ASSUME NEW p \in Procs,
               \/ Start(p) \/ Open(p) \/ Lock(p) \/ WritePid(p)
               \/ UnlinkOld(p) \/ Socket(p) \/ Bind(p) \/ Listen(p)
        PROVE  Quiet(p)
    BY <1>4 DEF Start, Open, Lock, WritePid, UnlinkOld, Socket, Bind, Listen,
                Quiet, Goto, Before
  <1>5. ASSUME NEW p \in Procs, Fails(p) \/ Unlock(p) \/ Interrupt(p) PROVE Quiet(p)
    <2> DEFINE Last == {"unlock", "exit", "h_close", "h_unlock", "h_exit"}
    <2>1. UNCHANGED <<backlog, serving, cpc>>
      BY <1>5 DEF Fails, SetupFails, AcceptFails, WriteFails, Unlock, Interrupt
    <2>2. PICK l \in Last : Goto(p, l)
      <3>1. Fails(p) => Goto(p, "unlock")
        BY DEF Fails, SetupFails, AcceptFails, WriteFails
      <3>2. Unlock(p) => Goto(p, "exit")
        BY DEF Unlock
      <3>3. Interrupt(p) => Goto(p, "h_close") \/ Goto(p, "h_unlock") \/ Goto(p, "h_exit")
        BY DEF Interrupt
      <3> QED
        BY <1>5, <3>1, <3>2, <3>3, Zenon
    <2> QED
      BY <2>1, <2>2 DEF Quiet, Goto, Before
  <1>6. ASSUME NEW p \in Procs, HandlerUnlinks(p) \/ HandlerUnlocks(p)
        PROVE  Quiet(p)
    BY <1>6 DEF HandlerUnlinks, HandlerUnlocks, Quiet, Goto, Before
  <1>7. ASSUME NEW p \in Procs, Hangup(p) PROVE Places'
    <2>1. CASE UNCHANGED ppc
      BY <1>7, <2>1, IdlePlaces DEF Hangup
    <2>2. CASE Goto(p, "unlock")
      BY <1>7, <2>2, QuietPlaces DEF Hangup, Quiet, Goto, Before
    <2> QED
      BY <1>7, <2>1, <2>2 DEF Hangup
  <1>8. ASSUME NEW c \in Clients, Client(c) PROVE Places'
    BY <1>8, ConnectPlaces, ClientPlaces DEF Client
  <1>9. CASE Edit \/ UNCHANGED vars
    BY <1>9, IdlePlaces DEF Edit, procVars, vars
  <1> QED
    BY Ends, QuietPlaces, <1>1, <1>2, <1>3, <1>4, <1>5, <1>6, <1>7, <1>8, <1>9
       DEF Next, Proceed, Setup, Loop, Shutdown

LEMMA PlacesInit == Init => Places
  <1> SUFFICES ASSUME Init PROVE Places
    OBVIOUS
  <1>1. \A p \in Procs : Queued(p) = {}
    BY DEF Init, Queued
  <1>2. \A p \in Procs, c \in Clients : ~With(c, p)
    BY <1>1, ClientsAssumption DEF Init, With
  <1>3. ASSUME NEW p \in Procs PROVE Waits(p) /\ Serves(p)
    BY <1>1 DEF Init, Waits, Serves, Before
  <1> QED
    BY <1>2, <1>3 DEF Init, Places, Apart, Outside, Held

(* Through any signals, failures and crashes, of any number of daemons, a  *)
(* client that waits is with a process that runs: ots_daemon.c takes each  *)
(* connection off its queue, answers it once and closes it after that.     *)
THEOREM NobodyIsForgotten == Spec => []ClientsAreHeld
  <1>1. Init => Inv /\ Places
    BY InvInit, PlacesInit
  <1>2. Inv /\ Places /\ [Next]_vars => Inv' /\ Places'
    BY InvStep, PlacesStep DEF Inv
  <1>3. ASSUME Inv, Places PROVE ClientsAreHeld
    <2>1. ASSUME NEW c \in Clients, cpc[c] = "waiting"
          PROVE  \E p \in Procs :
                   /\ ppc[p] # "off"
                   /\ c \in Queued(p) \/ (serving[p] = c /\ ppc[p] # "close")
      <3>1. PICK p \in Procs : With(c, p)
        BY <1>3, <2>1 DEF Places, Held
      <3>2. Serves(p)
        BY <1>3 DEF Places
      <3>3. CASE c \in Queued(p)
        BY <3>2, <3>3 DEF Serves, Queued
      <3>4. CASE serving[p] = c
        BY <2>1, <3>2, <3>4, ClientsAssumption DEF Serves, Before
      <3> QED
        BY <3>1, <3>3, <3>4 DEF With
    <2>2. \A p \in Procs :
            ppc[p] = "write" => cpc[serving[p]] \in {"waiting", "gone"}
      BY <1>3 DEF Places, Serves
    <2> QED
      BY <2>1, <2>2 DEF ClientsAreHeld
  <1> QED
    BY <1>1, <1>2, <1>3, PTL DEF Spec

=============================================================================
