----------------------------- MODULE TaskQueue ------------------------------
(***************************************************************************)
(* What DgdPool_submit promises the caller of Hw11/thread_pool.h, with no  *)
(* threads in sight: a task is refused or queued, queued tasks are started *)
(* in the order they were submitted, and a task is run at most once.       *)
(***************************************************************************)
EXTENDS Naturals, Sequences, FiniteSets

CONSTANTS Tasks

VARIABLES
    pending,   \* submitted and not started, oldest first
    active,    \* started and not finished
    finished,  \* finished
    refused    \* DgdPool_submit returned -1

tqVars == <<pending, active, finished, refused>>

Seen == {pending[i] : i \in DOMAIN pending} \cup active \cup finished
            \cup refused

Init ==
    /\ pending = <<>>
    /\ active = {}
    /\ finished = {}
    /\ refused = {}

Accept(t) ==
    /\ t \notin Seen
    /\ pending' = Append(pending, t)
    /\ UNCHANGED <<active, finished, refused>>

Refuse(t) ==
    /\ t \notin Seen
    /\ refused' = refused \cup {t}
    /\ UNCHANGED <<pending, active, finished>>

Start ==
    /\ pending # <<>>
    /\ pending' = Tail(pending)
    /\ active' = active \cup {Head(pending)}
    /\ UNCHANGED <<finished, refused>>

Complete(t) ==
    /\ t \in active
    /\ active' = active \ {t}
    /\ finished' = finished \cup {t}
    /\ UNCHANGED <<pending, refused>>

Next ==
    \/ \E t \in Tasks : Accept(t) \/ Refuse(t) \/ Complete(t)
    \/ Start

Spec == Init /\ [][Next]_tqVars

=============================================================================
