---------------------------- MODULE MCOtsDaemon -----------------------------
(* Processes, clients and names for the OtsDaemon runs.                    *)
EXTENDS OtsDaemon, TLC

CONSTANTS p1, p2, c1, c2, long, short, mixed

MCProcs == {p1, p2}
MCClients == {c1, c2}
MCNoClient == {}

(* One name: copying it over itself changes nothing.                       *)
MCOneName == {long}
MCSameName == [n \in MCOneName |-> [m \in MCOneName |-> long]]

(* A shorter name copied over a longer one keeps the end of the longer.    *)
MCNames == {long, short, mixed}
MCOverlay ==
    [old \in MCNames |-> [new \in MCNames |->
        IF new = short /\ old # short THEN mixed ELSE new]]

Symmetry == Permutations(MCProcs) \cup Permutations(MCClients)

=============================================================================
