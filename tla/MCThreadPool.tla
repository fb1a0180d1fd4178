---------------------------- MODULE MCThreadPool ----------------------------
(* Model values for the ThreadPool runs.                                   *)
EXTENDS ThreadPool, TLC

CONSTANTS w1, w2, w3, t1, t2, t3

MCWorkers2 == {w1, w2}
MCWorkers3 == {w1, w2, w3}
MCTasks2 == {t1, t2}
MCTasks3 == {t1, t2, t3}

=============================================================================
