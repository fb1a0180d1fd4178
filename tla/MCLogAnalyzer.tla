--------------------------- MODULE MCLogAnalyzer ----------------------------
(* Files for the LogAnalyzer run: urls without a referer, a referer that   *)
(* is a url of the other file, so that both jobs add and count one key,    *)
(* and more urls than the report shows.                                    *)
EXTENDS LogAnalyzer, TLC

CONSTANTS w1, w2, t1, t2, u1, u2, u3

MCWorkers == {w1, w2}
MCTasks == {t1, t2}
MCStrings == {u1, u2, u3}

Entry(u, r, n) == [url |-> u, referer |-> r, traffic |-> n]

MCLog ==
    t1 :> <<Entry(u1, NoReferer, 2), Entry(u2, NoReferer, 1)>> @@
    t2 :> <<Entry(u3, u1, 3)>>

=============================================================================
