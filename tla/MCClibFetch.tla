---------------------------- MODULE MCClibFetch -----------------------------
(* Three sources and a concurrency of one: a full batch, whose second      *)
(* thread nobody joins, and one more that is joined at the end.            *)
EXTENDS ClibFetch

=============================================================================
