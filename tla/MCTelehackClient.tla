-------------------------- MODULE MCTelehackClient --------------------------
(* A greeting and a reply for the TelehackClient runs: several lines, one  *)
(* of them empty, and a dot within a line.                                 *)
EXTENDS TelehackClient

MCGreeting == <<"text", "cr", "lf", "cr", "lf", "dot">>
MCReply == <<"dot", "text", "cr", "lf", "text", "cr", "lf", "dot">>

=============================================================================
