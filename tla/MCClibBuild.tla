---------------------------- MODULE MCClibBuild -----------------------------
(* clib build and clib configure, of an application whose library needs    *)
(* the tool it needs itself, with documents and tests of its own, and of a *)
(* client and a server that need each other.  The manifest of the tool and *)
(* that of the server are a package.json.                                  *)
EXTENDS ClibConfigure, TLC

CONSTANTS app, lib, tool, docs, tests, client, server

MCPackages == {app, lib, tool, docs, tests, client, server}
MCDeps == (app :> <<lib, tool, docs>>) @@ (lib :> <<tool>>) @@ (client :> <<server>>)
          @@ (server :> <<client>>) @@ [p \in {tool, docs, tests} |-> <<>>]
MCDevs == (app :> <<tests>>) @@ [p \in MCPackages |-> <<>>]
MCFilename == [p \in MCPackages |-> IF p \in {tool, server} THEN 2 ELSE 1]
MCInvocations ==
    [program : {"build"}, args : {<<>>}, dev : {TRUE}, flags : {FALSE}] \cup
    [program : {"configure"}, args : {<<>>}, dev : {TRUE}, flags : {TRUE}] \cup
    [program : {"build", "configure"}, args : {<<client>>}, dev : {FALSE}, flags : {FALSE}]

MCStep(t) == IF asked.program = "build" THEN Step(t) ELSE ConfigureStep(t)

MCNext ==
    \/ asked.program = "build" /\ Next
    \/ asked.program = "configure" /\ ConfigureNext

MCSpec == Init /\ [][MCNext]_vars

(* The fairness of FairSpec, for both programs.                            *)
MCFairSpec ==
    /\ MCSpec /\ WF_vars(MainStep)
    /\ \A t \in Threads : WF_vars(MCStep(t))

=============================================================================
