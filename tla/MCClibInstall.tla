--------------------------- MODULE MCClibInstall ----------------------------
(* A library and an addon that need each other, and a tool that is built   *)
(* with a part of its own, from which the addon is developed.  The tool    *)
(* stands for clib itself, too.  A kit lists itself behind that part.      *)
EXTENDS ClibInstall, TLC

CONSTANTS lib, addon, tool, gear, kit

MCPackages == {lib, addon, tool, gear, kit}
MCDeps == (lib :> <<addon, tool>>) @@ (addon :> <<lib>>) @@ (tool :> <<gear>>)
              @@ (kit :> <<gear, kit>>) @@ [p \in {gear, Program} |-> <<>>]
MCDevs == (addon :> <<gear>>) @@ (Program :> <<addon>>)
              @@ [p \in {lib, tool, gear, kit} |-> <<>>]

Line(program, args, opts) == [program |-> program, args |-> args, opts |-> opts]
MCInvocations ==
    {Line("install", <<tool>>, {"save"}), Line("install", <<>>, {"dev"}),
     Line("install", <<tool>>, {"skip", "dev"}),
     Line("install", <<kit>>, {}), Line("update", <<lib>>, {}),
     Line("update", <<tool>>, {}), Line("upgrade", <<>>, {})}

=============================================================================
