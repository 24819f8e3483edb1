------------------------------- MODULE MCBoot -------------------------------
(* Instances of Boot for TLC: server c lists a name that server a has.     *)
EXTENDS Boot, TLC

MCServers == <<"a", "b", "c">>
MCToolsOf == ("a" :> <<"a1", "a2">>) @@ ("b" :> <<"b1">>) @@ ("c" :> <<"c1", "a1">>)
MCRunners == <<"telegram">>
=============================================================================
