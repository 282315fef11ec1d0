-------------------------- MODULE MCToolsetReload --------------------------
(***************************************************************************)
(* Model checking of ToolsetReload.  Two good configurations, one that     *)
(* fails Validate and one with an item that does not convert; a tool that  *)
(* every configuration has, one that depends on the provider, a prompt and *)
(* a resource that depend on the configuration.                            *)
(***************************************************************************)
EXTENDS ToolsetReload

CONSTANTS first, second, rejected, broken, here, there, pods, projects, hello, chart

MCConfigs == {first, second, rejected, broken}
MCWorlds  == {here, there}
MCNames   == {pods, projects, hello, chart}
MCInvalid == {rejected}
MCBroken  == {broken}

MCKindOf ==
    [n \in MCNames |-> CASE n = hello -> 2 [] n = chart -> 3 [] OTHER -> 1]

\* projects needs a GVK that only one of the worlds serves; hello is a prompt
\* of the first configuration, chart a resource of the others.
MCApplies ==
    [v \in MCConfigs \X MCWorlds |->
       {n \in MCNames : /\ n = projects => v[2] = there
                        /\ n = hello => v[1] = first
                        /\ n = chart => v[1] # first}]
=============================================================================
