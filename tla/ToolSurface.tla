---------------------------- MODULE ToolSurface ----------------------------
(***************************************************************************)
(* What a reload of the toolsets promises a client of the MCP server,      *)
(* whatever the way it is carried out: module ToolsetReload implements it. *)
(*                                                                         *)
(* The items on offer (tools, prompts, resources, resource templates) go   *)
(* from one complete surface to the next.  On the way only items that the  *)
(* next surface lacks disappear and only items it has appear, so that an   *)
(* item of both is on offer throughout; the live configuration changes     *)
(* when the next surface is complete; one transition ends before another   *)
(* begins; a configuration the server rejects is never live.               *)
(***************************************************************************)
CONSTANTS
    Names,       \* the items a toolset or the configuration can define
    Acceptable,  \* the configurations whose reload succeeds
    Initial      \* the configuration the server starts with

VARIABLES
    live,     \* the configuration handlers read
    surface,  \* the items on offer
    moving,   \* a transition is under way
    goal      \* the surface it leads to

Init ==
    /\ live = Initial
    /\ surface = {}
    /\ moving = FALSE
    /\ goal = {}

Begin ==
    /\ ~moving
    /\ moving' = TRUE
    /\ goal' \in SUBSET Names
    /\ UNCHANGED <<live, surface>>

Withdraw ==
    /\ moving
    /\ surface' \in SUBSET surface
    /\ surface \cap goal \subseteq surface'
    /\ UNCHANGED <<live, moving, goal>>

Offer ==
    /\ moving
    /\ \E n \in goal : surface' = surface \cup {n}
    /\ UNCHANGED <<live, moving, goal>>

Finish ==
    /\ moving
    /\ surface = goal
    /\ moving' = FALSE
    /\ goal' = {}
    /\ live' \in Acceptable
    /\ UNCHANGED surface

Next == Begin \/ Withdraw \/ Offer \/ Finish

vars == <<live, surface, moving, goal>>

Spec == Init /\ [][Next]_vars
=============================================================================
