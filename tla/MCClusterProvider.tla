------------------------- MODULE MCClusterProvider -------------------------
(***************************************************************************)
(* Model checking of ClusterProvider: two contexts and three kubeconfigs.  *)
(***************************************************************************)
EXTENDS ClusterProvider

CONSTANTS dev, prod, single, prodCurrent, unreadable

MCContexts == {dev, prod}
MCFiles    == {single, prodCurrent, unreadable}

\* Tool calls name one context; without a target they use the default one.
MCAsked == {prod}

\* single has no current-context: its only context is selected.
MCContextsOf ==
    [f \in MCFiles |-> CASE f = single -> {dev}
                         [] f = unreadable -> {}
                         [] OTHER -> {dev, prod}]

MCCurrentOf ==
    [f \in MCFiles |-> IF f = prodCurrent THEN prod ELSE Unset]
=============================================================================
