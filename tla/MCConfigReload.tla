--------------------------- MODULE MCConfigReload ---------------------------
(***************************************************************************)
(* Model checking of ConfigReload.  Configurations: without OAuth; two of  *)
(* one issuer that differ in the well-known fields; one of another issuer; *)
(* one that forwards tokens unseen; one that requires OAuth but names no   *)
(* issuer, which Validate rejects; one that cannot be converted.  None sets *)
(* the option that the command line sets.                                  *)
(***************************************************************************)
EXTENDS ConfigReload

CONSTANTS plain, scoped, rescoped, moved, bare, forwarding, torn,
          here, there, narrow, wide, on, off

MCConfigs == {plain, scoped, rescoped, moved, bare, forwarding, torn}
MCInvalid == {bare}
MCUnconvertible == {torn}

MCIssuerOf ==
    [c \in MCConfigs |-> CASE c \in {scoped, rescoped} -> here
                           [] c = moved -> there
                           [] OTHER -> NoIssuer]

MCRequiresOAuth == {scoped, rescoped, moved, bare, forwarding}
MCSkipsJWT == {forwarding}
MCWellKnownOf == [c \in MCConfigs |-> IF c = rescoped THEN wide ELSE narrow]
MCOptionOf == [c \in MCConfigs |-> off]
MCLogsToFile == {scoped, moved, forwarding}
=============================================================================
