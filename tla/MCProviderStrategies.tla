------------------------ MODULE MCProviderStrategies ------------------------
(***************************************************************************)
(* An instance of ProviderStrategies: kubeconfigs for two servers, one     *)
(* that cannot be read, one of no client, one that is not of kcp.          *)
(***************************************************************************)
EXTENDS ProviderStrategies

File(server, workspace) ==
    [readable |-> TRUE, valid |-> TRUE, server |-> server,
     workspace |-> workspace]

MCFiles ==
    { File("east", "root"), File("west", "root"), File("west", ""),
      [File("east", "root") EXCEPT !.readable = FALSE],
      [File("west", "root") EXCEPT !.valid = FALSE] }
=============================================================================
