------------------------------- MODULE MCCli --------------------------------
(* Two clients and two to five free descriptors: the backups of both, of   *)
(* the first client, or only one of them finds one.*)
EXTENDS Cli

CONSTANTS a, b

MCMaxSent == (a :> 2) @@ (b :> 1)
=============================================================================
