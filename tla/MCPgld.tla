-------------------------------- MODULE MCPgld --------------------------------
(* Instances of Pgld for TLC: the signals of a run. *)
EXTENDS Pgld

All == {"USR1", "HUP", "TERM", "INT"}
ReloadOnly == {"HUP"}

=============================================================================
