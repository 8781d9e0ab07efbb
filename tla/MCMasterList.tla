----------------------------- MODULE MCMasterList -----------------------------
(* Instances of MasterList for TLC: commands, and what may happen to them. *)
EXTENDS MasterList

All == {"restart", "update", "force-update"}
StartAndUpdate == {"start", "update"}

Calm == {{}}
Failing == {{"failure"}}
Trouble == {{"death"}, {"tear"}, {"failure", "rotation"}}

=============================================================================
