----------------------------- MODULE MCLifecycle -----------------------------
(* Instances of Lifecycle for TLC: commands and circumstances. *)
EXTENDS Lifecycle

All == {"start", "stop", "restart", "start_wd", "stop_wd"}

Worlds == {{}, {"crash"}, {"watchdog"}, {"watchdog", "crash", "flush"}}
Guarded == {{"watchdog"}}

=============================================================================
