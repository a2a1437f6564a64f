-------------------------- MODULE MCEngineLifecycle --------------------------
(* One client, one restart of the shell, a hook that may be slow.               *)
EXTENDS EngineLifecycle

MCOp == {"get_state", "apply", "open_settings", "shutdown"}
MCSlow == {"hook"}
=============================================================================
