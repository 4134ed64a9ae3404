-------------------------- MODULE MCSandboxRuntime --------------------------
(* One box of one worker; the constants are given in the configurations. *)
EXTENDS SandboxRuntime

NoExposure == {}
AbortWhilePreparing == {"abort"}
=============================================================================
