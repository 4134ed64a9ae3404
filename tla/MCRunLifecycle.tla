--------------------------- MODULE MCRunLifecycle ---------------------------
(* One run; the constants are given in the configurations. *)
EXTENDS RunLifecycle
=============================================================================
