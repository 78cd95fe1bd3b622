-------------------------- MODULE MCRequestLifecycle --------------------------
(* The requests and the sizes for checking RequestLifecycle are given in   *)
(* the configuration.                                                      *)
EXTENDS RequestLifecycle

=============================================================================
