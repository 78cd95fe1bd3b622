-------------------------- MODULE MCProgressDeadline --------------------------
(* Durations for checking ProgressDeadline are given in the configuration. *)
EXTENDS ProgressDeadline

=============================================================================
