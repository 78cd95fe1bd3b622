------------------------------ MODULE MCSseWriter ------------------------------
(* The number of frames for checking SseWriter is given in the             *)
(* configuration.                                                          *)
EXTENDS SseWriter

=============================================================================
