---------------------------- MODULE MCRelayShutdown ----------------------------
(* The admin clients for checking RelayShutdown are given in the           *)
(* configuration.                                                          *)
EXTENDS RelayShutdown

=============================================================================
