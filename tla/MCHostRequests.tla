--------------------------- MODULE MCHostRequests ---------------------------
(* A small instance of HostRequests for TLC. *)
EXTENDS HostRequests
=============================================================================
