-------------------------- MODULE MCResumableSwarm --------------------------
(* A small instance of ResumableSwarm for TLC. *)
EXTENDS ResumableSwarm
=============================================================================
