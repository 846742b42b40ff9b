------------------------------ MODULE MCRunLock ------------------------------
(* Small instances of RunLock for TLC. *)
EXTENDS RunLock, TLC

\* Processes of this host can be exchanged.
HostSymmetry == Permutations(Procs \ Remote)
=============================================================================
