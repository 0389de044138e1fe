------------------------------ MODULE MCPidFile ------------------------------
(* Three daemon processes share one pid file; they are interchangeable.    *)
EXTENDS PidFile, TLC

Perms == Permutations(Procs)
=============================================================================
