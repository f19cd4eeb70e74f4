------------------------------ MODULE MCMonitor ------------------------------
(* Monitor on small instances: the .cfg files choose the processes, the     *)
(* ABIs, the datagrams and which calls may fail.                            *)
EXTENDS Monitor, TLC

PidSymmetry == Permutations(Pids)
=============================================================================
