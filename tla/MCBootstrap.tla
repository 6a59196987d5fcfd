---------------------------- MODULE MCBootstrap -----------------------------
(* Bootstrap with two tables; one process boots alone, two or more overlap. *)
EXTENDS Bootstrap, TLC

ProcessSymmetry == Permutations(Processes)
TableSymmetry == Permutations(Tables)
BootSymmetry == ProcessSymmetry \cup TableSymmetry
=============================================================================
