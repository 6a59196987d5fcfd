--------------------------- MODULE MCCaseHistory ----------------------------
(***************************************************************************)
(* Subjects, and an entity any of them may share; every expansion that     *)
(* reaches no less at two hops than at one.                                *)
(***************************************************************************)
EXTENDS CaseHistory, TLC

Symmetry == Permutations(Subjects) \cup Permutations(Entities)
=============================================================================
