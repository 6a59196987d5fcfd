---------------------------- MODULE MCCaseGraph -----------------------------
(* CaseGraph with requests and networks on both sides of the hop cap. *)
EXTENDS CaseGraph

MCHopRequests == {-1, 2, 60}
MCReaches == {0, 1, 60}
=============================================================================
