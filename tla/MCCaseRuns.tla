----------------------------- MODULE MCCaseRuns -----------------------------
(* CaseRuns with two sessions, three runs and one stage record. *)
EXTENDS CaseRuns, TLC

Lone == {s \in Active : run[s] \notin mixed}

Recorded == {"recorded", "readback", "verify"}
Packaged == Recorded \cup {"stamp", "tip", "upsert"}

(***************************************************************************)
(* The log and the runs.  Of the other two files, what a step may still    *)
(* read (WriteEnd, whether the package is torn; an upsert, whether there   *)
(* is a row) and what the properties ask for: what a run that nothing      *)
(* overlapped has written.  Left out are earlier results and who           *)
(* overlapped a run that is over.                                          *)
(***************************************************************************)
RunView ==
    <<disk, runs, Lone, at, run, count, tail, snap, pkg,
      \E s \in Active : at[s] = "writing" /\ pkgFile = Torn,
      IF \E s \in Lone : at[s] \in Packaged THEN pkgFile ELSE NoPackage,
      IF \E s \in Lone : at[s] \in Recorded THEN store ELSE {},
      store = {}>>

SessionSymmetry == Permutations(Sessions)
=============================================================================
