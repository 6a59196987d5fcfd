------------------------------ MODULE CaseLife ------------------------------
(***************************************************************************)
(* What one run of a case promises, whatever its stages do: a disposition  *)
(* is settled once, and only then published, first as the case package,    *)
(* then as the case's row in the case graph.  A run may stop anywhere; it  *)
(* then leaves at most the artifact it was writing.                        *)
(***************************************************************************)
CONSTANTS
    Dispositions,  \* what a case may be settled as
    Undecided      \* no disposition

VARIABLES
    phase,        \* how far the run has come
    disposition,  \* what it is settled as
    package,      \* the disposition in the package it published
    row           \* the disposition in the row it published

lifeVars == <<phase, disposition, package, row>>

Phases == {"open", "settled", "packaged", "recorded", "closed", "aborted"}

LifeInit ==
    /\ phase = "open"
    /\ disposition = Undecided /\ package = Undecided /\ row = Undecided

Settle ==
    /\ phase = "open" /\ phase' = "settled"
    /\ disposition' \in Dispositions
    /\ UNCHANGED <<package, row>>

Publish ==
    /\ phase = "settled" /\ phase' = "packaged"
    /\ package' = disposition
    /\ UNCHANGED <<disposition, row>>

Record ==
    /\ phase = "packaged" /\ phase' = "recorded"
    /\ row' = disposition
    /\ UNCHANGED <<disposition, package>>

Close ==
    /\ phase = "recorded" /\ phase' = "closed"
    /\ UNCHANGED <<disposition, package, row>>

\* The run stops; the artifact of the phase it was in may be out already.
Abort ==
    /\ phase \notin {"closed", "aborted"} /\ phase' = "aborted"
    /\ package' = package \/ (phase = "settled" /\ package' = disposition)
    /\ row' = row \/ (phase = "packaged" /\ row' = disposition)
    /\ UNCHANGED disposition

LifeNext == Settle \/ Publish \/ Record \/ Close \/ Abort

LifeSpec == LifeInit /\ [][LifeNext]_lifeVars
=============================================================================
