---------------------------- MODULE CaseHistory -----------------------------
(***************************************************************************)
(* The persistent case graph shared by the runs of every subject: a row    *)
(* per case, and a row per entity the case touched.  A run opens by asking *)
(* the store what it knows of the subject and ends by recording its own    *)
(* case.  Runs of different subjects interleave freely.                    *)
(*                                                                         *)
(* open_context asks one SELECT at a time outside any transaction, so each *)
(* question is a step; record_case is one transaction, so one step.  A     *)
(* case id is derived from its subject, so the subject stands for it.  A   *)
(* counterparty row is keyed by the uid it names, every other row by an    *)
(* entity (device, KYC document, address) the evidence ties to a subject.  *)
(* Every run walks to a hop cap of its own, so what a rerun of a case      *)
(* reaches, and records in place of what was there, may be less than       *)
(* before.  Two runs of one subject at once are the matter of CaseRuns.    *)
(***************************************************************************)
EXTENDS Naturals, Sequences, FiniteSets

CONSTANTS
    Subjects,  \* that cases are run on
    Entities,  \* devices, KYC documents and addresses
    Depths,    \* the hop caps runs walk to
    MaxRuns    \* bound: runs started

ASSUME CaseHistoryAssumption ==
    /\ Subjects \cap Entities = {}
    /\ Depths \subseteq Nat
    /\ MaxRuns \in Nat

VARIABLES
    own,            \* own[s]: the entities of s in the evidence
    reached,        \* reached[s][d]: reached_account_uids of s's expansion to d hops
    cases,          \* cases[s]: the row of case_s, or NoRow
    case_entities,  \* the rows <<case, key>>
    log,            \* log[s]: the chain in s's case directory
    at,             \* at[s]: the point of s's run, or "idle"
    todo,           \* todo[s]: entities open_context has not asked about
    prior,          \* prior[s]: the prior cases it was told of
    overlaps,       \* overlaps[s]: the <<key, case>> it was told of
    depths,         \* depths[r]: the hop cap of run r, of those started
    known           \* history: known[s]: what was on record while s's run read

evidence == <<own, reached>>
store == <<cases, case_entities>>
view == <<prior, overlaps>>
vars == <<own, reached, cases, case_entities, log, at, todo, prior, overlaps, depths, known>>

\* run = 0: no run has written it
NoRow == [run |-> 0, count |-> 0]
NoChain == [run |-> 0, length |-> 0]

\* The cases recorded when the reading began, and those whose row named the
\* subject as a counterparty at every moment of it, and at some moment.
Nothing == [cases |-> {}, always |-> {}, ever |-> {}]
Points == {"idle", "prior", "ask", "flag", "record", "recorded"}

TypeOK ==
    /\ own \in [Subjects -> SUBSET Entities]
    /\ reached \in [Subjects -> [Depths -> SUBSET Subjects]]
    /\ cases \in [Subjects -> [run : 0..MaxRuns, count : 0..1]]
    /\ case_entities \subseteq Subjects \X (Entities \cup Subjects)
    /\ log \in [Subjects -> [run : 0..MaxRuns, length : 0..2]]
    /\ at \in [Subjects -> Points]
    /\ todo \in [Subjects -> SUBSET Entities]
    /\ prior \in [Subjects -> SUBSET Subjects]
    /\ overlaps \in [Subjects -> SUBSET ((Entities \cup Subjects) \X Subjects)]
    /\ depths \in Seq(Depths) /\ Len(depths) <= MaxRuns
    /\ known \in [Subjects -> [cases : SUBSET Subjects, always : SUBSET Subjects,
                               ever : SUBSET Subjects]]

\* a walk to more hops reaches no less
Reaching == {r \in [Subjects -> [Depths -> SUBSET Subjects]] :
    \A s \in Subjects, d \in Depths :
        s \in r[s][d] /\ \A e \in Depths : d <= e => r[s][d] \subseteq r[s][e]}

Init ==
    /\ own \in [Subjects -> SUBSET Entities]
    /\ reached \in Reaching
    /\ cases = [s \in Subjects |-> NoRow]
    /\ case_entities = {}
    /\ log = [s \in Subjects |-> NoChain]
    /\ at = [s \in Subjects |-> "idle"]
    /\ todo = [s \in Subjects |-> {}]
    /\ prior = [s \in Subjects |-> {}]
    /\ overlaps = [s \in Subjects |-> {}]
    /\ depths = << >>
    /\ known = [s \in Subjects |-> Nothing]
-----------------------------------------------------------------------------
has_case(s) == cases[s] # NoRow
Recorded == {s \in Subjects : has_case(s)}

\* what the run that last recorded the case of c reached
LastReached(c) == reached[c][depths[cases[c].run]]
Naming(s) == {c \in Recorded \ {s} : s \in LastReached(c)}

subject_entities(s, counterparties) == own[s] \cup (counterparties \ {s})

Goto(s, from, to) == at[s] = from /\ at' = [at EXCEPT ![s] = to]
Stamp(s) == log' = [log EXCEPT ![s] = [run |-> @.run, length |-> @.length + 1]]

\* A caller chooses the hops.  The chain of the last run is unlinked before the
\* store is opened.
Start(s) ==
    /\ Goto(s, "idle", "prior")
    /\ Len(depths) < MaxRuns
    /\ \E d \in Depths : depths' = Append(depths, d)
    /\ log' = [log EXCEPT ![s] = [run |-> Len(depths) + 1, length |-> 0]]
    /\ known' = [known EXCEPT ![s] = [cases |-> Recorded, always |-> Naming(s), ever |-> Naming(s)]]
    /\ UNCHANGED <<evidence, store, todo, view>>

\* WHERE subject_uid = ? AND case_id != ?
PriorCases(s) == {c \in Recorded : c = s /\ c # s}

MutHits(s, key) == {c \in Subjects : <<c, key>> \in case_entities}
\* WHERE kind = ? AND key = ? AND case_id != ?
Hits(s, key) == {c \in Subjects \ {s} : <<c, key>> \in case_entities}
Note(s, key) == overlaps' = [overlaps EXCEPT ![s] = @ \cup ({key} \X Hits(s, key))]

ReadPrior(s) ==
    /\ Goto(s, "prior", "ask")
    /\ prior' = [prior EXCEPT ![s] = PriorCases(s)]
    /\ todo' = [todo EXCEPT ![s] = subject_entities(s, {})]
    /\ UNCHANGED <<evidence, store, log, overlaps, depths, known>>

AskEntity(s, e) ==
    /\ at[s] = "ask"
    /\ e \in todo[s]
    /\ Note(s, e)
    /\ todo' = [todo EXCEPT ![s] = @ \ {e}]
    /\ UNCHANGED <<evidence, store, log, at, prior, depths, known>>

AskNamed(s) ==
    /\ todo[s] = {}
    /\ Goto(s, "ask", "flag")
    /\ Note(s, s)
    /\ UNCHANGED <<evidence, store, log, todo, prior, depths, known>>

\* recidivism_flagged or history_clear, with the number of overlaps; the
\* stamps of the case's body are left out
StampHistory(s) ==
    /\ Goto(s, "flag", "record")
    /\ Stamp(s)
    /\ UNCHANGED <<evidence, store, todo, view, depths, known>>

MutUpsert(s, row) == IF has_case(s) THEN cases[s] ELSE row
Upsert(s, row) == row
\* Mutant: rows are inserted or ignored, none deleted.
MutCleared(s) == case_entities
Cleared(s) == {row \in case_entities : row[1] # s}

\* the readings under way remember whom the rows named before and after
Remember == known' = [s \in Subjects |->
    IF at[s] \in {"prior", "ask"}
    THEN [cases  |-> known[s].cases,
          always |-> known[s].always \cap Naming(s)',
          ever   |-> known[s].ever \cup Naming(s)']
    ELSE known[s]]

\* One transaction: the case row, and its entity rows replaced.
RecordCase(s) ==
    /\ Goto(s, "record", "recorded")
    /\ cases' = [cases EXCEPT ![s] = Upsert(s, [run |-> log[s].run, count |-> log[s].length])]
    /\ case_entities' = Cleared(s)
           \cup ({s} \X subject_entities(s, reached[s][depths[log[s].run]]))
    /\ UNCHANGED <<evidence, log, todo, view, depths>>
    /\ Remember

\* The run is over; what it read goes with it.
Leave(s) ==
    /\ at' = [at EXCEPT ![s] = "idle"]
    /\ todo' = [todo EXCEPT ![s] = {}]
    /\ prior' = [prior EXCEPT ![s] = {}]
    /\ overlaps' = [overlaps EXCEPT ![s] = {}]
    /\ known' = [known EXCEPT ![s] = Nothing]

StampRecorded(s) ==
    /\ at[s] = "recorded"
    /\ Leave(s)
    /\ Stamp(s)
    /\ UNCHANGED <<evidence, store, depths>>

\* The run dies: its transaction, if it was in one, is rolled back.
Die(s) ==
    /\ at[s] # "idle"
    /\ Leave(s)
    /\ UNCHANGED <<evidence, store, log, depths>>

Next == \E s \in Subjects :
    \/ Start(s)
    \/ ReadPrior(s)
    \/ \E e \in Entities : AskEntity(s, e)
    \/ AskNamed(s)
    \/ StampHistory(s)
    \/ RecordCase(s)
    \/ StampRecorded(s)
    \/ Die(s)

Spec == Init /\ [][Next]_vars
-----------------------------------------------------------------------------
\* A view is read over several steps while other runs record, and a shallow
\* rerun takes off the record whom a deep one had reached.  Once complete the
\* view names every entity shared with a case that was on record when the run
\* opened, whatever reruns did since; every case whose row named the subject
\* all the while it read; and nothing that was never on record meanwhile, nor
\* the subject's own case.
HistoryIsRead == \A s \in Subjects : at[s] \in {"flag", "record", "recorded"} =>
    /\ \A c \in known[s].cases \ {s} : (own[s] \cap own[c]) \X {c} \subseteq overlaps[s]
    /\ {s} \X known[s].always \subseteq overlaps[s]
    /\ \A t \in overlaps[s] :
           /\ t[2] \in Recorded \ {s}
           /\ t[1] \in own[s] \cap own[t[2]] \/ (t[1] = s /\ t[2] \in known[s].ever)

\* The entity rows of a case are those of one run of it, the run its case row
\* is of, and just what that run alone would write into an empty store:
\* neither the reruns before it, deeper or shallower, nor the runs beside it,
\* nor those that died have left or taken a row.
StoreIsOfLastRuns ==
    case_entities = {t \in Recorded \X (Entities \cup Subjects) :
                        t[2] \in own[t[1]] \cup (LastReached(t[1]) \ {t[1]})}

\* A chain that ends in case_recorded is the chain the row of its case pins,
\* by the run that wrote it and the records it had then.
PinIsOnDisk == \A s \in Subjects : log[s].length = 2 =>
    cases[s] = [run |-> log[s].run, count |-> 1]

=============================================================================
