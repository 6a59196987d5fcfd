--------------------------- MODULE CaseEndsProofs ---------------------------
(***************************************************************************)
(* The two ends of a case.                                                 *)
(*                                                                         *)
(* Its opening (CaseHistory): what the case graph holds and what an        *)
(* opening case is told of it, for any subjects, any evidence and any      *)
(* interleaving of runs.  HistoryIsRead speaks of complete views only; the *)
(* invariant adds what a half-read view already holds, and which row the   *)
(* chain of a run on its way has earned.                                   *)
(*                                                                         *)
(* Its close (CaseDrafting): when a claim of the answer is contradicted,   *)
(* what the subject is then asked, when the draft is refused and what is   *)
(* left for a human, for any tables and any bound on the passes.  The      *)
(* invariant, DraftInv, says that the adjudications, the questions and the *)
(* draft of every stage are the functions of the tables they are computed  *)
(* by, and that one revision pass fills all that can be filled; what those *)
(* functions return is the matter of the lemmas, and so is that the graph  *)
(* of the expansion holds the evidence the properties read off the tables. *)
(***************************************************************************)
EXTENDS CaseHistory, CaseDrafting, ProofLemmas

\* A case on record was written by a run that was started, and so was the chain
\* of a run under way.
RunInv == \A s \in Subjects :
    /\ s \in Recorded => cases[s].run \in DOMAIN depths
    /\ at[s] # "idle" => log[s].run \in DOMAIN depths

\* A view, half-read or complete, claims nothing the store did not hold while
\* it was read, and a question already asked has been answered for the cases
\* known at the start.
View(s) ==
    /\ known[s].cases \subseteq Recorded
    /\ todo[s] \subseteq own[s]
    /\ \A t \in overlaps[s] :
           /\ t[2] \in Recorded \ {s}
           /\ t[1] \in own[s] \cap own[t[2]] \/ (t[1] = s /\ t[2] \in known[s].ever)
    /\ at[s] \in {"prior", "ask"} =>
           known[s].always \subseteq Naming(s) /\ Naming(s) \subseteq known[s].ever
    /\ at[s] = "ask" => \A c \in known[s].cases \ {s}, k \in own[s] :
           k \in own[c] \ todo[s] => <<k, c>> \in overlaps[s]
    /\ at[s] \in {"flag", "record", "recorded"} =>
           /\ \A c \in known[s].cases \ {s} : (own[s] \cap own[c]) \X {c} \subseteq overlaps[s]
           /\ {s} \X known[s].always \subseteq overlaps[s]
ViewInv == \A s \in Subjects : View(s)

\* A subject at rest has read nothing.
Rested == \A s \in Subjects : at[s] = "idle" => todo[s] = {} /\ overlaps[s] = {}

\* The chain of a run and the row it has written.
PinInv == \A s \in Subjects :
    /\ at[s] \in {"prior", "ask", "flag"} => log[s].length = 0
    /\ at[s] \in {"record", "recorded"} => log[s].length = 1
    /\ log[s].length = 2 => at[s] = "idle"
    /\ (at[s] = "recorded" \/ log[s].length = 2) => cases[s] = [run |-> log[s].run, count |-> 1]

IInv == TypeOK /\ RunInv /\ StoreIsOfLastRuns /\ ViewInv /\ PinInv /\ Rested

\* What one query returns when the store is the one its cases make it.
LEMMA HitsAreShared ==
    ASSUME TypeOK, RunInv, StoreIsOfLastRuns, NEW s \in Subjects, NEW k \in own[s]
    PROVE  Hits(s, k) = {c \in Recorded \ {s} : k \in own[c]}
<1>1. k \in Entities /\ k \notin Subjects
  BY CaseHistoryAssumption DEF TypeOK
<1>2. Recorded \subseteq Subjects
  BY DEF Recorded
<1>3. \A c \in Recorded : LastReached(c) \subseteq Subjects
  BY <1>2 DEF LastReached, RunInv, TypeOK
<1>4. \A c \in Subjects : <<c, k>> \in case_entities <=> c \in Recorded /\ k \in own[c]
  BY <1>1, <1>2, <1>3 DEF StoreIsOfLastRuns
<1> QED
  BY <1>2, <1>4 DEF Hits

LEMMA HitsAreNamings ==
    ASSUME TypeOK, RunInv, StoreIsOfLastRuns, NEW s \in Subjects
    PROVE  Hits(s, s) = Naming(s)
<1>1. Recorded \subseteq Subjects
  BY DEF Recorded
<1>2. \A c \in Subjects : s \notin own[c]
  BY CaseHistoryAssumption DEF TypeOK
<1>3. \A c \in Subjects \ {s} : <<c, s>> \in case_entities <=> c \in Recorded /\ s \in LastReached(c)
  BY <1>1, <1>2 DEF StoreIsOfLastRuns
<1> QED
  BY <1>1, <1>3 DEF Hits, Naming

\* What a step can do to a case on record: record it again, nothing else.
LEMMA CasesStay ==
    ASSUME TypeOK, RunInv, PinInv, [Next]_vars
    PROVE  /\ own' = own /\ reached' = reached
           /\ \A r \in DOMAIN depths : r \in DOMAIN depths' /\ depths'[r] = depths[r]
           /\ Recorded \subseteq Recorded'
           /\ \A c \in Recorded : cases'[c] = cases[c] => LastReached(c)' = LastReached(c)
           /\ cases' = cases => /\ Recorded' = Recorded
                                /\ \A s : Naming(s)' = Naming(s)
<1> USE DEF evidence, store, view
<1>1. own' = own /\ reached' = reached
  BY DEF Next, vars, Start, ReadPrior, AskEntity, AskNamed, StampHistory,
     RecordCase, StampRecorded, Die
<1>2. \A r \in DOMAIN depths : r \in DOMAIN depths' /\ depths'[r] = depths[r]
  <2>1. ASSUME NEW s \in Subjects, NEW d \in Depths, depths' = Append(depths, d)
        PROVE  \A r \in DOMAIN depths : r \in DOMAIN depths' /\ depths'[r] = depths[r]
    BY <2>1 DEF TypeOK
  <2> QED
    BY <2>1 DEF Next, vars, Start, ReadPrior, AskEntity, AskNamed, StampHistory,
       RecordCase, StampRecorded, Die
<1>3. Recorded \subseteq Recorded'
  <2>1. ASSUME NEW q \in Subjects, RecordCase(q) PROVE Recorded \subseteq Recorded'
    <3>1. log[q].length = 1
      BY <2>1 DEF RecordCase, Goto, PinInv
    <3>2. \A c \in Subjects : cases[c] # NoRow => cases'[c] # NoRow
      BY <2>1, <3>1 DEF RecordCase, Upsert, NoRow, TypeOK
    <3> QED BY <3>2 DEF Recorded, has_case
  <2>2. ASSUME cases' = cases PROVE Recorded \subseteq Recorded'
    BY <2>2 DEF Recorded, has_case
  <2> QED BY <2>1, <2>2 DEF Next, vars, Start, ReadPrior, AskEntity, AskNamed,
          StampHistory, StampRecorded, Die
<1>4. ASSUME NEW c \in Recorded, cases'[c] = cases[c] PROVE LastReached(c)' = LastReached(c)
  <2>1. cases[c].run \in DOMAIN depths
    BY DEF RunInv, Recorded
  <2> QED
    BY <1>1, <1>2, <1>4, <2>1 DEF LastReached
<1>5. ASSUME cases' = cases
      PROVE  Recorded' = Recorded /\ \A s : Naming(s)' = Naming(s)
  <2>1. Recorded' = Recorded
    BY <1>5 DEF Recorded, has_case
  <2>2. \A c \in Recorded : LastReached(c)' = LastReached(c)
    BY <1>4, <1>5
  <2> QED
    BY <2>1, <2>2 DEF Naming
<1> QED
  BY <1>1, <1>2, <1>3, <1>4, <1>5

\* What a reading under way remembers when a case is recorded.
LEMMA Remembered ==
    ASSUME Remember, NEW s \in Subjects
    PROVE  known'[s] = IF at[s] \in {"prior", "ask"}
                       THEN [cases  |-> known[s].cases,
                             always |-> known[s].always \cap Naming(s)',
                             ever   |-> known[s].ever \cup Naming(s)']
                       ELSE known[s]
<1> DEFINE N(q) == Naming(q)'
<1>1. known' = [q \in Subjects |-> IF at[q] \in {"prior", "ask"}
                                   THEN [cases  |-> known[q].cases,
                                         always |-> known[q].always \cap N(q),
                                         ever   |-> known[q].ever \cup N(q)]
                                   ELSE known[q]]
  BY DEF Remember
<1> HIDE DEF N
<1>2. known'[s] = IF at[s] \in {"prior", "ask"}
                  THEN [cases  |-> known[s].cases, always |-> known[s].always \cap N(s),
                        ever   |-> known[s].ever \cup N(s)]
                  ELSE known[s]
  BY <1>1
<1> QED
  BY <1>2 DEF N

\* Types hold at first.
LEMMA TypeInit == Init => TypeOK
BY CaseHistoryAssumption DEF Init, Reaching, TypeOK, NoRow, NoChain, Nothing, Points

\* Every step keeps the types, given what the pins say of lengths.
LEMMA TypeStep == TypeOK /\ RunInv /\ PinInv /\ [Next]_vars => TypeOK'
<1> SUFFICES ASSUME TypeOK, RunInv, PinInv, [Next]_vars PROVE TypeOK'
  OBVIOUS
<1> USE CaseHistoryAssumption DEF TypeOK, evidence, store, view
<1>0. /\ Recorded \subseteq Subjects
      /\ \A q \in Subjects : Naming(q) \subseteq Subjects
  BY DEF Recorded, Naming
<1>1. ASSUME NEW s \in Subjects, Start(s) PROVE TypeOK'
  <2>1. depths' \in Seq(Depths) /\ Len(depths') = Len(depths) + 1 /\ Len(depths) + 1 \in 0..MaxRuns
    BY <1>1 DEF Start
  <2>2. log' \in [Subjects -> [run : 0..MaxRuns, length : 0..2]]
    BY <1>1, <2>1 DEF Start
  <2>3. at' \in [Subjects -> Points]
    BY <1>1 DEF Start, Goto, Points
  <2>4. known' \in [Subjects -> [cases : SUBSET Subjects, always : SUBSET Subjects,
                                 ever : SUBSET Subjects]]
    BY <1>0, <1>1 DEF Start
  <2> QED BY <1>1, <2>1, <2>2, <2>3, <2>4 DEF Start
<1>2. ASSUME NEW s \in Subjects, ReadPrior(s) PROVE TypeOK'
  <2>1. PriorCases(s) \in SUBSET Subjects
    BY DEF PriorCases, Recorded
  <2>2. subject_entities(s, {}) \in SUBSET Entities
    BY DEF subject_entities
  <2> QED BY <1>2, <2>1, <2>2 DEF ReadPrior, Goto, Points
<1>3. ASSUME NEW s \in Subjects, NEW k \in Entities \cup Subjects, Note(s, k)
      PROVE  overlaps' \in [Subjects -> SUBSET ((Entities \cup Subjects) \X Subjects)]
  <2>1. {k} \X Hits(s, k) \subseteq (Entities \cup Subjects) \X Subjects
    BY DEF Hits
  <2>2. overlaps[s] \cup ({k} \X Hits(s, k)) \in SUBSET ((Entities \cup Subjects) \X Subjects)
    BY <2>1
  <2> QED BY <1>3, <2>2 DEF Note
<1>4. ASSUME NEW s \in Subjects, NEW e \in Entities, AskEntity(s, e) PROVE TypeOK'
  <2>1. overlaps' \in [Subjects -> SUBSET ((Entities \cup Subjects) \X Subjects)]
    BY <1>3, <1>4 DEF AskEntity
  <2> QED BY <1>4, <2>1 DEF AskEntity
<1>5. ASSUME NEW s \in Subjects, AskNamed(s) PROVE TypeOK'
  <2>1. overlaps' \in [Subjects -> SUBSET ((Entities \cup Subjects) \X Subjects)]
    BY <1>3, <1>5 DEF AskNamed
  <2> QED BY <1>5, <2>1 DEF AskNamed, Goto, Points
<1>6. ASSUME NEW s \in Subjects, StampHistory(s) PROVE TypeOK'
  <2>1. log[s].length = 0
    BY <1>6 DEF StampHistory, Goto, PinInv
  <2> QED BY <1>6, <2>1 DEF StampHistory, Goto, Stamp, Points
<1>7. ASSUME NEW s \in Subjects, RecordCase(s) PROVE TypeOK'
  <2>1. log[s].length = 1 /\ log[s].run \in DOMAIN depths
    BY <1>7 DEF RecordCase, Goto, PinInv, RunInv
  <2>2. cases' \in [Subjects -> [run : 0..MaxRuns, count : 0..1]]
    BY <1>7, <2>1 DEF RecordCase, Upsert
  <2>3. subject_entities(s, reached[s][depths[log[s].run]]) \subseteq Entities \cup Subjects
    <3>1. depths[log[s].run] \in Depths
      BY <2>1
    <3>2. reached[s] \in [Depths -> SUBSET Subjects]
      OBVIOUS
    <3>3. reached[s][depths[log[s].run]] \subseteq Subjects
      BY <3>1, <3>2
    <3> QED BY <3>3 DEF subject_entities
  <2>4. case_entities' \subseteq Subjects \X (Entities \cup Subjects)
    BY <1>7, <2>3 DEF RecordCase, Cleared
  <2>5. known' \in [Subjects -> [cases : SUBSET Subjects, always : SUBSET Subjects,
                                 ever : SUBSET Subjects]]
    <3>1. \A q \in Subjects : Naming(q)' \subseteq Subjects
      BY DEF Naming, Recorded
    <3>2. ASSUME NEW q \in Subjects
          PROVE  known'[q] \in [cases : SUBSET Subjects, always : SUBSET Subjects,
                               ever : SUBSET Subjects]
      <4>1. Remember
        BY <1>7 DEF RecordCase
      <4>2. known[q] \in [cases : SUBSET Subjects, always : SUBSET Subjects,
                          ever : SUBSET Subjects]
        OBVIOUS
      <4>3. CASE at[q] \in {"prior", "ask"}
        <5>1. known'[q] = [cases  |-> known[q].cases,
                           always |-> known[q].always \cap Naming(q)',
                           ever   |-> known[q].ever \cup Naming(q)']
          BY <4>1, <4>3, Remembered
        <5>2. /\ known[q].always \cap Naming(q)' \in SUBSET Subjects
              /\ known[q].ever \cup Naming(q)' \in SUBSET Subjects
          BY <3>1, <4>2
        <5> QED BY <4>2, <5>1, <5>2
      <4>4. CASE at[q] \notin {"prior", "ask"}
        <5>1. known'[q] = known[q]
          BY <4>1, <4>4, Remembered
        <5> QED BY <4>2, <5>1
      <4> QED BY <4>3, <4>4
    <3>3. known' = [q \in Subjects |-> known'[q]]
      BY <1>7 DEF RecordCase, Remember
    <3> QED BY <3>2, <3>3
  <2> QED BY <1>7, <2>2, <2>4, <2>5 DEF RecordCase, Goto, Points
<1>8. ASSUME NEW s \in Subjects, Leave(s)
      PROVE  /\ at' \in [Subjects -> Points]
             /\ todo' \in [Subjects -> SUBSET Entities]
             /\ prior' \in [Subjects -> SUBSET Subjects]
             /\ overlaps' \in [Subjects -> SUBSET ((Entities \cup Subjects) \X Subjects)]
             /\ known' \in [Subjects -> [cases : SUBSET Subjects, always : SUBSET Subjects,
                                         ever : SUBSET Subjects]]
  BY <1>8 DEF Leave, Points, Nothing
<1>9. ASSUME NEW s \in Subjects, StampRecorded(s) PROVE TypeOK'
  <2>1. log[s].length = 1
    BY <1>9 DEF StampRecorded, PinInv
  <2> QED BY <1>8, <1>9, <2>1 DEF StampRecorded, Stamp
<1>10. ASSUME NEW s \in Subjects, Die(s) PROVE TypeOK'
  BY <1>8, <1>10 DEF Die
<1>11. CASE UNCHANGED vars
  BY <1>11 DEF vars
<1> QED
  BY <1>1, <1>2, <1>4, <1>5, <1>6, <1>7, <1>9, <1>10, <1>11 DEF Next

\* Runs that wrote a row or hold a chain stay started runs.
LEMMA RunStep == TypeOK /\ RunInv /\ PinInv /\ [Next]_vars => RunInv'
<1> SUFFICES ASSUME TypeOK, RunInv, PinInv, [Next]_vars PROVE RunInv'
  OBVIOUS
<1> USE DEF evidence, store, view
<1>0. ASSUME NEW s \in Subjects, log' = log \/ Stamp(s)
      PROVE  \A q \in Subjects : log'[q].run = log[q].run
  <2>1. log \in [Subjects -> [run : 0..MaxRuns, length : 0..2]]
    BY DEF TypeOK
  <2>2. ASSUME Stamp(s), NEW q \in Subjects PROVE log'[q].run = log[q].run
    <3>1. CASE q = s
      BY <2>1, <2>2, <3>1 DEF Stamp
    <3>2. CASE q # s
      BY <2>1, <2>2, <3>2 DEF Stamp
    <3> QED BY <3>1, <3>2
  <2> QED BY <1>0, <2>2
<1>1. \A r \in DOMAIN depths : r \in DOMAIN depths'
  BY CasesStay
<1>2. ASSUME cases' = cases PROVE \A s \in Subjects : s \in Recorded' => cases'[s].run \in DOMAIN depths'
  BY <1>1, <1>2 DEF Recorded, has_case, RunInv
<1>3. ASSUME NEW s \in Subjects, Start(s) PROVE RunInv'
  <2>1. cases' = cases
    BY <1>3 DEF Start
  <2>2. Len(depths) + 1 \in DOMAIN depths'
    BY <1>3 DEF Start, TypeOK
  <2>3. \A q \in Subjects : at'[q] # "idle" => log'[q].run \in DOMAIN depths'
    BY <1>1, <1>3, <2>2 DEF Start, Goto, RunInv, TypeOK
  <2> QED BY <1>2, <2>1, <2>3 DEF RunInv
<1>4. ASSUME NEW s \in Subjects, RecordCase(s) PROVE RunInv'
  <2>1. \A q \in Subjects : at'[q] # "idle" => log'[q].run \in DOMAIN depths'
    BY <1>1, <1>4 DEF RecordCase, Goto, RunInv, TypeOK
  <2>2. \A q \in Subjects : q \in Recorded' => cases'[q].run \in DOMAIN depths'
    BY <1>1, <1>4 DEF RecordCase, Goto, Upsert, RunInv, TypeOK, Recorded, has_case
  <2> QED BY <2>1, <2>2 DEF RunInv
<1>5. ASSUME cases' = cases,
             \A q \in Subjects : log'[q].run = log[q].run,
             \A q \in Subjects : at'[q] # "idle" => at[q] # "idle"
      PROVE  RunInv'
  BY <1>1, <1>2, <1>5 DEF RunInv
<1>6. ASSUME NEW s \in Subjects,
             \/ ReadPrior(s) \/ AskNamed(s) \/ StampHistory(s)
             \/ \E e \in Entities : AskEntity(s, e)
      PROVE  RunInv'
  <2>1. cases' = cases
    BY <1>6 DEF ReadPrior, AskNamed, AskEntity, StampHistory
  <2>2. \A q \in Subjects : log'[q].run = log[q].run
    <3>1. log' = log \/ Stamp(s)
      BY <1>6 DEF ReadPrior, AskNamed, AskEntity, StampHistory
    <3> QED BY <1>0, <3>1
  <2>3. \A q \in Subjects : at'[q] # "idle" => at[q] # "idle"
    BY <1>6 DEF ReadPrior, AskNamed, AskEntity, StampHistory, Goto, TypeOK
  <2> QED BY <1>5, <2>1, <2>2, <2>3
<1>7. ASSUME NEW s \in Subjects, StampRecorded(s) \/ Die(s) PROVE RunInv'
  <2>1. cases' = cases
    BY <1>7 DEF StampRecorded, Die
  <2>2. \A q \in Subjects : log'[q].run = log[q].run
    <3>1. log' = log \/ Stamp(s)
      BY <1>7 DEF StampRecorded, Die
    <3> QED BY <1>0, <3>1
  <2>3. \A q \in Subjects : at'[q] # "idle" => at[q] # "idle"
    BY <1>7 DEF StampRecorded, Die, Leave, TypeOK
  <2> QED BY <1>5, <2>1, <2>2, <2>3
<1>8. CASE UNCHANGED vars
  BY <1>8 DEF vars, RunInv, Recorded, has_case
<1> QED
  BY <1>3, <1>4, <1>6, <1>7, <1>8 DEF Next

\* The transaction of record_case leaves the entity rows its run calls for.
LEMMA StoreStep == TypeOK /\ RunInv /\ PinInv /\ StoreIsOfLastRuns /\ [Next]_vars => StoreIsOfLastRuns'
<1> SUFFICES ASSUME TypeOK, RunInv, PinInv, StoreIsOfLastRuns, [Next]_vars PROVE StoreIsOfLastRuns'
  OBVIOUS
<1> USE DEF evidence, store, view
<1>0. own' = own /\ Recorded \subseteq Subjects
  BY CasesStay DEF Recorded
<1>1. ASSUME NEW s \in Subjects, RecordCase(s) PROVE StoreIsOfLastRuns'
  <2>1. cases'[s] # NoRow /\ cases'[s].run = log[s].run
    <3>1. log[s].length = 1
      BY <1>1 DEF RecordCase, Goto, PinInv
    <3> QED BY <1>1, <3>1 DEF RecordCase, Upsert, NoRow, TypeOK
  <2>2. \A c \in Subjects \ {s} : cases'[c] = cases[c]
    BY <1>1 DEF RecordCase, TypeOK
  <2>3. Recorded' = Recorded \cup {s}
    BY <2>1, <2>2 DEF Recorded, has_case
  <2>4. \A c \in Recorded \ {s} : LastReached(c)' = LastReached(c)
    BY <1>0, <2>2, CasesStay
  <2>5. LastReached(s)' = reached[s][depths[log[s].run]]
    BY <1>1, <2>1 DEF RecordCase, LastReached
  <2>6. reached[s][depths[log[s].run]] \subseteq Subjects
    <3>1. depths[log[s].run] \in Depths
      BY <1>1 DEF RecordCase, Goto, RunInv, TypeOK
    <3> QED BY <3>1 DEF TypeOK
  <2>7. case_entities' = Cleared(s) \cup ({s} \X (own[s] \cup (LastReached(s)' \ {s})))
    BY <1>1, <2>5 DEF RecordCase, subject_entities
  <2>8. Cleared(s) = {t \in (Recorded \ {s}) \X (Entities \cup Subjects) :
                        t[2] \in own[t[1]] \cup (LastReached(t[1]) \ {t[1]})}
    BY DEF Cleared, StoreIsOfLastRuns
  <2>9. Cleared(s) = {t \in (Recorded \ {s}) \X (Entities \cup Subjects) :
                        t[2] \in own[t[1]] \cup (LastReached(t[1])' \ {t[1]})}
    BY <2>4, <2>8
  <2>10. own[s] \cup (LastReached(s)' \ {s}) \subseteq Entities \cup Subjects
    BY <2>5, <2>6 DEF TypeOK
  <2> QED BY <1>0, <2>3, <2>7, <2>9, <2>10 DEF StoreIsOfLastRuns
<1>2. ASSUME UNCHANGED store PROVE StoreIsOfLastRuns'
  <2>1. Recorded' = Recorded /\ \A c \in Recorded : LastReached(c)' = LastReached(c)
    BY <1>2, CasesStay
  <2> QED BY <1>0, <1>2, <2>1 DEF StoreIsOfLastRuns
<1> QED
  BY <1>1, <1>2 DEF Next, Start, ReadPrior, AskEntity, AskNamed, StampHistory,
     StampRecorded, Die, vars

\* Which row a chain has earned is kept by every step of every run.
LEMMA PinStep == TypeOK /\ PinInv /\ [Next]_vars => PinInv'
<1> SUFFICES ASSUME TypeOK, PinInv, [Next]_vars PROVE PinInv'
  OBVIOUS
<1> USE DEF TypeOK, PinInv, evidence, store, view
<1>1. ASSUME NEW s \in Subjects, Start(s) PROVE PinInv'
  BY <1>1 DEF Start, Goto
<1>2. ASSUME NEW s \in Subjects, ReadPrior(s) PROVE PinInv'
  BY <1>2 DEF ReadPrior, Goto
<1>3. ASSUME NEW s \in Subjects, NEW e \in Entities, AskEntity(s, e) PROVE PinInv'
  BY <1>3 DEF AskEntity
<1>4. ASSUME NEW s \in Subjects, AskNamed(s) PROVE PinInv'
  BY <1>4 DEF AskNamed, Goto
<1>5. ASSUME NEW s \in Subjects, StampHistory(s) PROVE PinInv'
  BY <1>5 DEF StampHistory, Goto, Stamp
<1>6. ASSUME NEW s \in Subjects, RecordCase(s) PROVE PinInv'
  BY <1>6 DEF RecordCase, Goto, Upsert
<1>7. ASSUME NEW s \in Subjects, StampRecorded(s) PROVE PinInv'
  BY <1>7 DEF StampRecorded, Leave, Stamp
<1>8. ASSUME NEW s \in Subjects, Die(s) PROVE PinInv'
  BY <1>8 DEF Die, Leave
<1>9. CASE UNCHANGED vars
  <2>1. at' = at /\ log' = log /\ cases' = cases
    BY <1>9 DEF vars
  <2> QED BY <2>1
<1> HIDE DEF TypeOK, PinInv
<1> QED
  BY <1>1, <1>2, <1>3, <1>4, <1>5, <1>6, <1>7, <1>8, <1>9 DEF Next

\* A run's view stays true while it and the other runs go on: cases are never
\* taken off the record, the reading remembers whom their rows name, and every
\* answer is kept.
LEMMA ViewStep == IInv /\ [Next]_vars => ViewInv'
<1> SUFFICES ASSUME IInv, [Next]_vars, NEW s \in Subjects
             PROVE  View(s)'
  BY DEF ViewInv
<1> USE DEF evidence, store, view
<1>0. TypeOK /\ RunInv /\ PinInv /\ StoreIsOfLastRuns /\ View(s) /\ Rested
  BY DEF IInv, ViewInv
<1>1. own' = own /\ Recorded \subseteq Recorded'
  BY <1>0, CasesStay
<1>2. cases' = cases => Recorded' = Recorded /\ Naming(s)' = Naming(s)
  BY <1>0, CasesStay
<1>3. known[s] \in [cases : SUBSET Subjects, always : SUBSET Subjects, ever : SUBSET Subjects]
  BY <1>0 DEF TypeOK
\* nothing of s's own moves, nor what the rows say
<1>4. ASSUME UNCHANGED <<at[s], todo[s], overlaps[s], known[s]>>, cases' = cases
      PROVE  View(s)'
  BY <1>0, <1>1, <1>2, <1>4 DEF View
<1>5. CASE Start(s)
  <2>1. known'[s] = [cases |-> Recorded, always |-> Naming(s), ever |-> Naming(s)]
        /\ at'[s] = "prior" /\ todo'[s] = todo[s] /\ overlaps'[s] = overlaps[s] /\ cases' = cases
    BY <1>0, <1>5 DEF Start, Goto, TypeOK
  <2>2. todo[s] = {} /\ overlaps[s] = {}
    BY <1>0, <1>5 DEF Start, Goto, Rested
  <2> QED BY <1>1, <1>2, <2>1, <2>2 DEF View
<1>6. CASE ReadPrior(s)
  <2>1. /\ known'[s] = known[s] /\ at'[s] = "ask" /\ todo'[s] = own[s] \cup ({} \ {s})
        /\ overlaps'[s] = overlaps[s] /\ cases' = cases /\ at[s] = "prior"
    BY <1>0, <1>6 DEF ReadPrior, Goto, TypeOK, subject_entities
  <2> QED BY <1>0, <1>1, <1>2, <2>1 DEF View
<1>7. ASSUME NEW e \in Entities, AskEntity(s, e) PROVE View(s)'
  <2>1. e \in own[s] /\ at[s] = "ask"
    BY <1>0, <1>7 DEF AskEntity, View
  <2>2. overlaps'[s] = overlaps[s] \cup ({e} \X {c \in Recorded \ {s} : e \in own[c]})
    BY <1>0, <1>7, <2>1, HitsAreShared DEF AskEntity, Note, TypeOK
  <2>3. known'[s] = known[s] /\ at'[s] = "ask" /\ todo'[s] = todo[s] \ {e} /\ cases' = cases
    BY <1>0, <1>7 DEF AskEntity, TypeOK
  <2>4. ASSUME NEW t \in overlaps'[s]
        PROVE  /\ t[2] \in Recorded \ {s}
               /\ t[1] \in own[s] \cap own[t[2]] \/ (t[1] = s /\ t[2] \in known[s].ever)
    BY <1>0, <2>1, <2>2 DEF View
  <2>5. ASSUME NEW c \in known[s].cases \ {s}, NEW k \in own[s] \cap own[c], k \notin todo'[s]
        PROVE  <<k, c>> \in overlaps'[s]
    <3>1. CASE k = e
      BY <1>0, <2>2, <3>1 DEF View
    <3>2. CASE k # e
      BY <1>0, <2>1, <2>2, <2>3, <2>5, <3>2 DEF View
    <3> QED BY <3>1, <3>2
  <2> QED BY <1>0, <1>1, <1>2, <2>1, <2>3, <2>4, <2>5 DEF View
<1>8. CASE AskNamed(s)
  <2>1. overlaps'[s] = overlaps[s] \cup ({s} \X Naming(s))
    BY <1>0, <1>8, HitsAreNamings DEF AskNamed, Note, TypeOK
  <2>2. /\ known'[s] = known[s] /\ at'[s] = "flag" /\ todo'[s] = todo[s] /\ cases' = cases
        /\ at[s] = "ask" /\ todo[s] = {}
    BY <1>0, <1>8 DEF AskNamed, Goto, TypeOK
  <2>3. Naming(s) \subseteq Recorded \ {s}
    BY DEF Naming
  <2>4. ASSUME NEW t \in overlaps'[s]
        PROVE  /\ t[2] \in Recorded \ {s}
               /\ t[1] \in own[s] \cap own[t[2]] \/ (t[1] = s /\ t[2] \in known[s].ever)
    BY <1>0, <2>1, <2>2, <2>3 DEF View
  <2>5. \A c \in known[s].cases \ {s} : (own[s] \cap own[c]) \X {c} \subseteq overlaps'[s]
    BY <1>0, <2>1, <2>2 DEF View
  <2>6. {s} \X known[s].always \subseteq overlaps'[s]
    BY <1>0, <2>1, <2>2 DEF View
  <2> QED BY <1>0, <1>1, <1>2, <2>2, <2>4, <2>5, <2>6 DEF View
<1>9. CASE StampHistory(s)
  <2>1. /\ UNCHANGED <<todo[s], overlaps[s], known[s]>> /\ cases' = cases
        /\ at[s] = "flag" /\ at'[s] = "record"
    BY <1>0, <1>9 DEF StampHistory, Goto, TypeOK
  <2> QED BY <1>0, <1>1, <1>2, <2>1 DEF View
<1>10. CASE RecordCase(s)
  <2>1. /\ UNCHANGED <<todo[s], overlaps[s], known[s]>>
        /\ at[s] = "record" /\ at'[s] = "recorded"
    <3>1. UNCHANGED todo[s] /\ UNCHANGED overlaps[s] /\ at[s] = "record" /\ at'[s] = "recorded"
      BY <1>0, <1>10 DEF RecordCase, Goto, TypeOK
    <3>2. known'[s] = known[s]
      BY <1>10, <3>1, Remembered DEF RecordCase
    <3> QED BY <3>1, <3>2
  <2> QED BY <1>0, <1>1, <2>1 DEF View
\* another run records: the reading of s remembers
<1>11. ASSUME NEW q \in Subjects \ {s}, RecordCase(q) PROVE View(s)'
  <2>1. UNCHANGED <<at[s], todo[s], overlaps[s]>>
    BY <1>0, <1>11 DEF RecordCase, Goto, TypeOK
  <2>2. CASE at[s] \in {"prior", "ask"}
    <3>1. known'[s] = [cases |-> known[s].cases, always |-> known[s].always \cap Naming(s)',
                       ever |-> known[s].ever \cup Naming(s)']
      BY <1>11, <2>2, Remembered DEF RecordCase
    <3>2. /\ known'[s].cases = known[s].cases
          /\ known'[s].always = known[s].always \cap Naming(s)'
          /\ known'[s].ever = known[s].ever \cup Naming(s)'
      BY <1>3, <3>1
    <3> QED BY <1>0, <1>1, <2>1, <2>2, <3>2 DEF View
  <2>3. CASE at[s] \notin {"prior", "ask"}
    <3>1. known'[s] = known[s]
      BY <1>11, <2>3, Remembered DEF RecordCase
    <3> QED BY <1>0, <1>1, <2>1, <2>3, <3>1 DEF View
  <2> QED BY <2>2, <2>3
<1>12. CASE StampRecorded(s) \/ Die(s)
  <2>1. /\ at'[s] = "idle" /\ todo'[s] = {} /\ overlaps'[s] = {} /\ known'[s] = Nothing
    BY <1>0, <1>12 DEF StampRecorded, Die, Leave, TypeOK
  <2> QED BY <2>1 DEF View, Nothing
<1>13. CASE UNCHANGED vars
  BY <1>4, <1>13 DEF vars
<1>14. CASE Next
  <2>1. PICK q \in Subjects : \/ Start(q) \/ ReadPrior(q) \/ AskNamed(q)
                              \/ \E e \in Entities : AskEntity(q, e)
                              \/ StampHistory(q) \/ RecordCase(q)
                              \/ StampRecorded(q) \/ Die(q)
    BY <1>14 DEF Next
  <2>2. CASE q = s
    BY <2>1, <2>2, <1>5, <1>6, <1>7, <1>8, <1>9, <1>10, <1>12
  <2>3. CASE q # s /\ ~RecordCase(q)
    <3>1. cases' = cases
      BY <2>1, <2>3 DEF Start, ReadPrior, AskNamed, AskEntity, StampHistory, StampRecorded, Die
    <3>2. UNCHANGED <<at[s], todo[s]>>
      BY <1>0, <2>1, <2>3 DEF TypeOK, Start, ReadPrior, AskNamed, AskEntity, StampHistory,
         StampRecorded, Die, Leave, Goto
    <3>3. UNCHANGED <<overlaps[s], known[s]>>
      BY <1>0, <2>1, <2>3 DEF TypeOK, Start, ReadPrior, AskNamed, AskEntity, StampHistory,
         StampRecorded, Die, Leave, Note
    <3> QED BY <3>1, <3>2, <3>3, <1>4
  <2> QED BY <2>2, <2>3, <1>11
<1> QED
  BY <1>13, <1>14

\* An idle subject holds nothing of a reading.
LEMMA RestStep == TypeOK /\ Rested /\ [Next]_vars => Rested'
<1> SUFFICES ASSUME TypeOK, Rested, [Next]_vars, NEW s \in Subjects, at'[s] = "idle"
             PROVE  todo'[s] = {} /\ overlaps'[s] = {}
  BY DEF Rested
<1> USE DEF TypeOK, Rested, view
<1>1. ASSUME UNCHANGED <<at[s], todo[s], overlaps[s]>>
      PROVE  todo'[s] = {} /\ overlaps'[s] = {}
  BY <1>1
<1>2. ASSUME NEW q \in Subjects, Leave(q), q = s
      PROVE  todo'[s] = {} /\ overlaps'[s] = {}
  BY <1>2 DEF Leave
<1>3. ASSUME NEW q \in Subjects, q # s,
             \/ Start(q) \/ ReadPrior(q) \/ AskNamed(q)
             \/ \E e \in Entities : AskEntity(q, e)
             \/ StampHistory(q) \/ RecordCase(q)
             \/ StampRecorded(q) \/ Die(q)
      PROVE  UNCHANGED <<at[s], todo[s], overlaps[s]>>
  BY <1>3 DEF Start, ReadPrior, AskNamed, AskEntity, StampHistory, RecordCase,
     StampRecorded, Die, Leave, Goto, Note
<1>4. ASSUME NEW q \in Subjects, q = s,
             \/ Start(q) \/ ReadPrior(q) \/ AskNamed(q)
             \/ \E e \in Entities : AskEntity(q, e)
             \/ StampHistory(q) \/ RecordCase(q)
      PROVE  FALSE
  BY <1>4 DEF Start, ReadPrior, AskNamed, AskEntity, StampHistory, RecordCase, Goto
<1>5. CASE UNCHANGED vars
  BY <1>1, <1>5 DEF vars
<1>6. CASE Next
  <2>1. PICK q \in Subjects : \/ Start(q) \/ ReadPrior(q) \/ AskNamed(q)
                              \/ \E e \in Entities : AskEntity(q, e)
                              \/ StampHistory(q) \/ RecordCase(q)
                              \/ StampRecorded(q) \/ Die(q)
    BY <1>6 DEF Next
  <2>2. CASE q # s
    BY <1>1, <1>3, <2>1, <2>2
  <2>3. CASE q = s
    BY <1>2, <1>4, <2>1, <2>3 DEF StampRecorded, Die
  <2> QED BY <2>2, <2>3
<1> QED
  BY <1>5, <1>6

\* The invariant holds of every run.
LEMMA Inductive == Spec => []IInv
<1>1. Init => IInv
  <2>1. Init => /\ Recorded = {}
                /\ \A s \in Subjects : at[s] = "idle" /\ todo[s] = {} /\ overlaps[s] = {}
                                       /\ log[s].length = 0 /\ known[s] = Nothing
                /\ case_entities = {}
    BY DEF Init, Recorded, has_case, NoChain
  <2>2. Init => RunInv /\ StoreIsOfLastRuns /\ ViewInv /\ PinInv /\ Rested
    BY <2>1 DEF RunInv, StoreIsOfLastRuns, ViewInv, View, PinInv, Rested, Nothing
  <2> QED BY <2>2, TypeInit DEF IInv
<1>2. IInv /\ [Next]_vars => IInv'
  BY TypeStep, RunStep, StoreStep, PinStep, ViewStep, RestStep DEF IInv
<1> QED
  BY <1>1, <1>2, PTL DEF Spec

\* Whatever interleaves with its reading, reruns of other depths included, a
\* complete view of the history misses no shared entity and no case that named
\* the subject throughout, and invents none.
THEOREM HistoryIsAlwaysRead == Spec => []HistoryIsRead
<1>1. IInv => HistoryIsRead
  BY DEF IInv, ViewInv, View, HistoryIsRead
<1> QED
  BY <1>1, Inductive, PTL

\* The rows of a case are those of the one run its case row is of: what ran
\* before, beside it or died leaves no trace in them.
THEOREM StoreIsAlwaysOfLastRuns == Spec => []StoreIsOfLastRuns
<1>1. IInv => StoreIsOfLastRuns
  BY DEF IInv
<1> QED
  BY <1>1, Inductive, PTL

\* A finished chain is the one its case's row pins.
THEOREM PinIsAlwaysOnDisk == Spec => []PinIsOnDisk
<1>1. IInv => PinIsOnDisk
  BY DEF IInv, PinInv, PinIsOnDisk
<1> QED
  BY <1>1, Inductive, PTL

-----------------------------------------------------------------------------
(* Ranks and positions                                                     *)

\* x comes before y by the first of its ranks that differs from y's, or is not
\* told from it by the first n.
Leads(r, x, y, n) ==
    \/ \A k \in 1..n : r[x][k] = r[y][k]
    \/ \E k \in 1..n : r[x][k] > r[y][k] /\ \A j \in 1..k - 1 : r[x][j] = r[y][j]

\* Among things ranked by a list of integers, finitely many at each place, there
\* is a first in the order that looks at the places one after the other.
LEMMA SomethingLeads ==
    ASSUME NEW X, X # {}, NEW N \in Nat, NEW r,
           \A k \in 1..N : /\ \A x \in X : r[x][k] \in Int
                           /\ IsFiniteSet({r[x][k] : x \in X})
    PROVE  \E x \in X : \A y \in X : Leads(r, x, y, N)
  <1> DEFINE T == {n \in 0..N : \E x \in X : \A y \in X : Leads(r, x, y, n)}
  <1>1. 0 \in T
    BY DEF Leads
  <1>2. ASSUME NEW n \in 1..N, n - 1 \in T PROVE n \in T
    <2>1. PICK x \in X : \A y \in X : Leads(r, x, y, n - 1)
      BY <1>2
    <2> DEFINE Y == {y \in X : \A k \in 1..n - 1 : r[x][k] = r[y][k]}
               V == {r[y][n] : y \in Y}
    <2>2. V \in SUBSET Int /\ V # {} /\ IsFiniteSet(V)
      <3>1. V \subseteq {r[y][n] : y \in X} /\ IsFiniteSet({r[y][n] : y \in X})
        OBVIOUS
      <3>2. IsFiniteSet(V)
        BY <3>1, FS_Subset
      <3> QED
        BY <3>2
    <2> HIDE DEF V
    <2>3. PICK v \in V : \A u \in V : u <= v
      BY <2>2, FiniteGreatest
    <2>4. PICK z \in Y : r[z][n] = v
      BY DEF V
    <2>5. \A y \in Y : r[y][n] <= r[z][n]
      BY <2>3, <2>4 DEF V
    <2>6. z \in X /\ \A k \in 1..n - 1 : r[x][k] = r[z][k]
      BY <2>4
    <2>7. ASSUME NEW y \in X PROVE Leads(r, z, y, n)
      <3>1. r[y][n] \in Int /\ r[z][n] \in Int
        BY <2>6
      <3>2. CASE y \in Y
        <4>1. \A k \in 1..n - 1 : r[z][k] = r[y][k]
          BY <2>6, <3>2
        <4>2. CASE r[y][n] = r[z][n]
          <5>1. \A k \in 1..n : k \in 1..n - 1 \/ k = n
            OBVIOUS
          <5> QED
            BY <4>1, <4>2, <5>1 DEF Leads
        <4>3. CASE r[z][n] > r[y][n]
          BY <4>1, <4>3 DEF Leads
        <4> QED
          BY <2>5, <3>1, <3>2, <4>2, <4>3
      <3>3. CASE y \notin Y
        <4>1. PICK k \in 1..n - 1 : r[x][k] > r[y][k] /\ \A j \in 1..k - 1 : r[x][j] = r[y][j]
          BY <2>1, <3>3 DEF Leads
        <4>2. /\ r[z][k] > r[y][k]
              /\ \A j \in 1..k - 1 : r[z][j] = r[y][j]
          BY <2>6, <4>1
        <4>3. k \in 1..n
          OBVIOUS
        <4> QED
          BY <4>2, <4>3 DEF Leads
      <3> QED
        BY <3>2, <3>3
    <2>8. n \in 0..N
      OBVIOUS
    <2> HIDE DEF Y
    <2> QED
      BY <2>6, <2>7, <2>8
  <1> HIDE DEF T
  <1>3. N \in T
    BY <1>1, <1>2, UpTo
  <1> QED
    BY <1>3 DEF T

\* The place of a position among those of P.
Place(P, p) == Cardinality({m \in P : m <= p})

\* Places are told apart by them and leave none of 1..|P| out.
LEMMA PlacesAreAll ==
    ASSUME NEW n \in Nat, NEW P \in SUBSET (1..n)
    PROVE  /\ IsFiniteSet(P) /\ Cardinality(P) \in Nat
           /\ \A p \in P : Place(P, p) \in 1..Cardinality(P)
           /\ \A p, q \in P : Place(P, p) = Place(P, q) => p = q
           /\ \A k \in 1..Cardinality(P) : \E p \in P : Place(P, p) = k
  <1> DEFINE N == Cardinality(P)
             Below(p) == {m \in P : m <= p}
             place == [p \in P |-> Place(P, p)]
  <1>1. IsFiniteSet(P)
    <2>1. 1 \in Int /\ n \in Int
      OBVIOUS
    <2>2. IsFiniteSet(1..n)
      BY <2>1, FS_Interval
    <2> QED
      BY <2>2, FS_Subset
  <1>0. N \in Nat
    BY <1>1, FS_CardinalityType
  <1>b. P \subseteq Int
    OBVIOUS
  <1>2. ASSUME NEW p \in P
        PROVE  IsFiniteSet(Below(p)) /\ Cardinality(Below(p)) \in 1..N
    <2>1. Below(p) \in SUBSET P /\ p \in Below(p)
      BY <1>b
    <2>2. IsFiniteSet(Below(p)) /\ Cardinality(Below(p)) <= N
      BY <1>1, <2>1, FS_Subset
    <2>3. Cardinality(Below(p)) \in Nat /\ Cardinality(Below(p)) # 0
      BY <2>1, <2>2, FS_CardinalityType, FS_EmptySet
    <2> QED
      BY <2>2, <2>3, <1>0
  <1>3. ASSUME NEW p \in P, NEW q \in P, p < q
        PROVE  Place(P, p) # Place(P, q)
    <2>0. p \in Int /\ q \in Int /\ \A m \in P : m \in Int
      BY <1>b
    <2>3. \A m \in P : m <= p => m <= q
      BY <1>3, <2>0
    <2>4. q <= q /\ ~ (q <= p)
      BY <1>3, <2>0
    <2>1. Below(p) \in SUBSET Below(q) /\ q \in Below(q) /\ q \notin Below(p)
      BY <2>3, <2>4
    <2>2. Cardinality(Below(p)) # Cardinality(Below(q))
      BY <1>2, <2>1, FS_Subset
    <2> QED
      BY <2>2 DEF Place
  <1>4. \A p, q \in P : Place(P, p) = Place(P, q) => p = q
    <2>1. \A p, q \in P : p < q \/ q < p \/ p = q
      BY <1>b
    <2> QED
      BY <1>3, <2>1
  <1>5. \A p \in P : Place(P, p) \in 1..N
    BY <1>2 DEF Place
  <1> HIDE DEF N
  <1>6. place \in Injection(P, 1..N)
    BY <1>4, <1>5 DEF Injection, IsInjective
  <1>7. IsFiniteSet(1..N) /\ Cardinality(1..N) = N
    BY <1>0, FS_Interval
  <1>8. place \in Surjection(P, 1..N)
    <2> HIDE DEF place
    <2> QED
      BY <1>6, <1>7, FS_Injection DEF N
  <1>9. \A k \in 1..N : \E p \in P : Place(P, p) = k
    BY <1>8 DEF Surjection
  <1> QED
    BY <1>0, <1>1, <1>4, <1>5, <1>9 DEF N

\* kept has the entries of s at the positions of P, in their order.
Lists(kept, s, P) ==
    /\ IsFiniteSet(P) /\ Cardinality(P) \in Nat
    /\ kept = [k \in 1..Cardinality(P) |-> kept[k]]
    /\ \A p \in P : /\ Place(P, p) \in 1..Cardinality(P)
                    /\ kept[Place(P, p)] = s[p]
    /\ \A k \in 1..Cardinality(P) : \E p \in P : Place(P, p) = k /\ kept[k] = s[p]

\* Picked has one entry for each of the positions.
LEMMA PickedHasAll ==
    ASSUME NEW n \in Nat, NEW P \in SUBSET (1..n), NEW s
    PROVE  Lists(Picked(s, P), s, P)
  <1> DEFINE N == Cardinality(P)
  <1>1. /\ IsFiniteSet(P) /\ N \in Nat
        /\ \A p \in P : Place(P, p) \in 1..N
        /\ \A p, q \in P : Place(P, p) = Place(P, q) => p = q
        /\ \A k \in 1..N : \E p \in P : Place(P, p) = k
    BY PlacesAreAll
  <1>2. Picked(s, P) = [k \in 1..N |-> s[CHOOSE p \in P : Place(P, p) = k]]
    BY DEF Picked, Place
  <1> HIDE DEF N
  <1>3. ASSUME NEW p \in P
        PROVE  (CHOOSE m \in P : Place(P, m) = Place(P, p)) = p
    <2>1. \E m \in P : Place(P, m) = Place(P, p)
      OBVIOUS
    <2>2. LET c == CHOOSE m \in P : Place(P, m) = Place(P, p)
          IN  c \in P /\ Place(P, c) = Place(P, p)
      BY <2>1, Zenon
    <2> QED
      BY <1>1, <2>2
  <1>4. ASSUME NEW p \in P
        PROVE  Picked(s, P)[Place(P, p)] = s[p]
    <2>1. Place(P, p) \in 1..N
      BY <1>1
    <2>2. Picked(s, P)[Place(P, p)] = s[CHOOSE m \in P : Place(P, m) = Place(P, p)]
      BY <1>2, <2>1
    <2> QED
      BY <2>2, <1>3
  <1>5. ASSUME NEW k \in 1..N
        PROVE  \E p \in P : Place(P, p) = k /\ Picked(s, P)[k] = s[p]
    <2>1. PICK p \in P : Place(P, p) = k
      BY <1>1
    <2> QED
      BY <1>4, <2>1
  <1>6. Picked(s, P) = [k \in 1..N |-> Picked(s, P)[k]]
    BY <1>2
  <1> QED
    BY <1>1, <1>4, <1>5, <1>6 DEF N, Lists

\* ... so it is a sequence of entries of s, and empty only when P is.
LEMMA PickedIsSequence ==
    ASSUME NEW S, NEW s \in Seq(S), NEW P \in SUBSET (DOMAIN s)
    PROVE  /\ Picked(s, P) \in Seq(S)
           /\ Len(Picked(s, P)) = Cardinality(P) /\ Cardinality(P) \in Nat
           /\ DOMAIN Picked(s, P) = 1..Cardinality(P)
           /\ ToSet(Picked(s, P)) = {s[p] : p \in P}
           /\ Picked(s, P) = << >> <=> P = {}
  <1> DEFINE t == Picked(s, P)
             N == Cardinality(P)
  <1>1. Len(s) \in Nat /\ DOMAIN s = 1..Len(s) /\ \A p \in 1..Len(s) : s[p] \in S
    OBVIOUS
  <1>2. P \in SUBSET (1..Len(s))
    BY <1>1
  <1>a. Lists(t, s, P)
    BY <1>1, <1>2, PickedHasAll
  <1>3. /\ IsFiniteSet(P) /\ N \in Nat
        /\ t = [k \in 1..N |-> t[k]]
        /\ \A p \in P : Place(P, p) \in 1..N /\ t[Place(P, p)] = s[p]
        /\ \A k \in 1..N : \E p \in P : Place(P, p) = k /\ t[k] = s[p]
    BY <1>a, Zenon DEF Lists
  <1> HIDE DEF t
  <1>4. \A k \in 1..N : t[k] \in S
    BY <1>1, <1>2, <1>3
  <1>5. N = 0 <=> P = {}
    BY <1>3, FS_EmptySet
  <1> HIDE DEF N
  <1>6. t \in [1..N -> S]
    BY <1>3, <1>4
  <1>7. t \in Seq(S) /\ Len(t) = N /\ DOMAIN t = 1..N
    BY <1>3, <1>6
  <1>8. ToSet(t) = {s[p] : p \in P}
    <2>1. ToSet(t) = {t[k] : k \in 1..N}
      BY <1>7 DEF ToSet
    <2>2. \A k \in 1..N : t[k] \in {s[p] : p \in P}
      <3> SUFFICES ASSUME NEW k \in 1..N PROVE t[k] \in {s[p] : p \in P}
        OBVIOUS
      <3>1. PICK p \in P : t[k] = s[p]
        BY <1>3
      <3> QED
        BY <3>1
    <2>3. \A p \in P : s[p] \in {t[k] : k \in 1..N}
      BY <1>3
    <2> QED
      BY <2>1, <2>2, <2>3
  <1>9. t = << >> <=> N = 0
    BY <1>3, <1>7
  <1> QED
    BY <1>3, <1>5, <1>7, <1>8, <1>9 DEF t, N

-----------------------------------------------------------------------------
(* What a run has done at each stage                                       *)

\* the adjudications of the claims of t
Adjudications(t) == {Adjudication(t, n) : n \in DOMAIN t.rfi}

TableInv ==
    /\ table \in Seq(Adjudications(w)) /\ Len(table) <= Len(w.rfi)
    /\ \A n \in DOMAIN table : table[n] = Adjudication(w, n)
    /\ stage # "check" => Len(table) = Len(w.rfi)

QuestionInv ==
    /\ questions \in Seq({Question(adj) : adj \in Adjudications(w)})
    /\ Len(questions) <= Len(Contradictions)
    /\ \A n \in DOMAIN questions : questions[n] = Question(Contradictions[n])
    /\ stage = "check" => questions = << >>
    /\ stage \notin {"check", "followup"} => Len(questions) = Len(Contradictions)

\* The first draft of tables t, and what the one pass that changes it makes.
First(t, contradicted) == build_sar(t, contradicted)
Filled(t, contradicted) ==
    First(t, contradicted) \cup gap_fill_claims(t, gap_keys(First(t, contradicted)))

Graded(first, filled) ==
    \/ /\ draft = first /\ revisions = << >>
       /\ critiques = <<gap_keys(first)>>
       /\ cap = 0 \/ stage = "loop"
    \/ /\ draft = filled /\ Len(revisions) = 1 /\ cap # 0
       /\ critiques = Append(<<gap_keys(first)>>, gap_keys(filled))

SarInv ==
    LET first == First(w, ToSet(Contradictions))
        filled == Filled(w, ToSet(Contradictions))
    IN  /\ stage \in {"check", "followup", "draft"} => critiques = << >> /\ revisions = << >>
        /\ stage \in {"loop", "flag", "done"} => Valid(w, draft) /\ Graded(first, filled)
        /\ stage = "refused" => ~Valid(w, draft) /\ draft \in {first, filled}
        /\ stage = "done" => flagged = Gaps

DraftInv ==
    /\ w \in Worlds /\ cap \in Passes
    /\ stage \in {"check", "followup", "draft", "loop", "flag", "done", "refused"}
    /\ TableInv /\ QuestionInv /\ SarInv

-----------------------------------------------------------------------------
(* What the rubric finds in a draft                                        *)

Elements(claims) == {c.element : c \in claims}

\* A key is a gap when no claim carries an element that satisfies it.
LEMMA GapsByElement ==
    ASSUME NEW claims
    PROVE  /\ gap_keys(claims) = {key \in DOMAIN Rubric : Elements(claims) \cap Rubric[key] = {}}
           /\ gap_keys(claims) \subseteq {"who", "what", "when", "where", "why", "how",
                                       "subject_and_network", "on_chain_evidence"}
           /\ "who" \in gap_keys(claims) <=> "who" \notin Elements(claims)
           /\ "what" \in gap_keys(claims) <=> "what" \notin Elements(claims)
           /\ "when" \in gap_keys(claims) <=> "when" \notin Elements(claims)
           /\ "where" \in gap_keys(claims) <=> "where" \notin Elements(claims)
           /\ "how" \in gap_keys(claims) <=> "how" \notin Elements(claims)
           /\ "why" \in gap_keys(claims)
                <=> "predicate" \notin Elements(claims) /\ "advisory" \notin Elements(claims)
           /\ "subject_and_network" \in gap_keys(claims)
                <=> "network" \notin Elements(claims) /\ "tell" \notin Elements(claims)
           /\ "on_chain_evidence" \in gap_keys(claims)
                <=> "network" \notin Elements(claims) /\ "onchain" \notin Elements(claims)
  <1>1. gap_keys(claims) = {key \in DOMAIN Rubric : Elements(claims) \cap Rubric[key] = {}}
    BY DEF gap_keys, Elements
  <1>2. DOMAIN Rubric = {"who", "what", "when", "where", "why", "how",
                         "subject_and_network", "on_chain_evidence"}
    BY DEF Rubric
  <1>3. /\ Rubric["who"] = {"who"} /\ Rubric["what"] = {"what"} /\ Rubric["when"] = {"when"}
        /\ Rubric["where"] = {"where"} /\ Rubric["how"] = {"how"}
        /\ Rubric["why"] = {"predicate", "advisory"}
        /\ Rubric["subject_and_network"] = {"network", "tell"}
        /\ Rubric["on_chain_evidence"] = {"network", "onchain"}
    BY DEF Rubric
  <1> QED
    BY <1>1, <1>2, <1>3

\* Anomalies are what claims.
LEMMA AnomaliesAreWhat ==
    ASSUME NEW t, NEW c \in detect_all(t)
    PROVE  c.element = "what"
  <1>1. CASE c \in geo_ip_mismatch(t)
    <2>1. \E cites : c = Claim("what", cites)
      BY <1>1 DEF geo_ip_mismatch
    <2> QED
      BY <2>1 DEF Claim
  <1>2. CASE c \in vpn_elevation(t)
    <2>1. \E cites : c = Claim("what", cites)
      BY <1>2 DEF vpn_elevation
    <2> QED
      BY <2>1 DEF Claim
  <1>3. CASE c \in reused_kyc(t)
    <2>1. \E cites : c = Claim("what", cites)
      BY <1>3 DEF reused_kyc
    <2> QED
      BY <2>1 DEF Claim
  <1>4. CASE c \in shared_device(t)
    <2>1. \E cites : c = Claim("what", cites)
      BY <1>4 DEF shared_device
    <2> QED
      BY <2>1 DEF Claim
  <1>5. CASE c \in internal_tag(t)
    BY <1>5 DEF Quote, internal_tag
  <1> QED
    BY <1>1, <1>2, <1>3, <1>4, <1>5 DEF detect_all

\* The elements of the first draft.
LEMMA FirstElements ==
    ASSUME NEW t, NEW contradicted
    PROVE  LET elements == Elements(build_sar(t, contradicted)) IN
           /\ "who" \in elements
           /\ "what" \in elements <=> detect_all(t) # {}
           /\ "network" \in elements <=> SanctionedReached(t) # {}
           /\ "tell" \in elements <=> DraftedTells(t) # {}
           /\ "advisory" \in elements <=> Advisory(t) # {}
           /\ elements \cap {"when", "where", "how", "predicate", "onchain"} = {}
  <1> DEFINE who == {Claim("who", {AccountRow(t.subject)})}
             tell == {Quote("tell", {TellRow(r)}, r.banned) : r \in DraftedTells(t)}
             advisory == {Claim("advisory", rows) : rows \in {Advisory(t)} \ {{}}}
             rfi == {Claim("rfi", {<<"rfi", 1>>}) : x \in {y \in {t.answered} : y}}
             contradiction == {contradiction_claim(t, adj) : adj \in contradicted}
  <1>1. Elements(who) = {"who"}
    BY DEF Claim, Quote, Elements
  <1>2. Elements(detect_all(t)) = IF detect_all(t) = {} THEN {} ELSE {"what"}
    BY AnomaliesAreWhat DEF Elements
  <1>3. Elements(network_claim(t)) = IF SanctionedReached(t) = {} THEN {} ELSE {"network"}
    <2>1. \A c \in network_claim(t) : c.element = "network"
      BY DEF Claim, Quote, network_claim
    <2>2. network_claim(t) = {} <=> SanctionedReached(t) = {}
      BY DEF network_claim
    <2> QED
      BY <2>1, <2>2 DEF Elements
  <1>4. Elements(tell) = IF DraftedTells(t) = {} THEN {} ELSE {"tell"}
    <2>1. \A c \in tell : c.element = "tell"
      BY DEF Claim, Quote
    <2>2. tell = {} <=> DraftedTells(t) = {}
      OBVIOUS
    <2> QED
      BY <2>1, <2>2 DEF Elements
  <1>5. Elements(advisory) = IF Advisory(t) = {} THEN {} ELSE {"advisory"}
    <2>1. \A c \in advisory : c.element = "advisory"
      BY DEF Claim, Quote
    <2>2. advisory = {} <=> Advisory(t) = {}
      OBVIOUS
    <2> QED
      BY <2>1, <2>2 DEF Elements
  <1>6. Elements(rfi) \subseteq {"rfi"}
    BY DEF Claim, Quote, Elements
  <1>7. Elements(contradiction) \subseteq {"contradiction"}
    BY DEF Elements, contradiction_claim, Quote
  <1>8. build_sar(t, contradicted) =
          who \cup detect_all(t) \cup network_claim(t) \cup tell \cup advisory \cup rfi
              \cup contradiction
    BY DEF build_sar
  <1> HIDE DEF who, tell, advisory, rfi, contradiction
  <1>9. Elements(build_sar(t, contradicted)) =
          Elements(who) \cup Elements(detect_all(t)) \cup Elements(network_claim(t))
              \cup Elements(tell) \cup Elements(advisory) \cup Elements(rfi)
              \cup Elements(contradiction)
    BY <1>8 DEF Elements
  <1> QED
    BY <1>1, <1>2, <1>3, <1>4, <1>5, <1>6, <1>7, <1>9

\* What a gap-filling pass over keys adds.
LEMMA FilledElements ==
    ASSUME NEW t, NEW keys
    PROVE  LET elements == Elements(gap_fill_claims(t, keys)) IN
           /\ "when" \in elements <=> "when" \in keys /\ when_claim(t) # {}
           /\ "where" \in elements <=> "where" \in keys /\ where_claim(t) # {}
           /\ "predicate" \in elements <=> "why" \in keys /\ predicate_claim(t) # {}
           /\ "how" \in elements <=> "how" \in keys /\ how_claim(t) # {}
           /\ elements \subseteq {"when", "where", "predicate", "how"}
           /\ gap_fill_claims(t, keys) = {} <=> elements = {}
  <1> DEFINE when == IF "when" \in keys THEN when_claim(t) ELSE {}
             where == IF "where" \in keys THEN where_claim(t) ELSE {}
             why == IF "why" \in keys THEN predicate_claim(t) ELSE {}
             how == IF "how" \in keys THEN how_claim(t) ELSE {}
  <1>1. Elements(when) = IF when = {} THEN {} ELSE {"when"}
    BY DEF Claim, Quote, Elements, when_claim, SomeClaim
  <1>2. Elements(where) = IF where = {} THEN {} ELSE {"where"}
    BY DEF Claim, Quote, Elements, where_claim, SomeClaim
  <1>3. Elements(why) = IF why = {} THEN {} ELSE {"predicate"}
    BY DEF Claim, Quote, Elements, predicate_claim, SomeClaim
  <1>4. Elements(how) = IF how = {} THEN {} ELSE {"how"}
    <2>1. \E cites : how_claim(t) = SomeClaim("how", cites)
      BY DEF how_claim
    <2>2. \A c \in how : c.element = "how"
      BY <2>1 DEF Claim, SomeClaim
    <2> QED
      BY <2>2 DEF Elements
  <1>5. gap_fill_claims(t, keys) = when \cup where \cup why \cup how
    BY DEF gap_fill_claims
  <1>6. /\ when # {} <=> "when" \in keys /\ when_claim(t) # {}
        /\ where # {} <=> "where" \in keys /\ where_claim(t) # {}
        /\ why # {} <=> "why" \in keys /\ predicate_claim(t) # {}
        /\ how # {} <=> "how" \in keys /\ how_claim(t) # {}
    OBVIOUS
  <1> HIDE DEF when, where, why, how
  <1>7. Elements(gap_fill_claims(t, keys)) =
          Elements(when) \cup Elements(where) \cup Elements(why) \cup Elements(how)
    BY <1>5 DEF Elements
  <1>8. gap_fill_claims(t, keys) = {} <=> Elements(gap_fill_claims(t, keys)) = {}
    BY DEF Elements
  <1> QED
    BY <1>1, <1>2, <1>3, <1>4, <1>6, <1>7, <1>8

\* The first draft always leaves something a pass fills: when.
LEMMA FirstPassFills ==
    ASSUME NEW t, NEW contradicted
    PROVE  LET gaps == gap_keys(build_sar(t, contradicted))
           IN  gaps # {} /\ gap_fill_claims(t, gaps) # {}
  <1>1. "when" \in gap_keys(build_sar(t, contradicted))
    BY FirstElements, GapsByElement
  <1>2. when_claim(t) # {}
    <2>1. {t.span[1], t.span[2]} # {}
      OBVIOUS
    <2> QED
      BY <2>1 DEF when_claim, SomeClaim
  <1> QED
    BY <1>1, <1>2, FilledElements

\* ... and a second pass finds nothing more.
LEMMA OnePassFillsAll ==
    ASSUME NEW t, NEW claims
    PROVE  gap_fill_claims(t, gap_keys(claims \cup gap_fill_claims(t, gap_keys(claims)))) = {}
  <1> DEFINE more == gap_fill_claims(t, gap_keys(claims))
             filled == claims \cup more
             again == gap_fill_claims(t, gap_keys(filled))
  <1>1. Elements(filled) = Elements(claims) \cup Elements(more)
    BY DEF Elements
  <1>2. gap_keys(filled) \subseteq gap_keys(claims)
    <2>1. gap_keys(filled) = {key \in DOMAIN Rubric : Elements(filled) \cap Rubric[key] = {}}
      BY GapsByElement
    <2>2. gap_keys(claims) = {key \in DOMAIN Rubric : Elements(claims) \cap Rubric[key] = {}}
      BY GapsByElement
    <2> HIDE DEF more, filled
    <2> QED
      BY <1>1, <2>1, <2>2
  <1>3. /\ "when" \in gap_keys(filled) => when_claim(t) = {}
        /\ "where" \in gap_keys(filled) => where_claim(t) = {}
        /\ "why" \in gap_keys(filled) => predicate_claim(t) = {}
        /\ "how" \in gap_keys(filled) => how_claim(t) = {}
    <2> HIDE DEF more, filled
    <2>1. /\ "when" \in gap_keys(claims) /\ when_claim(t) # {} => "when" \in Elements(more)
          /\ "where" \in gap_keys(claims) /\ where_claim(t) # {} => "where" \in Elements(more)
          /\ "why" \in gap_keys(claims) /\ predicate_claim(t) # {} => "predicate" \in Elements(more)
          /\ "how" \in gap_keys(claims) /\ how_claim(t) # {} => "how" \in Elements(more)
      BY FilledElements DEF more
    <2>2. /\ "when" \in gap_keys(filled) => "when" \notin Elements(more)
          /\ "where" \in gap_keys(filled) => "where" \notin Elements(more)
          /\ "why" \in gap_keys(filled) => "predicate" \notin Elements(more)
          /\ "how" \in gap_keys(filled) => "how" \notin Elements(more)
      BY <1>1, GapsByElement
    <2> QED
      BY <1>2, <2>1, <2>2
  <1> HIDE DEF filled
  <1>4. Elements(again) = {}
    BY <1>3, FilledElements
  <1> QED
    BY <1>4, FilledElements DEF filled

-----------------------------------------------------------------------------
(* The invariant is one                                                    *)

\* Nothing a step does changes the tables or the bound.
LEMMA TablesStay ==
    ASSUME [DraftNext]_draftVars
    PROVE  w' = w /\ cap' = cap
  <1>1. CASE DraftNext
    BY <1>1 DEF DraftNext, Adjudicate, DecideReRfi, DraftQuestion, FollowUpDrafted, BuildSar,
         Revise, NothingToFill, LoopEnds, Flag, Ended, draftVars
  <1>2. CASE UNCHANGED draftVars
    BY <1>2 DEF draftVars
  <1> QED
    BY <1>1, <1>2

\* What the checker found contradicted, as a sequence and as a set.
LEMMA ContradictionsShape ==
    ASSUME TableInv
    PROVE  /\ Contradictions \in Seq(Adjudications(w))
           /\ Len(Contradictions) \in Nat
           /\ DOMAIN Contradictions = 1..Len(Contradictions)
           /\ ToSet(Contradictions) =
                {table[n] : n \in {n \in DOMAIN table : table[n].verdict = "contradicted"}}
           /\ Contradictions = << >> <=> Len(Contradictions) = 0
  <1> DEFINE P == {n \in DOMAIN table : table[n].verdict = "contradicted"}
  <1>1. P \in SUBSET (DOMAIN table) /\ table \in Seq(Adjudications(w))
    BY DEF TableInv
  <1>2. Contradictions = Picked(table, P)
    BY DEF Contradictions
  <1> HIDE DEF P
  <1>3. /\ Picked(table, P) \in Seq(Adjudications(w))
        /\ ToSet(Picked(table, P)) = {table[n] : n \in P}
    BY <1>1, PickedIsSequence
  <1>4. \A s \in Seq(Adjudications(w)) :
           Len(s) \in Nat /\ DOMAIN s = 1..Len(s) /\ (s = << >> <=> Len(s) = 0)
    OBVIOUS
  <1>5. Contradictions \in Seq(Adjudications(w)) /\ ToSet(Contradictions) = {table[n] : n \in P}
    BY <1>2, <1>3
  <1> QED
    BY <1>4, <1>5 DEF P

\* The checker adjudicates claim after claim.
LEMMA TableStep ==
    ASSUME DraftInv, [DraftNext]_draftVars
    PROVE  TableInv'
  <1>1. w' = w
    BY TablesStay
  <1>2. TableInv /\ w \in Worlds
    BY DEF DraftInv
  <1>3. w.rfi \in Seq([denies : BOOLEAN, funds : BOOLEAN, exclusive : BOOLEAN,
                      names : SUBSET Accounts, banned : BOOLEAN])
    BY <1>2, DraftingAssumption DEF RfiTables
  <1>4. Len(w.rfi) \in Nat /\ DOMAIN w.rfi = 1..Len(w.rfi)
    BY <1>3
  <1>5. CASE Adjudicate
    <2> DEFINE n == Len(table) + 1
               adj == Adjudication(w, n)
    <2>1. table' = Append(table, adj) /\ stage' = stage /\ stage = "check" /\ Len(table) < Len(w.rfi)
      BY <1>5 DEF Adjudicate
    <2>2. table \in Seq(Adjudications(w)) /\ \A k \in DOMAIN table : table[k] = Adjudication(w, k)
      BY <1>2 DEF TableInv
    <2>3. Len(table) \in Nat /\ n \in DOMAIN w.rfi
      BY <1>4, <2>1, <2>2
    <2>4. adj \in Adjudications(w)
      BY <2>3 DEF Adjudications
    <2> HIDE DEF adj
    <2>5. /\ table' \in Seq(Adjudications(w)) /\ Len(table') = n /\ DOMAIN table' = 1..n
          /\ table'[n] = adj /\ \A k \in 1..Len(table) : table'[k] = table[k]
      BY <2>1, <2>2, <2>3, <2>4
    <2>6. \A k \in DOMAIN table' : table'[k] = Adjudication(w, k)
      <3>1. \A k \in 1..n : k = n \/ k \in 1..Len(table)
        BY <2>3
      <3>2. DOMAIN table = 1..Len(table)
        BY <2>2
      <3> QED
        BY <2>2, <2>5, <3>1, <3>2 DEF adj
    <2>7. Len(table') <= Len(w.rfi)
      BY <1>4, <2>1, <2>3, <2>5
    <2>8. (stage # "check" => Len(table) = Len(w.rfi))'
      BY <2>1
    <2> QED
      BY <1>1, <2>5, <2>6, <2>7, <2>8 DEF TableInv, Adjudications
  <1>6. CASE table' = table /\ (stage' # "check" => stage # "check" \/ Len(table) = Len(w.rfi))
    BY <1>1, <1>2, <1>6 DEF TableInv, Adjudications
  <1>7. CASE DecideReRfi
    BY <1>6, <1>7 DEF DecideReRfi, check
  <1>8. CASE DraftQuestion
    BY <1>6, <1>8 DEF DraftQuestion
  <1>9. CASE \/ FollowUpDrafted \/ BuildSar \/ Revise \/ NothingToFill \/ LoopEnds \/ Flag \/ Ended
             \/ UNCHANGED draftVars
    <2>1. table' = table
      BY <1>9 DEF FollowUpDrafted, BuildSar, Revise, NothingToFill, LoopEnds, Flag, Ended, check,
           draftVars
    <2>2. stage' # "check" => stage # "check"
      BY <1>9 DEF FollowUpDrafted, BuildSar, Revise, NothingToFill, LoopEnds, Flag, Ended, draftVars
    <2> QED
      BY <1>6, <2>1, <2>2
  <1> QED
    BY <1>5, <1>7, <1>8, <1>9 DEF DraftNext

\* The follow-up asks about one contradicted claim after the other.
LEMMA QuestionStep ==
    ASSUME DraftInv, [DraftNext]_draftVars
    PROVE  QuestionInv'
  <1> DEFINE Asked == {Question(adj) : adj \in Adjudications(w)}
             N == Len(Contradictions)
  <1>1. w' = w
    BY TablesStay
  <1>2. TableInv /\ QuestionInv /\ w \in Worlds
    BY DEF DraftInv
  <1>3. \A adj : Question(adj)' = Question(adj)
    BY <1>1 DEF Question, tips_off
  <1>4. /\ Contradictions \in Seq(Adjudications(w)) /\ N \in Nat
        /\ DOMAIN Contradictions = 1..N
        /\ Contradictions = << >> <=> N = 0
    BY <1>2, ContradictionsShape
  <1>5. TableInv'
    BY TableStep
  <1>6. N' \in Nat
    <2> DEFINE P == {n \in DOMAIN table' : (table')[n].verdict = "contradicted"}
    <2>1. table' \in Seq(Adjudications(w)) /\ P \in SUBSET (DOMAIN table')
      BY <1>1, <1>5 DEF TableInv, Adjudications
    <2>2. (Contradictions)' = Picked(table', P)
      BY DEF Contradictions
    <2> HIDE DEF P
    <2>3. Picked(table', P) \in Seq(Adjudications(w))
      BY <2>1, PickedIsSequence
    <2>4. \A s \in Seq(Adjudications(w)) : Len(s) \in Nat
      OBVIOUS
    <2> QED
      BY <2>2, <2>3, <2>4
  <1>7. /\ questions \in Seq(Asked) /\ Len(questions) <= N
        /\ \A n \in DOMAIN questions : questions[n] = Question(Contradictions[n])
        /\ stage = "check" => questions = << >>
        /\ stage \notin {"check", "followup"} => Len(questions) = N
    BY <1>2 DEF QuestionInv
  <1>8. Len(questions) \in Nat /\ DOMAIN questions = 1..Len(questions)
    BY <1>7
  <1>9. Asked' = Asked
    BY <1>1, <1>3 DEF Adjudications
  <1> SUFFICES /\ questions' \in Seq(Asked) /\ Len(questions') <= N'
               /\ \A n \in DOMAIN questions' : questions'[n] = Question((Contradictions')[n])
               /\ stage' = "check" => questions' = << >>
               /\ stage' \notin {"check", "followup"} => Len(questions') = N'
    BY <1>3, <1>9 DEF QuestionInv
  <1> HIDE DEF Asked, N
  <1>10. ASSUME stage = "check", stage' = "check", questions' = questions
        PROVE  /\ questions' \in Seq(Asked) /\ Len(questions') <= N'
               /\ \A n \in DOMAIN questions' : questions'[n] = Question((Contradictions')[n])
               /\ stage' = "check" => questions' = << >>
               /\ stage' \notin {"check", "followup"} => Len(questions') = N'
    BY <1>6, <1>7, <1>10
  <1>11. ASSUME table' = table PROVE Contradictions' = Contradictions /\ N' = N
    BY <1>11 DEF Contradictions, N
  <1>12. CASE Adjudicate
    BY <1>10, <1>12 DEF Adjudicate
  <1>13. CASE DraftQuestion
    <2> DEFINE q == Question(Contradictions[Len(questions) + 1])
    <2>1. /\ questions' = Append(questions, q) /\ stage = "followup" /\ stage' = stage
          /\ Len(questions) < N /\ table' = table
      BY <1>13 DEF DraftQuestion, N
    <2>2. Len(questions) + 1 \in 1..N
      BY <1>4, <1>8, <2>1
    <2>3. q \in Asked
      <3>1. Contradictions[Len(questions) + 1] \in Adjudications(w)
        BY <1>4, <2>2
      <3> QED
        BY <3>1 DEF Asked
    <2>4. q = Question(Contradictions[Len(questions) + 1])
      OBVIOUS
    <2> HIDE DEF q
    <2>5. /\ questions' \in Seq(Asked) /\ Len(questions') = Len(questions) + 1
          /\ DOMAIN questions' = 1..Len(questions) + 1 /\ questions'[Len(questions) + 1] = q
          /\ \A n \in 1..Len(questions) : questions'[n] = questions[n]
      BY <1>7, <1>8, <2>1, <2>3
    <2>6. ASSUME NEW n \in DOMAIN questions'
          PROVE  questions'[n] = Question(Contradictions[n])
      <3>1. n = Len(questions) + 1 \/ n \in 1..Len(questions)
        BY <1>8, <2>5
      <3> QED
        BY <1>7, <1>8, <2>4, <2>5, <3>1
    <2>7. Len(questions') <= N
      BY <1>4, <1>8, <2>1, <2>5
    <2> QED
      BY <1>11, <2>1, <2>5, <2>6, <2>7
  <1>14. CASE table' = table /\ questions' = questions
              /\ (stage' = "check" => stage = "check")
              /\ (stage' \notin {"check", "followup"} => Len(questions) = N)
    BY <1>7, <1>11, <1>14
  <1>15. CASE DecideReRfi
    <2>1. table' = table /\ questions' = questions /\ stage = "check" /\ stage' # "check"
      BY <1>15 DEF DecideReRfi, check
    <2>2. stage' \notin {"check", "followup"} => N = 0
      BY <1>4, <1>15 DEF DecideReRfi
    <2>3. Len(questions) = 0
      BY <1>7, <2>1
    <2> QED
      BY <1>14, <2>1, <2>2, <2>3
  <1>16. CASE FollowUpDrafted
    BY <1>14, <1>16 DEF FollowUpDrafted, check, N
  <1>17. CASE \/ BuildSar \/ Revise \/ NothingToFill \/ LoopEnds \/ Flag \/ Ended
              \/ UNCHANGED draftVars
    <2>1. table' = table /\ questions' = questions
      BY <1>17 DEF BuildSar, Revise, NothingToFill, LoopEnds, Flag, Ended, check, draftVars
    <2>2. stage' = stage \/ (stage \notin {"check", "followup"} /\ stage' # "check")
      BY <1>17 DEF BuildSar, Revise, NothingToFill, LoopEnds, Flag, Ended, draftVars, Grade, Fixpoint
    <2> QED
      BY <1>7, <1>14, <2>1, <2>2
  <1> QED
    BY <1>12, <1>13, <1>15, <1>16, <1>17 DEF DraftNext

\* What is appended is last.
LEMMA LastAppended ==
    ASSUME NEW S, NEW s \in Seq(S), NEW x \in S
    PROVE  Append(s, x)[Len(Append(s, x))] = x
  OBVIOUS

\* The draft is the first one or the one a single pass makes of it.
LEMMA SarStep ==
    ASSUME DraftInv, [DraftNext]_draftVars
    PROVE  SarInv'
  <1> DEFINE first == First(w, ToSet(Contradictions))
             filled == Filled(w, ToSet(Contradictions))
  <1>1. w' = w /\ cap' = cap
    BY TablesStay
  <1>2. /\ stage \in {"check", "followup", "draft", "loop", "flag", "done", "refused"}
        /\ stage \in {"check", "followup", "draft"} => critiques = << >> /\ revisions = << >>
        /\ stage \in {"loop", "flag", "done"} => Valid(w, draft) /\ Graded(first, filled)
        /\ stage = "refused" => ~Valid(w, draft) /\ draft \in {first, filled}
        /\ stage = "done" => flagged = Gaps
        /\ cap \in Nat
    BY DraftingAssumption DEF DraftInv, SarInv
  <1>3. ASSUME table' = table PROVE first' = first /\ filled' = filled
    <2>1. Contradictions' = Contradictions
      BY <1>3 DEF Contradictions
    <2> QED
      BY <1>1, <2>1 DEF First, Filled
  <1>4. /\ gap_keys(first) # {} /\ gap_fill_claims(w, gap_keys(first)) # {}
        /\ filled = first \cup gap_fill_claims(w, gap_keys(first))
        /\ gap_fill_claims(w, gap_keys(filled)) = {}
    BY FirstPassFills, OnePassFillsAll DEF First, Filled
  <1> HIDE DEF first, filled
  <1> SUFFICES /\ stage' \in {"check", "followup", "draft"} => critiques' = << >> /\ revisions' = << >>
               /\ stage' \in {"loop", "flag", "done"}
                    => Valid(w, draft') /\ (Graded(first, filled))'
               /\ stage' = "refused" => ~Valid(w, draft') /\ draft' \in {first', filled'}
               /\ stage' = "done" => flagged' = (Gaps)'
    BY <1>1 DEF SarInv, first, filled
  <1>5. CASE \/ Adjudicate \/ DecideReRfi \/ DraftQuestion \/ FollowUpDrafted
    <2>1. critiques' = critiques /\ revisions' = revisions
      BY <1>5 DEF Adjudicate, DecideReRfi, DraftQuestion, FollowUpDrafted, sar
    <2>2. stage \in {"check", "followup"} /\ stage' \in {"check", "followup", "draft"}
      BY <1>5 DEF Adjudicate, DecideReRfi, DraftQuestion, FollowUpDrafted
    <2> QED
      BY <1>2, <2>1, <2>2
  <1>6. CASE BuildSar
    <2>1. /\ stage = "draft" /\ draft' = first /\ table' = table /\ revisions' = revisions
          /\ IF Valid(w, first)
             THEN stage' = "loop" /\ critiques' = Append(critiques, gap_keys(first))
             ELSE stage' = "refused" /\ UNCHANGED critiques
      BY <1>6 DEF BuildSar, Grade, check, first, First
    <2>2. critiques = << >> /\ revisions = << >>
      BY <1>2, <2>1
    <2>3. CASE Valid(w, first)
      <3>1. stage' = "loop" /\ critiques' = <<gap_keys(first)>>
        BY <2>1, <2>2, <2>3
      <3>2. (Graded(first, filled))'
        BY <1>3, <2>1, <2>2, <3>1 DEF Graded
      <3> QED
        BY <2>1, <2>3, <3>1, <3>2
    <2>4. CASE ~Valid(w, first)
      BY <1>3, <2>1, <2>4
    <2> QED
      BY <2>3, <2>4
  <1>7. CASE Revise
    <2>1. /\ stage = "loop" /\ MayRevise /\ NewClaims # {} /\ table' = table
          /\ draft' = draft \cup NewClaims
          /\ IF Valid(w, draft \cup NewClaims)
             THEN stage' = "loop" /\ critiques' = Append(critiques, gap_keys(draft \cup NewClaims))
             ELSE stage' = "refused" /\ UNCHANGED critiques
          /\ revisions' = IF stage' = "loop"
                          THEN Append(revisions, {c.element : c \in NewClaims}) ELSE revisions
      BY <1>7 DEF Revise, Grade, check
    <2>2. Graded(first, filled)
      BY <1>2, <2>1
    <2>3. CASE draft = first /\ revisions = << >> /\ critiques = <<gap_keys(first)>>
      <3>1. Gaps = gap_keys(first)
        BY <2>3 DEF Gaps
      <3>2. draft' = filled /\ draft \cup NewClaims = filled
        BY <1>4, <2>1, <2>3, <3>1 DEF NewClaims
      <3>3. cap # 0
        BY <1>2, <2>1, <2>3 DEF MayRevise
      <3>4. CASE Valid(w, filled)
        <4>1. stage' = "loop" /\ critiques' = Append(<<gap_keys(first)>>, gap_keys(filled))
          BY <2>1, <2>3, <3>2, <3>4
        <4>2. Len(revisions') = 1
          <5>1. revisions' = Append(<< >>, {c.element : c \in NewClaims})
            BY <2>1, <2>3, <4>1
          <5> QED
            BY <5>1
        <4>3. (Graded(first, filled))'
          BY <1>1, <1>3, <2>1, <3>2, <3>3, <4>1, <4>2 DEF Graded
        <4> QED
          BY <3>2, <3>4, <4>1, <4>3
      <3>5. CASE ~Valid(w, filled)
        BY <1>3, <2>1, <3>2, <3>5
      <3> QED
        BY <3>4, <3>5
    <2>4. CASE critiques = Append(<<gap_keys(first)>>, gap_keys(filled))
      <3>1. Gaps = gap_keys(filled)
        <4> DEFINE S == {gap_keys(first), gap_keys(filled)}
        <4>1. <<gap_keys(first)>> \in Seq(S)
          OBVIOUS
        <4> QED
          BY <2>4, <4>1, LastAppended DEF Gaps
      <3>2. NewClaims = {}
        BY <1>4, <3>1 DEF NewClaims
      <3> QED
        BY <2>1, <3>2
    <2> QED
      BY <2>2, <2>3, <2>4 DEF Graded
  <1>8. CASE NothingToFill \/ LoopEnds
    <2>1. /\ stage = "loop" /\ stage' = "flag" /\ table' = table
          /\ draft' = draft /\ critiques' = critiques /\ revisions' = revisions
          /\ ~MayRevise \/ NewClaims = {}
      BY <1>8 DEF NothingToFill, LoopEnds, check, sar, Fixpoint
    <2>2. Graded(first, filled) /\ Valid(w, draft)
      BY <1>2, <2>1
    <2>3. CASE draft = first /\ revisions = << >> /\ critiques = <<gap_keys(first)>>
      <3>1. Gaps = gap_keys(first)
        BY <2>3 DEF Gaps
      <3>2. NewClaims # {} /\ Gaps # {}
        BY <1>4, <3>1 DEF NewClaims
      <3>3. cap = 0
        BY <1>2, <2>1, <2>3, <3>2 DEF MayRevise
      <3>4. (Graded(first, filled))'
        BY <1>1, <1>3, <2>1, <2>3, <3>3 DEF Graded
      <3> QED
        BY <2>1, <2>2, <3>4
    <2>4. CASE ~(draft = first /\ revisions = << >> /\ critiques = <<gap_keys(first)>>)
      <3>1. (Graded(first, filled))'
        BY <1>1, <1>3, <2>1, <2>2, <2>4 DEF Graded
      <3> QED
        BY <2>1, <2>2, <3>1
    <2> QED
      BY <2>3, <2>4
  <1>9. CASE Flag \/ Ended \/ UNCHANGED draftVars
    <2>1. /\ table' = table /\ draft' = draft /\ critiques' = critiques /\ revisions' = revisions
      BY <1>9 DEF Flag, Ended, check, sar, draftVars
    <2>2. Gaps' = Gaps
      BY <2>1 DEF Gaps
    <2>3. \/ stage = "flag" /\ stage' = "done" /\ flagged' = Gaps
          \/ stage' = stage /\ flagged' = flagged
      BY <1>9 DEF Flag, Ended, sar, draftVars
    <2>4. ASSUME stage \in {"loop", "flag", "done"}, stage' = stage \/ stage' = "done"
          PROVE (Graded(first, filled))'
      <3>1. Graded(first, filled)
        BY <1>2, <2>4
      <3>2. stage = "loop" => stage' = "loop" \/ stage' = stage \/ stage = "flag"
        BY <2>3
      <3>3. CASE cap = 0 \/ stage # "loop" \/ stage' = "loop"
        BY <1>1, <1>3, <2>1, <2>3, <3>1, <3>3 DEF Graded
      <3> QED
        BY <2>3, <3>3
    <2> QED
      BY <1>2, <1>3, <2>1, <2>2, <2>3, <2>4
  <1> QED
    BY <1>5, <1>6, <1>7, <1>8, <1>9 DEF DraftNext

\* Every stage of a run holds what its tables make of it.
LEMMA DraftInvHolds ==
    DraftSpec => []DraftInv
  <1>1. DraftInit => DraftInv
    <2> SUFFICES ASSUME DraftInit PROVE DraftInv
      OBVIOUS
    <2>1. /\ w \in Worlds /\ cap \in Passes /\ stage = "check"
          /\ table = << >> /\ questions = << >> /\ critiques = << >> /\ revisions = << >>
      BY DEF DraftInit
    <2>2. TableInv
      <3>1. w.rfi \in Seq([denies : BOOLEAN, funds : BOOLEAN, exclusive : BOOLEAN,
                           names : SUBSET Accounts, banned : BOOLEAN])
        BY <2>1, DraftingAssumption DEF RfiTables
      <3>2. 0 <= Len(w.rfi)
        BY <3>1
      <3> QED
        BY <2>1, <3>2 DEF TableInv
    <2>3. QuestionInv
      <3>1. Len(Contradictions) \in Nat
        BY <2>2, ContradictionsShape
      <3> QED
        BY <2>1, <3>1 DEF QuestionInv
    <2>4. SarInv
      BY <2>1 DEF SarInv
    <2> QED
      BY <2>1, <2>2, <2>3, <2>4 DEF DraftInv
  <1>2. DraftInv /\ [DraftNext]_draftVars => DraftInv'
    <2> SUFFICES ASSUME DraftInv, [DraftNext]_draftVars PROVE DraftInv'
      OBVIOUS
    <2>1. w' = w /\ cap' = cap
      BY TablesStay
    <2>2. TableInv' /\ QuestionInv' /\ SarInv'
      BY TableStep, QuestionStep, SarStep
    <2>3. stage' \in {"check", "followup", "draft", "loop", "flag", "done", "refused"}
      <3>1. CASE DraftNext
        BY <3>1 DEF DraftInv, DraftNext, Adjudicate, DecideReRfi, DraftQuestion, FollowUpDrafted,
           BuildSar, Grade, Revise, NothingToFill, Fixpoint, LoopEnds, Flag, Ended, draftVars
      <3>2. CASE UNCHANGED draftVars
        BY <3>2 DEF DraftInv, draftVars
      <3> QED
        BY <3>1, <3>2
    <2> QED
      BY <2>1, <2>2, <2>3 DEF DraftInv
  <1> QED
    BY <1>1, <1>2, PTL DEF DraftSpec

-----------------------------------------------------------------------------
(* The follow-up                                                           *)

\* Cited rows name their table.
LEMMA CitesShape ==
    ASSUME NEW source, NEW X
    PROVE  /\ \A x \in X : <<source, x>> \in Cites(source, X)
           /\ \A row \in Cites(source, X) : row[1] = source /\ row[2] \in X /\ row = <<source, row[2]>>
           /\ Cites(source, X) = {} <=> X = {}
  <1>1. \A x \in X : <<source, x>> \in Cites(source, X)
    BY DEF Cites
  <1>2. ASSUME NEW row \in Cites(source, X)
        PROVE  row[1] = source /\ row[2] \in X /\ row = <<source, row[2]>>
    BY DEF Cites
  <1>3. Cites(source, X) = {} <=> X = {}
    BY <1>1, <1>2
  <1> QED
    BY <1>1, <1>2, <1>3

\* A rebuttal cites something, all of it from one table.
Tabled(r, table_name) == r.cites # {} /\ \A row \in r.cites : row[1] = table_name

\* What the four probes give, and from which tables.
LEMMA RebuttalsCite ==
    ASSUME NEW t, NEW claim, NEW r \in run_checkers(t, claim)
    PROVE  \/ r.source = "registry" /\ Tabled(r, "registry")
           \/ r.source = "prior_rfi" /\ (\E row : r.cites = {row}) /\ Tabled(r, "rfi_prior")
           \/ r.source = "onchain" /\ (Tabled(r, "transactions") \/ Tabled(r, "gas_funding"))
           \/ r.source = "device" /\ Tabled(r, "devices")
  <1>1. CASE r \in check_registry(t, claim)
    <2>1. PICK p \in t.officers \X t.officers : r = Rebuttal("registry", 80, Cites("registry", {p[1], p[2]}))
      BY <1>1 DEF check_registry
    <2>2. r.source = "registry" /\ r.cites = Cites("registry", {p[1], p[2]})
      BY <2>1 DEF Rebuttal
    <2>3. Tabled(r, "registry")
      BY <2>2, CitesShape DEF Tabled
    <2> QED
      BY <2>2, <2>3
  <1>2. CASE r \in check_prior_rfi(t, claim)
    <2>1. PICK k : r = Rebuttal("prior_rfi", 80, Cites("rfi_prior", {k}))
      BY <1>2 DEF check_prior_rfi
    <2>2. r.cites = Cites("rfi_prior", {k}) /\ r.source = "prior_rfi"
      BY <2>1 DEF Rebuttal
    <2>3. r.cites = {<<"rfi_prior", k>>}
      BY <2>2, CitesShape
    <2>4. Tabled(r, "rfi_prior")
      BY <2>2, CitesShape DEF Tabled
    <2> QED
      BY <2>2, <2>3, <2>4
  <1>3. CASE r \in check_onchain(t, claim)
    <2>1. \E strength, x : /\ r = Rebuttal("onchain", strength, x) /\ x # {}
                           /\ (\E y : x = Cites("transactions", y)) \/ (\E y : x = Cites("gas_funding", y))
      <3> DEFINE legs == {<<50, Cites("transactions", Flows(t, o))>> :
                             o \in IF claim.denies THEN named_entities(t, claim) ELSE {}}
                 funds == IF claim.funds
                          THEN {<<90, Cites("transactions", ToSet(ExposurePath(t)))>>,
                                <<50, Cites("transactions", Structured(t))>>,
                                <<60, Cites("gas_funding", PaidHops(t))>>}
                          ELSE {}
      <3>1. PICK f \in legs \cup funds : f[2] # {} /\ r = Rebuttal("onchain", f[1], f[2])
        BY <1>3 DEF check_onchain
      <3>2. (\E y : f[2] = Cites("transactions", y)) \/ (\E y : f[2] = Cites("gas_funding", y))
        BY <3>1
      <3> QED
        BY <3>1, <3>2
    <2>2. PICK strength, x :
             /\ r = Rebuttal("onchain", strength, x) /\ x # {}
             /\ (\E y : x = Cites("transactions", y)) \/ (\E y : x = Cites("gas_funding", y))
      BY <2>1
    <2>3. r.source = "onchain" /\ r.cites = x
      BY <2>2 DEF Rebuttal
    <2>4. CASE \E y : x = Cites("transactions", y)
      <3>1. Tabled(r, "transactions")
        BY <2>2, <2>3, <2>4, CitesShape DEF Tabled
      <3> QED
        BY <2>3, <3>1
    <2>5. CASE \E y : x = Cites("gas_funding", y)
      <3>1. Tabled(r, "gas_funding")
        BY <2>2, <2>3, <2>5, CitesShape DEF Tabled
      <3> QED
        BY <2>3, <3>1
    <2> QED
      BY <2>2, <2>4, <2>5
  <1>4. CASE r \in check_device(t, claim)
    <2>1. PICK f \in Fingerprints :
             t.subject \in t.devices[f] /\ r = Rebuttal("device", 50, Cites("devices", {f} \X t.devices[f]))
      BY <1>4 DEF check_device
    <2>2. r.source = "device" /\ r.cites = Cites("devices", {f} \X t.devices[f])
      BY <2>1 DEF Rebuttal
    <2>3. <<f, t.subject>> \in {f} \X t.devices[f]
      BY <2>1
    <2>4. Tabled(r, "devices")
      BY <2>2, <2>3, CitesShape DEF Tabled
    <2> QED
      BY <2>2, <2>4
  <1> QED
    BY <1>1, <1>2, <1>3, <1>4 DEF run_checkers

\* What is asked about a contradicted claim.
LEMMA RequestsAre ==
    ASSUME NEW adj, NEW q
    PROVE  LET From(source) == UNION {r.cites : r \in {r \in adj.rebuttals : r.source = source}}
               moved == {row \in From("onchain") : row[1] = "transactions"}
           IN  q \in Requests(adj) <=>
                 \/ q = Ask("transactions", moved) /\ moved # {}
                 \/ q = Ask("corporate_records", {}) /\ \E r \in adj.rebuttals : r.source = "registry"
                 \/ \E p \in From("prior_rfi") : q = Ask("prior_response", {p})
  BY DEF Requests, Sources

AskedWell(adj, asked) ==
    LET legs == {r \in adj.rebuttals : /\ r.source # "device"
                                       /\ \A row \in r.cites : row[1] # "gas_funding"}
        kinds == {r.kind : r \in asked.requests} \cup asked.suppressed
    IN  /\ asked.claim = adj.claim
        /\ legs = {} <=> kinds = {}
        /\ \A r \in asked.requests : /\ r.names \cap w.tipping = {}
                                     /\ \A row \in r.names : row[1] \in {"transactions", "rfi_prior"}
        /\ \A r \in legs : r.source = "prior_rfi" =>
              r.cites \subseteq w.tipping \cup UNION {x.names : x \in asked.requests}

\* The question about a contradicted claim asks about every leg it may.
LEMMA QuestionAsks ==
    ASSUME NEW adj, NEW t, NEW claim, adj.rebuttals = run_checkers(t, claim)
    PROVE  AskedWell(adj, Question(adj))
  <1> DEFINE asked == Question(adj)
             legs == {r \in adj.rebuttals : /\ r.source # "device"
                                            /\ \A row \in r.cites : row[1] # "gas_funding"}
             kinds == {r.kind : r \in asked.requests} \cup asked.suppressed
             From(source) == UNION {r.cites : r \in {r \in adj.rebuttals : r.source = source}}
             moved == {row \in From("onchain") : row[1] = "transactions"}
  <1>1. /\ asked.claim = adj.claim
        /\ asked.requests = {q \in Requests(adj) : ~tips_off(q)}
        /\ asked.suppressed = {q.kind : q \in {q \in Requests(adj) : tips_off(q)}}
    BY DEF Question
  <1> HIDE DEF asked
  <1>2. \A r \in adj.rebuttals :
           \/ r.source = "registry" /\ Tabled(r, "registry")
           \/ r.source = "prior_rfi" /\ (\E row : r.cites = {row}) /\ Tabled(r, "rfi_prior")
           \/ r.source = "onchain" /\ (Tabled(r, "transactions") \/ Tabled(r, "gas_funding"))
           \/ r.source = "device" /\ Tabled(r, "devices")
    BY RebuttalsCite
  <1>3. \A q : q \in Requests(adj) <=>
                 \/ q = Ask("transactions", moved) /\ moved # {}
                 \/ q = Ask("corporate_records", {}) /\ \E r \in adj.rebuttals : r.source = "registry"
                 \/ \E p \in From("prior_rfi") : q = Ask("prior_response", {p})
    BY RequestsAre
  <1>4. kinds = {} <=> Requests(adj) = {}
    <2>1. ASSUME NEW q \in Requests(adj) PROVE q.kind \in kinds
      BY <1>1
    <2>2. ASSUME Requests(adj) = {} PROVE kinds = {}
      BY <1>1, <2>2
    <2> QED
      BY <2>1, <2>2
  <1>5. ASSUME legs = {} PROVE Requests(adj) = {}
    <2> SUFFICES ASSUME NEW q \in Requests(adj) PROVE FALSE
      OBVIOUS
    <2>1. CASE moved # {}
      <3>0. PICK row \in moved : TRUE
        BY <2>1
      <3>1. PICK r \in adj.rebuttals : /\ r.source = "onchain" /\ row \in r.cites
                                        /\ row[1] = "transactions"
        OBVIOUS
      <3>2. Tabled(r, "transactions")
        BY <1>2, <3>1 DEF Tabled
      <3>3. r \in legs
        BY <3>1, <3>2 DEF Tabled
      <3> QED
        BY <1>5, <3>3
    <2>2. CASE \E r \in adj.rebuttals : r.source = "registry"
      <3>1. PICK r \in adj.rebuttals : r.source = "registry"
        BY <2>2
      <3>2. Tabled(r, "registry")
        BY <1>2, <3>1
      <3>3. r \in legs
        BY <3>1, <3>2 DEF Tabled
      <3> QED
        BY <1>5, <3>3
    <2>3. CASE \E p \in From("prior_rfi") : TRUE
      <3>1. PICK r \in adj.rebuttals : r.source = "prior_rfi"
        BY <2>3
      <3>2. Tabled(r, "rfi_prior")
        BY <1>2, <3>1
      <3>3. r \in legs
        BY <3>1, <3>2 DEF Tabled
      <3> QED
        BY <1>5, <3>3
    <2> QED
      BY <1>3, <2>1, <2>2, <2>3
  <1>6. ASSUME NEW r \in legs PROVE Requests(adj) # {}
    <2>1. r \in adj.rebuttals /\ r.source # "device" /\ ~Tabled(r, "gas_funding")
      BY <1>6 DEF Tabled
    <2>2. CASE r.source = "registry"
      <3>1. Ask("corporate_records", {}) \in Requests(adj)
        BY <1>3, <2>1, <2>2
      <3> QED
        BY <3>1
    <2>3. CASE r.source = "prior_rfi"
      <3>1. PICK row \in r.cites : TRUE
        BY <1>2, <2>1, <2>3
      <3>2. row \in From("prior_rfi")
        BY <2>1, <2>3, <3>1
      <3>3. Ask("prior_response", {row}) \in Requests(adj)
        BY <1>3, <3>2
      <3> QED
        BY <3>3
    <2>4. CASE r.source = "onchain"
      <3>1. Tabled(r, "transactions")
        BY <1>2, <2>1, <2>4
      <3>2. PICK row \in r.cites : row[1] = "transactions"
        BY <3>1 DEF Tabled
      <3>3. row \in moved
        BY <2>1, <2>4, <3>2
      <3>4. Ask("transactions", moved) \in Requests(adj)
        BY <1>3, <3>3
      <3> QED
        BY <3>4
    <2> QED
      BY <1>2, <2>1, <2>2, <2>3, <2>4
  <1>7. ASSUME NEW q \in Requests(adj)
        PROVE  \A row \in q.names : row[1] \in {"transactions", "rfi_prior"}
    <2>1. CASE q = Ask("transactions", moved)
      BY <2>1 DEF Ask
    <2>2. CASE q = Ask("corporate_records", {})
      BY <2>2 DEF Ask
    <2>3. CASE \E p \in From("prior_rfi") : q = Ask("prior_response", {p})
      <3>1. PICK p \in From("prior_rfi") : q = Ask("prior_response", {p})
        BY <2>3
      <3>2. PICK r \in adj.rebuttals : r.source = "prior_rfi" /\ p \in r.cites
        OBVIOUS
      <3>3. Tabled(r, "rfi_prior")
        BY <1>2, <3>2
      <3>4. p[1] = "rfi_prior"
        BY <3>2, <3>3 DEF Tabled
      <3>5. q.names = {p}
        BY <3>1 DEF Ask
      <3> QED
        BY <3>4, <3>5
    <2> QED
      BY <1>3, <2>1, <2>2, <2>3
  <1>8. \A q \in asked.requests : /\ q.names \cap w.tipping = {}
                                  /\ \A row \in q.names : row[1] \in {"transactions", "rfi_prior"}
    BY <1>1, <1>7 DEF tips_off
  <1>9. ASSUME NEW r \in legs, r.source = "prior_rfi", NEW row \in r.cites
        PROVE  row \in UNION {x.names : x \in asked.requests} \/ row \in w.tipping
    <2> DEFINE q == Ask("prior_response", {row})
    <2>1. row \in From("prior_rfi")
      BY <1>9
    <2>2. q \in Requests(adj)
      BY <1>3, <2>1
    <2>3. q.names = {row}
      BY DEF Ask
    <2> HIDE DEF q
    <2> QED
      BY <1>1, <2>2, <2>3 DEF tips_off
  <1>10. \A r \in legs : r.source = "prior_rfi" =>
            r.cites \subseteq w.tipping \cup UNION {x.names : x \in asked.requests}
    BY <1>9
  <1>11. legs = {} <=> kinds = {}
    BY <1>4, <1>5, <1>6
  <1> QED
    BY <1>1, <1>8, <1>10, <1>11 DEF asked, AskedWell

\* The subject is asked about every contradicted claim, and told nothing it may
\* not be told.
THEOREM EveryContradictionIsAsked ==
    DraftSpec => []ContradictionsAreAsked
  <1>1. DraftInv => ContradictionsAreAsked
    <2> SUFFICES ASSUME DraftInv, stage \notin {"check", "followup"}
                 PROVE  /\ Len(questions) = Len(Contradictions)
                        /\ \A n \in DOMAIN questions : AskedWell(Contradictions[n], questions[n])
      BY DEF ContradictionsAreAsked, AskedWell
    <2>1. TableInv /\ QuestionInv
      BY DEF DraftInv
    <2>2. Len(questions) = Len(Contradictions)
      BY <2>1 DEF QuestionInv
    <2>3. ASSUME NEW n \in DOMAIN questions
          PROVE  questions[n] = Question(Contradictions[n])
                  /\ \E k \in DOMAIN w.rfi : Contradictions[n].rebuttals = run_checkers(w, w.rfi[k])
      <3>1. Len(questions) <= Len(Contradictions) /\ DOMAIN questions = 1..Len(questions)
            /\ questions[n] = Question(Contradictions[n])
        BY <2>1 DEF QuestionInv
      <3>2. Contradictions[n] \in Adjudications(w)
        BY <2>1, <2>2, <3>1, ContradictionsShape
      <3>3. PICK k \in DOMAIN w.rfi : Contradictions[n] = Adjudication(w, k)
        BY <3>2 DEF Adjudications
      <3>4. Contradictions[n].rebuttals = run_checkers(w, w.rfi[k])
        BY <3>3 DEF Adjudication
      <3> QED
        BY <3>1, <3>4
    <2> QED
      BY <2>2, <2>3, QuestionAsks
  <1> QED
    BY <1>1, DraftInvHolds, PTL

-----------------------------------------------------------------------------
(* The money: shortest paths and where they lead                           *)

\* what transfers go between
References == Accounts \cup Addresses

\* The ledger is numbered from 1 and moves money between references.
LEMMA LedgerShape ==
    ASSUME NEW t, RfiTables(t)
    PROVE  /\ Len(t.txs) \in Nat /\ Txs(t) = 1..Len(t.txs)
           /\ \A i \in Txs(t) : t.txs[i].from \in References /\ t.txs[i].to \in References
  <1> DEFINE Transfer == [from : References, to : References, structured : BOOLEAN]
  <1>1. t.txs \in Seq(Transfer)
    BY DEF RfiTables, References
  <1>2. \A r \in Transfer : r.from \in References /\ r.to \in References
    OBVIOUS
  <1> HIDE DEF Transfer
  <1>3. /\ Len(t.txs) \in Nat /\ DOMAIN t.txs = 1..Len(t.txs)
        /\ \A i \in 1..Len(t.txs) : t.txs[i] \in Transfer
    BY <1>1
  <1> QED
    BY <1>2, <1>3 DEF Txs

\* n transfers of t, one after the other, from start on
Trail(t, start, p, n) ==
    /\ p \in [1..n -> Txs(t)]
    /\ t.txs[p[1]].from \in start
    /\ \A k \in 2..n : t.txs[p[k]].from = t.txs[p[k - 1]].to

\* The paths the search looks among are the trails that end in a sanctioned
\* address.
LEMMA PathsAreTrails ==
    ASSUME NEW t, RfiTables(t), NEW start, NEW path
    PROVE  /\ path \in Paths(t, start) <=>
                \E n \in Txs(t) : Trail(t, start, path, n) /\ t.txs[path[n]].to \in t.sanctioned
           /\ \A n \in Txs(t) : path \in [1..n -> Txs(t)] => Len(path) = n
  <1>1. \A n \in Txs(t) : path \in [1..n -> Txs(t)] => Len(path) = n
    BY LedgerShape
  <1>2. ASSUME path \in Paths(t, start)
        PROVE  \E n \in Txs(t) : Trail(t, start, path, n) /\ t.txs[path[n]].to \in t.sanctioned
    <2>1. PICK n \in Txs(t) : path \in [1..n -> Txs(t)]
      BY <1>2 DEF Paths
    <2>2. Len(path) = n
      BY <1>1, <2>1
    <2>3. /\ t.txs[path[1]].from \in start
          /\ \A k \in 2..Len(path) : t.txs[path[k]].from = t.txs[path[k - 1]].to
          /\ t.txs[path[Len(path)]].to \in t.sanctioned
      BY <1>2 DEF Paths
    <2> QED
      BY <2>1, <2>2, <2>3 DEF Trail
  <1>3. ASSUME NEW n \in Txs(t), Trail(t, start, path, n), t.txs[path[n]].to \in t.sanctioned
        PROVE  path \in Paths(t, start)
    <2>1. path \in [1..n -> Txs(t)]
      BY <1>3 DEF Trail
    <2>2. Len(path) = n
      BY <1>1, <2>1
    <2> QED
      BY <1>3, <2>1, <2>2 DEF Trail, Paths
  <1> QED
    BY <1>1, <1>2, <1>3

\* Among the paths there is one the search finds.
LEMMA SomethingIsSoonest ==
    ASSUME NEW t, RfiTables(t), NEW start, Paths(t, start) # {}
    PROVE  \E path \in Paths(t, start) : \A other \in Paths(t, start) : Sooner(t, path, other)
  <1> DEFINE P == Paths(t, start)
             Lengths == {Len(path) : path \in P}
  <1>1. Len(t.txs) \in Nat /\ Txs(t) = 1..Len(t.txs)
    BY LedgerShape
  <1>2. \A path \in P : Len(path) \in Txs(t) /\ path \in [1..Len(path) -> Txs(t)]
    <2> SUFFICES ASSUME NEW path \in P PROVE Len(path) \in Txs(t) /\ path \in [1..Len(path) -> Txs(t)]
      OBVIOUS
    <2>1. PICK n \in Txs(t) : Trail(t, start, path, n)
      BY PathsAreTrails
    <2>2. path \in [1..n -> Txs(t)]
      BY <2>1 DEF Trail
    <2>3. Len(path) = n
      BY <2>2, PathsAreTrails
    <2> QED
      BY <2>2, <2>3
  <1> HIDE DEF P
  <1>3. Lengths \in SUBSET Nat /\ Lengths # {}
    BY <1>1, <1>2 DEF P
  <1> HIDE DEF Lengths
  <1>4. PICK n \in Lengths : \A m \in Lengths : n <= m
    BY <1>3, NatLeast
  <1>5. n \in Nat /\ n \in Txs(t) /\ (\E path \in P : Len(path) = n)
        /\ \A path \in P : n <= Len(path)
    <2>1. PICK path \in P : Len(path) = n
      BY DEF Lengths
    <2>2. n \in Txs(t) /\ n \in Nat
      BY <1>1, <1>2, <2>1
    <2> QED
      BY <1>4, <2>1, <2>2 DEF Lengths
  <1>6. PICK p0 \in P : Len(p0) = n
    BY <1>5
  <1> DEFINE X == {path \in P : Len(path) = n /\ t.txs[path[1]].from = t.txs[p0[1]].from}
             r == [path \in X |-> [k \in 1..n |-> - path[k]]]
             Negated == {- i : i \in Txs(t)}
  <1>7. X # {}
    BY <1>6
  <1>8. \A k \in 1..n, x \in X : x[k] \in Txs(t) /\ x[k] \in Int /\ r[x][k] = - x[k]
    <2>1. \A x \in X : x \in [1..n -> Txs(t)]
      BY <1>2
    <2>2. \A k \in 1..n, x \in X : r[x][k] = - x[k]
      OBVIOUS
    <2> HIDE DEF X, r
    <2>3. \A k \in 1..n, x \in X : x[k] \in Txs(t)
      BY <2>1
    <2>4. \A i \in Txs(t) : i \in Int
      BY <1>1
    <2> QED
      BY <2>2, <2>3, <2>4
  <1>9. IsFiniteSet(Negated)
    <2> DEFINE f == [i \in Txs(t) |-> - i]
    <2>1. f \in Surjection(Txs(t), Negated)
      BY DEF Surjection
    <2>2. IsFiniteSet(Txs(t))
      BY <1>1, FS_Interval
    <2> HIDE DEF f
    <2> QED
      BY <2>1, <2>2, FS_Surjection
  <1> HIDE DEF X, r
  <1>10. ASSUME NEW k \in 1..n
         PROVE  /\ \A x \in X : r[x][k] \in Int
                /\ IsFiniteSet({r[x][k] : x \in X})
    <2>1. \A x \in X : r[x][k] \in Int /\ r[x][k] \in Negated
      BY <1>8
    <2>2. {r[x][k] : x \in X} \in SUBSET Negated
      BY <2>1
    <2> QED
      BY <1>9, <2>1, <2>2, FS_Subset
  <1> HIDE DEF Negated
  <1>11. PICK path \in X : \A y \in X : Leads(r, path, y, n)
    BY <1>5, <1>7, <1>10, SomethingLeads
  <1>12. path \in P /\ Len(path) = n /\ t.txs[path[1]].from = t.txs[p0[1]].from
    BY <1>11 DEF X
  <1>13. ASSUME NEW other \in P PROVE Sooner(t, path, other)
    <2>1. n <= Len(other) /\ Len(other) \in Nat
      BY <1>1, <1>2, <1>5
    <2>2. CASE Len(other) # n
      BY <1>5, <1>12, <2>1, <2>2 DEF Sooner
    <2>3. CASE Len(other) = n /\ t.txs[other[1]].from # t.txs[p0[1]].from
      BY <1>12, <2>3 DEF Sooner
    <2>4. CASE Len(other) = n /\ t.txs[other[1]].from = t.txs[p0[1]].from
      <3>1. other \in X
        BY <2>4 DEF X
      <3>2. path \in [1..n -> Txs(t)] /\ other \in [1..n -> Txs(t)]
        BY <1>2, <1>12, <2>4
      <3>3. CASE \A k \in 1..n : r[path][k] = r[other][k]
        <4>1. \A k \in 1..n : path[k] = other[k]
          BY <1>8, <3>1, <3>3
        <4>2. path = [k \in 1..n |-> path[k]] /\ other = [k \in 1..n |-> other[k]]
          BY <3>2
        <4>3. [k \in 1..n |-> path[k]] = [k \in 1..n |-> other[k]]
          BY <4>1
        <4>4. path = other
          BY <4>2, <4>3
        <4> QED
          BY <4>4 DEF Sooner
      <3>4. CASE \E k \in 1..n : r[path][k] > r[other][k] /\ \A j \in 1..k - 1 : r[path][j] = r[other][j]
        <4>1. PICK k \in 1..n : r[path][k] > r[other][k] /\ \A j \in 1..k - 1 : r[path][j] = r[other][j]
          BY <3>4
        <4>2. path[k] < other[k]
          BY <1>8, <3>1, <4>1
        <4>3. \A j \in 1..k - 1 : j \in 1..n
          BY <1>5
        <4>4. \A j \in 1..k - 1 : path[j] = other[j]
          BY <1>8, <3>1, <4>1, <4>3
        <4>5. k \in DOMAIN path
          BY <3>2
        <4> QED
          BY <1>12, <2>4, <4>2, <4>4, <4>5 DEF Sooner
      <3> QED
        BY <1>11, <3>1, <3>3, <3>4 DEF Leads
    <2> QED
      BY <2>2, <2>3, <2>4
  <1> QED
    BY <1>12, <1>13 DEF P

\* What the search returns is a path, and something only when there is one.
LEMMA FlowIsAPath ==
    ASSUME NEW t, RfiTables(t), NEW start
    PROVE  /\ Paths(t, start) # {} => sanctioned_flow(t, start) \in Paths(t, start)
           /\ Paths(t, start) = {} => sanctioned_flow(t, start) = << >>
           /\ ToSet(sanctioned_flow(t, start)) \subseteq Txs(t)
           /\ ToSet(sanctioned_flow(t, start)) # {} <=> Paths(t, start) # {}
  <1> DEFINE paths == Paths(t, start)
             flow == sanctioned_flow(t, start)
  <1>1. ASSUME paths # {} PROVE flow \in paths
    <2>1. flow = CHOOSE path \in paths : \A other \in paths : Sooner(t, path, other)
      BY <1>1 DEF sanctioned_flow
    <2>2. \E path \in paths : \A other \in paths : Sooner(t, path, other)
      BY <1>1, SomethingIsSoonest
    <2> HIDE DEF paths, flow
    <2> QED
      BY <2>1, <2>2, Zenon
  <1>2. ASSUME paths = {} PROVE flow = << >>
    BY <1>2 DEF sanctioned_flow
  <1>3. ASSUME NEW path \in paths PROVE ToSet(path) \subseteq Txs(t) /\ ToSet(path) # {}
    <2>1. PICK n \in Txs(t) : path \in [1..n -> Txs(t)]
      BY DEF Paths
    <2>2. n \in 1..n
      BY <2>1, LedgerShape
    <2>3. ToSet(path) = {path[k] : k \in 1..n}
      BY <2>1 DEF ToSet
    <2> QED
      BY <2>1, <2>2, <2>3
  <1>4. ToSet(<< >>) = {}
    BY DEF ToSet
  <1> HIDE DEF paths, flow
  <1>5. ToSet(flow) \subseteq Txs(t) /\ (ToSet(flow) # {} <=> paths # {})
    <2>1. CASE paths = {}
      BY <1>2, <1>4, <2>1
    <2>2. CASE paths # {}
      BY <1>1, <1>3, <2>2
    <2> QED
      BY <2>1, <2>2
  <1> QED
    BY <1>1, <1>2, <1>5 DEF paths, flow

\* The transfers of t, from whom to whom.
Transfers(t) == {<<t.txs[i].from, t.txs[i].to>> : i \in Txs(t)}

\* A trail that does not pass twice over a transfer.
Simple(t, start, p, n) ==
    /\ n \in Nat \ {0}
    /\ Trail(t, start, p, n)
    /\ \A j, k \in 1..n : p[j] = p[k] => j = k

\* A trail that uses no transfer twice is no longer than the ledger.
LEMMA SimpleIsShort ==
    ASSUME NEW t, RfiTables(t), NEW start, NEW p, NEW n, Simple(t, start, p, n)
    PROVE  n \in Txs(t)
  <1> DEFINE N == Len(t.txs)
  <1>1. N \in Nat /\ Txs(t) = 1..N
    BY LedgerShape
  <1>2. n \in Nat \ {0} /\ p \in [1..n -> 1..N] /\ \A j, k \in 1..n : p[j] = p[k] => j = k
    BY <1>1 DEF Simple, Trail
  <1> HIDE DEF N
  <1>3. p \in Injection(1..n, 1..N)
    BY <1>2 DEF Injection, IsInjective
  <1>4. IsFiniteSet(1..N) /\ Cardinality(1..N) = N /\ Cardinality(1..n) = n
    <2>1. 1 \in Int /\ n \in Int /\ N \in Int
      BY <1>1, <1>2
    <2>2. IsFiniteSet(1..N)
      BY <2>1, FS_Interval
    <2>3. Cardinality(1..N) = N /\ Cardinality(1..n) = n
      BY <1>1, <1>2, <2>1, FS_Interval
    <2> QED
      BY <2>2, <2>3
  <1>5. n <= N
    BY <1>3, <1>4, FS_Injection
  <1> QED
    BY <1>1, <1>2, <1>5

\* the end of one
LedTo(t, start, a) == \E p, n : Simple(t, start, p, n) /\ t.txs[p[n]].to = a

\* Where a simple trail, or none at all, has led a transfer leads on.
LEMMA TrailsGoOn ==
    ASSUME NEW t, RfiTables(t), NEW start, NEW j \in Txs(t),
           t.txs[j].from \in start \/ LedTo(t, start, t.txs[j].from)
    PROVE  LedTo(t, start, t.txs[j].to)
  <1>1. CASE t.txs[j].from \in start
    <2> DEFINE q == [k \in 1..1 |-> j]
    <2>1. q \in [1..1 -> Txs(t)] /\ q[1] = j
      OBVIOUS
    <2>2. \A k \in 1..1 : k = 1
      OBVIOUS
    <2>3. \A k \in 2..1 : FALSE
      OBVIOUS
    <2> HIDE DEF q
    <2>4. Trail(t, start, q, 1)
      BY <1>1, <2>1, <2>3 DEF Trail
    <2>5. Simple(t, start, q, 1)
      BY <2>2, <2>4 DEF Simple
    <2> QED
      BY <2>1, <2>5 DEF LedTo
  <1>2. CASE LedTo(t, start, t.txs[j].from)
    <2>1. PICK p, n : Simple(t, start, p, n) /\ t.txs[p[n]].to = t.txs[j].from
      BY <1>2 DEF LedTo
    <2>2. /\ n \in Nat \ {0} /\ p \in [1..n -> Txs(t)] /\ t.txs[p[1]].from \in start
          /\ \A k \in 2..n : t.txs[p[k]].from = t.txs[p[k - 1]].to
          /\ \A i, k \in 1..n : p[i] = p[k] => i = k
      BY <2>1 DEF Simple, Trail
    <2>3. CASE \E k \in 1..n : p[k] = j
      <3>1. PICK m \in 1..n : p[m] = j
        BY <2>3
      <3> DEFINE q == [k \in 1..m |-> p[k]]
      <3>2. m \in Nat \ {0} /\ \A k \in 1..m : k \in 1..n
        BY <2>2, <3>1
      <3>3. q \in [1..m -> Txs(t)] /\ \A k \in 1..m : q[k] = p[k]
        BY <2>2, <3>2
      <3>4. 1 \in 1..m /\ m \in 1..m /\ \A k \in 2..m : k \in 2..n /\ k \in 1..m /\ k - 1 \in 1..m
        BY <2>2, <3>1
      <3> HIDE DEF q
      <3>5. Trail(t, start, q, m)
        BY <2>2, <3>3, <3>4 DEF Trail
      <3>6. \A i, k \in 1..m : q[i] = q[k] => i = k
        BY <2>2, <3>2, <3>3
      <3>7. Simple(t, start, q, m)
        BY <3>2, <3>5, <3>6 DEF Simple
      <3>8. t.txs[q[m]].to = t.txs[j].to
        BY <3>1, <3>3, <3>4
      <3> QED
        BY <3>7, <3>8 DEF LedTo
    <2>4. CASE \A k \in 1..n : p[k] # j
      <3> DEFINE q == [k \in 1..n + 1 |-> IF k = n + 1 THEN j ELSE p[k]]
      <3>1. \A k \in 1..n + 1 : k = n + 1 \/ k \in 1..n
        BY <2>2
      <3>2. n + 1 \in Nat \ {0} /\ n + 1 \in 1..n + 1 /\ \A k \in 1..n : k \in 1..n + 1 /\ k # n + 1
        BY <2>2
      <3>3. q \in [1..n + 1 -> Txs(t)] /\ q[n + 1] = j /\ \A k \in 1..n : q[k] = p[k]
        BY <2>2, <3>1, <3>2
      <3> HIDE DEF q
      <3>4. ASSUME NEW k \in 2..n + 1 PROVE t.txs[q[k]].from = t.txs[q[k - 1]].to
        <4>1. CASE k = n + 1
          <5>1. k - 1 = n /\ n \in 1..n
            BY <2>2, <4>1
          <5> QED
            BY <2>1, <3>3, <4>1, <5>1
        <4>2. CASE k # n + 1
          <5>1. k \in 2..n /\ k \in 1..n /\ k - 1 \in 1..n
            BY <2>2, <4>2
          <5> QED
            BY <2>2, <3>3, <5>1
        <4> QED
          BY <4>1, <4>2
      <3>5. Trail(t, start, q, n + 1)
        <4>1. 1 \in 1..n
          BY <2>2
        <4> QED
          BY <2>2, <3>3, <3>4, <4>1 DEF Trail
      <3>6. \A i, k \in 1..n + 1 : q[i] = q[k] => i = k
        BY <2>2, <2>4, <3>1, <3>3
      <3>7. Simple(t, start, q, n + 1)
        BY <3>2, <3>5, <3>6 DEF Simple
      <3> QED
        BY <3>3, <3>7 DEF LedTo
    <2> QED
      BY <2>3, <2>4
  <1> QED
    BY <1>1, <1>2

\* There is a path from start to a sanctioned address exactly when a transfer
\* into one has a payer every closed set of references with start holds.
LEMMA PathsWhereFundsReach ==
    ASSUME NEW t, RfiTables(t), NEW start \in SUBSET References
    PROVE  Paths(t, start) # {} <=>
              \E e \in Transfers(t) : e[2] \in t.sanctioned /\ Reaches(Transfers(t), start, {e[1]})
  <1>1. ASSUME NEW path \in Paths(t, start)
        PROVE  \E e \in Transfers(t) : e[2] \in t.sanctioned /\ Reaches(Transfers(t), start, {e[1]})
    <2>1. PICK n \in Txs(t) : Trail(t, start, path, n) /\ t.txs[path[n]].to \in t.sanctioned
      BY PathsAreTrails
    <2>2. /\ path \in [1..n -> Txs(t)] /\ t.txs[path[1]].from \in start
          /\ \A k \in 2..n : t.txs[path[k]].from = t.txs[path[k - 1]].to
      BY <2>1 DEF Trail
    <2>3. n \in Nat \ {0}
      BY LedgerShape
    <2> DEFINE e == <<t.txs[path[n]].from, t.txs[path[n]].to>>
    <2>4. n \in 1..n
      BY <2>3
    <2>5. e \in Transfers(t) /\ e[2] \in t.sanctioned /\ e[1] = t.txs[path[n]].from
      BY <2>1, <2>2, <2>4 DEF Transfers
    <2>6. ASSUME NEW C \in SUBSET References, start \subseteq C,
                 \A x \in Transfers(t) : x[1] \in C => x[2] \in C
          PROVE  t.txs[path[n]].from \in C
      <3> DEFINE K == {k \in 0..n : k = 0 \/ t.txs[path[k]].from \in C}
      <3>1. 0 \in K
        BY <2>3
      <3>2. ASSUME NEW k \in 1..n, k - 1 \in K PROVE k \in K
        <4>1. CASE k = 1
          BY <2>2, <2>3, <2>6, <4>1
        <4>2. CASE k # 1
          <5>1. k \in 2..n /\ k - 1 \in 1..n /\ k - 1 # 0 /\ k \in 0..n
            BY <2>3, <4>2
          <5>2. t.txs[path[k - 1]].from \in C
            BY <3>2, <5>1
          <5>3. <<t.txs[path[k - 1]].from, t.txs[path[k - 1]].to>> \in Transfers(t)
            BY <2>2, <5>1 DEF Transfers
          <5>4. t.txs[path[k - 1]].to \in C
            BY <2>6, <5>2, <5>3
          <5>5. t.txs[path[k]].from = t.txs[path[k - 1]].to
            BY <2>2, <5>1
          <5> QED
            BY <5>1, <5>4, <5>5
        <4> QED
          BY <4>1, <4>2
      <3> HIDE DEF K
      <3>3. 0..n \subseteq K
        BY <2>3, <3>1, <3>2, UpTo
      <3>4. n \in K /\ n # 0
        BY <2>3, <3>3
      <3> QED
        BY <3>4 DEF K
    <2>7. Reaches(Transfers(t), start, {e[1]})
      BY <2>5, <2>6 DEF Reaches, References
    <2> QED
      BY <2>5, <2>7
  <1>2. ASSUME NEW e \in Transfers(t), e[2] \in t.sanctioned, Reaches(Transfers(t), start, {e[1]})
        PROVE  Paths(t, start) # {}
    <2> DEFINE C == {a \in References : a \in start \/ LedTo(t, start, a)}
    <2>1. start \subseteq C
      OBVIOUS
    <2>2. ASSUME NEW x \in Transfers(t), x[1] \in C PROVE x[2] \in C
      <3>1. PICK j \in Txs(t) : x = <<t.txs[j].from, t.txs[j].to>>
        BY DEF Transfers
      <3>2. x[1] = t.txs[j].from /\ x[2] = t.txs[j].to
        BY <3>1
      <3>3. LedTo(t, start, t.txs[j].to)
        BY <2>2, <3>2, TrailsGoOn
      <3>4. x[2] \in References
        BY <3>2, LedgerShape
      <3> QED
        BY <3>2, <3>3, <3>4
    <2>3. e[1] \in C
      <3> HIDE DEF C
      <3>1. C \in SUBSET References
        BY DEF C
      <3> QED
        BY <1>2, <2>1, <2>2, <3>1 DEF Reaches, References
    <2>4. PICK i \in Txs(t) : e = <<t.txs[i].from, t.txs[i].to>>
      BY DEF Transfers
    <2>5. e[1] = t.txs[i].from /\ e[2] = t.txs[i].to
      BY <2>4
    <2>8. LedTo(t, start, t.txs[i].to)
      BY <2>3, <2>5, TrailsGoOn
    <2>6. PICK p, n : Simple(t, start, p, n) /\ t.txs[p[n]].to = t.txs[i].to
      BY <2>8 DEF LedTo
    <2>7. n \in Txs(t) /\ Trail(t, start, p, n) /\ t.txs[p[n]].to \in t.sanctioned
      BY <1>2, <2>5, <2>6, SimpleIsShort DEF Simple
    <2> QED
      BY <2>7, PathsAreTrails
  <1> QED
    BY <1>1, <1>2

-----------------------------------------------------------------------------
(* When a claim is called contradicted                                     *)

\* Rebuttals of two sources.
LEMMA TwoSources ==
    ASSUME NEW R, \A r \in R : r.source \in {"registry", "prior_rfi", "onchain", "device"}
    PROVE  Cardinality(Sources(R)) >= 2 <=> \E r, q \in R : r.source # q.source
  <1> DEFINE S == Sources(R)
             All == {"registry", "prior_rfi", "onchain", "device"}
  <1>1. S = {r.source : r \in R} /\ S \in SUBSET All
    BY DEF Sources
  <1>2. IsFiniteSet(All)
    <2>1. IsFiniteSet({}) /\ \A X, x : IsFiniteSet(X) => IsFiniteSet(X \cup {x})
      BY FS_EmptySet, FS_AddElement
    <2>2. All = ((({} \cup {"registry"}) \cup {"prior_rfi"}) \cup {"onchain"}) \cup {"device"}
      OBVIOUS
    <2> HIDE DEF All
    <2> QED
      BY <2>1, <2>2
  <1> HIDE DEF All
  <1>3. IsFiniteSet(S) /\ Cardinality(S) \in Nat
    BY <1>1, <1>2, FS_Subset, FS_CardinalityType
  <1>4. ASSUME NEW r \in R, NEW q \in R, r.source # q.source
        PROVE  Cardinality(S) >= 2
    <2> DEFINE a == r.source
               b == q.source
    <2>1. a \in S /\ b \in S /\ a # b
      BY <1>1, <1>4
    <2> HIDE DEF a, b, S
    <2>2. IsFiniteSet({a}) /\ Cardinality({a}) = 1
      BY FS_Singleton
    <2>6. b \notin {a}
      BY <2>1
    <2> DEFINE one == {a}
    <2>7. IsFiniteSet(one) /\ b \notin one /\ Cardinality(one) = 1
      BY <2>2, <2>6
    <2> HIDE DEF one
    <2>8. Cardinality(one \cup {b}) = Cardinality(one) + 1
      BY <2>7, FS_AddElement
    <2>3. Cardinality({a} \cup {b}) = 2
      BY <2>7, <2>8 DEF one
    <2>4. {a} \cup {b} \in SUBSET S
      BY <2>1
    <2>5. Cardinality({a} \cup {b}) <= Cardinality(S)
      BY <1>3, <2>4, FS_Subset
    <2> QED
      BY <1>3, <2>3, <2>5
  <1>5. ASSUME Cardinality(S) >= 2
        PROVE  \E r, q \in R : r.source # q.source
    <2>1. S # {}
      <3> HIDE DEF S
      <3> QED
        BY <1>5, FS_EmptySet
    <2>2. PICK r \in R : TRUE
      BY <1>1, <2>1
    <2>3. CASE \A q \in R : q.source = r.source
      <3>1. S = {r.source}
        BY <1>1, <2>2, <2>3
      <3>2. Cardinality(S) = 1
        BY <3>1, FS_Singleton
      <3> HIDE DEF S
      <3> QED
        BY <1>5, <3>2
    <2> QED
      BY <2>2, <2>3
  <1> QED
    BY <1>4, <1>5

\* When each probe rebuts a claim, and how strongly.
LEMMA RegistryRebuts ==
    ASSUME NEW t, NEW claim
    PROVE  /\ \A r \in check_registry(t, claim) : r.source = "registry" /\ r.strength = 80
           /\ check_registry(t, claim) # {} <=>
                claim.denies /\ \E a, b \in t.officers :
                    /\ a.company = t.subject /\ b.company \in named_entities(t, claim)
                    /\ a.officer = b.officer /\ Overlap(a, b)
  <1> DEFINE P == {p \in t.officers \X t.officers :
                     /\ claim.denies
                     /\ p[1].company = t.subject /\ p[2].company \in named_entities(t, claim)
                     /\ p[1].officer = p[2].officer
                     /\ Overlap(p[1], p[2])}
  <1>1. check_registry(t, claim) = {Rebuttal("registry", 80, Cites("registry", {p[1], p[2]})) : p \in P}
    BY DEF check_registry
  <1>2. \A r \in check_registry(t, claim) : r.source = "registry" /\ r.strength = 80
    <2> SUFFICES ASSUME NEW r \in check_registry(t, claim)
                 PROVE  r.source = "registry" /\ r.strength = 80
      OBVIOUS
    <2> HIDE DEF P
    <2>1. PICK p \in P : r = Rebuttal("registry", 80, Cites("registry", {p[1], p[2]}))
      BY <1>1
    <2> QED
      BY <2>1 DEF Rebuttal
  <1>3. check_registry(t, claim) # {} <=> P # {}
    <2> HIDE DEF P
    <2> QED
      BY <1>1
  <1>4. P # {} <=> claim.denies /\ \E a, b \in t.officers :
                    /\ a.company = t.subject /\ b.company \in named_entities(t, claim)
                    /\ a.officer = b.officer /\ Overlap(a, b)
    <2>1. ASSUME NEW p \in P
          PROVE  claim.denies /\ \E a, b \in t.officers :
                    /\ a.company = t.subject /\ b.company \in named_entities(t, claim)
                    /\ a.officer = b.officer /\ Overlap(a, b)
      OBVIOUS
    <2>2. ASSUME claim.denies, NEW a \in t.officers, NEW b \in t.officers,
                 a.company = t.subject, b.company \in named_entities(t, claim),
                 a.officer = b.officer, Overlap(a, b)
          PROVE  P # {}
      <3>1. <<a, b>> \in P
        BY <2>2
      <3> QED
        BY <3>1
    <2> QED
      BY <2>1, <2>2
  <1> QED
    BY <1>2, <1>3, <1>4

\* The earlier answers rebut a claim that denies what one of them affirmed.
LEMMA PriorRebuts ==
    ASSUME NEW t, NEW claim
    PROVE  /\ \A r \in check_prior_rfi(t, claim) : r.source = "prior_rfi" /\ r.strength = 80
           /\ check_prior_rfi(t, claim) # {} <=>
                claim.denies /\ \E k \in DOMAIN t.priors :
                    t.priors[k].affirms /\ t.priors[k].names \cap named_entities(t, claim) # {}
  <1> DEFINE P == {k \in DOMAIN t.priors :
                     /\ claim.denies
                     /\ t.priors[k].affirms
                     /\ t.priors[k].names \cap named_entities(t, claim) # {}}
  <1>1. check_prior_rfi(t, claim) = {Rebuttal("prior_rfi", 80, Cites("rfi_prior", {k})) : k \in P}
    BY DEF check_prior_rfi
  <1>2. \A r \in check_prior_rfi(t, claim) : r.source = "prior_rfi" /\ r.strength = 80
    <2> SUFFICES ASSUME NEW r \in check_prior_rfi(t, claim)
                 PROVE  r.source = "prior_rfi" /\ r.strength = 80
      OBVIOUS
    <2> HIDE DEF P
    <2>1. PICK p \in P : r = Rebuttal("prior_rfi", 80, Cites("rfi_prior", {p}))
      BY <1>1
    <2> QED
      BY <2>1 DEF Rebuttal
  <1>3. check_prior_rfi(t, claim) # {} <=> P # {}
    <2> HIDE DEF P
    <2> QED
      BY <1>1
  <1> QED
    BY <1>2, <1>3

\* Devices rebut a claim of exclusive control when another account uses one.
LEMMA DeviceRebuts ==
    ASSUME NEW t, NEW claim
    PROVE  /\ \A r \in check_device(t, claim) : r.source = "device" /\ r.strength = 50
           /\ check_device(t, claim) # {} <=>
                claim.exclusive /\ \E f \in Fingerprints :
                    t.subject \in t.devices[f] /\ t.devices[f] # {t.subject}
  <1> DEFINE P == {f \in Fingerprints : /\ claim.exclusive
                                        /\ t.subject \in t.devices[f]
                                        /\ CoAccounts(t, f) # {}}
  <1>1. check_device(t, claim) = {Rebuttal("device", 50, Cites("devices", {f} \X t.devices[f])) : f \in P}
    BY DEF check_device
  <1>2. \A r \in check_device(t, claim) : r.source = "device" /\ r.strength = 50
    <2> SUFFICES ASSUME NEW r \in check_device(t, claim)
                 PROVE  r.source = "device" /\ r.strength = 50
      OBVIOUS
    <2> HIDE DEF P
    <2>1. PICK p \in P : r = Rebuttal("device", 50, Cites("devices", {p} \X t.devices[p]))
      BY <1>1
    <2> QED
      BY <2>1 DEF Rebuttal
  <1>3. check_device(t, claim) # {} <=> P # {}
    <2> HIDE DEF P
    <2> QED
      BY <1>1
  <1>4. \A f : t.subject \in t.devices[f] => (CoAccounts(t, f) # {} <=> t.devices[f] # {t.subject})
    BY DEF CoAccounts
  <1> QED
    BY <1>2, <1>3, <1>4

\* The ledger probe: strong on a path alone.
LEMMA LedgerRebuts ==
    ASSUME NEW t, NEW claim
    PROVE  LET path == ToSet(ExposurePath(t))
           IN  /\ \A r \in check_onchain(t, claim) : r.source = "onchain" /\ r.strength \in {50, 60, 90}
               /\ (\E r \in check_onchain(t, claim) : r.strength = 90) <=> claim.funds /\ path # {}
               /\ check_onchain(t, claim) # {} <=>
                    \/ claim.denies /\ \E o \in named_entities(t, claim) : Flows(t, o) # {}
                    \/ claim.funds /\ (path # {} \/ Structured(t) # {} \/ PaidHops(t) # {})
  <1> DEFINE path == ToSet(ExposurePath(t))
             Named1 == IF claim.denies THEN named_entities(t, claim) ELSE {}
             legs == {<<50, Cites("transactions", Flows(t, o))>> : o \in Named1}
             funds == IF claim.funds
                      THEN {<<90, Cites("transactions", path)>>,
                            <<50, Cites("transactions", Structured(t))>>,
                            <<60, Cites("gas_funding", PaidHops(t))>>}
                      ELSE {}
             F == {f \in legs \cup funds : f[2] # {}}
  <1>1. check_onchain(t, claim) = {Rebuttal("onchain", f[1], f[2]) : f \in F}
    BY DEF check_onchain
  <1>2. \A f \in F : f[1] \in {50, 60, 90}
    OBVIOUS
  <1>3. \A strength, cites : /\ Rebuttal("onchain", strength, cites).source = "onchain"
                             /\ Rebuttal("onchain", strength, cites).strength = strength
    BY DEF Rebuttal
  <1> HIDE DEF path, Named1
  <1>4. (\E f \in F : f[1] = 90) <=> claim.funds /\ path # {}
    <2>1. ASSUME NEW f \in F, f[1] = 90 PROVE claim.funds /\ path # {}
      <3>1. f \in funds /\ f = <<90, Cites("transactions", path)>> /\ f[2] # {}
        BY <2>1
      <3>2. Cites("transactions", path) # {}
        BY <3>1
      <3> QED
        BY <3>1, <3>2, CitesShape
    <2>2. ASSUME claim.funds, path # {} PROVE \E f \in F : f[1] = 90
      <3>1. Cites("transactions", path) # {}
        BY <2>2, CitesShape
      <3>2. <<90, Cites("transactions", path)>> \in F
        BY <2>2, <3>1
      <3> QED
        BY <3>2
    <2> QED
      BY <2>1, <2>2
  <1>5. F # {} <=> \/ \E o \in Named1 : Flows(t, o) # {}
                   \/ claim.funds /\ (path # {} \/ Structured(t) # {} \/ PaidHops(t) # {})
    <2>1. \A source, X : Cites(source, X) = {} <=> X = {}
      BY CitesShape
    <2>2. ASSUME NEW f \in F
          PROVE  \/ \E o \in Named1 : Flows(t, o) # {}
                 \/ claim.funds /\ (path # {} \/ Structured(t) # {} \/ PaidHops(t) # {})
      <3>1. CASE f \in legs
        <4>1. PICK o \in Named1 : f = <<50, Cites("transactions", Flows(t, o))>>
          BY <3>1
        <4>2. Cites("transactions", Flows(t, o)) # {}
          BY <2>2, <4>1
        <4> QED
          BY <2>1, <4>2
      <3>2. CASE f \in funds
        <4>1. \/ f = <<90, Cites("transactions", path)>>
              \/ f = <<50, Cites("transactions", Structured(t))>>
              \/ f = <<60, Cites("gas_funding", PaidHops(t))>>
          BY <3>2
        <4>2. f[2] # {} /\ claim.funds
          BY <2>2, <3>2
        <4> QED
          BY <2>1, <4>1, <4>2
      <3> QED
        BY <2>2, <3>1, <3>2
    <2>3. ASSUME NEW o \in Named1, Flows(t, o) # {} PROVE F # {}
      <3>1. Cites("transactions", Flows(t, o)) # {}
        BY <2>1, <2>3
      <3>2. <<50, Cites("transactions", Flows(t, o))>> \in F
        BY <3>1
      <3> QED
        BY <3>2
    <2>4. ASSUME claim.funds, path # {} PROVE F # {}
      <3>1. <<90, Cites("transactions", path)>> \in F
        BY <2>1, <2>4
      <3> QED
        BY <3>1
    <2>5. ASSUME claim.funds, Structured(t) # {} PROVE F # {}
      <3>1. <<50, Cites("transactions", Structured(t))>> \in F
        BY <2>1, <2>5
      <3> QED
        BY <3>1
    <2>6. ASSUME claim.funds, PaidHops(t) # {} PROVE F # {}
      <3>1. <<60, Cites("gas_funding", PaidHops(t))>> \in F
        BY <2>1, <2>6
      <3> QED
        BY <3>1
    <2> QED
      BY <2>2, <2>3, <2>4, <2>5, <2>6
  <1> HIDE DEF F
  <1>6. \A r \in check_onchain(t, claim) : r.source = "onchain" /\ r.strength \in {50, 60, 90}
    BY <1>1, <1>2, <1>3
  <1>7. (\E r \in check_onchain(t, claim) : r.strength = 90) <=> claim.funds /\ path # {}
    BY <1>1, <1>3, <1>4
  <1>8. check_onchain(t, claim) # {} <=> F # {}
    BY <1>1
  <1>9. (\E o \in Named1 : Flows(t, o) # {})
          <=> claim.denies /\ \E o \in named_entities(t, claim) : Flows(t, o) # {}
    BY DEF Named1
  <1> QED
    BY <1>5, <1>6, <1>7, <1>8, <1>9 DEF path

\* A verdict of contradicted takes a strong rebuttal, or the ledger and a device.
LEMMA VerdictTakes ==
    ASSUME NEW t, NEW claim
    PROVE  Verdict(run_checkers(t, claim), claim) = "contradicted" <=>
              \/ check_registry(t, claim) # {} \/ check_prior_rfi(t, claim) # {}
              \/ \E r \in check_onchain(t, claim) : r.strength = 90
              \/ check_onchain(t, claim) # {} /\ check_device(t, claim) # {}
  <1> DEFINE R == run_checkers(t, claim)
             A == check_registry(t, claim)
             B == check_prior_rfi(t, claim)
             C == check_onchain(t, claim)
             D == check_device(t, claim)
  <1>1. R = ((A \cup B) \cup C) \cup D
    BY DEF run_checkers
  <1>2. /\ \A r \in A : r.source = "registry" /\ r.strength = 80
        /\ \A r \in B : r.source = "prior_rfi" /\ r.strength = 80
        /\ \A r \in C : r.source = "onchain" /\ r.strength \in {50, 60, 90}
        /\ \A r \in D : r.source = "device" /\ r.strength = 50
    BY RegistryRebuts, PriorRebuts, LedgerRebuts, DeviceRebuts
  <1>3. Verdict(R, claim) = "contradicted" <=>
          R # {} /\ ((\E r \in R : r.strength >= 80) \/ Cardinality(Sources(R)) >= 2)
    <2>1. "contradicted" \notin {"uncontested", "unverifiable", "qualified"}
      OBVIOUS
    <2> HIDE DEF R
    <2> QED
      BY <2>1 DEF Verdict, StrongRebuttal, MinCorroboratingSources
  <1> HIDE DEF R, A, B, C, D
  <1>4. \A r \in R : r.source \in {"registry", "prior_rfi", "onchain", "device"}
    BY <1>1, <1>2
  <1>5. Cardinality(Sources(R)) >= 2 <=> \E r, q \in R : r.source # q.source
    BY <1>4, TwoSources
  <1>6. (\E r \in R : r.strength >= 80) <=> A # {} \/ B # {} \/ \E r \in C : r.strength = 90
    <2>1. \A r \in A \cup B : r \in R /\ r.strength >= 80
      BY <1>1, <1>2
    <2>2. \A r \in C : r \in R /\ (r.strength >= 80 <=> r.strength = 90)
      BY <1>1, <1>2
    <2>3. \A r \in D : ~(r.strength >= 80)
      BY <1>2
    <2> QED
      BY <1>1, <2>1, <2>2, <2>3
  <1>7. ASSUME A = {}, B = {}
        PROVE  (\E r, q \in R : r.source # q.source) <=> C # {} /\ D # {}
    <2>1. \A r \in R : (r \in C /\ r.source = "onchain") \/ (r \in D /\ r.source = "device")
      BY <1>1, <1>2, <1>7
    <2>2. ASSUME NEW r \in C, NEW q \in D PROVE r \in R /\ q \in R /\ r.source # q.source
      BY <1>1, <1>2
    <2> QED
      BY <2>1, <2>2
  <1>8. R # {} <=> A # {} \/ B # {} \/ C # {} \/ D # {}
    BY <1>1
  <1>9. ASSUME C # {}, D # {} PROVE R # {} /\ \E r, q \in R : r.source # q.source
    <2>1. PICK r \in C, q \in D : TRUE
      BY <1>9
    <2>2. r \in R /\ q \in R /\ r.source # q.source
      BY <1>1, <1>2, <2>1
    <2> QED
      BY <2>2
  <1>10. (\E r \in C : r.strength = 90) => C # {}
    OBVIOUS
  <1>11. Verdict(R, claim) = "contradicted" <=>
            \/ A # {} \/ B # {} \/ \E r \in C : r.strength = 90
            \/ C # {} /\ D # {}
    BY <1>3, <1>5, <1>6, <1>7, <1>8, <1>9, <1>10
  <1> QED
    BY <1>11 DEF R, A, B, C, D

\* Terms of office overlap when they have a day in common.
LEMMA OverlapIsASharedDay ==
    ASSUME NEW a, NEW b, a.from \in Nat, a.until \in Nat, b.from \in Nat, b.until \in Nat
    PROVE  Overlap(a, b) <=> \E day \in a.from..a.until : day \in b.from..b.until
  <1> DEFINE af == a.from
             au == a.until
             bf == b.from
             bu == b.until
  <1>1. Overlap(a, b) <=> af <= au /\ af <= bu /\ bf <= au /\ bf <= bu
    BY DEF Overlap
  <1>2. af \in Nat /\ au \in Nat /\ bf \in Nat /\ bu \in Nat
    OBVIOUS
  <1> HIDE DEF af, au, bf, bu
  <1>3. ASSUME NEW day \in af..au, day \in bf..bu
        PROVE  af <= au /\ af <= bu /\ bf <= au /\ bf <= bu
    BY <1>2, <1>3
  <1>4. ASSUME af <= au, af <= bu, bf <= au, bf <= bu
        PROVE  \E day \in af..au : day \in bf..bu
    <2>1. CASE af <= bf
      <3>1. bf \in af..au /\ bf \in bf..bu
        BY <1>2, <1>4, <2>1
      <3> QED
        BY <3>1
    <2>2. CASE bf <= af
      <3>1. af \in af..au /\ af \in bf..bu
        BY <1>2, <1>4, <2>2
      <3> QED
        BY <3>1
    <2> QED
      BY <1>2, <2>1, <2>2
  <1>5. Overlap(a, b) <=> \E day \in af..au : day \in bf..bu
    BY <1>1, <1>3, <1>4
  <1> QED
    BY <1>5 DEF af, au, bf, bu

\* A claim of the answer is called contradicted exactly when the rows say so.
LEMMA VerdictIsEarned ==
    ASSUME w \in Worlds, NEW n \in DOMAIN w.rfi
    PROVE  LET c == w.rfi[n]
               alone  == \/ c.denies /\ \E u \in Named(n) : SharedOfficer(u) \/ AdmittedEarlier(u)
                         \/ c.funds /\ FundsReachSanctioned
               ledger == \/ c.denies /\ \E u \in Named(n) : Dealt(u)
                         \/ c.funds /\ OddTransfers
           IN  Verdict(run_checkers(w, c), c) = "contradicted"
                 <=> alone \/ (ledger /\ c.exclusive /\ SharesDevice)
  <1> DEFINE c == w.rfi[n]
             path == ToSet(ExposurePath(w))
  <1>1. RfiTables(w)
    BY DraftingAssumption
  <1>2. named_entities(w, c) = Named(n)
    BY DEF named_entities, Named
  <1> HIDE DEF c
  <1>3. check_registry(w, c) # {} <=> c.denies /\ \E u \in Named(n) : SharedOfficer(u)
    <2>1. \A a, b \in w.officers :
             Overlap(a, b) <=> \E day \in a.from..a.until : day \in b.from..b.until
      <3>1. w.officers \in SUBSET [company : Accounts, officer : Nat, from : Nat, until : Nat]
        BY <1>1 DEF RfiTables
      <3>2. \A a \in w.officers : a.from \in Nat /\ a.until \in Nat
        BY <3>1
      <3> QED
        BY <3>2, OverlapIsASharedDay
    <2>2. check_registry(w, c) # {} <=>
                c.denies /\ \E a, b \in w.officers :
                    /\ a.company = w.subject /\ b.company \in Named(n)
                    /\ a.officer = b.officer /\ Overlap(a, b)
      BY <1>2, RegistryRebuts
    <2>3. \A u : SharedOfficer(u) <=> \E a, b \in w.officers :
                    a.company = w.subject /\ b.company = u /\ a.officer = b.officer /\ Overlap(a, b)
      BY <2>1 DEF SharedOfficer
    <2>4. ASSUME NEW a \in w.officers, NEW b \in w.officers,
                 a.company = w.subject, b.company \in Named(n), a.officer = b.officer, Overlap(a, b)
          PROVE  \E u \in Named(n) : SharedOfficer(u)
      <3>1. SharedOfficer(b.company)
        BY <2>3, <2>4
      <3> QED
        BY <2>4, <3>1
    <2>5. ASSUME NEW u \in Named(n), SharedOfficer(u)
          PROVE  \E a, b \in w.officers :
                    /\ a.company = w.subject /\ b.company \in Named(n)
                    /\ a.officer = b.officer /\ Overlap(a, b)
      BY <2>3, <2>5
    <2> QED
      BY <2>2, <2>4, <2>5
  <1>4. check_prior_rfi(w, c) # {} <=> c.denies /\ \E u \in Named(n) : AdmittedEarlier(u)
    <2>1. check_prior_rfi(w, c) # {} <=>
                c.denies /\ \E k \in DOMAIN w.priors :
                    w.priors[k].affirms /\ w.priors[k].names \cap Named(n) # {}
      BY <1>2, PriorRebuts
    <2> QED
      BY <2>1 DEF AdmittedEarlier
  <1>5. path # {} <=> FundsReachSanctioned
    <2>1. RefsFor(w, w.subject) \in SUBSET References
      BY <1>1 DEF RfiTables, RefsFor, addresses_for, References
    <2>2. path # {} <=> Paths(w, RefsFor(w, w.subject)) # {}
      BY <1>1, FlowIsAPath DEF ExposurePath
    <2>3. Paid = Transfers(w)
      BY DEF Paid, Transfers
    <2> QED
      BY <1>1, <2>1, <2>2, <2>3, PathsWhereFundsReach DEF FundsReachSanctioned, Own
  <1>6. \A u : Flows(w, u) # {} <=> Dealt(u)
    BY DEF Flows, Dealt, Own
  <1>7. Structured(w) # {} \/ PaidHops(w) # {} <=> OddTransfers
    BY DEF OddTransfers
  <1>8. check_device(w, c) # {} <=> c.exclusive /\ SharesDevice
    BY DeviceRebuts DEF SharesDevice
  <1>9. (\E r \in check_onchain(w, c) : r.strength = 90) <=> c.funds /\ path # {}
    BY LedgerRebuts
  <1>10. check_onchain(w, c) # {} <=>
           \/ c.denies /\ \E o \in Named(n) : Flows(w, o) # {}
           \/ c.funds /\ (path # {} \/ Structured(w) # {} \/ PaidHops(w) # {})
    BY <1>2, LedgerRebuts
  <1>11. Verdict(run_checkers(w, c), c) = "contradicted" <=>
              \/ check_registry(w, c) # {} \/ check_prior_rfi(w, c) # {}
              \/ \E r \in check_onchain(w, c) : r.strength = 90
              \/ check_onchain(w, c) # {} /\ check_device(w, c) # {}
    BY VerdictTakes
  <1> HIDE DEF path
  <1> QED
    BY <1>3, <1>4, <1>5, <1>6, <1>7, <1>8, <1>9, <1>10, <1>11 DEF c

\* The verdict of a claim is what the rows of the case earn it.
THEOREM ContradictionsAreEarned ==
    DraftSpec => []ContradictionIsEarned
  <1>1. DraftInv => ContradictionIsEarned
    <2> SUFFICES ASSUME DraftInv PROVE ContradictionIsEarned
      OBVIOUS
    <2>1. w \in Worlds /\ TableInv
      BY DEF DraftInv
    <2>2. ASSUME NEW n \in DOMAIN table
          PROVE  n \in DOMAIN w.rfi /\ table[n].verdict = Verdict(run_checkers(w, w.rfi[n]), w.rfi[n])
      <3>1. w.rfi \in Seq([denies : BOOLEAN, funds : BOOLEAN, exclusive : BOOLEAN,
                           names : SUBSET Accounts, banned : BOOLEAN])
        BY <2>1, DraftingAssumption DEF RfiTables
      <3>2. DOMAIN w.rfi = 1..Len(w.rfi) /\ Len(w.rfi) \in Nat
        BY <3>1
      <3>3. DOMAIN table = 1..Len(table) /\ Len(table) \in Nat /\ Len(table) <= Len(w.rfi)
        BY <2>1 DEF TableInv
      <3>4. n \in DOMAIN w.rfi
        BY <3>2, <3>3
      <3>5. table[n] = Adjudication(w, n)
        BY <2>1 DEF TableInv
      <3> QED
        BY <3>4, <3>5 DEF Adjudication
    <2> QED
      BY <2>1, <2>2, VerdictIsEarned DEF ContradictionIsEarned
  <1> QED
    BY <1>1, DraftInvHolds, PTL

-----------------------------------------------------------------------------
(* Upstream of the sanctioned addresses                                    *)

ClosedUp(edges, C) == \A e \in edges : e[2] \in C => e[1] \in C
ClosedDown(edges, C) == \A e \in edges : e[1] \in C => e[2] \in C

\* the least set closed against the edges that holds S
LeastUp(edges, S) ==
    {x \in References : \A C \in SUBSET References : S \subseteq C /\ ClosedUp(edges, C) => x \in C}

\* What the recursion of Upstream says of a function.
Climbs(edges, g) ==
    g = [T \in SUBSET References |->
            IF Into(edges, T) = T THEN T ELSE g[Into(edges, T)]]

\* The least set there is upstream is reached by climbing.
LEMMA LeastClimbs ==
    ASSUME NEW edges, \A e \in edges : e[1] \in References
    PROVE  Climbs(edges, [T \in SUBSET References |-> LeastUp(edges, T)])
  <1> DEFINE g == [T \in SUBSET References |-> LeastUp(edges, T)]
  <1>1. ASSUME NEW T \in SUBSET References
        PROVE  /\ Into(edges, T) \in SUBSET References
               /\ LeastUp(edges, T) = IF Into(edges, T) = T THEN T ELSE LeastUp(edges, Into(edges, T))
    <2>1. Into(edges, T) \in SUBSET References /\ T \subseteq Into(edges, T)
      BY DEF Into
    <2>2. Into(edges, T) = T => ClosedUp(edges, T)
      BY DEF Into, ClosedUp
    <2>3. \A C \in SUBSET References : T \subseteq C /\ ClosedUp(edges, C) => Into(edges, T) \subseteq C
      BY DEF Into, ClosedUp
    <2>4. CASE Into(edges, T) = T
      <3>1. LeastUp(edges, T) = T
        BY <2>2, <2>4 DEF LeastUp
      <3> QED
        BY <2>1, <2>4, <3>1
    <2>5. CASE Into(edges, T) # T
      <3>1. LeastUp(edges, T) = LeastUp(edges, Into(edges, T))
        BY <2>1, <2>3 DEF LeastUp
      <3> QED
        BY <2>1, <2>5, <3>1
    <2> QED
      BY <2>4, <2>5
  <1>2. \A T \in SUBSET References :
           g[T] = IF Into(edges, T) = T THEN T ELSE g[Into(edges, T)]
    BY <1>1
  <1>3. g = [T \in SUBSET References |-> g[T]]
    OBVIOUS
  <1> HIDE DEF g
  <1>4. g = [T \in SUBSET References |-> IF Into(edges, T) = T THEN T ELSE g[Into(edges, T)]]
    BY <1>2, <1>3
  <1> QED
    BY <1>4 DEF Climbs, g

\* Whatever climbs reaches that set: a set that is not closed grows.
LEMMA ClimbsToTheLeast ==
    ASSUME NEW edges, \A e \in edges : e[1] \in References, IsFiniteSet(References),
           NEW g, Climbs(edges, g), NEW S \in SUBSET References
    PROVE  g[S] = LeastUp(edges, S)
  <1> DEFINE N == Cardinality(References)
             K == {k \in 0..N : \A T \in SUBSET References :
                                   Cardinality(T) >= N - k => g[T] = LeastUp(edges, T)}
  <1>1. N \in Nat
    BY FS_CardinalityType
  <1>2. \A T \in SUBSET References : /\ IsFiniteSet(T) /\ Cardinality(T) \in Nat /\ Cardinality(T) <= N
                                     /\ Cardinality(T) = N => T = References
    BY FS_Subset, FS_CardinalityType
  <1>3. ASSUME NEW T \in SUBSET References
        PROVE  /\ Into(edges, T) \in SUBSET References /\ T \subseteq Into(edges, T)
               /\ g[T] = IF Into(edges, T) = T THEN T ELSE g[Into(edges, T)]
               /\ LeastUp(edges, T) = IF Into(edges, T) = T THEN T ELSE LeastUp(edges, Into(edges, T))
    <2>1. Into(edges, T) \in SUBSET References /\ T \subseteq Into(edges, T)
      BY DEF Into
    <2>2. g[T] = IF Into(edges, T) = T THEN T ELSE g[Into(edges, T)]
      BY DEF Climbs
    <2> DEFINE h == [X \in SUBSET References |-> LeastUp(edges, X)]
    <2>3. h[T] = LeastUp(edges, T) /\ h[Into(edges, T)] = LeastUp(edges, Into(edges, T))
      BY <2>1
    <2>4. Climbs(edges, h)
      BY LeastClimbs
    <2> HIDE DEF h
    <2>5. h[T] = IF Into(edges, T) = T THEN T ELSE h[Into(edges, T)]
      BY <2>4 DEF Climbs
    <2> QED
      BY <2>1, <2>2, <2>3, <2>5
  <1> HIDE DEF N
  <1>4. 0 \in K
    <2> SUFFICES ASSUME NEW T \in SUBSET References, Cardinality(T) >= N - 0
                 PROVE  g[T] = LeastUp(edges, T)
      BY <1>1
    <2>1. T = References
      BY <1>1, <1>2
    <2>2. Into(edges, T) = T
      BY <1>3, <2>1
    <2> QED
      BY <1>3, <2>2
  <1>5. ASSUME NEW k \in 1..N, k - 1 \in K PROVE k \in K
    <2> SUFFICES ASSUME NEW T \in SUBSET References, Cardinality(T) >= N - k
                 PROVE  g[T] = LeastUp(edges, T)
      BY <1>1
    <2>1. CASE Into(edges, T) = T
      BY <1>3, <2>1
    <2>2. CASE Into(edges, T) # T
      <3> DEFINE M == Into(edges, T)
      <3>1. M \in SUBSET References /\ T \subseteq M /\ T # M
        BY <1>3, <2>2
      <3> HIDE DEF M
      <3>2. IsFiniteSet(M)
        BY <1>2, <3>1
      <3>3. Cardinality(T) <= Cardinality(M) /\ Cardinality(T) # Cardinality(M)
        BY <3>1, <3>2, FS_Subset
      <3>4. Cardinality(T) \in Nat /\ Cardinality(M) \in Nat
        BY <1>2, <3>1
      <3>5. Cardinality(M) >= N - (k - 1)
        BY <1>1, <3>3, <3>4
      <3>6. g[M] = LeastUp(edges, M)
        BY <1>5, <3>1, <3>5
      <3> QED
        BY <1>3, <2>2, <3>6 DEF M
    <2> QED
      BY <2>1, <2>2
  <1> HIDE DEF K
  <1>6. 0..N \subseteq K
    BY <1>1, <1>4, <1>5, UpTo
  <1>7. N \in K
    BY <1>1, <1>6
  <1>8. Cardinality(S) >= N - N
    BY <1>1, <1>2
  <1> QED
    BY <1>7, <1>8 DEF K

\* Upstream is the least set closed against the direction of the edges.
LEMMA UpstreamIsTheLeast ==
    ASSUME NEW edges, \A e \in edges : e[1] \in References, NEW S \in SUBSET References
    PROVE  Upstream(edges, S) = LeastUp(edges, S)
  <1>1. Upstream(edges, S) = (CHOOSE g : Climbs(edges, g))[S]
    BY DEF Upstream, Climbs, Into, References
  <1>2. \E g : Climbs(edges, g)
    BY LeastClimbs
  <1>3. Climbs(edges, CHOOSE g : Climbs(edges, g))
    BY <1>2, Zenon
  <1>4. IsFiniteSet(References)
    BY RfiAssumption, FS_Union DEF References
  <1> QED
    BY <1>1, <1>3, <1>4, ClimbsToTheLeast

\* x is upstream of S exactly when what leads away from x gets to S.
LEMMA UpstreamReaches ==
    ASSUME NEW edges, \A e \in edges : e[1] \in References /\ e[2] \in References,
           NEW S \in SUBSET References, NEW x \in References
    PROVE  x \in Upstream(edges, S) <=> Reaches(edges, {x}, S)
  <1>1. x \in Upstream(edges, S) <=>
          \A C \in SUBSET References : S \subseteq C /\ ClosedUp(edges, C) => x \in C
    BY UpstreamIsTheLeast DEF LeastUp
  <1>2. Reaches(edges, {x}, S) <=>
          \A C \in SUBSET References : x \in C /\ ClosedDown(edges, C) => C \cap S # {}
    BY DEF Reaches, ClosedDown, References
  <1>3. \A C \in SUBSET References :
           /\ ClosedUp(edges, C) <=> ClosedDown(edges, References \ C)
           /\ ClosedDown(edges, C) <=> ClosedUp(edges, References \ C)
    BY DEF ClosedUp, ClosedDown
  <1>4. ASSUME \A C \in SUBSET References : S \subseteq C /\ ClosedUp(edges, C) => x \in C,
               NEW D \in SUBSET References, x \in D, ClosedDown(edges, D)
        PROVE  D \cap S # {}
    <2>1. References \ D \in SUBSET References /\ ClosedUp(edges, References \ D)
      BY <1>3, <1>4
    <2>2. ~(S \subseteq References \ D)
      BY <1>4, <2>1
    <2> QED
      BY <2>2
  <1>5. ASSUME \A C \in SUBSET References : x \in C /\ ClosedDown(edges, C) => C \cap S # {},
               NEW D \in SUBSET References, S \subseteq D, ClosedUp(edges, D)
        PROVE  x \in D
    <2>1. References \ D \in SUBSET References /\ ClosedDown(edges, References \ D)
      BY <1>3, <1>5
    <2>2. (References \ D) \cap S = {}
      BY <1>5
    <2> QED
      BY <1>5, <2>1, <2>2
  <1> QED
    BY <1>1, <1>2, <1>4, <1>5

\* Nothing is upstream of nothing.
LEMMA NothingUpstream ==
    ASSUME NEW edges, \A e \in edges : e[1] \in References
    PROVE  Upstream(edges, {}) = {}
  <1>1. Upstream(edges, {}) = LeastUp(edges, {})
    BY UpstreamIsTheLeast
  <1>2. ClosedUp(edges, {})
    BY DEF ClosedUp
  <1> QED
    BY <1>1, <1>2 DEF LeastUp

-----------------------------------------------------------------------------
(* The expansion                                                           *)

\* What the recursion of Discovered says of a function.
Spreads(t, g) ==
    g = [n \in 0..t.hops |-> IF n = 0 THEN {t.subject}
                             ELSE g[n - 1] \cup UNION {Linked(t, u) : u \in g[n - 1]}]

\* A hop discovers what the accounts known before it are linked to.
LEMMA DiscoveredByHops ==
    ASSUME NEW t, RfiTables(t), DraftTables(t)
    PROVE  /\ Discovered(t)[0] = {t.subject}
           /\ \A n \in 1..t.hops : Discovered(t)[n]
                = Discovered(t)[n - 1] \cup UNION {Linked(t, u) : u \in Discovered(t)[n - 1]}
  <1> DEFINE N == t.hops
             V == SUBSET Accounts
             wider == [X \in V |-> X \cup UNION {Linked(t, u) : u \in X}]
             step == [k \in 1..N |-> wider]
  <1>1. N \in Nat /\ t.subject \in Accounts
    BY DEF RfiTables, DraftTables
  <1>2. \A u : Linked(t, u) \subseteq Accounts
    BY DEF Linked
  <1>3. wider \in [V -> V]
    BY <1>2
  <1>4. step \in [1..N -> [V -> V]] /\ {t.subject} \in V
    BY <1>1, <1>3
  <1>5. \A X \in V : wider[X] = X \cup UNION {Linked(t, u) : u \in X}
    OBVIOUS
  <1>6. \A k \in 1..N : step[k] = wider
    OBVIOUS
  <1> HIDE DEF N, V, wider, step
  <1>7. PICK f : Iterated(f, N, V, {t.subject}, step)
    BY <1>1, <1>4, Iterates
  <1>8. /\ f \in [0..N -> V] /\ f[0] = {t.subject}
        /\ \A k \in 1..N : f[k] = wider[f[k - 1]]
    BY <1>6, <1>7 DEF Iterated
  <1>9. \A k \in 1..N : k - 1 \in 0..N
    BY <1>1
  <1>10. \A k \in 1..N : f[k] = f[k - 1] \cup UNION {Linked(t, u) : u \in f[k - 1]}
    BY <1>5, <1>8, <1>9
  <1>11. \A n \in 0..N : f[n] = IF n = 0 THEN {t.subject}
                                ELSE f[n - 1] \cup UNION {Linked(t, u) : u \in f[n - 1]}
    <2> SUFFICES ASSUME NEW n \in 0..N, n # 0
                 PROVE  f[n] = f[n - 1] \cup UNION {Linked(t, u) : u \in f[n - 1]}
      BY <1>8
    <2>1. n \in 1..N
      BY <1>1
    <2> QED
      BY <1>10, <2>1
  <1>12. Spreads(t, f)
    <2>1. f = [n \in 0..N |-> f[n]]
      BY <1>8
    <2> QED
      BY <1>11, <2>1 DEF Spreads, N
  <1>13. Discovered(t) = CHOOSE g : Spreads(t, g)
    BY DEF Discovered, Spreads
  <1>14. Spreads(t, Discovered(t))
    BY <1>12, <1>13, Zenon
  <1> DEFINE g == Discovered(t)
  <1> HIDE DEF g
  <1>15. g = [n \in 0..N |-> IF n = 0 THEN {t.subject}
                            ELSE g[n - 1] \cup UNION {Linked(t, u) : u \in g[n - 1]}]
    BY <1>14 DEF Spreads, g, N
  <1>16. \A n \in 0..N : g[n] = IF n = 0 THEN {t.subject}
                            ELSE g[n - 1] \cup UNION {Linked(t, u) : u \in g[n - 1]}
    BY <1>15, Zenon
  <1>17. 0 \in 0..N /\ \A n \in 1..N : n \in 0..N /\ n # 0
    BY <1>1
  <1>18. g[0] = {t.subject}
    BY <1>16, <1>17
  <1>19. \A n \in 1..N : g[n] = g[n - 1] \cup UNION {Linked(t, u) : u \in g[n - 1]}
    BY <1>16, <1>17
  <1> QED
    BY <1>18, <1>19 DEF g, N

\* What is discovered are accounts.
LEMMA DiscoveredAreAccounts ==
    ASSUME NEW t, RfiTables(t), DraftTables(t)
    PROVE  /\ \A n \in 0..t.hops : Discovered(t)[n] \subseteq Accounts
           /\ Visited(t) \subseteq Accounts /\ Walked(t) \subseteq Accounts
  <1> DEFINE S == {n \in 0..t.hops : Discovered(t)[n] \subseteq Accounts}
  <1>1. t.hops \in Nat /\ t.hops # 0 /\ t.subject \in Accounts
    BY DEF RfiTables, DraftTables
  <1>2. 0 \in S
    BY <1>1, DiscoveredByHops
  <1>3. ASSUME NEW k \in 1..t.hops, k - 1 \in S PROVE k \in S
    <2>1. \A u : Linked(t, u) \subseteq Accounts
      BY DEF Linked
    <2>2. Discovered(t)[k] = Discovered(t)[k - 1] \cup UNION {Linked(t, u) : u \in Discovered(t)[k - 1]}
      BY DiscoveredByHops
    <2>3. k \in 0..t.hops
      BY <1>1
    <2> QED
      BY <1>3, <2>1, <2>2, <2>3
  <1> HIDE DEF S
  <1>4. 0..t.hops \subseteq S
    BY <1>1, <1>2, <1>3, UpTo
  <1>5. t.hops \in 0..t.hops /\ t.hops - 1 \in 0..t.hops
    BY <1>1
  <1> QED
    BY <1>4, <1>5 DEF S, Visited, Walked

-----------------------------------------------------------------------------
(* The advisory that anchors the draft                                     *)

\* The accounts and money of a case are accounts and references.
LEMMA GraphShape ==
    ASSUME NEW t, RfiTables(t), DraftTables(t)
    PROVE  /\ Walked(t) \subseteq Accounts /\ Visited(t) \subseteq Accounts
           /\ SanctionedReached(t) \subseteq References /\ SanctionedReached(t) \subseteq Addresses
           /\ Drawn(t) \subseteq Txs(t)
           /\ \A e \in MoneyEdges(t) : e[1] \in References /\ e[2] \in References
           /\ GasRows(t) \subseteq t.gas /\ GasLinks(t) \subseteq t.gas
  <1>1. t.subject \in Accounts /\ t.sanctioned \subseteq Addresses
        /\ t.controller \in [Addresses -> Accounts \cup {Nobody}]
    BY DEF RfiTables
  <1>3. Visited(t) \subseteq Accounts /\ Walked(t) \subseteq Accounts
    BY DiscoveredAreAccounts
  <1>5. SanctionedReached(t) \subseteq Addresses
    BY <1>1 DEF SanctionedReached
  <1>6. Drawn(t) \subseteq Txs(t) /\ GasRows(t) \subseteq t.gas /\ GasLinks(t) \subseteq t.gas
    BY DEF Drawn, GasRows, GasLinks
  <1>7. ASSUME NEW e \in MoneyEdges(t) PROVE e[1] \in References /\ e[2] \in References
    <2>1. CASE \E i \in Drawn(t) : e = <<t.txs[i].from, t.txs[i].to>>
      BY <1>6, <2>1, LedgerShape
    <2>2. CASE \E a \in Addresses : t.controller[a] \in Visited(t) /\ e = <<t.controller[a], a>>
      BY <1>3, <2>2 DEF References
    <2> QED
      BY <1>7, <2>1, <2>2 DEF MoneyEdges
  <1> QED
    BY <1>3, <1>5, <1>6, <1>7 DEF References

\* The row that shows money exposure: there when an account is upstream of a
\* sanctioned address, and always a row.
LEMMA ExposureShape ==
    ASSUME NEW t, RfiTables(t), DraftTables(t)
    PROVE  /\ ExposureRow(t) # {} <=> \E u \in Accounts : Reaches(MoneyEdges(t), {u}, SanctionedReached(t))
           /\ \A row \in ExposureRow(t) :
                 \/ \E i \in Txs(t) : row = <<"transactions", i>>
                 \/ \E a \in Addresses : row = AddressRow(a)
           /\ IsFiniteSet(ExposureRow(t))
  <1> DEFINE exposed == Upstream(MoneyEdges(t), SanctionedReached(t))
             us == exposed \cap Accounts
             first == Pointer(t, CHOOSE u \in us : TRUE, exposed)
  <1>1. ExposureRow(t) = IF us = {} THEN {} ELSE {first}
    <2>1. ExposureRow(t) = UNION {{Pointer(t, CHOOSE u \in x : TRUE, e) : x \in {e \cap Accounts} \ {{}}} : e \in {exposed}}
      BY DEF ExposureRow
    <2> HIDE DEF exposed
    <2>2. ExposureRow(t) = {Pointer(t, CHOOSE u \in x : TRUE, exposed) : x \in {us} \ {{}}}
      BY <2>1
    <2> HIDE DEF us
    <2>3. CASE us = {}
      BY <2>2, <2>3
    <2>4. CASE us # {}
      <3>1. {us} \ {{}} = {us}
        BY <2>4
      <3>2. ExposureRow(t) = {Pointer(t, CHOOSE u \in x : TRUE, exposed) : x \in {us}}
        BY <2>2, <3>1
      <3> QED
        BY <2>4, <3>2
    <2> QED
      BY <2>3, <2>4
  <1>2. /\ SanctionedReached(t) \in SUBSET References /\ SanctionedReached(t) \subseteq Addresses
        /\ \A e \in MoneyEdges(t) : e[1] \in References /\ e[2] \in References
        /\ Drawn(t) \subseteq Txs(t)
    BY GraphShape
  <1>3. us # {} <=> \E u \in Accounts : Reaches(MoneyEdges(t), {u}, SanctionedReached(t))
    <2>1. \A u \in Accounts : u \in exposed <=> Reaches(MoneyEdges(t), {u}, SanctionedReached(t))
      BY <1>2, UpstreamReaches DEF References
    <2> QED
      BY <2>1
  <1>4. ASSUME us # {} PROVE SanctionedReached(t) # {}
    BY <1>2, <1>4, NothingUpstream
  <1>5. ASSUME us # {}
        PROVE  \/ \E i \in Txs(t) : first = <<"transactions", i>>
               \/ \E a \in Addresses : first = AddressRow(a)
    <2> DEFINE u == CHOOSE u \in us : TRUE
               leads == {i \in Drawn(t) : t.txs[i].from \in Owned(t, u) /\ t.txs[i].to \in exposed}
    <2>1. first = IF leads # {} THEN <<"transactions", Min(leads)>>
                  ELSE AddressRow(CHOOSE a \in SanctionedReached(t) : TRUE)
      BY DEF Pointer
    <2> HIDE DEF leads, first, u
    <2>2. CASE leads # {}
      <3>1. leads \in SUBSET Nat /\ leads \subseteq Txs(t)
        BY <1>2, LedgerShape DEF leads
      <3>2. PICK m \in leads : \A n \in leads : m <= n
        BY <2>2, <3>1, NatLeast
      <3>3. Min(leads) \in leads
        BY <3>2, Zenon DEF Min
      <3> QED
        BY <2>1, <2>2, <3>1, <3>3
    <2>3. CASE leads = {}
      <3>1. (CHOOSE a \in SanctionedReached(t) : TRUE) \in SanctionedReached(t)
        BY <1>4, <1>5
      <3> QED
        BY <1>2, <2>1, <2>3, <3>1
    <2> QED
      BY <2>2, <2>3
  <1> HIDE DEF exposed, us, first
  <1>6. IsFiniteSet({}) /\ IsFiniteSet({first})
    BY FS_EmptySet, FS_Singleton
  <1> QED
    BY <1>1, <1>3, <1>5, <1>6

\* The best of an advisory's scores is a number.
LEMMA BestScore ==
    ASSUME NEW scores \in Seq(Nat)
    PROVE  (IF scores = << >> THEN 0 ELSE Max(ToSet(scores))) \in Int
  <1>1. CASE scores = << >>
    BY <1>1
  <1>2. CASE scores # << >>
    <2>1. Len(scores) \in Nat /\ scores = [k \in 1..Len(scores) |-> scores[k]] /\ Len(scores) # 0
      BY <1>2
    <2>2. ToSet(scores) = {scores[k] : k \in 1..Len(scores)}
      BY <2>1 DEF ToSet
    <2>0. 1 \in Int /\ Len(scores) \in Int
      BY <2>1
    <2>3. IsFiniteSet(1..Len(scores))
      BY <2>0, FS_Interval
    <2>4. IsFiniteSet(ToSet(scores))
      BY <2>1, <2>2, <2>3, FiniteImage
    <2>5. ToSet(scores) \in SUBSET Int /\ ToSet(scores) # {}
      BY <2>1, <2>2
    <2>6. PICK m \in ToSet(scores) : \A n \in ToSet(scores) : n <= m
      BY <2>4, <2>5, FiniteGreatest
    <2>7. \A n \in ToSet(scores) : m >= n
      BY <2>5, <2>6
    <2>8. Max(ToSet(scores)) \in ToSet(scores)
      BY <2>7, Zenon DEF Max
    <2> QED
      BY <1>2, <2>5, <2>8
  <1> QED
    BY <1>1, <1>2

\* Advisories are numbered from 1.
LEMMA CorpusShape ==
    ASSUME NEW t, AdvisoryTables(t)
    PROVE  /\ Len(t.corpus) \in Nat /\ DOMAIN t.corpus = 1..Len(t.corpus)
           /\ \A id \in DOMAIN t.corpus :
                 /\ t.corpus[id].terms \in Nat /\ t.corpus[id].scores \in Seq(Nat)
                 /\ t.corpus[id].names \in SUBSET Codes
  <1> DEFINE A == [terms : Nat, scores : Seq(Nat), names : SUBSET Codes]
  <1>1. t.corpus \in Seq(A)
    BY DEF AdvisoryTables
  <1>2. \A a \in A : a.terms \in Nat /\ a.scores \in Seq(Nat) /\ a.names \in SUBSET Codes
    OBVIOUS
  <1> HIDE DEF A
  <1>3. /\ Len(t.corpus) \in Nat /\ DOMAIN t.corpus = 1..Len(t.corpus)
        /\ \A id \in 1..Len(t.corpus) : t.corpus[id] \in A
    BY <1>1
  <1> QED
    BY <1>2, <1>3

\* A match is ranked by six integers, the last of which tells it from the others.
LEMMA RankShape ==
    ASSUME NEW t, AdvisoryTables(t), NEW exposure, IsFiniteSet(exposure), NEW id \in DOMAIN t.corpus
    PROVE  /\ DOMAIN Match(t, id, exposure).rank = 1..6
           /\ \A k \in 1..6 : Match(t, id, exposure).rank[k] \in Int
           /\ Match(t, id, exposure).rank[6] = 0 - id
  <1> DEFINE adv == t.corpus[id]
             found == Corroborators(t, adv, exposure)
             codes == adv.names \cap Jurisdictions(t)
             others == {c \in found : c.kind # "jurisdiction"}
             a1 == (IF adv.terms > 0 THEN 1 ELSE 0) + (IF adv.scores # << >> THEN 1 ELSE 0)
             a2 == adv.terms
             a3 == Cardinality(codes) + Cardinality(others)
             a4 == Len(adv.scores)
             a5 == IF adv.scores = << >> THEN 0 ELSE Max(ToSet(adv.scores))
             a6 == 0 - id
  <1>1. Match(t, id, exposure).rank = <<a1, a2, a3, a4, a5, a6>>
    BY DEF Match
  <1>2. adv.terms \in Nat /\ adv.scores \in Seq(Nat) /\ adv.names \in SUBSET Codes /\ id \in Nat
    BY CorpusShape
  <1>3. IsFiniteSet(codes)
    <2>1. codes \in SUBSET Codes
      BY <1>2
    <2> QED
      BY <2>1, CodesAssumption, FS_Subset
  <1>4. IsFiniteSet(others)
    <2> DEFINE f == [row \in exposure |-> [kind |-> "sanctioned_exposure", row |-> row]]
               alias == [kind |-> "watchlist", row |-> AliasRow]
    <2>1. f = [row \in exposure |-> f[row]]
      OBVIOUS
    <2>2. \A row \in exposure : f[row] = [kind |-> "sanctioned_exposure", row |-> row]
      OBVIOUS
    <2>3. others \subseteq {f[row] : row \in exposure} \cup {alias}
      <3> SUFFICES ASSUME NEW c \in others PROVE c \in {f[row] : row \in exposure} \cup {alias}
        OBVIOUS
      <3>1. c \in found /\ c.kind # "jurisdiction"
        OBVIOUS
      <3>2. \/ \E code : c = [kind |-> "jurisdiction", row |-> SeatRow(t, code)]
            \/ c = alias
            \/ \E row \in exposure : c = [kind |-> "sanctioned_exposure", row |-> row]
        BY <3>1 DEF Corroborators
      <3>3. ~\E code : c = [kind |-> "jurisdiction", row |-> SeatRow(t, code)]
        BY <3>1
      <3> QED
        BY <2>2, <3>2, <3>3
    <2> HIDE DEF f, alias, others
    <2>4. IsFiniteSet({f[row] : row \in exposure})
      BY <2>1, FiniteImage
    <2>5. IsFiniteSet({f[row] : row \in exposure} \cup {alias})
      BY <2>4, FS_AddElement
    <2> QED
      BY <2>3, <2>5, FS_Subset
  <1> HIDE DEF codes, others, adv
  <1>5. a1 \in Int /\ a2 \in Int /\ a4 \in Int /\ a6 \in Int
    BY <1>2
  <1>6. a3 \in Int
    <2>1. Cardinality(codes) \in Nat /\ Cardinality(others) \in Nat
      BY <1>3, <1>4, FS_CardinalityType
    <2> QED
      BY <2>1
  <1>7. a5 \in Int
    BY <1>2, BestScore
  <1> HIDE DEF a1, a2, a3, a4, a5
  <1>8. \A k \in 1..6 : k = 1 \/ k = 2 \/ k = 3 \/ k = 4 \/ k = 5 \/ k = 6
    OBVIOUS
  <1>9. \A k \in 1..6 : <<a1, a2, a3, a4, a5, a6>>[k] \in Int
    BY <1>5, <1>6, <1>7, <1>8
  <1> QED
    BY <1>1, <1>9

\* What the corroboration gate looks at in a match.
LEMMA MatchFields ==
    ASSUME NEW t, NEW id, NEW exposure
    PROVE  /\ Match(t, id, exposure).topical = Topical(t.corpus[id])
           /\ Match(t, id, exposure).corroborated
                = (Corroborators(t, t.corpus[id], exposure) # {})
           /\ Match(t, id, exposure).rows
                = {<<"rfi", 1>>} \cup {c.row : c \in Corroborators(t, t.corpus[id], exposure)}
  BY DEF Match

\* Of some matches there is a first.
LEMMA SomethingIsPrimary ==
    ASSUME NEW t, AdvisoryTables(t), NEW exposure, IsFiniteSet(exposure),
           match_advisories(t, exposure) # {}
    PROVE  Primary(match_advisories(t, exposure)) # {}
  <1> DEFINE X == match_advisories(t, exposure)
             f == [id \in DOMAIN t.corpus |-> Match(t, id, exposure)]
             r == [m \in X |-> m.rank]
  <1>1. \A m \in X : \E id \in DOMAIN t.corpus : m = Match(t, id, exposure)
    BY DEF match_advisories
  <1>2. IsFiniteSet(X)
    <2>1. IsFiniteSet(DOMAIN t.corpus)
      BY CorpusShape, FS_Interval
    <2>2. f = [id \in DOMAIN t.corpus |-> f[id]]
      OBVIOUS
    <2>3. X \subseteq {f[id] : id \in DOMAIN t.corpus}
      BY <1>1
    <2> HIDE DEF f, X
    <2>4. IsFiniteSet({f[id] : id \in DOMAIN t.corpus})
      BY <2>1, <2>2, FiniteImage
    <2> QED
      BY <2>3, <2>4, FS_Subset
  <1>3. \A m \in X : DOMAIN m.rank = 1..6 /\ \A k \in 1..6 : m.rank[k] \in Int
    BY <1>1, RankShape
  <1>4. \A m, n \in X : m.rank[6] = n.rank[6] => m = n
    <2> SUFFICES ASSUME NEW m \in X, NEW n \in X, m.rank[6] = n.rank[6] PROVE m = n
      OBVIOUS
    <2>1. PICK i \in DOMAIN t.corpus : m = Match(t, i, exposure)
      BY <1>1
    <2>2. PICK j \in DOMAIN t.corpus : n = Match(t, j, exposure)
      BY <1>1
    <2>3. m.rank[6] = 0 - i /\ n.rank[6] = 0 - j
      BY <2>1, <2>2, RankShape
    <2>4. i \in Int /\ j \in Int
      BY CorpusShape
    <2>6. 0 - i = 0 - j
      BY <2>3
    <2>5. i = j
      BY <2>4, <2>6
    <2> QED
      BY <2>1, <2>2, <2>5
  <1> HIDE DEF X
  <1>5. \A m \in X : r[m] = m.rank
    OBVIOUS
  <1> HIDE DEF r
  <1>6. ASSUME NEW k \in 1..6
        PROVE  (\A m \in X : r[m][k] \in Int) /\ IsFiniteSet({r[m][k] : m \in X})
    <2> DEFINE g == [m \in X |-> r[m][k]]
    <2>1. g = [m \in X |-> g[m]] /\ {r[m][k] : m \in X} = {g[m] : m \in X}
      OBVIOUS
    <2> HIDE DEF g
    <2>2. IsFiniteSet({g[m] : m \in X})
      BY <1>2, <2>1, FiniteImage
    <2> QED
      BY <1>3, <1>5, <2>1, <2>2
  <1>7. X # {} /\ 6 \in Nat
    BY DEF X
  <1>8. PICK m \in X : \A n \in X : Leads(r, m, n, 6)
    BY <1>6, <1>7, SomethingLeads
  <1>9. ASSUME NEW n \in X \ {m} PROVE Before(m, n)
    <2>1. r[m] = m.rank /\ r[n] = n.rank /\ m.rank[6] # n.rank[6]
      BY <1>4, <1>5, <1>9
    <2>2. \E k \in 1..6 : r[m][k] > r[n][k] /\ \A j \in 1..k - 1 : r[m][j] = r[n][j]
      BY <1>8, <2>1 DEF Leads
    <2> QED
      BY <1>3, <2>1, <2>2 DEF Before
  <1>10. m \in Primary(X)
    BY <1>8, <1>9 DEF Primary
  <1> QED
    BY <1>10 DEF X

\* The draft has an advisory to cite exactly when one is borne out, and cites
\* rows for it.
LEMMA AdvisoryShape ==
    ASSUME NEW t, RfiTables(t), AdvisoryTables(t), DraftTables(t)
    PROVE  /\ Advisory(t) # {} <=>
                t.answered /\ \E n \in DOMAIN t.corpus :
                    /\ t.corpus[n].terms > 0 \/ t.corpus[n].scores # << >>
                    /\ \/ t.aliased
                       \/ \E u \in Accounts : Reaches(MoneyEdges(t), {u}, SanctionedReached(t))
                       \/ \E u \in Accounts : t.seats[u] \cap t.corpus[n].names # {}
           /\ Advisory(t) \subseteq Rows(t)
  <1> DEFINE exposure == ExposureRow(t)
             X == match_advisories(t, exposure)
  <1>1. Advisory(t) = UNION {m.rows : m \in Primary(X)}
    <2>1. Matches(t) = X
      BY DEF Matches
    <2> QED
      BY <2>1 DEF Advisory, AdvisoryRows
  <1>2. /\ exposure # {} <=> \E u \in Accounts : Reaches(MoneyEdges(t), {u}, SanctionedReached(t))
        /\ \A row \in exposure :
                 \/ \E i \in Txs(t) : row = <<"transactions", i>>
                 \/ \E a \in Addresses : row = AddressRow(a)
        /\ IsFiniteSet(exposure)
    BY ExposureShape
  <1> HIDE DEF exposure
  <1>3. ASSUME NEW n \in DOMAIN t.corpus
        PROVE  Corroborators(t, t.corpus[n], exposure) # {} <=>
                 t.aliased \/ exposure # {} \/ \E u \in Accounts : t.seats[u] \cap t.corpus[n].names # {}
    <2> DEFINE adv == t.corpus[n]
               A == {[kind |-> "jurisdiction", row |-> SeatRow(t, code)] : code \in adv.names \cap Jurisdictions(t)}
               B == {[kind |-> "watchlist", row |-> AliasRow] : x \in {y \in {t.aliased} : y}}
               C == {[kind |-> "sanctioned_exposure", row |-> row] : row \in exposure}
    <2>1. Corroborators(t, adv, exposure) = A \cup B \cup C
      BY DEF Corroborators
    <2>2. A # {} <=> \E u \in Accounts : t.seats[u] \cap adv.names # {}
      BY DEF Jurisdictions
    <2>3. B # {} <=> t.aliased
      OBVIOUS
    <2>4. C # {} <=> exposure # {}
      OBVIOUS
    <2> QED
      BY <2>1, <2>2, <2>3, <2>4
  <1>4. X # {} <=>
          t.answered /\ \E n \in DOMAIN t.corpus :
              Topical(t.corpus[n]) /\ Corroborators(t, t.corpus[n], exposure) # {}
    <2>1. X = {m \in {Match(t, id, exposure) : id \in {id \in DOMAIN t.corpus : t.answered}} : Survives(m)}
      BY DEF match_advisories
    <2>2. \A id : Survives(Match(t, id, exposure)) <=>
                    Topical(t.corpus[id]) /\ Corroborators(t, t.corpus[id], exposure) # {}
      BY MatchFields DEF Survives
    <2> QED
      BY <2>1, <2>2
  <1>5. \A m \in X : t.answered /\ \E id \in DOMAIN t.corpus : m = Match(t, id, exposure)
    BY DEF match_advisories
  <1>6. \A m \in X : <<"rfi", 1>> \in m.rows
    BY <1>5, MatchFields
  <1>7. Primary(X) \subseteq X /\ (X # {} => Primary(X) # {})
    BY <1>2, SomethingIsPrimary DEF Primary
  <1> HIDE DEF X
  <1>8. Advisory(t) # {} <=> X # {}
    BY <1>1, <1>6, <1>7
  <1>9. ASSUME NEW m \in X, NEW row \in m.rows PROVE row \in Rows(t)
    <2>1. PICK id \in DOMAIN t.corpus : m = Match(t, id, exposure)
      BY <1>5
    <2>2. row = <<"rfi", 1>> \/ \E c \in Corroborators(t, t.corpus[id], exposure) : row = c.row
      BY <1>9, <2>1, MatchFields
    <2>3. CASE row = <<"rfi", 1>>
      <3>1. 1 \in {n \in {1} : t.answered}
        BY <1>5
      <3>2. row \in Cites("rfi", {n \in {1} : t.answered})
        BY <2>3, <3>1, CitesShape
      <3> QED
        BY <3>2 DEF Rows
    <2>4. CASE \E c \in Corroborators(t, t.corpus[id], exposure) : row = c.row
      <3>1. \/ \E code \in t.corpus[id].names \cap Jurisdictions(t) : row = SeatRow(t, code)
            \/ row = AliasRow
            \/ row \in exposure
        BY <2>4 DEF Corroborators
      <3>2. CASE \E code \in Jurisdictions(t) : row = SeatRow(t, code)
        <4>1. PICK code \in Jurisdictions(t) : row = SeatRow(t, code)
          BY <3>2
        <4>2. \E u \in Accounts : code \in t.seats[u]
          BY <4>1 DEF Jurisdictions
        <4>3. (CHOOSE u \in Accounts : code \in t.seats[u]) \in Accounts
          BY <4>2, Zenon
        <4>4. row \in Cites("accounts", Accounts)
          BY <4>1, <4>3, CitesShape DEF SeatRow
        <4> QED
          BY <4>4 DEF Rows
      <3>3. CASE row = AliasRow
        <4>1. row \in Cites("sdn_list", {1})
          BY <3>3, CitesShape DEF AliasRow
        <4> QED
          BY <4>1 DEF Rows
      <3>4. CASE row \in exposure
        <4>1. row \in Cites("transactions", Txs(t)) \/ row \in Cites("addresses", Addresses)
          BY <1>2, <3>4, CitesShape DEF AddressRow
        <4> QED
          BY <4>1 DEF Rows
      <3> QED
        BY <3>1, <3>2, <3>3, <3>4
    <2> QED
      BY <2>2, <2>3, <2>4
  <1>10. Advisory(t) \subseteq Rows(t)
    BY <1>1, <1>7, <1>9
  <1> QED
    BY <1>2, <1>3, <1>4, <1>8, <1>10 DEF Topical

-----------------------------------------------------------------------------
(* The evidence of the properties is what the expansion draws              *)

\* An account holds a reference when the reference is among its own.
LEMMA HoldersHold ==
    ASSUME RfiTables(w), NEW u \in Accounts
    PROVE  /\ \A r \in References : Holder(r) = u <=> r \in RefsFor(w, u)
           /\ \A i \in Txs(w) : Party(u, i) <=> Touches(w, i, RefsFor(w, u))
  <1>1. \A r \in References : Holder(r) = u <=> r \in RefsFor(w, u)
    BY RfiAssumption DEF References, Holder, RefsFor, addresses_for
  <1>2. \A i \in Txs(w) : w.txs[i].from \in References /\ w.txs[i].to \in References
    BY LedgerShape
  <1> QED
    BY <1>1, <1>2 DEF Party, Touches

\* Accounts are tied when the expansion links them.
LEMMA TiesAreLinks ==
    ASSUME RfiTables(w), NEW u \in Accounts, NEW v \in Accounts, u # v
    PROVE  Tied(u, v) <=> v \in Linked(w, u)
  <1>1. (\E i \in Txs(w) : Party(u, i) /\ Party(v, i)) <=>
           \E i \in Txs(w) : Touches(w, i, RefsFor(w, u)) /\ Touches(w, i, RefsFor(w, v))
    BY HoldersHold
  <1>2. SameDoc(u, v) <=> v \in OnKyc(w, u)
    BY DEF SameDoc, OnKyc
  <1> QED
    BY <1>1, <1>2 DEF Tied, Together, Linked

\* What n hops discover are the accounts at the end of a chain of n ties.
LEMMA ChainsAreHops ==
    ASSUME RfiTables(w), DraftTables(w), NEW n \in 0..w.hops
    PROVE  \A u : Within(n, u) <=> u \in Discovered(w)[n]
  <1> DEFINE S == {m \in 0..w.hops : \A u : Within(m, u) <=> u \in Discovered(w)[m]}
  <1>0. w.hops \in Nat /\ w.subject \in Accounts
    BY DEF RfiTables, DraftTables
  <1>1. 0 \in S
    <2>1. Discovered(w)[0] = {w.subject}
      BY DiscoveredByHops
    <2>2. ASSUME NEW u, Within(0, u) PROVE u = w.subject
      BY <2>2 DEF Within
    <2>3. Within(0, w.subject)
      <3> DEFINE c == [k \in 0..0 |-> w.subject]
      <3>1. c \in [0..0 -> Accounts] /\ c[0] = w.subject /\ 1..0 = {}
        BY <1>0
      <3> HIDE DEF c
      <3> QED
        BY <3>1 DEF Within
    <2>4. \A u : Within(0, u) <=> u \in Discovered(w)[0]
      BY <2>1, <2>2, <2>3
    <2> QED
      BY <1>0, <2>4
  <1>2. ASSUME NEW m \in 1..w.hops, m - 1 \in S PROVE m \in S
    <2> DEFINE before == Discovered(w)[m - 1]
    <2>1. /\ m \in Nat /\ m \in 0..w.hops /\ m - 1 \in 0..w.hops /\ m - 1 \in Nat /\ m # 0
          /\ \A k \in 0..(m - 1) : k \in 0..m /\ k # m
          /\ \A k \in 1..(m - 1) : k \in 1..m /\ k - 1 \in 0..(m - 1) /\ k \in 0..(m - 1)
          /\ m \in 1..m /\ m \in 0..m /\ 0 \in 0..(m - 1) /\ m - 1 \in 0..(m - 1) /\ 0 \in 0..m
          /\ \A k \in 1..m : k # m => k \in 1..(m - 1)
          /\ \A k \in 0..m : k # m => k \in 0..(m - 1)
      BY <1>0
    <2>2. Discovered(w)[m] = before \cup UNION {Linked(w, u) : u \in before}
      BY DiscoveredByHops
    <2>3. before \subseteq Accounts
      BY <2>1, DiscoveredAreAccounts
    <2>4. \A u : Within(m - 1, u) <=> u \in before
      BY <1>2
    <2> HIDE DEF before
    <2>5. ASSUME NEW u, Within(m, u) PROVE u \in Discovered(w)[m]
      <3>1. PICK c \in [0..m -> Accounts] :
               /\ c[0] = w.subject /\ c[m] = u
               /\ \A k \in 1..m : c[k] = c[k - 1] \/ Tied(c[k - 1], c[k])
        BY <2>5 DEF Within
      <3> DEFINE d == [k \in 0..(m - 1) |-> c[k]]
      <3>2. d \in [0..(m - 1) -> Accounts] /\ \A k \in 0..(m - 1) : d[k] = c[k]
        BY <2>1, <3>1
      <3> HIDE DEF d
      <3>3. /\ d[0] = w.subject /\ d[m - 1] = c[m - 1]
            /\ \A k \in 1..(m - 1) : d[k] = d[k - 1] \/ Tied(d[k - 1], d[k])
        BY <2>1, <3>1, <3>2
      <3>4. Within(m - 1, c[m - 1])
        BY <3>2, <3>3 DEF Within
      <3>5. c[m - 1] \in before /\ c[m - 1] \in Accounts /\ u \in Accounts
        BY <2>1, <2>3, <2>4, <3>1, <3>4
      <3>6. u = c[m - 1] \/ Tied(c[m - 1], u)
        BY <2>1, <3>1
      <3>7. u = c[m - 1] \/ u \in Linked(w, c[m - 1])
        BY <3>5, <3>6, TiesAreLinks
      <3> QED
        BY <2>2, <3>5, <3>7
    <2>6. ASSUME NEW u \in Discovered(w)[m] PROVE Within(m, u)
      <3>1. PICK v \in before : u = v \/ u \in Linked(w, v)
        BY <2>2
      <3>2. v \in Accounts /\ u \in Accounts /\ (u # v => u \in Linked(w, v))
        BY <2>3, <3>1 DEF Linked
      <3>3. u = v \/ Tied(v, u)
        BY <3>2, TiesAreLinks
      <3>4. PICK c \in [0..(m - 1) -> Accounts] :
               /\ c[0] = w.subject /\ c[m - 1] = v
               /\ \A k \in 1..(m - 1) : c[k] = c[k - 1] \/ Tied(c[k - 1], c[k])
        BY <2>4 DEF Within
      <3> DEFINE d == [k \in 0..m |-> IF k = m THEN u ELSE c[k]]
      <3>5. d \in [0..m -> Accounts]
        BY <2>1, <3>2, <3>4
      <3>6. d[m] = u /\ \A k \in 0..(m - 1) : d[k] = c[k]
        BY <2>1
      <3> HIDE DEF d
      <3>7. d[0] = w.subject /\ d[m - 1] = v
        BY <2>1, <3>4, <3>6
      <3>8. ASSUME NEW k \in 1..m PROVE d[k] = d[k - 1] \/ Tied(d[k - 1], d[k])
        <4>1. CASE k = m
          BY <3>3, <3>6, <3>7, <4>1
        <4>2. CASE k # m
          BY <2>1, <3>4, <3>6, <4>2
        <4> QED
          BY <4>1, <4>2
      <3> QED
        BY <3>5, <3>6, <3>7, <3>8 DEF Within
    <2> QED
      BY <2>1, <2>5, <2>6
  <1> HIDE DEF S
  <1>3. 0..w.hops \subseteq S
    BY <1>0, <1>1, <1>2, UpTo
  <1> QED
    BY <1>3 DEF S

\* What is looked at is what is visited, and what its rows show is drawn.
LEMMA InHandIsDrawn ==
    ASSUME RfiTables(w), DraftTables(w)
    PROVE  /\ Looked = Visited(w) /\ InHand = WalkNodes(w)
           /\ \A u : Within(w.hops, u) <=> u \in Walked(w)
           /\ WalkNodes(w) \subseteq References
  <1>1. w.hops \in 0..w.hops /\ w.hops - 1 \in 0..w.hops
    BY DEF DraftTables
  <1>2. \A u : /\ Within(w.hops - 1, u) <=> u \in Visited(w)
               /\ Within(w.hops, u) <=> u \in Walked(w)
    BY <1>1, ChainsAreHops DEF Visited, Walked
  <1>3. Visited(w) \subseteq Accounts
    BY DiscoveredAreAccounts
  <1>4. Looked = Visited(w)
    BY <1>2, <1>3 DEF Looked
  <1>5. ASSUME NEW u \in Accounts PROVE Shown(u) = NodesOf(w, u)
    <2> DEFINE devices == UNION {w.devices[f] : f \in {f \in Fingerprints : u \in w.devices[f]}}
               parties == UNION {{w.txs[i].from, w.txs[i].to} :
                                    i \in {i \in Txs(w) : Touches(w, i, RefsFor(w, u))}}
    <2>1. NodesOf(w, u) = RefsFor(w, u) \cup OnKyc(w, u) \cup devices \cup parties
      BY DEF NodesOf
    <2>2. \A r \in References : r \in RefsFor(w, u) <=> Holder(r) = u
      BY HoldersHold
    <2>3. RefsFor(w, u) \subseteq References
      BY DEF RefsFor, addresses_for, References
    <2>4. \A r \in Accounts : r \in OnKyc(w, u) <=> SameDoc(u, r)
      BY DEF OnKyc, SameDoc
    <2>5. OnKyc(w, u) \subseteq Accounts
      BY DEF OnKyc
    <2>6. devices \subseteq Accounts
      BY DEF RfiTables
    <2>7. \A r : r \in devices <=> \E f \in Fingerprints : {u, r} \subseteq w.devices[f]
      OBVIOUS
    <2>8. parties \subseteq References
      BY LedgerShape
    <2>9. \A r : r \in parties <=> \E i \in Txs(w) : Party(u, i) /\ r \in {w.txs[i].from, w.txs[i].to}
      BY HoldersHold
    <2> HIDE DEF devices, parties
    <2>10. \A r : r \in Shown(u) <=>
              r \in References /\ (\/ Holder(r) = u
                                   \/ r \in Accounts /\ (SameDoc(u, r) \/ r \in devices)
                                   \/ r \in parties)
      BY <2>7, <2>9, Zenon DEF Shown, Together, References
    <2>11. Accounts \subseteq References
      BY DEF References
    <2>12. \A r : r \in Shown(u) <=> r \in NodesOf(w, u)
      BY <2>1, <2>2, <2>3, <2>4, <2>5, <2>6, <2>8, <2>10, <2>11
    <2> QED
      BY <2>12
  <1>6. InHand = WalkNodes(w)
    BY <1>3, <1>4, <1>5 DEF InHand, WalkNodes
  <1>7. InHand \subseteq References
    BY DEF InHand, Shown, References
  <1> QED
    BY <1>2, <1>4, <1>6, <1>7

\* The gas rows of the case, the money and the evidence.
LEMMA EvidenceIsDrawn ==
    ASSUME RfiTables(w), DraftTables(w)
    PROVE  /\ Evidence = Nodes(w) /\ Money = MoneyEdges(w)
           /\ GasLinks(w) = {g \in Gas : Holder(g[1]) \in Accounts}
  <1>1. /\ Looked = Visited(w) /\ InHand = WalkNodes(w)
        /\ \A u : Within(w.hops, u) <=> u \in Walked(w)
        /\ WalkNodes(w) \subseteq References
    BY InHandIsDrawn
  <1>2. \A g \in w.gas : g[1] \in Addresses /\ g[2] \in Addresses
    BY DEF RfiTables
  <1>3. \A a \in Addresses : /\ Holder(a) = w.controller[a]
                             /\ w.controller[a] \in Accounts <=> w.controller[a] # Nobody
    BY RfiAssumption DEF Holder, RfiTables
  <1>4. Gas = GasRows(w)
    BY <1>1, <1>2, <1>3 DEF Gas, GasRows
  <1>5. GasLinks(w) = {g \in Gas : Holder(g[1]) \in Accounts}
    BY <1>2, <1>3, <1>4 DEF GasLinks, Gas
  <1>6. Evidence = Nodes(w)
    <2> DEFINE named == UNION {{g[1], g[2], Holder(g[1])} : g \in Gas}
               rows == UNION {{g[1], g[2]} : g \in Gas}
               links == {g \in Gas : Holder(g[1]) \in Accounts}
    <2>1. Gas \subseteq w.gas
      BY DEF Gas
    <2>2. GasControllers(w) = {Holder(g[1]) : g \in links}
      BY <1>2, <1>3, <1>5, <2>1 DEF GasControllers
    <2>3. ASSUME NEW r \in References
          PROVE  r \in named <=> r \in rows \/ r \in {Holder(g[1]) : g \in links}
      <3>1. r \in named <=> r \in rows \/ \E g \in Gas : r = Holder(g[1])
        OBVIOUS
      <3>2. \A g \in Gas : r = Holder(g[1]) => Holder(g[1]) \in Accounts
        BY <1>2, <1>3, <2>1, <2>3, RfiAssumption DEF References, RfiTables
      <3> QED
        BY <3>1, <3>2
    <2>4. rows \subseteq References /\ {Holder(g[1]) : g \in links} \subseteq References
      BY <1>2, <2>1 DEF References
    <2>5. Evidence = InHand \cup (References \cap named)
      BY DEF Evidence, References
    <2>6. Nodes(w) = WalkNodes(w) \cup {Holder(g[1]) : g \in links} \cup rows
      BY <1>4, <2>2 DEF Nodes
    <2> HIDE DEF named, rows, links
    <2> QED
      BY <1>1, <2>3, <2>4, <2>5, <2>6
  <1>7. Money = MoneyEdges(w)
    <2>1. Visited(w) \subseteq Accounts
      BY DiscoveredAreAccounts
    <2>2. Drawn(w) = {i \in Txs(w) : \E u \in Looked : Party(u, i)}
      BY <1>1, <2>1, HoldersHold DEF Drawn
    <2>3. \A a \in Addresses : Holder(a) = w.controller[a]
      BY <1>3
    <2>4. {<<Holder(a), a>> : a \in {a \in Addresses : Holder(a) \in Looked}}
             = {<<w.controller[a], a>> : a \in {a \in Addresses : w.controller[a] \in Visited(w)}}
      BY <1>1, <2>3
    <2> QED
      BY <2>2, <2>4 DEF Money, MoneyEdges
  <1> QED
    BY <1>5, <1>6, <1>7

\* What may be quoted is what is near, and there is something to say and a way
\* to tell how exactly when the templates have a claim.
LEMMA QuotableIsNear ==
    ASSUME RfiTables(w), DraftTables(w)
    PROVE  Quotable = TellsInClosure(w)
  BY EvidenceIsDrawn DEF Quotable, TellsInClosure, InClosure

LEMMA AnomaliesAreFound ==
    ASSUME RfiTables(w), DraftTables(w)
    PROVE  Anomalous <=> detect_all(w) # {}
  <1>0. w.subject \in Accounts
    BY DEF RfiTables
  <1> DEFINE vpn == {n \in DOMAIN w.logins : w.logins[n].vpn}
             At(p) == {n \in DOMAIN w.logins : ~w.logins[n].vpn /\ w.logins[n].place = p}
  <1>1. geo_ip_mismatch(w) # {} <=>
          \E n \in DOMAIN w.logins \ vpn : w.logins[n].place \in {"territory", "abroad"}
    <2>1. geo_ip_mismatch(w) # {} <=> \E p \in {"territory", "abroad"} : At(p) # {}
      <3> DEFINE S == {p \in {"territory", "abroad"} : At(p) # {}}
                 claim(p) == Claim("what", {AccountRow(w.subject)} \cup Cites("ip_logs", At(p)))
      <3>1. geo_ip_mismatch(w) = {claim(p) : p \in S}
        BY DEF geo_ip_mismatch
      <3>2. {claim(p) : p \in S} # {} <=> S # {}
        <4> HIDE DEF S, claim
        <4> QED
          OBVIOUS
      <3>3. S # {} <=> \E p \in {"territory", "abroad"} : At(p) # {}
        <4> HIDE DEF At
        <4> QED
          OBVIOUS
      <3> QED
        BY <3>1, <3>2, <3>3
    <2> QED
      BY <2>1
  <1>2. vpn_elevation(w) # {} <=> vpn # {} /\ 10 * Cardinality(vpn) >= 3 * Len(w.logins)
    BY DEF vpn_elevation
  <1>3. reused_kyc(w) # {} <=> \E u \in Accounts \ {w.subject} : SameDoc(w.subject, u)
    <2>1. reused_kyc(w) # {} <=> OnKyc(w, w.subject) \ {w.subject} # {}
      BY DEF reused_kyc
    <2> QED
      BY <2>1 DEF OnKyc, SameDoc
  <1>4. shared_device(w) # {} <=>
          \E u \in Accounts \ {w.subject} : \E f \in Fingerprints : {w.subject, u} \subseteq w.devices[f]
    <2>1. shared_device(w) # {} <=>
            \E f \in Fingerprints : w.subject \in w.devices[f] /\ w.devices[f] \ {w.subject} # {}
      BY DEF shared_device, CoAccounts
    <2>2. \A f \in Fingerprints : w.devices[f] \subseteq Accounts
      BY DEF RfiTables
    <2> QED
      BY <2>1, <2>2
  <1>5. internal_tag(w) # {} <=> w.tag # "none"
    BY DEF internal_tag
  <1>6. Anomalous <=>
          \/ \E n \in DOMAIN w.logins \ vpn : w.logins[n].place \in {"territory", "abroad"}
          \/ vpn # {} /\ 10 * Cardinality(vpn) >= 3 * Len(w.logins)
          \/ \E u \in Accounts \ {w.subject} : Together(w.subject, u)
          \/ w.tag # "none"
    BY DEF Anomalous
  <1> HIDE DEF vpn, Hits
  <1>7. (\E u \in Accounts \ {w.subject} : Together(w.subject, u)) <=>
          reused_kyc(w) # {} \/ shared_device(w) # {}
    BY <1>3, <1>4 DEF Together
  <1>8. detect_all(w) # {} <=> \/ geo_ip_mismatch(w) # {} \/ vpn_elevation(w) # {}
                              \/ reused_kyc(w) # {} \/ shared_device(w) # {} \/ internal_tag(w) # {}
    BY DEF detect_all
  <1> QED
    BY <1>1, <1>2, <1>5, <1>6, <1>7, <1>8

-----------------------------------------------------------------------------
(* What a draft quotes and cites                                           *)

\* The tells of the first draft are the first of those within the closure.
LEMMA DraftedTellsAre ==
    ASSUME NEW t, DraftTables(t)
    PROVE  /\ DraftedTells(t) =
                {t.tells[p] : p \in {p \in TellsInClosure(t) : Place(TellsInClosure(t), p) <= MaxTells}}
           /\ DraftedTells(t) = {} <=> TellsInClosure(t) = {}
  <1> DEFINE P == TellsInClosure(t)
             kept == Picked(t.tells, P)
             N == Cardinality(P)
  <1>1. Len(t.tells) \in Nat /\ DOMAIN t.tells = 1..Len(t.tells)
    <2>1. t.tells \in Seq(Tells(t))
      BY DEF DraftTables
    <2> QED
      BY <2>1
  <1>2. P \in SUBSET (1..Len(t.tells))
    BY <1>1 DEF TellsInClosure
  <1>3. DraftedTells(t) = {kept[n] : n \in DOMAIN kept \cap (1..MaxTells)}
    BY DEF DraftedTells
  <1> HIDE DEF P
  <1>a. Lists(kept, t.tells, P)
    BY <1>1, <1>2, PickedHasAll
  <1>5. /\ N \in Nat /\ kept = [k \in 1..N |-> kept[k]] /\ IsFiniteSet(P)
        /\ \A p \in P : Place(P, p) \in 1..N /\ kept[Place(P, p)] = t.tells[p]
        /\ \A k \in 1..N : \E p \in P : Place(P, p) = k /\ kept[k] = t.tells[p]
    BY <1>a, Zenon DEF Lists
  <1>6. N = 0 <=> P = {}
    BY <1>5, FS_EmptySet
  <1> HIDE DEF kept, N
  <1>7. DraftedTells(t) = {kept[n] : n \in (1..N) \cap (1..MaxTells)}
    BY <1>3, <1>5
  <1>8. \A k : k \in (1..N) \cap (1..MaxTells) <=> k \in 1..N /\ k <= MaxTells
    BY <1>5 DEF MaxTells
  <1>9. DraftedTells(t) = {t.tells[p] : p \in {p \in P : Place(P, p) <= MaxTells}}
    <2>1. ASSUME NEW c \in DraftedTells(t)
          PROVE  c \in {t.tells[p] : p \in {p \in P : Place(P, p) <= MaxTells}}
      <3>1. PICK k : k \in 1..N /\ k <= MaxTells /\ c = kept[k]
        BY <1>7, <1>8
      <3>2. PICK p \in P : Place(P, p) = k /\ kept[k] = t.tells[p]
        BY <1>5, <3>1
      <3> QED
        BY <3>1, <3>2
    <2>2. ASSUME NEW p \in P, Place(P, p) <= MaxTells
          PROVE  t.tells[p] \in DraftedTells(t)
      <3>1. Place(P, p) \in 1..N /\ kept[Place(P, p)] = t.tells[p]
        BY <1>5
      <3>2. Place(P, p) \in (1..N) \cap (1..MaxTells)
        BY <1>8, <2>2, <3>1
      <3> QED
        BY <1>7, <3>1, <3>2
    <2> QED
      BY <2>1, <2>2
  <1>10. DraftedTells(t) = {} <=> P = {}
    <2>1. (1..N) \cap (1..MaxTells) = {} <=> N = 0
      <3>1. N # 0 => 1 \in 1..N /\ 1 \in 1..MaxTells
        BY <1>5 DEF MaxTells
      <3>2. N = 0 => 1..N = {}
        OBVIOUS
      <3> QED
        BY <3>1, <3>2
    <2> QED
      BY <1>6, <1>7, <2>1
  <1> QED
    BY <1>9, <1>10 DEF P

\* The rows there are to cite.
LEMMA RowsAre ==
    ASSUME NEW t
    PROVE  /\ \A X : X \subseteq Accounts => Cites("accounts", X) \subseteq Rows(t)
           /\ \A X : X \subseteq Addresses => Cites("addresses", X) \subseteq Rows(t)
           /\ \A X : X \subseteq Txs(t) => Cites("transactions", X) \subseteq Rows(t)
           /\ \A X : X \subseteq t.gas => Cites("gas_funding", X) \subseteq Rows(t)
           /\ \A X : X \subseteq DOMAIN t.logins => Cites("ip_logs", X) \subseteq Rows(t)
           /\ \A X : X \subseteq DOMAIN t.priors => Cites("rfi_prior", X) \subseteq Rows(t)
           /\ \A X : X \subseteq t.officers => Cites("registry", X) \subseteq Rows(t)
           /\ \A X : X \subseteq Fingerprints \X Accounts => Cites("devices", X) \subseteq Rows(t)
           /\ \A X : X \subseteq Docs => Cites("kyc_docs", X) \subseteq Rows(t)
           /\ t.answered => <<"rfi", 1>> \in Rows(t)
           /\ \A u \in Accounts : AccountRow(u) \in Rows(t)
           /\ \A k \in Txs(t) : <<"transactions", k>> \in Rows(t)
           /\ \A r \in ToSet(t.tells) : r.kind = "address_book" =>
                 <<"address_book", <<r.owner, r.saved>>>> \in Rows(t)
  <1>1. \A source, X, Y : X \subseteq Y => Cites(source, X) \subseteq Cites(source, Y)
    BY DEF Cites
  <1>2. t.answered => <<"rfi", 1>> \in Cites("rfi", {n \in {1} : t.answered})
    BY CitesShape
  <1>3. \A u \in Accounts : AccountRow(u) \in Cites("accounts", Accounts)
    BY CitesShape DEF AccountRow
  <1>4. \A k \in Txs(t) : <<"transactions", k>> \in Cites("transactions", Txs(t))
    BY CitesShape
  <1> DEFINE saved == {<<r.owner, r.saved>> : r \in {r \in ToSet(t.tells) : r.kind = "address_book"}}
  <1>5. ASSUME NEW r \in ToSet(t.tells), r.kind = "address_book"
        PROVE  <<"address_book", <<r.owner, r.saved>>>> \in Cites("address_book", saved)
    <2>1. <<r.owner, r.saved>> \in saved
      BY <1>5
    <2> QED
      BY <2>1, CitesShape
  <1>6. /\ Cites("accounts", Accounts) \subseteq Rows(t)
        /\ Cites("addresses", Addresses) \subseteq Rows(t)
        /\ Cites("rfi", {n \in {1} : t.answered}) \subseteq Rows(t)
        /\ Cites("transactions", Txs(t)) \subseteq Rows(t) /\ Cites("gas_funding", t.gas) \subseteq Rows(t)
        /\ Cites("ip_logs", DOMAIN t.logins) \subseteq Rows(t)
        /\ Cites("rfi_prior", DOMAIN t.priors) \subseteq Rows(t)
        /\ Cites("registry", t.officers) \subseteq Rows(t)
        /\ Cites("devices", Fingerprints \X Accounts) \subseteq Rows(t)
        /\ Cites("kyc_docs", Docs) \subseteq Rows(t) /\ Cites("address_book", saved) \subseteq Rows(t)
    BY DEF Rows
  <1> HIDE DEF saved
  <1>7. ASSUME NEW source, NEW Y, Cites(source, Y) \subseteq Rows(t)
        PROVE  \A X : X \subseteq Y => Cites(source, X) \subseteq Rows(t)
    BY <1>1, <1>7
  <1>8. /\ \A X : X \subseteq Accounts => Cites("accounts", X) \subseteq Rows(t)
        /\ \A X : X \subseteq Addresses => Cites("addresses", X) \subseteq Rows(t)
        /\ \A X : X \subseteq Txs(t) => Cites("transactions", X) \subseteq Rows(t)
        /\ \A X : X \subseteq t.gas => Cites("gas_funding", X) \subseteq Rows(t)
        /\ \A X : X \subseteq DOMAIN t.logins => Cites("ip_logs", X) \subseteq Rows(t)
        /\ \A X : X \subseteq DOMAIN t.priors => Cites("rfi_prior", X) \subseteq Rows(t)
        /\ \A X : X \subseteq t.officers => Cites("registry", X) \subseteq Rows(t)
        /\ \A X : X \subseteq Fingerprints \X Accounts => Cites("devices", X) \subseteq Rows(t)
        /\ \A X : X \subseteq Docs => Cites("kyc_docs", X) \subseteq Rows(t)
    BY <1>6, <1>7, Zenon
  <1>9. /\ t.answered => <<"rfi", 1>> \in Rows(t)
        /\ \A u \in Accounts : AccountRow(u) \in Rows(t)
        /\ \A k \in Txs(t) : <<"transactions", k>> \in Rows(t)
    BY <1>2, <1>3, <1>4, <1>6
  <1>10. ASSUME NEW r \in ToSet(t.tells), r.kind = "address_book"
         PROVE  <<"address_book", <<r.owner, r.saved>>>> \in Rows(t)
    BY <1>5, <1>6, <1>10
  <1> QED
    BY <1>8, <1>9, <1>10

\* Every rebuttal cites rows.
LEMMA RebuttalsCiteRows ==
    ASSUME NEW t, RfiTables(t), NEW claim, NEW r \in run_checkers(t, claim)
    PROVE  r.cites \subseteq Rows(t)
  <1>1. CASE r \in check_registry(t, claim)
    <2>1. PICK x \in t.officers, y \in t.officers : r = Rebuttal("registry", 80, Cites("registry", {x, y}))
      <3>1. PICK p \in t.officers \X t.officers : r = Rebuttal("registry", 80, Cites("registry", {p[1], p[2]}))
        BY <1>1 DEF check_registry
      <3> QED
        BY <3>1
    <2>2. r.cites = Cites("registry", {x, y}) /\ {x, y} \subseteq t.officers
      BY <2>1 DEF Rebuttal
    <2> QED
      BY <2>2, RowsAre
  <1>2. CASE r \in check_prior_rfi(t, claim)
    <2>1. PICK k \in DOMAIN t.priors : r = Rebuttal("prior_rfi", 80, Cites("rfi_prior", {k}))
      BY <1>2 DEF check_prior_rfi
    <2>2. r.cites = Cites("rfi_prior", {k}) /\ {k} \subseteq DOMAIN t.priors
      BY <2>1 DEF Rebuttal
    <2> QED
      BY <2>2, RowsAre
  <1>3. CASE r \in check_onchain(t, claim)
    <2> DEFINE legs == {<<50, Cites("transactions", Flows(t, o))>> :
                           o \in IF claim.denies THEN named_entities(t, claim) ELSE {}}
               funds == IF claim.funds
                        THEN {<<90, Cites("transactions", ToSet(ExposurePath(t)))>>,
                              <<50, Cites("transactions", Structured(t))>>,
                              <<60, Cites("gas_funding", PaidHops(t))>>}
                        ELSE {}
    <2>1. PICK f \in legs \cup funds : r = Rebuttal("onchain", f[1], f[2])
      BY <1>3 DEF check_onchain
    <2>2. r.cites = f[2]
      BY <2>1 DEF Rebuttal
    <2>3. \/ \E o : f[2] = Cites("transactions", Flows(t, o))
          \/ f[2] = Cites("transactions", ToSet(ExposurePath(t)))
          \/ f[2] = Cites("transactions", Structured(t))
          \/ f[2] = Cites("gas_funding", PaidHops(t))
      BY <2>1
    <2>4. /\ \A o : Flows(t, o) \subseteq Txs(t) /\ Structured(t) \subseteq Txs(t)
          /\ PaidHops(t) \subseteq t.gas
      BY DEF Flows, Structured, PaidHops
    <2>5. ToSet(ExposurePath(t)) \subseteq Txs(t)
      BY FlowIsAPath DEF ExposurePath
    <2> HIDE DEF legs, funds
    <2> QED
      BY <2>2, <2>3, <2>4, <2>5, RowsAre
  <1>4. CASE r \in check_device(t, claim)
    <2>1. PICK f \in Fingerprints : r = Rebuttal("device", 50, Cites("devices", {f} \X t.devices[f]))
      BY <1>4 DEF check_device
    <2>2. t.devices[f] \subseteq Accounts
      BY DEF RfiTables
    <2>3. r.cites = Cites("devices", {f} \X t.devices[f])
      BY <2>1 DEF Rebuttal
    <2>4. {f} \X t.devices[f] \subseteq Fingerprints \X Accounts
      BY <2>2
    <2> QED
      BY <2>3, <2>4, RowsAre
  <1> QED
    BY <1>1, <1>2, <1>3, <1>4 DEF run_checkers

\* A claim that passes the first two checks of the contract.
Sound(t, c) == c.cites # {} /\ c.cites \subseteq Rows(t)

\* The anomalies cite rows, and quote nobody but the analyst who set the tag.
LEMMA AnomaliesAreSound ==
    ASSUME NEW t, RfiTables(t), DraftTables(t), NEW c \in detect_all(t)
    PROVE  Sound(t, c) /\ (c.banned => t.tag = "banned" /\ c \in internal_tag(t))
  <1>0. AccountRow(t.subject) \in Rows(t) /\ t.subject \in Accounts
    BY RowsAre DEF RfiTables
  <1>1. CASE c \in geo_ip_mismatch(t)
    <2>1. PICK X \in SUBSET DOMAIN t.logins :
             c = Claim("what", {AccountRow(t.subject)} \cup Cites("ip_logs", X))
      BY <1>1 DEF geo_ip_mismatch
    <2>2. c.cites = {AccountRow(t.subject)} \cup Cites("ip_logs", X) /\ c.banned = FALSE
      BY <2>1 DEF Claim
    <2>3. Cites("ip_logs", X) \subseteq Rows(t)
      BY RowsAre
    <2> QED
      BY <1>0, <2>2, <2>3 DEF Sound
  <1>2. CASE c \in vpn_elevation(t)
    <2>1. PICK X \in SUBSET DOMAIN t.logins : X # {} /\ c = Claim("what", Cites("ip_logs", X))
      BY <1>2 DEF vpn_elevation
    <2>2. c.cites = Cites("ip_logs", X) /\ c.banned = FALSE
      BY <2>1 DEF Claim
    <2>3. Cites("ip_logs", X) \subseteq Rows(t) /\ Cites("ip_logs", X) # {}
      BY <2>1, RowsAre, CitesShape
    <2> QED
      BY <2>2, <2>3 DEF Sound
  <1>3. CASE c \in reused_kyc(t)
    <2>1. /\ OnKyc(t, t.subject) \ {t.subject} # {}
          /\ c = Claim("what", {<<"kyc_docs", t.kyc[t.subject]>>} \cup Cites("accounts", OnKyc(t, t.subject)))
      BY <1>3 DEF reused_kyc
    <2>2. /\ c.cites = {<<"kyc_docs", t.kyc[t.subject]>>} \cup Cites("accounts", OnKyc(t, t.subject))
          /\ c.banned = FALSE
      BY <2>1 DEF Claim
    <2>3. t.kyc[t.subject] \in Docs
      <3>1. t.kyc[t.subject] # NoDoc
        BY <2>1 DEF OnKyc
      <3>2. t.kyc[t.subject] \in Docs \cup {NoDoc}
        BY <1>0 DEF DraftTables
      <3> QED
        BY <3>1, <3>2
    <2>4. <<"kyc_docs", t.kyc[t.subject]>> \in Rows(t)
      <3>1. Cites("kyc_docs", Docs) \subseteq Rows(t)
        BY RowsAre
      <3>2. <<"kyc_docs", t.kyc[t.subject]>> \in Cites("kyc_docs", Docs)
        BY <2>3, CitesShape
      <3> QED
        BY <3>1, <3>2
    <2>5. Cites("accounts", OnKyc(t, t.subject)) \subseteq Rows(t)
      BY RowsAre DEF OnKyc
    <2> QED
      BY <2>2, <2>4, <2>5 DEF Sound
  <1>4. CASE c \in shared_device(t)
    <2>1. PICK f \in Fingerprints :
             t.subject \in t.devices[f] /\ c = Claim("what", Cites("devices", {f} \X t.devices[f]))
      BY <1>4 DEF shared_device
    <2>2. c.cites = Cites("devices", {f} \X t.devices[f]) /\ c.banned = FALSE
      BY <2>1 DEF Claim
    <2>3. t.devices[f] \subseteq Accounts
      BY DEF RfiTables
    <2>4. {f} \X t.devices[f] \subseteq Fingerprints \X Accounts
      BY <2>3
    <2>5. <<f, t.subject>> \in {f} \X t.devices[f]
      BY <2>1
    <2>6. Cites("devices", {f} \X t.devices[f]) \subseteq Rows(t)
      BY <2>4, RowsAre
    <2>7. Cites("devices", {f} \X t.devices[f]) # {}
      BY <2>5, CitesShape
    <2> QED
      BY <2>2, <2>6, <2>7 DEF Sound
  <1>5. CASE c \in internal_tag(t)
    <2>1. t.tag # "none" /\ c = Quote("what", {AccountRow(t.subject)}, t.tag = "banned")
      BY <1>5 DEF internal_tag
    <2>2. c.cites = {AccountRow(t.subject)} /\ (c.banned => t.tag = "banned")
      BY <2>1 DEF Quote
    <2> QED
      BY <1>0, <1>5, <2>2 DEF Sound
  <1> QED
    BY <1>1, <1>2, <1>3, <1>4, <1>5 DEF detect_all

\* The rest of the first draft.
LEMMA TellsAreSound ==
    ASSUME NEW t, RfiTables(t), DraftTables(t), NEW r \in DraftedTells(t)
    PROVE  TellRow(r) \in Rows(t)
  <1>1. r \in ToSet(t.tells) /\ r \in Tells(t)
    <2>1. PICK p \in DOMAIN t.tells : r = t.tells[p]
      BY DraftedTellsAre DEF TellsInClosure
    <2>2. t.tells \in Seq(Tells(t))
      BY DEF DraftTables
    <2> QED
      BY <2>1, <2>2 DEF ToSet
  <1>2. (r.kind = "transaction" /\ r.tx \in Txs(t)) \/ r.kind = "address_book"
    BY <1>1 DEF Tells
  <1> QED
    BY <1>1, <1>2, RowsAre DEF TellRow

\* All of the first draft resolves, and over-claims only in words it quotes.
LEMMA FirstIsSound ==
    ASSUME NEW t, RfiTables(t), AdvisoryTables(t), DraftTables(t),
           NEW contradicted \in SUBSET Adjudications(t),
           NEW c \in build_sar(t, contradicted)
    PROVE  /\ Sound(t, c)
           /\ c.banned => \/ t.tag = "banned"
                          \/ \E r \in DraftedTells(t) : r.banned
                          \/ \E adj \in contradicted : t.rfi[adj.claim].banned
  <1>0. /\ AccountRow(t.subject) \in Rows(t)
        /\ t.answered => <<"rfi", 1>> \in Rows(t)
        /\ t.rfi # << >> => t.answered
    BY RowsAre DEF RfiTables
  <1>1. CASE c = Claim("who", {AccountRow(t.subject)})
    BY <1>0, <1>1 DEF Claim, Sound
  <1>2. CASE c \in detect_all(t)
    BY <1>2, AnomaliesAreSound
  <1>3. CASE c \in network_claim(t)
    <2>1. c = Claim("network", {AccountRow(t.subject)} \cup Cites("addresses", SanctionedReached(t)))
      BY <1>3 DEF network_claim
    <2>2. c.cites = {AccountRow(t.subject)} \cup Cites("addresses", SanctionedReached(t)) /\ c.banned = FALSE
      BY <2>1 DEF Claim
    <2>3. Cites("addresses", SanctionedReached(t)) \subseteq Rows(t)
      BY GraphShape, RowsAre
    <2> QED
      BY <1>0, <2>2, <2>3 DEF Sound
  <1>4. CASE \E r \in DraftedTells(t) : c = Quote("tell", {TellRow(r)}, r.banned)
    <2>1. PICK r \in DraftedTells(t) : c = Quote("tell", {TellRow(r)}, r.banned)
      BY <1>4
    <2>2. c.cites = {TellRow(r)} /\ c.banned = r.banned
      BY <2>1 DEF Quote
    <2>3. Sound(t, c)
      BY <2>2, TellsAreSound DEF Sound
    <2> QED
      BY <2>2, <2>3
  <1>5. CASE Advisory(t) # {} /\ c = Claim("advisory", Advisory(t))
    <2>1. c.cites = Advisory(t) /\ c.banned = FALSE
      BY <1>5 DEF Claim
    <2> QED
      BY <1>5, <2>1, AdvisoryShape DEF Sound
  <1>6. CASE t.answered /\ c = Claim("rfi", {<<"rfi", 1>>})
    BY <1>0, <1>6 DEF Claim, Sound
  <1>7. CASE \E adj \in contradicted : c = contradiction_claim(t, adj)
    <2>1. PICK adj \in contradicted : c = contradiction_claim(t, adj)
      BY <1>7
    <2>2. /\ c.cites = {<<"rfi", 1>>} \cup UNION {r.cites : r \in adj.rebuttals}
          /\ c.banned = t.rfi[adj.claim].banned
      BY <2>1 DEF contradiction_claim, Quote
    <2>3. PICK n \in DOMAIN t.rfi : adj = Adjudication(t, n)
      BY DEF Adjudications
    <2>4. adj.rebuttals = run_checkers(t, t.rfi[n])
      BY <2>3 DEF Adjudication
    <2>5. \A r \in adj.rebuttals : r.cites \subseteq Rows(t)
      BY <2>4, RebuttalsCiteRows
    <2>6. t.answered
      BY <1>0, <2>3
    <2>7. Sound(t, c)
      BY <1>0, <2>2, <2>5, <2>6 DEF Sound
    <2> QED
      BY <2>2, <2>7
  <1> QED
    BY <1>1, <1>2, <1>3, <1>4, <1>5, <1>6, <1>7 DEF build_sar

\* ... and it quotes what it is said to quote.
LEMMA FirstOverclaims ==
    ASSUME NEW t, NEW contradicted,
           \/ t.tag = "banned"
           \/ \E r \in DraftedTells(t) : r.banned
           \/ \E adj \in contradicted : t.rfi[adj.claim].banned
    PROVE  \E c \in build_sar(t, contradicted) : c.banned
  <1>1. CASE t.tag = "banned"
    <2>1. Quote("what", {AccountRow(t.subject)}, t.tag = "banned") \in internal_tag(t)
      BY <1>1 DEF internal_tag
    <2>2. Quote("what", {AccountRow(t.subject)}, t.tag = "banned") \in build_sar(t, contradicted)
      BY <2>1 DEF detect_all, build_sar
    <2>3. Quote("what", {AccountRow(t.subject)}, t.tag = "banned").banned
      BY <1>1 DEF Quote
    <2> QED
      BY <2>2, <2>3
  <1>2. CASE \E r \in DraftedTells(t) : r.banned
    <2>1. PICK r \in DraftedTells(t) : r.banned
      BY <1>2
    <2>2. Quote("tell", {TellRow(r)}, r.banned) \in build_sar(t, contradicted)
      BY DEF build_sar
    <2>3. Quote("tell", {TellRow(r)}, r.banned).banned
      BY <2>1 DEF Quote
    <2> QED
      BY <2>2, <2>3
  <1>3. CASE \E adj \in contradicted : t.rfi[adj.claim].banned
    <2>1. PICK adj \in contradicted : t.rfi[adj.claim].banned
      BY <1>3
    <2>2. contradiction_claim(t, adj) \in build_sar(t, contradicted)
      BY DEF build_sar
    <2>3. contradiction_claim(t, adj).banned
      BY <2>1 DEF contradiction_claim, Quote
    <2> QED
      BY <2>2, <2>3
  <1> QED
    BY <1>1, <1>2, <1>3

\* Gap filling quotes nobody.
LEMMA GapClaimsAreSound ==
    ASSUME NEW t, RfiTables(t), AdvisoryTables(t), DraftTables(t), NEW keys,
           NEW c \in gap_fill_claims(t, keys)
    PROVE  Sound(t, c) /\ ~c.banned
  <1>0. \A element, cites : c \in SomeClaim(element, cites) /\ cites \subseteq Rows(t) => Sound(t, c) /\ ~c.banned
    <2> SUFFICES ASSUME NEW element, NEW cites, c \in SomeClaim(element, cites), cites \subseteq Rows(t)
                 PROVE  Sound(t, c) /\ ~c.banned
      OBVIOUS
    <2>1. cites # {} /\ c = Claim(element, cites)
      BY DEF SomeClaim
    <2>2. c.cites = cites /\ c.banned = FALSE
      BY <2>1 DEF Claim
    <2> QED
      BY <2>1, <2>2 DEF Sound
  <1>1. AccountRow(t.subject) \in Rows(t) /\ Cites("ip_logs", DOMAIN t.logins) \subseteq Rows(t)
    BY RowsAre DEF RfiTables
  <1>2. CASE c \in when_claim(t)
    <2>1. Cites("transactions", TxsOf(t)) \subseteq Rows(t)
      BY RowsAre DEF TxsOf
    <2>2. Events(t) \subseteq Rows(t)
      BY <1>1, <2>1 DEF Events
    <2>3. {t.span[1], t.span[2]} \subseteq Events(t)
      BY DEF DraftTables
    <2> QED
      BY <1>0, <1>2, <2>2, <2>3 DEF when_claim
  <1>3. CASE c \in where_claim(t)
    <2>1. {AccountRow(t.subject)} \cup Cites("ip_logs", DOMAIN t.logins) \subseteq Rows(t)
      BY <1>1
    <2> QED
      BY <1>0, <1>3, <2>1 DEF where_claim
  <1>4. CASE c \in predicate_claim(t)
    <2>1. Cites("addresses", SanctionedReached(t)) \subseteq Rows(t)
      BY GraphShape, RowsAre
    <2>2. Cites("addresses", SanctionedReached(t)) \cup Advisory(t) \subseteq Rows(t)
      BY <2>1, AdvisoryShape
    <2> QED
      BY <1>0, <1>4, <2>2 DEF predicate_claim
  <1>5. CASE c \in how_claim(t)
    <2> DEFINE moved == {k \in Txs(t) : t.txs[k].structured /\ Touches(t, k, {t.subject})}
               shared == IF OnKyc(t, t.subject) \ {t.subject} = {} THEN {}
                         ELSE Cites("accounts", OnKyc(t, t.subject))
    <2>1. Cites("transactions", moved) \subseteq Rows(t)
      BY RowsAre
    <2>2. Cites("gas_funding", GasLinks(t)) \subseteq Rows(t)
      BY GraphShape, RowsAre
    <2>3. shared \subseteq Rows(t)
      BY RowsAre DEF OnKyc
    <2>4. how_claim(t) = SomeClaim("how",
             Cites("transactions", moved) \cup Cites("gas_funding", GasLinks(t)) \cup shared)
      BY DEF how_claim
    <2> HIDE DEF moved, shared
    <2>5. Cites("transactions", moved) \cup Cites("gas_funding", GasLinks(t)) \cup shared \subseteq Rows(t)
      BY <2>1, <2>2, <2>3
    <2> QED
      BY <1>0, <1>5, <2>4, <2>5
  <1> QED
    BY <1>2, <1>3, <1>4, <1>5 DEF gap_fill_claims

\* What QuotesOverclaim speaks of is what the first draft quotes.
LEMMA QuotesAreDrafted ==
    ASSUME DraftInv
    PROVE  QuotesOverclaim <=>
             \/ w.tag = "banned"
             \/ \E r \in DraftedTells(w) : r.banned
             \/ \E adj \in ToSet(Contradictions) : w.rfi[adj.claim].banned
  <1>1. RfiTables(w) /\ DraftTables(w) /\ TableInv
    BY DraftingAssumption DEF DraftInv
  <1>2. DraftedTells(w) = {w.tells[p] : p \in {p \in Quotable : Place(Quotable, p) <= MaxTells}}
    BY <1>1, DraftedTellsAre, QuotableIsNear
  <1>3. \A p : Place(Quotable, p) = Cardinality({m \in Quotable : m <= p})
    BY DEF Place
  <1>4. (\E r \in DraftedTells(w) : r.banned) <=>
          \E n \in Quotable : /\ w.tells[n].banned
                              /\ Cardinality({m \in Quotable : m <= n}) <= MaxTells
    BY <1>2, <1>3
  <1>5. ToSet(Contradictions) = {table[n] : n \in {n \in DOMAIN table : table[n].verdict = "contradicted"}}
    BY <1>1, ContradictionsShape
  <1>6. \A n \in DOMAIN table : table[n].claim = n
    BY <1>1 DEF TableInv, Adjudication
  <1>7. (\E adj \in ToSet(Contradictions) : w.rfi[adj.claim].banned) <=>
          \E n \in DOMAIN table : table[n].verdict = "contradicted" /\ w.rfi[n].banned
    BY <1>5, <1>6
  <1> QED
    BY <1>4, <1>7 DEF QuotesOverclaim

\* A case is refused for words it quotes, and for no other reason: whatever it
\* claims of itself is grounded, resolves and is calibrated.
THEOREM OnlyQuotesAreRefused ==
    DraftSpec => []RefusedForQuotedWords
  <1>1. DraftInv => RefusedForQuotedWords
    <2> SUFFICES ASSUME DraftInv PROVE RefusedForQuotedWords
      OBVIOUS
    <2> DEFINE contradicted == ToSet(Contradictions)
               first == First(w, contradicted)
               filled == Filled(w, contradicted)
    <2>1. RfiTables(w) /\ AdvisoryTables(w) /\ DraftTables(w) /\ TableInv /\ SarInv
      BY DraftingAssumption DEF DraftInv
    <2>2. contradicted \in SUBSET Adjudications(w)
      <3>1. Contradictions \in Seq(Adjudications(w))
        BY <2>1, ContradictionsShape
      <3>2. \A S, s : s \in Seq(S) => ToSet(s) \subseteq S
        BY DEF ToSet
      <3> QED
        BY <3>1, <3>2
    <2>3. filled = first \cup gap_fill_claims(w, gap_keys(first)) /\ first = build_sar(w, contradicted)
      BY DEF Filled, First
    <2>4. \A c \in first : Sound(w, c) /\ (c.banned => QuotesOverclaim)
      <3>1. \A c \in build_sar(w, contradicted) :
               /\ Sound(w, c)
               /\ c.banned => \/ w.tag = "banned"
                              \/ \E r \in DraftedTells(w) : r.banned
                              \/ \E adj \in contradicted : w.rfi[adj.claim].banned
        BY <2>1, <2>2, FirstIsSound
      <3> QED
        BY <2>3, <3>1, QuotesAreDrafted
    <2>5. \A c \in gap_fill_claims(w, gap_keys(first)) : Sound(w, c) /\ ~c.banned
      BY <2>1, GapClaimsAreSound
    <2>6. QuotesOverclaim => \E c \in first : c.banned
      BY <2>3, FirstOverclaims, QuotesAreDrafted
    <2> HIDE DEF first, filled
    <2>7. ASSUME stage = "refused" PROVE QuotesOverclaim
      <3>1. ~Valid(w, draft) /\ (draft = first \/ draft = filled)
        BY <2>1, <2>7 DEF SarInv, first, filled
      <3>2. \A c \in draft : Sound(w, c) /\ (c.banned => QuotesOverclaim)
        BY <2>3, <2>4, <2>5, <3>1
      <3>3. assert_grounded(draft) /\ assert_resolvable(w, draft)
        BY <3>2 DEF Sound, assert_grounded, is_grounded, assert_resolvable
      <3>4. \E c \in draft : c.banned
        BY <3>1, <3>3 DEF Valid, assert_calibrated
      <3> QED
        BY <3>2, <3>4
    <2>8. ASSUME stage = "done" PROVE ~QuotesOverclaim
      <3>1. Valid(w, draft) /\ (draft = first \/ draft = filled)
        BY <2>1, <2>8 DEF SarInv, Graded, first, filled
      <3>2. first \subseteq draft
        BY <2>3, <3>1
      <3>3. \A c \in draft : ~c.banned
        BY <3>1 DEF Valid, assert_calibrated
      <3> QED
        BY <2>6, <3>2, <3>3
    <2> QED
      BY <2>7, <2>8 DEF RefusedForQuotedWords
  <1> QED
    BY <1>1, DraftInvHolds, PTL

-----------------------------------------------------------------------------
(* What is left for a human                                                *)

\* The gaps of the first draft, in terms of what the tables support.
LEMMA FirstGaps ==
    ASSUME NEW t, DraftTables(t), NEW contradicted
    PROVE  gap_keys(build_sar(t, contradicted)) =
             {"when", "where", "how"}
               \cup (IF detect_all(t) = {} THEN {"what"} ELSE {})
               \cup (IF SanctionedReached(t) = {} THEN {"on_chain_evidence"} ELSE {})
               \cup (IF Advisory(t) = {} THEN {"why"} ELSE {})
               \cup (IF SanctionedReached(t) = {} /\ TellsInClosure(t) = {}
                     THEN {"subject_and_network"} ELSE {})
  <1> DEFINE gaps == gap_keys(build_sar(t, contradicted))
             elements == Elements(build_sar(t, contradicted))
  <1>1. /\ "who" \in elements
        /\ "what" \in elements <=> detect_all(t) # {}
        /\ "network" \in elements <=> SanctionedReached(t) # {}
        /\ "tell" \in elements <=> DraftedTells(t) # {}
        /\ "advisory" \in elements <=> Advisory(t) # {}
        /\ elements \cap {"when", "where", "how", "predicate", "onchain"} = {}
    BY FirstElements
  <1>2. DraftedTells(t) = {} <=> TellsInClosure(t) = {}
    BY DraftedTellsAre
  <1>3. /\ gaps \subseteq {"who", "what", "when", "where", "why", "how",
                           "subject_and_network", "on_chain_evidence"}
        /\ "who" \in gaps <=> "who" \notin elements
        /\ "what" \in gaps <=> "what" \notin elements
        /\ "when" \in gaps <=> "when" \notin elements
        /\ "where" \in gaps <=> "where" \notin elements
        /\ "how" \in gaps <=> "how" \notin elements
        /\ "why" \in gaps <=> "predicate" \notin elements /\ "advisory" \notin elements
        /\ "subject_and_network" \in gaps <=> "network" \notin elements /\ "tell" \notin elements
        /\ "on_chain_evidence" \in gaps <=> "network" \notin elements /\ "onchain" \notin elements
    BY GapsByElement
  <1> HIDE DEF gaps, elements
  <1>4. /\ "who" \notin gaps /\ "when" \in gaps /\ "where" \in gaps /\ "how" \in gaps
        /\ "what" \in gaps <=> detect_all(t) = {}
        /\ "on_chain_evidence" \in gaps <=> SanctionedReached(t) = {}
        /\ "why" \in gaps <=> Advisory(t) = {}
        /\ "subject_and_network" \in gaps <=> SanctionedReached(t) = {} /\ TellsInClosure(t) = {}
    BY <1>1, <1>2, <1>3
  <1>5. gaps = {"when", "where", "how"}
               \cup (IF detect_all(t) = {} THEN {"what"} ELSE {})
               \cup (IF SanctionedReached(t) = {} THEN {"on_chain_evidence"} ELSE {})
               \cup (IF Advisory(t) = {} THEN {"why"} ELSE {})
               \cup (IF SanctionedReached(t) = {} /\ TellsInClosure(t) = {}
                     THEN {"subject_and_network"} ELSE {})
    BY <1>3, <1>4
  <1> QED
    BY <1>5 DEF gaps

\* ... and those one pass leaves.
LEMMA FilledGaps ==
    ASSUME NEW t, DraftTables(t), NEW contradicted
    PROVE  gap_keys(Filled(t, contradicted)) =
             (IF detect_all(t) = {} THEN {"what"} ELSE {})
               \cup (IF SanctionedReached(t) = {} THEN {"on_chain_evidence"} ELSE {})
               \cup (IF SanctionedReached(t) = {} /\ Advisory(t) = {} THEN {"why"} ELSE {})
               \cup (IF SanctionedReached(t) = {} /\ TellsInClosure(t) = {}
                     THEN {"subject_and_network"} ELSE {})
               \cup (IF how_claim(t) = {} THEN {"how"} ELSE {})
  <1> DEFINE first == build_sar(t, contradicted)
             keys == gap_keys(first)
             more == Elements(gap_fill_claims(t, keys))
             gaps == gap_keys(Filled(t, contradicted))
             before == Elements(first)
             elements == Elements(Filled(t, contradicted))
  <1>1. elements = before \cup more
    BY DEF Filled, First, Elements
  <1>2. /\ "who" \in before
        /\ "what" \in before <=> detect_all(t) # {}
        /\ "network" \in before <=> SanctionedReached(t) # {}
        /\ "tell" \in before <=> DraftedTells(t) # {}
        /\ "advisory" \in before <=> Advisory(t) # {}
        /\ before \cap {"when", "where", "how", "predicate", "onchain"} = {}
    BY FirstElements
  <1>3. DraftedTells(t) = {} <=> TellsInClosure(t) = {}
    BY DraftedTellsAre
  <1>4. /\ gaps \subseteq {"who", "what", "when", "where", "why", "how",
                           "subject_and_network", "on_chain_evidence"}
        /\ "who" \in gaps <=> "who" \notin elements
        /\ "what" \in gaps <=> "what" \notin elements
        /\ "when" \in gaps <=> "when" \notin elements
        /\ "where" \in gaps <=> "where" \notin elements
        /\ "how" \in gaps <=> "how" \notin elements
        /\ "why" \in gaps <=> "predicate" \notin elements /\ "advisory" \notin elements
        /\ "subject_and_network" \in gaps <=> "network" \notin elements /\ "tell" \notin elements
        /\ "on_chain_evidence" \in gaps <=> "network" \notin elements /\ "onchain" \notin elements
    BY GapsByElement
  <1>5. "when" \in keys /\ "where" \in keys /\ "how" \in keys /\ ("why" \in keys <=> Advisory(t) = {})
    BY FirstGaps
  <1>6. when_claim(t) # {} /\ where_claim(t) # {}
    BY DEF when_claim, where_claim, SomeClaim, Events
  <1>7. predicate_claim(t) # {} <=> SanctionedReached(t) # {} \/ Advisory(t) # {}
    <2>1. predicate_claim(t) # {} <=> Cites("addresses", SanctionedReached(t)) \cup Advisory(t) # {}
      BY DEF predicate_claim, SomeClaim
    <2> QED
      BY <2>1, CitesShape
  <1>8. /\ "when" \in more <=> "when" \in keys /\ when_claim(t) # {}
        /\ "where" \in more <=> "where" \in keys /\ where_claim(t) # {}
        /\ "predicate" \in more <=> "why" \in keys /\ predicate_claim(t) # {}
        /\ "how" \in more <=> "how" \in keys /\ how_claim(t) # {}
        /\ more \subseteq {"when", "where", "predicate", "how"}
    BY FilledElements
  <1> HIDE DEF keys, more, gaps, before, elements
  <1>9. /\ "when" \in more /\ "where" \in more /\ ("how" \in more <=> how_claim(t) # {})
        /\ "predicate" \in more <=> Advisory(t) = {} /\ SanctionedReached(t) # {}
        /\ {"who", "what", "network", "tell", "advisory", "onchain"} \cap more = {}
    BY <1>5, <1>6, <1>7, <1>8
  <1>10. /\ "who" \notin gaps /\ "when" \notin gaps /\ "where" \notin gaps
         /\ "what" \in gaps <=> detect_all(t) = {}
         /\ "how" \in gaps <=> how_claim(t) = {}
         /\ "on_chain_evidence" \in gaps <=> SanctionedReached(t) = {}
         /\ "why" \in gaps <=> SanctionedReached(t) = {} /\ Advisory(t) = {}
         /\ "subject_and_network" \in gaps <=> SanctionedReached(t) = {} /\ TellsInClosure(t) = {}
    BY <1>1, <1>2, <1>3, <1>4, <1>9
  <1>11. gaps = (IF detect_all(t) = {} THEN {"what"} ELSE {})
               \cup (IF SanctionedReached(t) = {} THEN {"on_chain_evidence"} ELSE {})
               \cup (IF SanctionedReached(t) = {} /\ Advisory(t) = {} THEN {"why"} ELSE {})
               \cup (IF SanctionedReached(t) = {} /\ TellsInClosure(t) = {}
                     THEN {"subject_and_network"} ELSE {})
               \cup (IF how_claim(t) = {} THEN {"how"} ELSE {})
    BY <1>4, <1>10
  <1> QED
    BY <1>11 DEF gaps

\* How the money moved is described by structuring, gas or a shared document.
LEMMA HowIsSupported ==
    ASSUME NEW t
    PROVE  how_claim(t) # {} <=>
             \/ OnKyc(t, t.subject) \ {t.subject} # {} \/ GasLinks(t) # {}
             \/ \E i \in Txs(t) : t.txs[i].structured /\ t.subject \in {t.txs[i].from, t.txs[i].to}
  <1> DEFINE moved == {i \in Txs(t) : t.txs[i].structured /\ Touches(t, i, {t.subject})}
             shared == IF OnKyc(t, t.subject) \ {t.subject} = {} THEN {}
                       ELSE Cites("accounts", OnKyc(t, t.subject))
             cites == Cites("transactions", moved) \cup Cites("gas_funding", GasLinks(t)) \cup shared
  <1>1. how_claim(t) # {} <=> cites # {}
    BY DEF how_claim, SomeClaim
  <1>2. shared # {} <=> OnKyc(t, t.subject) \ {t.subject} # {}
    <2>1. OnKyc(t, t.subject) \ {t.subject} # {} => OnKyc(t, t.subject) # {}
      OBVIOUS
    <2> QED
      BY <2>1, CitesShape
  <1>3. moved # {} <=>
          \E i \in Txs(t) : t.txs[i].structured /\ t.subject \in {t.txs[i].from, t.txs[i].to}
    BY DEF Touches
  <1> HIDE DEF moved, shared
  <1>4. cites # {} <=> moved # {} \/ GasLinks(t) # {} \/ shared # {}
    BY CitesShape
  <1> QED
    BY <1>1, <1>2, <1>3, <1>4

LEMMA MechanismIsShown ==
    ASSUME RfiTables(w), DraftTables(w)
    PROVE  Mechanism <=> how_claim(w) # {}
  <1>1. GasLinks(w) # {} <=> \E g \in Gas : Holder(g[1]) \in Accounts
    BY EvidenceIsDrawn
  <1>2. OnKyc(w, w.subject) \ {w.subject} # {} <=> \E u \in Accounts \ {w.subject} : SameDoc(w.subject, u)
    BY DEF OnKyc, SameDoc
  <1> QED
    BY <1>1, <1>2, HowIsSupported DEF Mechanism

\* What a human is asked to look at is what nothing supports.
THEOREM OnlyTheUnsupportedIsFlagged ==
    DraftSpec => []FlaggedIsUnsupported
  <1>1. DraftInv => FlaggedIsUnsupported
    <2> SUFFICES ASSUME DraftInv, stage = "done"
                 PROVE  IF cap = 0
                        THEN /\ revisions = << >>
                             /\ flagged = Unsupported \cup {"when", "where", "how"}
                                            \cup (IF AdvisoryHolds THEN {} ELSE {"why"})
                        ELSE Len(revisions) = 1 /\ flagged = Unsupported
      BY DEF FlaggedIsUnsupported
    <2> DEFINE contradicted == ToSet(Contradictions)
               first == First(w, contradicted)
               filled == Filled(w, contradicted)
               what == IF detect_all(w) = {} THEN {"what"} ELSE {}
               chain == IF SanctionedReached(w) = {} THEN {"on_chain_evidence"} ELSE {}
               network == IF SanctionedReached(w) = {} /\ TellsInClosure(w) = {}
                          THEN {"subject_and_network"} ELSE {}
               advice == IF Advisory(w) = {} THEN {"why"} ELSE {}
               why == IF SanctionedReached(w) = {} /\ Advisory(w) = {} THEN {"why"} ELSE {}
               how == IF how_claim(w) = {} THEN {"how"} ELSE {}
    <2>1. RfiTables(w) /\ AdvisoryTables(w) /\ DraftTables(w) /\ SarInv
      BY DraftingAssumption DEF DraftInv
    <2>2. Graded(first, filled) /\ flagged = critiques[Len(critiques)]
      BY <2>1 DEF SarInv, Gaps
    <2>3. gap_keys(first) = {"when", "where", "how"} \cup what \cup chain \cup advice \cup network
      BY <2>1, FirstGaps DEF First
    <2>4. gap_keys(filled) = what \cup chain \cup why \cup network \cup how
      BY <2>1, FilledGaps
    <2>5. AdvisoryHolds <=> Advisory(w) # {}
      <3>1. Money = MoneyEdges(w) /\ w.sanctioned \cap Evidence = SanctionedReached(w)
        BY <2>1, EvidenceIsDrawn DEF SanctionedReached
      <3> QED
        BY <2>1, <3>1, AdvisoryShape DEF AdvisoryHolds, MoneyReached
    <2>6. TellsInClosure(w) # {} <=> Quotable # {}
      BY <2>1, QuotableIsNear
    <2>7. Unsupported = what \cup chain \cup why \cup network \cup how
      <3> DEFINE tainted == w.sanctioned \cap Evidence # {}
      <3>0. tainted <=> SanctionedReached(w) # {}
        BY <2>1, EvidenceIsDrawn DEF SanctionedReached
      <3>1. what = IF Anomalous THEN {} ELSE {"what"}
        BY <2>1, AnomaliesAreFound
      <3>2. chain = IF tainted THEN {} ELSE {"on_chain_evidence"}
        BY <3>0
      <3>3. why = IF tainted \/ AdvisoryHolds THEN {} ELSE {"why"}
        BY <2>5, <3>0
      <3>4. network = IF tainted \/ Quotable # {} THEN {} ELSE {"subject_and_network"}
        BY <2>6, <3>0
      <3>5. how = IF Mechanism THEN {} ELSE {"how"}
        BY <2>1, MechanismIsShown
      <3>6. Unsupported = (IF Anomalous THEN {} ELSE {"what"})
              \cup (IF tainted THEN {} ELSE {"on_chain_evidence"})
              \cup (IF tainted \/ AdvisoryHolds THEN {} ELSE {"why"})
              \cup (IF tainted \/ Quotable # {} THEN {} ELSE {"subject_and_network"})
              \cup (IF Mechanism THEN {} ELSE {"how"})
        BY DEF Unsupported
      <3> HIDE DEF what, chain, why, network, how, tainted
      <3> QED
        BY <3>1, <3>2, <3>3, <3>4, <3>5, <3>6
    <2>8. CASE cap = 0
      <3>1. draft = first /\ revisions = << >> /\ critiques = <<gap_keys(first)>>
        BY <2>2, <2>8 DEF Graded
      <3>2. flagged = gap_keys(first)
        BY <2>2, <3>1
      <3>3. advice = IF AdvisoryHolds THEN {} ELSE {"why"}
        BY <2>5
      <3> DEFINE always == {"when", "where", "how"}
      <3>4. why \subseteq advice /\ how \subseteq always
        OBVIOUS
      <3>6. flagged = always \cup what \cup chain \cup advice \cup network
        BY <2>3, <3>2
      <3> HIDE DEF what, chain, why, network, how, advice, first, always
      <3>7. flagged = Unsupported \cup always \cup advice
        BY <2>7, <3>4, <3>6
      <3>5. flagged = Unsupported \cup {"when", "where", "how"} \cup advice
        BY <3>7 DEF always
      <3> QED
        BY <2>8, <3>1, <3>3, <3>5
    <2>9. CASE cap # 0
      <3>1. Len(revisions) = 1 /\ critiques = Append(<<gap_keys(first)>>, gap_keys(filled))
        BY <2>2, <2>9 DEF Graded
      <3> DEFINE S == {gap_keys(first), gap_keys(filled)}
      <3>2. <<gap_keys(first)>> \in Seq(S) /\ gap_keys(filled) \in S
        OBVIOUS
      <3>3. flagged = gap_keys(filled)
        BY <2>2, <3>1, <3>2, LastAppended
      <3> HIDE DEF what, chain, why, network, how, filled
      <3> QED
        BY <2>4, <2>7, <2>9, <3>1, <3>3
    <2> QED
      BY <2>8, <2>9
  <1> QED
    BY <1>1, DraftInvHolds, PTL
=============================================================================
