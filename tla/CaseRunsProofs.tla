--------------------------- MODULE CaseRunsProofs ---------------------------
(***************************************************************************)
(* TypeOK, IntactIsSerial, StampCoversPrefix and LoneRunAgrees hold of any *)
(* number of sessions running a case of any length any number of times,    *)
(* however their steps interleave and wherever they stop.                  *)
(***************************************************************************)
EXTENDS CaseRuns, ProofLemmas

-----------------------------------------------------------------------------
(* A log that still verifies after an append was at the appender's tail. *)
LEMMA IntactAppend ==
    ASSUME NEW s, IsChain(s),
           NEW tl, tl = [seq |-> tl.seq, hash |-> tl.hash], tl.seq \in Nat,
           NEW body, Intact(Append(s, NextRecord(tl, body)))
    PROVE  Intact(s) /\ tl = TailOf(s)
  <1> DEFINE r == NextRecord(tl, body)
             t == Append(s, r)
  <1>1. r = [seq |-> tl.seq + 1, body |-> body, prev_hash |-> tl.hash,
             hash |-> Digest(tl.seq + 1, body, tl.hash)]
    BY DEF NextRecord, Sealed
  <1>2. IsRecord(r)
    BY <1>1 DEF IsRecord
  <1>3. Intact(t)
    OBVIOUS
  <1> HIDE DEF r
  <1>4. /\ IsChain(t)
        /\ Len(t) = Len(s) + 1
        /\ \A i \in 1..Len(s) : t[i] = s[i]
        /\ t[Len(s) + 1] = r
    BY <1>2, AppendChain
  <1> HIDE DEF t
  <1>5. Len(s) \in Nat
    BY ChainShape
  <1>6. ASSUME NEW i \in 1..Len(s) PROVE LinkOK(s, i)
    <2>1. i \in 1..Len(t)
      BY <1>4, <1>5
    <2>2. LinkOK(t, i)
      BY <1>3, <2>1 DEF Intact
    <2>3. i # 1 => i - 1 \in 1..Len(s)
      BY <1>5
    <2> QED
      BY <2>2, <2>3, <1>4 DEF LinkOK, SeqOK, PrevOK, HashOK
  <1>7. Intact(s)
    BY <1>6 DEF Intact
  <1>8. LinkOK(t, Len(s) + 1)
    BY <1>3, <1>4, <1>5 DEF Intact
  <1>9. tl.seq + 1 = Len(s) + 1
    BY <1>1, <1>4, <1>8 DEF LinkOK, SeqOK
  <1>10. tl.hash = IF Len(s) = 0 THEN GENESIS_HASH ELSE s[Len(s)].hash
    <2>1. CASE Len(s) = 0
      BY <2>1, <1>1, <1>4, <1>8 DEF LinkOK, PrevOK
    <2>2. CASE Len(s) # 0
      <3>1. Len(s) \in 1..Len(s) /\ Len(s) + 1 - 1 = Len(s) /\ Len(s) + 1 # 1
        BY <2>2, <1>5
      <3> QED
        BY <2>2, <3>1, <1>1, <1>4, <1>8 DEF LinkOK, PrevOK
    <2> QED
      BY <2>1, <2>2
  <1>11. tl = TailOf(s)
    <2>1. CASE s = << >>
      <3>1. tl.seq = 0 /\ tl.hash = GENESIS_HASH
        BY <2>1, <1>9, <1>10
      <3> QED
        BY <2>1, <3>1 DEF TailOf, FreshTail
    <2>2. CASE s # << >>
      <3>1. Len(s) \in 1..Len(s)
        BY <2>2, <1>5 DEF IsChain
      <3>2. s[Len(s)].seq = Len(s)
        BY <3>1, <1>6 DEF LinkOK, SeqOK
      <3>3. TailOf(s) = [seq |-> tl.seq, hash |-> tl.hash]
        BY <2>2, <3>1, <3>2, <1>5, <1>9, <1>10 DEF TailOf
      <3> QED
        BY <3>3
    <2> QED
      BY <2>1, <2>2
  <1> QED
    BY <1>7, <1>11

LEMMA EmptyChain == IsChain(<< >>)
  BY DEF IsChain

\* The tail an AuditLog reads from a chain is a pair of a number and a hash.
LEMMA TailShape ==
    ASSUME NEW s, IsChain(s)
    PROVE  /\ TailOf(s) = [seq |-> TailOf(s).seq, hash |-> TailOf(s).hash]
           /\ TailOf(s).seq \in Nat
  <1>1. CASE s = << >>
    BY <1>1 DEF TailOf, FreshTail
  <1>2. CASE s # << >>
    <2>1. Len(s) \in 1..Len(s)
      BY <1>2, ChainShape DEF IsChain
    <2>2. s[Len(s)].seq \in Nat
      BY <2>1, ChainShape DEF IsRecord
    <2> QED
      BY <1>2, <2>2 DEF TailOf
  <1> QED
    BY <1>1, <1>2
-----------------------------------------------------------------------------
LEMMA RunInit == Init => RunInv
  <1> SUFFICES ASSUME Init PROVE RunInv
    OBVIOUS
  <1>1. TypeOK
    BY EmptyChain DEF Init, TypeOK, FreshTail, Points
  <1>2. \A s \in Sessions : SessionInv(s)
    BY DEF Init, SessionInv, PastStages
  <1>3. RunsDistinct /\ StampCoversPrefix
    BY DEF Init, RunsDistinct, StampCoversPrefix
  <1> QED
    BY <1>1, <1>2, <1>3 DEF RunInv, Init

\* An append by session s of a record that stamps nothing, or of the packaged
\* stamp: what it does to the file and to the part of the invariant about it.
LEMMA AppendFile ==
    ASSUME RunInv, NEW s \in Sessions, NEW sha, AppendRecord(s, sha),
           sha # NoPackage => at[s] = "stamp" /\ sha = pkg[s]
    PROVE  /\ IsChain(disk')
           /\ \A i \in DOMAIN disk' :
                disk'[i].body = Body(disk'[i].body.run, disk'[i].body.n, disk'[i].body.sha)
           /\ \A i \in 1..Len(disk') : RecordInv(disk'[i])
           /\ StampCoversPrefix'
           /\ tail'[s] = TailOf(disk') /\ tail'[s].seq > 0
           /\ tail'[s] = [seq |-> tail'[s].seq, hash |-> tail'[s].hash]
           /\ tail'[s].seq \in Nat
           /\ tail'[s].hash[2].run = run[s]
           /\ tail'[s].hash[2].n = count[s] + 1
  <1> DEFINE b == Body(run[s], count[s] + 1, sha)
             r == NextRecord(tail[s], b)
  <1>0. /\ IsChain(disk) /\ Len(disk) \in Nat /\ DOMAIN disk = 1..Len(disk)
        /\ tail[s] = [seq |-> tail[s].seq, hash |-> tail[s].hash]
        /\ tail[s].seq \in Nat /\ count[s] \in Nat
        /\ DOMAIN tail = Sessions
        /\ SessionInv(s)
    BY ChainShape DEF RunInv, TypeOK
  <1>1. /\ disk' = Append(disk, r)
        /\ tail'[s] = TailAfter(r)
    BY <1>0 DEF AppendRecord
  <1>2. b = [run |-> run[s], n |-> count[s] + 1, sha |-> sha]
    BY DEF Body
  <1> HIDE DEF b
  <1>3. r = [seq |-> tail[s].seq + 1, body |-> b, prev_hash |-> tail[s].hash,
             hash |-> <<tail[s].seq + 1, b, tail[s].hash>>]
    BY DEF NextRecord, Sealed, Digest
  <1>4. IsRecord(r) /\ HashOK(r)
    BY <1>0, <1>3 DEF IsRecord, HashOK, Digest
  <1>5. RecordInv(r)
    BY <1>0, <1>2, <1>3, <1>4 DEF RecordInv, SessionInv
  <1>6. /\ IsChain(disk')
        /\ Len(disk') = Len(disk) + 1
        /\ \A i \in 1..Len(disk) : disk'[i] = disk[i]
        /\ disk'[Len(disk) + 1] = r
    BY <1>0, <1>1, <1>4, AppendChain
  <1>7. DOMAIN disk' = 1..Len(disk')
    BY <1>6, ChainShape
  <1>8. /\ \A i \in DOMAIN disk' :
             disk'[i].body = Body(disk'[i].body.run, disk'[i].body.n, disk'[i].body.sha)
        /\ \A i \in 1..Len(disk') : RecordInv(disk'[i])
    <2> SUFFICES ASSUME NEW i \in 1..Len(disk')
                 PROVE  /\ disk'[i].body = Body(disk'[i].body.run, disk'[i].body.n, disk'[i].body.sha)
                        /\ RecordInv(disk'[i])
      BY <1>7
    <2>1. CASE i \in 1..Len(disk)
      BY <2>1, <1>0, <1>6 DEF RunInv, TypeOK
    <2>2. CASE i = Len(disk) + 1
      BY <2>2, <1>2, <1>3, <1>5, <1>6 DEF Body
    <2> QED
      BY <2>1, <2>2, <1>0, <1>6
  <1>9. StampCoversPrefix'
    <2> SUFFICES ASSUME Intact(disk'), NEW i \in 1..Len(disk'),
                        disk'[i].body.sha # NoPackage
                 PROVE  /\ disk'[i].body.sha.refs = [j \in 1..(i - 1) |-> disk'[j].hash]
                        /\ disk'[i].body.sha.by = disk'[i].body.run
                        /\ disk'[i].body.sha.verified
      BY DEF StampCoversPrefix
    <2>1. Intact(disk) /\ tail[s] = TailOf(disk)
      BY <1>0, <1>1, IntactAppend
    <2>2. CASE i \in 1..Len(disk)
      <3>1. [j \in 1..(i - 1) |-> disk'[j].hash] = [j \in 1..(i - 1) |-> disk[j].hash]
        BY <2>2, <1>0, <1>6
      <3> QED
        BY <2>1, <2>2, <3>1, <1>6 DEF RunInv, StampCoversPrefix
    <2>3. CASE i = Len(disk) + 1
      <3>1. disk'[i].body = b /\ disk'[i].body.sha = sha
        BY <2>3, <1>2, <1>3, <1>6
      <3>2. sha = Package(run[s], disk, Intact(disk))
        BY <2>1, <3>1, <1>0 DEF SessionInv
      <3>3. [j \in 1..(i - 1) |-> disk'[j].hash] = Hashes(disk)
        BY <2>3, <1>0, <1>6 DEF Hashes
      <3> QED
        BY <2>1, <3>1, <3>2, <3>3, <1>2 DEF Package
    <2> QED
      BY <2>2, <2>3, <1>0, <1>6
  <1>10. TailOf(disk') = TailAfter(r)
    <2>1. disk' # << >>
      BY <1>0, <1>6
    <2> QED
      BY <2>1, <1>6 DEF TailOf, TailAfter
  <1> QED
    BY <1>0, <1>1, <1>2, <1>3, <1>6, <1>8, <1>9, <1>10 DEF TailAfter
-----------------------------------------------------------------------------
(* Steps that append *)

\* What the invariant needs to know of a step of session s that appends.
AppendStepOf(s, sha, to) ==
    /\ at[s] # "idle" /\ to \in {"work", "read", "tip", "readback"}
    /\ at' = [at EXCEPT ![s] = to]
    /\ AppendRecord(s, sha)
    /\ sha # NoPackage => at[s] = "stamp" /\ sha = pkg[s]
    /\ UNCHANGED <<runs, mixed, run, snap, pkg, shown>>

LEMMA AppendStepInv ==
    ASSUME RunInv, NEW s \in Sessions, NEW sha, NEW to, AppendStepOf(s, sha, to)
    PROVE  RunInv'
  <1>1. /\ IsChain(disk')
        /\ \A i \in DOMAIN disk' :
             disk'[i].body = Body(disk'[i].body.run, disk'[i].body.n, disk'[i].body.sha)
        /\ \A i \in 1..Len(disk') : RecordInv(disk'[i])
        /\ StampCoversPrefix'
        /\ tail'[s] = TailOf(disk') /\ tail'[s].seq > 0
        /\ tail'[s] = [seq |-> tail'[s].seq, hash |-> tail'[s].hash]
        /\ tail'[s].seq \in Nat
        /\ tail'[s].hash[2].run = run[s]
        /\ tail'[s].hash[2].n = count[s] + 1
    BY AppendFile DEF AppendStepOf
  <1>2. /\ count' = [count EXCEPT ![s] = count[s] + 1]
        /\ DOMAIN tail' = Sessions
        /\ \A t \in Sessions : t # s => tail'[t] = tail[t]
        /\ at' = [at EXCEPT ![s] = to]
        /\ at[s] # "idle" /\ to \in Points
        /\ UNCHANGED <<runs, mixed, run, snap, pkg, shown>>
    BY DEF AppendStepOf, AppendRecord, RunInv, TypeOK, Points
  <1>3. TypeOK'
    <2>1. count' \in [Sessions -> Nat] /\ at' \in [Sessions -> Points]
      BY <1>2 DEF RunInv, TypeOK
    <2>2. \A t \in Sessions :
             /\ tail'[t] = [seq |-> tail'[t].seq, hash |-> tail'[t].hash]
             /\ tail'[t].seq \in Nat
      BY <1>1, <1>2 DEF RunInv, TypeOK
    <2> QED
      BY <1>1, <1>2, <2>1, <2>2 DEF RunInv, TypeOK
  <1>4. ASSUME NEW t \in Sessions PROVE SessionInv(t)'
    <2>0. run[s] # 0 /\ SessionInv(t) /\ count[s] \in Nat
      BY <1>2 DEF RunInv, SessionInv, TypeOK
    <2>1. CASE t = s
      <3>1. at'[s] = to /\ count'[s] = count[s] + 1
        BY <1>2 DEF RunInv, TypeOK
      <3>2. to \in {"work", "read", "tip", "readback"}
        BY DEF AppendStepOf
      <3> QED
        BY <2>0, <2>1, <3>1, <3>2, <1>1, <1>2 DEF SessionInv
    <2>2. CASE t # s
      <3>1. /\ at'[t] = at[t] /\ count'[t] = count[t] /\ tail'[t] = tail[t]
            /\ run'[t] = run[t] /\ snap'[t] = snap[t] /\ pkg'[t] = pkg[t]
        BY <2>2, <1>2 DEF RunInv, TypeOK
      <3>2. count[t] > 0 => tail'[t] # TailOf(disk')
        <4>1. run[t] # run[s]
          BY <2>0, <2>2 DEF RunInv, RunsDistinct
        <4>2. TailOf(disk').hash[2].run = run[s]
          BY <1>1
        <4>3. count[t] > 0 => tail'[t].hash[2].run = run[t]
          BY <2>0, <3>1 DEF SessionInv
        <4> QED
          BY <4>1, <4>2, <4>3
      <3>3. at[t] \in {"build", "write", "writing", "stamp"} => count[t] > 0
        BY <2>0 DEF SessionInv, PastStages, Points
      <3> QED
        BY <2>0, <3>1, <3>2, <3>3 DEF SessionInv
    <2> QED
      BY <2>1, <2>2
  <1>5. RunsDistinct'
    BY <1>2 DEF RunInv, RunsDistinct
  <1> QED
    BY <1>1, <1>3, <1>4, <1>5 DEF RunInv

LEMMA StageRecordInv == ASSUME RunInv, NEW s \in Sessions, StageRecord(s) PROVE RunInv'
  <1>1. \E to \in {"read", "work"} : AppendStepOf(s, NoPackage, to)
    BY DEF StageRecord, Goto, AppendStepOf, Points
  <1> QED
    BY <1>1, AppendStepInv

LEMMA StampInv == ASSUME RunInv, NEW s \in Sessions, Stamp(s) PROVE RunInv'
  <1>1. AppendStepOf(s, pkg[s], "tip")
    BY DEF Stamp, Goto, AppendStepOf, Points
  <1> QED
    BY <1>1, AppendStepInv

LEMMA CaseRecordedInv == ASSUME RunInv, NEW s \in Sessions, CaseRecorded(s) PROVE RunInv'
  <1>1. AppendStepOf(s, NoPackage, "readback")
    BY DEF CaseRecorded, Goto, AppendStepOf, Points
  <1> QED
    BY <1>1, AppendStepInv
-----------------------------------------------------------------------------
(* Steps that leave the log alone *)

\* A step of session s that moves it and touches neither the log nor what other
\* sessions hold: only s's own part of the invariant is to be shown again.
LEMMA QuietStepInv ==
    ASSUME RunInv, NEW s \in Sessions, disk' = disk, TypeOK', SessionInv(s)',
           RunsDistinct',
           \A t \in Sessions \ {s} :
               /\ at'[t] = at[t] /\ count'[t] = count[t] /\ tail'[t] = tail[t]
               /\ run'[t] = run[t] /\ snap'[t] = snap[t] /\ pkg'[t] = pkg[t]
    PROVE  RunInv'
  <1>1. ASSUME NEW t \in Sessions \ {s} PROVE SessionInv(t)'
    <2>1. SessionInv(t)
      BY DEF RunInv
    <2> QED
      BY <2>1 DEF SessionInv
  <1>2. StampCoversPrefix'
    BY DEF RunInv, StampCoversPrefix
  <1> QED
    BY <1>1, <1>2 DEF RunInv

LEMMA BeginInv == ASSUME RunInv, NEW s \in Sessions, Begin(s) PROVE RunInv'
  <1> DEFINE to == IF disk = << >> THEN "open" ELSE "unlink"
  <1>1. /\ to \in {"open", "unlink"}
        /\ at' = [at EXCEPT ![s] = to]
        /\ runs' = runs + 1 /\ run' = [run EXCEPT ![s] = runs + 1]
        /\ disk' = disk
        /\ UNCHANGED <<count, tail, snap, pkg, shown>>
    BY DEF Begin, NewRun, Goto, files
  <1> HIDE DEF to
  <1>2. TypeOK'
    <2>1. /\ runs \in Nat /\ runs' \in Nat
          /\ 1..runs \subseteq 1..runs' /\ 0..runs \subseteq 0..runs'
          /\ runs + 1 \in 0..runs'
      BY <1>1 DEF RunInv, TypeOK
    <2>2. mixed' \in SUBSET (1..runs')
      <3>1. \A t \in Active : run[t] \in 1..runs
        BY <2>1 DEF Active, RunInv, TypeOK, SessionInv
      <3>2. mixed \subseteq 1..runs /\ runs + 1 \in 1..runs'
        BY <1>1, <2>1 DEF RunInv, TypeOK
      <3>3. mixed' = mixed \/ mixed' = mixed \cup {runs + 1} \cup {run[t] : t \in Active}
        BY DEF Begin, NewRun
      <3>4. {run[t] : t \in Active} \subseteq 1..runs'
        BY <2>1, <3>1
      <3> QED
        BY <2>1, <3>2, <3>3, <3>4
    <2>3. run' \in [Sessions -> 0..runs']
      BY <1>1, <2>1 DEF RunInv, TypeOK
    <2>4. at' \in [Sessions -> Points]
      BY <1>1 DEF RunInv, TypeOK, Points
    <2> QED
      BY <1>1, <2>1, <2>2, <2>3, <2>4 DEF RunInv, TypeOK
  <1>3. at'[s] \in {"open", "unlink"} /\ run'[s] = runs + 1
    BY <1>1 DEF RunInv, TypeOK
  <1>4. SessionInv(s)'
    <2>1. at[s] = "idle" /\ SessionInv(s)
      BY DEF Begin, Goto, RunInv
    <2>2. count[s] = 0
      BY <2>1 DEF SessionInv
    <2> QED
      BY <1>1, <1>3, <2>2 DEF SessionInv, PastStages, RunInv, TypeOK
  <1>5. RunsDistinct'
    BY <1>1, <1>3 DEF RunInv, TypeOK, RunsDistinct
  <1> QED
    BY <1>1, <1>2, <1>4, <1>5, QuietStepInv DEF RunInv, TypeOK

LEMMA UnlinkInv == ASSUME RunInv, NEW s \in Sessions, Unlink(s) PROVE RunInv'
  <1>1. /\ disk' = << >>
        /\ at[s] = "unlink" /\ at' = [at EXCEPT ![s] = "open"]
        /\ UNCHANGED <<runs, mixed, run, count, tail, snap, pkg, shown>>
    BY DEF Unlink, Goto
  <1>2. TypeOK'
    <2>1. IsChain(disk') /\ DOMAIN disk' = {}
      BY <1>1, EmptyChain
    <2>2. at' \in [Sessions -> Points]
      BY <1>1 DEF RunInv, TypeOK, Points
    <2> QED
      BY <1>1, <2>1, <2>2 DEF RunInv, TypeOK
  <1>3. TailOf(disk').seq = 0
    BY <1>1 DEF TailOf, FreshTail
  <1>4. ASSUME NEW t \in Sessions PROVE SessionInv(t)'
    <2>1. SessionInv(t) /\ at[t] \in Points
      BY DEF RunInv, TypeOK
    <2>2. at'[t] = IF t = s THEN "open" ELSE at[t]
      BY <1>1 DEF RunInv, TypeOK
    <2>3. count[t] > 0 => tail[t] # TailOf(disk')
      BY <2>1, <1>3 DEF SessionInv
    <2> QED
      BY <1>1, <2>1, <2>2, <2>3 DEF SessionInv, PastStages, Points
  <1>5. StampCoversPrefix' /\ \A i \in 1..Len(disk') : RecordInv(disk'[i])
    BY <1>1 DEF StampCoversPrefix
  <1>6. RunsDistinct'
    BY <1>1 DEF RunInv, RunsDistinct
  <1> QED
    BY <1>2, <1>4, <1>5, <1>6 DEF RunInv

LEMMA OpenLogInv == ASSUME RunInv, NEW s \in Sessions, OpenLog(s) PROVE RunInv'
  <1>1. /\ disk' = disk
        /\ at[s] = "open" /\ at' = [at EXCEPT ![s] = "work"]
        /\ tail' = [tail EXCEPT ![s] = TailOf(disk)]
        /\ UNCHANGED <<runs, mixed, run, count, snap, pkg, shown>>
    BY DEF OpenLog, Goto, files
  <1>2. TypeOK'
    <2>1. at' \in [Sessions -> Points]
      BY <1>1 DEF RunInv, TypeOK, Points
    <2>2. \A t \in Sessions :
             /\ tail'[t] = [seq |-> tail'[t].seq, hash |-> tail'[t].hash]
             /\ tail'[t].seq \in Nat
      BY <1>1, TailShape DEF RunInv, TypeOK
    <2> QED
      BY <1>1, <2>1, <2>2 DEF RunInv, TypeOK
  <1>3. SessionInv(s)'
    <2>1. SessionInv(s) /\ at'[s] = "work"
      BY <1>1 DEF RunInv, TypeOK
    <2> QED
      BY <1>1, <2>1 DEF SessionInv, PastStages
  <1>4. RunsDistinct'
    BY <1>1 DEF RunInv, RunsDistinct
  <1> QED
    BY <1>1, <1>2, <1>3, <1>4, QuietStepInv DEF RunInv, TypeOK

\* The steps that only move a session on, with the log as it is.
LEMMA MoveInv ==
    ASSUME RunInv, NEW s \in Sessions, disk' = disk,
           NEW from \in PastStages, NEW to \in PastStages \ {"build"},
           at[s] = from, at' = [at EXCEPT ![s] = to],
           IsChain(snap'[s]), DOMAIN snap' = Sessions,
           \A t \in Sessions \ {s} : snap'[t] = snap[t],
           from \in {"write", "writing"} \/ to \notin {"write", "writing", "stamp"},
           UNCHANGED <<runs, mixed, run, count, tail, pkg, shown>>
    PROVE  RunInv'
  <1>1. at' \in [Sessions -> Points] /\ at'[s] = to
    BY DEF RunInv, TypeOK, PastStages
  <1>2. TypeOK'
    BY <1>1 DEF RunInv, TypeOK
  <1>3. SessionInv(s)'
    <2>1. SessionInv(s)
      BY DEF RunInv
    <2>2. to \notin {"idle", "unlink", "open"} /\ from # "idle"
      BY DEF PastStages
    <2> QED
      BY <1>1, <2>1, <2>2 DEF SessionInv
  <1>4. RunsDistinct'
    BY DEF RunInv, RunsDistinct
  <1> QED
    BY <1>2, <1>3, <1>4, QuietStepInv DEF RunInv, TypeOK

LEMMA PackageReadInv == ASSUME RunInv, NEW s \in Sessions, PackageRead(s) PROVE RunInv'
  <1>1. /\ disk' = disk
        /\ at[s] = "read" /\ at' = [at EXCEPT ![s] = "build"]
        /\ snap' = [snap EXCEPT ![s] = disk]
        /\ UNCHANGED <<runs, mixed, run, count, tail, pkg, shown>>
    BY DEF PackageRead, Goto, files
  <1>2. TypeOK'
    BY <1>1 DEF RunInv, TypeOK, Points
  <1>3. SessionInv(s)'
    <2>1. SessionInv(s) /\ at'[s] = "build" /\ snap'[s] = disk
      BY <1>1 DEF RunInv, TypeOK
    <2> QED
      BY <1>1, <2>1 DEF SessionInv, PastStages, Points
  <1>4. RunsDistinct'
    BY <1>1 DEF RunInv, RunsDistinct
  <1> QED
    BY <1>1, <1>2, <1>3, <1>4, QuietStepInv DEF RunInv, TypeOK

LEMMA PackageBuildInv == ASSUME RunInv, NEW s \in Sessions, PackageBuild(s) PROVE RunInv'
  <1>1. /\ disk' = disk
        /\ at[s] = "build" /\ at' = [at EXCEPT ![s] = "write"]
        /\ pkg' = [pkg EXCEPT ![s] = Package(run[s], snap[s], Intact(disk))]
        /\ UNCHANGED <<runs, mixed, run, count, tail, snap, shown>>
    BY DEF PackageBuild, Goto, files
  <1>2. TypeOK'
    BY <1>1 DEF RunInv, TypeOK, Points
  <1>3. SessionInv(s)'
    <2>1. /\ SessionInv(s) /\ at'[s] = "write"
          /\ pkg'[s] = Package(run[s], snap[s], Intact(disk))
      BY <1>1 DEF RunInv, TypeOK
    <2>2. tail[s] = TailOf(disk) => snap[s] = disk
      BY <1>1, <2>1 DEF SessionInv
    <2> QED
      BY <1>1, <2>1, <2>2 DEF SessionInv, PastStages, Points
  <1>4. RunsDistinct'
    BY <1>1 DEF RunInv, RunsDistinct
  <1> QED
    BY <1>1, <1>2, <1>3, <1>4, QuietStepInv DEF RunInv, TypeOK

LEMMA PackageWriteInv ==
    ASSUME RunInv, NEW s \in Sessions, WriteBegin(s) \/ WriteEnd(s) PROVE RunInv'
  <1>1. snap' = snap /\ IsChain(snap[s]) /\ DOMAIN snap = Sessions
    BY DEF WriteBegin, WriteEnd, RunInv, TypeOK
  <1>2. CASE WriteBegin(s)
    BY <1>1, <1>2, MoveInv DEF WriteBegin, Goto, PastStages, Points
  <1>3. CASE WriteEnd(s)
    BY <1>1, <1>3, MoveInv DEF WriteEnd, Goto, PastStages, Points
  <1> QED
    BY <1>2, <1>3

LEMMA LaterReadInv ==
    ASSUME RunInv, NEW s \in Sessions,
           RecordCaseRead(s) \/ Upsert(s) \/ FinalRead(s)
    PROVE  RunInv'
  <1>1. IsChain(disk) /\ IsChain(snap[s]) /\ DOMAIN snap = Sessions
    BY DEF RunInv, TypeOK
  <1>2. CASE RecordCaseRead(s)
    <2>1. /\ disk' = disk
          /\ at[s] = "tip" /\ at' = [at EXCEPT ![s] = "upsert"]
          /\ snap' = [snap EXCEPT ![s] = disk]
          /\ UNCHANGED <<runs, mixed, run, count, tail, pkg, shown>>
      BY <1>2 DEF RecordCaseRead, Goto, files
    <2>2. "tip" \in PastStages /\ "upsert" \in PastStages \ {"build"}
      BY DEF PastStages, Points
    <2>3. /\ IsChain(snap'[s]) /\ DOMAIN snap' = Sessions
          /\ \A t \in Sessions \ {s} : snap'[t] = snap[t]
      BY <1>1, <2>1
    <2> QED
      BY <2>1, <2>2, <2>3, MoveInv
  <1>3. CASE Upsert(s)
    <2>1. /\ disk' = disk
          /\ at[s] = "upsert" /\ at' = [at EXCEPT ![s] = "recorded"]
          /\ snap' = snap
          /\ UNCHANGED <<runs, mixed, run, count, tail, pkg, shown>>
      BY <1>3 DEF Upsert, Goto, files
    <2>2. "upsert" \in PastStages /\ "recorded" \in PastStages \ {"build"}
      BY DEF PastStages, Points
    <2>3. /\ IsChain(snap'[s]) /\ DOMAIN snap' = Sessions
          /\ \A t \in Sessions \ {s} : snap'[t] = snap[t]
      BY <1>1, <2>1
    <2> QED
      BY <2>1, <2>2, <2>3, MoveInv
  <1>4. CASE FinalRead(s)
    <2>1. /\ disk' = disk
          /\ at[s] = "readback" /\ at' = [at EXCEPT ![s] = "verify"]
          /\ snap' = [snap EXCEPT ![s] = disk]
          /\ UNCHANGED <<runs, mixed, run, count, tail, pkg, shown>>
      BY <1>4 DEF FinalRead, Goto, files
    <2>2. "readback" \in PastStages /\ "verify" \in PastStages \ {"build"}
      BY DEF PastStages, Points
    <2>3. /\ IsChain(snap'[s]) /\ DOMAIN snap' = Sessions
          /\ \A t \in Sessions \ {s} : snap'[t] = snap[t]
      BY <1>1, <2>1
    <2> QED
      BY <2>1, <2>2, <2>3, MoveInv
  <1> QED
    BY <1>2, <1>3, <1>4

\* A run that returns or dies.
LEMMA ReturnInv ==
    ASSUME RunInv, NEW s \in Sessions, FinalVerify(s) \/ Abort(s)
    PROVE  RunInv'
  <1>1. /\ disk' = disk /\ runs' = runs /\ at[s] # "idle"
        /\ mixed' \in {mixed, mixed \cup {run[s]}}
        /\ DOMAIN shown' = DOMAIN shown
        /\ Return(s)
    BY DEF FinalVerify, Abort, files, RunInv, TypeOK
  <1>2. run[s] \in 1..runs
    BY <1>1 DEF RunInv, TypeOK, SessionInv
  <1>3. TypeOK'
    <2>1. mixed' \in SUBSET (1..runs)
      BY <1>1, <1>2 DEF RunInv, TypeOK
    <2>2. /\ at' \in [Sessions -> Points]
          /\ run' \in [Sessions -> 0..runs]
          /\ count' \in [Sessions -> Nat]
      BY <1>1 DEF RunInv, TypeOK, Return, Points
    <2>3. /\ DOMAIN tail' = Sessions /\ DOMAIN snap' = Sessions
          /\ DOMAIN pkg' = Sessions
      BY <1>1 DEF RunInv, TypeOK, Return
    <2>4. \A t \in Sessions :
            /\ tail'[t] = [seq |-> tail'[t].seq, hash |-> tail'[t].hash]
            /\ tail'[t].seq \in Nat
            /\ IsChain(snap'[t])
      BY <1>1, EmptyChain DEF RunInv, TypeOK, Return, FreshTail
    <2> QED
      BY <1>1, <2>1, <2>2, <2>3, <2>4 DEF RunInv, TypeOK
  <1>4. SessionInv(s)'
    BY <1>1 DEF Return, SessionInv, RunInv, TypeOK, PastStages
  <1>5. RunsDistinct'
    BY <1>1 DEF Return, RunInv, TypeOK, RunsDistinct
  <1> QED
    BY <1>1, <1>3, <1>4, <1>5, QuietStepInv DEF Return, RunInv, TypeOK
-----------------------------------------------------------------------------
LEMMA RunNext == RunInv /\ [Next]_vars => RunInv'
  <1> SUFFICES ASSUME RunInv, [Next]_vars PROVE RunInv'
    OBVIOUS
  <1>1. ASSUME NEW s \in Sessions, Begin(s) PROVE RunInv'
    BY <1>1, BeginInv
  <1>2. ASSUME NEW s \in Sessions, Step(s) PROVE RunInv'
    BY <1>2, UnlinkInv, OpenLogInv, StageRecordInv, PackageReadInv,
       PackageBuildInv, PackageWriteInv, StampInv, LaterReadInv,
       CaseRecordedInv, ReturnInv DEF Step
  <1>3. CASE UNCHANGED vars
    <2>1. /\ disk' = disk /\ runs' = runs /\ mixed' = mixed /\ at' = at
          /\ run' = run /\ count' = count /\ tail' = tail /\ snap' = snap
          /\ pkg' = pkg /\ shown' = shown
      BY <1>3 DEF vars, files
    <2>2. TypeOK' /\ RunsDistinct' /\ StampCoversPrefix'
      BY <2>1 DEF RunInv, TypeOK, RunsDistinct, StampCoversPrefix
    <2>3. \A s \in Sessions : SessionInv(s)'
      BY <2>1 DEF RunInv, SessionInv
    <2> QED
      BY <2>1, <2>2, <2>3 DEF RunInv
  <1> QED
    BY <1>1, <1>2, <1>3 DEF Next

(***************************************************************************)
(* The three files and every run's memory keep their shape, and in a log   *)
(* that verifies every packaged stamp covers exactly the records before    *)
(* it: for any number of sessions, stages and runs.                        *)
(***************************************************************************)
THEOREM LogCoversPackage == Spec => [](TypeOK /\ StampCoversPrefix)
  <1>1. RunInv => TypeOK /\ StampCoversPrefix
    BY DEF RunInv
  <1> QED
    BY <1>1, RunInit, RunNext, PTL DEF Spec

(***************************************************************************)
(* A log that verifies is a concatenation of unbroken beginnings of runs:  *)
(* overlapping runs of a case can spoil the log but never blend in it.     *)
(***************************************************************************)
THEOREM VerifiedLogIsSerial == Spec => []IntactIsSerial
  <1>1. RunInv => IntactIsSerial
    <2> SUFFICES ASSUME RunInv, Intact(disk), NEW i \in 1..Len(disk),
                        disk[i].body.n > 1
                 PROVE  /\ i > 1
                        /\ disk[i - 1].body.run = disk[i].body.run
                        /\ disk[i - 1].body.n = disk[i].body.n - 1
      BY DEF IntactIsSerial
    <2>1. RecordInv(disk[i]) /\ LinkOK(disk, i) /\ Len(disk) \in Nat
      BY ChainShape DEF RunInv, TypeOK, Intact
    <2>2. i > 1
      BY <2>1 DEF RecordInv, LinkOK, SeqOK
    <2>3. i - 1 \in 1..Len(disk)
      BY <2>1, <2>2
    <2>4. HashOK(disk[i - 1])
      BY <2>3 DEF RunInv, RecordInv
    <2>5. disk[i].prev_hash = <<disk[i - 1].seq, disk[i - 1].body, disk[i - 1].prev_hash>>
      BY <2>1, <2>2, <2>4 DEF LinkOK, PrevOK, HashOK, Digest
    <2>6. disk[i].prev_hash[2] = disk[i - 1].body
      BY <2>5
    <2> QED
      BY <2>1, <2>2, <2>6 DEF RecordInv
  <1> QED
    BY <1>1, RunInit, RunNext, PTL DEF Spec
-----------------------------------------------------------------------------
(* A run that nothing overlaps *)

\* A run alone that appends: its log again, one record longer.
LEMMA OwnAppend ==
    ASSUME RunInv, NEW s \in Sessions, NEW sha, AppendRecord(s, sha),
           OwnLog(s), run'[s] = run[s]
    PROVE  /\ OwnLog(s)'
           /\ count'[s] = count[s] + 1
           /\ Len(disk) = count[s] /\ Len(disk') = Len(disk) + 1
           /\ \A i \in 1..Len(disk) : disk'[i] = disk[i]
           /\ disk'[Len(disk) + 1].body.sha = sha
  <1> DEFINE b == Body(run[s], count[s] + 1, sha)
             r == NextRecord(TailOf(disk), b)
  <1>1. /\ IsChain(disk) /\ Len(disk) \in Nat /\ DOMAIN tail = Sessions
        /\ count \in [Sessions -> Nat]
    BY ChainShape DEF RunInv, TypeOK
  <1>2. /\ Intact(disk) /\ tail[s] = TailOf(disk) /\ Len(disk) = count[s]
        /\ \A i \in 1..Len(disk) : disk[i].body.run = run[s] /\ disk[i].body.n = i
    BY DEF OwnLog
  <1>3. disk' = Append(disk, r) /\ tail'[s] = TailAfter(r) /\ count'[s] = count[s] + 1
    BY <1>1, <1>2 DEF AppendRecord
  <1>4. TailOf(disk).seq \in Nat
    BY <1>1, TailShape
  <1>5. /\ r.body = b /\ b.run = run[s] /\ b.n = count[s] + 1 /\ b.sha = sha
        /\ IsRecord(r)
    BY <1>4 DEF NextRecord, Sealed, Body, IsRecord
  <1>6. Intact(disk')
    BY <1>1, <1>2, <1>3, SealedAppend
  <1> HIDE DEF b, r
  <1>7. /\ Len(disk') = Len(disk) + 1
        /\ \A i \in 1..Len(disk) : disk'[i] = disk[i]
        /\ disk'[Len(disk) + 1] = r
    BY <1>1, <1>3, <1>5, AppendChain
  <1>8. tail'[s] = TailOf(disk')
    <2>1. disk' # << >>
      BY <1>1, <1>7
    <2> QED
      BY <2>1, <1>3, <1>7 DEF TailOf, TailAfter
  <1>9. \A i \in 1..Len(disk') : disk'[i].body.run = run'[s] /\ disk'[i].body.n = i
    <2> SUFFICES ASSUME NEW i \in 1..Len(disk')
                 PROVE  disk'[i].body.run = run[s] /\ disk'[i].body.n = i
      OBVIOUS
    <2>1. CASE i \in 1..Len(disk)
      BY <2>1, <1>2, <1>7
    <2>2. CASE i = Len(disk) + 1
      BY <2>2, <1>2, <1>5, <1>7
    <2> QED
      BY <2>1, <2>2, <1>1, <1>7
  <1> QED
    BY <1>1, <1>2, <1>3, <1>5, <1>6, <1>7, <1>8, <1>9 DEF OwnLog

\* A record of the log still has its place once others follow it.
LEMMA RowStays ==
    ASSUME NEW row, RowResolves(row), Len(disk) \in Nat, Len(disk') = Len(disk) + 1,
           \A i \in 1..Len(disk) : disk'[i] = disk[i]
    PROVE  RowResolves(row)'
  BY DEF RowResolves

\* The two markers of a missing or torn package file are not packages.
MarkersAreNoPackages ==
    \A r, refs, verified :
        [by |-> r, refs |-> refs, verified |-> verified] \notin {NoPackage, Torn}

\* Session s has gone from one point of a run to another.
Moved(s, from, to) ==
    at[s] = from /\ at'[s] = to /\ run'[s] = run[s] /\ Len(disk) \in Nat

LEMMA MovedBy ==
    ASSUME RunInv, NEW s \in Sessions, NEW from, NEW to, Goto(s, from, to), run' = run
    PROVE  Moved(s, from, to)
  BY ChainShape DEF Goto, Moved, RunInv, TypeOK

LEMMA OwnFilesStep ==
    ASSUME RunInv, NEW s \in Sessions, Step(s), OwnFiles(s), at'[s] # "idle",
           MarkersAreNoPackages
    PROVE  OwnFiles(s)'
  <1> USE DEF PastStages, Points, Stamped, Written
  <1>0. /\ count \in [Sessions -> Nat] /\ Work \in Nat \ {0}
        /\ DOMAIN pkg = Sessions /\ DOMAIN snap = Sessions /\ DOMAIN tail = Sessions
    BY CaseRunsAssumption DEF RunInv, TypeOK
  <1>1. CASE Unlink(s)
    <2>1. Moved(s, "unlink", "open") /\ disk' = << >>
      BY <1>1, MovedBy DEF Unlink
    <2> QED
      BY <2>1 DEF OwnFiles, Moved
  <1>2. CASE OpenLog(s)
    <2>1. /\ Moved(s, "open", "work")
          /\ disk' = disk /\ disk = << >> /\ tail'[s] = TailOf(disk) /\ count'[s] = count[s]
      BY <1>0, <1>2, MovedBy DEF OpenLog, OwnFiles, Moved, files
    <2>2. count[s] = 0
      BY <2>1 DEF RunInv, SessionInv, Moved
    <2>3. OwnLog(s)'
      BY <2>1, <2>2 DEF OwnLog, Intact
    <2> QED
      BY <1>0, <2>1, <2>2, <2>3 DEF OwnFiles, Moved
  <1>3. CASE StageRecord(s)
    <2>1. /\ Moved(s, "work", IF count[s] + 1 = Work THEN "read" ELSE "work")
          /\ AppendRecord(s, NoPackage)
      BY <1>3, MovedBy DEF StageRecord
    <2>2. count[s] < Work /\ OwnLog(s)
      BY <2>1 DEF OwnFiles, Moved
    <2>3. OwnLog(s)' /\ count'[s] = count[s] + 1
      BY <2>1, <2>2, OwnAppend DEF Moved
    <2> QED
      BY <1>0, <2>1, <2>2, <2>3 DEF OwnFiles, Moved
  <1>4. CASE PackageRead(s)
    <2>1. /\ Moved(s, "read", "build")
          /\ disk' = disk /\ tail' = tail /\ count' = count
      BY <1>4, MovedBy DEF PackageRead, files
    <2>2. OwnLog(s)' /\ count[s] = Work
      BY <2>1 DEF OwnFiles, OwnLog, Moved
    <2> QED
      BY <2>1, <2>2 DEF OwnFiles, Moved
  <1>5. CASE PackageBuild(s)
    <2>1. /\ Moved(s, "build", "write")
          /\ disk' = disk /\ tail' = tail /\ count' = count
          /\ pkg'[s] = Package(run[s], snap[s], Intact(disk))
      BY <1>0, <1>5, MovedBy DEF PackageBuild, files
    <2>2. OwnLog(s)' /\ count[s] = Work
      BY <2>1 DEF OwnFiles, OwnLog, Moved
    <2>3. pkg'[s] \notin {NoPackage, Torn}
      BY <2>1 DEF MarkersAreNoPackages, Package
    <2> QED
      BY <2>1, <2>2, <2>3 DEF OwnFiles, Moved
  <1>6. CASE WriteBegin(s)
    <2>1. /\ Moved(s, "write", "writing")
          /\ disk' = disk /\ tail' = tail /\ count' = count /\ pkg' = pkg
          /\ pkgFile' = Torn
      BY <1>6, MovedBy DEF WriteBegin
    <2>2. OwnLog(s)' /\ count[s] = Work /\ pkg[s] \notin {NoPackage, Torn}
      BY <2>1 DEF OwnFiles, OwnLog, Moved
    <2> QED
      BY <2>1, <2>2 DEF OwnFiles, Moved
  <1>7. CASE WriteEnd(s)
    <2>1. /\ Moved(s, "writing", "stamp")
          /\ disk' = disk /\ tail' = tail /\ count' = count /\ pkg' = pkg
          /\ pkgFile' \in IF pkgFile = Torn THEN {pkg[s]} ELSE {pkg[s], Torn}
      BY <1>7, MovedBy DEF WriteEnd
    <2>2. /\ OwnLog(s)' /\ count[s] = Work /\ pkg[s] \notin {NoPackage, Torn}
          /\ pkgFile = Torn
      BY <2>1 DEF OwnFiles, OwnLog, Moved
    <2> QED
      BY <2>1, <2>2 DEF OwnFiles, Moved
  <1>8. CASE Stamp(s)
    <2>1. /\ Moved(s, "stamp", "tip")
          /\ AppendRecord(s, pkg[s]) /\ pkg' = pkg /\ pkgFile' = pkgFile
      BY <1>8, MovedBy DEF Stamp
    <2>2. /\ OwnLog(s) /\ count[s] = Work /\ pkg[s] \notin {NoPackage, Torn}
          /\ pkgFile = pkg[s]
      BY <2>1 DEF OwnFiles, Moved
    <2>3. /\ OwnLog(s)' /\ count'[s] = Work + 1
          /\ disk'[Work + 1].body.sha = pkg[s]
      BY <2>1, <2>2, OwnAppend DEF Moved
    <2> QED
      BY <1>0, <2>1, <2>2, <2>3 DEF OwnFiles, Moved
  <1>9. CASE RecordCaseRead(s)
    <2>1. /\ Moved(s, "tip", "upsert")
          /\ disk' = disk /\ tail' = tail /\ count' = count /\ pkg' = pkg
          /\ pkgFile' = pkgFile /\ snap'[s] = disk
      BY <1>0, <1>9, MovedBy DEF RecordCaseRead, files
    <2>2. /\ OwnLog(s)' /\ count[s] = Work + 1 /\ pkg[s] \notin {NoPackage, Torn}
          /\ pkgFile = pkg[s] /\ disk[Work + 1].body.sha = pkg[s]
      BY <2>1 DEF OwnFiles, OwnLog, Moved
    <2> QED
      BY <2>1, <2>2 DEF OwnFiles, Moved
  <1>10. CASE Upsert(s)
    <2>1. /\ Moved(s, "upsert", "recorded")
          /\ disk' = disk /\ tail' = tail /\ count' = count /\ pkg' = pkg
          /\ pkgFile' = pkgFile /\ store' = {Row(run[s], snap[s], pkg[s])}
      BY <1>10, MovedBy DEF Upsert
    <2>2. /\ OwnLog(s)' /\ count[s] = Work + 1 /\ pkg[s] \notin {NoPackage, Torn}
          /\ pkgFile = pkg[s] /\ disk[Work + 1].body.sha = pkg[s]
          /\ snap[s] = disk /\ Len(disk) = count[s]
      BY <2>1 DEF OwnFiles, OwnLog, Moved
    <2>3. PICK row : row = Row(run[s], snap[s], pkg[s])
      OBVIOUS
    <2>4. row.sha = pkg[s] /\ row.count = Work + 1 /\ row.tip = disk[Work + 1].hash
      BY <1>0, <2>2, <2>3 DEF Row
    <2>5. RowResolves(row)'
      BY <1>0, <2>1, <2>2, <2>4 DEF RowResolves
    <2>6. \E x \in store' : store' = {x} /\ x.sha = pkg'[s] /\ RowResolves(x)'
      BY <2>1, <2>3, <2>4, <2>5
    <2> QED
      BY <2>1, <2>2, <2>6 DEF OwnFiles, Moved
  <1>11. CASE CaseRecorded(s)
    <2>1. /\ Moved(s, "recorded", "readback")
          /\ AppendRecord(s, NoPackage) /\ pkg' = pkg /\ pkgFile' = pkgFile
          /\ store' = store
      BY <1>11, MovedBy DEF CaseRecorded
    <2>2. /\ OwnLog(s) /\ count[s] = Work + 1 /\ pkg[s] \notin {NoPackage, Torn}
          /\ pkgFile = pkg[s] /\ disk[Work + 1].body.sha = pkg[s]
          /\ \E x \in store : store = {x} /\ x.sha = pkg[s] /\ RowResolves(x)
      BY <2>1 DEF OwnFiles, Moved
    <2>3. /\ OwnLog(s)' /\ count'[s] = Work + 2
          /\ Len(disk) = Work + 1 /\ Len(disk') = Len(disk) + 1
          /\ \A i \in 1..Len(disk) : disk'[i] = disk[i]
      BY <1>0, <2>1, <2>2, OwnAppend DEF Moved
    <2>4. disk'[Work + 1] = disk[Work + 1]
      BY <1>0, <2>3
    <2>5. \E x \in store' : store' = {x} /\ x.sha = pkg'[s] /\ RowResolves(x)'
      <3>1. PICK x \in store : store = {x} /\ x.sha = pkg[s] /\ RowResolves(x)
        BY <2>2
      <3>2. RowResolves(x)'
        BY <3>1, <2>1, <2>3, RowStays DEF Moved
      <3> QED
        BY <3>1, <3>2, <2>1
    <2> QED
      BY <2>1, <2>2, <2>3, <2>4, <2>5 DEF OwnFiles, Moved
  <1>12. CASE FinalRead(s)
    <2>1. /\ Moved(s, "readback", "verify")
          /\ disk' = disk /\ tail' = tail /\ count' = count /\ pkg' = pkg
          /\ pkgFile' = pkgFile /\ store' = store /\ snap'[s] = disk
      BY <1>0, <1>12, MovedBy DEF FinalRead, files
    <2>2. /\ OwnLog(s)' /\ count[s] = Work + 2 /\ pkg[s] \notin {NoPackage, Torn}
          /\ pkgFile = pkg[s] /\ disk[Work + 1].body.sha = pkg[s]
      BY <2>1 DEF OwnFiles, OwnLog, Moved
    <2>3. \E x \in store : store = {x} /\ x.sha = pkg[s] /\ RowResolves(x)
      BY <2>1 DEF OwnFiles, Moved
    <2>4. \E x \in store' : store' = {x} /\ x.sha = pkg'[s] /\ RowResolves(x)'
      BY <2>1, <2>3 DEF RowResolves
    <2> QED
      BY <2>1, <2>2, <2>4 DEF OwnFiles, Moved
  <1>13. CASE FinalVerify(s) \/ Abort(s)
    BY <1>13 DEF FinalVerify, Abort, Return, RunInv, TypeOK
  <1> QED
    BY <1>1, <1>2, <1>3, <1>4, <1>5, <1>6, <1>7, <1>8, <1>9, <1>10, <1>11, <1>12,
       <1>13 DEF Step

\* A step of a run leaves the other sessions, and who overlapped whom, alone.
LEMMA StepOfOne ==
    ASSUME RunInv, NEW s \in Sessions, Step(s)
    PROVE  /\ at[s] # "idle" /\ mixed' = mixed
           /\ \A t \in Sessions \ {s} : at'[t] = at[t] /\ run'[t] = run[t]
           /\ at'[s] # "idle" => run'[s] = run[s]
           /\ \A t \in Sessions : shown'[t] # shown[t] => t = s /\ FinalVerify(s)
  <1> USE DEF RunInv, TypeOK
  <1>1. CASE FinalVerify(s) \/ Abort(s)
    BY <1>1 DEF FinalVerify, Abort, Return
  <1>2. CASE ~(FinalVerify(s) \/ Abort(s))
    <2>1. /\ run' = run /\ mixed' = mixed /\ shown' = shown
          /\ \E from \in Points \ {"idle"}, to \in Points : Goto(s, from, to)
      <3>1. CASE Unlink(s) \/ OpenLog(s)
        BY <3>1 DEF Unlink, OpenLog, Points
      <3>2. CASE StageRecord(s)
        BY <3>2 DEF StageRecord, Points
      <3>3. CASE PackageRead(s) \/ PackageBuild(s) \/ WriteBegin(s) \/ WriteEnd(s)
        BY <3>3 DEF PackageRead, PackageBuild, WriteBegin, WriteEnd, Points
      <3>4. CASE Stamp(s) \/ RecordCaseRead(s) \/ Upsert(s)
        BY <3>4 DEF Stamp, RecordCaseRead, Upsert, Points
      <3>5. CASE CaseRecorded(s) \/ FinalRead(s)
        BY <3>5 DEF CaseRecorded, FinalRead, Points
      <3> QED
        BY <1>2, <3>1, <3>2, <3>3, <3>4, <3>5 DEF Step
    <2> QED
      BY <2>1 DEF Goto
  <1> QED
    BY <1>1, <1>2

LEMMA LoneInit == Init => LoneInv
  BY DEF Init, LoneInv

LEMMA LoneNext ==
    ASSUME RunInv, LoneInv, [Next]_vars, MarkersAreNoPackages
    PROVE  LoneInv'
  <1>1. ASSUME NEW s \in Sessions, Begin(s) PROVE LoneInv'
    <2> SUFFICES ASSUME NEW u \in Sessions, at'[u] # "idle", run'[u] \notin mixed'
                 PROVE  /\ \A t \in Sessions \ {u} : at'[t] = "idle"
                        /\ OwnFiles(u)'
      BY DEF LoneInv
    <2>1. /\ at' = [at EXCEPT ![s] = IF disk = << >> THEN "open" ELSE "unlink"]
          /\ run' = [run EXCEPT ![s] = runs + 1]
          /\ mixed' = IF Active = {} THEN mixed
                      ELSE mixed \cup {runs + 1} \cup {run[t] : t \in Active}
          /\ disk' = disk
      BY <1>1 DEF Begin, Goto, NewRun, files
    <2>2. u = s
      <3> SUFFICES ASSUME u # s PROVE FALSE
        OBVIOUS
      <3>1. at'[u] = at[u] /\ run'[u] = run[u]
        BY <2>1 DEF RunInv, TypeOK
      <3> QED
        BY <2>1, <3>1 DEF Active
    <2>3. run'[u] = runs + 1
      BY <2>1, <2>2 DEF RunInv, TypeOK
    <2>4. Active = {}
      BY <2>1, <2>3
    <2>5. \A t \in Sessions \ {u} : at'[t] = "idle"
      BY <2>1, <2>2, <2>4 DEF Active
    <2>6. at'[u] = IF disk = << >> THEN "open" ELSE "unlink"
      BY <2>1, <2>2 DEF RunInv, TypeOK
    <2>7. OwnFiles(u)'
      BY <2>1, <2>6 DEF OwnFiles, PastStages, Points, Stamped, Written
    <2> QED
      BY <2>5, <2>7
  <1>2. ASSUME NEW s \in Sessions, Step(s) PROVE LoneInv'
    <2>1. /\ at[s] # "idle" /\ mixed' = mixed
          /\ \A t \in Sessions \ {s} : at'[t] = at[t] /\ run'[t] = run[t]
          /\ at'[s] # "idle" => run'[s] = run[s]
      BY <1>2, StepOfOne
    <2> SUFFICES ASSUME NEW u \in Sessions, at'[u] # "idle", run'[u] \notin mixed'
                 PROVE  /\ \A t \in Sessions \ {u} : at'[t] = "idle"
                        /\ OwnFiles(u)'
      BY DEF LoneInv
    <2>2. u = s
      BY <2>1 DEF LoneInv
    <2>3. /\ \A t \in Sessions \ {s} : at[t] = "idle"
          /\ OwnFiles(s)
      BY <2>1, <2>2 DEF LoneInv
    <2>4. OwnFiles(s)'
      BY <1>2, <2>2, <2>3, OwnFilesStep
    <2> QED
      BY <2>1, <2>2, <2>3, <2>4
  <1>3. CASE UNCHANGED vars
    <2>1. /\ disk' = disk /\ pkgFile' = pkgFile /\ store' = store /\ mixed' = mixed
          /\ at' = at /\ run' = run /\ count' = count /\ tail' = tail /\ snap' = snap
          /\ pkg' = pkg
      BY <1>3 DEF vars, files
    <2>2. \A row : RowResolves(row)' <=> RowResolves(row)
      BY <2>1 DEF RowResolves
    <2>3. \A s \in Sessions : OwnLog(s)' <=> OwnLog(s)
      BY <2>1 DEF OwnLog
    <2>4. \A s \in Sessions : OwnFiles(s) => OwnFiles(s)'
      BY <2>1, <2>2, <2>3 DEF OwnFiles
    <2> QED
      BY <2>1, <2>4 DEF LoneInv
  <1> QED
    BY <1>1, <1>2, <1>3 DEF Next

(***************************************************************************)
(* "fresh chain per run" (orchestrator/pipeline.py): a run that no other   *)
(* overlapped returns its own records, all of them, verified, and leaves   *)
(* log, package and case graph agreeing, whatever was on disk before it    *)
(* and however many runs failed, died or spoiled the files first.          *)
(***************************************************************************)
THEOREM LoneRunsAgree ==
    ASSUME MarkersAreNoPackages
    PROVE  Spec => LoneRunAgrees
  <1> DEFINE Agreed(s) ==
         /\ \A result \in shown'[s] :
               /\ result.verified
               /\ [i \in 1..Len(result.records) |->
                       <<result.records[i].body.run, result.records[i].body.n>>]
                    = [i \in 1..(Work + 2) |-> <<run[s], i>>]
         /\ Len(disk) = Work + 2
         /\ \A i \in 1..Len(disk) : disk[i].body.run = run[s]
         /\ pkgFile \notin {NoPackage, Torn}
         /\ disk[Work + 1].body.sha = pkgFile
         /\ Cardinality(store) = 1
         /\ \A row \in store : row.sha = pkgFile /\ RowResolves(row)
  <1>1. ASSUME RunInv, LoneInv, [Next]_vars, NEW s \in Sessions, LoneReturn(s)
        PROVE  Agreed(s)
    <2>1. FinalVerify(s)
      <3>1. CASE \E t \in Sessions : Begin(t)
        BY <1>1, <3>1 DEF Begin, LoneReturn
      <3>2. CASE \E t \in Sessions : Step(t)
        BY <1>1, <3>2, StepOfOne DEF LoneReturn
      <3>3. CASE UNCHANGED vars
        BY <1>1, <3>3 DEF vars, LoneReturn
      <3> QED
        BY <1>1, <3>1, <3>2, <3>3 DEF Next
    <2>2. at[s] = "verify" /\ run[s] \notin mixed
      BY <1>1, <2>1 DEF FinalVerify, LoneReturn
    <2>3. OwnFiles(s)
      BY <1>1, <2>2 DEF LoneInv
    <2>4. /\ OwnLog(s) /\ count[s] = Work + 2 /\ pkg[s] \notin {NoPackage, Torn}
          /\ pkgFile = pkg[s] /\ disk[Work + 1].body.sha = pkg[s]
          /\ snap[s] = disk
          /\ \E row \in store : store = {row} /\ row.sha = pkg[s] /\ RowResolves(row)
      BY <2>2, <2>3 DEF OwnFiles, PastStages, Points, Stamped, Written
    <2>5. /\ Intact(disk) /\ Len(disk) = Work + 2
          /\ \A i \in 1..Len(disk) : disk[i].body.run = run[s] /\ disk[i].body.n = i
      BY <2>4 DEF OwnLog
    <2>6. Cardinality(store) = 1 /\ \A row \in store : row.sha = pkgFile /\ RowResolves(row)
      <3>1. PICK row \in store : store = {row} /\ row.sha = pkg[s] /\ RowResolves(row)
        BY <2>4
      <3>2. Cardinality({row}) = 1
        BY FS_Singleton, Zenon
      <3> QED
        BY <3>1, <3>2, <2>4
    <2>7. ASSUME NEW result \in shown'[s]
          PROVE  /\ result.verified
                 /\ [i \in 1..Len(result.records) |->
                       <<result.records[i].body.run, result.records[i].body.n>>]
                    = [i \in 1..(Work + 2) |-> <<run[s], i>>]
      <3>1. result.verified = Intact(disk) /\ result.records = disk
        BY <1>1, <2>1, <2>4 DEF FinalVerify, RunInv, TypeOK
      <3> QED
        BY <3>1, <2>5
    <2> QED
      BY <2>4, <2>5, <2>6, <2>7
  <1>2. RunInv /\ LoneInv /\ [Next]_vars
          => \A s \in Sessions : LoneReturn(s) => Agreed(s)
    BY <1>1
  <1>3. RunInv /\ LoneInv /\ [Next]_vars => LoneInv'
    BY LoneNext
  <1> HIDE DEF Agreed
  <1> QED
    BY <1>2, <1>3, RunInit, RunNext, LoneInit, PTL DEF Spec, LoneRunAgrees, Agreed
=============================================================================
