----------------------------- MODULE DiskProofs -----------------------------
(***************************************************************************)
(* What is left on disk, by the two components that only the file system   *)
(* ties to their past.                                                     *)
(*                                                                         *)
(* The audit log: verify_records is exact about what it was given, and     *)
(* what it accepts is what was written (VerdictLocated, VerifiedIsGenuine).*)
(*                                                                         *)
(* The dataset directory: a boot no other boot runs beside heals whatever  *)
(* interrupted and overlapping boots left, keeps what is complete and rolls*)
(* back a failed swap (LoneBootHeals, LoneBootKeepsData, FailureRollsBack).*)
(***************************************************************************)
EXTENDS AuditVerify, Bootstrap, ProofLemmas

-----------------------------------------------------------------------------
(* The audit log.  VerifyInv is inductive. *)

LEMMA VerifyInit == Init => VerifyInv
  <1> SUFFICES ASSUME Init PROVE VerifyInv
    OBVIOUS
  <1>1. IsChain(<< >>)
    BY DEF IsChain
  <1>2. TypeOK
    BY <1>1, BoundsAssumption DEF Init, TypeOK, TailOf, ScanIdle
  <1>3. Intact(written) /\ HashesFrom(disk, written)
    BY DEF Init, Intact, HashesFrom
  <1>4. ScanInv /\ VerdictLocated
    BY DEF Init, ScanIdle, ScanInv, VerdictLocated
  <1> QED
    BY <1>2, <1>3, <1>4 DEF VerifyInv

\* The writer's step: the genuine chain and the file grow by one sealed record.
LEMMA AppendStep ==
    ASSUME VerifyInv, NEW b \in Bodies, WriterAppend(b)
    PROVE  VerifyInv'
  <1> DEFINE r == NextRecord(TailOf(written), b)
  <1>1. /\ disk' = Append(disk, r)
        /\ written' = Append(written, r)
        /\ tail' = TailAfter(r)
        /\ edits' = edits /\ scan' = scan
    BY DEF VerifyInv, TypeOK, WriterAppend
  <1>2. /\ IsRecord(r)
        /\ IsChain(written') /\ Intact(written')
        /\ tail' = TailOf(written')
    BY <1>1, SealedAppend DEF VerifyInv, TypeOK
  <1> HIDE DEF r
  <1>3. /\ IsChain(disk') /\ Len(disk') = Len(disk) + 1
        /\ \A i \in 1..Len(disk) : disk'[i] = disk[i]
        /\ disk'[Len(disk) + 1] = r
    BY <1>1, <1>2, AppendChain DEF VerifyInv, TypeOK
  <1>4. /\ Len(written') = Len(written) + 1
        /\ \A i \in 1..Len(written) : written'[i] = written[i]
        /\ written'[Len(written) + 1] = r
    BY <1>1, <1>2, AppendChain DEF VerifyInv, TypeOK
  <1>5. HashesFrom(disk', written')
    <2> SUFFICES ASSUME NEW i \in 1..Len(disk')
                 PROVE  \E k \in 1..Len(written') : disk'[i].hash = written'[k].hash
      BY DEF HashesFrom
    <2>0. Len(disk) \in Nat /\ Len(written) \in Nat
      BY ChainShape DEF VerifyInv, TypeOK
    <2>1. CASE i \in 1..Len(disk)
      <3>1. PICK k \in 1..Len(written) : disk[i].hash = written[k].hash
        BY <2>1 DEF VerifyInv, HashesFrom
      <3>2. k \in 1..Len(written') /\ disk'[i].hash = written'[k].hash
        BY <2>0, <2>1, <3>1, <1>3, <1>4
      <3> QED
        BY <3>2
    <2>2. CASE i = Len(disk) + 1
      <3>1. Len(written) + 1 \in 1..Len(written')
        BY <2>0, <1>4
      <3> QED
        BY <2>2, <3>1, <1>3, <1>4
    <2> QED
      BY <2>0, <2>1, <2>2, <1>3
  <1> QED
    BY <1>1, <1>2, <1>3, <1>5
       DEF VerifyInv, TypeOK, ScanInv, VerdictLocated

\* A damage to the file that reseals nothing keeps the invariant.
LEMMA DamageStep ==
    ASSUME VerifyInv, NEW newDisk, Damage(newDisk),
           IsChain(newDisk),
           \A k \in 1..Len(newDisk) :
               \E m \in 1..Len(disk) : newDisk[k].hash = disk[m].hash
    PROVE  VerifyInv'
  <1>1. HashesFrom(newDisk, written)
    <2> SUFFICES ASSUME NEW k \in 1..Len(newDisk)
                 PROVE  \E n \in 1..Len(written) : newDisk[k].hash = written[n].hash
      BY DEF HashesFrom
    <2>1. PICK m \in 1..Len(disk) : newDisk[k].hash = disk[m].hash
      OBVIOUS
    <2>2. PICK n \in 1..Len(written) : disk[m].hash = written[n].hash
      BY DEF VerifyInv, HashesFrom
    <2> QED
      BY <2>1, <2>2
  <1> QED
    BY <1>1, BoundsAssumption DEF VerifyInv, TypeOK, ScanInv, VerdictLocated, Damage

\* Damage computes no hash anew.
LEMMA EditsReseal ==
    ASSUME VerifyInv,
           NEW i \in 1..Len(disk)
    PROVE  /\ \A b \in Bodies : EditBody(i, b) => VerifyInv'
           /\ \A j \in 1..Len(disk) : EditLink(i, j) => VerifyInv'
           /\ DropLine(i) => VerifyInv'
           /\ \A j \in 1..Len(disk) : SwapLines(i, j) => VerifyInv'
  <1>0. /\ Len(disk) \in Nat
        /\ DOMAIN disk = 1..Len(disk)
        /\ \A k \in 1..Len(disk) : IsRecord(disk[k])
    BY ChainShape DEF VerifyInv, TypeOK
  <1>1. ASSUME NEW b \in Bodies, EditBody(i, b) PROVE VerifyInv'
    <2> DEFINE new == [disk EXCEPT ![i].body = b]
    <2>1. new = [k \in 1..Len(disk) |-> new[k]]
      BY <1>0
    <2>2. \A k \in 1..Len(disk) : IsRecord(new[k]) /\ new[k].hash = disk[k].hash
      BY <1>0 DEF IsRecord
    <2>3. Damage(new)
      BY <1>1 DEF EditBody
    <2> HIDE DEF new
    <2>4. IsChain(new) /\ Len(new) = Len(disk)
      BY <1>0, <2>1, <2>2, ChainIntro
    <2> QED
      BY <2>2, <2>3, <2>4, DamageStep
  <1>2. ASSUME NEW j \in 1..Len(disk), EditLink(i, j) PROVE VerifyInv'
    <2> DEFINE new == [disk EXCEPT ![i].prev_hash = disk[j].hash]
    <2>1. new = [k \in 1..Len(disk) |-> new[k]]
      BY <1>0
    <2>2. \A k \in 1..Len(disk) : IsRecord(new[k]) /\ new[k].hash = disk[k].hash
      BY <1>0 DEF IsRecord
    <2>3. Damage(new)
      BY <1>2 DEF EditLink
    <2> HIDE DEF new
    <2>4. IsChain(new) /\ Len(new) = Len(disk)
      BY <1>0, <2>1, <2>2, ChainIntro
    <2> QED
      BY <2>2, <2>3, <2>4, DamageStep
  <1>3. ASSUME DropLine(i) PROVE VerifyInv'
    <2> DEFINE new == [k \in 1..(Len(disk) - 1) |->
                          IF k < i THEN disk[k] ELSE disk[k + 1]]
    <2>1. Len(disk) - 1 \in Nat
      BY <1>0
    <2>2. new = [k \in 1..(Len(disk) - 1) |-> new[k]]
      OBVIOUS
    <2>3. \A k \in 1..(Len(disk) - 1) :
             \E m \in 1..Len(disk) : new[k] = disk[m]
      <3> SUFFICES ASSUME NEW k \in 1..(Len(disk) - 1)
                   PROVE \E m \in 1..Len(disk) : new[k] = disk[m]
        OBVIOUS
      <3>1. k \in 1..Len(disk) /\ k + 1 \in 1..Len(disk)
        BY <1>0
      <3>2. new[k] = disk[k] \/ new[k] = disk[k + 1]
        OBVIOUS
      <3> QED
        BY <3>1, <3>2
    <2>4. Damage(new)
      BY <1>3 DEF DropLine
    <2> HIDE DEF new
    <2>5. IsChain(new) /\ Len(new) = Len(disk) - 1
      BY <1>0, <2>1, <2>2, <2>3, ChainIntro
    <2> QED
      BY <2>3, <2>4, <2>5, DamageStep
  <1>4. ASSUME NEW j \in 1..Len(disk), SwapLines(i, j) PROVE VerifyInv'
    <2> DEFINE new == [disk EXCEPT ![i] = disk[j], ![j] = disk[i]]
    <2>1. new = [k \in 1..Len(disk) |-> new[k]]
      BY <1>0
    <2>2. \A k \in 1..Len(disk) : \E m \in 1..Len(disk) : new[k] = disk[m]
      BY <1>0
    <2>3. Damage(new)
      BY <1>4 DEF SwapLines
    <2> HIDE DEF new
    <2>4. IsChain(new) /\ Len(new) = Len(disk)
      BY <1>0, <2>1, <2>2, ChainIntro
    <2> QED
      BY <2>2, <2>3, <2>4, DamageStep
  <1> QED
    BY <1>1, <1>2, <1>3, <1>4

LEMMA ReadStep == ASSUME VerifyInv, ReadAll PROVE VerifyInv'
  <1>1. Len(disk) \in Nat
    BY ChainShape DEF VerifyInv, TypeOK
  <1>2. TypeOK'
    BY <1>1 DEF VerifyInv, TypeOK, ReadAll
  <1>3. ScanInv'
    BY DEF VerifyInv, ScanInv, ReadAll
  <1> QED
    BY <1>2, <1>3 DEF VerifyInv, ReadAll, VerdictLocated

\* In the loop, the two comparisons the code makes are the first two checks of
\* LinkOK at the expected position.
LEMMA LoopChecks ==
    ASSUME VerifyInv, InLoop
    PROVE  /\ ExpectedSeq \in 1..Len(scan.records)
           /\ scan.verified \in Nat
           /\ Current = scan.records[ExpectedSeq]
           /\ Current.seq = ExpectedSeq <=> SeqOK(scan.records, ExpectedSeq)
           /\ Current.prev_hash = scan.prev <=> PrevOK(scan.records, ExpectedSeq)
  <1>1. /\ Len(scan.records) \in Nat
        /\ scan.verified \in 0..Len(scan.records)
        /\ scan.verified < Len(scan.records)
    BY ChainShape DEF VerifyInv, TypeOK, InLoop
  <1>2. ExpectedSeq \in 1..Len(scan.records) /\ scan.verified \in Nat
    BY <1>1 DEF ExpectedSeq
  <1>3. ExpectedSeq = 1 <=> scan.verified = 0
    BY <1>1 DEF ExpectedSeq
  <1>4. ExpectedSeq - 1 = scan.verified
    BY <1>1 DEF ExpectedSeq
  <1>5. scan.prev = IF scan.verified = 0 THEN GENESIS_HASH
                    ELSE scan.records[scan.verified].hash
    BY DEF VerifyInv, ScanInv, InLoop
  <1> QED
    BY <1>2, <1>3, <1>4, <1>5 DEF Current, SeqOK, PrevOK

\* The verifier stops at the record that fails.
LEMMA BreakStep ==
    ASSUME VerifyInv, InLoop, NEW reason,
           Report(FALSE, ExpectedSeq, reason),
           ~LinkOK(scan.records, ExpectedSeq),
           reason = BreakReason(scan.records, ExpectedSeq)
    PROVE  VerifyInv'
  <1>1. /\ scan'.at = "done" /\ scan'.ok = FALSE
        /\ scan'.records = scan.records /\ scan'.genuine = scan.genuine
        /\ scan'.verified = scan.verified
        /\ scan'.break_seq = ExpectedSeq /\ scan'.reason = reason
        /\ UNCHANGED <<disk, tail, written, edits>>
    BY DEF Report
  <1>2. scan.at # "idle"
    BY DEF InLoop
  <1>3. TypeOK' /\ ScanInv'
    BY <1>1, <1>2 DEF VerifyInv, TypeOK, ScanInv
  <1>4. IsFirstBreak(scan.records, ExpectedSeq)
    <2>1. \A j \in 1..(ExpectedSeq - 1) : LinkOK(scan.records, j)
      BY <1>2, LoopChecks DEF VerifyInv, ScanInv, ExpectedSeq
    <2> QED
      BY <2>1, LoopChecks DEF IsFirstBreak
  <1>5. scan.verified = ExpectedSeq - 1
    BY LoopChecks DEF ExpectedSeq
  <1>6. VerdictLocated'
    BY <1>1, <1>4, <1>5 DEF VerdictLocated
  <1> QED
    BY <1>1, <1>3, <1>6 DEF VerifyInv

LEMMA VerifyStepInv == ASSUME VerifyInv, VerifyStep PROVE VerifyInv'
  <1>1. CASE BreakOnSeq
    BY <1>1, BreakStep, LoopChecks DEF BreakOnSeq, LinkOK, BreakReason
  <1>2. CASE BreakOnPrev
    BY <1>2, BreakStep, LoopChecks DEF BreakOnPrev, LinkOK, BreakReason
  <1>3. CASE BreakOnHash
    BY <1>3, BreakStep, LoopChecks DEF BreakOnHash, LinkOK, BreakReason
  <1>4. CASE RecordVerified
    <2>1. InLoop /\ LinkOK(scan.records, ExpectedSeq)
      BY <1>4, LoopChecks DEF RecordVerified, LinkOK
    <2>2. /\ scan'.at = scan.at /\ scan.at = "loop"
          /\ scan'.records = scan.records /\ scan'.genuine = scan.genuine
          /\ scan'.verified = ExpectedSeq
          /\ scan'.prev = scan.records[ExpectedSeq].hash
          /\ UNCHANGED <<disk, tail, written, edits>>
      BY <1>4, <2>1 DEF RecordVerified, VerifiedTo, InLoop, Current
    <2>3. ExpectedSeq \in 0..Len(scan.records) /\ ExpectedSeq # 0
      BY <2>1, LoopChecks
    <2>4. TypeOK'
      BY <2>2, <2>3 DEF VerifyInv, TypeOK
    <2>5. \A i \in 1..ExpectedSeq : LinkOK(scan.records, i)
      BY <2>1, <2>2, LoopChecks DEF VerifyInv, ScanInv, ExpectedSeq
    <2>6. ScanInv' /\ VerdictLocated'
      BY <2>2, <2>3, <2>5 DEF VerifyInv, ScanInv, VerdictLocated
    <2> QED
      BY <2>2, <2>4, <2>6 DEF VerifyInv
  <1>5. CASE AllVerified
    <2>1. /\ scan'.at = "done" /\ scan'.ok = TRUE
          /\ scan'.records = scan.records /\ scan'.genuine = scan.genuine
          /\ scan'.verified = scan.verified
          /\ scan.at = "loop" /\ scan.verified = Len(scan.records)
          /\ UNCHANGED <<disk, tail, written, edits>>
      BY <1>5 DEF AllVerified, Report
    <2>2. Intact(scan.records)
      BY <2>1 DEF VerifyInv, ScanInv, Intact
    <2>3. TypeOK' /\ ScanInv' /\ VerdictLocated'
      BY <2>1, <2>2 DEF VerifyInv, TypeOK, ScanInv, VerdictLocated
    <2> QED
      BY <2>1, <2>3 DEF VerifyInv
  <1> QED
    BY <1>1, <1>2, <1>3, <1>4, <1>5 DEF VerifyStep

LEMMA VerifyNext == VerifyInv /\ [Next]_vars => VerifyInv'
  <1> SUFFICES ASSUME VerifyInv, [Next]_vars PROVE VerifyInv'
    OBVIOUS
  <1>1. ASSUME NEW b \in Bodies, WriterAppend(b) PROVE VerifyInv'
    BY <1>1, AppendStep
  <1>2. ASSUME NEW i \in 1..Len(disk), NEW b \in Bodies, EditBody(i, b)
        PROVE  VerifyInv'
    BY <1>2, EditsReseal
  <1>3. ASSUME NEW i \in 1..Len(disk), NEW j \in 1..Len(disk), EditLink(i, j)
        PROVE  VerifyInv'
    BY <1>3, EditsReseal
  <1>4. ASSUME NEW i \in 1..Len(disk), DropLine(i) PROVE VerifyInv'
    BY <1>4, EditsReseal
  <1>5. ASSUME NEW i \in 1..Len(disk), NEW j \in 1..Len(disk), SwapLines(i, j)
        PROVE  VerifyInv'
    BY <1>5, EditsReseal
  <1>6. CASE ReadAll
    BY <1>6, ReadStep
  <1>7. CASE VerifyStep
    BY <1>7, VerifyStepInv
  <1>8. CASE UNCHANGED vars
    BY <1>8 DEF vars, VerifyInv, TypeOK, ScanInv, VerdictLocated
  <1> QED
    BY <1>1, <1>2, <1>3, <1>4, <1>5, <1>6, <1>7, <1>8 DEF Next
-----------------------------------------------------------------------------
(***************************************************************************)
(* What verify_records reports is exact: "ok" means every link holds, and  *)
(* otherwise it names the first record that fails and the first check it   *)
(* fails.  Holds for every content and any number of records and damages.  *)
(***************************************************************************)
THEOREM VerdictIsLocated == Spec => [](TypeOK /\ VerdictLocated)
  <1>1. VerifyInv => TypeOK /\ VerdictLocated
    BY DEF VerifyInv
  <1> QED
    BY <1>1, VerifyInit, VerifyNext, PTL DEF Spec

(***************************************************************************)
(* What the verifier accepts was written, in that order, from the first    *)
(* record: damage that reseals nothing can at most shorten an accepted     *)
(* chain at its end.                                                       *)
(***************************************************************************)
THEOREM AcceptedIsGenuine == Spec => []VerifiedIsGenuine
  <1>1. VerifyInv => VerifiedIsGenuine
    <2> SUFFICES ASSUME VerifyInv, scan.at # "idle", NEW i \in 1..scan.verified
                 PROVE  /\ i \in 1..Len(scan.genuine)
                        /\ scan.records[i] = scan.genuine[i]
      BY DEF VerifiedIsGenuine
    <2>1. /\ i \in 1..Len(scan.records) /\ i \in Nat
          /\ IsRecord(scan.records[i])
      <3>1. Len(scan.records) \in Nat
        BY ChainShape DEF VerifyInv, TypeOK
      <3>2. i \in 1..Len(scan.records) /\ i \in Nat
        BY <3>1 DEF VerifyInv, TypeOK
      <3> QED
        BY <3>2, ChainShape DEF VerifyInv, TypeOK
    <2>2. LinkOK(scan.records, i)
      BY DEF VerifyInv, ScanInv
    <2>3. PICK k \in 1..Len(scan.genuine) :
             scan.records[i].hash = scan.genuine[k].hash
      BY <2>1 DEF VerifyInv, ScanInv, HashesFrom
    <2>4. scan.records[i] = scan.genuine[k] /\ scan.records[i].seq = k
      BY <2>1, <2>2, <2>3, HashPinsRecord
         DEF VerifyInv, TypeOK, ScanInv, LinkOK
    <2>5. k = i
      BY <2>2, <2>4 DEF LinkOK, SeqOK
    <2> QED
      BY <2>4, <2>5
  <1> QED
    BY <1>1, VerifyInit, VerifyNext, PTL DEF Spec
-----------------------------------------------------------------------------
(* The dataset directory.  BootInv is inductive: DiskInv says what any number *)
(* of boots at once leave of the names and the inodes, Lone what a boot that  *)
(* runs alone knows of them at each of its points.                            *)

\* The points of a boot that has no staging directory yet.
Unstaged == {"recover", "glob", "next", "inspect", "discard", "better", "drop", "restore",
             "check", "generate"}
\* The points at which it looks at a backup.
Holding == {"inspect", "discard", "better", "drop", "restore"}

BootTypeOK ==
    /\ names \in [Names -> Inodes \cup {NoInode}]
    /\ files \in [Inodes -> SUBSET Tables]
    /\ at \in [Processes -> Points]
    /\ boot \in [Processes -> 0..MaxBoots]
    /\ todo \in [Processes -> SUBSET Backups]
    /\ held \in [Processes -> SUBSET Backups]
    /\ open \in [Processes -> Inodes \cup {NoInode}]
    /\ moved \in [Processes -> BOOLEAN]
    /\ boots \in 0..MaxBoots /\ mishaps \in Nat
    /\ alone \in [Processes -> BOOLEAN]
    /\ found \in [Processes -> [inode : Inodes \cup {NoInode}, tables : SUBSET Tables,
                              mishaps : Nat]]

HeldIsOne == \A p \in Processes : at[p] \in Holding => \E n \in Backups : held[p] = {n}

\* No inode has two names.
OneName == \A m, n \in Names : names[m] = names[n] /\ names[m] # NoInode => m = n

Numbered ==
    /\ \A p \in Processes : at[p] # "idle" => boot[p] \in 1..boots
    /\ \A p, q \in Processes : p # q /\ at[p] # "idle" /\ at[q] # "idle" => boot[p] # boot[q]

\* Nothing on disk is boot b's.
Unused(b) ==
    /\ names[staging(b)] = NoInode /\ names[backup(b)] = NoInode
    /\ \A n \in Names : names[n] # b

\* A number is unused until the boot that has it has generated.
Fresh ==
    /\ \A b \in 1..MaxBoots : b > boots => Unused(b)
    /\ \A p \in Processes : at[p] \in Unstaged => Unused(boot[p])

DiskInv == BootTypeOK /\ HeldIsOne /\ OneName /\ Numbered /\ Fresh
-----------------------------------------------------------------------------
\* Whose directory an rmtree of p's works on.
Condemned(p) ==
    CASE at[p] = "discard" -> Held(p)
      [] at[p] = "drop" -> target
      [] at[p] = "unstage" -> staging(boot[p])
      [] at[p] = "tidy" -> backup(boot[p])

OpenIsCondemned(p) ==
    open[p] # NoInode =>
        at[p] \in {"discard", "drop", "unstage", "tidy"} /\ open[p] = names[Condemned(p)]

\* What a lone boot knows of the disk at each point.
Looks(p) ==
    /\ at[p] \in Holding => exists(Held(p))
    /\ at[p] = "discard" => ~present(Held(p))
    /\ at[p] \in {"better", "drop", "restore"} => present(Held(p))
    /\ at[p] \in {"glob", "next", "inspect", "discard", "better", "drop", "generate", "target",
                 "aside"} =>
         ~present(target)
    /\ at[p] \in {"restore", "install", "rollback"} => ~exists(target)
    /\ at[p] = "aside" => exists(target)
    /\ at[p] \in {"target", "aside", "install"} =>
         names[staging(boot[p])] = boot[p] /\ files[boot[p]] = Tables
    /\ at[p] \in {"target", "aside"} => names[backup(boot[p])] = NoInode
    /\ at[p] \in Unstaged \cup {"target", "aside"} => ~moved[p]
    /\ at[p] = "rollback" => moved[p]
    /\ at[p] \in {"install", "rollback"} /\ moved[p] => exists(backup(boot[p]))
    /\ at[p] \in {"tidy", "returned"} => present(target)

Counted(p) ==
    /\ mishaps >= found[p].mishaps
    /\ at[p] \in {"rollback", "unstage", "raised"} => mishaps > found[p].mishaps

\* Where the directory is that p's boot found at the target.
Home(p) == IF at[p] \in {"install", "rollback"} /\ moved[p] THEN backup(boot[p]) ELSE target

\* Where no complete dataset is left, that directory is as it was found, until
\* a second failure.
Remembered(p) ==
    \/ Kept
    \/ mishaps > found[p].mishaps + 1
    \/ /\ names[Home(p)] = found[p].inode
       /\ exists(Home(p)) => files[names[Home(p)]] = found[p].tables

Lone(p) ==
    /\ \A q \in Processes \ {p} : at[q] = "idle"
    /\ OpenIsCondemned(p) /\ Looks(p) /\ Counted(p) /\ Remembered(p)

\* Only an rmtree has a directory open.
OnlyThere ==
    \A p \in Processes : open[p] # NoInode => at[p] \in {"discard", "drop", "unstage", "tidy"}

BootInv ==
    /\ DiskInv /\ OnlyThere
    /\ \A p \in Processes : alone[p] /\ at[p] # "idle" => Lone(p)
-----------------------------------------------------------------------------
\* Targets, stagings and backups are three kinds of names, numbered apart.
LEMMA NameShapes ==
    /\ target \in Names /\ Backups \subseteq Names
    /\ \A b \in 0..MaxBoots : backup(b) \in Backups
    /\ \A b \in 1..MaxBoots : staging(b) \in Names /\ backup(b) \in Backups
    /\ \A n \in Backups : n # target /\ \A b : n # staging(b)
    /\ \A b : staging(b) # target
    /\ \A b, c : /\ staging(b) = staging(c) => b = c
                 /\ backup(b) = backup(c) => b = c
                 /\ staging(b) # backup(c)
<1>1. MaxBoots \in Nat
  BY BootstrapAssumption
<1>2. \A b, c : /\ staging(b) = staging(c) => b = c
                /\ backup(b) = backup(c) => b = c
                /\ staging(b) # backup(c) /\ staging(b) # target /\ backup(b) # target
  BY DEF staging, backup, target
<1>3. \A b \in 1..MaxBoots : b \in 0..MaxBoots
  BY <1>1
<1> QED
  BY <1>1, <1>2, <1>3 DEF Names, Backups

\* What a boot looks at is one backup.
LEMMA HeldIsABackup ==
    ASSUME HeldIsOne, NEW p \in Processes, at[p] \in Holding
    PROVE  Held(p) \in Backups /\ held[p] = {Held(p)}
  BY DEF HeldIsOne, Held

\* A step that gives no path an inode and begins no boot.
LEMMA NothingNamed ==
    ASSUME DiskInv, UNCHANGED <<boots, boot>>,
           \A n \in Names : names'[n] = names[n] \/ names'[n] = NoInode,
           \A p \in Processes : /\ at'[p] # "idle" => at[p] # "idle"
                                /\ at'[p] \in Unstaged => at[p] \in Unstaged
    PROVE  (OneName /\ Numbered /\ Fresh)'
<1>1. OneName'
  BY DEF DiskInv, OneName
<1>2. Numbered'
  BY DEF DiskInv, Numbered
<1>3. \A b \in 1..MaxBoots : Unused(b) => Unused(b)'
  <2> SUFFICES ASSUME NEW b \in 1..MaxBoots, Unused(b)
               PROVE  Unused(b)'
    OBVIOUS
  <2>1. staging(b) \in Names /\ backup(b) \in Names /\ b # NoInode
    BY NameShapes, BootstrapAssumption DEF NoInode
  <2> QED
    BY <2>1 DEF Unused, NoInode, staging, backup
<1>4. \A p \in Processes : at[p] \in Unstaged => boot[p] \in 1..MaxBoots
  BY BootstrapAssumption DEF DiskInv, BootTypeOK, Numbered, Unstaged
<1> QED
  BY <1>1, <1>2, <1>3, <1>4 DEF DiskInv, Fresh

\* A rename onto a path that is not of an unused number.
LEMMA Renamed ==
    ASSUME DiskInv, UNCHANGED <<boots, boot>>,
           NEW src \in Names, NEW dst \in Names, src # dst, exists(src),
           names' = [names EXCEPT ![src] = NoInode, ![dst] = names[src]],
           \A b \in 1..MaxBoots :
              (b > boots \/ \E p \in Processes : at[p] \in Unstaged /\ boot[p] = b) =>
                  dst # staging(b) /\ dst # backup(b),
           \A p \in Processes : /\ at'[p] # "idle" => at[p] # "idle"
                                /\ at'[p] \in Unstaged => at[p] \in Unstaged
    PROVE  (OneName /\ Numbered /\ Fresh)'
<1>1. OneName'
  BY DEF DiskInv, BootTypeOK, OneName, NoInode
<1>2. Numbered'
  BY DEF DiskInv, Numbered
<1>3. \A b \in 1..MaxBoots : Unused(b) /\ dst # staging(b) /\ dst # backup(b) => Unused(b)'
  <2> SUFFICES ASSUME NEW b \in 1..MaxBoots, Unused(b), dst # staging(b), dst # backup(b)
               PROVE  Unused(b)'
    OBVIOUS
  <2>1. staging(b) \in Names /\ backup(b) \in Names /\ b # NoInode
    BY NameShapes, BootstrapAssumption DEF NoInode
  <2>2. \A n \in Names : names'[n] = IF n = dst THEN names[src]
                                  ELSE IF n = src THEN NoInode ELSE names[n]
    BY DEF DiskInv, BootTypeOK
  <2> QED
    BY <2>1, <2>2 DEF Unused, NoInode, staging, backup
<1>4. \A p \in Processes : at[p] \in Unstaged => boot[p] \in 1..MaxBoots
  BY BootstrapAssumption DEF DiskInv, BootTypeOK, Numbered, Unstaged
<1> QED
  BY <1>1, <1>2, <1>3, <1>4 DEF DiskInv, Fresh

\* An rmtree: a directory is opened, a file goes, or the path does.
LEMMA RmtreeType ==
    ASSUME DiskInv, NEW p \in Processes, NEW from, NEW path \in Names, NEW to \in Points,
           Rmtree(p, from, path, to)
    PROVE  /\ BootTypeOK'
           /\ at[p] = from /\ UNCHANGED locals /\ SameBoot
           /\ at' = at \/ at' = [at EXCEPT ![p] = to]
           /\ \A n \in Names : names'[n] = names[n] \/ names'[n] = NoInode
<1>1. BootTypeOK /\ at[p] = from /\ UNCHANGED locals /\ SameBoot
  BY DEF DiskInv, Rmtree
<1>2. CASE /\ open[p] = NoInode /\ exists(path)
           /\ open' = [open EXCEPT ![p] = names[path]]
           /\ UNCHANGED <<names, files, at>>
  BY <1>1, <1>2 DEF BootTypeOK, locals, SameBoot
<1>3. CASE /\ open[p] # NoInode
           /\ \E f \in files[open[p]] : files' = [files EXCEPT ![open[p]] = @ \ {f}]
           /\ UNCHANGED <<names, at, open>>
  BY <1>1, <1>3 DEF BootTypeOK, locals, SameBoot
<1>4. CASE /\ at' = [at EXCEPT ![p] = to]
           /\ open' = [open EXCEPT ![p] = NoInode]
           /\ names' = IF exists(path) /\ files[names[path]] = {}
                      THEN [names EXCEPT ![path] = NoInode] ELSE names
           /\ UNCHANGED files
  BY <1>1, <1>4 DEF BootTypeOK, locals, SameBoot
<1> QED
  BY <1>1, <1>2, <1>3, <1>4 DEF Rmtree

\* Every step keeps the types, and the one backup a boot looks at.
LEMMA StepType ==
    ASSUME DiskInv, NEW p \in Processes, Start(p) \/ Step(p) \/ Fault(p)
    PROVE  BootTypeOK' /\ HeldIsOne'
<1> USE DEF Goto, NoFileChange, SameBoot, locals
<1>0. BootTypeOK /\ HeldIsOne /\ Numbered /\ MaxBoots \in Nat
  BY BootstrapAssumption DEF DiskInv
<1>a. at[p] # "idle" => boot[p] \in 1..MaxBoots /\ boot[p] \in Inodes
                        /\ staging(boot[p]) \in Names /\ backup(boot[p]) \in Names
  <2>1. at[p] # "idle" => boot[p] \in 1..MaxBoots
    BY <1>0 DEF BootTypeOK, Numbered
  <2> QED
    BY <1>0, <2>1, NameShapes DEF Inodes
<1>b. at[p] \in Holding => Held(p) \in Backups /\ Held(p) \in Names
  BY <1>0, HeldIsABackup, NameShapes
<1>c. target \in Names
  BY NameShapes
<1>d. \A m \in Nat : m < MaxMishaps => m + 1 \in Nat
  OBVIOUS
<1>1. CASE Start(p)
  <2>1. boots + 1 \in 0..MaxBoots
    BY <1>0, <1>1 DEF Start, BootTypeOK
  <2>2. [inode |-> names[target], mishaps |-> mishaps,
         tables |-> IF exists(target) THEN files[names[target]] ELSE {}]
           \in [inode : Inodes \cup {NoInode}, tables : SUBSET Tables, mishaps : Nat]
    BY <1>0, <1>c DEF BootTypeOK, exists
  <2>3. HeldIsOne'
    BY <1>0, <1>1 DEF Start, HeldIsOne, Holding, BootTypeOK
  <2> QED
    BY <1>0, <1>1, <2>1, <2>2, <2>3 DEF Start, BootTypeOK, Points
<1>2. CASE RecoverCheck(p)
  BY <1>0, <1>2 DEF RecoverCheck, BootTypeOK, HeldIsOne, Points, Holding
<1>3. CASE Glob(p)
  BY <1>0, <1>3 DEF Glob, BootTypeOK, HeldIsOne, Points, Holding
<1>4. CASE NextBackup(p)
  <2>1. CASE at' = [at EXCEPT ![p] = "check"] /\ UNCHANGED <<todo, held>>
    BY <1>0, <1>4, <2>1 DEF NextBackup, BootTypeOK, HeldIsOne, Points, Holding
  <2>2. ASSUME NEW n \in todo[p],
               at' = [at EXCEPT ![p] = IF exists(n) THEN "inspect" ELSE "next"],
               todo' = [todo EXCEPT ![p] = @ \ {n}],
               held' = [held EXCEPT ![p] = IF exists(n) THEN {n} ELSE {}]
        PROVE  BootTypeOK' /\ HeldIsOne'
    <3>1. n \in Backups
      BY <1>0, <2>2 DEF BootTypeOK
    <3>2. BootTypeOK'
      <4>1. /\ (IF exists(n) THEN "inspect" ELSE "next") \in Points
            /\ (IF exists(n) THEN {n} ELSE {}) \in SUBSET Backups
            /\ todo[p] \ {n} \in SUBSET Backups
        BY <1>0, <3>1 DEF Points, BootTypeOK
      <4>2. UNCHANGED <<names, files, open, boot, moved, boots, mishaps, alone, found>>
        BY <1>4 DEF NextBackup
      <4> QED
        BY <1>0, <2>2, <4>1, <4>2 DEF BootTypeOK
    <3>3. HeldIsOne'
      BY <1>0, <1>4, <2>2, <3>1 DEF NextBackup, HeldIsOne, Holding, BootTypeOK
    <3> QED
      BY <3>2, <3>3
  <2> QED
    BY <1>4, <2>1, <2>2 DEF NextBackup
<1>5. CASE Inspect(p)
  BY <1>0, <1>5 DEF Inspect, BootTypeOK, HeldIsOne, Points, Holding
<1>6. CASE TargetInTheWay(p)
  BY <1>0, <1>6 DEF TargetInTheWay, BootTypeOK, HeldIsOne, Points, Holding
<1>7. CASE Restore(p)
  <2>1. Held(p) \in Names
    BY <1>b, <1>7 DEF Restore, Holding
  <2>2. names' \in [Names -> Inodes \cup {NoInode}]
    BY <1>0, <1>c, <1>7, <2>1 DEF Restore, Replace, BootTypeOK
  <2>3. UNCHANGED <<files, open, boot, todo, held, moved, boots, mishaps, alone, found>>
        /\ (at' = [at EXCEPT ![p] = "check"] \/ at' = [at EXCEPT ![p] = "raised"])
    BY <1>7 DEF Restore
  <2> QED
    BY <1>0, <2>2, <2>3 DEF BootTypeOK, HeldIsOne, Points, Holding
<1>8. CASE RestoreFails(p)
  BY <1>0, <1>8 DEF RestoreFails, Mishap, BootTypeOK, HeldIsOne, Points, Holding
<1>9. CASE Check(p)
  BY <1>0, <1>9 DEF Check, BootTypeOK, HeldIsOne, Points, Holding
<1>10. CASE Generate(p)
  <2>1. boot[p] \in Inodes /\ staging(boot[p]) \in Names
    BY <1>a, <1>10 DEF Generate
  <2>2. names' \in [Names -> Inodes \cup {NoInode}] /\ files' \in [Inodes -> SUBSET Tables]
    BY <1>0, <1>10, <2>1 DEF Generate, BootTypeOK
  <2>3. UNCHANGED <<open, boot, todo, held, moved, boots, mishaps, alone, found>>
        /\ at' = [at EXCEPT ![p] = "target"]
    BY <1>10 DEF Generate
  <2> QED
    BY <1>0, <2>2, <2>3 DEF BootTypeOK, HeldIsOne, Points, Holding
<1>11. CASE GenerateFails(p)
  BY <1>0, <1>11 DEF GenerateFails, Mishap, BootTypeOK, HeldIsOne, Points, Holding
<1>12. CASE TargetExists(p)
  BY <1>0, <1>12 DEF TargetExists, BootTypeOK, HeldIsOne, Points, Holding
<1>13. CASE MoveAside(p)
  <2>1. backup(boot[p]) \in Names
    BY <1>a, <1>13 DEF MoveAside
  <2>2. /\ names' \in [Names -> Inodes \cup {NoInode}]
        /\ moved' \in [Processes -> BOOLEAN]
    BY <1>0, <1>c, <1>13, <2>1 DEF MoveAside, Replace, BootTypeOK
  <2>3. UNCHANGED <<files, open, boot, todo, held, boots, mishaps, alone, found>>
        /\ (at' = [at EXCEPT ![p] = "install"] \/ at' = [at EXCEPT ![p] = "unstage"])
    BY <1>13 DEF MoveAside
  <2> QED
    BY <1>0, <2>2, <2>3 DEF BootTypeOK, HeldIsOne, Points, Holding
<1>14. CASE MoveAsideFails(p)
  BY SMTT(20), <1>0, <1>14 DEF MoveAsideFails, Mishap, BootTypeOK, HeldIsOne, Points, Holding
<1>15. CASE Install(p)
  <2>1. staging(boot[p]) \in Names
    BY <1>a, <1>15 DEF Install
  <2>2. names' \in [Names -> Inodes \cup {NoInode}]
    BY <1>0, <1>c, <1>15, <2>1 DEF Install, Replace, BootTypeOK
  <2>3. /\ UNCHANGED <<files, open, boot, todo, held, moved, boots, mishaps, alone, found>>
        /\ \E to \in {"tidy", "returned", "rollback", "unstage"} : at' = [at EXCEPT ![p] = to]
    BY <1>15 DEF Install, OnInstallFailure
  <2> QED
    BY <1>0, <2>2, <2>3 DEF BootTypeOK, HeldIsOne, Points, Holding
<1>16. CASE InstallFails(p)
  BY <1>0, <1>16 DEF InstallFails, OnInstallFailure, Mishap, BootTypeOK, HeldIsOne, Points, Holding
<1>17. CASE Rollback(p)
  <2>1. backup(boot[p]) \in Names
    BY <1>a, <1>17 DEF Rollback
  <2>2. names' \in [Names -> Inodes \cup {NoInode}]
    BY <1>0, <1>c, <1>17, <2>1 DEF Rollback, Replace, BootTypeOK
  <2>3. UNCHANGED <<files, open, boot, todo, held, moved, boots, mishaps, alone, found>>
        /\ (at' = [at EXCEPT ![p] = "unstage"] \/ at' = [at EXCEPT ![p] = "raised"])
    BY <1>17 DEF Rollback
  <2> QED
    BY <1>0, <2>2, <2>3 DEF BootTypeOK, HeldIsOne, Points, Holding
<1>18. CASE RollbackFails(p)
  BY <1>0, <1>18 DEF RollbackFails, Mishap, BootTypeOK, HeldIsOne, Points, Holding
<1>19. CASE Exit(p)
  BY <1>0, <1>19 DEF Exit, BootTypeOK, HeldIsOne, Points, Holding
<1>20. CASE Kill(p)
  BY <1>0, <1>20 DEF Kill, Mishap, BootTypeOK, HeldIsOne, Points, Holding, NoInode
<1>21. CASE Discard(p) \/ DropTarget(p) \/ Unstage(p) \/ Tidy(p)
  <2>1. PICK path \in Names, from \in Points, to \in {"next", "restore", "raised", "returned"} :
           Rmtree(p, from, path, to) /\ (to = "restore" => from = "drop")
    <3>1. Discard(p) => at[p] = "discard"
      BY DEF Discard, Rmtree
    <3>2. Unstage(p) => at[p] = "unstage"
      BY DEF Unstage, Rmtree
    <3>3. Tidy(p) => at[p] = "tidy"
      BY DEF Tidy, Rmtree
    <3>4. CASE Discard(p)
      BY <1>b, <3>1, <3>4 DEF Discard, Holding, Points
    <3>5. CASE DropTarget(p)
      BY <1>c, <3>5 DEF DropTarget, Points
    <3>6. CASE Unstage(p)
      BY <1>a, <3>2, <3>6 DEF Unstage, Points
    <3>7. CASE Tidy(p)
      BY <1>a, <3>3, <3>7 DEF Tidy, Points
    <3> QED
      BY <1>21, <3>4, <3>5, <3>6, <3>7
  <2>2. /\ BootTypeOK'
        /\ at[p] = from /\ UNCHANGED held
        /\ at' = at \/ at' = [at EXCEPT ![p] = to]
    BY <2>1, RmtreeType DEF Points
  <2>3. HeldIsOne'
    BY <1>0, <2>1, <2>2 DEF HeldIsOne, Holding, BootTypeOK
  <2> QED
    BY <2>2, <2>3
<1> QED
  BY <1>1, <1>2, <1>3, <1>4, <1>5, <1>6, <1>7, <1>8, <1>9, <1>10, <1>11, <1>12, <1>13,
     <1>14, <1>15, <1>16, <1>17, <1>18, <1>19, <1>20, <1>21 DEF Step, Fault

\* A step that renames one directory, or gives up renaming it.
LEMMA RenameStep ==
    ASSUME DiskInv, UNCHANGED <<boots, boot>>,
           NEW p \in Processes, at[p] # "idle",
           NEW src \in Names, NEW dst \in Names, src # dst,
           dst = target \/ (at[p] \notin Unstaged /\ dst = backup(boot[p])),
           NEW to, at' = [at EXCEPT ![p] = to], to \in Unstaged => at[p] \in Unstaged,
           UNCHANGED names \/ (CanReplace(src, dst) /\ Replace(src, dst))
    PROVE  (OneName /\ Numbered /\ Fresh)'
<1>1. \A q \in Processes : /\ at'[q] # "idle" => at[q] # "idle"
                           /\ at'[q] \in Unstaged => at[q] \in Unstaged
  BY DEF DiskInv, BootTypeOK
<1>2. CASE UNCHANGED names
  BY <1>1, <1>2, NothingNamed
<1>3. CASE CanReplace(src, dst) /\ Replace(src, dst)
  <2>1. boot[p] \in Nat /\ boots \in Nat /\ ~(boot[p] > boots)
    BY BootstrapAssumption DEF DiskInv, BootTypeOK, Numbered
  <2>2. at[p] \notin Unstaged => ~\E q \in Processes : at[q] \in Unstaged /\ boot[q] = boot[p]
    BY DEF DiskInv, Numbered, Unstaged
  <2>3. \A b \in 1..MaxBoots :
           (b > boots \/ \E q \in Processes : at[q] \in Unstaged /\ boot[q] = b) =>
               dst # staging(b) /\ dst # backup(b)
    <3>1. \A b, c : /\ staging(b) # target /\ staging(b) # backup(c)
                    /\ backup(b) = backup(c) => b = c
      BY NameShapes
    <3>2. \A b \in 1..MaxBoots : backup(b) # target
      BY NameShapes
    <3> QED
      BY <2>1, <2>2, <3>1, <3>2
  <2> QED
    BY <1>1, <1>3, <2>3, Renamed DEF CanReplace, Replace
<1> QED
  BY <1>2, <1>3

\* Every step of any boot keeps what is invariant of the disk.
LEMMA StepDisk ==
    ASSUME DiskInv, NEW p \in Processes, Start(p) \/ Step(p) \/ Fault(p)
    PROVE  DiskInv'
<1> USE DEF Goto, NoFileChange, SameBoot, locals
<1>0. BootTypeOK /\ HeldIsOne /\ Numbered /\ OneName /\ Fresh /\ MaxBoots \in Nat
  BY BootstrapAssumption DEF DiskInv
<1>t. BootTypeOK' /\ HeldIsOne'
  BY StepType
<1>a. at[p] # "idle" => boot[p] \in 1..MaxBoots /\ boot[p] \in Inodes
                        /\ staging(boot[p]) \in Names /\ backup(boot[p]) \in Names
  <2>1. at[p] # "idle" => boot[p] \in 1..MaxBoots
    BY <1>0 DEF BootTypeOK, Numbered
  <2> QED
    BY <1>0, <2>1, NameShapes DEF Inodes
<1>b. at[p] \in Holding => Held(p) \in Backups /\ Held(p) \in Names
  BY <1>0, HeldIsABackup, NameShapes
<1>c. target \in Names /\ target \notin Backups
      /\ (\A b : staging(b) # target) /\ \A b \in 1..MaxBoots : backup(b) # target
  BY NameShapes
<1> SUFFICES (OneName /\ Numbered /\ Fresh)'
  BY <1>t DEF DiskInv
<1>1. CASE Start(p)
  <2>1. /\ boots' = boots + 1 /\ boot' = [boot EXCEPT ![p] = boots + 1]
        /\ at' = [at EXCEPT ![p] = "recover"] /\ at[p] = "idle" /\ UNCHANGED names
        /\ boots < MaxBoots
    BY <1>1 DEF Start
  <2>2. boots \in Nat /\ boots + 1 \in 1..MaxBoots
    BY <1>0, <2>1 DEF BootTypeOK
  <2>3. \A b : Unused(b)' <=> Unused(b)
    BY <2>1 DEF Unused, staging, backup
  <2>4. Numbered'
    BY <1>0, <2>1, <2>2 DEF Numbered, BootTypeOK
  <2>5. Fresh'
    <3>1. ASSUME NEW b \in 1..MaxBoots, b > boots' PROVE Unused(b)'
      BY <1>0, <2>1, <2>2, <2>3, <3>1 DEF Fresh
    <3>2. ASSUME NEW q \in Processes, at'[q] \in Unstaged PROVE Unused(boot[q])'
      <4>1. PICK b \in 1..MaxBoots : boot'[q] = b /\ Unused(b)
        <5>1. CASE q = p
          <6>1. boot'[q] = boots + 1 /\ boots + 1 > boots
            BY <1>0, <2>1, <2>2, <5>1 DEF BootTypeOK
          <6> QED
            BY <1>0, <2>2, <6>1 DEF Fresh
        <5>2. CASE q # p
          <6>1. boot'[q] = boot[q] /\ at[q] \in Unstaged
            BY <1>0, <2>1, <3>2, <5>2 DEF BootTypeOK
          <6>2. boot[q] \in 1..MaxBoots
            BY <1>0, <6>1 DEF Numbered, Unstaged, BootTypeOK
          <6> QED
            BY <1>0, <6>1, <6>2 DEF Fresh
        <5> QED
          BY <5>1, <5>2
      <4>2. Unused(b)'
        BY <2>3, <4>1
      <4> QED
        BY <4>1, <4>2 DEF Unused
    <3> QED
      BY <3>1, <3>2 DEF Fresh
  <2>6. OneName'
    BY <1>0, <2>1 DEF OneName
  <2> QED
    BY <2>4, <2>5, <2>6
<1>2. CASE Restore(p)
  <2>1. /\ at[p] = "restore" /\ Held(p) \in Names /\ Held(p) # target
        /\ UNCHANGED <<boots, boot>>
        /\ UNCHANGED names \/ (CanReplace(Held(p), target) /\ Replace(Held(p), target))
        /\ at' = [at EXCEPT ![p] = "check"] \/ at' = [at EXCEPT ![p] = "raised"]
    BY <1>b, <1>c, <1>2 DEF Restore, Holding
  <2> QED
    BY <1>c, <2>1, RenameStep DEF Unstaged
<1>3. CASE Generate(p)
  <2>1. /\ at[p] = "generate" /\ at' = [at EXCEPT ![p] = "target"] /\ UNCHANGED <<boots, boot>>
        /\ names' = [names EXCEPT ![staging(boot[p])] = boot[p]]
    BY <1>3 DEF Generate
  <2>2. Unused(boot[p]) /\ staging(boot[p]) \in Names /\ boot[p] \in 1..boots
    BY <1>0, <1>a, <2>1 DEF Fresh, Unstaged, Numbered
  <2>3. \A n \in Names : names'[n] = IF n = staging(boot[p]) THEN boot[p] ELSE names[n]
    BY <1>0, <2>1 DEF BootTypeOK
  <2>4. OneName'
    BY <1>0, <2>2, <2>3 DEF OneName, Unused
  <2>5. Numbered'
    BY <1>0, <2>1 DEF Numbered, BootTypeOK
  <2>6. ASSUME NEW b \in 1..MaxBoots, b # boot[p], Unused(b) PROVE Unused(b)'
    <3>1. staging(b) \in Names /\ backup(b) \in Names /\ staging(b) # staging(boot[p])
          /\ backup(b) # staging(boot[p])
      BY <2>6, NameShapes
    <3>2. names'[staging(b)] = NoInode /\ names'[backup(b)] = NoInode
          /\ \A n \in Names : names'[n] # b
      BY <2>3, <2>6, <3>1 DEF Unused
    <3> QED
      BY <3>2 DEF Unused, staging, backup
  <2>7. ASSUME NEW b \in 1..MaxBoots, b > boots' PROVE Unused(b)'
    <3>1. b # boot[p] /\ b > boots
      BY <1>0, <2>1, <2>2, <2>7 DEF BootTypeOK
    <3> QED
      BY <1>0, <2>6, <3>1 DEF Fresh
  <2>8. ASSUME NEW q \in Processes, at'[q] \in Unstaged PROVE Unused(boot[q])'
    <3>1. q # p /\ at[q] \in Unstaged
      BY <1>0, <2>1, <2>8 DEF BootTypeOK, Unstaged
    <3>2. boot[q] # boot[p] /\ boot[q] \in 1..MaxBoots /\ Unused(boot[q])
      BY <1>0, <2>1, <3>1 DEF Numbered, Unstaged, Fresh, BootTypeOK
    <3>3. PICK b \in 1..MaxBoots : boot'[q] = b /\ Unused(b)'
      BY <2>1, <2>6, <3>2
    <3> QED
      BY <3>3 DEF Unused
  <2> QED
    BY <2>1, <2>4, <2>5, <2>7, <2>8 DEF Fresh
<1>4. CASE MoveAside(p)
  <2>1. /\ at[p] = "aside" /\ UNCHANGED <<boots, boot>>
        /\ \/ UNCHANGED names
           \/ CanReplace(target, backup(boot[p])) /\ Replace(target, backup(boot[p]))
        /\ at' = [at EXCEPT ![p] = "install"] \/ at' = [at EXCEPT ![p] = "unstage"]
    BY <1>4 DEF MoveAside
  <2>2. backup(boot[p]) \in Names /\ backup(boot[p]) # target
    BY <1>a, <1>c, <2>1
  <2> QED
    BY <1>c, <2>1, <2>2, RenameStep DEF Unstaged
<1>5. CASE Install(p)
  <2>1. /\ at[p] = "install" /\ UNCHANGED <<boots, boot>>
        /\ \/ UNCHANGED names
           \/ CanReplace(staging(boot[p]), target) /\ Replace(staging(boot[p]), target)
        /\ \E to \in {"tidy", "returned", "rollback", "unstage"} : at' = [at EXCEPT ![p] = to]
    BY <1>5 DEF Install, OnInstallFailure
  <2>2. staging(boot[p]) \in Names /\ staging(boot[p]) # target
    BY <1>a, <1>c, <2>1
  <2> QED
    BY <1>c, <2>1, <2>2, RenameStep DEF Unstaged
<1>6. CASE Rollback(p)
  <2>1. /\ at[p] = "rollback" /\ UNCHANGED <<boots, boot>>
        /\ \/ UNCHANGED names
           \/ CanReplace(backup(boot[p]), target) /\ Replace(backup(boot[p]), target)
        /\ at' = [at EXCEPT ![p] = "unstage"] \/ at' = [at EXCEPT ![p] = "raised"]
    BY <1>6 DEF Rollback
  <2>2. backup(boot[p]) \in Names /\ backup(boot[p]) # target
    BY <1>a, <1>c, <2>1
  <2> QED
    BY <1>c, <2>1, <2>2, RenameStep DEF Unstaged
<1>7. CASE Discard(p) \/ DropTarget(p) \/ Unstage(p) \/ Tidy(p)
  <2>1. PICK path \in Names, from \in Points, to \in Points :
           Rmtree(p, from, path, to) /\ from # "idle" /\ (to \in Unstaged => from \in Unstaged)
    <3>1. Discard(p) => at[p] = "discard"
      BY DEF Discard, Rmtree
    <3>2. Unstage(p) => at[p] = "unstage"
      BY DEF Unstage, Rmtree
    <3>3. Tidy(p) => at[p] = "tidy"
      BY DEF Tidy, Rmtree
    <3>4. CASE Discard(p)
      BY <1>b, <3>1, <3>4 DEF Discard, Holding, Points, Unstaged
    <3>5. CASE DropTarget(p)
      BY <1>c, <3>5 DEF DropTarget, Points, Unstaged
    <3>6. CASE Unstage(p)
      BY <1>a, <3>2, <3>6 DEF Unstage, Points, Unstaged
    <3>7. CASE Tidy(p)
      BY <1>a, <3>3, <3>7 DEF Tidy, Points, Unstaged
    <3> QED
      BY <1>7, <3>4, <3>5, <3>6, <3>7
  <2>2. /\ at[p] = from /\ UNCHANGED <<boots, boot>>
        /\ at' = at \/ at' = [at EXCEPT ![p] = to]
        /\ \A n \in Names : names'[n] = names[n] \/ names'[n] = NoInode
    BY <2>1, RmtreeType
  <2>3. \A q \in Processes : /\ at'[q] # "idle" => at[q] # "idle"
                             /\ at'[q] \in Unstaged => at[q] \in Unstaged
    BY <1>0, <2>1, <2>2 DEF BootTypeOK
  <2> QED
    BY <2>2, <2>3, NothingNamed
<1>8. CASE /\ UNCHANGED <<names, boots, boot>> /\ at[p] # "idle"
           /\ \E to : at' = [at EXCEPT ![p] = to] /\ (to \in Unstaged => at[p] \in Unstaged)
  <2>1. \A q \in Processes : /\ at'[q] # "idle" => at[q] # "idle"
                             /\ at'[q] \in Unstaged => at[q] \in Unstaged
    BY <1>0, <1>8 DEF BootTypeOK
  <2> QED
    BY <1>8, <2>1, NothingNamed
<1>9. CASE \/ RecoverCheck(p) \/ Glob(p) \/ Inspect(p) \/ TargetInTheWay(p)
           \/ Check(p) \/ TargetExists(p)
  BY <1>8, <1>9 DEF RecoverCheck, Glob, Inspect, TargetInTheWay, Check, TargetExists, Unstaged
<1>10. CASE NextBackup(p)
  <2>1. /\ at[p] = "next" /\ UNCHANGED <<names, boots, boot>>
        /\ \E to \in {"check", "inspect", "next"} : at' = [at EXCEPT ![p] = to]
    BY <1>10 DEF NextBackup
  <2> QED
    BY <1>8, <2>1 DEF Unstaged
<1>11. CASE \/ RestoreFails(p) \/ GenerateFails(p) \/ MoveAsideFails(p)
            \/ InstallFails(p) \/ RollbackFails(p)
  BY <1>8, <1>11 DEF RestoreFails, GenerateFails, MoveAsideFails, InstallFails, OnInstallFailure,
                     RollbackFails, Unstaged
<1>12. CASE Exit(p) \/ Kill(p)
  BY <1>8, <1>12 DEF Exit, Kill, Unstaged
<1> QED
  BY <1>1, <1>2, <1>3, <1>4, <1>5, <1>6, <1>7, <1>9, <1>10, <1>11, <1>12 DEF Step, Fault
-----------------------------------------------------------------------------
\* What an rmtree does to its own path and to the others.
RmtreeEffect(p, from, path, to) ==
    /\ at[p] = from /\ (at'[p] = from \/ at'[p] = to)
    /\ \A q \in Processes \ {p} : at'[q] = at[q]
    /\ \A n \in Names \ {path} : /\ names'[n] = names[n]
                                 /\ exists(n) => files'[names[n]] = files[names[n]]
    /\ ~present(path) => ~(names'[path] # NoInode /\ files'[names'[path]] = Tables)
    /\ at'[p] = to => open'[p] = NoInode /\ names'[path] = NoInode
    /\ at'[p] = from => /\ names' = names
                        /\ open'[p] # NoInode => open'[p] = names[path]

\* It does it where no other process has renamed what it has open.
LEMMA RmtreeAlone ==
    ASSUME DiskInv, NEW p \in Processes, NEW path \in Names,
           NEW from \in Points, NEW to \in Points, from # to,
           open[p] # NoInode => open[p] = names[path],
           Rmtree(p, from, path, to)
    PROVE  RmtreeEffect(p, from, path, to)
<1> USE DEF RmtreeEffect
<1>1. BootTypeOK /\ OneName /\ at[p] = from /\ \A i \in Inodes : i # NoInode
  BY BootstrapAssumption DEF DiskInv, Rmtree, Inodes, NoInode
<1>2. CASE /\ open[p] = NoInode /\ exists(path)
           /\ open' = [open EXCEPT ![p] = names[path]]
           /\ UNCHANGED <<names, files, at>>
  BY <1>1, <1>2 DEF BootTypeOK, present, exists
<1>3. CASE /\ open[p] # NoInode
           /\ \E f \in files[open[p]] : files' = [files EXCEPT ![open[p]] = @ \ {f}]
           /\ UNCHANGED <<names, at, open>>
  <2>1. open[p] = names[path] /\ open[p] \in Inodes
    BY <1>1, <1>3 DEF BootTypeOK
  <2>2. PICK f \in files[open[p]] : files' = [files EXCEPT ![open[p]] = @ \ {f}]
    BY <1>3
  <2>3. files'[names[path]] # Tables
    BY <1>1, <2>1, <2>2 DEF BootTypeOK
  <2>4. \A n \in Names \ {path} : exists(n) => files'[names[n]] = files[names[n]]
    BY <1>1, <2>1, <2>2 DEF BootTypeOK, OneName, exists
  <2> QED
    BY <1>1, <1>3, <2>1, <2>3, <2>4
<1>4. CASE /\ IF open[p] = NoInode THEN ~exists(path) ELSE files[open[p]] = {}
           /\ at' = [at EXCEPT ![p] = to]
           /\ open' = [open EXCEPT ![p] = NoInode]
           /\ names' = IF exists(path) /\ files[names[path]] = {}
                      THEN [names EXCEPT ![path] = NoInode] ELSE names
           /\ UNCHANGED files
  BY <1>1, <1>4 DEF BootTypeOK, exists
<1> QED
  BY <1>2, <1>3, <1>4 DEF Rmtree

\* A complete dataset that a step leaves in place is still one.
LEMMA StaysPresent ==
    ASSUME NEW n \in Names, present(n), names'[n] = names[n],
           exists(n) => files'[names[n]] = files[names[n]]
    PROVE  present(n)'
  BY DEF present, exists, target, backup, staging

\* A complete dataset at a name a boot looks at is a kept one.
LEMMA StaysKept ==
    ASSUME NEW n \in Backups \cup {target}, present(n)'
    PROVE  Kept'
  BY DEF Kept, Backups, target, backup

\* The rmtree of a lone boot.
LEMMA LoneRmtree ==
    ASSUME BootInv, NEW p \in Processes, alone[p],
           Discard(p) \/ DropTarget(p) \/ Unstage(p) \/ Tidy(p)
    PROVE  /\ present(target) => Untouched(target)
           /\ Kept => Kept'
           /\ Lone(p)'
<1> DEFINE path == Condemned(p)
<1>1. PICK from \in Points, to \in Points :
           /\ Rmtree(p, from, path, to) /\ at[p] = from
           /\ \/ from = "discard" /\ to = "next" /\ path = Held(p)
              \/ from = "drop" /\ to = "restore" /\ path = target
              \/ from = "unstage" /\ to = "raised" /\ path = staging(boot[p])
              \/ from = "tidy" /\ to = "returned" /\ path = backup(boot[p])
  <2>1. Discard(p) => at[p] = "discard"
    BY DEF Discard, Rmtree
  <2>2. DropTarget(p) => at[p] = "drop"
    BY DEF DropTarget, Rmtree
  <2>3. Unstage(p) => at[p] = "unstage"
    BY DEF Unstage, Rmtree
  <2>4. Tidy(p) => at[p] = "tidy"
    BY DEF Tidy, Rmtree
  <2>5. CASE Discard(p)
    BY <2>1, <2>5 DEF Discard, Condemned, Points
  <2>6. CASE DropTarget(p)
    BY <2>2, <2>6 DEF DropTarget, Condemned, Points
  <2>7. CASE Unstage(p)
    BY <2>3, <2>7 DEF Unstage, Condemned, Points
  <2>8. CASE Tidy(p)
    BY <2>4, <2>8 DEF Tidy, Condemned, Points
  <2> QED
    BY <2>5, <2>6, <2>7, <2>8
<1>2. /\ DiskInv /\ BootTypeOK /\ HeldIsOne /\ Lone(p) /\ OpenIsCondemned(p) /\ Looks(p)
      /\ Counted(p) /\ Remembered(p) /\ at[p] # "idle" /\ MaxBoots \in Nat
  BY <1>1, BootstrapAssumption DEF BootInv, DiskInv, Lone
<1>3. boot[p] \in 1..MaxBoots
  BY <1>2 DEF DiskInv, BootTypeOK, Numbered
<1>4. /\ path \in Names /\ target \in Names
      /\ at[p] = "drop" <=> path = target
      /\ at[p] = "drop" => Held(p) \in Backups /\ Held(p) # target
      /\ at[p] = "discard" => Held(p) \in Backups
      /\ at[p] = "tidy" => path \in Backups
      /\ at[p] = "unstage" => path \notin Backups
  <2>1. at[p] \in {"discard", "drop"} => Held(p) \in Backups
    BY <1>2, HeldIsABackup DEF Holding
  <2> QED
    BY <1>1, <1>3, <2>1, NameShapes
<1> HIDE DEF path
<1>5. /\ UNCHANGED locals /\ SameBoot
  BY <1>1 DEF Rmtree
<1>6. from # to /\ (open[p] # NoInode => open[p] = names[path])
  BY <1>1, <1>2 DEF OpenIsCondemned, path
<1>7. /\ at'[p] = from \/ at'[p] = to
      /\ \A q \in Processes \ {p} : at'[q] = at[q]
      /\ \A n \in Names \ {path} : /\ names'[n] = names[n]
                                   /\ exists(n) => files'[names[n]] = files[names[n]]
      /\ ~present(path) => ~(names'[path] # NoInode /\ files'[names'[path]] = Tables)
      /\ at'[p] = to => open'[p] = NoInode /\ names'[path] = NoInode
      /\ at'[p] = from => /\ names' = names
                          /\ open'[p] # NoInode => open'[p] = names[path]
  <2>1. PICK h \in Names : h = path
    BY <1>4
  <2>2. Rmtree(p, from, h, to) /\ (open[p] # NoInode => open[p] = names[h])
    BY <1>1, <1>6, <2>1
  <2>3. RmtreeEffect(p, from, h, to)
    BY <1>2, <1>6, <2>2, RmtreeAlone
  <2> QED
    BY <2>1, <2>3 DEF RmtreeEffect
<1>8. Held(p)' = Held(p) /\ boot' = boot /\ moved' = moved /\ found' = found /\ mishaps' = mishaps
  BY <1>5 DEF locals, SameBoot, Held
<1>9. present(target) => Untouched(target)
  BY <1>1, <1>2, <1>4, <1>7 DEF Untouched, present, Looks
<1>10. Kept => Kept'
  <2> SUFFICES ASSUME Kept
               PROVE  Kept'
    OBVIOUS
  <2>1. PICK n \in Backups \cup {target} : present(n) /\ n # path
    <3>1. PICK n \in Backups \cup {target} : present(n)
      BY DEF Kept
    <3>2. CASE n # path
      BY <3>1, <3>2
    <3>3. CASE n = path
      <4>1. at[p] = "tidy"
        BY <1>1, <1>2, <1>4, <3>1, <3>3 DEF Looks
      <4> QED
        BY <1>2, <1>4, <4>1 DEF Looks
    <3> QED
      BY <3>2, <3>3
  <2>2. n \in Names
    BY <2>1, NameShapes
  <2> QED
    BY <1>7, <2>1, <2>2, StaysPresent, StaysKept
<1>11. OpenIsCondemned(p)'
  <2>1. CASE at'[p] = to
    BY <1>7, <2>1 DEF OpenIsCondemned
  <2>2. CASE at'[p] = from
    <3>1. Condemned(p)' = path
      BY <1>1, <1>8, <2>2 DEF Condemned, path, staging, backup, target
    <3> QED
      BY <1>1, <1>7, <2>2, <3>1 DEF OpenIsCondemned
  <2> QED
    BY <1>7, <2>1, <2>2
<1>12. Looks(p)'
  <2>0. \A n \in Names \ {path} : present(n)' <=> present(n)
    BY <1>7 DEF present, exists
  <2>1. CASE at[p] = "discard"
    <3>1. /\ path = Held(p) /\ path # target /\ ~present(path) /\ exists(path)
          /\ ~present(target) /\ ~moved[p]
      BY <1>1, <1>2, <1>4, <2>1, NameShapes DEF Looks, Holding, Unstaged
    <3>2. ~present(target)'
      BY <1>4, <2>0, <3>1
    <3>3. at'[p] = "discard" => exists(Held(p))' /\ ~present(Held(p))'
      <4>1. PICK h \in Names : h = path
        BY <1>4
      <4>2. Held(p)' = h /\ (at'[p] = "discard" => names'[h] # NoInode)
            /\ ~(names'[h] # NoInode /\ files'[names'[h]] = Tables)
        BY <1>1, <1>7, <1>8, <2>1, <3>1, <4>1 DEF exists
      <4> QED
        BY <4>2 DEF exists, present
    <3>4. at'[p] \in {"discard", "next"}
      BY <1>1, <1>7, <2>1
    <3> QED
      BY <1>8, <3>1, <3>2, <3>3, <3>4 DEF Looks, Holding, Unstaged
  <2>2. CASE at[p] = "drop"
    <3>1. path = target /\ ~present(target) /\ ~moved[p] /\ present(Held(p))
      BY <1>1, <1>2, <1>4, <2>2 DEF Looks, Unstaged
    <3>2. ~present(target)'
      BY <1>7, <3>1 DEF present, exists
    <3>3. exists(Held(p))' /\ present(Held(p))'
      <4>1. PICK h \in Names : h = Held(p) /\ h # path
        BY <1>4, <2>2, NameShapes
      <4>2. Held(p)' = h /\ present(h)'
        BY <1>8, <2>0, <3>1, <4>1
      <4> QED
        BY <4>2 DEF exists, present
    <3>4. at'[p] \in {"drop", "restore"} /\ (at'[p] = "restore" => ~exists(target)')
      BY <1>1, <1>7, <2>2, <3>1 DEF exists
    <3> QED
      BY <1>8, <3>1, <3>2, <3>3, <3>4 DEF Looks, Holding, Unstaged
  <2>3. CASE at[p] = "unstage"
    <3>1. at'[p] \in {"unstage", "raised"}
      BY <1>1, <1>7, <2>3
    <3> QED
      BY <3>1 DEF Looks, Holding, Unstaged
  <2>4. CASE at[p] = "tidy"
    <3>1. at'[p] \in {"tidy", "returned"} /\ present(target)'
      BY <1>1, <1>2, <1>4, <1>7, <2>0, <2>4 DEF Looks
    <3> QED
      BY <3>1 DEF Looks, Holding, Unstaged
  <2> QED
    BY <1>1, <2>1, <2>2, <2>3, <2>4
<1>13. Counted(p)'
  BY <1>1, <1>2, <1>7, <1>8 DEF Counted
<1>14. Remembered(p)'
  <2>1. Home(p) = target /\ Home(p)' = target
    BY <1>1, <1>7 DEF Home
  <2>2. CASE Kept \/ mishaps > found[p].mishaps + 1
    BY <1>8, <1>10, <2>2 DEF Remembered
  <2>3. CASE ~Kept /\ names[target] = found[p].inode
             /\ (exists(target) => files[names[target]] = found[p].tables)
    <3>1. path # target
      <4>1. at[p] # "drop"
        <5>1. at[p] = "drop" => present(Held(p)) /\ Held(p) \in Backups
          BY <1>2, <1>4 DEF Looks
        <5> QED
          BY <2>3, <5>1 DEF Kept
      <4> QED
        BY <1>4, <4>1
    <3>2. names'[target] = names[target]
          /\ (names'[target] # NoInode => files'[names'[target]] = found'[p].tables)
      BY <1>4, <1>7, <1>8, <2>3, <3>1 DEF exists
    <3> QED
      BY <1>8, <2>1, <2>3, <3>2 DEF Remembered, exists
  <2> QED
    BY <1>2, <2>1, <2>2, <2>3 DEF Remembered
<1> QED
  BY <1>2, <1>7, <1>9, <1>10, <1>11, <1>12, <1>13, <1>14 DEF Lone

\* What the invariant says of a lone boot, with the shapes of its names.
LEMMA LoneFacts ==
    ASSUME BootInv, NEW p \in Processes, alone[p], at[p] # "idle"
    PROVE  /\ DiskInv /\ BootTypeOK /\ HeldIsOne /\ OneName /\ Fresh
           /\ (\A q \in Processes \ {p} : at[q] = "idle")
           /\ OpenIsCondemned(p) /\ Looks(p) /\ Counted(p) /\ Remembered(p)
           /\ boot[p] \in 1..MaxBoots /\ boot[p] \in Inodes /\ boot[p] # NoInode
           /\ staging(boot[p]) \in Names /\ backup(boot[p]) \in Names /\ target \in Names
           /\ backup(boot[p]) \in Backups /\ backup(boot[p]) # target /\ staging(boot[p]) # target
           /\ staging(boot[p]) # backup(boot[p]) /\ staging(boot[p]) \notin Backups
           /\ \A q \in Processes : found[q].mishaps \in Nat
           /\ \A n \in Names : names[n] # NoInode => names[n] \in Inodes
<1>1. DiskInv /\ Lone(p) /\ MaxBoots \in Nat
  BY BootstrapAssumption DEF BootInv
<1>2. boot[p] \in 1..MaxBoots
  BY <1>1 DEF DiskInv, BootTypeOK, Numbered
<1>3. boot[p] \in Inodes /\ boot[p] # NoInode
  BY <1>1, <1>2 DEF Inodes, NoInode
<1> QED
  BY <1>1, <1>2, <1>3, NameShapes DEF DiskInv, BootTypeOK, Lone

\* A step of a lone boot that changes no directory.
LEMMA LoneQuiet ==
    ASSUME BootInv, NEW p \in Processes, alone[p], at[p] # "idle",
           at[p] \notin {"discard", "drop", "unstage", "tidy"},
           UNCHANGED <<names, files, open, found>>,
           NEW to \in Points, at' = [at EXCEPT ![p] = to],
           mishaps' = mishaps \/ mishaps' = mishaps + 1,
           to \in {"rollback", "unstage", "raised"} => mishaps' > found[p].mishaps,
           Home(p)' = Home(p) \/ mishaps' > found[p].mishaps + 1,
           Looks(p)'
    PROVE  Lone(p)'
<1>1. /\ BootTypeOK /\ OpenIsCondemned(p) /\ Counted(p) /\ Remembered(p)
      /\ (\A q \in Processes \ {p} : at[q] = "idle") /\ found[p].mishaps \in Nat
  BY LoneFacts
<1>2. at'[p] = to /\ \A q \in Processes \ {p} : at'[q] = "idle"
  BY <1>1 DEF BootTypeOK
<1>3. OpenIsCondemned(p)'
  BY <1>1 DEF OpenIsCondemned
<1>4. Counted(p)'
  BY <1>1, <1>2 DEF Counted, BootTypeOK
<1>5. Remembered(p)'
  <2>1. Kept => Kept'
    BY DEF Kept, present, exists
  <2>2. CASE Kept
    BY <2>1, <2>2 DEF Remembered
  <2>3. CASE mishaps' > found[p].mishaps + 1
    BY <2>3 DEF Remembered
  <2>4. CASE mishaps > found[p].mishaps + 1
    <3>1. mishaps' > found'[p].mishaps + 1
      BY <1>1, <2>4 DEF BootTypeOK
    <3> QED
      BY <3>1 DEF Remembered
  <2>5. CASE /\ names[Home(p)] = found[p].inode
             /\ exists(Home(p)) => files[names[Home(p)]] = found[p].tables
             /\ Home(p)' = Home(p)
    BY <2>5 DEF Remembered, exists
  <2> QED
    BY <1>1, <2>2, <2>3, <2>4, <2>5 DEF Remembered
<1> QED
  BY <1>2, <1>3, <1>4, <1>5 DEF Lone

\* What such a step finds out, and when it gives up.
LEMMA LoneLooks ==
    ASSUME BootInv, NEW p \in Processes, alone[p],
           \/ RecoverCheck(p) \/ Glob(p) \/ NextBackup(p) \/ Inspect(p) \/ TargetInTheWay(p)
           \/ Check(p) \/ TargetExists(p)
    PROVE  /\ UNCHANGED <<names, files>>
           /\ Lone(p)'
<1> USE DEF Goto, NoFileChange, SameBoot, locals
<1>1. at[p] # "idle" /\ at[p] \notin {"discard", "drop", "unstage", "tidy", "install", "rollback"}
  BY DEF RecoverCheck, Glob, NextBackup, Inspect, TargetInTheWay, Check, TargetExists
<1>2. BootTypeOK /\ HeldIsOne /\ Looks(p)
  BY <1>1, LoneFacts
<1>3. UNCHANGED <<names, files, open, found, mishaps, boot, moved>>
  BY DEF RecoverCheck, Glob, NextBackup, Inspect, TargetInTheWay, Check, TargetExists
<1>4. \A n : (present(n)' <=> present(n)) /\ (exists(n)' <=> exists(n))
  BY <1>3 DEF present, exists
<1>5. (present(target)' <=> present(target)) /\ (exists(target)' <=> exists(target))
  BY <1>4
<1>6. UNCHANGED held => Held(p)' = Held(p) /\ (present(Held(p))' <=> present(Held(p)))
                         /\ (exists(Held(p))' <=> exists(Held(p)))
  BY <1>3 DEF Held, present, exists
<1>7. ASSUME NEW to \in Points \ {"rollback", "unstage", "raised", "install"},
             at' = [at EXCEPT ![p] = to], Looks(p)'
      PROVE  Lone(p)'
  <2>1. at'[p] = to
    BY <1>2, <1>7 DEF BootTypeOK
  <2>2. Home(p)' = Home(p)
    BY <1>1, <1>7, <2>1 DEF Home
  <2> QED
    BY <1>1, <1>3, <1>7, <2>2, LoneQuiet
<1>9. boot' = boot /\ moved' = moved /\ names' = names /\ files' = files
  BY <1>3
<1>10. CASE RecoverCheck(p)
  <2>1. PICK to \in Points : at' = [at EXCEPT ![p] = to] /\ to \in {"check", "glob"}
                             /\ (to = "glob" => ~present(target))
    BY <1>10 DEF RecoverCheck, Points
  <2>2. at'[p] = to /\ ~moved'[p]
    BY <1>2, <1>9, <1>10, <2>1 DEF BootTypeOK, Looks, Unstaged, RecoverCheck
  <2>3. Looks(p)'
    BY <1>5, <2>1, <2>2 DEF Looks, Holding, Unstaged
  <2> QED
    BY <1>3, <1>7, <2>1, <2>3
<1>11. CASE Glob(p)
  <2>1. /\ at' = [at EXCEPT ![p] = "next"]
        /\ "next" \in Points \ {"rollback", "unstage", "raised", "install"}
    BY <1>11 DEF Glob, Points
  <2>2. at'[p] = "next" /\ ~moved'[p] /\ ~present(target)
    BY <1>2, <1>9, <1>11, <2>1 DEF BootTypeOK, Looks, Unstaged, Glob
  <2>3. Looks(p)'
    BY <1>5, <2>2 DEF Looks, Holding, Unstaged
  <2> QED
    BY <1>3, <1>7, <2>1, <2>3
<1>12. CASE NextBackup(p)
  <2>1. at[p] = "next" /\ ~moved[p] /\ ~present(target)
    BY <1>2, <1>12 DEF Looks, Unstaged, NextBackup
  <2>2. PICK to \in Points : at' = [at EXCEPT ![p] = to] /\ to \in {"check", "next", "inspect"}
    <3>1. CASE at' = [at EXCEPT ![p] = "check"]
      BY <3>1 DEF Points
    <3>2. ASSUME NEW n \in todo[p], at' = [at EXCEPT ![p] = IF exists(n) THEN "inspect" ELSE "next"]
          PROVE  \E to \in Points : /\ at' = [at EXCEPT ![p] = to]
                                    /\ to \in {"check", "next", "inspect"}
      BY <3>2 DEF Points
    <3> QED
      BY <1>12, <3>1, <3>2 DEF NextBackup
  <2>3. at'[p] = to /\ ~moved'[p]
    BY <1>2, <1>9, <2>1, <2>2 DEF BootTypeOK
  <2>4. to = "inspect" => exists(Held(p))'
    <3>1. SUFFICES ASSUME to = "inspect"
                   PROVE  exists(Held(p))'
      OBVIOUS
    <3>2. PICK n \in todo[p] : exists(n) /\ held'[p] = {n}
      BY <1>2, <1>12, <2>1, <2>3, <3>1 DEF NextBackup, BootTypeOK
    <3>3. Held(p)' = n
      BY <3>2 DEF Held
    <3> QED
      BY <1>9, <3>2, <3>3 DEF exists
  <2>5. Looks(p)'
    BY <1>5, <2>1, <2>2, <2>3, <2>4 DEF Looks, Holding, Unstaged
  <2> QED
    BY <1>3, <1>7, <2>2, <2>5
<1>13. CASE Inspect(p)
  <2>1. PICK to \in Points : at' = [at EXCEPT ![p] = to] /\ to \in {"better", "discard"}
                             /\ (to = "better" <=> present(Held(p)))
    BY <1>13 DEF Inspect, Points
  <2>2. at'[p] = to /\ ~moved'[p] /\ ~present(target) /\ exists(Held(p)) /\ UNCHANGED held
    BY <1>2, <1>9, <1>13, <2>1 DEF BootTypeOK, Looks, Unstaged, Holding, Inspect
  <2>3. Looks(p)'
    BY <1>5, <1>6, <2>1, <2>2 DEF Looks, Holding, Unstaged
  <2> QED
    BY <1>3, <1>7, <2>1, <2>3
<1>14. CASE TargetInTheWay(p)
  <2>1. PICK to \in Points : at' = [at EXCEPT ![p] = to] /\ to \in {"drop", "restore"}
                             /\ (to = "drop" <=> exists(target))
    BY <1>14 DEF TargetInTheWay, Points
  <2>2. /\ at'[p] = to /\ ~moved'[p] /\ ~present(target) /\ present(Held(p)) /\ exists(Held(p))
        /\ UNCHANGED held
    BY <1>2, <1>9, <1>14, <2>1 DEF BootTypeOK, Looks, Unstaged, Holding, TargetInTheWay
  <2>3. Looks(p)'
    BY <1>5, <1>6, <2>1, <2>2 DEF Looks, Holding, Unstaged
  <2> QED
    BY <1>3, <1>7, <2>1, <2>3
<1>15. CASE Check(p)
  <2>1. PICK to \in Points : at' = [at EXCEPT ![p] = to] /\ to \in {"returned", "generate"}
                             /\ (to = "returned" <=> present(target))
    BY <1>15 DEF Check, Points
  <2>2. at'[p] = to /\ ~moved'[p]
    BY <1>2, <1>9, <1>15, <2>1 DEF BootTypeOK, Looks, Unstaged, Check
  <2>3. Looks(p)'
    BY <1>5, <2>1, <2>2 DEF Looks, Holding, Unstaged
  <2> QED
    BY <1>3, <1>7, <2>1, <2>3
<1>16. CASE TargetExists(p)
  <2>1. PICK to \in Points : at' = [at EXCEPT ![p] = to] /\ to \in {"aside", "install"}
                             /\ (to = "aside" <=> exists(target))
    BY <1>16 DEF TargetExists, Points
  <2>2. /\ at'[p] = to /\ at[p] = "target" /\ ~moved[p] /\ ~moved'[p] /\ ~present(target)
        /\ names[staging(boot[p])] = boot[p] /\ files[boot[p]] = Tables
        /\ names[backup(boot[p])] = NoInode
    BY <1>2, <1>9, <1>16, <2>1 DEF BootTypeOK, Looks, TargetExists
  <2>3. /\ names'[staging(boot'[p])] = boot'[p] /\ files'[boot'[p]] = Tables
        /\ names'[backup(boot'[p])] = NoInode
    BY <1>9, <2>2
  <2>4. Looks(p)'
    <3>1. staging(boot[p])' = staging(boot'[p]) /\ backup(boot[p])' = backup(boot'[p])
      BY DEF staging, backup
    <3> QED
      BY <1>5, <2>1, <2>2, <2>3, <3>1 DEF Looks, Holding, Unstaged
  <2>5. Home(p)' = Home(p)
    BY <2>2 DEF Home
  <2> QED
    BY <1>1, <1>3, <2>1, <2>4, <2>5, LoneQuiet
<1> QED
  BY <1>3, <1>10, <1>11, <1>12, <1>13, <1>14, <1>15, <1>16

\* A failure stops a lone boot, or turns it back.
LEMMA LoneFails ==
    ASSUME BootInv, NEW p \in Processes, alone[p],
           \/ RestoreFails(p) \/ GenerateFails(p) \/ MoveAsideFails(p)
           \/ InstallFails(p) \/ RollbackFails(p)
    PROVE  /\ UNCHANGED <<names, files>>
           /\ Lone(p)'
<1> USE DEF Goto, NoFileChange, locals, Mishap
<1>1. at[p] \in {"restore", "generate", "aside", "install", "rollback"}
  BY DEF RestoreFails, GenerateFails, MoveAsideFails, InstallFails, RollbackFails
<1>2. BootTypeOK /\ Looks(p) /\ Counted(p) /\ found[p].mishaps \in Nat /\ mishaps \in Nat
  BY <1>1, LoneFacts DEF BootTypeOK
<1>3. UNCHANGED <<names, files, open, found, boot, moved>> /\ mishaps' = mishaps + 1
  BY DEF RestoreFails, GenerateFails, MoveAsideFails, InstallFails, RollbackFails
<1>4. /\ mishaps' > found[p].mishaps
      /\ at[p] = "rollback" => mishaps' > found[p].mishaps + 1
  BY <1>2, <1>3 DEF Counted
<1>5. PICK to \in Points :
         /\ at' = [at EXCEPT ![p] = to]
         /\ to \in {"raised", "unstage", "rollback"}
         /\ at[p] = "install" => (to = "rollback" <=> moved[p])
         /\ at[p] # "install" => to # "rollback"
  <2>1. CASE RestoreFails(p) \/ GenerateFails(p) \/ RollbackFails(p)
    BY <2>1 DEF RestoreFails, GenerateFails, RollbackFails, Points
  <2>2. CASE MoveAsideFails(p)
    BY <2>2 DEF MoveAsideFails, Points
  <2>3. CASE InstallFails(p)
    BY <1>2, <2>3 DEF InstallFails, OnInstallFailure, Points, BootTypeOK
  <2> QED
    BY <2>1, <2>2, <2>3
<1>6. at'[p] = to /\ boot' = boot /\ moved' = moved
  BY <1>2, <1>3, <1>5 DEF BootTypeOK
<1>7. Looks(p)'
  <2>1. CASE to # "rollback"
    BY <1>5, <1>6, <2>1 DEF Looks, Holding, Unstaged
  <2>2. CASE to = "rollback"
    <3>1. at[p] = "install" /\ moved[p] /\ ~exists(target) /\ exists(backup(boot[p]))
      BY <1>1, <1>2, <1>5, <2>2 DEF Looks
    <3>2. moved'[p] /\ ~exists(target)' /\ exists(backup(boot[p]))'
      BY <1>3, <3>1 DEF exists
    <3> QED
      BY <1>6, <2>2, <3>2 DEF Looks, Holding, Unstaged
  <2> QED
    BY <2>1, <2>2
<1>8. Home(p)' = Home(p) \/ mishaps' > found[p].mishaps + 1
  <2>1. CASE at[p] = "rollback"
    BY <1>4, <2>1
  <2>2. CASE at[p] = "install" /\ moved[p]
    <3>1. at'[p] = "rollback" /\ moved'[p]
      BY <1>5, <1>6, <2>2
    <3>2. backup(boot[p])' = backup(boot[p])
      BY <1>6
    <3> QED
      BY <2>2, <3>1, <3>2 DEF Home
  <2>3. CASE at[p] = "install" /\ ~moved[p]
    BY <1>5, <1>6, <2>3 DEF Home
  <2>4. CASE at[p] \notin {"install", "rollback"}
    BY <1>5, <1>6, <2>4 DEF Home
  <2> QED
    BY <2>1, <2>2, <2>3, <2>4
<1> QED
  BY <1>1, <1>3, <1>4, <1>5, <1>7, <1>8, LoneQuiet

\* A step of a lone boot that renames or generates.
LEMMA LoneWrite ==
    ASSUME BootInv, NEW p \in Processes, alone[p], at[p] # "idle",
           at[p] \notin {"discard", "drop", "unstage", "tidy"},
           UNCHANGED <<open, found, mishaps>>,
           NEW to \in Points, at' = [at EXCEPT ![p] = to],
           to \in {"rollback", "unstage", "raised"} => at[p] = "rollback",
           \/ Kept'
           \/ /\ ~Kept
              /\ names[Home(p)]' = names[Home(p)]
              /\ exists(Home(p)) => files'[names[Home(p)]] = files[names[Home(p)]],
           Looks(p)'
    PROVE  Lone(p)'
<1>1. /\ BootTypeOK /\ OpenIsCondemned(p) /\ Counted(p) /\ Remembered(p)
      /\ (\A q \in Processes \ {p} : at[q] = "idle") /\ found[p].mishaps \in Nat
  BY LoneFacts
<1>2. at'[p] = to /\ \A q \in Processes \ {p} : at'[q] = "idle"
  BY <1>1 DEF BootTypeOK
<1>3. OpenIsCondemned(p)'
  BY <1>1 DEF OpenIsCondemned
<1>4. Counted(p)'
  BY <1>1, <1>2 DEF Counted
<1>5. Remembered(p)'
  <2>1. CASE Kept'
    BY <2>1 DEF Remembered
  <2>2. CASE mishaps > found[p].mishaps + 1
    BY <2>2 DEF Remembered
  <2>3. CASE /\ names[Home(p)] = found[p].inode
             /\ exists(Home(p)) => files[names[Home(p)]] = found[p].tables
             /\ names[Home(p)]' = names[Home(p)]
             /\ exists(Home(p)) => files'[names[Home(p)]] = files[names[Home(p)]]
    <3>1. names[Home(p)]' = found'[p].inode
      BY <2>3
    <3>2. exists(Home(p))' => files[names[Home(p)]]' = found'[p].tables
      BY <2>3 DEF exists
    <3> QED
      BY <3>1, <3>2 DEF Remembered
  <2> QED
    BY <1>1, <2>1, <2>2, <2>3 DEF Remembered
<1> QED
  BY <1>2, <1>3, <1>4, <1>5 DEF Lone

\* The complete backup found is renamed onto a target that is not there.
LEMMA LoneRestore ==
    ASSUME BootInv, NEW p \in Processes, alone[p], Restore(p)
    PROVE  /\ present(target) => Untouched(target)
           /\ Kept => Kept'
           /\ Lone(p)'
<1>1. at[p] = "restore"
  BY DEF Restore
<1>2. BootTypeOK /\ HeldIsOne /\ Looks(p) /\ target \in Names /\ ~exists(target)
      /\ present(Held(p)) /\ exists(Held(p)) /\ ~moved[p]
  BY <1>1, LoneFacts DEF Looks, Holding, Unstaged
<1>3. PICK h \in Names : h = Held(p) /\ h # target
  BY <1>1, <1>2, HeldIsABackup, NameShapes DEF Holding
<1>4. /\ at' = [at EXCEPT ![p] = "check"]
      /\ names' = [names EXCEPT ![h] = NoInode, ![target] = names[h]]
      /\ UNCHANGED <<files, open, boot, todo, held, moved, found, mishaps>>
  BY <1>2, <1>3 DEF Restore, CanReplace, Replace, Goto, locals, SameBoot, exists
<1>5. at'[p] = "check" /\ names'[target] = names[h] /\ ~moved'[p]
  BY <1>2, <1>3, <1>4 DEF BootTypeOK
<1>6. present(target)'
  BY <1>2, <1>3, <1>4, <1>5 DEF present, exists, target
<1>7. Kept'
  BY <1>6 DEF Kept
<1>8. Looks(p)'
  BY <1>5 DEF Looks, Holding, Unstaged
<1>9. Lone(p)'
  BY <1>1, <1>4, <1>7, <1>8, LoneWrite DEF Points
<1> QED
  BY <1>2, <1>7, <1>9 DEF present

\* What is generated is nobody else's directory.
LEMMA LoneGenerate ==
    ASSUME BootInv, NEW p \in Processes, alone[p], Generate(p)
    PROVE  /\ present(target) => Untouched(target)
           /\ Kept => Kept'
           /\ Lone(p)'
<1>1. at[p] = "generate"
  BY DEF Generate, Goto
<1>2. /\ BootTypeOK /\ Looks(p) /\ target \in Names /\ ~present(target) /\ ~moved[p]
      /\ boot[p] \in Inodes /\ boot[p] # NoInode
      /\ staging(boot[p]) \in Names /\ backup(boot[p]) \in Names
      /\ staging(boot[p]) # target /\ staging(boot[p]) # backup(boot[p])
      /\ staging(boot[p]) \notin Backups
  BY <1>1, LoneFacts DEF Looks, Unstaged
<1>3. Unused(boot[p])
  BY <1>1, LoneFacts DEF Fresh, Unstaged
<1>4. /\ at' = [at EXCEPT ![p] = "target"]
      /\ names' = [names EXCEPT ![staging(boot[p])] = boot[p]]
      /\ files' = [files EXCEPT ![boot[p]] = Tables]
      /\ UNCHANGED <<open, boot, todo, held, moved, found, mishaps>>
  BY DEF Generate, Goto, locals, SameBoot
<1>5. /\ at'[p] = "target" /\ boot'[p] = boot[p] /\ ~moved'[p]
      /\ names'[staging(boot[p])] = boot[p] /\ files'[boot[p]] = Tables
      /\ names'[backup(boot[p])] = NoInode
  BY <1>2, <1>3, <1>4 DEF BootTypeOK, Unused
<1>6. \A n \in Names : n # staging(boot[p]) =>
         names'[n] = names[n] /\ (exists(n) => files'[names[n]] = files[names[n]])
  BY <1>2, <1>3, <1>4 DEF BootTypeOK, Unused, exists
<1>7. Kept => Kept'
  <2> SUFFICES ASSUME NEW n \in Backups \cup {target}, present(n)
               PROVE  Kept'
    BY DEF Kept
  <2>1. n \in Names /\ n # staging(boot[p])
    BY <1>2, NameShapes
  <2> QED
    BY <1>6, <2>1, StaysPresent, StaysKept
<1>8. ~present(target)'
  <2>1. /\ names'[target] = names[target]
        /\ exists(target) => files'[names[target]] = files[names[target]]
    BY <1>2, <1>6
  <2> QED
    BY <1>2, <2>1 DEF present, exists, target
<1>9. Looks(p)'
  <2>1. /\ (names[staging(boot[p])])' = boot'[p] /\ (files[boot[p]])' = Tables
        /\ (names[backup(boot[p])])' = NoInode
    BY <1>5 DEF staging, backup
  <2> QED
    BY <1>5, <1>8, <2>1 DEF Looks, Holding, Unstaged
<1>10. Home(p) = target /\ Home(p)' = target
  BY <1>1, <1>5 DEF Home, target
<1>11. /\ names[Home(p)]' = names[Home(p)]
       /\ exists(Home(p)) => files'[names[Home(p)]] = files[names[Home(p)]]
  BY <1>2, <1>6, <1>10
<1>12. Lone(p)'
  BY <1>1, <1>4, <1>7, <1>9, <1>11, LoneWrite DEF Points
<1> QED
  BY <1>2, <1>7, <1>12

\* An incomplete target goes to a backup name nothing has.
LEMMA LoneMoveAside ==
    ASSUME BootInv, NEW p \in Processes, alone[p], MoveAside(p)
    PROVE  /\ present(target) => Untouched(target)
           /\ Kept => Kept'
           /\ Lone(p)'
<1>1. at[p] = "aside"
  BY DEF MoveAside
<1>2. /\ BootTypeOK /\ Looks(p) /\ target \in Names
      /\ exists(target) /\ ~present(target) /\ ~moved[p]
      /\ staging(boot[p]) \in Names /\ backup(boot[p]) \in Names /\ backup(boot[p]) \in Backups
      /\ staging(boot[p]) # target /\ staging(boot[p]) # backup(boot[p])
      /\ backup(boot[p]) # target
      /\ names[staging(boot[p])] = boot[p] /\ files[boot[p]] = Tables
      /\ names[backup(boot[p])] = NoInode
  BY <1>1, LoneFacts DEF Looks
<1>3. /\ at' = [at EXCEPT ![p] = "install"]
      /\ names' = [names EXCEPT ![target] = NoInode, ![backup(boot[p])] = names[target]]
      /\ moved' = [moved EXCEPT ![p] = TRUE]
      /\ UNCHANGED <<files, open, boot, todo, held, found, mishaps>>
  BY <1>1, <1>2 DEF MoveAside, CanReplace, Replace, Goto, SameBoot, exists
<1>4. /\ at'[p] = "install" /\ moved'[p] /\ boot' = boot
      /\ names'[target] = NoInode /\ names'[backup(boot[p])] = names[target]
      /\ names'[staging(boot[p])] = boot[p]
      /\ \A n \in Names : n # target /\ n # backup(boot[p]) => names'[n] = names[n]
  BY <1>2, <1>3 DEF BootTypeOK
<1>5. Kept => Kept'
  <2> SUFFICES ASSUME NEW n \in Backups \cup {target}, present(n)
               PROVE  Kept'
    BY DEF Kept
  <2>1. n \in Names /\ n # target /\ n # backup(boot[p])
    BY <1>2, NameShapes DEF present, exists
  <2> QED
    BY <1>3, <1>4, <2>1, StaysPresent, StaysKept
<1>6. Looks(p)'
  <2>1. /\ (names[staging(boot[p])])' = boot'[p] /\ (files[boot[p]])' = Tables
        /\ exists(backup(boot[p]))' /\ ~exists(target)'
    BY <1>2, <1>3, <1>4 DEF staging, backup, target, exists
  <2> QED
    BY <1>4, <2>1 DEF Looks, Holding, Unstaged
<1>7. Home(p) = target /\ Home(p)' = backup(boot[p])
  BY <1>1, <1>4 DEF Home, backup
<1>8. /\ names[Home(p)]' = names[Home(p)]
      /\ exists(Home(p)) => files'[names[Home(p)]] = files[names[Home(p)]]
  BY <1>3, <1>4, <1>7
<1>9. Lone(p)'
  BY <1>1, <1>3, <1>5, <1>6, <1>8, LoneWrite DEF Points
<1> QED
  BY <1>2, <1>5, <1>9

\* The second rename succeeds: the target is not there.
LEMMA LoneInstall ==
    ASSUME BootInv, NEW p \in Processes, alone[p], Install(p)
    PROVE  /\ present(target) => Untouched(target)
           /\ Kept => Kept'
           /\ Lone(p)'
<1>1. at[p] = "install"
  BY DEF Install
<1>2. /\ BootTypeOK /\ target \in Names /\ ~exists(target)
      /\ staging(boot[p]) \in Names /\ staging(boot[p]) # target
      /\ names[staging(boot[p])] = boot[p] /\ files[boot[p]] = Tables /\ boot[p] # NoInode
  BY <1>1, LoneFacts DEF Looks
<1>3. PICK to \in {"tidy", "returned"} :
         /\ at' = [at EXCEPT ![p] = to]
         /\ names' = [names EXCEPT ![staging(boot[p])] = NoInode, ![target] = boot[p]]
         /\ UNCHANGED <<files, open, boot, todo, held, moved, found, mishaps>>
  BY <1>1, <1>2 DEF Install, CanReplace, Replace, Goto, SameBoot, exists, locals
<1>4. at'[p] = to /\ names'[target] = boot[p]
  BY <1>2, <1>3 DEF BootTypeOK
<1>5. present(target)'
  BY <1>2, <1>3, <1>4 DEF present, exists, target
<1>6. Kept'
  BY <1>5 DEF Kept
<1>7. Looks(p)'
  BY <1>3, <1>4, <1>5 DEF Looks, Holding, Unstaged
<1>8. Lone(p)'
  BY <1>1, <1>3, <1>6, <1>7, LoneWrite DEF Points
<1> QED
  BY <1>2, <1>6, <1>8 DEF present

\* So does the rollback: the original goes back to where it was found.
LEMMA LoneRollback ==
    ASSUME BootInv, NEW p \in Processes, alone[p], Rollback(p)
    PROVE  /\ present(target) => Untouched(target)
           /\ Kept => Kept'
           /\ Lone(p)'
<1>1. at[p] = "rollback"
  BY DEF Rollback
<1>2. /\ BootTypeOK /\ Looks(p) /\ target \in Names /\ ~exists(target) /\ moved[p]
      /\ backup(boot[p]) \in Names /\ backup(boot[p]) # target /\ exists(backup(boot[p]))
  BY <1>1, LoneFacts DEF Looks
<1>3. /\ at' = [at EXCEPT ![p] = "unstage"]
      /\ names' = [names EXCEPT ![backup(boot[p])] = NoInode, ![target] = names[backup(boot[p])]]
      /\ UNCHANGED <<files, open, boot, todo, held, moved, found, mishaps>>
  BY <1>1, <1>2 DEF Rollback, CanReplace, Replace, Goto, SameBoot, locals
<1>4. /\ at'[p] = "unstage" /\ names'[target] = names[backup(boot[p])]
      /\ \A n \in Names : n # target /\ n # backup(boot[p]) => names'[n] = names[n]
  BY <1>2, <1>3 DEF BootTypeOK
<1>5. Kept => Kept'
  <2> SUFFICES ASSUME NEW n \in Backups \cup {target}, present(n)
               PROVE  Kept'
    BY DEF Kept
  <2>1. n \in Names /\ n # target
    BY <1>2, NameShapes DEF present
  <2>2. CASE n = backup(boot[p])
    <3>1. present(target)'
      BY <1>3, <1>4, <2>2 DEF present, exists, target
    <3> QED
      BY <3>1 DEF Kept
  <2>3. CASE n # backup(boot[p])
    BY <1>3, <1>4, <2>1, <2>3, StaysPresent, StaysKept
  <2> QED
    BY <2>2, <2>3
<1>6. Looks(p)'
  BY <1>4 DEF Looks, Holding, Unstaged
<1>7. Home(p) = backup(boot[p]) /\ Home(p)' = target
  BY <1>1, <1>2, <1>4 DEF Home, target
<1>8. /\ names[Home(p)]' = names[Home(p)]
      /\ exists(Home(p)) => files'[names[Home(p)]] = files[names[Home(p)]]
  BY <1>3, <1>4, <1>7
<1>9. Lone(p)'
  BY <1>1, <1>3, <1>5, <1>6, <1>8, LoneWrite DEF Points
<1> QED
  BY <1>2, <1>5, <1>9 DEF present
-----------------------------------------------------------------------------
\* Every step of a lone boot keeps what is kept, and what the boot knows.
LEMMA LoneStep ==
    ASSUME BootInv, NEW p \in Processes, alone[p], at[p] # "idle", Step(p) \/ Fault(p)
    PROVE  /\ present(target) => Untouched(target)
           /\ Kept => Kept'
           /\ at'[p] # "idle" => Lone(p)'
<1>1. UNCHANGED <<names, files>> => (present(target) => Untouched(target)) /\ (Kept => Kept')
  BY DEF Untouched, Kept, present, exists
<1>2. CASE \/ RecoverCheck(p) \/ Glob(p) \/ NextBackup(p) \/ Inspect(p) \/ TargetInTheWay(p)
           \/ Check(p) \/ TargetExists(p)
  BY <1>1, <1>2, LoneLooks
<1>3. CASE \/ RestoreFails(p) \/ GenerateFails(p) \/ MoveAsideFails(p)
           \/ InstallFails(p) \/ RollbackFails(p)
  BY <1>1, <1>3, LoneFails
<1>4. CASE Discard(p) \/ DropTarget(p) \/ Unstage(p) \/ Tidy(p)
  BY <1>4, LoneRmtree
<1>5. CASE Restore(p)
  BY <1>5, LoneRestore
<1>6. CASE Generate(p)
  BY <1>6, LoneGenerate
<1>7. CASE MoveAside(p)
  BY <1>7, LoneMoveAside
<1>8. CASE Install(p)
  BY <1>8, LoneInstall
<1>9. CASE Rollback(p)
  BY <1>9, LoneRollback
<1>10. CASE Exit(p) \/ Kill(p)
  <2>1. BootTypeOK
    BY LoneFacts
  <2>2. UNCHANGED <<names, files>> /\ at'[p] = "idle"
    BY <1>10, <2>1 DEF Exit, Kill, NoFileChange, BootTypeOK
  <2> QED
    BY <1>1, <2>2
<1> QED
  BY <1>2, <1>3, <1>4, <1>5, <1>6, <1>7, <1>8, <1>9, <1>10 DEF Step, Fault

\* Only a process that boots takes a step or fails, and it moves no other.
LEMMA StepIsOnes ==
    ASSUME DiskInv, NEW p \in Processes, Step(p) \/ Fault(p)
    PROVE  /\ at[p] # "idle" /\ UNCHANGED alone
           /\ \A q \in Processes \ {p} : at'[q] = at[q]
<1> USE DEF Goto, SameBoot
<1>1. BootTypeOK
  BY DEF DiskInv
<1>2. CASE \/ RecoverCheck(p) \/ Glob(p) \/ NextBackup(p) \/ Inspect(p) \/ TargetInTheWay(p)
           \/ Check(p) \/ TargetExists(p)
  BY <1>1, <1>2 DEF BootTypeOK, RecoverCheck, Glob, NextBackup, Inspect, TargetInTheWay, Check,
                    TargetExists
<1>3. CASE Restore(p) \/ Generate(p) \/ MoveAside(p) \/ Install(p) \/ Rollback(p)
  BY <1>1, <1>3 DEF BootTypeOK, Restore, Generate, MoveAside, Install, Rollback
<1>4. CASE Discard(p) \/ DropTarget(p) \/ Unstage(p) \/ Tidy(p)
  BY <1>1, <1>4 DEF BootTypeOK, Discard, DropTarget, Unstage, Tidy, Rmtree
<1>5. CASE Exit(p)
  BY <1>1, <1>5 DEF BootTypeOK, Exit
<1>6. CASE Fault(p)
  BY <1>1, <1>6 DEF BootTypeOK, Fault, RestoreFails, GenerateFails, MoveAsideFails, InstallFails,
                    RollbackFails, Kill
<1> QED
  BY <1>2, <1>3, <1>4, <1>5, <1>6 DEF Step

\* Nothing is open but inside an rmtree.
LEMMA StepOpens ==
    ASSUME DiskInv, OnlyThere, NEW p \in Processes, Start(p) \/ Step(p) \/ Fault(p)
    PROVE  OnlyThere'
<1> USE DEF Goto, NoFileChange, OnlyThere
<1>1. BootTypeOK
  BY DEF DiskInv
<1>2. CASE \/ Start(p) \/ RecoverCheck(p) \/ Glob(p) \/ NextBackup(p) \/ Inspect(p)
           \/ TargetInTheWay(p) \/ Check(p) \/ TargetExists(p)
  BY <1>1, <1>2 DEF BootTypeOK, Start, RecoverCheck, Glob, NextBackup, Inspect, TargetInTheWay,
                    Check, TargetExists
<1>3. CASE Restore(p) \/ Generate(p) \/ MoveAside(p) \/ Install(p) \/ Rollback(p)
  BY <1>1, <1>3 DEF BootTypeOK, Restore, Generate, MoveAside, Install, Rollback
<1>4. CASE Discard(p) \/ DropTarget(p) \/ Unstage(p) \/ Tidy(p)
  BY <1>1, <1>4 DEF BootTypeOK, Discard, DropTarget, Unstage, Tidy, Rmtree
<1>5. CASE Exit(p)
  BY <1>1, <1>5 DEF BootTypeOK, Exit
<1>6. CASE Fault(p)
  BY <1>1, <1>6 DEF BootTypeOK, Fault, RestoreFails, GenerateFails, MoveAsideFails, InstallFails,
                    RollbackFails, Kill
<1> QED
  BY <1>2, <1>3, <1>4, <1>5, <1>6 DEF Step
-----------------------------------------------------------------------------
\* The disk before the first boot.
LEMMA BootInitial == BootInit => BootInv
<1> SUFFICES ASSUME BootInit
             PROVE  BootInv
  OBVIOUS
<1>1. /\ MaxBoots \in Nat /\ OldTarget \in Inodes /\ OldBackup \in Inodes
      /\ OldTarget # NoInode /\ OldBackup # NoInode /\ OldTarget # OldBackup
      /\ OldTarget > MaxBoots /\ OldBackup > MaxBoots
  BY BootstrapAssumption DEF OldTarget, OldBackup, Inodes, NoInode
<1>2. target # backup(0) /\ target \in Names /\ backup(0) \in Names
  BY <1>1, NameShapes DEF target, backup
<1>3. PICK t \in {NoInode, OldTarget}, b \in {NoInode, OldBackup} :
         names = [n \in Names |-> IF n = target THEN t ELSE IF n = backup(0) THEN b ELSE NoInode]
  BY DEF BootInit
<1>4. files \in [Inodes -> SUBSET Tables]
  BY DEF BootInit
<1>5. BootTypeOK
  <2>1. names \in [Names -> Inodes \cup {NoInode}]
    BY <1>1, <1>3
  <2>2. /\ at \in [Processes -> Points] /\ boot \in [Processes -> 0..MaxBoots]
        /\ todo \in [Processes -> SUBSET Backups] /\ held \in [Processes -> SUBSET Backups]
        /\ open \in [Processes -> Inodes \cup {NoInode}] /\ moved \in [Processes -> BOOLEAN]
        /\ boots \in 0..MaxBoots /\ mishaps \in Nat /\ alone \in [Processes -> BOOLEAN]
    BY <1>1 DEF BootInit, Points
  <2>3. found \in [Processes -> [inode : Inodes \cup {NoInode}, tables : SUBSET Tables,
                                mishaps : Nat]]
    BY DEF BootInit
  <2> QED
    BY <1>4, <2>1, <2>2, <2>3 DEF BootTypeOK
<1>6. HeldIsOne /\ Numbered /\ OnlyThere
  BY DEF BootInit, HeldIsOne, Numbered, OnlyThere, Holding
<1>7. OneName
  BY <1>1, <1>2, <1>3 DEF OneName, NoInode
<1>8. Fresh
  <2>1. ASSUME NEW k \in 1..MaxBoots
        PROVE  Unused(k)
    <3>1. /\ staging(k) \in Names /\ backup(k) \in Names
          /\ staging(k) # target /\ backup(k) # target
          /\ staging(k) # backup(0) /\ backup(k) # backup(0) /\ k # NoInode
      BY <1>1, <2>1, NameShapes DEF staging, backup, target, NoInode
    <3>2. k # OldTarget /\ k # OldBackup
      BY <1>1, <2>1
    <3> QED
      BY <1>3, <3>1, <3>2 DEF Unused
  <2>2. \A p \in Processes : at[p] \notin Unstaged
    BY DEF BootInit, Unstaged
  <2> QED
    BY <2>1, <2>2 DEF Fresh
<1> QED
  BY <1>5, <1>6, <1>7, <1>8 DEF BootInv, DiskInv, BootInit

\* A start, a step or a fault of any process, beside any others.
LEMMA BootStep == BootInv /\ [BootNext]_bootVars => BootInv'
<1> SUFFICES ASSUME BootInv, [BootNext]_bootVars
             PROVE  BootInv'
  OBVIOUS
<1>1. DiskInv /\ OnlyThere /\ BootTypeOK
  BY DEF BootInv, DiskInv
<1>2. CASE UNCHANGED bootVars
  <2>1. UNCHANGED bootVars /\ DiskInv
    BY <1>1, <1>2
  <2>2. BootTypeOK' /\ HeldIsOne' /\ OnlyThere'
    BY <1>1, <2>1 DEF bootVars, DiskInv, OnlyThere, BootTypeOK, HeldIsOne
  <2>3. OneName' /\ Numbered'
    BY <2>1 DEF bootVars, DiskInv, OneName, Numbered
  <2>4. Fresh'
    BY <2>1 DEF bootVars, DiskInv, Fresh, Unused
  <2>5. ASSUME NEW p \in Processes, alone'[p], at'[p] # "idle"
        PROVE  Lone(p)'
    <3>1. Lone(p)
      BY <2>1, <2>5 DEF BootInv, bootVars
    <3>2. OpenIsCondemned(p)'
      BY <2>1, <3>1 DEF Lone, bootVars, OpenIsCondemned, Condemned, Held
    <3>3. Looks(p)'
      <4>1. \A n : (exists(n)' <=> exists(n)) /\ (present(n)' <=> present(n))
        BY <2>1 DEF bootVars, exists, present
      <4>2. (exists(Held(p))' <=> exists(Held(p))) /\ (present(Held(p))' <=> present(Held(p)))
        BY <2>1 DEF bootVars, exists, present, Held
      <4> QED
        BY <2>1, <3>1, <4>1, <4>2 DEF Lone, bootVars, Looks
    <3>4. Counted(p)' /\ Remembered(p)'
      BY <2>1, <3>1 DEF Lone, bootVars, Counted, Remembered, Home, exists, present, Kept
    <3> QED
      BY <2>1, <3>1, <3>2, <3>3, <3>4 DEF Lone, bootVars
  <2> QED
    BY <2>2, <2>3, <2>4, <2>5 DEF BootInv, DiskInv
<1>3. ASSUME NEW p \in Processes, Start(p)
      PROVE  BootInv'
  <2>1. DiskInv' /\ OnlyThere'
    BY <1>1, <1>3, StepDisk, StepOpens
  <2>2. ASSUME NEW q \in Processes, alone'[q], at'[q] # "idle"
        PROVE  Lone(q)'
    <3>1. q = p /\ \A r \in Processes \ {p} : at[r] = "idle"
      BY <1>3, <2>2 DEF Start
    <3>2. /\ at'[p] = "recover" /\ \A r \in Processes \ {p} : at'[r] = at[r]
          /\ UNCHANGED <<names, files, open, mishaps>>
          /\ moved'[p] = FALSE
          /\ found'[p] = [inode |-> names[target], mishaps |-> mishaps,
                          tables |-> IF exists(target) THEN files[names[target]] ELSE {}]
      BY <1>1, <1>3 DEF Start, Goto, NoFileChange, BootTypeOK
    <3>3. OpenIsCondemned(p)'
      <4>1. open[p] = NoInode
        BY <1>1, <1>3 DEF OnlyThere, Start, Goto
      <4> QED
        BY <3>2, <4>1 DEF OpenIsCondemned
    <3>4. Looks(p)'
      BY <3>2 DEF Looks, Holding, Unstaged
    <3>5. Counted(p)'
      <4>1. found'[p].mishaps = mishaps /\ mishaps' = mishaps /\ mishaps \in Nat
        BY <1>1, <3>2 DEF BootTypeOK
      <4> QED
        BY <3>2, <4>1 DEF Counted
    <3>6. Remembered(p)'
      <4>1. Home(p)' = target
        BY <3>2 DEF Home, target
      <4>2. /\ found'[p].inode = names'[target]
            /\ exists(target)' => files'[names'[target]] = found'[p].tables
        BY <3>2 DEF exists
      <4> QED
        BY <4>1, <4>2 DEF Remembered, exists
    <3> QED
      BY <3>1, <3>2, <3>3, <3>4, <3>5, <3>6 DEF Lone
  <2> QED
    BY <2>1, <2>2 DEF BootInv
<1>4. ASSUME NEW p \in Processes, Step(p) \/ Fault(p)
      PROVE  BootInv'
  <2>1. DiskInv' /\ OnlyThere'
    BY <1>1, <1>4, StepDisk, StepOpens
  <2>2. /\ at[p] # "idle" /\ UNCHANGED alone
        /\ \A q \in Processes \ {p} : at'[q] = at[q]
    BY <1>1, <1>4, StepIsOnes
  <2>3. ASSUME NEW q \in Processes, alone'[q], at'[q] # "idle"
        PROVE  Lone(q)'
    <3>1. q = p
      <4>1. SUFFICES ASSUME q # p
                     PROVE  FALSE
        OBVIOUS
      <4>2. alone[q] /\ at[q] # "idle"
        BY <2>2, <2>3, <4>1
      <4> QED
        BY <2>2, <4>1, <4>2, LoneFacts
    <3> QED
      BY <1>4, <2>2, <2>3, <3>1, LoneStep
  <2> QED
    BY <2>1, <2>3 DEF BootInv
<1> QED
  BY <1>2, <1>3, <1>4 DEF BootNext
-----------------------------------------------------------------------------
\* What is invariant of the dataset directory and the boots at work on it.
THEOREM BootIsInvariant == BootSpec => []BootInv
<1>1. BootInit => BootInv
  BY BootInitial
<1>2. BootInv /\ [BootNext]_bootVars => BootInv'
  BY BootStep
<1> QED
  BY <1>1, <1>2, PTL DEF BootSpec

\* A boot that no other boot runs beside has a complete dataset when it
\* returns, and raises only after the generator or a rename has failed.
THEOREM LoneBootsHeal == BootSpec => []LoneBootHeals
<1>1. BootInv => LoneBootHeals
  <2> SUFFICES ASSUME BootInv, NEW p \in Processes, alone[p], at[p] \in {"returned", "raised"}
               PROVE  /\ at[p] = "returned" => present(target)
                      /\ at[p] = "raised" => mishaps > 0
    BY DEF LoneBootHeals
  <2>1. Looks(p) /\ Counted(p) /\ found[p].mishaps \in Nat /\ mishaps \in Nat
    BY LoneFacts DEF BootTypeOK
  <2> QED
    BY <2>1 DEF Looks, Counted
<1> QED
  BY <1>1, BootIsInvariant, PTL

\* A lone boot that one failure stopped leaves the target as it found it, or a
\* complete dataset.
THEOREM FailuresRollBack == BootSpec => []FailureRollsBack
<1>1. BootInv => FailureRollsBack
  <2> SUFFICES ASSUME BootInv, NEW p \in Processes, alone[p], at[p] = "raised",
                      mishaps = found[p].mishaps + 1
               PROVE  \/ Kept
                      \/ /\ names[target] = found[p].inode
                         /\ exists(target) => files[names[target]] = found[p].tables
    BY DEF FailureRollsBack
  <2>1. Remembered(p) /\ found[p].mishaps \in Nat
    BY LoneFacts
  <2>2. Home(p) = target
    BY DEF Home
  <2>3. ~(mishaps > found[p].mishaps + 1)
    BY <2>1
  <2> QED
    BY <2>1, <2>2, <2>3 DEF Remembered
<1> QED
  BY <1>1, BootIsInvariant, PTL

\* No step taken while a lone boot runs disturbs a complete dataset at the
\* target or gives up the last complete dataset a boot can find.
THEOREM LoneBootsKeepData == BootSpec => LoneBootKeepsData
<1> DEFINE Keeps == (\E p \in Processes : alone[p] /\ at[p] # "idle") =>
                        /\ present(target) => Untouched(target)
                        /\ Kept => Kept'
<1>1. BootInv /\ [BootNext]_bootVars => [Keeps]_bootVars
  <2> SUFFICES ASSUME BootInv, BootNext, NEW p \in Processes, alone[p], at[p] # "idle"
               PROVE  /\ present(target) => Untouched(target)
                      /\ Kept => Kept'
    OBVIOUS
  <2>1. ASSUME NEW q \in Processes, Start(q)
        PROVE  /\ present(target) => Untouched(target)
               /\ Kept => Kept'
    BY <2>1 DEF Start, NoFileChange, Untouched, Kept, present, exists
  <2>2. ASSUME NEW q \in Processes, Step(q) \/ Fault(q)
        PROVE  /\ present(target) => Untouched(target)
               /\ Kept => Kept'
    <3>1. at[q] # "idle"
      BY <2>2, StepIsOnes DEF BootInv
    <3>2. q = p
      BY <3>1, LoneFacts
    <3> QED
      BY <2>2, <3>2, LoneStep
  <2> QED
    BY <2>1, <2>2 DEF BootNext
<1> QED
  BY <1>1, BootIsInvariant, PTL DEF BootSpec, LoneBootKeepsData
=============================================================================
