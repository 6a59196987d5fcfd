---------------------------- MODULE AuditVerify ----------------------------
(***************************************************************************)
(* One audit chain on disk: its writer appends, something damages the file *)
(* (a body or a link edited without resealing the record, a record         *)
(* dropped, two records swapped), and a reader runs verify_records over a  *)
(* snapshot, one record per step.                                          *)
(*                                                                         *)
(* "written" is a history variable: the records append() returned, in      *)
(* order.  It is what the verifier's verdict is judged against.            *)
(***************************************************************************)
EXTENDS AuditLog

CONSTANTS
    Bodies,      \* what a record may say
    MaxRecords,  \* bound: appends
    MaxEdits     \* bound: damages to the file

ASSUME BoundsAssumption == MaxRecords \in Nat /\ MaxEdits \in Nat

VARIABLES
    disk,     \* the lines of audit_log.jsonl
    tail,     \* the writer's (_seq, _last_hash)
    written,  \* history: the records append() returned
    edits,    \* damages so far (bound)
    scan      \* the reader: its snapshot and the locals of verify_records

vars == <<disk, tail, written, edits, scan>>

ScanIdle == [at |-> "idle"]

Init ==
    /\ disk = << >>
    /\ tail = FreshTail
    /\ written = << >>
    /\ edits = 0
    /\ scan = ScanIdle
-----------------------------------------------------------------------------

\* AuditLog.append: one line at the end, then the tail in memory moves.
WriterAppend(body) ==
    LET rec == NextRecord(tail, body) IN
    /\ Len(written) < MaxRecords
    /\ disk' = Append(disk, rec)
    /\ written' = Append(written, rec)
    /\ tail' = TailAfter(rec)
    /\ UNCHANGED <<edits, scan>>

Damage(newDisk) ==
    /\ edits < MaxEdits
    /\ edits' = edits + 1
    /\ disk' = newDisk
    /\ UNCHANGED <<tail, written, scan>>

\* A record's content edited in place, its hash left as it was.
EditBody(i, body) ==
    /\ i \in 1..Len(disk)
    /\ Damage([disk EXCEPT ![i].body = body])

\* A record's back link edited in place.
EditLink(i, j) ==
    /\ i \in 1..Len(disk) /\ j \in 1..Len(disk)
    /\ Damage([disk EXCEPT ![i].prev_hash = disk[j].hash])

\* One line removed.
DropLine(i) ==
    /\ i \in 1..Len(disk)
    /\ Damage([k \in 1..(Len(disk) - 1) |-> IF k < i THEN disk[k] ELSE disk[k + 1]])

\* Two lines exchanged.
SwapLines(i, j) ==
    /\ i \in 1..Len(disk) /\ j \in 1..Len(disk) /\ i < j
    /\ Damage([disk EXCEPT ![i] = disk[j], ![j] = disk[i]])
-----------------------------------------------------------------------------
\* read_all, then verify_records starts: prev = GENESIS, nothing verified.
ReadAll ==
    /\ scan.at # "loop"
    /\ scan' = [at |-> "loop", records |-> disk, genuine |-> written,
                prev |-> GENESIS_HASH, verified |-> 0]
    /\ UNCHANGED <<disk, tail, written, edits>>

\* expected_seq of the iteration the loop is in.
ExpectedSeq == scan.verified + 1

Current == scan.records[ExpectedSeq]

Report(ok, break_seq, reason) ==
    /\ scan' = [at |-> "done", records |-> scan.records,
                genuine |-> scan.genuine, verified |-> scan.verified,
                ok |-> ok, break_seq |-> break_seq, reason |-> reason]
    /\ UNCHANGED <<disk, tail, written, edits>>

InLoop == scan.at = "loop" /\ scan.verified < Len(scan.records)

\* Mutant: the break is reported one place early (positions from 0).
MutBreakZeroBased ==
    /\ InLoop
    /\ Current.seq # ExpectedSeq
    /\ Report(FALSE, scan.verified, "seq_out_of_order")

BreakOnSeq ==
    /\ InLoop
    /\ Current.seq # ExpectedSeq
    /\ Report(FALSE, ExpectedSeq, "seq_out_of_order")

BreakOnPrev ==
    /\ InLoop
    /\ Current.seq = ExpectedSeq
    /\ Current.prev_hash # scan.prev
    /\ Report(FALSE, ExpectedSeq, "prev_hash_mismatch")

BreakOnHash ==
    /\ InLoop
    /\ Current.seq = ExpectedSeq
    /\ Current.prev_hash = scan.prev
    /\ ~HashOK(Current)
    /\ Report(FALSE, ExpectedSeq, "hash_mismatch")

VerifiedTo(rec) ==
    /\ scan' = [at |-> "loop", records |-> scan.records, genuine |-> scan.genuine,
                prev |-> rec.hash, verified |-> ExpectedSeq]
    /\ UNCHANGED <<disk, tail, written, edits>>

\* Mutant: a record counted as verified without its digest recomputed.
MutHashNotChecked ==
    /\ InLoop
    /\ Current.seq = ExpectedSeq
    /\ Current.prev_hash = scan.prev
    /\ VerifiedTo(Current)

RecordVerified ==
    /\ InLoop
    /\ Current.seq = ExpectedSeq
    /\ Current.prev_hash = scan.prev
    /\ HashOK(Current)
    /\ VerifiedTo(Current)

\* The loop ran off the end: no break.  0 stands for None.
AllVerified ==
    /\ scan.at = "loop" /\ scan.verified = Len(scan.records)
    /\ Report(TRUE, 0, "none")

VerifyStep == BreakOnSeq \/ BreakOnPrev \/ BreakOnHash \/ RecordVerified \/ AllVerified

Next ==
    \/ \E b \in Bodies : WriterAppend(b)
    \/ \E i \in 1..Len(disk), b \in Bodies : EditBody(i, b)
    \/ \E i, j \in 1..Len(disk) : EditLink(i, j)
    \/ \E i \in 1..Len(disk) : DropLine(i)
    \/ \E i, j \in 1..Len(disk) : SwapLines(i, j)
    \/ ReadAll
    \/ VerifyStep

Spec == Init /\ [][Next]_vars
-----------------------------------------------------------------------------
\* Every variable has the shape the code gives it, and the writer's memory is
\* at the last record it wrote.
TypeOK ==
    /\ IsChain(disk)
    /\ IsChain(written)
    /\ tail = TailOf(written)
    /\ edits \in 0..MaxEdits
    /\ scan.at \in {"idle", "loop", "done"}
    /\ scan.at # "idle" => /\ IsChain(scan.records)
                          /\ IsChain(scan.genuine)
                          /\ scan.verified \in 0..Len(scan.records)

(***************************************************************************)
(* verify_records locates the first break: a verdict of "ok" means every   *)
(* link of the snapshot holds; otherwise break_seq is the first position   *)
(* where one fails, the reason is the first of the three checks it fails   *)
(* there, and verified_count is the number of records before it            *)
(* (audit/log.py, ChainVerification).                                      *)
(***************************************************************************)
VerdictLocated ==
    scan.at = "done" =>
        IF scan.ok
        THEN Intact(scan.records) /\ scan.verified = Len(scan.records)
        ELSE /\ IsFirstBreak(scan.records, scan.break_seq)
             /\ scan.reason = BreakReason(scan.records, scan.break_seq)
             /\ scan.verified = scan.break_seq - 1

(***************************************************************************)
(* Every record the verifier has counted as verified is the record the     *)
(* writer wrote at that position: whatever was edited, dropped or swapped, *)
(* in the file, an accepted list is a prefix of the written one.           *)
(***************************************************************************)
VerifiedIsGenuine ==
    scan.at # "idle" =>
        \A i \in 1..scan.verified :
            i \in 1..Len(scan.genuine) /\ scan.records[i] = scan.genuine[i]

-----------------------------------------------------------------------------
(* The inductive invariant behind VerdictLocated and VerifiedIsGenuine. *)

\* Every hash in the list is the hash of a record of the genuine chain: no
\* damage reseals a record.
HashesFrom(records, genuine) ==
    \A i \in 1..Len(records) :
        \E k \in 1..Len(genuine) : records[i].hash = genuine[k].hash

ScanInv ==
    /\ scan.at # "idle" =>
         /\ Intact(scan.genuine)
         /\ HashesFrom(scan.records, scan.genuine)
         /\ \A i \in 1..scan.verified : LinkOK(scan.records, i)
    /\ scan.at = "loop" =>
         scan.prev = IF scan.verified = 0 THEN GENESIS_HASH
                     ELSE scan.records[scan.verified].hash

VerifyInv ==
    /\ TypeOK
    /\ Intact(written)
    /\ HashesFrom(disk, written)
    /\ ScanInv
    /\ VerdictLocated
=============================================================================
