------------------------------ MODULE AuditLog ------------------------------
(***************************************************************************)
(* The data of okojo's hash-chained audit trail (audit/log.py): a record,  *)
(* the tail an AuditLog object keeps in memory, and the verifier's verdict *)
(* on a list of records.  The modules that write, read, package or damage  *)
(* chains extend this one.                                                 *)
(*                                                                         *)
(* Everything a record carries besides its links (timestamp, actor,        *)
(* action, target, detail, provenance) is one value, its "body".  SHA-256  *)
(* is taken to be collision-free: a digest is the tuple of what it covers. *)
(***************************************************************************)
EXTENDS Naturals, Sequences

\* The prev_hash of a first record.
GENESIS_HASH == << >>

\* _digest: the hash covers seq, body and prev_hash.
Digest(seq, body, prev) == <<seq, body, prev>>

\* A record as one line of the JSONL file holds it.
Sealed(seq, body, prev) ==
    [seq |-> seq, body |-> body, prev_hash |-> prev,
     hash |-> Digest(seq, body, prev)]

\* (_seq, _last_hash) of an AuditLog opened on a missing or empty file.
FreshTail == [seq |-> 0, hash |-> GENESIS_HASH]

\* _tail: what AuditLog.__init__ reads from the last line of the file.
TailOf(records) ==
    IF records = << >>
    THEN FreshTail
    ELSE [seq  |-> records[Len(records)].seq,
          hash |-> records[Len(records)].hash]

\* The record append() writes: built from the tail in memory, not the file.
NextRecord(tail, body) == Sealed(tail.seq + 1, body, tail.hash)

\* The tail in memory once the record is written.
TailAfter(record) == [seq |-> record.seq, hash |-> record.hash]

\* The shape of a record, and of a list of records read from a file.
IsRecord(rec) ==
    /\ rec = [seq |-> rec.seq, body |-> rec.body,
              prev_hash |-> rec.prev_hash, hash |-> rec.hash]
    /\ rec.seq \in Nat

IsChain(records) ==
    /\ records \in Seq({records[i] : i \in DOMAIN records})
    /\ \A i \in DOMAIN records : IsRecord(records[i])
-----------------------------------------------------------------------------
(* verify_records: three checks per record, in this order. *)

SeqOK(records, i) == records[i].seq = i

PrevOK(records, i) ==
    records[i].prev_hash = IF i = 1 THEN GENESIS_HASH ELSE records[i - 1].hash

HashOK(rec) == rec.hash = Digest(rec.seq, rec.body, rec.prev_hash)

LinkOK(records, i) ==
    SeqOK(records, i) /\ PrevOK(records, i) /\ HashOK(records[i])

\* verify_records(records).ok
Intact(records) == \A i \in 1..Len(records) : LinkOK(records, i)

BreakReason(records, i) ==
    CASE ~SeqOK(records, i)                              -> "seq_out_of_order"
      [] SeqOK(records, i) /\ ~PrevOK(records, i)        -> "prev_hash_mismatch"
      [] SeqOK(records, i) /\ PrevOK(records, i)
           /\ ~HashOK(records[i])                        -> "hash_mismatch"

\* i is the position verify_records reports as the first break.
IsFirstBreak(records, i) ==
    /\ i \in 1..Len(records)
    /\ ~LinkOK(records, i)
    /\ \A j \in 1..(i - 1) : LinkOK(records, j)
=============================================================================
