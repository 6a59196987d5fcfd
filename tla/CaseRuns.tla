------------------------------ MODULE CaseRuns ------------------------------
(***************************************************************************)
(* Runs of one subject's case over the files they share.                   *)
(*                                                                         *)
(* run_case writes into data/cases/case_<uid>: it removes the audit log of *)
(* an earlier run, opens a new one, appends the record of every stage,     *)
(* writes case_package.json, stamps its SHA-256 into the chain, upserts    *)
(* the case's row in the case graph and reads the chain back.  Every app   *)
(* session that opens the subject runs the case once; nothing locks the    *)
(* directory, a run can fail at any stage (a fail-closed check raises) or  *)
(* be killed, and a session can run the case again.  One action is one     *)
(* access to a shared file.                                                *)
(*                                                                         *)
(* The stages' own records are Work in number; what they say is not        *)
(* modelled here, only whose they are.  A SHA-256 of a package is the      *)
(* package.                                                                *)
(***************************************************************************)
EXTENDS AuditLog, FiniteSets

CONSTANTS
    Sessions,  \* the app sessions (or processes) that run this case
    Work,      \* records the stages append before the package is built
    MaxRuns,   \* bound: runs started
    NoPackage, \* no package: no file, or a record that stamps none
    Torn       \* a case_package.json that holds no run's bytes

ASSUME CaseRunsAssumption ==
    /\ Work \in Nat \ {0}
    /\ MaxRuns \in Nat
    /\ NoPackage # Torn

VARIABLES
    disk,     \* audit_log.jsonl; << >> when the file does not exist
    pkgFile,  \* case_package.json: NoPackage, Torn, or the package it holds
    store,    \* the case's rows in case_graph.sqlite: a set of rows
    runs,     \* runs started so far; a run's number is its identity
    mixed,    \* history: the runs another run overlapped
    at,       \* at[s]: the point session s's run has reached, or "idle"
    run,      \* run[s]: the number of its run
    count,    \* count[s]: records it has appended
    tail,     \* tail[s]: its AuditLog's (_seq, _last_hash)
    snap,     \* snap[s]: the records it read last
    pkg,      \* pkg[s]: the package it built
    shown     \* shown[s]: the CaseResult the session keeps (_case_res), a set
              \* that is empty before its first run ends

files == <<disk, pkgFile, store>>
vars == <<disk, pkgFile, store, runs, mixed, at, run, count, tail, snap, pkg, shown>>

Points == {"idle", "unlink", "open", "work", "read", "build", "write",
           "writing", "stamp", "tip", "upsert", "recorded", "readback", "verify"}

\* What a record says: which run wrote it, the how-manieth of that run it is,
\* and the SHA-256 it stamps (NoPackage in all but the packaged record).
Body(r, n, sha) == [run |-> r, n |-> n, sha |-> sha]

Hashes(records) == [i \in 1..Len(records) |-> records[i].hash]

\* build_package: the references to the chain as it was read, and the verdict
\* of the verification made after that.
Package(r, records, verified) ==
    [by |-> r, refs |-> Hashes(records), verified |-> verified]

Row(r, records, sha) ==
    [by |-> r, tip |-> records[Len(records)].hash, count |-> Len(records),
     sha |-> sha]

Init ==
    /\ disk = << >> /\ pkgFile = NoPackage /\ store = {}
    /\ runs = 0 /\ mixed = {}
    /\ at = [s \in Sessions |-> "idle"]
    /\ run = [s \in Sessions |-> 0]
    /\ count = [s \in Sessions |-> 0]
    /\ tail = [s \in Sessions |-> FreshTail]
    /\ snap = [s \in Sessions |-> << >>]
    /\ pkg = [s \in Sessions |-> NoPackage]
    /\ shown = [s \in Sessions |-> {}]
-----------------------------------------------------------------------------
Goto(s, from, to) ==
    /\ at[s] = from
    /\ at' = [at EXCEPT ![s] = to]

\* A run that ends takes its locals with it.
Return(s) ==
    /\ at' = [at EXCEPT ![s] = "idle"]
    /\ run' = [run EXCEPT ![s] = 0]
    /\ count' = [count EXCEPT ![s] = 0]
    /\ tail' = [tail EXCEPT ![s] = FreshTail]
    /\ snap' = [snap EXCEPT ![s] = << >>]
    /\ pkg' = [pkg EXCEPT ![s] = NoPackage]

\* A stage raises (a fail-closed check, an unreadable source) or the process
\* dies: the run ends where it is, the files stay as they are.
Abort(s) ==
    /\ at[s] # "idle"
    /\ Return(s)
    /\ UNCHANGED <<files, runs, mixed, shown>>

Active == {s \in Sessions : at[s] # "idle"}

NewRun(s) ==
    /\ runs' = runs + 1
    /\ run' = [run EXCEPT ![s] = runs + 1]
    /\ mixed' = IF Active = {} THEN mixed
                ELSE mixed \cup {runs + 1} \cup {run[t] : t \in Active}

\* run_case starts: the existence test of the old log.
Begin(s) ==
    /\ runs < MaxRuns
    /\ Goto(s, "idle", IF disk = << >> THEN "open" ELSE "unlink")
    /\ NewRun(s)
    /\ UNCHANGED <<files, count, tail, snap, pkg, shown>>

\* audit_path.unlink(): raises (Abort) when another run has removed the file.
Unlink(s) ==
    /\ disk # << >>
    /\ Goto(s, "unlink", "open")
    /\ disk' = << >>
    /\ UNCHANGED <<pkgFile, store, runs, mixed, run, count, tail, snap, pkg, shown>>

\* AuditLog(audit_path): resumes whatever chain the path holds by now.
OpenLog(s) ==
    /\ Goto(s, "open", "work")
    /\ tail' = [tail EXCEPT ![s] = TailOf(disk)]
    /\ UNCHANGED <<files, runs, mixed, run, count, snap, pkg, shown>>

\* Mutant: the tail is read from the file again at every append.
MutAppendRereadsTail(s, sha) ==
    LET rec == NextRecord(TailOf(disk), Body(run[s], count[s] + 1, sha)) IN
    /\ disk' = Append(disk, rec)
    /\ tail' = [tail EXCEPT ![s] = TailAfter(rec)]
    /\ count' = [count EXCEPT ![s] = count[s] + 1]

\* audit.append: a line at the end of the file, linked to the tail in memory.
AppendRecord(s, sha) ==
    LET rec == NextRecord(tail[s], Body(run[s], count[s] + 1, sha)) IN
    /\ disk' = Append(disk, rec)
    /\ tail' = [tail EXCEPT ![s] = TailAfter(rec)]
    /\ count' = [count EXCEPT ![s] = count[s] + 1]

\* A stage of the case appends its record; after the last, the packager runs.
StageRecord(s) ==
    /\ Goto(s, "work", IF count[s] + 1 = Work THEN "read" ELSE "work")
    /\ AppendRecord(s, NoPackage)
    /\ UNCHANGED <<pkgFile, store, runs, mixed, run, snap, pkg, shown>>

\* Mutant: the last record is missed.
MutPackageReadEarly(s) ==
    /\ disk # << >>
    /\ Goto(s, "read", "build")
    /\ snap' = [snap EXCEPT ![s] = SubSeq(disk, 1, Len(disk) - 1)]
    /\ UNCHANGED <<files, runs, mixed, run, count, tail, pkg, shown>>

\* _package: records = audit.read_all(); the tip of an empty list raises (Abort).
PackageRead(s) ==
    /\ disk # << >>
    /\ Goto(s, "read", "build")
    /\ snap' = [snap EXCEPT ![s] = disk]
    /\ UNCHANGED <<files, runs, mixed, run, count, tail, pkg, shown>>

\* audit.verify() reads the file once more; the package holds both.
PackageBuild(s) ==
    /\ Goto(s, "build", "write")
    /\ pkg' = [pkg EXCEPT ![s] = Package(run[s], snap[s], Intact(disk))]
    /\ UNCHANGED <<files, runs, mixed, run, count, tail, snap, shown>>

\* write_text truncates the file, then writes it.
WriteBegin(s) ==
    /\ Goto(s, "write", "writing")
    /\ pkgFile' = Torn
    /\ UNCHANGED <<disk, store, runs, mixed, run, count, tail, snap, pkg, shown>>

\* Over a file another run has filled since, a shorter text leaves its end.
WriteEnd(s) ==
    /\ Goto(s, "writing", "stamp")
    /\ pkgFile' \in IF pkgFile = Torn THEN {pkg[s]} ELSE {pkg[s], Torn}
    /\ UNCHANGED <<disk, store, runs, mixed, run, count, tail, snap, pkg, shown>>

\* The packaged stamp carries the package's SHA-256.
Stamp(s) ==
    /\ Goto(s, "stamp", "tip")
    /\ AppendRecord(s, pkg[s])
    /\ UNCHANGED <<pkgFile, store, runs, mixed, run, snap, pkg, shown>>

\* _record_case: records = audit.read_all(), whose last record's hash is read.
RecordCaseRead(s) ==
    /\ disk # << >>
    /\ Goto(s, "tip", "upsert")
    /\ snap' = [snap EXCEPT ![s] = disk]
    /\ UNCHANGED <<files, runs, mixed, run, count, tail, pkg, shown>>

\* Mutant: the row is added beside the old one.
MutUpsertAdds(s) ==
    /\ Goto(s, "upsert", "recorded")
    /\ store' = store \cup {Row(run[s], snap[s], pkg[s])}
    /\ UNCHANGED <<disk, pkgFile, runs, mixed, run, count, tail, snap, pkg, shown>>

\* CaseGraphStore.record_case: the case's rows replaced in one transaction.
Upsert(s) ==
    /\ Goto(s, "upsert", "recorded")
    /\ store' = {Row(run[s], snap[s], pkg[s])}
    /\ UNCHANGED <<disk, pkgFile, runs, mixed, run, count, tail, snap, pkg, shown>>

\* The case_recorded stamp follows the write.
CaseRecorded(s) ==
    /\ Goto(s, "recorded", "readback")
    /\ AppendRecord(s, NoPackage)
    /\ UNCHANGED <<pkgFile, store, runs, mixed, run, snap, pkg, shown>>

\* _finalize: audit.read_all() ...
FinalRead(s) ==
    /\ Goto(s, "readback", "verify")
    /\ snap' = [snap EXCEPT ![s] = disk]
    /\ UNCHANGED <<files, runs, mixed, run, count, tail, pkg, shown>>

\* ... then audit.verify(); the CaseResult goes to the session.
FinalVerify(s) ==
    /\ at[s] = "verify"
    /\ Return(s)
    /\ shown' = [shown EXCEPT ![s] =
                    {[run |-> run[s], records |-> snap[s],
                      verified |-> Intact(disk), sha |-> pkg[s]]}]
    /\ UNCHANGED <<files, runs, mixed>>

Step(s) ==
    \/ Unlink(s) \/ OpenLog(s) \/ StageRecord(s)
    \/ PackageRead(s) \/ PackageBuild(s) \/ WriteBegin(s) \/ WriteEnd(s)
    \/ Stamp(s) \/ RecordCaseRead(s) \/ Upsert(s) \/ CaseRecorded(s)
    \/ FinalRead(s) \/ FinalVerify(s) \/ Abort(s)

Next == \E s \in Sessions : Begin(s) \/ Step(s)

Spec == Init /\ [][Next]_vars

\* Runs that never overlap: a run begins only when no other is under way.
SoloNext ==
    \E s \in Sessions :
        \/ Begin(s) /\ \A t \in Sessions : at[t] = "idle"
        \/ Step(s)

SoloSpec == Init /\ [][SoloNext]_vars
-----------------------------------------------------------------------------
\* Every variable has the shape the code gives it.
TypeOK ==
    /\ IsChain(disk)
    /\ \A i \in DOMAIN disk :
         disk[i].body = Body(disk[i].body.run, disk[i].body.n, disk[i].body.sha)
    /\ runs \in Nat
    /\ mixed \in SUBSET (1..runs)
    /\ at \in [Sessions -> Points]
    /\ run \in [Sessions -> 0..runs]
    /\ count \in [Sessions -> Nat]
    /\ \A s \in Sessions :
         /\ tail[s] = [seq |-> tail[s].seq, hash |-> tail[s].hash]
         /\ tail[s].seq \in Nat
         /\ IsChain(snap[s])
    /\ DOMAIN tail = Sessions /\ DOMAIN snap = Sessions
    /\ DOMAIN pkg = Sessions /\ DOMAIN shown = Sessions

(***************************************************************************)
(* A log that verifies never mixes two runs: whatever runs overlapped on   *)
(* the directory, in an intact file the n-th record of a run is preceded   *)
(* by that run's record n-1.  An interleaving is always a broken chain     *)
(* (audit/log.py append, which links to the tail in memory).               *)
(***************************************************************************)
IntactIsSerial ==
    Intact(disk) =>
        \A i \in 1..Len(disk) :
            disk[i].body.n > 1 =>
                /\ i > 1
                /\ disk[i - 1].body.run = disk[i].body.run
                /\ disk[i - 1].body.n = disk[i].body.n - 1

(***************************************************************************)
(* "The log covers the package; the package pins the log"                  *)
(* (orchestrator/graph.py _package): in a log that verifies, a packaged    *)
(* stamp carries the digest of a package that references exactly the       *)
(* records before the stamp and says they verified, although the package   *)
(* is built from two separate reads and the stamp is appended later.       *)
(***************************************************************************)
StampCoversPrefix ==
    Intact(disk) =>
        \A i \in 1..Len(disk) :
            disk[i].body.sha # NoPackage =>
                /\ disk[i].body.sha.refs = [j \in 1..(i - 1) |-> disk[j].hash]
                /\ disk[i].body.sha.by = disk[i].body.run
                /\ disk[i].body.sha.verified

\* A run that nothing overlapped returns its result.
LoneReturn(s) == shown'[s] # shown[s] /\ run[s] \notin mixed

\* The row's tip and count name a record of the log on disk.
RowResolves(row) ==
    row.count \in 1..Len(disk) /\ disk[row.count].hash = row.tip

(***************************************************************************)
(* "fresh chain per run" (orchestrator/pipeline.py): whatever ran, failed  *)
(* or was killed before it, a run that nothing overlaps returns its own    *)
(* records, all of them, and they verify; and the three stores then tell   *)
(* one story: the package on disk is its own, its stamp in the log carries *)
(* the package's digest, the row of the case graph names the same digest   *)
(* and a record of that log, and the row is the only one.                  *)
(***************************************************************************)
LoneRunAgrees ==
    [][\A s \in Sessions : LoneReturn(s) =>
         /\ \A result \in shown'[s] :
               /\ result.verified
               /\ [i \in 1..Len(result.records) |->
                       <<result.records[i].body.run, result.records[i].body.n>>]
                    = [i \in 1..(Work + 2) |-> <<run[s], i>>]
         /\ Len(disk) = Work + 2
         /\ \A i \in 1..Len(disk) : disk[i].body.run = run[s]
         /\ pkgFile \notin {NoPackage, Torn}
         /\ disk[Work + 1].body.sha = pkgFile
         /\ Cardinality(store) = 1
         /\ \A row \in store : row.sha = pkgFile /\ RowResolves(row)]_vars

Quiet == Active = {}

(***************************************************************************)
(* app/streamlit_app.py offers the package file beside the digest of the   *)
(* session's run.  Another session's run of the subject replaces the file. *)
(***************************************************************************)
DownloadMatchesDigest ==
    Quiet => \A s \in Sessions : \A result \in shown[s] : pkgFile = result.sha
-----------------------------------------------------------------------------
(* The inductive invariant behind IntactIsSerial and StampCoversPrefix. *)

\* A record that is not its run's first links to that run's previous one.
RecordInv(rec) ==
    /\ HashOK(rec)
    /\ rec.body.n > 1 => /\ rec.seq > 1
                         /\ rec.prev_hash[2].run = rec.body.run
                         /\ rec.prev_hash[2].n = rec.body.n - 1

PastStages == Points \ {"idle", "unlink", "open", "work"}

(***************************************************************************)
(* A run that has appended holds the hash of its own last record.  As long *)
(* as that is the last hash of the file, nobody has written since, and     *)
(* what the packager read and built describes the file as it still is.     *)
(***************************************************************************)
SessionInv(s) ==
    /\ at[s] # "idle" => run[s] # 0
    /\ at[s] \in {"idle", "unlink", "open"} => count[s] = 0
    /\ at[s] \in PastStages => count[s] > 0
    /\ count[s] > 0 => /\ tail[s].seq > 0
                       /\ tail[s].hash[2].run = run[s]
                       /\ tail[s].hash[2].n = count[s]
    /\ at[s] = "build" /\ tail[s] = TailOf(disk) => snap[s] = disk
    /\ at[s] \in {"write", "writing", "stamp"} /\ tail[s] = TailOf(disk)
         => pkg[s] = Package(run[s], disk, Intact(disk))

RunsDistinct ==
    \A s, t \in Sessions : s # t /\ run[s] # 0 => run[s] # run[t]

RunInv ==
    /\ TypeOK
    /\ \A i \in 1..Len(disk) : RecordInv(disk[i])
    /\ \A s \in Sessions : SessionInv(s)
    /\ RunsDistinct
    /\ StampCoversPrefix

(* ... and the one behind LoneRunAgrees. *)

Stamped == {"tip", "upsert", "recorded", "readback", "verify"}
Written == Stamped \cup {"stamp"}

\* The log is the run's own: its records, all of them, in order.
OwnLog(s) ==
    /\ Intact(disk) /\ tail[s] = TailOf(disk) /\ Len(disk) = count[s]
    /\ \A i \in 1..Len(disk) : disk[i].body.run = run[s] /\ disk[i].body.n = i

\* What the files hold at each point of the run that is alone.
OwnFiles(s) ==
    /\ at[s] = "open" => disk = << >>
    /\ at[s] \in PastStages \cup {"work"} => OwnLog(s)
    /\ at[s] = "work" => count[s] < Work
    /\ at[s] \in PastStages \ Stamped => count[s] = Work
    /\ at[s] \in Stamped =>
         /\ count[s] = Work + (IF at[s] \in {"readback", "verify"} THEN 2 ELSE 1)
         /\ disk[Work + 1].body.sha = pkg[s]
    /\ at[s] = "writing" => pkgFile = Torn
    /\ at[s] \in Written \cup {"write", "writing"} => pkg[s] \notin {NoPackage, Torn}
    /\ at[s] \in Written => pkgFile = pkg[s]
    /\ at[s] \in {"upsert", "verify"} => snap[s] = disk
    /\ at[s] \in {"recorded", "readback", "verify"} =>
         \E row \in store : store = {row} /\ row.sha = pkg[s] /\ RowResolves(row)

(***************************************************************************)
(* A run that nothing has overlapped is the only one under way, and the    *)
(* three files hold what it has written so far and nothing else.           *)
(***************************************************************************)
LoneInv ==
    \A s \in Sessions : at[s] # "idle" /\ run[s] \notin mixed =>
        /\ \A t \in Sessions \ {s} : at[t] = "idle"
        /\ OwnFiles(s)
=============================================================================
