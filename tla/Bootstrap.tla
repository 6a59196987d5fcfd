----------------------------- MODULE Bootstrap ------------------------------
(***************************************************************************)
(* The boot hook that provides data/synthetic: recover what an interrupted *)
(* swap left under a backup name, and if the dataset is still missing or   *)
(* incomplete, generate it beside the target and swap it in with two       *)
(* renames.  Boots of several processes share the parent directory and     *)
(* nothing locks it; a boot may be killed anywhere and any rename or the   *)
(* generator may fail.  One action is one access to the file system.       *)
(*                                                                         *)
(* A directory is an inode and the tables in it; a path names an inode or  *)
(* none.  shutil.rmtree works on the directory it opened, wherever a       *)
(* rename has taken it since.                                              *)
(***************************************************************************)
EXTENDS Naturals, FiniteSets

CONSTANTS
    Processes,  \* that may boot
    Tables,     \* the files of a complete dataset
    MaxBoots,   \* bound: boots started
    MaxMishaps  \* bound: kills and I/O failures

ASSUME BootstrapAssumption ==
    /\ Tables # {} /\ IsFiniteSet(Tables)
    /\ MaxBoots \in Nat /\ MaxMishaps \in Nat

VARIABLES
    names,    \* names[path]: the inode it names, or NoInode
    files,    \* files[inode]: the tables in it
    at,       \* at[p]: the point of p's boot, or "idle"
    boot,     \* boot[p]: its number, which makes its names unique
    todo,     \* todo[p]: backups found and not looked at yet
    held,     \* held[p]: the backup it looks at (a set, empty before)
    open,     \* open[p]: the inode rmtree works on, or NoInode
    moved,    \* moved[p]: moved_aside
    boots,    \* boots started
    mishaps,  \* kills and failures so far
    alone,    \* history: alone[p]: no other boot ran during p's
    found     \* history: found[p]: the target, its tables and the mishaps at
              \* the start of p's boot

locals == <<boot, todo, held, moved>>
bootVars == <<names, files, at, boot, todo, held, open, moved, boots, mishaps, alone, found>>

target == <<"target", 0>>
staging(b) == <<"staging", b>>
backup(b) == <<"backup", b>>

NoInode == 0
Inodes == 1..(MaxBoots + 2)
OldTarget == MaxBoots + 1   \* the directory at the target before the first boot
OldBackup == MaxBoots + 2   \* a backup some earlier boot left
Backups == {backup(b) : b \in 0..MaxBoots}
Names == {target} \cup Backups \cup {staging(b) : b \in 1..MaxBoots}

exists(path) == names[path] # NoInode

\* scenario_dataset_present
present(path) == exists(path) /\ files[names[path]] = Tables

BootInit ==
    /\ names \in {[n \in Names |-> IF n = target THEN t ELSE IF n = backup(0) THEN b ELSE NoInode] :
                    t \in {NoInode, OldTarget}, b \in {NoInode, OldBackup}}
    /\ files \in {[i \in Inodes |-> IF i = OldTarget THEN t ELSE IF i = OldBackup THEN b ELSE {}] :
                    t \in SUBSET Tables, b \in SUBSET Tables}
    /\ at = [p \in Processes |-> "idle"]
    /\ boot = [p \in Processes |-> 0]
    /\ todo = [p \in Processes |-> {}]
    /\ held = [p \in Processes |-> {}]
    /\ open = [p \in Processes |-> NoInode]
    /\ moved = [p \in Processes |-> FALSE]
    /\ boots = 0 /\ mishaps = 0
    /\ alone = [p \in Processes |-> FALSE]
    /\ found = [p \in Processes |-> [inode |-> NoInode, tables |-> {}, mishaps |-> 0]]
-----------------------------------------------------------------------------
Goto(p, from, to) ==
    /\ at[p] = from
    /\ at' = [at EXCEPT ![p] = to]

NoFileChange == UNCHANGED <<names, files, open>>
SameBoot == UNCHANGED <<boots, mishaps, alone, found>>

\* os.replace(src, dst) succeeds: dst is no directory with files in it.
CanReplace(src, dst) == exists(src) /\ (exists(dst) => files[names[dst]] = {})

Replace(src, dst) == names' = [names EXCEPT ![src] = NoInode, ![dst] = names[src]]

\* A failure that is none of the boots' doing.
Mishap == mishaps < MaxMishaps /\ mishaps' = mishaps + 1

\* shutil.rmtree(path, ignore_errors=True), then on to the next point.
Rmtree(p, from, path, to) ==
    /\ at[p] = from
    /\ \/ /\ open[p] = NoInode /\ exists(path)
          /\ open' = [open EXCEPT ![p] = names[path]]
          /\ UNCHANGED <<names, files, at>>
       \/ /\ open[p] # NoInode
          /\ \E f \in files[open[p]] : files' = [files EXCEPT ![open[p]] = @ \ {f}]
          /\ UNCHANGED <<names, at, open>>
       \/ /\ IF open[p] = NoInode THEN ~exists(path) ELSE files[open[p]] = {}
          /\ at' = [at EXCEPT ![p] = to]
          /\ open' = [open EXCEPT ![p] = NoInode]
          /\ names' = IF exists(path) /\ files[names[path]] = {}
                      THEN [names EXCEPT ![path] = NoInode] ELSE names
          /\ UNCHANGED files
    /\ UNCHANGED locals /\ SameBoot

\* A process boots: target and its parent, then _recover_interrupted_swap.
Start(p) ==
    /\ boots < MaxBoots
    /\ Goto(p, "idle", "recover")
    /\ boots' = boots + 1
    /\ boot' = [boot EXCEPT ![p] = boots + 1]
    /\ moved' = [moved EXCEPT ![p] = FALSE]
    /\ LET active == {q \in Processes \ {p} : at[q] # "idle"}
       IN  alone' = [q \in Processes |-> IF q = p THEN active = {} ELSE FALSE]
    /\ found' = [found EXCEPT ![p] =
          [inode |-> names[target], mishaps |-> mishaps,
           tables |-> IF exists(target) THEN files[names[target]] ELSE {}]]
    /\ NoFileChange /\ UNCHANGED <<todo, held, mishaps>>
-----------------------------------------------------------------------------
\* Recovery returns at once when the target is complete.
RecoverCheck(p) ==
    /\ Goto(p, "recover", IF present(target) THEN "check" ELSE "glob")
    /\ NoFileChange /\ UNCHANGED locals /\ SameBoot

Glob(p) ==
    /\ Goto(p, "glob", "next")
    /\ todo' = [todo EXCEPT ![p] = {n \in Backups : exists(n)}]
    /\ NoFileChange /\ UNCHANGED <<boot, held, moved>> /\ SameBoot

\* The next backup, if any is left: their order is that of random names.
NextBackup(p) ==
    /\ at[p] = "next"
    /\ \/ /\ todo[p] = {}
          /\ at' = [at EXCEPT ![p] = "check"]
          /\ UNCHANGED <<todo, held>>
       \/ \E n \in todo[p] :
            /\ at' = [at EXCEPT ![p] = IF exists(n) THEN "inspect" ELSE "next"]
            /\ todo' = [todo EXCEPT ![p] = @ \ {n}]
            /\ held' = [held EXCEPT ![p] = IF exists(n) THEN {n} ELSE {}]
    /\ NoFileChange /\ UNCHANGED <<boot, moved>> /\ SameBoot

Held(p) == CHOOSE n \in held[p] : TRUE

\* Mutant: every backup is taken for the leftover of a lone boot.
MutInspect(p) ==
    /\ Goto(p, "inspect", "discard")
    /\ NoFileChange /\ UNCHANGED locals /\ SameBoot

\* An incomplete backup is discarded, a complete one restored.
Inspect(p) ==
    /\ Goto(p, "inspect", IF present(Held(p)) THEN "better" ELSE "discard")
    /\ NoFileChange /\ UNCHANGED locals /\ SameBoot

Discard(p) == Rmtree(p, "discard", Held(p), "next")

TargetInTheWay(p) ==
    /\ Goto(p, "better", IF exists(target) THEN "drop" ELSE "restore")
    /\ NoFileChange /\ UNCHANGED locals /\ SameBoot

DropTarget(p) == Rmtree(p, "drop", target, "restore")

Restore(p) ==
    /\ at[p] = "restore"
    /\ IF CanReplace(Held(p), target)
       THEN Goto(p, "restore", "check") /\ Replace(Held(p), target)
       ELSE Goto(p, "restore", "raised") /\ UNCHANGED names
    /\ UNCHANGED <<files, open, locals>> /\ SameBoot

RestoreFails(p) ==
    /\ Mishap
    /\ Goto(p, "restore", "raised")
    /\ NoFileChange /\ UNCHANGED <<locals, boots, alone, found>>

\* Nothing to do when the target is complete, recovered or not.
Check(p) ==
    /\ Goto(p, "check", IF present(target) THEN "returned" ELSE "generate")
    /\ NoFileChange /\ UNCHANGED locals /\ SameBoot

\* mkdtemp and generate_scenario: nobody else looks into a staging directory.
Generate(p) ==
    /\ Goto(p, "generate", "target")
    /\ names' = [names EXCEPT ![staging(boot[p])] = boot[p]]
    /\ files' = [files EXCEPT ![boot[p]] = Tables]
    /\ UNCHANGED <<open, locals>> /\ SameBoot

\* The generator fails: its directory is removed, the target untouched.
GenerateFails(p) ==
    /\ Mishap
    /\ Goto(p, "generate", "raised")
    /\ NoFileChange /\ UNCHANGED <<locals, boots, alone, found>>

\* Mutant: an existing directory is left for the second rename to replace.
MutTargetExists(p) ==
    /\ Goto(p, "target", "install")
    /\ NoFileChange /\ UNCHANGED locals /\ SameBoot

TargetExists(p) ==
    /\ Goto(p, "target", IF exists(target) THEN "aside" ELSE "install")
    /\ NoFileChange /\ UNCHANGED locals /\ SameBoot

\* The first rename.
MoveAside(p) ==
    /\ at[p] = "aside"
    /\ IF CanReplace(target, backup(boot[p]))
       THEN /\ Goto(p, "aside", "install")
            /\ Replace(target, backup(boot[p]))
            /\ moved' = [moved EXCEPT ![p] = TRUE]
       ELSE Goto(p, "aside", "unstage") /\ UNCHANGED <<names, moved>>
    /\ UNCHANGED <<files, open, boot, todo, held>> /\ SameBoot

MoveAsideFails(p) ==
    /\ Mishap
    /\ Goto(p, "aside", "unstage")
    /\ NoFileChange /\ UNCHANGED <<locals, boots, alone, found>>

\* Mutant: a failed second rename leaves the window open.
MutOnInstallFailure(p) == "unstage"

OnInstallFailure(p) == IF moved[p] THEN "rollback" ELSE "unstage"

\* The second rename.
Install(p) ==
    /\ at[p] = "install"
    /\ IF CanReplace(staging(boot[p]), target)
       THEN /\ Goto(p, "install", IF moved[p] THEN "tidy" ELSE "returned")
            /\ Replace(staging(boot[p]), target)
       ELSE Goto(p, "install", OnInstallFailure(p)) /\ UNCHANGED names
    /\ UNCHANGED <<files, open, locals>> /\ SameBoot

InstallFails(p) ==
    /\ Mishap
    /\ Goto(p, "install", OnInstallFailure(p))
    /\ NoFileChange /\ UNCHANGED <<locals, boots, alone, found>>

\* The original goes back; if that fails too the staging directory stays.
Rollback(p) ==
    /\ at[p] = "rollback"
    /\ IF CanReplace(backup(boot[p]), target)
       THEN Goto(p, "rollback", "unstage") /\ Replace(backup(boot[p]), target)
       ELSE Goto(p, "rollback", "raised") /\ UNCHANGED names
    /\ UNCHANGED <<files, open, locals>> /\ SameBoot

RollbackFails(p) ==
    /\ Mishap
    /\ Goto(p, "rollback", "raised")
    /\ NoFileChange /\ UNCHANGED <<locals, boots, alone, found>>

Unstage(p) == Rmtree(p, "unstage", staging(boot[p]), "raised")

Tidy(p) == Rmtree(p, "tidy", backup(boot[p]), "returned")
-----------------------------------------------------------------------------
\* The boot is over; the process may boot again.
Exit(p) ==
    /\ at[p] \in {"returned", "raised"}
    /\ at' = [at EXCEPT ![p] = "idle"]
    /\ todo' = [todo EXCEPT ![p] = {}]
    /\ held' = [held EXCEPT ![p] = {}]
    /\ NoFileChange /\ UNCHANGED <<boot, moved>> /\ SameBoot

Kill(p) ==
    /\ at[p] \notin {"idle", "returned", "raised"}
    /\ Mishap
    /\ at' = [at EXCEPT ![p] = "idle"]
    /\ todo' = [todo EXCEPT ![p] = {}]
    /\ held' = [held EXCEPT ![p] = {}]
    /\ open' = [open EXCEPT ![p] = NoInode]
    /\ UNCHANGED <<names, files, boot, moved, boots, alone, found>>

\* What a boot does unless something happens to it.
Step(p) ==
    \/ RecoverCheck(p) \/ Glob(p) \/ NextBackup(p) \/ Inspect(p) \/ Discard(p)
    \/ TargetInTheWay(p) \/ DropTarget(p) \/ Restore(p) \/ Check(p)
    \/ Generate(p) \/ TargetExists(p) \/ MoveAside(p) \/ Install(p)
    \/ Rollback(p) \/ Unstage(p) \/ Tidy(p) \/ Exit(p)

Fault(p) ==
    \/ RestoreFails(p) \/ GenerateFails(p) \/ MoveAsideFails(p)
    \/ InstallFails(p) \/ RollbackFails(p) \/ Kill(p)

BootNext == \E p \in Processes : Start(p) \/ Step(p) \/ Fault(p)

BootSpec == BootInit /\ [][BootNext]_bootVars
-----------------------------------------------------------------------------
Points == {"idle", "recover", "glob", "next", "inspect", "discard", "better", "drop",
           "restore", "check", "generate", "target", "aside", "install", "rollback",
           "unstage", "tidy", "returned", "raised"}

\* A boot no other boot runs beside leaves a complete dataset when it returns,
\* whatever interrupted and overlapping boots left before it, and it raises
\* only after the generator or a rename has failed.
LoneBootHeals == \A p \in Processes : alone[p] =>
    /\ at[p] = "returned" => present(target)
    /\ at[p] = "raised" => mishaps > 0

\* The step leaves the directory at n where it is, with the files it has.
Untouched(n) == names'[n] = names[n] /\ files'[names[n]] = files[names[n]]

Kept == \E n \in Backups \cup {target} : present(n)

\* A boot no other boot runs beside leaves a complete dataset at the target
\* alone, and whatever earlier boots left, it never gives up the last complete
\* dataset a boot can find, at any point where it may be killed or fail.
LoneBootKeepsData ==
    [][(\E p \in Processes : alone[p] /\ at[p] # "idle") =>
          /\ present(target) => Untouched(target)
          /\ Kept => Kept']_bootVars

\* A lone boot that one failure stopped, without killing it, leaves the target
\* as it found it, unless there is a complete dataset by now.
FailureRollsBack == \A p \in Processes :
    (alone[p] /\ at[p] = "raised" /\ mishaps = found[p].mishaps + 1) =>
        \/ Kept
        \/ /\ names[target] = found[p].inode
           /\ exists(target) => files[names[target]] = found[p].tables
=============================================================================
