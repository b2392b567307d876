----------------------------- MODULE FileCommit -----------------------------
(***************************************************************************)
(* The commit stage of `si generate` (generator/commit/commit.go, driven   *)
(* by executeGenerate in cmd/si-cli/generate.go): runs of the command that *)
(* replace the same N managed files of one output directory under a lock   *)
(* file, with one temporary and one backup path per file, a journal that   *)
(* is rolled back on failure, and a clean-up that always follows.          *)
(*                                                                         *)
(* A process is one run of the command.  Every file system call is a step  *)
(* of its own, so steps of several runs interleave and a run can be killed *)
(* (or the machine lose power) between any two of them.                    *)
(***************************************************************************)
EXTENDS Integers, FiniteSets

CONSTANTS
  Proc,         \* the runs of the command
  User,         \* the author of whatever was there before any run
  N,            \* number of selected targets; 1..N is the signal order
  Forced,       \* the runs given --force
  Mode,         \* "serial" (no run starts while another is going) or "concurrent"
  FaultPoints,  \* the file system calls that may fail for external reasons
  MaxFaults,    \* bound on such failures
  MaxCrashes    \* bound on kills and power losses

Calls == {"mkdir", "lock", "stat", "create", "write", "sync", "close",
          "backup", "replace", "restore", "undo", "remove"}

ASSUME UserAssumption   == User \notin Proc
ASSUME NAssumption      == N \in Nat \ {0}
ASSUME ForcedAssumption == Forced \subseteq Proc
ASSUME ModeAssumption   == Mode \in {"serial", "concurrent"}
ASSUME FaultAssumption  == FaultPoints \subseteq Calls
ASSUME BoundAssumption  == MaxFaults \in Nat /\ MaxCrashes \in Nat

VARIABLES
  dir,       \* what the output path is
  lock,      \* the lock file: "held" while it exists
  fs,        \* what is at each path of the output directory
  pc,        \* where each run is
  at,        \* index of Commit's loop over the targets
  step,      \* index of the loops of rollback and Cleanup
  journal,   \* Commit.journal
  failed,    \* the runs that have an error to report
  unrestored,\* RollbackResult.Failed
  unclean,   \* the runs whose Cleanup reported failures
  faults,    \* calls that failed so far
  crashes,   \* kills and power losses so far
  before     \* history: the targets as they were when the run was let in

fileVars == <<dir, lock, fs>>
runVars  == <<pc, at, step, journal, failed, unrestored, unclean>>
envVars  == <<faults, crashes>>
vars     == <<fileVars, runVars, envVars, before>>

-----------------------------------------------------------------------------
(* Paths and what is stored at them.  A content carries the run that wrote *)
(* it, and how much of it would survive: an inode is "partial" from its    *)
(* exclusive creation until all bytes are written, "written" until fsync,  *)
(* "durable" after it.  "unsafe" is a symlink or another non-regular file. *)

Index == 1..N
Path  == {"target", "temp", "backup"} \X Index

Target(f) == <<"target", f>>
Temp(f)   == <<"temp", f>>
Backup(f) == <<"backup", f>>

Content == [author : Proc \cup {User},
            state  : {"absent", "unsafe", "partial", "written", "durable"}]

By(p, state) == [author |-> p, state |-> state]
Absent       == By(User, "absent")
Exists(path) == fs[path] # Absent

Move(from, to) == fs' = [fs EXCEPT ![from] = Absent, ![to] = fs[from]]
Delete(path)   == fs' = [fs EXCEPT ![path] = Absent]

\* Advance the inode run p holds open for target f, under whichever name it
\* has by now: another run may have unlinked or renamed it.
Touch(p, f, old, new) ==
  fs' = [x \in Path |-> IF x[2] = f /\ fs[x] = By(p, old) THEN By(p, new)
                                                          ELSE fs[x]]

\* The journal, by field: the targets that have an entry, those of them with
\* existedBefore (and so a backup path), those with committed.
Journal == [opened : SUBSET Index, existed : SUBSET Index, committed : SUBSET Index]
NoEntry == [opened |-> {}, existed |-> {}, committed |-> {}]

-----------------------------------------------------------------------------
(* The control states of a run *)

Preparing  == {"lock", "check"}
Committing == {"create", "write", "sync", "stat", "backup", "replace",
               "rollback"}
Sweeping   == {"sweepTemp", "sweepBackup", "unlock"}
Ended      == {"done", "crashed"}
Running(p) == pc[p] \in Preparing \cup Committing \cup Sweeping
Label      == {"idle"} \cup Preparing \cup Committing \cup Sweeping \cup Ended

TypeOK ==
  /\ dir \in {"missing", "real", "link", "file"}
  /\ lock \in {"free", "held"}
  /\ fs \in [Path -> Content]
  /\ pc \in [Proc -> Label]
  /\ at \in [Proc -> 1..N+1]
  /\ step \in [Proc -> 0..N]
  /\ journal \in [Proc -> Journal]
  /\ failed \subseteq Proc
  /\ unrestored \in [Proc -> SUBSET Index]
  /\ unclean \subseteq Proc
  /\ faults \in Nat
  /\ crashes \in Nat
  /\ before \in [Proc -> [Index -> Content]]

Init ==
  /\ dir \in {"missing", "real", "link", "file"}
  /\ lock = "free"
  /\ \E old \in [Index -> {Absent, By(User, "durable"), By(User, "unsafe")}] :
       /\ dir \in {"missing", "file"} => \A f \in Index : old[f] = Absent
       /\ fs = [x \in Path |-> IF x[1] = "target" THEN old[x[2]] ELSE Absent]
  /\ pc = [p \in Proc |-> "idle"]
  /\ at = [p \in Proc |-> 1]
  /\ step = [p \in Proc |-> 0]
  /\ journal = [p \in Proc |-> NoEntry]
  /\ failed = {}
  /\ unrestored = [p \in Proc |-> {}]
  /\ unclean = {}
  /\ faults = 0
  /\ crashes = 0
  /\ before = [p \in Proc |-> [f \in Index |-> Absent]]

-----------------------------------------------------------------------------
(* Moves of a run.  Fault(c) is the failure of call c for a reason outside *)
(* the model (permissions, full disk, I/O error).                          *)

Fault(call) ==
  /\ call \in FaultPoints
  /\ faults < MaxFaults
  /\ faults' = faults + 1

NoFault == UNCHANGED faults

Goto(p, label) == pc' = [pc EXCEPT ![p] = label]

\* Where Cleanup starts: its loop is over the journal, and what is left of
\* it with an empty journal is the removal of the lock.
EnterCleanup(p) ==
  /\ step' = [step EXCEPT ![p] = 1]
  /\ Goto(p, IF 1 \in journal'[p].opened THEN "sweepTemp" ELSE "unlock")

\* Mutant: a run that is turned away leaves without calling Cleanup.
RefuseWithoutCleanup(p) ==
  /\ failed' = failed \cup {p}
  /\ Goto(p, "done")
  /\ UNCHANGED <<journal, step>>

\* Prepare failed: executeGenerate calls Cleanup and drops its result.
Refuse(p) ==
  /\ failed' = failed \cup {p}
  /\ UNCHANGED journal
  /\ EnterCleanup(p)

\* Mutant: rollback starts one entry too early.
FailSkippingOne(p) ==
  /\ failed' = failed \cup {p}
  /\ step' = [step EXCEPT ![p] = at[p] - 2]
  /\ Goto(p, "rollback")

\* Commit failed at target at[p]: roll back the entries before it.
Fail(p) ==
  /\ failed' = failed \cup {p}
  /\ step' = [step EXCEPT ![p] = at[p] - 1]
  /\ Goto(p, "rollback")

-----------------------------------------------------------------------------
(* MkdirAll, then Prepare *)

Begin(p) ==
  /\ pc[p] = "idle"
  /\ Mode = "concurrent" \/ \A q \in Proc : ~Running(q)
  /\ \/ /\ dir # "file"
        /\ dir' = IF dir = "missing" THEN "real" ELSE dir
        /\ Goto(p, "lock")
        /\ NoFault
        /\ UNCHANGED failed
     \/ /\ \/ dir = "file" /\ NoFault
           \/ dir # "file" /\ Fault("mkdir")
        /\ failed' = failed \cup {p}
        /\ Goto(p, "done")
        /\ UNCHANGED dir
  /\ UNCHANGED <<lock, fs, at, step, journal, unrestored, unclean, crashes, before>>

\* Mutant: the lock file is opened without O_EXCL.
AcquireLockShared(p) ==
  /\ pc[p] = "lock"
  /\ lock' = "held"
  /\ before' = [before EXCEPT ![p] = [f \in Index |-> fs[Target(f)]]]
  /\ Goto(p, "check")
  /\ UNCHANGED <<dir, fs, at, step, journal, failed, unrestored, unclean, envVars>>

\* A failing Lstat of the directory counts as a failing "lock" call: both are
\* turned into the same refusal.
AcquireLock(p) ==
  /\ pc[p] = "lock"
  /\ \/ /\ dir = "real" /\ lock = "free"
        /\ lock' = "held"
        /\ before' = [before EXCEPT ![p] = [f \in Index |-> fs[Target(f)]]]
        /\ Goto(p, "check")
        /\ NoFault
        /\ UNCHANGED <<step, journal, failed>>
     \/ /\ \/ (dir = "link" \/ lock = "held") /\ NoFault
           \/ dir = "real" /\ lock = "free" /\ Fault("lock")
        /\ Refuse(p)
        /\ UNCHANGED <<lock, before>>
  /\ UNCHANGED <<dir, fs, at, unrestored, unclean, crashes>>

\* Mutant: only the first target is checked.
CheckFirstTarget(p) ==
  LET c == fs[Target(1)]
  IN /\ pc[p] = "check"
     /\ NoFault
     /\ IF c = Absent \/ (c.state # "unsafe" /\ p \in Forced)
          THEN Goto(p, "create") /\ UNCHANGED <<step, journal, failed>>
          ELSE Refuse(p)
     /\ UNCHANGED <<fileVars, at, unrestored, unclean, crashes, before>>

CheckTarget(p) ==
  LET c == fs[Target(at[p])]
      accepted == c = Absent \/ (c.state # "unsafe" /\ p \in Forced)
  IN /\ pc[p] = "check"
     /\ \/ /\ accepted
           /\ Goto(p, IF at[p] = N THEN "create" ELSE "check")
           /\ at' = [at EXCEPT ![p] = IF at[p] = N THEN 1 ELSE at[p] + 1]
           /\ NoFault
           /\ UNCHANGED <<step, journal, failed>>
        \/ /\ \/ ~accepted /\ NoFault
              \/ accepted /\ Fault("stat")
           /\ Refuse(p)
           /\ UNCHANGED at
     /\ UNCHANGED <<fileVars, unrestored, unclean, crashes, before>>

-----------------------------------------------------------------------------
(* Commit: one iteration per target *)

\* Mutant: a temporary file left by another run is taken over as it is.
CreateTempReusing(p) ==
  LET f == at[p]
  IN /\ pc[p] = "create"
     /\ journal' = [journal EXCEPT ![p].opened = @ \cup {f}]
     /\ fs' = IF Exists(Temp(f)) THEN fs
                                 ELSE [fs EXCEPT ![Temp(f)] = By(p, "partial")]
     /\ Goto(p, "write")
     /\ UNCHANGED <<dir, lock, at, step, failed, unrestored, unclean, envVars, before>>

CreateTemp(p) ==
  LET f == at[p]
  IN /\ pc[p] = "create"
     /\ journal' = [journal EXCEPT ![p].opened = @ \cup {f}]
     /\ \/ /\ ~Exists(Temp(f))
           /\ fs' = [fs EXCEPT ![Temp(f)] = By(p, "partial")]
           /\ Goto(p, "write")
           /\ NoFault
           /\ UNCHANGED <<step, failed>>
        \/ /\ \/ Exists(Temp(f)) /\ NoFault
              \/ ~Exists(Temp(f)) /\ Fault("create")
           /\ Fail(p)
           /\ UNCHANGED fs
     /\ UNCHANGED <<dir, lock, at, unrestored, unclean, crashes, before>>

WriteTemp(p) ==
  /\ pc[p] = "write"
  /\ \/ /\ Touch(p, at[p], "partial", "written")
        /\ Goto(p, "sync")
        /\ NoFault
        /\ UNCHANGED <<step, failed>>
     \/ /\ Fault("write")
        /\ Fail(p)
        /\ UNCHANGED fs
  /\ UNCHANGED <<dir, lock, at, journal, unrestored, unclean, crashes, before>>

\* Mutant: the temporary file is closed without Sync.
CloseWithoutSync(p) ==
  /\ pc[p] = "sync"
  /\ Goto(p, "stat")
  /\ UNCHANGED <<fileVars, at, step, journal, failed, unrestored, unclean, envVars, before>>

\* Sync and Close: once synced the bytes are durable even if Close fails.
SyncTemp(p) ==
  /\ pc[p] = "sync"
  /\ \/ /\ Touch(p, at[p], "written", "durable")
        /\ \/ Goto(p, "stat") /\ NoFault /\ UNCHANGED <<step, failed>>
           \/ Fault("close") /\ Fail(p)
     \/ /\ Fault("sync")
        /\ Fail(p)
        /\ UNCHANGED fs
  /\ UNCHANGED <<dir, lock, at, journal, unrestored, unclean, crashes, before>>

\* Lstat of the destination.  Commit reads an Lstat error as "absent".
StatTarget(p) ==
  LET f == at[p]
  IN /\ pc[p] = "stat"
     /\ \/ /\ Exists(Target(f))
           /\ journal' = [journal EXCEPT ![p].existed = @ \cup {f}]
           /\ Goto(p, "backup")
           /\ NoFault
        \/ /\ \/ ~Exists(Target(f)) /\ NoFault
              \/ Exists(Target(f)) /\ Fault("stat")
           /\ Goto(p, "replace")
           /\ UNCHANGED journal
     /\ UNCHANGED <<fileVars, at, step, failed, unrestored, unclean, crashes, before>>

\* Mutant: the existing target is removed instead of renamed to its backup.
RemoveExisting(p) ==
  /\ pc[p] = "backup"
  /\ Delete(Target(at[p]))
  /\ Goto(p, "replace")
  /\ UNCHANGED <<dir, lock, at, step, journal, failed, unrestored, unclean, envVars, before>>

BackupTarget(p) ==
  LET f == at[p]
  IN /\ pc[p] = "backup"
     /\ \/ /\ Exists(Target(f))
           /\ Move(Target(f), Backup(f))
           /\ Goto(p, "replace")
           /\ NoFault
           /\ UNCHANGED <<step, failed>>
        \/ /\ \/ ~Exists(Target(f)) /\ NoFault
              \/ Exists(Target(f)) /\ Fault("backup")
           /\ Fail(p)
           /\ UNCHANGED fs
     /\ UNCHANGED <<dir, lock, at, journal, unrestored, unclean, crashes, before>>

ReplaceTarget(p) ==
  LET f == at[p]
  IN /\ pc[p] = "replace"
     /\ \/ /\ Exists(Temp(f))
           /\ Move(Temp(f), Target(f))
           /\ journal' = [journal EXCEPT ![p].committed = @ \cup {f}]
           /\ at' = [at EXCEPT ![p] = f + 1]
           /\ IF f = N THEN EnterCleanup(p)
                       ELSE Goto(p, "create") /\ UNCHANGED step
           /\ NoFault
           /\ UNCHANGED failed
        \/ /\ \/ ~Exists(Temp(f)) /\ NoFault
              \/ Exists(Temp(f)) /\ Fault("replace")
           /\ Fail(p)
           /\ UNCHANGED <<fs, journal, at>>
     /\ UNCHANGED <<dir, lock, unrestored, unclean, crashes, before>>

-----------------------------------------------------------------------------
(* rollback: the committed entries, last to first *)

\* Mutant: rollback removes every committed target, restoring none.
RollbackRemoving(p) ==
  LET f == step[p]
  IN /\ pc[p] = "rollback" /\ f > 0
     /\ step' = [step EXCEPT ![p] = f - 1]
     /\ Delete(Target(f))
     /\ UNCHANGED <<dir, lock, pc, at, journal, failed, unrestored, unclean, envVars, before>>

\* Mutant: the rollback loop does not advance.
RollbackStuck(p) ==
  /\ pc[p] = "rollback" /\ step[p] > 0
  /\ fs' = fs
  /\ unrestored' = [unrestored EXCEPT ![p] = {}]
  /\ UNCHANGED <<dir, lock, pc, at, step, journal, failed, unclean, envVars, before>>

RollbackEntry(p) ==
  LET f       == step[p]
      existed == f \in journal[p].existed
      source  == IF existed THEN Backup(f) ELSE Target(f)
      call    == IF existed THEN "restore" ELSE "undo"
  IN /\ pc[p] = "rollback" /\ f > 0
     /\ step' = [step EXCEPT ![p] = f - 1]
     /\ IF f \notin journal[p].committed
          THEN NoFault /\ UNCHANGED <<fs, unrestored>>
          ELSE \/ /\ Exists(source)
                  /\ IF existed THEN Move(Backup(f), Target(f))
                                ELSE Delete(Target(f))
                  /\ NoFault
                  /\ UNCHANGED unrestored
               \/ /\ \/ ~Exists(source) /\ NoFault
                     \/ Exists(source) /\ Fault(call)
                  /\ unrestored' = [unrestored EXCEPT ![p] = @ \cup {f}]
                  /\ UNCHANGED fs
     /\ UNCHANGED <<dir, lock, pc, at, journal, failed, unclean, crashes, before>>

RollbackDone(p) ==
  /\ pc[p] = "rollback" /\ step[p] = 0
  /\ UNCHANGED journal
  /\ EnterCleanup(p)
  /\ UNCHANGED <<fileVars, at, failed, unrestored, unclean, envVars, before>>

-----------------------------------------------------------------------------
(* Cleanup: the temporary and backup path of every entry, then the lock -  *)
(* whoever created that lock.                                              *)

\* Remove, with "does not exist" not counted as a failure.
Sweep(p, path) ==
  \/ Delete(path) /\ NoFault /\ UNCHANGED unclean
  \/ /\ Exists(path) /\ Fault("remove")
     /\ unclean' = unclean \cup {p}
     /\ UNCHANGED fs

SweepTemp(p) ==
  /\ pc[p] = "sweepTemp"
  /\ Sweep(p, Temp(step[p]))
  /\ Goto(p, "sweepBackup")
  /\ UNCHANGED <<dir, lock, at, step, journal, failed, unrestored, crashes, before>>

\* Mutant: the backups of committed entries are kept.
SweepUncommittedBackup(p) ==
  LET f == step[p]
  IN /\ pc[p] = "sweepBackup"
     /\ IF f \in journal[p].existed /\ f \notin journal[p].committed
          THEN Sweep(p, Backup(f))
          ELSE NoFault /\ UNCHANGED <<fs, unclean>>
     /\ IF f < N /\ f + 1 \in journal[p].opened
          THEN Goto(p, "sweepTemp") /\ step' = [step EXCEPT ![p] = f + 1]
          ELSE Goto(p, "unlock") /\ UNCHANGED step
     /\ UNCHANGED <<dir, lock, at, journal, failed, unrestored, crashes, before>>

SweepBackup(p) ==
  LET f == step[p]
  IN /\ pc[p] = "sweepBackup"
     /\ IF f \in journal[p].existed THEN Sweep(p, Backup(f))
                                 ELSE NoFault /\ UNCHANGED <<fs, unclean>>
     /\ IF f < N /\ f + 1 \in journal[p].opened
          THEN Goto(p, "sweepTemp") /\ step' = [step EXCEPT ![p] = f + 1]
          ELSE Goto(p, "unlock") /\ UNCHANGED step
     /\ UNCHANGED <<dir, lock, at, journal, failed, unrestored, crashes, before>>

RemoveLock(p) ==
  /\ pc[p] = "unlock"
  /\ \/ lock' = "free" /\ NoFault /\ UNCHANGED unclean
     \/ /\ lock = "held" /\ Fault("remove")
        /\ unclean' = unclean \cup {p}
        /\ UNCHANGED lock
  /\ Goto(p, "done")
  /\ UNCHANGED <<dir, fs, at, step, journal, failed, unrestored, crashes, before>>

-----------------------------------------------------------------------------
(* The environment *)

Kill(p) ==
  /\ crashes < MaxCrashes
  /\ Running(p)
  /\ crashes' = crashes + 1
  /\ Goto(p, "crashed")
  /\ UNCHANGED <<fileVars, at, step, journal, failed, unrestored, unclean, faults, before>>

\* Every run stops, and bytes that were never synced are gone.
PowerLoss ==
  /\ crashes < MaxCrashes
  /\ \E p \in Proc : Running(p)
  /\ crashes' = crashes + 1
  /\ pc' = [p \in Proc |-> IF Running(p) THEN "crashed" ELSE pc[p]]
  /\ fs' = [x \in Path |-> IF fs[x].state = "written"
                             THEN By(fs[x].author, "partial") ELSE fs[x]]
  /\ UNCHANGED <<dir, lock, at, step, journal, failed, unrestored, unclean, faults, before>>

Run(p) ==
  \/ Begin(p) \/ AcquireLock(p) \/ CheckTarget(p)
  \/ CreateTemp(p) \/ WriteTemp(p) \/ SyncTemp(p)
  \/ StatTarget(p) \/ BackupTarget(p) \/ ReplaceTarget(p)
  \/ RollbackEntry(p) \/ RollbackDone(p)
  \/ SweepTemp(p) \/ SweepBackup(p) \/ RemoveLock(p)

Terminated == (\A p \in Proc : pc[p] \in Ended) /\ UNCHANGED vars

Next ==
  \/ \E p \in Proc : Run(p) \/ Kill(p)
  \/ PowerLoss
  \/ Terminated

Spec == Init /\ [][Next]_vars

\* A run that has begun is a program executing straight-line file system
\* calls: it keeps going until it ends or is killed.
FairSpec == Spec /\ \A p \in Proc : WF_vars(pc[p] # "idle" /\ Run(p))
-----------------------------------------------------------------------------
(* Properties *)

\* The journal entry says "new file" of a target that was there: Commit took
\* an Lstat error for absence.
Misread(p, f) == /\ f \in journal[p].committed /\ f \notin journal[p].existed
                 /\ before[p][f] # Absent

\* Prepare must turn this target down.
MustRefuse(p, f) == \/ before[p][f].state = "unsafe"
                    \/ before[p][f] # Absent /\ p \notin Forced

\* No managed file is ever the truncated or unsynced half of a write, after a
\* power loss either (commit/doc.go: "never a truncated renamed target").
NoTruncatedTarget ==
  \A f \in Index : fs[Target(f)].state \notin {"partial", "written"}

\* Once rollback is over, every target of a failed run is what it was when the
\* run took the lock, except those the run reports as not restored, the one
\* it failed on after its backup, and those whose existence it misread.
RollbackRestores ==
  \A p \in Proc : pc[p] \in Sweeping /\ p \in failed =>
    \A f \in Index : \/ 1 \notin journal[p].opened
                     \/ fs[Target(f)] = before[p][f]
                     \/ f \in unrestored[p]
                     \/ f = at[p] /\ f \in journal[p].existed
                     \/ Misread(p, f)

\* Until Cleanup starts, the previous content of each target still exists,
\* in place or as the backup: a kill at any point loses no user data.
OriginalsRecoverable ==
  \A p \in Proc : pc[p] \in Committing =>
    \A f \in Index : \/ before[p][f] \in {Absent, fs[Target(f)], fs[Backup(f)]}
                     \/ Misread(p, f)

\* A run that reports no commit error has published all targets, complete and
\* synced, whatever stale temporary or backup files it met.
SuccessPublishesAll ==
  \A p \in Proc : pc[p] \in Sweeping /\ p \notin failed =>
    \A f \in Index : fs[Target(f)] = By(p, "durable")

\* If any target had to be refused (symlink, or present without --force), no
\* target was touched and nothing was journaled: Prepare "aborts before a
\* single byte is written", even when the offending target is the last one.
RefusalTouchesNothing ==
  \A p \in Proc : Running(p) /\ (\E f \in Index : MustRefuse(p, f)) =>
    \A f \in Index : journal[p] = NoEntry /\ fs[Target(f)] = before[p][f]

\* A clean-up without reported failures leaves no temporary or backup path of
\* a target the run worked on.
NoResidue ==
  \A p \in Proc : pc[p] = "unlock" /\ p \notin unclean =>
    \A f \in Index : f \in journal[p].opened =>
      ~Exists(Temp(f)) /\ (f \in journal[p].existed => ~Exists(Backup(f)))

\* Two runs are never past the lock at the same time (commit/doc.go: "a
\* per-output-directory exclusive lock so concurrent generations fail fast
\* instead of overwriting each other").
PastLock(p) == pc[p] \in {"check"} \cup Committing
MutualExclusion ==
  \A p, q \in Proc : PastLock(p) /\ PastLock(q) => p = q

\* As long as no run has been turned away, at most one is past the lock, kills
\* and power losses included: it takes a refusal, whose Cleanup removes the
\* lock of another run, to let two in.
TurnedAway(p) == pc[p] = "done" /\ p \in failed /\ journal[p] = NoEntry
SoleWriterUntilRefusal ==
  (\A p \in Proc : ~TurnedAway(p)) =>
    \A p, q \in Proc : PastLock(p) /\ PastLock(q) => p = q

\* A failed run that got as far as writing leaves every target as it was, or
\* names it in the rollback result.
FailedRunRestoresOrReports ==
  \A p \in Proc : pc[p] = "unlock" /\ p \in failed /\ 1 \in journal[p].opened =>
    \A f \in Index : fs[Target(f)] = before[p][f] \/ f \in unrestored[p]

\* After a crash at most two of the later forced runs fail: one meets the
\* stale lock, one a stale temporary file, and each clears what stopped it.
Usable == /\ dir \in {"missing", "real"}
          /\ \A f \in Index : fs[Target(f)].state # "unsafe"
CrashCostsTwoRuns ==
  Usable /\ faults = 0 => Cardinality(Forced \cap failed) <= 2 * crashes

\* Every run that has begun comes to an end.
EveryRunEnds == \A p \in Proc : Running(p) ~> pc[p] \in Ended

-----------------------------------------------------------------------------
(* What a reader who does not look while a run is committing sees: with no *)
(* crash and no failing rename, all targets of a run or none.              *)

published ==
  [f \in Index |-> IF \E p \in Proc : pc[p] \in Committing
                     THEN before[CHOOSE p \in Proc : pc[p] \in Committing][f]
                     ELSE fs[Target(f)]]

AllOrNothing == INSTANCE AllOrNothing
\* The commit stage implements the all-or-nothing replacement of its targets.
PublishesAllOrNothing == AllOrNothing!Spec
=============================================================================
