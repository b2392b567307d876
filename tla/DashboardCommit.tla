--------------------------- MODULE DashboardCommit ---------------------------
(***************************************************************************)
(* How `si dashboard` writes dashboard.json (commitDashboardFile and the   *)
(* end of executeDashboard in cmd/si-cli/dashboard.go): a lock file, a     *)
(* check under the lock, an exclusive temporary file, fsync, rename, and   *)
(* fsync of the directory.                                                 *)
(*                                                                         *)
(* A process is one run of the command; every file system call is a step.  *)
(* The directory has two versions: `cur`, which all processes see, and     *)
(* `disk`, which a power loss falls back to.                               *)
(***************************************************************************)
EXTENDS Integers, FiniteSets

CONSTANTS
  Proc,         \* the runs of the command
  Forced,       \* the runs given --force
  User,         \* the inode of a dashboard.json that was there before any run
  Unsafe,       \* a dashboard.json that is a link or not a regular file
  None,         \* no directory entry
  Size,         \* length of a rendered dashboard, in write units
  FaultPoints,  \* the file system calls that may fail for external reasons
  MaxFaults,    \* bound on such failures
  MaxCrashes    \* bound on kills and power losses

Calls == {"lstat", "mkdir", "lock", "closeLock", "create", "write", "sync",
          "close", "rename", "syncDir", "closeDir", "remove"}

ASSUME InodeAssumption  == /\ {User, Unsafe, None} \cap Proc = {}
                           /\ User # Unsafe /\ User # None /\ Unsafe # None
ASSUME ForcedAssumption == Forced \subseteq Proc
ASSUME SizeAssumption   == Size \in Nat \ {0}
ASSUME FaultAssumption  == FaultPoints \subseteq Calls
ASSUME BoundAssumption  == MaxFaults \in Nat /\ MaxCrashes \in Nat

VARIABLES
  outdir,        \* what the output path is
  cur,           \* the directory entries as the processes see them
  disk,          \* the directory entries a power loss leaves
  written,       \* units written to the temporary file each run created
  synced,        \* units of them that survive a power loss
  pc,            \* where each run is
  existedBefore, \* runs whose report says existed_before
  existed,       \* runs whose commit found a target under the lock
  tempCreated,   \* runs that still owe the removal of their temporary file
  failed,        \* runs that have an error to report
  published,     \* history: runs that renamed their file over the target
  faults,        \* calls that failed so far
  crashes        \* kills and power losses so far

dirVars == <<outdir, cur, disk>>
runVars == <<pc, existedBefore, existed, tempCreated, failed>>
vars    == <<dirVars, written, synced, runVars, published, faults, crashes>>

-----------------------------------------------------------------------------
(* An entry holds the inode of a run (each run creates at most one file),  *)
(* or one of the three that no run created.  The lock entry holds the run  *)
(* that created the lock file, which the code itself cannot tell.          *)

Inode   == Proc \cup {User, Unsafe, None}
Entries == [lock : Proc \cup {None}, temp : Proc \cup {None}, target : Inode]

Critical == {"recheck", "create", "write", "sync", "rename", "syncDir", "sweep",
             "unlock"}
Live     == {"mkdir", "inspect", "lock"} \cup Critical
Label    == {"idle", "done", "crashed"} \cup Live
Running(p) == pc[p] \in Live

TypeOK ==
  /\ outdir \in {"missing", "real", "unsafe"}
  /\ cur \in Entries
  /\ disk \in Entries
  /\ written \in [Proc -> 0..Size]
  /\ synced \in [Proc -> 0..Size]
  /\ pc \in [Proc -> Label]
  /\ existedBefore \subseteq Proc
  /\ existed \subseteq Proc
  /\ tempCreated \subseteq Proc
  /\ failed \subseteq Proc
  /\ published \subseteq Proc
  /\ faults \in Nat
  /\ crashes \in Nat

Init ==
  /\ outdir \in {"missing", "real", "unsafe"}
  /\ \E old \in {User, Unsafe, None} :
       /\ outdir # "real" => old = None
       /\ cur = [lock |-> None, temp |-> None, target |-> old]
  /\ disk = cur
  /\ written = [p \in Proc |-> 0]
  /\ synced = [p \in Proc |-> 0]
  /\ pc = [p \in Proc |-> "idle"]
  /\ existedBefore = {}
  /\ existed = {}
  /\ tempCreated = {}
  /\ failed = {}
  /\ published = {}
  /\ faults = 0
  /\ crashes = 0

-----------------------------------------------------------------------------
Fault(call) ==
  /\ call \in FaultPoints
  /\ faults < MaxFaults
  /\ faults' = faults + 1

NoFault == UNCHANGED faults

Goto(p, label) == pc' = [pc EXCEPT ![p] = label]

\* Return an error; the deferred calls still to run start at label.
Fail(p, label) == failed' = failed \cup {p} /\ Goto(p, label)

Advance(p, label) == Goto(p, label) /\ UNCHANGED failed

\* inspectDashboardTarget: an error for anything that must not be replaced.
TargetUnsafe == outdir = "unsafe" \/ cur.target = Unsafe
TargetExists == cur.target # None
InspectFails == \/ TargetUnsafe /\ NoFault
                \/ ~TargetUnsafe /\ Fault("lstat")

-----------------------------------------------------------------------------
(* Before the lock *)

\* executeDashboard looks at the target for its report; --dry-run ends here.
Inspect(p) ==
  /\ pc[p] = "idle"
  /\ \/ /\ ~TargetUnsafe
        /\ existedBefore' = IF TargetExists THEN existedBefore \cup {p}
                                            ELSE existedBefore
        /\ \E next \in {"mkdir", "done"} : Advance(p, next)
        /\ NoFault
     \/ /\ InspectFails
        /\ Fail(p, "done")
        /\ UNCHANGED existedBefore
  /\ UNCHANGED <<dirVars, written, synced, existed, tempCreated, published, crashes>>

MakeDir(p) ==
  /\ pc[p] = "mkdir"
  /\ \/ outdir' = "real" /\ Advance(p, "inspect") /\ NoFault
     \/ UNCHANGED outdir /\ Fail(p, "done") /\ Fault("mkdir")
  /\ UNCHANGED <<cur, disk, written, synced, existedBefore, existed, tempCreated,
                 published, crashes>>

InspectUnlocked(p) ==
  /\ pc[p] = "inspect"
  /\ \/ ~TargetUnsafe /\ Advance(p, "lock") /\ NoFault
     \/ InspectFails /\ Fail(p, "done")
  /\ UNCHANGED <<dirVars, written, synced, existedBefore, existed, tempCreated,
                 published, crashes>>

\* Mutant: a run that finds the lock taken runs the deferred removal of it.
AcquireLockDeferFirst(p) ==
  /\ pc[p] = "lock"
  /\ IF cur.lock = None THEN cur' = [cur EXCEPT !.lock = p] /\ Advance(p, "recheck")
                        ELSE Fail(p, "unlock") /\ UNCHANGED cur
  /\ UNCHANGED <<outdir, disk, written, synced, existedBefore, existed, tempCreated,
                 published, faults, crashes>>

\* Mutant: the lock file is opened without O_EXCL.
AcquireLockShared(p) ==
  /\ pc[p] = "lock"
  /\ cur' = [cur EXCEPT !.lock = p]
  /\ Advance(p, "recheck")
  /\ UNCHANGED <<outdir, disk, written, synced, existedBefore, existed, tempCreated,
                 published, faults, crashes>>

\* O_EXCL creation of the lock file.  A run that fails here leaves the file
\* alone: the removal is deferred only after the creation.
AcquireLock(p) ==
  /\ pc[p] = "lock"
  /\ \/ /\ cur.lock = None
        /\ cur' = [cur EXCEPT !.lock = p]
        /\ Advance(p, "recheck")
        /\ NoFault
     \/ /\ \/ cur.lock # None /\ NoFault
           \/ cur.lock = None /\ Fault("lock")
        /\ Fail(p, "done")
        /\ UNCHANGED cur
  /\ UNCHANGED <<outdir, disk, written, synced, existedBefore, existed, tempCreated,
                 published, crashes>>

-----------------------------------------------------------------------------
(* Under the lock *)

\* Mutant: the decision uses what the run saw before it had the lock.
RecheckStale(p) ==
  /\ pc[p] = "recheck"
  /\ existed' = existed \cup (existedBefore \cap {p})
  /\ IF p \in existedBefore /\ p \notin Forced THEN Fail(p, "unlock")
                                               ELSE Advance(p, "create")
  /\ UNCHANGED <<dirVars, written, synced, existedBefore, tempCreated, published,
                 faults, crashes>>

\* Mutant: the result `existed` is shadowed and never set.
RecheckShadowed(p) ==
  /\ pc[p] = "recheck"
  /\ IF TargetExists /\ p \notin Forced THEN Fail(p, "unlock")
                                        ELSE Advance(p, "create")
  /\ UNCHANGED <<dirVars, written, synced, existedBefore, existed, tempCreated,
                 published, faults, crashes>>

\* Close the lock file, look at the target again, refuse it without --force.
Recheck(p) ==
  /\ pc[p] = "recheck"
  /\ \/ /\ ~TargetUnsafe
        /\ existed' = IF TargetExists THEN existed \cup {p} ELSE existed
        /\ IF TargetExists /\ p \notin Forced THEN Fail(p, "unlock")
                                              ELSE Advance(p, "create")
        /\ NoFault
     \/ /\ Fault("closeLock") \/ InspectFails
        /\ Fail(p, "unlock")
        /\ UNCHANGED existed
  /\ UNCHANGED <<dirVars, written, synced, existedBefore, tempCreated, published,
                 crashes>>

CreateTemp(p) ==
  /\ pc[p] = "create"
  /\ \/ /\ cur.temp = None
        /\ cur' = [cur EXCEPT !.temp = p]
        /\ tempCreated' = tempCreated \cup {p}
        /\ Advance(p, "write")
        /\ NoFault
     \/ /\ \/ cur.temp # None /\ NoFault
           \/ cur.temp = None /\ Fault("create")
        /\ Fail(p, "unlock")
        /\ UNCHANGED <<cur, tempCreated>>
  /\ UNCHANGED <<outdir, disk, written, synced, existedBefore, existed, published,
                 crashes>>

\* Mutant: a write that made no progress starts the file over instead of failing.
WriteBytesRetrying(p) ==
  /\ pc[p] = "write"
  /\ \E n \in 0..(Size - written[p]) :
       written' = [written EXCEPT ![p] = IF n = 0 THEN 0 ELSE @ + n]
  /\ IF written'[p] = Size THEN Goto(p, "sync") ELSE UNCHANGED pc
  /\ UNCHANGED <<dirVars, synced, existedBefore, existed, tempCreated, failed, published,
                 faults, crashes>>

\* Mutant: the slice is advanced past its end.
WriteBytesOvershoot(p) ==
  /\ pc[p] = "write"
  /\ written' = [written EXCEPT ![p] = @ + Size + 1]
  /\ Goto(p, "sync")
  /\ UNCHANGED <<dirVars, synced, existedBefore, existed, tempCreated, failed, published,
                 faults, crashes>>

\* One turn of the loop of writeDashboardBytes: short writes are continued, a
\* write of nothing is an error.
WriteBytes(p) ==
  /\ pc[p] = "write"
  /\ \/ /\ \E n \in 1..(Size - written[p]) :
             written' = [written EXCEPT ![p] = @ + n]
        /\ IF written'[p] = Size THEN Goto(p, "sync") ELSE UNCHANGED pc
        /\ NoFault
        /\ UNCHANGED failed
     \/ /\ Fault("write")
        /\ Fail(p, "sweep")
        /\ UNCHANGED written
  /\ UNCHANGED <<dirVars, synced, existedBefore, existed, tempCreated, published,
                 crashes>>

\* Mutant: the temporary file is closed without Sync.
CloseWithoutSync(p) ==
  /\ pc[p] = "sync"
  /\ Advance(p, "rename")
  /\ UNCHANGED <<dirVars, written, synced, existedBefore, existed, tempCreated,
                 published, faults, crashes>>

\* Sync and Close of the temporary file.
SyncTemp(p) ==
  /\ pc[p] = "sync"
  /\ \/ /\ synced' = [synced EXCEPT ![p] = written[p]]
        /\ \/ Advance(p, "rename") /\ NoFault
           \/ Fail(p, "sweep") /\ Fault("close")
     \/ Fault("sync") /\ Fail(p, "sweep") /\ UNCHANGED synced
  /\ UNCHANGED <<dirVars, written, existedBefore, existed, tempCreated, published,
                 crashes>>

\* Mutant: tempCreated is cleared before the rename instead of after it.
RenameForgetting(p) ==
  /\ pc[p] = "rename"
  /\ tempCreated' = tempCreated \ {p}
  /\ \/ /\ cur' = [cur EXCEPT !.temp = None, !.target = cur.temp]
        /\ published' = published \cup {p}
        /\ Advance(p, "syncDir")
        /\ NoFault
     \/ Fault("rename") /\ Fail(p, "sweep") /\ UNCHANGED <<cur, published>>
  /\ UNCHANGED <<outdir, disk, written, synced, existedBefore, existed, crashes>>

Rename(p) ==
  /\ pc[p] = "rename"
  /\ \/ /\ cur.temp # None
        /\ cur' = [cur EXCEPT !.temp = None, !.target = cur.temp]
        /\ tempCreated' = tempCreated \ {p}
        /\ published' = published \cup {p}
        /\ Advance(p, "syncDir")
        /\ NoFault
     \/ /\ \/ cur.temp = None /\ NoFault
           \/ cur.temp # None /\ Fault("rename")
        /\ Fail(p, "sweep")
        /\ UNCHANGED <<cur, tempCreated, published>>
  /\ UNCHANGED <<outdir, disk, written, synced, existedBefore, existed, crashes>>

\* Mutant: the directory is opened and closed but not synced.
SyncDirSkipped(p) ==
  /\ pc[p] = "syncDir"
  /\ Advance(p, "unlock")
  /\ UNCHANGED <<dirVars, written, synced, existedBefore, existed, tempCreated,
                 published, faults, crashes>>

\* Open, Sync and Close of the directory.  An error here is reported although
\* the target has been replaced.
SyncDir(p) ==
  /\ pc[p] = "syncDir"
  /\ \/ /\ disk' = cur
        /\ \/ Advance(p, "unlock") /\ NoFault
           \/ Fail(p, "unlock") /\ Fault("closeDir")
     \/ Fault("syncDir") /\ Fail(p, "unlock") /\ UNCHANGED disk
  /\ UNCHANGED <<outdir, cur, written, synced, existedBefore, existed, tempCreated,
                 published, crashes>>

\* The deferred removal of the temporary file.
SweepTemp(p) ==
  /\ pc[p] = "sweep"
  /\ \/ /\ cur' = IF p \in tempCreated THEN [cur EXCEPT !.temp = None] ELSE cur
        /\ NoFault
     \/ p \in tempCreated /\ cur.temp # None /\ Fault("remove") /\ UNCHANGED cur
  /\ Goto(p, "unlock")
  /\ UNCHANGED <<outdir, disk, written, synced, existedBefore, existed, tempCreated,
                 failed, published, crashes>>

\* The deferred removal of the lock; then executeDashboard compares the two
\* answers to "was there a target".
Unlock(p) ==
  LET changed == p \in (existed \ existedBefore) \cup (existedBefore \ existed)
  IN /\ pc[p] = "unlock"
     /\ \/ /\ cur' = [cur EXCEPT !.lock = None]
           /\ failed' = IF changed THEN failed \cup {p} ELSE failed
           /\ NoFault
        \/ /\ cur.lock # None /\ Fault("remove")
           /\ failed' = failed \cup {p}
           /\ UNCHANGED cur
     /\ Goto(p, "done")
     /\ UNCHANGED <<outdir, disk, written, synced, existedBefore, existed, tempCreated,
                    published, crashes>>

-----------------------------------------------------------------------------
(* The environment *)

\* The kernel writes the directory back on its own account.
Flush ==
  /\ disk' = cur
  /\ UNCHANGED <<outdir, cur, written, synced, runVars, published, faults, crashes>>

Kill(p) ==
  /\ crashes < MaxCrashes
  /\ Running(p)
  /\ crashes' = crashes + 1
  /\ Goto(p, "crashed")
  /\ UNCHANGED <<dirVars, written, synced, existedBefore, existed, tempCreated, failed,
                 published, faults>>

\* Every run stops; what was not synced, of files and of the directory, is gone.
PowerLoss ==
  /\ crashes < MaxCrashes
  /\ crashes' = crashes + 1
  /\ pc' = [p \in Proc |-> IF Running(p) THEN "crashed" ELSE pc[p]]
  /\ cur' = disk
  /\ written' = synced
  /\ UNCHANGED <<outdir, disk, synced, existedBefore, existed, tempCreated, failed,
                 published, faults>>

Run(p) ==
  \/ Inspect(p) \/ MakeDir(p) \/ InspectUnlocked(p) \/ AcquireLock(p)
  \/ Recheck(p) \/ CreateTemp(p) \/ WriteBytes(p) \/ SyncTemp(p)
  \/ Rename(p) \/ SyncDir(p) \/ SweepTemp(p) \/ Unlock(p)

Next ==
  \/ \E p \in Proc : Run(p) \/ Kill(p)
  \/ Flush
  \/ PowerLoss

Spec == Init /\ [][Next]_vars

\* A run that has begun is a program executing straight-line file system calls.
FairSpec == Spec /\ \A p \in Proc : WF_vars(Running(p) /\ Run(p))
-----------------------------------------------------------------------------
(* Properties *)

\* Two runs are never past the lock at once, not even with stale lock files
\* left by crashes (docs/21-dashboard-cli.md, step 2).
MutualExclusion ==
  \A p, q \in Proc : pc[p] \in Critical /\ pc[q] \in Critical => p = q

\* dashboard.json is never a truncated write, neither as processes see it nor
\* as a power loss would leave it ("either the complete old file or the
\* complete new file").
Complete(inode) == inode \in Proc => written[inode] = Size /\ synced[inode] = Size
NeverTruncated == Complete(cur.target) /\ Complete(disk.target)

\* A run that is about to report success has its file in place in a way that
\* a power loss cannot undo.
SuccessIsDurable ==
  \A p \in Proc : pc[p] = "unlock" /\ p \notin failed =>
    cur.target = p /\ disk.target = p

\* A run that gives up the lock leaves its temporary file behind only when two
\* calls failed: the one that ended the commit and the removal after it.
NoResidue ==
  \A p \in Proc : pc[p] = "unlock" /\ cur.temp = p => faults >= 2

\* A run reports failure after it has replaced the target only if a call of
\* its failed or another run replaced the target during its lifetime.
FailedAfterPublishing ==
  \A p \in Proc : pc[p] = "done" /\ p \in failed \cap published /\ faults = 0 =>
    \E q \in published : q # p

\* Only the run that created the lock file removes it; in particular a run
\* that is turned away leaves it, and nothing but a power loss removes the
\* lock of a crashed run.
OnlyOwnerUnlocks ==
  [][\A p \in Proc : cur.lock = p /\ cur'.lock # p =>
       pc[p] = "unlock" \/ crashes' > crashes]_vars

\* Every run that has begun comes to an end.
EveryRunEnds == \A p \in Proc : Running(p) ~> pc[p] \in {"done", "crashed"}

\* The commit implements an atomically replaced file.
AtomicFile == INSTANCE AtomicFile WITH file <- cur.target, stable <- disk.target
ReplacesAtomically == AtomicFile!Spec
=============================================================================
