--------------------------- MODULE RollbackProofs ---------------------------
(***************************************************************************)
(* What the journal of `si generate` guarantees when runs do not overlap:  *)
(* refusals touch nothing, the previous files survive while a run commits, *)
(* rollback puts back what it does not report, the clean-up leaves no      *)
(* temporary or backup path, and without a crash or a failing rename all   *)
(* targets are replaced or none.  For every number of runs, targets,       *)
(* failing calls, kills and power losses.                                  *)
(*                                                                         *)
(* And what a crash costs the runs that follow it, when no call fails: at  *)
(* most two failed runs a crash.                                           *)
(***************************************************************************)
EXTENDS FileCommitProofs, FiniteSetTheorems

Looping == {"create", "write", "sync", "stat", "backup", "replace"}

\* The target is as the run found it; its backup, if the journal has one, is
\* the file the run found.
Untouched(p, f) == fs[Target(f)] = before[p][f]
BackedUp(p, f)  == f \in journal[p].existed => fs[Backup(f)] = before[p][f]

\* The run met nothing that Prepare must turn down.
AllAccepted(p) == \A f \in Index : ~MustRefuse(p, f)

\* While the run goes through its targets: those before the current one are
\* committed, those after it as they were, the current one in between.
LoopState(p) ==
  /\ \A f \in Index : f < at[p] => f \in journal[p].committed /\ BackedUp(p, f)
  /\ \A f \in Index : f > at[p] => f \notin journal[p].committed /\ Untouched(p, f)
                                   /\ f \notin journal[p].existed
  /\ at[p] \notin journal[p].committed
  /\ pc[p] \in {"create", "write", "sync", "stat"} =>
       at[p] \notin journal[p].existed /\ Untouched(p, at[p])
  /\ pc[p] = "backup" => at[p] \in journal[p].existed /\ Untouched(p, at[p])
  /\ pc[p] = "replace" => IF at[p] \in journal[p].existed THEN BackedUp(p, at[p])
                                                          ELSE Untouched(p, at[p])

\* A committed target that rollback has dealt with.
Restored(p, f) == \/ Untouched(p, f)
                  \/ f \in unrestored[p] /\ BackedUp(p, f)
                  \/ Misread(p, f)

\* The target a run failed on: at most moved to its backup.
Interrupted(p, f) == \/ Untouched(p, f)
                     \/ f \in journal[p].existed /\ BackedUp(p, f)

RollbackState(p) ==
  /\ at[p] \in Index /\ step[p] < at[p]
  /\ \A f \in Index :
       /\ f < at[p] => f \in journal[p].committed
       /\ f <= step[p] => BackedUp(p, f)
       /\ step[p] < f /\ f < at[p] => Restored(p, f)
       /\ f > at[p] => Untouched(p, f)
  /\ at[p] \notin journal[p].committed /\ Interrupted(p, at[p])

\* How a failed run that wrote leaves the targets.
RolledBack(p) == \A f \in Index : \/ Untouched(p, f) \/ f \in unrestored[p]
                                  \/ f = at[p] /\ f \in journal[p].existed
                                  \/ Misread(p, f)

Refused(p) == journal[p] = NoEntry /\ (AllAccepted(p) \/ \A f \in Index : Untouched(p, f))

JournalInv(p) ==
  /\ pc[p] \in {"idle", "lock"} =>
       /\ journal[p] = NoEntry /\ at[p] = 1
       /\ \A f \in Index : before[p][f] = Absent
  /\ pc[p] = "check" =>
       /\ journal[p] = NoEntry
       /\ \A f \in Index : Untouched(p, f) /\ (f < at[p] => ~MustRefuse(p, f))
  /\ pc[p] \in Committing => AllAccepted(p)
  /\ pc[p] \in Looping => LoopState(p)
  /\ pc[p] = "rollback" => RollbackState(p)
  /\ pc[p] \in Sweeping => IF p \in failed THEN Refused(p) \/ (AllAccepted(p) /\ RolledBack(p))
                                           ELSE AllAccepted(p)

LEMMA NothingToRefuse ==
  ASSUME NEW p \in Proc, \A f \in Index : before[p][f] = Absent
  PROVE  AllAccepted(p)
BY ContentFacts DEF AllAccepted, MustRefuse

\* The step of one run of a serial mode leaves JournalInv of the others true.
LEMMA JournalFrame ==
  ASSUME SerialInv, Mode = "serial", NEW p \in Proc, Run(p), NEW q \in Proc, q # p,
         JournalInv(q)
  PROVE  JournalInv(q)'
<1>1. ~Running(q) /\ pc'[q] = pc[q]
  BY SerialStep DEF SerialInv
<1>2. pc[q] \notin {"lock", "check"} \cup Committing \cup Looping \cup Sweeping
  BY <1>1 DEF Running, Preparing, Committing, Looping, Sweeping
<1>3. before'[q] = before[q] /\ journal'[q] = journal[q] /\ at'[q] = at[q]
  <2>1. UNCHANGED before \/ before' = [before EXCEPT ![p] = [f \in Index |-> fs[Target(f)]]]
    BY DEF Run, Begin, AcquireLock, CheckTarget, CreateTemp, WriteTemp, SyncTemp,
           StatTarget, BackupTarget, ReplaceTarget, RollbackEntry, RollbackDone,
           SweepTemp, SweepBackup, RemoveLock
  <2>2. \/ UNCHANGED journal
        \/ \E j : journal' = [journal EXCEPT ![p] = j]
    BY DEF Run, Begin, AcquireLock, CheckTarget, CreateTemp, WriteTemp, SyncTemp, Refuse,
           StatTarget, BackupTarget, ReplaceTarget, RollbackEntry, RollbackDone,
           SweepTemp, SweepBackup, RemoveLock
  <2>3. UNCHANGED at \/ \E i : at' = [at EXCEPT ![p] = i]
    BY DEF Run, Begin, AcquireLock, CheckTarget, CreateTemp, WriteTemp, SyncTemp, fileVars,
           StatTarget, BackupTarget, ReplaceTarget, RollbackEntry, RollbackDone,
           SweepTemp, SweepBackup, RemoveLock
  <2> QED
    BY <2>1, <2>2, <2>3 DEF SerialInv, TypeInv, TypeOK
<1> QED
  BY <1>1, <1>2, <1>3 DEF JournalInv, Committing, Looping, Sweeping

LEMMA EmptyJournal ==
  NoEntry.opened = {} /\ NoEntry.existed = {} /\ NoEntry.committed = {}
BY DEF NoEntry

\* MkdirAll and Prepare.
LEMMA PrepareJournal ==
  ASSUME SerialInv, Mode = "serial", NEW p \in Proc, JournalInv(p),
         Begin(p) \/ AcquireLock(p) \/ CheckTarget(p)
  PROVE  JournalInv(p)'
<1> USE DEF Goto, fileVars
<1>0. /\ pc \in [Proc -> Label] /\ at \in [Proc -> 1..N+1] /\ before \in [Proc -> [Index -> Content]]
      /\ N \in Nat /\ N >= 1 /\ 1 \in Index /\ failed \subseteq Proc
      /\ pc[p] = "check" => at[p] \in Index
      /\ pc[p] \in {"lock", "check"} => p \notin failed
  BY ConstantFacts DEF SerialInv, TypeInv, TypeOK, IndexOK, Fresh, RunInv
<1>1. CASE Begin(p)
  <2>1. /\ pc[p] = "idle" /\ pc'[p] \in {"lock", "done"} /\ UNCHANGED <<journal, before, at>>
    BY <1>0, <1>1 DEF Begin
  <2> QED
    BY <2>1 DEF JournalInv, Committing, Looping, Sweeping
<1>2. CASE AcquireLock(p)
  <2>0. /\ pc[p] = "lock" /\ UNCHANGED <<journal, fs, at>> /\ journal[p] = NoEntry
        /\ at[p] = 1 /\ \A f \in Index : before[p][f] = Absent
    BY <1>2 DEF AcquireLock, Refuse, JournalInv
  <2>1. CASE Refuse(p) /\ UNCHANGED before
    <3>1. pc'[p] \in Sweeping /\ p \in failed'
      BY <1>0, <2>1 DEF Refuse, EnterCleanup, Sweeping
    <3>2. AllAccepted(p)'
      BY <2>0, <2>1, NothingToRefuse DEF AllAccepted, MustRefuse
    <3> QED
      BY <2>0, <3>1, <3>2 DEF JournalInv, Refused, Committing, Looping, Sweeping
  <2>2. CASE Goto(p, "check") /\ before' = [before EXCEPT ![p] = [f \in Index |-> fs[Target(f)]]]
    <3>1. pc'[p] = "check" /\ \A f \in Index : Untouched(p, f)'
      BY <1>0, <2>0, <2>2 DEF Untouched
    <3>2. \A f \in Index : ~(f < at'[p])
      BY <2>0 DEF Index
    <3> QED
      BY <2>0, <3>1, <3>2 DEF JournalInv, Committing, Looping, Sweeping
  <2> QED
    BY <1>2, <2>1, <2>2 DEF AcquireLock
<1>3. CASE CheckTarget(p)
  <2> DEFINE c == fs[Target(at[p])]
             accepted == c = Absent \/ (c.state # "unsafe" /\ p \in Forced)
  <2>0. /\ pc[p] = "check" /\ UNCHANGED <<journal, fs, before>> /\ journal[p] = NoEntry
        /\ \A f \in Index : Untouched(p, f) /\ (f < at[p] => ~MustRefuse(p, f))
    BY <1>3 DEF CheckTarget, Refuse, JournalInv
  <2>1. CASE Refuse(p)
    <3>1. pc'[p] \in Sweeping /\ p \in failed'
      BY <1>0, <2>1 DEF Refuse, EnterCleanup, Sweeping
    <3>2. \A f \in Index : Untouched(p, f)'
      BY <2>0 DEF Untouched
    <3> QED
      BY <2>0, <3>1, <3>2 DEF JournalInv, Refused, Committing, Looping, Sweeping
  <2>2. CASE /\ accepted
             /\ Goto(p, IF at[p] = N THEN "create" ELSE "check")
             /\ at' = [at EXCEPT ![p] = IF at[p] = N THEN 1 ELSE at[p] + 1]
    <3>1. ~MustRefuse(p, at[p])
      BY <1>0, <2>0, <2>2, ContentFacts DEF MustRefuse, Untouched
    <3>2. \A f \in Index : f <= at[p] => ~MustRefuse(p, f)'
      <4>1. \A f \in Index : MustRefuse(p, f)' <=> MustRefuse(p, f)
        BY <2>0 DEF MustRefuse
      <4>2. \A f \in Index : f <= at[p] => f < at[p] \/ f = at[p]
        <5>1. at[p] \in Index
          BY <1>0, <2>0
        <5> QED
          BY <5>1, ConstantFacts
      <4> QED
        <5> SUFFICES ASSUME NEW f \in Index, f <= at[p] PROVE ~MustRefuse(p, f)
          BY <4>1
        <5>1. f < at[p] \/ f = at[p]
          BY <4>2
        <5>2. CASE f = at[p]
          BY <3>1, <5>2
        <5>3. CASE f < at[p]
          BY <2>0, <5>3
        <5> QED
          BY <5>1, <5>2, <5>3
    <3>3. \A f \in Index : Untouched(p, f)'
      BY <2>0 DEF Untouched
    <3>4. CASE at[p] = N
      <4>1. pc'[p] = "create" /\ at'[p] = 1
        BY <1>0, <2>2, <3>4
      <4>2. AllAccepted(p)'
        BY <3>2, <3>4, ConstantFacts DEF AllAccepted
      <4>3. LoopState(p)'
        BY <1>0, <2>0, <3>3, <4>1, EmptyJournal, ConstantFacts DEF LoopState
      <4> QED
        BY <4>1, <4>2, <4>3 DEF JournalInv, Committing, Looping, Sweeping
    <3>5. CASE at[p] # N
      <4>1. pc'[p] = "check" /\ at'[p] = at[p] + 1
        BY <1>0, <2>2, <3>5
      <4>2. \A f \in Index : f < at'[p] => ~MustRefuse(p, f)'
        BY <1>0, <3>2, <4>1, ConstantFacts
      <4> QED
        BY <2>0, <3>3, <4>1, <4>2 DEF JournalInv, Committing, Looping, Sweeping
    <3> QED
      BY <3>4, <3>5
  <2> QED
    BY <1>3, <2>1, <2>2 DEF CheckTarget
<1> QED
  BY <1>1, <1>2, <1>3

\* Commit failed: rollback starts with every target it has to look at.
LEMMA FailJournal ==
  ASSUME SerialInv, NEW p \in Proc, pc[p] \in Looping, JournalInv(p), Fail(p),
         UNCHANGED <<at, before>>,
         \A f \in Index : fs'[Target(f)] = fs[Target(f)] /\ fs'[Backup(f)] = fs[Backup(f)],
         journal'[p].existed = journal[p].existed, journal'[p].committed = journal[p].committed
  PROVE  JournalInv(p)'
<1>0. /\ at[p] \in Index /\ pc'[p] = "rollback" /\ step'[p] = at[p] - 1
      /\ N \in Nat /\ AllAccepted(p) /\ LoopState(p)
  BY ConstantFacts DEF SerialInv, TypeInv, TypeOK, IndexOK, Fail, Goto, JournalInv, Looping,
     Committing
<1>1. \A f \in Index : /\ Untouched(p, f)' <=> Untouched(p, f)
                       /\ BackedUp(p, f)' <=> BackedUp(p, f)
  BY DEF Untouched, BackedUp
<1>2. AllAccepted(p)'
  BY <1>0 DEF AllAccepted, MustRefuse
<1>3. Interrupted(p, at[p])
  BY <1>0 DEF LoopState, Interrupted, Looping
<1>4. RollbackState(p)'
  BY <1>0, <1>1, <1>3, ConstantFacts DEF RollbackState, LoopState, Interrupted
<1> QED
  BY <1>0, <1>2, <1>4 DEF JournalInv, Committing, Looping, Sweeping

\* The steps of Commit's loop that leave the targets, the backups and the
\* committed entries alone, other than failures.
LEMMA LoopJournal ==
  ASSUME SerialInv, NEW p \in Proc, JournalInv(p),
         CreateTemp(p) \/ WriteTemp(p) \/ SyncTemp(p) \/ StatTarget(p)
  PROVE  JournalInv(p)'
<1> USE DEF Goto, fileVars
<1>0. /\ pc[p] \in Looping /\ at[p] \in Index /\ UNCHANGED <<at, before>>
      /\ pc \in [Proc -> Label] /\ fs \in [Path -> Content] /\ journal \in [Proc -> Journal]
      /\ AllAccepted(p) /\ LoopState(p)
  <2>1. /\ pc[p] \in {"create", "write", "sync", "stat"} /\ UNCHANGED <<at, before>>
    BY DEF CreateTemp, WriteTemp, SyncTemp, StatTarget
  <2> QED
    BY <2>1 DEF SerialInv, TypeInv, TypeOK, IndexOK, JournalInv, Looping, Committing
<1>1. \A f \in Index : fs'[Target(f)] = fs[Target(f)] /\ fs'[Backup(f)] = fs[Backup(f)]
  <2>1. CASE UNCHANGED fs
    BY <2>1
  <2>2. CASE fs' = [fs EXCEPT ![Temp(at[p])] = By(p, "partial")]
    BY <1>0, <2>2, PathFacts, ConstantFacts
  <2>3. CASE WriteTemp(p) /\ Touch(p, at[p], "partial", "written")
    <3>1. \A f \in Index : fs[Target(f)] # By(p, "partial") /\ fs[Backup(f)] # By(p, "partial")
      BY ContentFacts DEF SerialInv, HalfOnlyTemp
    <3> QED
      BY <1>0, <2>3, <3>1, TouchEffect, ConstantFacts
  <2>4. CASE SyncTemp(p) /\ Touch(p, at[p], "written", "durable")
    <3>1. \A f \in Index : fs[Target(f)] # By(p, "written") /\ fs[Backup(f)] # By(p, "written")
      BY ContentFacts DEF SerialInv, HalfOnlyTemp
    <3> QED
      BY <1>0, <2>4, <3>1, TouchEffect, ConstantFacts
  <2> QED
    BY <2>1, <2>2, <2>3, <2>4 DEF CreateTemp, WriteTemp, SyncTemp, StatTarget
<1>2. journal'[p].committed = journal[p].committed
  BY <1>0 DEF CreateTemp, WriteTemp, SyncTemp, StatTarget, Journal
<1>3. \A f \in Index : Untouched(p, f)' <=> Untouched(p, f)
  BY <1>0, <1>1 DEF Untouched
<1>4. AllAccepted(p)'
  BY <1>0 DEF AllAccepted, MustRefuse
<1>5. CASE CreateTemp(p) \/ WriteTemp(p) \/ SyncTemp(p)
  <2>1. journal'[p].existed = journal[p].existed /\ pc[p] \in {"create", "write", "sync"}
    BY <1>0, <1>5 DEF CreateTemp, WriteTemp, SyncTemp, Journal
  <2>2. CASE Fail(p)
    BY <1>0, <1>1, <1>2, <2>1, <2>2, FailJournal
  <2>3. CASE pc'[p] \in {"write", "sync", "stat"}
    <3>1. \A f \in Index : BackedUp(p, f)' <=> BackedUp(p, f)
      BY <1>0, <1>1, <2>1 DEF BackedUp
    <3>2. LoopState(p)'
      BY <1>0, <1>2, <1>3, <2>1, <2>3, <3>1 DEF LoopState
    <3> QED
      BY <1>4, <2>3, <3>2 DEF JournalInv, Committing, Looping, Sweeping
  <2>4. Fail(p) \/ pc'[p] \in {"write", "sync", "stat"}
    BY <1>0, <1>5 DEF CreateTemp, WriteTemp, SyncTemp
  <2> QED
    BY <2>2, <2>3, <2>4
<1>6. CASE StatTarget(p)
  <2>1. pc[p] = "stat" /\ at[p] \notin journal[p].existed /\ Untouched(p, at[p])
    BY <1>0, <1>6 DEF StatTarget, LoopState
  <2>2. CASE /\ journal' = [journal EXCEPT ![p].existed = @ \cup {at[p]}]
             /\ Goto(p, "backup")
    <3>1. pc'[p] = "backup" /\ journal'[p].existed = journal[p].existed \cup {at[p]}
      BY <1>0, <2>2 DEF Journal
    <3>2. \A f \in Index : f < at[p] => BackedUp(p, f)'
      <4>1. \A f \in Index : f < at[p] => f # at[p]
        BY <1>0, ConstantFacts
      <4> QED
        BY <1>0, <1>1, <3>1, <4>1 DEF LoopState, BackedUp
    <3>3. \A f \in Index : f > at[p] => f \notin journal'[p].existed
      <4>1. \A f \in Index : f > at[p] => f # at[p]
        BY <1>0, ConstantFacts
      <4> QED
        BY <1>0, <3>1, <4>1 DEF LoopState
    <3>4. LoopState(p)'
      BY <1>0, <1>2, <1>3, <2>1, <3>1, <3>2, <3>3 DEF LoopState
    <3> QED
      BY <1>4, <3>1, <3>4 DEF JournalInv, Committing, Looping, Sweeping
  <2>3. CASE Goto(p, "replace") /\ UNCHANGED journal
    <3>1. pc'[p] = "replace" /\ \A f \in Index : BackedUp(p, f)' <=> BackedUp(p, f)
      BY <1>0, <1>1, <2>3 DEF BackedUp
    <3>2. LoopState(p)'
      BY <1>0, <1>2, <1>3, <2>1, <2>3, <3>1 DEF LoopState
    <3> QED
      BY <1>4, <3>1, <3>2 DEF JournalInv, Committing, Looping, Sweeping
  <2> QED
    BY <1>6, <2>2, <2>3 DEF StatTarget
<1> QED
  BY <1>5, <1>6

\* The two renames of Commit's loop.
LEMMA RenameJournal ==
  ASSUME SerialInv, NEW p \in Proc, JournalInv(p), BackupTarget(p) \/ ReplaceTarget(p)
  PROVE  JournalInv(p)'
<1> USE DEF Goto, fileVars
<1>0. /\ pc[p] \in Looping /\ at[p] \in Index /\ UNCHANGED before /\ N \in Nat
      /\ pc \in [Proc -> Label] /\ fs \in [Path -> Content] /\ journal \in [Proc -> Journal]
      /\ at \in [Proc -> 1..N+1] /\ AllAccepted(p) /\ LoopState(p)
  <2>1. /\ pc[p] \in {"backup", "replace"} /\ UNCHANGED before
    BY DEF BackupTarget, ReplaceTarget
  <2> QED
    BY <2>1, ConstantFacts
       DEF SerialInv, TypeInv, TypeOK, IndexOK, JournalInv, Looping, Committing
<1>1. AllAccepted(p)'
  BY <1>0 DEF AllAccepted, MustRefuse
<1>2. CASE Fail(p) /\ UNCHANGED <<fs, journal, at>>
  BY <1>0, <1>2, FailJournal
<1>3. CASE /\ BackupTarget(p) /\ Move(Target(at[p]), Backup(at[p]))
           /\ Goto(p, "replace") /\ UNCHANGED <<journal, at>>
  <2>1. pc'[p] = "replace" /\ at[p] \in journal[p].existed /\ Untouched(p, at[p])
    BY <1>0, <1>3 DEF BackupTarget, LoopState
  <2>2. /\ fs'[Backup(at[p])] = fs[Target(at[p])]
        /\ \A f \in Index : f # at[p] => /\ fs'[Target(f)] = fs[Target(f)]
                                         /\ fs'[Backup(f)] = fs[Backup(f)]
    BY <1>0, <1>3, MoveEffect, PathFacts, ConstantFacts
  <2>3. BackedUp(p, at[p])'
    BY <1>0, <1>3, <2>1, <2>2 DEF BackedUp, Untouched
  <2>4. \A f \in Index : f # at[p] => /\ Untouched(p, f)' <=> Untouched(p, f)
                                      /\ BackedUp(p, f)' <=> BackedUp(p, f)
    BY <1>0, <1>3, <2>2 DEF BackedUp, Untouched
  <2>5. \A f \in Index : f < at[p] \/ f > at[p] => f # at[p]
    BY <1>0, ConstantFacts
  <2>6. LoopState(p)'
    BY <1>0, <1>3, <2>1, <2>3, <2>4, <2>5 DEF LoopState
  <2> QED
    BY <1>1, <2>1, <2>6 DEF JournalInv, Committing, Looping, Sweeping
<1>4. CASE /\ ReplaceTarget(p) /\ Move(Temp(at[p]), Target(at[p]))
           /\ journal' = [journal EXCEPT ![p].committed = @ \cup {at[p]}]
           /\ at' = [at EXCEPT ![p] = at[p] + 1] /\ UNCHANGED failed
           /\ IF at[p] = N THEN EnterCleanup(p) ELSE Goto(p, "create")
  <2>1. /\ p \notin failed'
        /\ at[p] \in journal[p].existed => BackedUp(p, at[p])
    BY <1>4 , <1>0 DEF ReplaceTarget, SerialInv, RunInv, LoopState
  <2>2. CASE at[p] = N
    <3>1. pc'[p] \in Sweeping
      BY <1>0, <1>4, <2>2 DEF EnterCleanup, Sweeping
    <3> QED
      BY <1>1, <2>1, <3>1 DEF JournalInv, Committing, Looping, Sweeping
  <2>3. CASE at[p] # N
    <3>1. /\ pc'[p] = "create" /\ at'[p] = at[p] + 1 /\ at'[p] \in Index
          /\ journal'[p].existed = journal[p].existed
          /\ journal'[p].committed = journal[p].committed \cup {at[p]}
      BY <1>0, <1>4, <2>3, ConstantFacts, IndexFacts DEF Journal
    <3>2. \A f \in Index : /\ f # at[p] => fs'[Target(f)] = fs[Target(f)]
                           /\ fs'[Backup(f)] = fs[Backup(f)]
      BY <1>0, <1>4, MoveEffect, PathFacts, ConstantFacts
    <3>3. \A f \in Index : /\ f # at[p] => Untouched(p, f)' <=> Untouched(p, f)
                           /\ BackedUp(p, f)' <=> BackedUp(p, f)
      BY <1>0, <3>1, <3>2 DEF Untouched, BackedUp
    <3>4. BackedUp(p, at[p])
      BY <2>1 DEF BackedUp
    <3>5. \A f \in Index : f < at'[p] => f < at[p] \/ f = at[p]
      BY <1>0, <3>1, ConstantFacts
    <3>6. \A f \in Index : f >= at'[p] => f > at[p] /\ f # at[p]
      BY <1>0, <3>1, ConstantFacts
    <3>7. \A f \in Index : f < at'[p] => f \in journal'[p].committed /\ BackedUp(p, f)'
      BY <1>0, <3>1, <3>3, <3>4, <3>5 DEF LoopState
    <3>8. \A f \in Index : f >= at'[p] => /\ f \notin journal'[p].committed
                                          /\ f \notin journal'[p].existed
                                          /\ Untouched(p, f)'
      BY <1>0, <3>1, <3>3, <3>6 DEF LoopState
    <3>9. \A f \in Index : f > at'[p] => f >= at'[p]
      BY <3>1, ConstantFacts
    <3>10. at'[p] >= at'[p]
      BY <3>1, ConstantFacts
    <3>11. LoopState(p)'
      BY <3>1, <3>7, <3>8, <3>9, <3>10 DEF LoopState
    <3> QED
      BY <1>1, <3>1, <3>11 DEF JournalInv, Committing, Looping, Sweeping
  <2> QED
    BY <2>2, <2>3
<1> QED
  BY <1>2, <1>3, <1>4 DEF BackupTarget, ReplaceTarget

\* One entry of rollback, and its end.
LEMMA RollbackJournal ==
  ASSUME SerialInv, NEW p \in Proc, JournalInv(p), RollbackEntry(p) \/ RollbackDone(p)
  PROVE  JournalInv(p)'
<1> USE DEF Goto, fileVars
<1>0. /\ pc[p] = "rollback" /\ p \in failed /\ UNCHANGED <<at, journal, failed, before>>
      /\ pc \in [Proc -> Label] /\ fs \in [Path -> Content] /\ step \in [Proc -> 0..N]
      /\ unrestored \in [Proc -> SUBSET Index]
      /\ N \in Nat /\ at[p] \in Index /\ AllAccepted(p) /\ RollbackState(p)
  <2>1. pc[p] = "rollback" /\ UNCHANGED <<at, journal, failed, before>>
    BY DEF RollbackEntry, RollbackDone
  <2> QED
    BY <2>1, ConstantFacts
       DEF SerialInv, TypeInv, TypeOK, RunInv, JournalInv, RollbackState, Committing
<1>1. AllAccepted(p)'
  BY <1>0 DEF AllAccepted, MustRefuse
<1>2. CASE RollbackDone(p)
  <2>1. pc'[p] \in Sweeping /\ step[p] = 0 /\ UNCHANGED <<fs, unrestored>>
    BY <1>0, <1>2 DEF RollbackDone, EnterCleanup, Sweeping
  <2>2. ASSUME NEW f \in Index
        PROVE  Untouched(p, f) \/ f \in unrestored[p] \/ Misread(p, f)
               \/ (f = at[p] /\ f \in journal[p].existed)
    <3>1. 0 < f /\ (f < at[p] \/ f = at[p] \/ f > at[p])
      BY <1>0, ConstantFacts
    <3> QED
      BY <1>0, <2>1, <3>1 DEF RollbackState, Restored, Interrupted
  <2>3. RolledBack(p)'
    BY <1>0, <2>1, <2>2 DEF RolledBack, Untouched, Misread
  <2> QED
    BY <1>0, <1>1, <2>1, <2>3 DEF JournalInv, Committing, Looping, Sweeping
<1>3. CASE RollbackEntry(p)
  <2>f. PICK f \in Index : f = step[p]
    BY <1>0, <1>3, IndexFacts DEF RollbackEntry
  <2>0. /\ step'[p] = f - 1 /\ UNCHANGED pc /\ f < at[p]
        /\ f \in journal[p].committed /\ BackedUp(p, f)
    <3>1. step'[p] = f - 1 /\ UNCHANGED pc
      BY <1>0, <1>3, <2>f DEF RollbackEntry
    <3>2. f <= step[p]
      BY <2>f, ConstantFacts
    <3> QED
      BY <1>0, <2>f, <3>1, <3>2 DEF RollbackState
  <2>a. /\ \A g \in Index : g # f => /\ fs'[Target(g)] = fs[Target(g)]
                                     /\ fs'[Backup(g)] = fs[Backup(g)]
                                     /\ g \in unrestored'[p] <=> g \in unrestored[p]
        /\ \/ UNCHANGED fs /\ f \in unrestored'[p]
           \/ f \in journal[p].existed /\ fs'[Target(f)] = fs[Backup(f)]
           \/ f \notin journal[p].existed /\ fs'[Target(f)] = Absent
    <3>1. CASE UNCHANGED fs /\ unrestored' = [unrestored EXCEPT ![p] = @ \cup {f}]
      BY <1>0, <3>1
    <3>2. CASE f \in journal[p].existed /\ Move(Backup(f), Target(f)) /\ UNCHANGED unrestored
      BY <1>0, <2>0, <3>2, MoveEffect, PathFacts, ConstantFacts
    <3>3. CASE f \notin journal[p].existed /\ Delete(Target(f)) /\ UNCHANGED unrestored
      BY <1>0, <2>0, <3>3, DeleteEffect, PathFacts, ConstantFacts
    <3> QED
      BY <1>3, <2>f, <2>0, <3>1, <3>2, <3>3 DEF RollbackEntry
  <2>b. Restored(p, f)'
    <3>1. CASE UNCHANGED fs /\ f \in unrestored'[p]
      <4>1. BackedUp(p, f)'
        BY <1>0, <2>0, <3>1 DEF BackedUp
      <4> QED
        BY <2>0, <3>1, <4>1 DEF Restored
    <3>2. CASE f \in journal[p].existed /\ fs'[Target(f)] = fs[Backup(f)]
      <4>1. Untouched(p, f)'
        BY <1>0, <2>0, <3>2 DEF BackedUp, Untouched
      <4> QED
        BY <4>1 DEF Restored
    <3>3. CASE f \notin journal[p].existed /\ fs'[Target(f)] = Absent
      <4>1. Untouched(p, f)' \/ Misread(p, f)'
        BY <1>0, <2>0, <3>3 DEF Misread, Untouched
      <4> QED
        BY <4>1 DEF Restored
    <3> QED
      BY <2>a, <3>1, <3>2, <3>3
  <2>1. \A g \in Index : g # f => /\ Untouched(p, g)' <=> Untouched(p, g)
                                  /\ BackedUp(p, g)' <=> BackedUp(p, g)
                                  /\ g \in unrestored'[p] <=> g \in unrestored[p]
    BY <1>0, <2>a DEF Untouched, BackedUp
  <2>2. \A g \in Index : g # f => Restored(p, g)' <=> Restored(p, g)
    BY <1>0, <2>1 DEF Restored, Misread
  <2>3. ASSUME NEW g \in Index
        PROVE  /\ g <= step'[p] => BackedUp(p, g)'
               /\ step'[p] < g /\ g < at[p] => Restored(p, g)'
               /\ g > at[p] => Untouched(p, g)'
    <3>1. /\ g <= step'[p] => g <= f /\ g # f
          /\ step'[p] < g => f < g \/ g = f
          /\ g > at[p] => g # f
      BY <1>0, <2>f, <2>0, ConstantFacts
    <3> QED
      BY <1>0, <2>f, <2>b, <2>1, <2>2, <3>1 DEF RollbackState
  <2>4. Interrupted(p, at[p])'
    <3>1. at[p] # f
      BY <1>0, <2>0, ConstantFacts
    <3> QED
      BY <1>0, <2>1, <3>1 DEF RollbackState, Interrupted
  <2>5. step'[p] < at[p]
    BY <1>0, <2>0, ConstantFacts
  <2>6. RollbackState(p)'
    BY <1>0, <2>3, <2>4, <2>5 DEF RollbackState
  <2> QED
    BY <1>0, <1>1, <2>0, <2>6 DEF JournalInv, Committing, Looping, Sweeping
<1> QED
  BY <1>2, <1>3

\* Cleanup touches no target.
LEMMA SweepJournal ==
  ASSUME SerialInv, NEW p \in Proc, JournalInv(p),
         SweepTemp(p) \/ SweepBackup(p) \/ RemoveLock(p)
  PROVE  JournalInv(p)'
<1> USE DEF Goto
<1>0. /\ pc[p] \in Sweeping /\ UNCHANGED <<at, journal, failed, before, unrestored>>
      /\ pc'[p] \in Sweeping \cup {"done"} /\ fs \in [Path -> Content] /\ step[p] \in 0..N
      /\ pc[p] \in {"sweepTemp", "sweepBackup"} => step[p] \in Index
  BY DEF SweepTemp, SweepBackup, RemoveLock, Sweeping, SerialInv, TypeInv, TypeOK, IndexOK
<1>1. \A f \in Index : fs'[Target(f)] = fs[Target(f)]
  <2>1. CASE UNCHANGED fs
    BY <2>1
  <2>2. CASE step[p] \in Index /\ (Delete(Temp(step[p])) \/ Delete(Backup(step[p])))
    BY <1>0, <2>2, DeleteEffect, PathFacts, ConstantFacts
  <2> QED
    BY <1>0, <2>1, <2>2 DEF SweepTemp, SweepBackup, RemoveLock, Sweep
<1>2. \A f \in Index : Untouched(p, f)' <=> Untouched(p, f)
  BY <1>0, <1>1 DEF Untouched
<1>3. /\ AllAccepted(p) => AllAccepted(p)'
      /\ Refused(p) => Refused(p)'
      /\ RolledBack(p) => RolledBack(p)'
  BY <1>0, <1>2 DEF AllAccepted, MustRefuse, Refused, RolledBack, Misread
<1> QED
  BY <1>0, <1>3 DEF JournalInv, Committing, Looping, Sweeping

JournalsInv == SerialInv /\ \A p \in Proc : JournalInv(p)

LEMMA NextJournalsInv ==
  ASSUME JournalsInv, Mode = "serial", [Next]_vars
  PROVE  JournalsInv'
<1>1. SerialInv'
  BY NextSerialInv DEF JournalsInv
<1>2. ASSUME NEW p \in Proc, Run(p) PROVE JournalsInv'
  <2>1. JournalInv(p)'
    BY <1>2, PrepareJournal, LoopJournal, RenameJournal, RollbackJournal, SweepJournal
       DEF Run, JournalsInv
  <2>2. \A q \in Proc : q # p => JournalInv(q)'
    BY <1>2, JournalFrame DEF JournalsInv
  <2> QED
    BY <1>1, <2>1, <2>2 DEF JournalsInv
<1>3. ASSUME NEW p \in Proc, Kill(p) PROVE JournalsInv'
  <2>1. /\ UNCHANGED <<fs, at, step, journal, failed, unrestored, before>>
        /\ pc'[p] = "crashed" /\ \A q \in Proc : q # p => pc'[q] = pc[q]
    BY <1>3 DEF Kill, Goto, fileVars, JournalsInv, SerialInv, TypeInv, TypeOK
  <2>2. JournalInv(p)'
    BY <2>1 DEF JournalInv, Committing, Looping, Sweeping
  <2>3. \A q \in Proc : q # p => JournalInv(q)'
    BY <2>1 DEF JournalsInv, JournalInv, LoopState, RollbackState, Refused, RolledBack,
       AllAccepted, MustRefuse, Untouched, BackedUp, Restored, Interrupted, Misread
  <2> QED
    BY <1>1, <2>2, <2>3 DEF JournalsInv
<1>4. ASSUME PowerLoss PROVE JournalsInv'
  <2>1. /\ UNCHANGED <<at, journal, before>>
        /\ \A q \in Proc : ~Running(q)' /\ (pc'[q] = pc[q] \/ pc'[q] = "crashed")
    BY <1>4 DEF PowerLoss, Running, Preparing, Committing, Sweeping
  <2>2. \A q \in Proc : JournalInv(q)'
    BY <2>1 DEF JournalsInv, JournalInv, Running, Preparing, Committing, Looping, Sweeping
  <2> QED
    BY <1>1, <2>2 DEF JournalsInv
<1>5. CASE UNCHANGED vars
  <2>1. UNCHANGED <<fs, pc, at, step, journal, failed, unrestored, before>>
    BY <1>5 DEF vars, fileVars, runVars
  <2>2. \A q \in Proc : JournalInv(q)'
    BY <2>1 DEF JournalsInv, JournalInv, LoopState, RollbackState, Refused, RolledBack,
       AllAccepted, MustRefuse, Untouched, BackedUp, Restored, Interrupted, Misread
  <2> QED
    BY <1>1, <2>2 DEF JournalsInv
<1> QED
  BY <1>2, <1>3, <1>4, <1>5 DEF Next, Terminated

LEMMA JournalsInvariant == ASSUME Mode = "serial" PROVE Spec => []JournalsInv
<1>1. Init => JournalsInv
  <2> SUFFICES ASSUME Init PROVE JournalsInv
    OBVIOUS
  <2>1. \A p \in Proc : /\ pc[p] = "idle" /\ journal[p] = NoEntry /\ at[p] = 1
                        /\ \A f \in Index : before[p][f] = Absent
    BY DEF Init
  <2> QED
    BY <2>1, InitSerialInv DEF JournalsInv, JournalInv, Committing, Looping, Sweeping
<1> QED
  BY <1>1, NextJournalsInv, PTL DEF Spec

\* A run that meets a target it must refuse, the last one included, has
\* journaled nothing and touched no target, whatever else fails.
THEOREM RefusalIsClean ==
  ASSUME Mode = "serial" PROVE Spec => []RefusalTouchesNothing
<1>1. ASSUME JournalsInv, NEW p \in Proc, Running(p), NEW f \in Index, MustRefuse(p, f)
      PROVE  journal[p] = NoEntry /\ \A g \in Index : fs[Target(g)] = before[p][g]
  <2>1. ~AllAccepted(p)
    BY <1>1 DEF AllAccepted
  <2>2. pc[p] # "lock" /\ pc[p] \notin Committing
    BY <1>1, <2>1, NothingToRefuse DEF JournalsInv, JournalInv
  <2>3. pc[p] = "check" \/ pc[p] \in Sweeping
    BY <1>1, <2>2 DEF Running, Preparing
  <2> QED
    BY <1>1, <2>1, <2>3 DEF JournalsInv, JournalInv, Refused, Untouched, Sweeping
<1>2. JournalsInv => RefusalTouchesNothing
  BY <1>1 DEF RefusalTouchesNothing
<1> QED
  BY <1>2, JournalsInvariant, PTL

\* Once rollback is over, a target that is not as it was is one the run
\* reports, the one it failed on, or one whose existence it misread.
THEOREM RollbackIsExact ==
  ASSUME Mode = "serial" PROVE Spec => []RollbackRestores
<1>1. JournalsInv => RollbackRestores
  BY EmptyJournal DEF JournalsInv, JournalInv, Refused, RolledBack, Untouched, RollbackRestores
<1> QED
  BY <1>1, JournalsInvariant, PTL

\* At every moment of a commit each previous file is in place or in its
\* backup, so that a kill at any point loses none.
THEOREM OriginalsSurvive ==
  ASSUME Mode = "serial" PROVE Spec => []OriginalsRecoverable
<1>1. ASSUME JournalsInv, NEW p \in Proc, pc[p] \in Committing, NEW f \in Index
      PROVE  before[p][f] \in {Absent, fs[Target(f)], fs[Backup(f)]} \/ Misread(p, f)
  <2>1. JournalInv(p)
    BY <1>1 DEF JournalsInv
  <2>2. Untouched(p, f) => before[p][f] = fs[Target(f)]
    BY DEF Untouched
  <2>3. BackedUp(p, f) /\ f \in journal[p].committed =>
          before[p][f] \in {Absent, fs[Backup(f)]} \/ Misread(p, f)
    BY DEF BackedUp, Misread
  <2>4. BackedUp(p, f) /\ f \in journal[p].existed => before[p][f] = fs[Backup(f)]
    BY DEF BackedUp
  <2>5. CASE pc[p] \in Looping
    <3>1. LoopState(p) /\ at[p] \in Index
      BY <1>1, <2>1, <2>5 DEF JournalInv, JournalsInv, SerialInv, TypeInv, IndexOK, Looping
    <3>2. f < at[p] \/ f = at[p] \/ f > at[p]
      BY <3>1, ConstantFacts
    <3>3. CASE f = at[p]
      BY <2>2, <2>4, <2>5, <3>1, <3>3 DEF LoopState, Looping
    <3> QED
      BY <2>2, <2>3, <3>1, <3>2, <3>3 DEF LoopState
  <2>6. CASE pc[p] = "rollback"
    <3>1. RollbackState(p) /\ step[p] \in 0..N /\ N \in Nat
      BY <1>1, <2>1, <2>6, ConstantFacts DEF JournalInv, JournalsInv, SerialInv, TypeInv, TypeOK
    <3>2. \/ f > at[p] \/ f = at[p]
          \/ f < at[p] /\ (f <= step[p] \/ step[p] < f)
      BY <3>1, ConstantFacts DEF RollbackState
    <3>3. CASE f = at[p]
      BY <2>2, <2>4, <3>1, <3>3 DEF RollbackState, Interrupted
    <3>4. CASE f < at[p] /\ step[p] < f
      BY <2>2, <2>3, <3>1, <3>4 DEF RollbackState, Restored
    <3> QED
      BY <2>2, <2>3, <3>1, <3>2, <3>3, <3>4 DEF RollbackState
  <2> QED
    BY <1>1, <2>5, <2>6 DEF Committing, Looping
<1>2. JournalsInv => OriginalsRecoverable
  BY <1>1 DEF OriginalsRecoverable
<1> QED
  BY <1>2, JournalsInvariant, PTL

-----------------------------------------------------------------------------
(* The clean-up loop stops at the first target without an entry: that it    *)
(* misses none rests on the entries being those of the first targets.       *)

Swept(p, f) == /\ ~Exists(Temp(f))
               /\ f \in journal[p].existed => ~Exists(Backup(f))

UpTo(k) == {f \in Index : f <= k}

ResidueInv(p) ==
  /\ pc[p] \in {"idle", "lock", "check"} => journal[p] = NoEntry
  /\ pc[p] = "create" => journal[p].opened = UpTo(at[p] - 1)
  /\ pc[p] \in Committing \ {"create"} => at[p] \in Index /\ journal[p].opened = UpTo(at[p])
  /\ pc[p] \in Sweeping => \E k \in 0..N : journal[p].opened = UpTo(k)
  /\ pc[p] \in {"sweepTemp", "sweepBackup"} => step[p] \in journal[p].opened
  /\ pc[p] \in Sweeping /\ p \notin unclean =>
       \A f \in journal[p].opened : f < step[p] \/ pc[p] = "unlock" => Swept(p, f)
  /\ pc[p] = "sweepBackup" /\ p \notin unclean => ~Exists(Temp(step[p]))

LEMMA UpToFacts ==
  /\ UpTo(0) = {} /\ UpTo(1 - 1) = {}
  /\ \A k \in Index : /\ UpTo(k - 1) \cup {k} = UpTo(k) /\ UpTo(k) = UpTo(k + 1 - 1)
                      /\ k \in 0..N
  /\ \A k \in 0..N, f \in Index : f \in UpTo(k) <=> f <= k
BY ConstantFacts DEF UpTo, Index

\* Where Cleanup starts, nothing has been swept.
LEMMA EnterResidue ==
  ASSUME TypeInv, NEW p \in Proc, EnterCleanup(p), NEW k \in 0..N, journal'[p].opened = UpTo(k)
  PROVE  ResidueInv(p)'
<1>1. /\ step'[p] = 1 /\ 1 \in Index /\ \A f \in Index : ~(f < 1)
      /\ \/ pc'[p] = "sweepTemp" /\ 1 \in journal'[p].opened
         \/ pc'[p] = "unlock" /\ 1 \notin journal'[p].opened
  BY ConstantFacts DEF EnterCleanup, Goto, TypeInv, TypeOK
<1>2. journal'[p].opened \subseteq Index
  BY DEF UpTo
<1>3. CASE pc'[p] = "unlock"
  <2>1. journal'[p].opened = {}
    BY <1>1, <1>3, ConstantFacts DEF UpTo
  <2> QED
    BY <1>1, <1>3, <2>1 DEF ResidueInv, Committing, Sweeping
<1> QED
  BY <1>1, <1>2, <1>3 DEF ResidueInv, Committing, Sweeping

\* Begin, Prepare and the commit loop.
LEMMA CommitResidue ==
  ASSUME SerialInv, NEW p \in Proc, ResidueInv(p),
         \/ Begin(p) \/ AcquireLock(p) \/ CheckTarget(p) \/ CreateTemp(p) \/ WriteTemp(p)
         \/ SyncTemp(p) \/ StatTarget(p) \/ BackupTarget(p) \/ ReplaceTarget(p)
         \/ RollbackEntry(p) \/ RollbackDone(p)
  PROVE  ResidueInv(p)'
<1> USE DEF Goto, fileVars
<1>0. /\ pc \in [Proc -> Label] /\ at \in [Proc -> 1..N+1] /\ journal \in [Proc -> Journal]
      /\ TypeInv /\ N \in Nat /\ 0 \in 0..N
      /\ pc[p] \in {"check", "create", "write", "sync", "stat", "backup", "replace"}
           => at[p] \in Index
  BY ConstantFacts DEF SerialInv, TypeInv, TypeOK, IndexOK
<1>1. CASE Begin(p)
  <2>1. pc[p] = "idle" /\ pc'[p] \in {"lock", "done"} /\ UNCHANGED journal
    BY <1>0, <1>1 DEF Begin
  <2> QED
    BY <2>1 DEF ResidueInv, Committing, Sweeping
<1>2. CASE AcquireLock(p) \/ CheckTarget(p)
  <2>1. pc[p] \in {"lock", "check"} /\ UNCHANGED journal /\ journal[p] = NoEntry
    BY <1>2 DEF AcquireLock, CheckTarget, Refuse, ResidueInv
  <2>2. CASE Refuse(p)
    BY <1>0, <2>1, <2>2, EnterResidue, EmptyJournal, UpToFacts DEF Refuse
  <2>3. CASE pc'[p] = "check"
    BY <2>1, <2>3 DEF ResidueInv, Committing, Sweeping
  <2>4. CASE pc'[p] = "create" /\ at'[p] = 1
    <3>1. journal'[p].opened = UpTo(at'[p] - 1)
      BY <2>1, <2>4, EmptyJournal, UpToFacts
    <3> QED
      BY <2>4, <3>1 DEF ResidueInv, Committing, Sweeping
  <2>5. Refuse(p) \/ pc'[p] = "check" \/ (pc'[p] = "create" /\ at'[p] = 1)
    BY <1>0, <1>2 DEF AcquireLock, CheckTarget
  <2> QED
    BY <2>2, <2>3, <2>4, <2>5
<1>3. CASE CreateTemp(p)
  <2>1. /\ pc[p] = "create" /\ pc'[p] \in {"write", "rollback"} /\ UNCHANGED at
        /\ journal'[p].opened = journal[p].opened \cup {at[p]} /\ at[p] \in Index
    BY <1>0, <1>3 DEF CreateTemp, Fail, Journal
  <2>2. journal'[p].opened = UpTo(at[p])
    BY <2>1, UpToFacts DEF ResidueInv
  <2> QED
    BY <2>1, <2>2 DEF ResidueInv, Committing, Sweeping
<1>4. CASE WriteTemp(p) \/ SyncTemp(p) \/ StatTarget(p) \/ BackupTarget(p) \/ RollbackEntry(p)
  <2>1. /\ pc[p] \in Committing \ {"create"} /\ pc'[p] \in Committing \ {"create"}
        /\ UNCHANGED at /\ journal'[p].opened = journal[p].opened
    BY <1>0, <1>4 DEF WriteTemp, SyncTemp, StatTarget, BackupTarget, RollbackEntry, Fail,
       Committing, Journal
  <2> QED
    BY <2>1 DEF ResidueInv, Committing, Sweeping
<1>5. CASE ReplaceTarget(p)
  <2>1. /\ pc[p] = "replace" /\ at[p] \in Index /\ journal[p].opened = UpTo(at[p])
        /\ journal'[p].opened = journal[p].opened
    BY <1>0, <1>5 DEF ReplaceTarget, ResidueInv, Committing, Journal
  <2>2. CASE Fail(p) /\ UNCHANGED at
    BY <1>0, <2>1, <2>2 DEF Fail, ResidueInv, Committing, Sweeping
  <2>3. CASE EnterCleanup(p)
    BY <1>0, <2>1, <2>3, EnterResidue, UpToFacts
  <2>4. CASE Goto(p, "create") /\ at' = [at EXCEPT ![p] = at[p] + 1]
    <3>1. pc'[p] = "create" /\ journal'[p].opened = UpTo(at'[p] - 1)
      BY <1>0, <2>1, <2>4, UpToFacts
    <3> QED
      BY <3>1 DEF ResidueInv, Committing, Sweeping
  <2> QED
    BY <1>5, <2>2, <2>3, <2>4 DEF ReplaceTarget
<1>6. CASE RollbackDone(p)
  BY <1>0, <1>6, EnterResidue, UpToFacts DEF RollbackDone, ResidueInv, Committing
<1> QED
  BY <1>1, <1>2, <1>3, <1>4, <1>5, <1>6

\* Cleanup.
LEMMA CleanupResidue ==
  ASSUME SerialInv, NEW p \in Proc, ResidueInv(p),
         SweepTemp(p) \/ SweepBackup(p) \/ RemoveLock(p)
  PROVE  ResidueInv(p)'
<1> USE DEF Goto
<1>0. /\ pc[p] \in Sweeping /\ pc \in [Proc -> Label] /\ fs \in [Path -> Content]
      /\ step \in [Proc -> 0..N] /\ unclean \subseteq Proc /\ N \in Nat
      /\ UNCHANGED journal
  BY ConstantFacts DEF SerialInv, TypeInv, TypeOK, Sweeping, SweepTemp, SweepBackup, RemoveLock
<1>1. PICK k \in 0..N : journal[p].opened = UpTo(k)
  BY <1>0 DEF ResidueInv
<1>2. journal[p].opened \subseteq Index
  BY <1>1 DEF UpTo
<1>3. PICK s \in 0..N : s = step[p]
  BY <1>0
<1>4. CASE SweepTemp(p)
  <2>1. /\ pc[p] = "sweepTemp" /\ pc'[p] = "sweepBackup" /\ UNCHANGED step
        /\ s \in journal[p].opened /\ s \in Index
    BY <1>0, <1>2, <1>3, <1>4 DEF SweepTemp, ResidueInv
  <2>2. p \notin unclean' =>
          /\ p \notin unclean /\ fs'[Temp(s)] = Absent
          /\ \A f \in Index : fs'[Temp(f)] \in {fs[Temp(f)], Absent} /\ fs'[Backup(f)] = fs[Backup(f)]
    BY <1>0, <1>3, <1>4, <2>1, DeleteEffect, PathFacts, ConstantFacts DEF SweepTemp, Sweep
  <2>3. ASSUME p \notin unclean' PROVE \A f \in journal'[p].opened : f < s => Swept(p, f)'
    <3>1. \A f \in journal[p].opened : f < s => Swept(p, f)
      BY <1>0, <1>3, <2>2, <2>3 DEF ResidueInv
    <3> QED
      BY <1>0, <1>2, <2>2, <2>3, <3>1 DEF Swept, Exists
  <2>4. p \notin unclean' => ~Exists(Temp(s))'
    BY <2>2 DEF Exists
  <2> QED
    BY <1>0, <1>1, <1>3, <2>1, <2>3, <2>4 DEF ResidueInv, Committing, Sweeping
<1>5. CASE SweepBackup(p)
  <2>1. /\ pc[p] = "sweepBackup" /\ s \in journal[p].opened /\ s \in Index
        /\ \/ /\ s < N /\ s + 1 \in journal[p].opened /\ s + 1 \in Index
              /\ pc'[p] = "sweepTemp" /\ step'[p] = s + 1
           \/ /\ ~(s < N /\ s + 1 \in journal[p].opened)
              /\ pc'[p] = "unlock"
    BY <1>0, <1>2, <1>3, <1>5 DEF SweepBackup, ResidueInv
  <2>2. p \notin unclean' =>
          /\ p \notin unclean /\ (s \in journal[p].existed => fs'[Backup(s)] = Absent)
          /\ \A f \in Index : fs'[Backup(f)] \in {fs[Backup(f)], Absent} /\ fs'[Temp(f)] = fs[Temp(f)]
    BY <1>0, <1>3, <1>5, <2>1, DeleteEffect, PathFacts, ConstantFacts DEF SweepBackup, Sweep
  <2>3. ASSUME p \notin unclean' PROVE \A f \in journal'[p].opened : f <= s => Swept(p, f)'
    <3>1. \A f \in journal[p].opened : f < s => Swept(p, f)
      BY <1>0, <1>3, <2>2, <2>3 DEF ResidueInv
    <3>2. ~Exists(Temp(s))
      BY <1>3, <2>1, <2>2, <2>3 DEF ResidueInv
    <3>3. \A f \in Index : f <= s => f < s \/ f = s
      BY <1>0, ConstantFacts
    <3>4. Swept(p, s)'
      BY <1>0, <2>1, <2>2, <2>3, <3>2 DEF Swept, Exists
    <3>5. \A f \in journal[p].opened : f < s => Swept(p, f)'
      BY <1>0, <1>2, <2>2, <2>3, <3>1 DEF Swept, Exists
    <3> QED
      BY <1>0, <1>2, <3>3, <3>4, <3>5
  <2>4. CASE pc'[p] = "sweepTemp"
    <3>1. step'[p] = s + 1 /\ s + 1 \in journal[p].opened
      BY <2>1, <2>4
    <3>2. \A f \in Index : f < s + 1 => f <= s
      BY <1>0, ConstantFacts
    <3> QED
      BY <1>0, <1>1, <1>2, <2>3, <2>4, <3>1, <3>2 DEF ResidueInv, Committing, Sweeping
  <2>5. CASE pc'[p] = "unlock"
    <3>1. \A f \in journal[p].opened : f <= s
      <4>1. \A f \in journal[p].opened : f \in Index /\ f <= k
        BY <1>1, <1>2, UpToFacts
      <4>2. ~(s < N /\ s + 1 <= k)
        BY <1>1, <2>1, <2>5, UpToFacts, IndexFacts
      <4> QED
        BY <2>1, <4>1, <4>2, ConstantFacts
    <3> QED
      BY <1>0, <1>1, <2>3, <2>5, <3>1 DEF ResidueInv, Committing, Sweeping
  <2> QED
    BY <2>1, <2>4, <2>5
<1>6. CASE RemoveLock(p)
  <2>1. pc'[p] = "done"
    BY <1>0, <1>6 DEF RemoveLock
  <2> QED
    BY <2>1 DEF ResidueInv, Committing, Sweeping
<1> QED
  BY <1>4, <1>5, <1>6

CleanInv == SerialInv /\ \A p \in Proc : ResidueInv(p)

LEMMA NextCleanInv ==
  ASSUME CleanInv, Mode = "serial", [Next]_vars
  PROVE  CleanInv'
<1>1. SerialInv'
  BY NextSerialInv DEF CleanInv
<1>2. ASSUME NEW p \in Proc, Run(p) PROVE CleanInv'
  <2>1. ResidueInv(p)'
    BY <1>2, CommitResidue, CleanupResidue DEF Run, CleanInv
  <2>2. ASSUME NEW q \in Proc, q # p PROVE ResidueInv(q)'
    <3>1. ~Running(q) /\ pc'[q] = pc[q]
      BY <1>2, <2>2, SerialStep DEF CleanInv, SerialInv
    <3>2. journal'[q] = journal[q]
      <4>1. UNCHANGED journal \/ \E j : journal' = [journal EXCEPT ![p] = j]
        BY <1>2 DEF Run, Begin, AcquireLock, CheckTarget, CreateTemp, WriteTemp, SyncTemp,
             Refuse, StatTarget, BackupTarget, ReplaceTarget, RollbackEntry, RollbackDone,
             SweepTemp, SweepBackup, RemoveLock
      <4> QED
        BY <2>2, <4>1 DEF CleanInv, SerialInv, TypeInv, TypeOK
    <3> QED
      BY <3>1, <3>2
         DEF CleanInv, ResidueInv, Running, Preparing, Committing, Sweeping
  <2> QED
    BY <1>1, <2>1, <2>2 DEF CleanInv
<1>3. ASSUME NEW p \in Proc, Kill(p) PROVE CleanInv'
  <2>1. /\ UNCHANGED <<fs, at, step, journal, unclean>>
        /\ pc'[p] = "crashed" /\ \A q \in Proc : q # p => pc'[q] = pc[q]
    BY <1>3 DEF Kill, Goto, fileVars, CleanInv, SerialInv, TypeInv, TypeOK
  <2>2. ResidueInv(p)'
    BY <2>1 DEF ResidueInv, Committing, Sweeping
  <2>3. \A q \in Proc : q # p => ResidueInv(q)'
    BY <2>1 DEF CleanInv, ResidueInv, Swept, Exists
  <2> QED
    BY <1>1, <2>2, <2>3 DEF CleanInv
<1>4. ASSUME PowerLoss PROVE CleanInv'
  <2>1. /\ UNCHANGED journal
        /\ \A q \in Proc : ~Running(q)' /\ (pc'[q] = pc[q] \/ pc'[q] = "crashed")
    BY <1>4 DEF PowerLoss, Running, Preparing, Committing, Sweeping
  <2>2. \A q \in Proc : ResidueInv(q)'
    BY <2>1 DEF CleanInv, ResidueInv, Running, Preparing, Committing, Sweeping
  <2> QED
    BY <1>1, <2>2 DEF CleanInv
<1>5. CASE UNCHANGED vars
  <2>1. UNCHANGED <<fs, pc, at, step, journal, unclean>>
    BY <1>5 DEF vars, fileVars, runVars
  <2>2. \A q \in Proc : ResidueInv(q)'
    BY <2>1 DEF CleanInv, ResidueInv, Swept, Exists
  <2> QED
    BY <1>1, <2>2 DEF CleanInv
<1> QED
  BY <1>2, <1>3, <1>4, <1>5 DEF Next, Terminated

\* A clean-up that reports no failure has removed the temporary file and the
\* backup of every target the run worked on.
THEOREM CleanupIsComplete ==
  ASSUME Mode = "serial" PROVE Spec => []NoResidue
<1>1. Init => CleanInv
  BY InitSerialInv DEF CleanInv, Init, ResidueInv, Committing, Sweeping
<1>2. CleanInv => NoResidue
  BY DEF CleanInv, ResidueInv, Swept, Sweeping, NoResidue
<1> QED
  BY <1>1, <1>2, NextCleanInv, PTL DEF Spec
-----------------------------------------------------------------------------
(* No crash, and no failing rename, removal of a target or look at one:     *)
(* then rollback is exact, and a run replaces all of its targets or none.   *)

Reliable == MaxCrashes = 0
            /\ FaultPoints \cap {"backup", "replace", "restore", "undo", "stat"} = {}

\* The journal says truly which targets were there, the targets that rollback
\* has yet to deal with are published, and all others are as they were.
ExactInv(p) ==
  /\ pc[p] \in Committing => \A f \in Index :
       /\ f \in journal[p].existed => before[p][f] # Absent
       /\ f \in journal[p].committed => f \in journal[p].existed \/ before[p][f] = Absent
  /\ pc[p] = "replace" => at[p] \in journal[p].existed \/ before[p][at[p]] = Absent
  /\ pc[p] = "rollback" => \A f \in Index :
       /\ f <= step[p] => fs[Target(f)] = By(p, "durable")
       /\ f > step[p] => Untouched(p, f)

\* Commit fails before it has moved the current target.
LEMMA FailExactly ==
  ASSUME SerialInv, NEW p \in Proc, LoopState(p), ExactInv(p), Fail(p),
         pc[p] \in {"create", "write", "sync"}, at[p] \in Index,
         UNCHANGED <<before, at>>, \A f \in Index : fs'[Target(f)] = fs[Target(f)],
         journal'[p].existed = journal[p].existed, journal'[p].committed = journal[p].committed
  PROVE  ExactInv(p)'
<1>1. pc'[p] = "rollback" /\ step'[p] = at[p] - 1
  BY DEF Fail, Goto, SerialInv, TypeInv, TypeOK
<1>2. \A f \in Index : /\ f <= at[p] - 1 => f < at[p]
                       /\ f > at[p] - 1 => f = at[p] \/ f > at[p]
  BY ConstantFacts
<1>3. \A f \in Index : f < at[p] => fs[Target(f)] = By(p, "durable")
  BY DEF SerialInv, RunInv
<1>4. \A f \in Index : f >= at[p] /\ f # at[p] => f > at[p]
  BY ConstantFacts
<1>5. \A f \in Index : f = at[p] \/ f > at[p] => Untouched(p, f)
  BY DEF LoopState
<1> QED
  BY <1>1, <1>2, <1>3, <1>5 DEF ExactInv, Untouched, Committing

LEMMA ExactRun ==
  ASSUME JournalsInv, Reliable, NEW p \in Proc, Run(p), ExactInv(p)
  PROVE  ExactInv(p)'
<1> USE DEF Goto, fileVars
<1>0. /\ SerialInv /\ JournalInv(p) /\ RunInv(p) /\ pc \in [Proc -> Label]
      /\ fs \in [Path -> Content] /\ journal \in [Proc -> Journal] /\ step \in [Proc -> 0..N]
      /\ pc[p] \in Looping => at[p] \in Index /\ LoopState(p)
      /\ N \in Nat
  BY ConstantFacts
     DEF JournalsInv, SerialInv, TypeInv, TypeOK, IndexOK, Looping, JournalInv
<1>f. \A c \in {"backup", "replace", "restore", "undo", "stat"} : ~Fault(c)
  BY DEF Reliable, Fault
<1>1. CASE pc'[p] \notin Committing
  BY <1>1 DEF ExactInv, Committing
<1>2. CASE CheckTarget(p) /\ pc'[p] = "create"
  <2>1. journal'[p] = NoEntry
    BY <1>0, <1>2 DEF CheckTarget, JournalInv, Refuse
  <2> QED
    BY <1>2, <2>1, EmptyJournal DEF ExactInv, Committing
<1>3. CASE CreateTemp(p) \/ WriteTemp(p) \/ SyncTemp(p)
  <2>1. /\ pc[p] \in {"create", "write", "sync"} /\ UNCHANGED <<before, at>>
        /\ journal'[p].existed = journal[p].existed
        /\ journal'[p].committed = journal[p].committed
        /\ Fail(p) \/ pc'[p] \in {"write", "sync", "stat"}
    BY <1>0, <1>3 DEF CreateTemp, WriteTemp, SyncTemp, Journal
  <2>2. CASE Fail(p)
    <3>1. \A f \in Index : fs'[Target(f)] = fs[Target(f)]
      <4>1. CASE UNCHANGED fs
        BY <4>1
      <4>2. CASE SyncTemp(p) /\ Touch(p, at[p], "written", "durable")
        <5>1. \A f \in Index : fs[Target(f)] # By(p, "written") /\ Target(f) \in Path
          BY <1>0, ContentFacts, ConstantFacts DEF SerialInv, HalfOnlyTemp
        <5> QED
          BY <4>2, <5>1 DEF Touch
      <4>3. WriteTemp(p) => UNCHANGED fs
        BY <1>0, <2>2 DEF WriteTemp, Fail
      <4>4. CreateTemp(p) => UNCHANGED fs
        BY <1>0, <2>2 DEF CreateTemp, Fail
      <4> QED
        BY <1>3, <4>1, <4>2, <4>3, <4>4 DEF SyncTemp
    <3> QED
      BY <1>0, <2>1, <2>2, <3>1, FailExactly DEF Looping
  <2>3. CASE pc'[p] \in {"write", "sync", "stat"}
    BY <2>1, <2>3 DEF ExactInv, Committing
  <2> QED
    BY <2>1, <2>2, <2>3
<1>4. CASE StatTarget(p)
  <2>1. Untouched(p, at[p]) /\ pc[p] = "stat" /\ at[p] \in Index /\ UNCHANGED <<at, before, fs>>
    BY <1>0, <1>4 DEF StatTarget, LoopState, Looping
  <2>2. \/ /\ fs[Target(at[p])] # Absent /\ pc'[p] = "backup"
           /\ journal'[p].existed = journal[p].existed \cup {at[p]}
           /\ journal'[p].committed = journal[p].committed
        \/ fs[Target(at[p])] = Absent /\ pc'[p] = "replace" /\ UNCHANGED journal
    BY <1>0, <1>f, <1>4 DEF StatTarget, Exists, Journal
  <2> QED
    BY <2>1, <2>2 DEF ExactInv, Untouched, Committing
<1>5. CASE BackupTarget(p)
  <2>1. /\ at[p] \in journal[p].existed /\ Untouched(p, at[p]) /\ pc[p] = "backup"
        /\ at[p] \in Index /\ UNCHANGED <<at, before, journal>>
    BY <1>0, <1>5 DEF BackupTarget, LoopState, Looping
  <2>2. pc'[p] = "replace"
    BY <1>0, <1>f, <1>5, <2>1 DEF BackupTarget, ExactInv, Untouched, Exists, Committing
  <2> QED
    BY <2>1, <2>2 DEF ExactInv, Committing
<1>6. CASE ReplaceTarget(p) /\ pc'[p] \in Committing
  <2>1. pc[p] = "replace" /\ at[p] \in Index /\ Exists(Temp(at[p])) /\ UNCHANGED before
    BY <1>0, <1>6, ContentFacts DEF ReplaceTarget, RunInv, Exists, Looping
  <2>2. /\ pc'[p] \in {"create", "sweepTemp", "unlock"}
        /\ journal'[p].existed = journal[p].existed
        /\ journal'[p].committed = journal[p].committed \cup {at[p]}
    BY <1>0, <1>f, <1>6, <2>1 DEF ReplaceTarget, EnterCleanup, Journal
  <2> QED
    BY <1>6, <2>1, <2>2 DEF ExactInv, Committing
<1>7. CASE RollbackEntry(p)
  <2>1. PICK f \in Index : f = step[p]
    BY <1>0, <1>7, IndexFacts DEF RollbackEntry
  <2>2. /\ pc[p] = "rollback" /\ pc'[p] = "rollback" /\ UNCHANGED <<journal, before, at>>
        /\ step'[p] = f - 1 /\ RollbackState(p)
    BY <1>0, <1>7, <2>1 DEF RollbackEntry, JournalInv
  <2>3. /\ BackedUp(p, f) /\ fs[Target(f)] = By(p, "durable") /\ f \in journal[p].committed
    <3>1. f <= step[p] /\ f < at[p]
      BY <2>1, <2>2, ConstantFacts DEF RollbackState
    <3> QED
      BY <2>1, <2>2, <3>1 DEF RollbackState, ExactInv
  <2>4. /\ fs'[Target(f)] = before[p][f]
        /\ \A g \in Index : g # f => fs'[Target(g)] = fs[Target(g)]
    <3>1. CASE f \in journal[p].existed
      <4>1. Move(Backup(f), Target(f)) /\ fs[Backup(f)] = before[p][f]
        BY <1>f, <1>7, <2>1, <2>2, <2>3, <3>1
           DEF RollbackEntry, BackedUp, ExactInv, Exists, Committing
      <4> QED
        BY <1>0, <4>1, MoveEffect, PathFacts, ConstantFacts
    <3>2. CASE f \notin journal[p].existed
      <4>1. Delete(Target(f)) /\ before[p][f] = Absent
        BY <1>f, <1>7, <2>1, <2>2, <2>3, <3>2, ContentFacts
           DEF RollbackEntry, ExactInv, Exists, Committing
      <4> QED
        BY <1>0, <4>1, DeleteEffect, PathFacts, ConstantFacts
    <3> QED
      BY <3>1, <3>2
  <2>5. \A g \in Index : /\ g <= f - 1 => g <= f /\ g # f
                         /\ g > f - 1 => g = f \/ (g > f /\ g # f)
    BY ConstantFacts
  <2>6. \A g \in Index : /\ g <= f - 1 => fs'[Target(g)] = By(p, "durable")
                         /\ g > f - 1 => Untouched(p, g)'
    BY <2>1, <2>2, <2>4, <2>5 DEF ExactInv, Untouched
  <2> QED
    BY <2>2, <2>6 DEF ExactInv, Committing
<1> QED
  BY <1>0, <1>1, <1>2, <1>3, <1>4, <1>5, <1>6, <1>7
     DEF Run, Begin, AcquireLock, CheckTarget, Refuse, RollbackDone, EnterCleanup, SweepTemp,
         SweepBackup, RemoveLock, Committing

ReliableInv == JournalsInv /\ \A p \in Proc : ExactInv(p)

LEMMA NextReliableInv ==
  ASSUME ReliableInv, Mode = "serial", Reliable, [Next]_vars
  PROVE  ReliableInv' /\ ~PowerLoss /\ \A p \in Proc : ~Kill(p)
<1>1. JournalsInv' /\ SerialInv
  BY NextJournalsInv DEF ReliableInv, JournalsInv
<1>2. ~PowerLoss /\ \A p \in Proc : ~Kill(p)
  BY <1>1 DEF Kill, PowerLoss, Reliable, SerialInv, TypeInv, TypeOK
<1>3. ASSUME NEW p \in Proc, Run(p) PROVE ReliableInv'
  <2>1. ExactInv(p)'
    BY <1>3, ExactRun DEF ReliableInv
  <2>2. ASSUME NEW q \in Proc, q # p PROVE ExactInv(q)'
    <3>1. ~Running(q) /\ pc'[q] = pc[q]
      BY <1>1, <1>3, <2>2, SerialStep DEF SerialInv
    <3> QED
      BY <3>1 DEF ExactInv, Running, Committing
  <2> QED
    BY <1>1, <2>1, <2>2 DEF ReliableInv
<1>4. CASE UNCHANGED vars
  <2>1. UNCHANGED <<fs, pc, at, step, journal, before>>
    BY <1>4 DEF vars, fileVars, runVars
  <2>2. ASSUME NEW q \in Proc PROVE ExactInv(q)'
    <3>1. \A f \in Index : Untouched(q, f)' <=> Untouched(q, f)
      BY <2>1 DEF Untouched
    <3> QED
      BY <2>1, <3>1 DEF ReliableInv, ExactInv
  <2> QED
    BY <1>1, <1>2, <2>2 DEF ReliableInv
<1> QED
  BY <1>2, <1>3, <1>4 DEF Next, Terminated

LEMMA PublishedIs ==
  ASSUME Serial
  PROVE  /\ \A q \in Proc : pc[q] \in Committing => published = [f \in Index |-> before[q][f]]
         /\ (\A q \in Proc : pc[q] \notin Committing) => published = [f \in Index |-> fs[Target(f)]]
<1>1. ASSUME NEW q \in Proc, pc[q] \in Committing
      PROVE  (CHOOSE p \in Proc : pc[p] \in Committing) = q
  BY <1>1 DEF Serial, Running
<1> QED
  BY <1>1 DEF published

LEMMA PublishedBecomes ==
  ASSUME Serial'
  PROVE  /\ \A q \in Proc : pc'[q] \in Committing => published' = [f \in Index |-> before'[q][f]]
         /\ (\A q \in Proc : pc'[q] \notin Committing) => published' = [f \in Index |-> fs'[Target(f)]]
<1>1. ASSUME NEW q \in Proc, pc'[q] \in Committing
      PROVE  (CHOOSE p \in Proc : pc'[p] \in Committing) = q
  BY <1>1 DEF Serial, Running
<1> QED
  BY <1>1 DEF published

\* The last replacement of a run publishes all its targets; every other step
\* leaves what is published as it is.
LEMMA PublishStep ==
  ASSUME ReliableInv, Mode = "serial", Reliable, NEW p \in Proc, Run(p)
  PROVE  UNCHANGED published \/ AllOrNothing!Publish(p)
<1> USE DEF Goto, fileVars
<1>0. /\ SerialInv /\ SerialInv' /\ JournalInv(p) /\ RunInv(p) /\ ExactInv(p) /\ RunInv(p)'
      /\ pc \in [Proc -> Label] /\ fs \in [Path -> Content] /\ N \in Nat
      /\ pc[p] \in {"sweepTemp", "sweepBackup"} => step[p] \in Index
  <2>1. SerialInv /\ SerialInv' /\ [Next]_vars
    BY NextSerialInv DEF ReliableInv, JournalsInv, Next
  <2> QED
    BY <2>1, ConstantFacts
       DEF ReliableInv, JournalsInv, SerialInv, TypeInv, TypeOK, IndexOK
<1>1. \A q \in Proc : q # p => pc[q] \notin Committing /\ pc'[q] \notin Committing
  BY <1>0, SerialStep DEF SerialInv, Running
<1>2. CASE pc[p] \notin Committing /\ pc'[p] \notin Committing
  <2>1. \A f \in Index : fs'[Target(f)] = fs[Target(f)]
    <3>1. CASE UNCHANGED fs
      BY <3>1
    <3>2. CASE SweepTemp(p) \/ SweepBackup(p)
      <4>1. step[p] \in Index
        BY <1>0, <3>2 DEF SweepTemp, SweepBackup
      <4>2. UNCHANGED fs \/ Delete(Temp(step[p])) \/ Delete(Backup(step[p]))
        BY <3>2 DEF SweepTemp, SweepBackup, Sweep
      <4> QED
        BY <1>0, <4>1, <4>2, DeleteEffect, PathFacts, ConstantFacts
    <3> QED
      BY <1>2, <3>1, <3>2
         DEF Run, Begin, AcquireLock, CheckTarget, CreateTemp, WriteTemp, SyncTemp, StatTarget,
             BackupTarget, ReplaceTarget, RollbackEntry, RollbackDone, RemoveLock, Committing
  <2> QED
    BY <1>0, <1>1, <1>2, <2>1, PublishedIs, PublishedBecomes DEF SerialInv
<1>3. CASE pc[p] \notin Committing /\ pc'[p] \in Committing
  <2>1. CheckTarget(p) /\ UNCHANGED <<fs, before>>
    BY <1>0, <1>3 DEF Run, Begin, AcquireLock, CheckTarget, CreateTemp, WriteTemp, SyncTemp,
       Refuse, EnterCleanup, StatTarget, BackupTarget, ReplaceTarget, RollbackEntry,
       RollbackDone, SweepTemp, SweepBackup, RemoveLock, Committing
  <2>2. \A f \in Index : before'[p][f] = fs[Target(f)]
    BY <1>0, <2>1 DEF CheckTarget, JournalInv, Untouched
  <2> QED
    BY <1>0, <1>1, <1>3, <2>1, <2>2, PublishedIs, PublishedBecomes DEF SerialInv
<1>4. CASE pc[p] \in Committing /\ pc'[p] \in Committing
  <2>1. UNCHANGED before
    BY <1>4 DEF Run, Begin, AcquireLock, CheckTarget, CreateTemp, WriteTemp, SyncTemp,
       StatTarget, BackupTarget, ReplaceTarget, RollbackEntry, RollbackDone, SweepTemp,
       SweepBackup, RemoveLock, Committing
  <2> QED
    BY <1>0, <1>4, <2>1, PublishedIs, PublishedBecomes DEF SerialInv
<1>5. CASE pc[p] \in Committing /\ pc'[p] \notin Committing
  <2>1. RollbackDone(p) \/ (ReplaceTarget(p) /\ p \notin failed' /\ pc'[p] \in Sweeping)
    BY <1>0, <1>5 DEF Run, Begin, AcquireLock, CheckTarget, CreateTemp, WriteTemp, SyncTemp,
       StatTarget, BackupTarget, ReplaceTarget, RollbackEntry, RollbackDone, SweepTemp,
       SweepBackup, RemoveLock, Fail, EnterCleanup, RunInv, Committing, Sweeping
  <2>2. published' = [f \in Index |-> fs'[Target(f)]]
    BY <1>0, <1>1, <1>5, PublishedBecomes DEF SerialInv
  <2>3. CASE RollbackDone(p)
    <3>1. \A f \in Index : f > step[p]
      BY <2>3, ConstantFacts DEF RollbackDone
    <3>2. \A f \in Index : fs'[Target(f)] = before[p][f]
      BY <1>0, <2>3, <3>1 DEF RollbackDone, ExactInv, Untouched
    <3> QED
      BY <1>0, <1>5, <2>2, <3>2, PublishedIs DEF SerialInv
  <2>4. CASE p \notin failed' /\ pc'[p] \in Sweeping
    <3>1. \A f \in Index : fs'[Target(f)] = [author |-> p, state |-> "durable"]
      BY <1>0, <2>4 DEF RunInv, By
    <3> QED
      BY <2>2, <3>1 DEF AllOrNothing!Publish, Index
  <2> QED
    BY <2>1, <2>3, <2>4
<1> QED
  BY <1>2, <1>3, <1>4, <1>5

\* Runs that do not overlap, do not crash and meet no failing rename implement
\* the all-or-nothing replacement of the targets, whatever other calls fail.
THEOREM AllOrNothingHolds ==
  ASSUME Mode = "serial", Reliable PROVE Spec => PublishesAllOrNothing
<1>1. Init => ReliableInv /\ AllOrNothing!Init
  <2> SUFFICES ASSUME Init PROVE ReliableInv /\ AllOrNothing!Init
    OBVIOUS
  <2>1. \A p \in Proc : /\ pc[p] = "idle" /\ journal[p] = NoEntry /\ at[p] = 1
                        /\ \A f \in Index : before[p][f] = Absent
    BY DEF Init
  <2>2. JournalsInv
    BY <2>1, InitSerialInv DEF JournalsInv, JournalInv, Committing, Looping, Sweeping
  <2>3. \A p \in Proc : ExactInv(p)
    BY <2>1 DEF ExactInv, Committing
  <2>4. PICK old \in [Index -> {Absent, By(User, "durable"), By(User, "unsafe")}] :
          fs = [x \in Path |-> IF x[1] = "target" THEN old[x[2]] ELSE Absent]
    BY DEF Init
  <2>5. published = [f \in Index |-> old[f]]
    <3>1. published = [f \in Index |-> fs[Target(f)]]
      BY <2>1, <2>2, PublishedIs DEF JournalsInv, SerialInv, Committing
    <3> QED
      BY <2>4, <3>1, ConstantFacts DEF Target
  <2>6. \A f \in Index : old[f] \in AllOrNothing!File /\ old[f].author = User
    BY <2>4 DEF AllOrNothing!File, Absent, By
  <2> QED
    BY <2>2, <2>3, <2>5, <2>6 DEF ReliableInv, AllOrNothing!Init, Index
<1>2. ReliableInv /\ [Next]_vars => ReliableInv' /\ [AllOrNothing!Next]_published
  <2> SUFFICES ASSUME ReliableInv, [Next]_vars
               PROVE  ReliableInv' /\ [AllOrNothing!Next]_published
    OBVIOUS
  <2>1. ReliableInv' /\ ~PowerLoss /\ \A p \in Proc : ~Kill(p)
    BY NextReliableInv
  <2>2. ASSUME NEW p \in Proc, Run(p) PROVE [AllOrNothing!Next]_published
    BY <2>2, PublishStep DEF AllOrNothing!Next
  <2>3. CASE UNCHANGED vars
    <3>1. UNCHANGED <<fs, pc, before>> /\ Serial /\ Serial'
      BY <2>1, <2>3 DEF vars, fileVars, runVars, ReliableInv, JournalsInv, SerialInv
    <3>2. CASE \E q \in Proc : pc[q] \in Committing
      BY <2>1, <3>1, <3>2, PublishedIs, PublishedBecomes
    <3>3. CASE \A q \in Proc : pc[q] \notin Committing
      BY <2>1, <3>1, <3>3, PublishedIs, PublishedBecomes
    <3> QED
      BY <3>2, <3>3
  <2> QED
    BY <2>1, <2>2, <2>3 DEF Next, Terminated
<1> QED
  BY <1>1, <1>2, PTL DEF Spec, PublishesAllOrNothing, AllOrNothing!Spec
-----------------------------------------------------------------------------
(* Recovery: the argument is an account.  A crash may leave a lock and a   *)
(* temporary file; each can make one forced run fail, and that run removes *)
(* it.                                                                     *)

NoneUnsafe == \A f \in Index : fs[Target(f)].state # "unsafe"

\* A run has at most the temporary file of its current target, backs up a
\* target that is there, and commits only if every target may be replaced.
ProgressInv(p) ==
  /\ Running(p) => \A f \in journal[p].opened : f # at[p] => ~Exists(Temp(f))
  /\ pc[p] = "backup" => Exists(Target(at[p]))
  /\ pc[p] \in Committing => NoneUnsafe

\* What crashed runs left that no run is about to remove.
Lost == {f \in Index : /\ Exists(Temp(f))
                       /\ \A p \in Proc : Running(p) => f \notin journal[p].opened}

Clearing(p) == pc[p] \in {"check"} \cup Committing \cup Sweeping

Orphaned == lock = "held" /\ \A p \in Proc : ~Clearing(p)

\* The failures so far, and those that are still to come.
Debt == Cardinality(Forced \cap failed) + Cardinality(Lost) + (IF Orphaned THEN 1 ELSE 0)

AccountInv == /\ IsFiniteSet(failed)
              /\ faults = 0 => unclean = {}
              /\ faults = 0 /\ Usable => Debt <= 2 * crashes

RecoveryInv == /\ JournalsInv
               /\ CleanInv
               /\ \A p \in Proc : ProgressInv(p)
               /\ AccountInv
-----------------------------------------------------------------------------
(* What a step does to the files that the account is about.                *)

LEMMA TouchKeeps ==
  ASSUME fs \in [Path -> Content], NEW p \in Proc, NEW f \in Index, NEW old, NEW new,
         old \in {"partial", "written"}, new \in {"written", "durable"}, Touch(p, f, old, new)
  PROVE  \A x \in Path : /\ Exists(x)' <=> Exists(x)
                         /\ fs'[x].state = "unsafe" <=> fs[x].state = "unsafe"
<1>1. \A x \in Path : fs'[x] = fs[x] \/ (fs[x] = By(p, old) /\ fs'[x] = By(p, new))
  BY DEF Touch
<1>2. /\ By(p, old) # Absent /\ By(p, new) # Absent
      /\ By(p, old).state # "unsafe" /\ By(p, new).state # "unsafe"
  BY ContentFacts DEF By
<1> QED
  BY <1>1, <1>2 DEF Exists

\* Only CreateTemp makes a temporary file, and it has a journal entry then.
LEMMA TempsOfStep ==
  ASSUME TypeInv, NEW p \in Proc, Run(p), NEW g \in Index, Exists(Temp(g))'
  PROVE  Exists(Temp(g)) \/ (pc[p] = "create" /\ g = at[p] /\ g \in journal'[p].opened)
<1>0. /\ fs \in [Path -> Content] /\ journal \in [Proc -> Journal] /\ Temp(g) \in Path
      /\ pc[p] \in {"create", "write", "sync", "stat", "backup", "replace"} => at[p] \in Index
      /\ pc[p] = "rollback" /\ step[p] > 0 => step[p] \in Index
      /\ pc[p] \in {"sweepTemp", "sweepBackup"} => step[p] \in Index
  BY ConstantFacts, IndexFacts DEF TypeInv, TypeOK, IndexOK
<1>1. CASE UNCHANGED fs
  BY <1>1 DEF Exists
<1>2. CASE CreateTemp(p)
  <2>1. pc[p] = "create" /\ at[p] \in journal'[p].opened
    BY <1>0, <1>2 DEF CreateTemp, Journal
  <2>2. UNCHANGED fs \/ fs' = [fs EXCEPT ![Temp(at[p])] = By(p, "partial")]
    BY <1>2 DEF CreateTemp
  <2>3. g # at[p] => Temp(g) # Temp(at[p])
    BY <1>0, <2>1, PathFacts
  <2> QED
    BY <1>0, <1>1, <2>1, <2>2, <2>3 DEF Exists
<1>3. CASE WriteTemp(p) \/ SyncTemp(p)
  <2>1. pc[p] \in {"write", "sync"}
    BY <1>3 DEF WriteTemp, SyncTemp
  <2>2. \/ UNCHANGED fs
        \/ Touch(p, at[p], "partial", "written") \/ Touch(p, at[p], "written", "durable")
    BY <1>3 DEF WriteTemp, SyncTemp
  <2> QED
    BY <1>0, <1>1, <2>1, <2>2, TouchKeeps
<1>4. CASE BackupTarget(p) \/ ReplaceTarget(p)
  <2>1. at[p] \in Index
    BY <1>0, <1>4 DEF BackupTarget, ReplaceTarget
  <2>2. UNCHANGED fs \/ Move(Target(at[p]), Backup(at[p])) \/ Move(Temp(at[p]), Target(at[p]))
    BY <1>4 DEF BackupTarget, ReplaceTarget
  <2> QED
    BY <1>0, <1>1, <2>1, <2>2, MoveEffect, PathFacts, ConstantFacts DEF Exists
<1>5. CASE RollbackEntry(p)
  <2>1. step[p] \in Index
    BY <1>0, <1>5 DEF RollbackEntry
  <2>2. UNCHANGED fs \/ Move(Backup(step[p]), Target(step[p])) \/ Delete(Target(step[p]))
    BY <1>5 DEF RollbackEntry
  <2> QED
    BY <1>0, <1>1, <2>1, <2>2, MoveEffect, DeleteEffect, PathFacts, ConstantFacts DEF Exists
<1>6. CASE SweepTemp(p) \/ SweepBackup(p)
  <2>1. step[p] \in Index
    BY <1>0, <1>6 DEF SweepTemp, SweepBackup
  <2>2. UNCHANGED fs \/ Delete(Temp(step[p])) \/ Delete(Backup(step[p]))
    BY <1>6 DEF SweepTemp, SweepBackup, Sweep
  <2> QED
    BY <1>0, <1>1, <2>1, <2>2, DeleteEffect, PathFacts, ConstantFacts DEF Exists
<1> QED
  BY <1>1, <1>2, <1>3, <1>4, <1>5, <1>6
     DEF Run, Begin, AcquireLock, CheckTarget, StatTarget, RollbackDone, RemoveLock, fileVars

\* Targets change only in Commit, where none is unsafe and none becomes so.
LEMMA TargetsOfStep ==
  ASSUME JournalsInv, NEW p \in Proc, Run(p), pc[p] \in Committing => NoneUnsafe
  PROVE  NoneUnsafe' <=> NoneUnsafe
<1>0. /\ fs \in [Path -> Content] /\ JournalInv(p) /\ RunInv(p)
      /\ pc[p] \in {"create", "write", "sync", "stat", "backup", "replace"} => at[p] \in Index
      /\ pc[p] = "rollback" /\ step[p] > 0 => step[p] \in Index
      /\ pc[p] \in {"sweepTemp", "sweepBackup"} => step[p] \in Index
  BY IndexFacts DEF JournalsInv, SerialInv, TypeInv, TypeOK, IndexOK
<1>1. CASE \A f \in Index : fs'[Target(f)] = fs[Target(f)]
  BY <1>1 DEF NoneUnsafe
<1>2. CASE UNCHANGED fs
  BY <1>1, <1>2
<1>3. CASE CreateTemp(p)
  <2>1. at[p] \in Index
    BY <1>0, <1>3 DEF CreateTemp
  <2>2. UNCHANGED fs \/ fs' = [fs EXCEPT ![Temp(at[p])] = By(p, "partial")]
    BY <1>3 DEF CreateTemp
  <2> QED
    BY <1>0, <1>1, <2>1, <2>2, PathFacts, ConstantFacts
<1>4. CASE WriteTemp(p) \/ SyncTemp(p)
  <2>1. pc[p] \in {"write", "sync"}
    BY <1>4 DEF WriteTemp, SyncTemp
  <2>2. \/ UNCHANGED fs
        \/ Touch(p, at[p], "partial", "written") \/ Touch(p, at[p], "written", "durable")
    BY <1>4 DEF WriteTemp, SyncTemp
  <2>3. UNCHANGED fs \/ \A x \in Path : fs'[x].state = "unsafe" <=> fs[x].state = "unsafe"
    BY <1>0, <2>1, <2>2, TouchKeeps
  <2> QED
    BY <1>2, <2>3, ConstantFacts DEF NoneUnsafe
<1>5. CASE (BackupTarget(p) \/ ReplaceTarget(p)) /\ fs' # fs
  <2>1. at[p] \in Index /\ pc[p] \in {"backup", "replace"} /\ NoneUnsafe
    BY <1>0, <1>5 DEF BackupTarget, ReplaceTarget, Committing
  <2>2. \/ Move(Target(at[p]), Backup(at[p]))
        \/ Move(Temp(at[p]), Target(at[p])) /\ fs[Temp(at[p])] = By(p, "durable")
    BY <1>0, <1>5 DEF BackupTarget, ReplaceTarget, RunInv
  <2>3. \A f \in Index : fs'[Target(f)] \in {fs[Target(f)], Absent, By(p, "durable")}
    BY <1>0, <2>1, <2>2, MoveEffect, PathFacts, ConstantFacts
  <2> QED
    BY <2>1, <2>3, ContentFacts DEF NoneUnsafe
<1>6. CASE RollbackEntry(p) /\ fs' # fs
  <2>1. step[p] \in Index /\ pc[p] = "rollback" /\ NoneUnsafe
    BY <1>0, <1>6 DEF RollbackEntry, Committing
  <2>2. \/ Delete(Target(step[p]))
        \/ Move(Backup(step[p]), Target(step[p])) /\ step[p] \in journal[p].existed
    BY <1>6 DEF RollbackEntry
  <2>3. step[p] \in journal[p].existed => fs[Backup(step[p])].state # "unsafe"
    <3>1. step[p] <= step[p] /\ AllAccepted(p) /\ RollbackState(p)
      BY <1>0, <2>1, ConstantFacts DEF JournalInv, Committing
    <3>2. BackedUp(p, step[p]) /\ ~MustRefuse(p, step[p])
      BY <2>1, <3>1 DEF RollbackState, AllAccepted
    <3> QED
      BY <3>2 DEF BackedUp, MustRefuse
  <2>4. \A f \in Index : \/ fs'[Target(f)] \in {fs[Target(f)], Absent}
                         \/ step[p] \in journal[p].existed /\ fs'[Target(f)] = fs[Backup(step[p])]
    BY <1>0, <2>1, <2>2, MoveEffect, DeleteEffect, PathFacts, ConstantFacts
  <2> QED
    BY <2>1, <2>3, <2>4, ContentFacts DEF NoneUnsafe
<1>7. CASE SweepTemp(p) \/ SweepBackup(p)
  <2>1. step[p] \in Index
    BY <1>0, <1>7 DEF SweepTemp, SweepBackup
  <2>2. UNCHANGED fs \/ Delete(Temp(step[p])) \/ Delete(Backup(step[p]))
    BY <1>7 DEF SweepTemp, SweepBackup, Sweep
  <2> QED
    BY <1>0, <1>1, <1>2, <2>1, <2>2, DeleteEffect, PathFacts, ConstantFacts
<1> QED
  BY <1>2, <1>3, <1>4, <1>5, <1>6, <1>7
     DEF Run, Begin, AcquireLock, CheckTarget, StatTarget, RollbackDone, RemoveLock, fileVars

LEMMA ProgressRun ==
  ASSUME JournalsInv, CleanInv, NEW p \in Proc, Run(p), ProgressInv(p)
  PROVE  ProgressInv(p)'
<1> USE DEF Goto
<1>0. /\ TypeInv /\ JournalInv(p) /\ ResidueInv(p) /\ pc \in [Proc -> Label]
      /\ at \in [Proc -> 1..N+1] /\ journal \in [Proc -> Journal] /\ N \in Nat
      /\ fs \in [Path -> Content]
  BY ConstantFacts DEF JournalsInv, CleanInv, SerialInv, TypeInv, TypeOK
<1>1. ASSUME Running(p)'
      PROVE  \A f \in journal'[p].opened : f # at'[p] => ~Exists(Temp(f))'
  <2>0. ASSUME NEW f \in journal'[p].opened, f # at'[p], Exists(Temp(f))'
        PROVE  FALSE
    <3>0. f \in Index
      <4>1. journal' = journal \/ \E g \in Index :
                 journal'[p].opened \in {journal[p].opened, journal[p].opened \cup {g}}
        <5>1. pc[p] \in {"create", "stat", "replace"} => at[p] \in Index
          BY <1>0 DEF TypeInv, IndexOK
        <5>2. \/ UNCHANGED journal
              \/ /\ pc[p] \in {"create", "stat", "replace"}
                 /\ journal'[p].opened \in {journal[p].opened, journal[p].opened \cup {at[p]}}
          BY <1>0 DEF Run, Begin, AcquireLock, CheckTarget, CreateTemp, WriteTemp, SyncTemp,
             Refuse, StatTarget, BackupTarget, ReplaceTarget, RollbackEntry, RollbackDone,
             SweepTemp, SweepBackup, RemoveLock, Journal
        <5> QED
          BY <5>1, <5>2
      <4> QED
        BY <1>0, <4>1 DEF Journal
    <3>1. Exists(Temp(f)) \/ (pc[p] = "create" /\ f = at[p])
      BY <1>0, <2>0, <3>0, TempsOfStep
    <3>2. CASE CreateTemp(p)
      <4>1. at'[p] = at[p] /\ journal'[p].opened = journal[p].opened \cup {at[p]} /\ Running(p)
        BY <1>0, <3>2 DEF CreateTemp, Journal, Running, Committing
      <4> QED
        BY <2>0, <3>1, <4>1 DEF ProgressInv
    <3>3. CASE ReplaceTarget(p)
      <4>1. Running(p) /\ journal'[p].opened = journal[p].opened /\ pc[p] # "create"
            /\ at[p] \in Index
        BY <1>0, <3>3 DEF ReplaceTarget, Journal, Running, Committing, TypeInv, IndexOK
      <4>2. CASE at' = at
        BY <2>0, <3>1, <4>1, <4>2 DEF ProgressInv
      <4>3. CASE Move(Temp(at[p]), Target(at[p]))
        <5>1. fs'[Temp(at[p])] = Absent
          BY <1>0, <4>1, <4>3, MoveEffect, PathFacts, ConstantFacts
        <5>2. f # at[p]
          BY <2>0, <5>1 DEF Exists
        <5> QED
          BY <2>0, <3>1, <4>1, <5>2 DEF ProgressInv
      <4> QED
        BY <3>3, <4>2, <4>3 DEF ReplaceTarget
    <3>4. CASE pc[p] \in {"idle", "lock", "check"}
      <4>1. journal'[p] = NoEntry
        BY <1>0, <3>4 DEF Run, Begin, AcquireLock, CheckTarget, CreateTemp, WriteTemp, SyncTemp,
             Refuse, StatTarget, BackupTarget, ReplaceTarget, RollbackEntry, RollbackDone,
             SweepTemp, SweepBackup, RemoveLock, ResidueInv
      <4> QED
        BY <2>0, <4>1, EmptyJournal
    <3>5. CASE /\ ~CreateTemp(p) /\ ~ReplaceTarget(p)
               /\ pc[p] \notin {"idle", "lock", "check"}
      <4>1. /\ UNCHANGED at /\ journal'[p].opened = journal[p].opened
            /\ Running(p) /\ pc[p] # "create"
        BY <1>0, <3>5 DEF Run, Begin, AcquireLock, CheckTarget, WriteTemp, SyncTemp,
             StatTarget, BackupTarget, RollbackEntry, RollbackDone,
             SweepTemp, SweepBackup, RemoveLock, Journal, Running, Committing, Sweeping
      <4> QED
        BY <2>0, <3>1, <4>1 DEF ProgressInv
    <3> QED
      BY <3>2, <3>3, <3>4, <3>5
  <2> QED
    BY <2>0
<1>2. ASSUME pc'[p] = "backup" PROVE Exists(Target(at[p]))' /\ at'[p] = at[p]
  <2>1. StatTarget(p) /\ Exists(Target(at[p])) /\ UNCHANGED <<fs, at>>
    BY <1>0, <1>2 DEF Run, Begin, AcquireLock, CheckTarget, CreateTemp, WriteTemp, SyncTemp,
         Refuse, Fail, EnterCleanup, StatTarget, BackupTarget, ReplaceTarget, RollbackEntry,
         RollbackDone, SweepTemp, SweepBackup, RemoveLock, fileVars
  <2> QED
    BY <2>1 DEF Exists
<1>3. ASSUME pc'[p] \in Committing PROVE NoneUnsafe'
  <2>1. NoneUnsafe' <=> NoneUnsafe
    BY TargetsOfStep DEF ProgressInv
  <2>2. CASE pc[p] \in Committing
    BY <2>1, <2>2 DEF ProgressInv
  <2>3. CASE pc[p] \notin Committing
    <3>1. CheckTarget(p) /\ at[p] = N /\ (fs[Target(N)] = Absent \/ fs[Target(N)].state # "unsafe")
      BY <1>0, <1>3, <2>3 DEF Run, Begin, AcquireLock, CheckTarget, CreateTemp, WriteTemp,
         SyncTemp, Refuse, EnterCleanup, StatTarget, BackupTarget, ReplaceTarget,
         RollbackEntry, RollbackDone, SweepTemp, SweepBackup, RemoveLock, Committing
    <3>2. ASSUME NEW f \in Index PROVE fs[Target(f)].state # "unsafe"
      <4>1. f < at[p] \/ f = N
        BY <3>1, ConstantFacts
      <4>2. f < at[p] => Untouched(p, f) /\ ~MustRefuse(p, f)
        BY <1>0, <3>1 DEF JournalInv, CheckTarget
      <4> QED
        BY <3>1, <4>1, <4>2, ContentFacts DEF Untouched, MustRefuse
    <3> QED
      BY <2>1, <3>2 DEF NoneUnsafe
  <2> QED
    BY <2>2, <2>3
<1> QED
  BY <1>1, <1>2, <1>3 DEF ProgressInv, Exists
-----------------------------------------------------------------------------
(* The account.                                                            *)

LEMMA LostIsFinite == IsFiniteSet(Lost) /\ IsFiniteSet(Lost')
<1>1. IsFiniteSet(Index)
  BY ConstantFacts, FS_Interval DEF Index
<1> QED
  BY <1>1, FS_Subset DEF Lost

LEMMA OneMore ==
  ASSUME NEW S, NEW T, NEW x, IsFiniteSet(S), T \subseteq S \cup {x}
  PROVE  /\ Cardinality(S) \in Nat /\ Cardinality(T) \in Nat
         /\ Cardinality(T) <= Cardinality(S) + 1
<1>1. IsFiniteSet(S \cup {x}) /\ IsFiniteSet(T) /\ Cardinality(T) <= Cardinality(S \cup {x})
  BY FS_AddElement, FS_Subset
<1>2. Cardinality(S) \in Nat /\ Cardinality(T) \in Nat /\ Cardinality(S \cup {x}) \in Nat
  BY <1>1, FS_CardinalityType
<1>3. Cardinality(S \cup {x}) \in {Cardinality(S), Cardinality(S) + 1}
  BY FS_AddElement
<1> QED
  BY <1>1, <1>2, <1>3

\* A step that fails one run at the price of a lock or a temporary file that a
\* crash left, or no forced run at all, adds no debt.
LEMMA Settled ==
  ASSUME IsFiniteSet(failed), NEW p,
         \/ /\ Forced \cap failed' = Forced \cap failed
            /\ Lost' \subseteq Lost /\ (Orphaned' => Orphaned)
         \/ failed' = failed \cup {p} /\ Lost' \subseteq Lost /\ Orphaned /\ ~Orphaned'
         \/ /\ failed' = failed \cup {p} /\ (Orphaned' => Orphaned)
            /\ \E f \in Lost : Lost' \subseteq Lost \ {f}
  PROVE  Debt' <= Debt /\ Debt \in Nat /\ Debt' \in Nat
<1> DEFINE F  == Forced \cap failed
           F2 == Forced \cap failed'
<1>1. IsFiniteSet(F)
  BY FS_Intersection
<1>2. F2 = F \/ F2 \subseteq F \cup {p}
  OBVIOUS
<1>3. /\ Cardinality(F) \in Nat /\ Cardinality(F2) \in Nat
      /\ Cardinality(F2) <= Cardinality(F) + 1
  <2>1. F2 \subseteq F \cup {p}
    BY <1>2
  <2> HIDE DEF F, F2
  <2> QED
    BY <1>1, <2>1, OneMore
<1>4. Cardinality(Lost) \in Nat /\ Cardinality(Lost') \in Nat
  BY LostIsFinite, FS_CardinalityType
<1>5. Lost' \subseteq Lost => Cardinality(Lost') <= Cardinality(Lost)
  BY LostIsFinite, FS_Subset
<1>6. ASSUME NEW f \in Lost, Lost' \subseteq Lost \ {f}
      PROVE  Cardinality(Lost') + 1 <= Cardinality(Lost)
  <2>1. /\ IsFiniteSet(Lost \ {f}) /\ Cardinality(Lost \ {f}) = Cardinality(Lost) - 1
    BY LostIsFinite, FS_RemoveElement
  <2>2. Cardinality(Lost') <= Cardinality(Lost \ {f})
    BY <1>6, <2>1, FS_Subset
  <2> QED
    BY <1>4, <2>1, <2>2
<1>7. /\ Debt = Cardinality(F) + Cardinality(Lost) + (IF Orphaned THEN 1 ELSE 0)
      /\ Debt' = Cardinality(F2) + Cardinality(Lost') + (IF Orphaned' THEN 1 ELSE 0)
  BY DEF Debt
<1> HIDE DEF F2
<1>8. CASE F2 = F /\ Lost' \subseteq Lost /\ (Orphaned' => Orphaned)
  BY <1>3, <1>4, <1>5, <1>7, <1>8
<1>9. CASE Lost' \subseteq Lost /\ Orphaned /\ ~Orphaned'
  BY <1>3, <1>4, <1>5, <1>7, <1>9
<1>10. CASE (Orphaned' => Orphaned) /\ \E f \in Lost : Lost' \subseteq Lost \ {f}
  BY <1>3, <1>4, <1>6, <1>7, <1>10
<1> QED
  BY <1>8, <1>9, <1>10 DEF F2

\* A crash leaves at most the lock and the temporary file of the current target.
LEMMA Charged ==
  ASSUME IsFiniteSet(failed), UNCHANGED failed, NEW f, Lost' \subseteq Lost \cup {f}
  PROVE  Debt' <= Debt + 2 /\ Debt \in Nat /\ Debt' \in Nat
<1>1. Cardinality(Forced \cap failed) \in Nat
  BY FS_Intersection, FS_CardinalityType
<1>2. /\ Cardinality(Lost) \in Nat /\ Cardinality(Lost') \in Nat
      /\ Cardinality(Lost') <= Cardinality(Lost) + 1
  BY LostIsFinite, OneMore
<1>3. /\ Debt = Cardinality(Forced \cap failed) + Cardinality(Lost) + (IF Orphaned THEN 1 ELSE 0)
      /\ Debt' = Cardinality(Forced \cap failed) + Cardinality(Lost') + (IF Orphaned' THEN 1 ELSE 0)
  BY DEF Debt
<1> QED
  BY <1>1, <1>2, <1>3
-----------------------------------------------------------------------------
(* How each step of a run keeps the account, no call failing.              *)

LEMMA QuietRun ==
  ASSUME RecoveryInv, NEW p \in Proc, Run(p), faults' = 0, Usable'
  PROVE  faults = 0 /\ unclean = {} /\ unclean' = {} /\ Usable /\ UNCHANGED crashes
<1>1. faults \in Nat /\ unclean \subseteq Proc /\ dir \in {"missing", "real", "link", "file"}
  BY DEF RecoveryInv, JournalsInv, SerialInv, TypeInv, TypeOK
<1>2. UNCHANGED faults \/ faults' = faults + 1
  BY DEF Run, Begin, AcquireLock, CheckTarget, CreateTemp, WriteTemp, SyncTemp, StatTarget,
     BackupTarget, ReplaceTarget, RollbackEntry, RollbackDone, SweepTemp, SweepBackup,
     RemoveLock, Sweep, NoFault, Fault, envVars
<1>3. faults = 0 /\ UNCHANGED faults
  BY <1>1, <1>2
<1>4. UNCHANGED <<unclean, crashes>> /\ (dir' = dir \/ dir = "missing")
  BY <1>3 DEF Run, Begin, AcquireLock, CheckTarget, CreateTemp, WriteTemp, SyncTemp, StatTarget,
     BackupTarget, ReplaceTarget, RollbackEntry, RollbackDone, SweepTemp, SweepBackup,
     RemoveLock, Sweep, NoFault, Fault, envVars, fileVars
<1>5. NoneUnsafe' <=> NoneUnsafe
  BY TargetsOfStep DEF RecoveryInv, ProgressInv
<1> QED
  BY <1>1, <1>3, <1>4, <1>5 DEF RecoveryInv, AccountInv, Usable, NoneUnsafe

LEMMA NothingLost ==
  ASSUME RecoveryInv, Mode = "serial", NEW p \in Proc, Run(p), unclean = {}
  PROVE  Lost' \subseteq Lost
<1> USE DEF Goto
<1>0. /\ TypeInv /\ ResidueInv(p) /\ pc \in [Proc -> Label] /\ journal \in [Proc -> Journal]
      /\ \A q \in Proc : q # p => ~Running(q)
  BY SerialStep DEF RecoveryInv, JournalsInv, CleanInv, SerialInv, TypeInv, TypeOK
<1>1. ASSUME NEW f \in Index, Exists(Temp(f))',
             \A q \in Proc : Running(q)' => f \notin journal'[q].opened
      PROVE  f \in Lost
  <2>1. Running(p)' => f \notin journal'[p].opened
    BY <1>1
  <2>2. Exists(Temp(f))
    <3>1. pc[p] = "create" => Running(p)'
      BY <1>0 DEF Run, Begin, AcquireLock, CheckTarget, CreateTemp, WriteTemp, SyncTemp,
         StatTarget, BackupTarget, ReplaceTarget, RollbackEntry, RollbackDone, SweepTemp,
         SweepBackup, RemoveLock, Fail, Running, Committing
    <3> QED
      BY <1>0, <1>1, <2>1, <3>1, TempsOfStep
  <2>3. Running(p) => f \notin journal[p].opened
    <3>1. CASE Running(p)'
      <4>1. journal[p].opened \subseteq journal'[p].opened
        BY <1>0 DEF Run, Begin, AcquireLock, CheckTarget, CreateTemp, WriteTemp, SyncTemp,
           Refuse, StatTarget, BackupTarget, ReplaceTarget, RollbackEntry, RollbackDone,
           SweepTemp, SweepBackup, RemoveLock, Journal
      <4> QED
        BY <2>1, <3>1, <4>1
    <3>2. CASE ~Running(p)' /\ Running(p)
      <4>1. pc[p] = "unlock"
        BY <1>0, <3>2 DEF Run, Begin, AcquireLock, CheckTarget, CreateTemp, WriteTemp, SyncTemp,
           StatTarget, BackupTarget, ReplaceTarget, RollbackEntry, RollbackDone, SweepTemp,
           SweepBackup, RemoveLock, Refuse, Fail, EnterCleanup, Running, Preparing, Committing,
           Sweeping
      <4> QED
        BY <1>0, <2>2, <4>1 DEF ResidueInv, Swept, Sweeping
    <3> QED
      BY <3>1, <3>2
  <2> QED
    BY <1>0, <2>2, <2>3 DEF Lost
<1> QED
  BY <1>1 DEF Lost

LEMMA NothingOrphaned ==
  ASSUME RecoveryInv, Mode = "serial", NEW p \in Proc, Run(p), UNCHANGED faults
  PROVE  Orphaned' => Orphaned
<1> USE DEF Goto
<1>0. /\ pc \in [Proc -> Label] /\ faults \in Nat
      /\ \A q \in Proc : q # p => ~Running(q) /\ pc'[q] = pc[q]
  BY SerialStep DEF RecoveryInv, JournalsInv, SerialInv, TypeInv, TypeOK
<1>1. \A q \in Proc : Clearing(q) => Running(q)
  BY DEF Clearing, Running, Preparing
<1>2. ~Clearing(p)' => Begin(p) \/ RemoveLock(p)
  BY <1>0 DEF Run, AcquireLock, CheckTarget, CreateTemp, WriteTemp, SyncTemp,
     StatTarget, BackupTarget, ReplaceTarget, RollbackEntry, RollbackDone, SweepTemp,
     SweepBackup, Refuse, Fail, EnterCleanup, Clearing, Committing, Sweeping
<1>3. RemoveLock(p) => lock' = "free"
  BY <1>0 DEF RemoveLock, Fault
<1>4. Begin(p) => UNCHANGED lock /\ ~Clearing(p)
  BY DEF Begin, Clearing, Committing, Sweeping
<1> QED
  BY <1>0, <1>1, <1>2, <1>3, <1>4 DEF Orphaned

\* Every forced run that fails has met a lock or a temporary file that a crash
\* left, and its clean-up removes what it met.
LEMMA FailureIsPaid ==
  ASSUME RecoveryInv, Mode = "serial", NEW p \in Proc, Run(p), faults' = 0, Usable'
  PROVE  \/ Forced \cap failed' = Forced \cap failed
         \/ failed' = failed \cup {p} /\ Orphaned /\ ~Orphaned'
         \/ failed' = failed \cup {p} /\ \E f \in Lost : f \notin Lost'
<1> USE DEF Goto
<1>0. /\ TypeInv /\ ResidueInv(p) /\ RunInv(p) /\ ProgressInv(p) /\ pc \in [Proc -> Label]
      /\ journal \in [Proc -> Journal] /\ \A q \in Proc : q # p => ~Running(q)
      /\ N \in Nat
  BY SerialStep, ConstantFacts DEF RecoveryInv, JournalsInv, CleanInv, SerialInv, TypeInv, TypeOK
<1>1. /\ Usable /\ faults = 0 /\ UNCHANGED faults
      /\ \A c : ~Fault(c)
  BY QuietRun DEF Fault
<1>2. CASE Begin(p)
  BY <1>1, <1>2 DEF Begin, Usable
<1>3. CASE AcquireLock(p) /\ failed' # failed
  <2>1. lock = "held" /\ UNCHANGED lock /\ Refuse(p) /\ pc[p] = "lock"
    BY <1>1, <1>3 DEF AcquireLock, Usable
  <2>2. Clearing(p)'
    BY <1>0, <2>1 DEF Refuse, EnterCleanup, Clearing, Sweeping
  <2>3. \A q \in Proc : ~Clearing(q)
    BY <1>0, <2>1 DEF Clearing, Running, Preparing, Committing, Sweeping
  <2> QED
    BY <2>1, <2>2, <2>3 DEF Orphaned, Refuse
<1>4. CASE CheckTarget(p) /\ failed' # failed
  <2>1. at[p] \in Index
    BY <1>0, <1>4 DEF CheckTarget, TypeInv, IndexOK
  <2>2. fs[Target(at[p])].state # "unsafe"
    BY <1>1, <2>1 DEF Usable
  <2>3. p \notin Forced /\ failed' = failed \cup {p}
    BY <1>1, <1>4, <2>2 DEF CheckTarget, Refuse
  <2> QED
    BY <2>3
<1>5. CASE CreateTemp(p) /\ failed' # failed
  <2>1. /\ Exists(Temp(at[p])) /\ Fail(p) /\ pc[p] = "create" /\ at[p] \in Index
        /\ at[p] \in journal'[p].opened /\ UNCHANGED at
    BY <1>0, <1>1, <1>5 DEF CreateTemp, TypeInv, IndexOK, Journal
  <2>2. at[p] \notin journal[p].opened
    <3>1. journal[p].opened = UpTo(at[p] - 1)
      BY <1>0, <2>1 DEF ResidueInv
    <3> QED
      BY <2>1, <3>1, ConstantFacts DEF UpTo
  <2>3. at[p] \in Lost
    BY <1>0, <2>1, <2>2 DEF Lost
  <2>4. Running(p)'
    BY <1>0, <2>1 DEF Fail, Running, Committing
  <2>5. at[p] \notin Lost'
    BY <2>1, <2>4 DEF Lost
  <2> QED
    BY <2>1, <2>3, <2>5 DEF Fail
<1>6. CASE BackupTarget(p) /\ failed' # failed
  BY <1>0, <1>1, <1>6 DEF BackupTarget, ProgressInv
<1>7. CASE ReplaceTarget(p) /\ failed' # failed
  BY <1>0, <1>1, <1>7, ContentFacts DEF ReplaceTarget, RunInv, Exists
<1>8. CASE WriteTemp(p) \/ SyncTemp(p)
  BY <1>1, <1>8 DEF WriteTemp, SyncTemp
<1> QED
  BY <1>2, <1>3, <1>4, <1>5, <1>6, <1>7, <1>8
     DEF Run, StatTarget, RollbackEntry, RollbackDone, SweepTemp, SweepBackup, RemoveLock

LEMMA AccountRun ==
  ASSUME RecoveryInv, Mode = "serial", NEW p \in Proc, Run(p)
  PROVE  AccountInv'
<1>1. failed' = failed \/ failed' = failed \cup {p}
  BY DEF Run, Begin, AcquireLock, CheckTarget, CreateTemp, WriteTemp, SyncTemp, StatTarget,
     BackupTarget, ReplaceTarget, RollbackEntry, RollbackDone, SweepTemp, SweepBackup,
     RemoveLock, Refuse, Fail
<1>2. IsFiniteSet(failed')
  BY <1>1, FS_AddElement DEF RecoveryInv, AccountInv
<1>3. ASSUME faults' = 0 PROVE unclean' = {}
  <2>1. faults \in Nat /\ (UNCHANGED faults \/ faults' = faults + 1)
    BY DEF Run, Begin, AcquireLock, CheckTarget, CreateTemp, WriteTemp, SyncTemp, StatTarget,
       BackupTarget, ReplaceTarget, RollbackEntry, RollbackDone, SweepTemp, SweepBackup,
       RemoveLock, Sweep, NoFault, Fault, envVars, RecoveryInv, JournalsInv, SerialInv,
       TypeInv, TypeOK
  <2>2. faults = 0 /\ UNCHANGED faults
    BY <1>3, <2>1
  <2>3. UNCHANGED unclean
    BY <2>2 DEF Run, Begin, AcquireLock, CheckTarget, CreateTemp, WriteTemp, SyncTemp,
       StatTarget, BackupTarget, ReplaceTarget, RollbackEntry, RollbackDone, SweepTemp,
       SweepBackup, RemoveLock, Sweep, Fault
  <2> QED
    BY <2>2, <2>3 DEF RecoveryInv, AccountInv
<1>4. ASSUME faults' = 0, Usable' PROVE Debt' <= 2 * crashes'
  <2>1. faults = 0 /\ unclean = {} /\ Usable /\ UNCHANGED crashes /\ UNCHANGED faults
    BY <1>4, QuietRun
  <2>2. Lost' \subseteq Lost /\ (Orphaned' => Orphaned)
    BY <2>1, NothingLost, NothingOrphaned
  <2>3. \/ Forced \cap failed' = Forced \cap failed
        \/ failed' = failed \cup {p} /\ Orphaned /\ ~Orphaned'
        \/ failed' = failed \cup {p} /\ \E f \in Lost : Lost' \subseteq Lost \ {f}
    BY <1>4, <2>2, FailureIsPaid
  <2>4. Debt' <= Debt /\ Debt \in Nat /\ Debt' \in Nat
    BY <2>2, <2>3, Settled DEF RecoveryInv, AccountInv
  <2>5. crashes \in Nat /\ Debt <= 2 * crashes
    BY <2>1 DEF RecoveryInv, AccountInv, JournalsInv, SerialInv, TypeInv, TypeOK
  <2> QED
    BY <2>1, <2>4, <2>5
<1> QED
  BY <1>2, <1>3, <1>4 DEF AccountInv

\* A kill or a power loss ends the one run that is going.
LEMMA AccountCrash ==
  ASSUME RecoveryInv, NEW p \in Proc, Running(p), UNCHANGED <<journal, failed, faults, unclean, dir>>,
         crashes' = crashes + 1, NoneUnsafe' <=> NoneUnsafe,
         \A f \in Index : Exists(Temp(f))' <=> Exists(Temp(f))
  PROVE  AccountInv'
<1>1. Lost' \subseteq Lost \cup {at[p]}
  <2>1. ASSUME NEW f \in Index, Exists(Temp(f)), f # at[p] PROVE f \in Lost
    <3>1. \A q \in Proc : Running(q) => q = p
      BY DEF RecoveryInv, JournalsInv, SerialInv, Serial
    <3>2. f \notin journal[p].opened
      BY <2>1 DEF RecoveryInv, ProgressInv
    <3> QED
      BY <2>1, <3>1, <3>2 DEF Lost
  <2> QED
    BY <2>1 DEF Lost
<1>2. Debt' <= Debt + 2 /\ Debt \in Nat /\ Debt' \in Nat
  BY <1>1, Charged DEF RecoveryInv, AccountInv
<1>3. Usable' <=> Usable
  BY DEF Usable, NoneUnsafe
<1>4. crashes \in Nat
  BY DEF RecoveryInv, JournalsInv, SerialInv, TypeInv, TypeOK
<1>5. ASSUME faults' = 0, Usable' PROVE Debt' <= 2 * crashes'
  <2>1. Debt <= 2 * crashes
    BY <1>3, <1>5 DEF RecoveryInv, AccountInv
  <2> QED
    BY <1>2, <1>4, <2>1
<1> QED
  BY <1>5 DEF RecoveryInv, AccountInv

LEMMA NextRecoveryInv ==
  ASSUME RecoveryInv, Mode = "serial", [Next]_vars
  PROVE  RecoveryInv'
<1>1. JournalsInv' /\ CleanInv'
  BY NextJournalsInv, NextCleanInv DEF RecoveryInv
<1>0. SerialInv /\ TypeInv /\ pc \in [Proc -> Label] /\ fs \in [Path -> Content]
  BY DEF RecoveryInv, JournalsInv, SerialInv, TypeInv, TypeOK
<1>2. ASSUME NEW p \in Proc, Run(p) PROVE RecoveryInv'
  <2>1. ProgressInv(p)'
    BY <1>2, ProgressRun DEF RecoveryInv
  <2>2. \A q \in Proc : q # p => ~Running(q) /\ pc'[q] = pc[q]
    BY <1>0, <1>2, SerialStep DEF SerialInv
  <2>3. \A q \in Proc : q # p => ProgressInv(q)'
    BY <2>2 DEF ProgressInv, Running, Committing
  <2> QED
    BY <1>1, <1>2, <2>1, <2>3, AccountRun DEF RecoveryInv
<1>3. ASSUME NEW p \in Proc, Kill(p) PROVE RecoveryInv'
  <2>1. /\ UNCHANGED <<dir, fs, at, journal, failed, faults, unclean>>
        /\ crashes' = crashes + 1 /\ Running(p)
        /\ pc'[p] = "crashed" /\ \A q \in Proc : q # p => pc'[q] = pc[q]
    BY <1>0, <1>3 DEF Kill, Goto, fileVars
  <2>2. ProgressInv(p)'
    BY <2>1 DEF ProgressInv, Running, Preparing, Committing, Sweeping
  <2>3. \A q \in Proc : q # p => ProgressInv(q)'
    BY <2>1 DEF RecoveryInv, ProgressInv, Running, NoneUnsafe, Exists
  <2>4. AccountInv'
    BY <2>1, AccountCrash DEF NoneUnsafe, Exists
  <2> QED
    BY <1>1, <2>2, <2>3, <2>4 DEF RecoveryInv
<1>4. ASSUME PowerLoss PROVE RecoveryInv'
  <2>1. /\ UNCHANGED <<dir, at, journal, failed, faults, unclean>> /\ crashes' = crashes + 1
        /\ \A q \in Proc : ~Running(q)'
        /\ \E q \in Proc : Running(q)
    BY <1>4 DEF PowerLoss, Running, Preparing, Committing, Sweeping
  <2>2. \A q \in Proc : ProgressInv(q)'
    BY <2>1 DEF ProgressInv, Running, Committing
  <2>3. \A x \in Path : /\ Exists(x)' <=> Exists(x)
                        /\ fs'[x].state = "unsafe" <=> fs[x].state = "unsafe"
    BY <1>4 DEF PowerLoss, Exists, By, Absent
  <2>4. NoneUnsafe' <=> NoneUnsafe
    BY <2>3, ConstantFacts DEF NoneUnsafe
  <2>5. \A f \in Index : Exists(Temp(f))' <=> Exists(Temp(f))
    BY <2>3, ConstantFacts
  <2>6. AccountInv'
    BY <2>1, <2>4, <2>5, AccountCrash
  <2> QED
    BY <1>1, <2>2, <2>6 DEF RecoveryInv
<1>5. CASE UNCHANGED vars
  <2>1. UNCHANGED <<dir, lock, fs, pc, at, journal, failed, unclean, faults, crashes>>
    BY <1>5 DEF vars, fileVars, runVars, envVars
  <2>2. \A q \in Proc : ProgressInv(q)'
    BY <2>1 DEF RecoveryInv, ProgressInv, Running, NoneUnsafe, Exists
  <2>3. AccountInv'
    BY <2>1 DEF RecoveryInv, AccountInv, Debt, Lost, Orphaned, Clearing, Usable, Running, Exists
  <2> QED
    BY <1>1, <2>2, <2>3 DEF RecoveryInv
<1> QED
  BY <1>2, <1>3, <1>4, <1>5 DEF Next, Terminated

\* However often runs that do not overlap are killed or lose power, at most two
\* forced runs fail for each of these crashes as long as no call fails.
THEOREM Recovery ==
  ASSUME Mode = "serial" PROVE Spec => []CrashCostsTwoRuns
<1>1. Init => RecoveryInv
  <2> SUFFICES ASSUME Init PROVE RecoveryInv
    OBVIOUS
  <2>1. /\ \A p \in Proc : /\ pc[p] = "idle" /\ journal[p] = NoEntry /\ at[p] = 1
                           /\ \A f \in Index : before[p][f] = Absent
        /\ failed = {} /\ unclean = {} /\ lock = "free" /\ crashes = 0
    BY DEF Init
  <2>2. JournalsInv
    BY <2>1, InitSerialInv DEF JournalsInv, JournalInv, Committing, Looping, Sweeping
  <2>3. CleanInv
    BY <2>1, InitSerialInv DEF CleanInv, ResidueInv, Committing, Sweeping
  <2>4. \A p \in Proc : ProgressInv(p)
    BY <2>1, EmptyJournal DEF ProgressInv, Committing
  <2>5. \A f \in Index : ~Exists(Temp(f))
    <3>1. PICK old : fs = [x \in Path |-> IF x[1] = "target" THEN old[x[2]] ELSE Absent]
      BY DEF Init
    <3> QED
      BY <3>1, ConstantFacts DEF Exists, Temp
  <2>6. Debt = 0
    <3>1. Lost = {} /\ ~Orphaned /\ Forced \cap failed = {}
      BY <2>1, <2>5 DEF Lost, Orphaned
    <3>2. Cardinality({}) = 0
      BY FS_EmptySet
    <3> QED
      BY <3>1, <3>2 DEF Debt
  <2>7. AccountInv
    BY <2>1, <2>6, FS_EmptySet DEF AccountInv
  <2> QED
    BY <2>2, <2>3, <2>4, <2>7 DEF RecoveryInv
<1>2. RecoveryInv => CrashCostsTwoRuns
  <2> SUFFICES ASSUME RecoveryInv, Usable, faults = 0
               PROVE  Cardinality(Forced \cap failed) <= 2 * crashes
    BY DEF CrashCostsTwoRuns
  <2>1. /\ Cardinality(Lost) \in Nat /\ Cardinality(Forced \cap failed) \in Nat
        /\ crashes \in Nat /\ Debt <= 2 * crashes
    <3>1. crashes \in Nat /\ Debt <= 2 * crashes /\ IsFiniteSet(Forced \cap failed)
      BY FS_Intersection
         DEF RecoveryInv, AccountInv, JournalsInv, SerialInv, TypeInv, TypeOK
    <3> QED
      BY <3>1, LostIsFinite, FS_CardinalityType
  <2> QED
    BY <2>1 DEF Debt
<1> QED
  BY <1>1, <1>2, NextRecoveryInv, PTL DEF Spec
=============================================================================
