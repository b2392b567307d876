-------------------------- MODULE FileCommitProofs --------------------------
(***************************************************************************)
(* Proofs about FileCommit, for every number of runs and targets, every    *)
(* set of failing calls and any number of faults and crashes.              *)
(***************************************************************************)
EXTENDS FileCommit, TLAPS

\* The loop indices stay inside the journal wherever they are used: what the
\* type invariant rests on.
IndexOK ==
  \A p \in Proc :
    /\ pc[p] \in {"idle", "lock", "check", "create", "write", "sync", "stat", "backup",
                  "replace"} => at[p] \in Index
    /\ pc[p] \in {"sweepTemp", "sweepBackup"} => step[p] \in Index

TypeInv == TypeOK /\ IndexOK

LEMMA ConstantFacts ==
  /\ N \in Nat /\ N >= 1
  /\ 1 \in Index
  /\ \A f \in Index : f \in Nat /\ f >= 1 /\ f <= N
  /\ \A f \in Index : Target(f) \in Path /\ Temp(f) \in Path /\ Backup(f) \in Path
  /\ Absent \in Content
BY NAssumption DEF Index, Path, Target, Temp, Backup, Absent, By, Content

LEMMA InitTypeInv == Init => TypeInv
<1> SUFFICES ASSUME Init PROVE TypeInv
  OBVIOUS
<1>1. fs \in [Path -> Content]
  <2>1. PICK old \in [Index -> {Absent, By(User, "durable"), By(User, "unsafe")}] :
          fs = [x \in Path |-> IF x[1] = "target" THEN old[x[2]] ELSE Absent]
    BY DEF Init
  <2>2. \A f \in Index : old[f] \in Content
    BY DEF Content, By, Absent
  <2> QED
    BY <2>1, <2>2, ConstantFacts DEF Path
<1>2. IndexOK
  BY ConstantFacts DEF Init, IndexOK
<1>3. journal \in [Proc -> Journal]
  BY DEF Init, NoEntry, Journal
<1>4. before \in [Proc -> [Index -> Content]]
  BY ConstantFacts DEF Init
<1>5. at \in [Proc -> 1..N+1] /\ step \in [Proc -> 0..N]
  BY ConstantFacts DEF Init
<1>6. pc \in [Proc -> Label]
  BY DEF Init, Label
<1> QED
  BY <1>1, <1>2, <1>3, <1>4, <1>5, <1>6 DEF Init, TypeInv, TypeOK

LEMMA MoveType ==
  ASSUME fs \in [Path -> Content], NEW x \in Path, NEW y \in Path,
         Move(x, y) \/ Delete(x)
  PROVE  fs' \in [Path -> Content]
BY ConstantFacts DEF Move, Delete

LEMMA TouchType ==
  ASSUME fs \in [Path -> Content], NEW p \in Proc, NEW f \in Index,
         NEW old, NEW new \in {"partial", "written", "durable"},
         Touch(p, f, old, new)
  PROVE  fs' \in [Path -> Content]
BY DEF Touch, Content, By



LEMMA IndexFacts ==
  /\ 1 \in 1..N+1 /\ 1 \in 0..N /\ 0 \in 0..N
  /\ \A f \in Index : /\ f \in 1..N+1 /\ f + 1 \in 1..N+1
                      /\ f \in 0..N /\ f - 1 \in 0..N
                      /\ f # N => f + 1 \in Index
                      /\ f < N => f + 1 \in Index
  /\ \A i \in 0..N : i > 0 => i \in Index
BY ConstantFacts DEF Index


LEMMA JournalType ==
  ASSUME journal \in [Proc -> Journal], NEW p \in Proc, NEW f \in Index,
         \/ journal' = [journal EXCEPT ![p].opened = @ \cup {f}]
         \/ journal' = [journal EXCEPT ![p].existed = @ \cup {f}]
         \/ journal' = [journal EXCEPT ![p].committed = @ \cup {f}]
         \/ UNCHANGED journal
  PROVE  journal' \in [Proc -> Journal]
<1>1. \A j \in Journal : /\ [j EXCEPT !.opened = @ \cup {f}] \in Journal
                         /\ [j EXCEPT !.existed = @ \cup {f}] \in Journal
                         /\ [j EXCEPT !.committed = @ \cup {f}] \in Journal
  BY DEF Journal
<1> QED
  BY <1>1

LEMMA GotoType ==
  ASSUME pc \in [Proc -> Label], NEW p \in Proc, NEW l, Goto(p, l),
         l \in {"lock", "check", "create", "write", "sync", "stat", "backup", "replace",
                "rollback", "sweepTemp", "sweepBackup", "unlock", "done", "crashed"}
  PROVE  pc' \in [Proc -> Label]
BY DEF Goto, Label, Preparing, Committing, Sweeping, Ended

LEMMA NextTypeInv == TypeInv /\ [Next]_vars => TypeInv'
<1> SUFFICES ASSUME TypeInv, [Next]_vars PROVE TypeInv'
  OBVIOUS
<1> USE ConstantFacts, IndexFacts, BoundAssumption
<1> USE DEF TypeInv, TypeOK, IndexOK, NoFault, Fault, EnterCleanup, Refuse, Fail,
            fileVars, envVars
<1>1. ASSUME NEW p \in Proc, Begin(p) PROVE TypeInv'
  <2> USE <1>1 DEF Begin
  <2>1. pc' \in [Proc -> Label]
    BY GotoType
  <2>2. dir' \in {"missing", "real", "link", "file"}
    OBVIOUS
  <2>3. failed' \subseteq Proc /\ faults' \in Nat
    OBVIOUS
  <2>4. IndexOK'
    BY DEF Goto
  <2> QED
    BY <2>1, <2>2, <2>3, <2>4
<1>2. ASSUME NEW p \in Proc, AcquireLock(p) PROVE TypeInv'
  <2> USE <1>2 DEF AcquireLock
  <2>1. pc' \in [Proc -> Label]
    BY GotoType
  <2>2. lock' \in {"free", "held"}
    OBVIOUS
  <2>3. step' \in [Proc -> 0..N]
    OBVIOUS
  <2>4. failed' \subseteq Proc /\ faults' \in Nat
    OBVIOUS
  <2>5. before' \in [Proc -> [Index -> Content]]
    OBVIOUS
  <2>6. IndexOK'
    BY DEF Goto
  <2> QED
    BY <2>1, <2>2, <2>3, <2>4, <2>5, <2>6
<1>3. ASSUME NEW p \in Proc, CheckTarget(p) PROVE TypeInv'
  <2> USE <1>3 DEF CheckTarget
  <2>0. at[p] \in Index
    OBVIOUS
  <2>1. pc' \in [Proc -> Label]
    BY <2>0, GotoType
  <2>2. at' \in [Proc -> 1..N+1]
    BY <2>0
  <2>3. step' \in [Proc -> 0..N]
    BY <2>0
  <2>4. failed' \subseteq Proc /\ faults' \in Nat
    BY <2>0
  <2>5. IndexOK'
    BY <2>0 DEF Goto
  <2> QED
    BY <2>1, <2>2, <2>3, <2>4, <2>5
<1>4. ASSUME NEW p \in Proc, CreateTemp(p) PROVE TypeInv'
  <2> USE <1>4 DEF CreateTemp
  <2>0. at[p] \in Index
    OBVIOUS
  <2>1. pc' \in [Proc -> Label]
    BY <2>0, GotoType
  <2>2. step' \in [Proc -> 0..N]
    BY <2>0
  <2>3. failed' \subseteq Proc /\ faults' \in Nat
    BY <2>0
  <2>4. fs' \in [Path -> Content]
    <3>1. By(p, "partial") \in Content /\ Temp(at[p]) \in Path
      BY <2>0 DEF By, Content
    <3> QED
      BY <3>1
  <2>5. journal' \in [Proc -> Journal]
    BY <2>0, JournalType
  <2>6. IndexOK'
    BY <2>0 DEF Goto
  <2> QED
    BY <2>1, <2>2, <2>3, <2>4, <2>5, <2>6
<1>5. ASSUME NEW p \in Proc, WriteTemp(p) PROVE TypeInv'
  <2> USE <1>5 DEF WriteTemp
  <2>0. at[p] \in Index
    OBVIOUS
  <2>1. pc' \in [Proc -> Label]
    BY <2>0, GotoType
  <2>2. step' \in [Proc -> 0..N]
    BY <2>0
  <2>3. failed' \subseteq Proc /\ faults' \in Nat
    BY <2>0
  <2>4. fs' \in [Path -> Content]
    BY <2>0, TouchType
  <2>5. IndexOK'
    BY <2>0 DEF Goto
  <2> QED
    BY <2>1, <2>2, <2>3, <2>4, <2>5
<1>6. ASSUME NEW p \in Proc, SyncTemp(p) PROVE TypeInv'
  <2> USE <1>6 DEF SyncTemp
  <2>0. at[p] \in Index
    OBVIOUS
  <2>1. pc' \in [Proc -> Label]
    BY <2>0, GotoType
  <2>2. step' \in [Proc -> 0..N]
    BY <2>0
  <2>3. failed' \subseteq Proc /\ faults' \in Nat
    BY <2>0
  <2>4. fs' \in [Path -> Content]
    BY <2>0, TouchType
  <2>5. IndexOK'
    BY <2>0 DEF Goto
  <2> QED
    BY <2>1, <2>2, <2>3, <2>4, <2>5
<1>7. ASSUME NEW p \in Proc, StatTarget(p) PROVE TypeInv'
  <2> USE <1>7 DEF StatTarget
  <2>0. at[p] \in Index
    OBVIOUS
  <2>1. pc' \in [Proc -> Label]
    BY <2>0, GotoType
  <2>2. journal' \in [Proc -> Journal]
    BY <2>0, JournalType
  <2>3. faults' \in Nat
    BY <2>0
  <2>4. IndexOK'
    BY <2>0 DEF Goto
  <2> QED
    BY <2>1, <2>2, <2>3, <2>4
<1>8. ASSUME NEW p \in Proc, BackupTarget(p) PROVE TypeInv'
  <2> USE <1>8 DEF BackupTarget
  <2>0. at[p] \in Index
    OBVIOUS
  <2>1. pc' \in [Proc -> Label]
    BY <2>0, GotoType
  <2>2. step' \in [Proc -> 0..N]
    BY <2>0
  <2>3. failed' \subseteq Proc /\ faults' \in Nat
    BY <2>0
  <2>4. fs' \in [Path -> Content]
    BY <2>0, MoveType
  <2>5. IndexOK'
    BY <2>0 DEF Goto
  <2> QED
    BY <2>1, <2>2, <2>3, <2>4, <2>5
<1>9. ASSUME NEW p \in Proc, ReplaceTarget(p) PROVE TypeInv'
  <2> USE <1>9 DEF ReplaceTarget
  <2>0. at[p] \in Index
    OBVIOUS
  <2>1. pc' \in [Proc -> Label]
    BY <2>0, GotoType
  <2>2. step' \in [Proc -> 0..N]
    BY <2>0
  <2>3. failed' \subseteq Proc /\ faults' \in Nat
    BY <2>0
  <2>4. fs' \in [Path -> Content]
    BY <2>0, MoveType
  <2>5. journal' \in [Proc -> Journal]
    BY <2>0, JournalType
  <2>6. at' \in [Proc -> 1..N+1]
    BY <2>0
  <2>7. IndexOK'
    BY <2>0 DEF Goto
  <2> QED
    BY <2>1, <2>2, <2>3, <2>4, <2>5, <2>6, <2>7
<1>10. ASSUME NEW p \in Proc, RollbackEntry(p) PROVE TypeInv'
  <2> USE <1>10 DEF RollbackEntry
  <2>0. step[p] \in Index
    OBVIOUS
  <2>1. step' \in [Proc -> 0..N]
    BY <2>0
  <2>2. fs' \in [Path -> Content]
    BY <2>0, MoveType
  <2>3. unrestored' \in [Proc -> SUBSET Index]
    BY <2>0
  <2>4. faults' \in Nat
    BY <2>0
  <2>5. IndexOK'
    BY <2>0 DEF Goto
  <2> QED
    BY <2>1, <2>2, <2>3, <2>4, <2>5
<1>11. ASSUME NEW p \in Proc, RollbackDone(p) PROVE TypeInv'
  <2> USE <1>11 DEF RollbackDone
  <2>1. pc' \in [Proc -> Label]
    BY GotoType
  <2>2. step' \in [Proc -> 0..N]
    OBVIOUS
  <2>3. IndexOK'
    BY DEF Goto
  <2> QED
    BY <2>1, <2>2, <2>3
<1>12. ASSUME NEW p \in Proc, SweepTemp(p) PROVE TypeInv'
  <2> USE <1>12 DEF SweepTemp
  <2>0. step[p] \in Index
    OBVIOUS
  <2>1. pc' \in [Proc -> Label]
    BY <2>0, GotoType
  <2>2. fs' \in [Path -> Content]
    BY <2>0, MoveType DEF Sweep
  <2>3. unclean' \subseteq Proc /\ faults' \in Nat
    BY <2>0 DEF Sweep
  <2>4. IndexOK'
    BY <2>0 DEF Goto
  <2> QED
    BY <2>1, <2>2, <2>3, <2>4 DEF Sweep
<1>13. ASSUME NEW p \in Proc, SweepBackup(p) PROVE TypeInv'
  <2> USE <1>13 DEF SweepBackup
  <2>0. step[p] \in Index
    OBVIOUS
  <2>1. pc' \in [Proc -> Label]
    BY <2>0, GotoType
  <2>2. fs' \in [Path -> Content]
    BY <2>0, MoveType DEF Sweep
  <2>3. unclean' \subseteq Proc /\ faults' \in Nat
    BY <2>0 DEF Sweep
  <2>4. step' \in [Proc -> 0..N]
    BY <2>0
  <2>5. IndexOK'
    BY <2>0 DEF Goto
  <2> QED
    BY <2>1, <2>2, <2>3, <2>4, <2>5 DEF Sweep
<1>14. ASSUME NEW p \in Proc, RemoveLock(p) PROVE TypeInv'
  <2> USE <1>14 DEF RemoveLock
  <2>1. pc' \in [Proc -> Label]
    BY GotoType
  <2>2. unclean' \subseteq Proc /\ faults' \in Nat
    BY DEF Sweep
  <2>3. lock' \in {"free", "held"}
    OBVIOUS
  <2>4. IndexOK'
    BY DEF Goto
  <2> QED
    BY <2>1, <2>2, <2>3, <2>4 DEF Sweep
<1>15. ASSUME NEW p \in Proc, Kill(p) PROVE TypeInv'
  <2> USE <1>15 DEF Kill
  <2>1. pc' \in [Proc -> Label]
    BY GotoType
  <2>2. crashes' \in Nat
    OBVIOUS
  <2>3. IndexOK'
    BY DEF Goto
  <2> QED
    BY <2>1, <2>2, <2>3
<1>16. ASSUME PowerLoss PROVE TypeInv'
  BY <1>16 DEF PowerLoss, Running, By, Content, Label, Ended
<1>17. CASE UNCHANGED vars
  BY <1>17 DEF vars, runVars
<1> QED
  BY <1>1, <1>2, <1>3, <1>4, <1>5, <1>6, <1>7, <1>8, <1>9, <1>10, <1>11, <1>12, <1>13, <1>14, <1>15, <1>16, <1>17 DEF Next, Run, Terminated

\* Type correctness of the commit stage, for every N, Proc and fault set.
THEOREM TypeCorrect == Spec => []TypeOK
<1>1. Spec => []TypeInv
  BY InitTypeInv, NextTypeInv, PTL DEF Spec
<1> QED
  BY <1>1, PTL DEF TypeInv
-----------------------------------------------------------------------------
(* Runs that do not overlap, whatever was left behind by the ones before.  *)

Serial == \A p, q \in Proc : Running(p) /\ Running(q) => p = q

\* Half-written inodes are only ever under temporary names.
HalfOnlyTemp ==
  \A f \in Index : /\ fs[Target(f)].state \notin {"partial", "written"}
                   /\ fs[Backup(f)].state \notin {"partial", "written"}

\* The temporary file of the current target is the run's own inode, as far as
\* the run has brought it; the targets before it are published.
RunInv(p) ==
  /\ pc[p] \in {"check", "create", "write", "sync", "stat", "backup", "replace"}
       => p \notin failed
  /\ pc[p] = "rollback" => p \in failed
  /\ pc[p] = "write" => fs[Temp(at[p])] = By(p, "partial")
  /\ pc[p] = "sync"  => fs[Temp(at[p])] = By(p, "written")
  /\ pc[p] \in {"stat", "backup", "replace"} => fs[Temp(at[p])] = By(p, "durable")
  /\ pc[p] \in {"create", "write", "sync", "stat", "backup", "replace"} =>
       \A f \in Index : f < at[p] => fs[Target(f)] = By(p, "durable")
  /\ pc[p] \in Sweeping /\ p \notin failed =>
       \A f \in Index : fs[Target(f)] = By(p, "durable")

\* A run that is yet to end a preparation has not failed.
Fresh == \A p \in Proc : pc[p] \in {"idle", "lock"} => p \notin failed

SerialInv == /\ TypeInv
             /\ Serial
             /\ Fresh
             /\ HalfOnlyTemp
             /\ \A p \in Proc : RunInv(p)

\* Paths of different kinds or targets are different.
LEMMA PathFacts ==
  \A f, g \in Index : /\ Target(f) # Temp(g) /\ Target(f) # Backup(g) /\ Temp(f) # Backup(g)
                      /\ f # g => /\ Target(f) # Target(g) /\ Temp(f) # Temp(g)
                                  /\ Backup(f) # Backup(g)
BY DEF Target, Temp, Backup

LEMMA ContentFacts ==
  /\ Absent.state = "absent" /\ Absent.author = User
  /\ \A p \in Proc, s \in {"partial", "written", "durable"} :
       By(p, s).state = s /\ By(p, s).author = p /\ By(p, s) # Absent
BY DEF Absent, By

LEMMA MoveEffect ==
  ASSUME fs \in [Path -> Content], NEW x \in Path, NEW y \in Path, x # y, Move(x, y)
  PROVE  fs'[x] = Absent /\ fs'[y] = fs[x] /\ \A z \in Path : z \notin {x, y} => fs'[z] = fs[z]
BY DEF Move

LEMMA DeleteEffect ==
  ASSUME fs \in [Path -> Content], NEW x \in Path, Delete(x)
  PROVE  fs'[x] = Absent /\ \A z \in Path : z # x => fs'[z] = fs[z]
BY DEF Delete

LEMMA TouchEffect ==
  ASSUME fs \in [Path -> Content], NEW p, NEW f \in Index, NEW old, NEW new,
         Touch(p, f, old, new)
  PROVE  /\ fs[Temp(f)] = By(p, old) => fs'[Temp(f)] = By(p, new)
         /\ \A z \in Path : fs[z] # By(p, old) => fs'[z] = fs[z]
BY DEF Touch, Temp, Path

\* Only the stepping run moves, and in serial mode no other run is going.
LEMMA SerialStep ==
  ASSUME TypeInv, Serial, Mode = "serial", NEW p \in Proc, Run(p)
  PROVE  /\ \A q \in Proc : q # p => /\ ~Running(q) /\ pc'[q] = pc[q]
                                     /\ q \in failed' => q \in failed
         /\ Serial'
<1> USE DEF Run, TypeInv, TypeOK, Goto, Running, Refuse, Fail, EnterCleanup
<1>1. \A q \in Proc : q # p => ~Running(q)
  <2>1. CASE Begin(p)
    BY <2>1 DEF Begin
  <2>2. CASE ~Begin(p)
    <3>1. Running(p)
      BY <2>2 DEF AcquireLock, CheckTarget, CreateTemp, WriteTemp, SyncTemp, StatTarget,
           BackupTarget, ReplaceTarget, RollbackEntry, RollbackDone, SweepTemp,
           SweepBackup, RemoveLock, Preparing, Committing, Sweeping
    <3> QED
      BY <3>1 DEF Serial
  <2> QED
    BY <2>1, <2>2
<1>2. \A q \in Proc : q # p => pc'[q] = pc[q]
  <2>1. (\E l : Goto(p, l)) \/ UNCHANGED pc
    <3> HIDE DEF Goto, TypeInv, Running
    <3> QED
      BY DEF Begin, AcquireLock, CheckTarget, CreateTemp, WriteTemp, SyncTemp,
           StatTarget, BackupTarget, ReplaceTarget, RollbackEntry, RollbackDone,
           SweepTemp, SweepBackup, RemoveLock
  <2> QED
    BY <2>1
<1>3. \A q \in Proc : q # p => (q \in failed' => q \in failed)
  <2>1. failed' = failed \/ failed' = failed \cup {p}
    <3> HIDE DEF Goto, TypeInv, Running, EnterCleanup
    <3> QED
      BY DEF Begin, AcquireLock, CheckTarget, CreateTemp, WriteTemp, SyncTemp,
           StatTarget, BackupTarget, ReplaceTarget, RollbackEntry, RollbackDone,
           SweepTemp, SweepBackup, RemoveLock
  <2> QED
    BY <2>1
<1> QED
  BY <1>1, <1>2, <1>3 DEF Serial

\* A step of run p that leaves HalfOnlyTemp and RunInv(p) true keeps the rest.
LEMMA SerialFrame ==
  ASSUME SerialInv, Mode = "serial", NEW p \in Proc, Run(p), TypeInv',
         HalfOnlyTemp', RunInv(p)', pc'[p] \in {"idle", "lock"} => p \notin failed'
  PROVE  SerialInv'
<1>1. /\ \A q \in Proc : q # p => /\ ~Running(q) /\ pc'[q] = pc[q]
                                  /\ q \in failed' => q \in failed
      /\ Serial'
  BY SerialStep DEF SerialInv
<1>2. Fresh'
  BY <1>1 DEF SerialInv, Fresh
<1>3. ASSUME NEW q \in Proc PROVE RunInv(q)'
  <2>1. CASE q = p
    BY <2>1 DEF RunInv
  <2>2. CASE q # p
    BY <1>1, <2>2 DEF RunInv, Running, Preparing, Committing, Sweeping
  <2> QED
    BY <2>1, <2>2
<1> QED
  BY <1>1, <1>2, <1>3 DEF SerialInv

\* Renaming the run's own synced inode publishes the current target.
LEMMA SerialReplace ==
  ASSUME TypeInv, HalfOnlyTemp, NEW p \in Proc, RunInv(p), ReplaceTarget(p)
  PROVE  HalfOnlyTemp' /\ RunInv(p)' /\ (pc'[p] \in {"idle", "lock"} => p \notin failed')
<1> DEFINE f == at[p]
<1>1. /\ f \in Index /\ at \in [Proc -> 1..N+1] /\ pc \in [Proc -> Label]
      /\ fs \in [Path -> Content]
  BY DEF TypeInv, TypeOK, IndexOK, ReplaceTarget
<1>2. /\ fs[Temp(f)] = By(p, "durable") /\ p \notin failed
      /\ \A g \in Index : g < f => fs[Target(g)] = By(p, "durable")
  BY DEF ReplaceTarget, RunInv
<1>3. CASE Fail(p) /\ UNCHANGED <<fs, journal, at>>
  <2>1. pc'[p] = "rollback" /\ p \in failed'
    BY <1>1, <1>3 DEF Fail, Goto
  <2> QED
    BY <1>3, <2>1 DEF HalfOnlyTemp, RunInv, Sweeping
<1>4. CASE /\ Move(Temp(f), Target(f)) /\ UNCHANGED failed
           /\ at' = [at EXCEPT ![p] = f + 1]
           /\ IF f = N THEN EnterCleanup(p) ELSE Goto(p, "create")
  <2>1. fs'[Target(f)] = By(p, "durable")
    BY <1>1, <1>2, <1>4, MoveEffect, PathFacts, ConstantFacts
  <2>2. \A g \in Index : /\ g # f => fs'[Target(g)] = fs[Target(g)]
                         /\ fs'[Backup(g)] = fs[Backup(g)]
    BY <1>1, <1>4, MoveEffect, PathFacts, ConstantFacts
  <2>3. HalfOnlyTemp'
    BY <1>1, <2>1, <2>2, ContentFacts DEF HalfOnlyTemp
  <2>4. \A g \in Index : g < f + 1 => fs'[Target(g)] = By(p, "durable")
    BY <1>1, <1>2, <2>1, <2>2, ConstantFacts
  <2>5. at'[p] = f + 1 /\ p \notin failed'
    BY <1>1, <1>2, <1>4
  <2>6. CASE f = N
    <3>1. pc'[p] \in Sweeping
      BY <1>1, <1>4, <2>6 DEF EnterCleanup, Goto, Sweeping
    <3>2. \A g \in Index : fs'[Target(g)] = By(p, "durable")
      BY <2>4, <2>6, ConstantFacts
    <3> QED
      BY <2>3, <2>5, <3>1, <3>2 DEF RunInv, Sweeping
  <2>7. CASE f # N
    <3>1. pc'[p] = "create"
      BY <1>1, <1>4, <2>7 DEF Goto
    <3> QED
      BY <2>3, <2>4, <2>5, <3>1 DEF RunInv, Sweeping
  <2> QED
    BY <2>6, <2>7
<1> QED
  BY <1>3, <1>4 DEF ReplaceTarget

LEMMA SerialRun ==
  ASSUME SerialInv, Mode = "serial", NEW p \in Proc, Run(p), TypeInv'
  PROVE  HalfOnlyTemp' /\ RunInv(p)' /\ (pc'[p] \in {"idle", "lock"} => p \notin failed')
<1> USE ConstantFacts, PathFacts, ContentFacts
<1> USE DEF SerialInv, TypeInv, TypeOK, IndexOK, HalfOnlyTemp, RunInv, Fresh, Goto, Fail, Refuse,
            EnterCleanup, Sweeping, fileVars
<1>1. CASE Begin(p)
  BY <1>1 DEF Begin
<1>2. CASE AcquireLock(p)
  BY <1>2 DEF AcquireLock
<1>3. CASE CheckTarget(p)
  BY <1>3 DEF CheckTarget
<1>4. CASE CreateTemp(p)
  BY <1>4 DEF CreateTemp
<1>5. CASE WriteTemp(p)
  <2> USE <1>5 DEF WriteTemp
  <2>0. at[p] \in Index
    OBVIOUS
  <2>1. CASE Fail(p) /\ UNCHANGED fs
    BY <2>1
  <2>2. CASE Touch(p, at[p], "partial", "written")
    <3>1. \A f \in Index : fs'[Target(f)] = fs[Target(f)] /\ fs'[Backup(f)] = fs[Backup(f)]
      BY <2>0, <2>2, TouchEffect
    <3>2. fs'[Temp(at[p])] = By(p, "written")
      BY <2>0, <2>2, TouchEffect
    <3> QED
      BY <2>0, <3>1, <3>2
  <2> QED
    BY <2>1, <2>2
<1>6. CASE SyncTemp(p)
  <2> USE <1>6 DEF SyncTemp
  <2>0. at[p] \in Index
    OBVIOUS
  <2>1. CASE Fail(p) /\ UNCHANGED fs
    BY <2>1
  <2>2. CASE Touch(p, at[p], "written", "durable")
    <3>1. \A f \in Index : fs'[Target(f)] = fs[Target(f)] /\ fs'[Backup(f)] = fs[Backup(f)]
      BY <2>0, <2>2, TouchEffect
    <3>2. fs'[Temp(at[p])] = By(p, "durable")
      BY <2>0, <2>2, TouchEffect
    <3> QED
      BY <2>0, <3>1, <3>2
  <2> QED
    BY <2>1, <2>2
<1>7. CASE StatTarget(p)
  BY <1>7 DEF StatTarget
<1>8. CASE BackupTarget(p)
  BY <1>8, MoveEffect DEF BackupTarget
<1>9. CASE ReplaceTarget(p)
  BY <1>9, SerialReplace
<1>10. CASE RollbackEntry(p)
  <2> USE <1>10 DEF RollbackEntry
  <2>0. step[p] \in Index
    BY IndexFacts
  <2>1. RunInv(p)' /\ (pc'[p] \in {"idle", "lock"} => p \notin failed')
    OBVIOUS
  <2>2. HalfOnlyTemp'
    <3>1. CASE UNCHANGED fs
      BY <3>1
    <3>2. CASE Move(Backup(step[p]), Target(step[p]))
      BY <2>0, <3>2, MoveEffect
    <3>3. CASE Delete(Target(step[p]))
      BY <2>0, <3>3, DeleteEffect
    <3> QED
      BY <3>1, <3>2, <3>3
  <2> QED
    BY <2>1, <2>2
<1>11. CASE RollbackDone(p)
  BY <1>11 DEF RollbackDone
<1>12. CASE SweepTemp(p)
  BY <1>12, DeleteEffect DEF SweepTemp, Sweep
<1>13. CASE SweepBackup(p)
  BY <1>13, DeleteEffect DEF SweepBackup, Sweep
<1>14. CASE RemoveLock(p)
  BY <1>14 DEF RemoveLock
<1> QED
  BY <1>1, <1>2, <1>3, <1>4, <1>5, <1>6, <1>7, <1>8, <1>9, <1>10, <1>11, <1>12, <1>13, <1>14 DEF Run

LEMMA InitSerialInv == Init => SerialInv
<1> SUFFICES ASSUME Init PROVE SerialInv
  OBVIOUS
<1>1. TypeInv
  BY InitTypeInv
<1>2. \A p \in Proc : pc[p] = "idle" /\ p \notin failed
  BY DEF Init
<1>3. HalfOnlyTemp
  <2>1. PICK old \in [Index -> {Absent, By(User, "durable"), By(User, "unsafe")}] :
          fs = [x \in Path |-> IF x[1] = "target" THEN old[x[2]] ELSE Absent]
    BY DEF Init
  <2>2. \A f \in Index : fs[Target(f)] = old[f] /\ fs[Backup(f)] = Absent
    BY <2>1, ConstantFacts DEF Target, Backup
  <2>3. \A f \in Index : old[f].state \notin {"partial", "written"}
    BY <2>1 DEF Absent, By
  <2> QED
    BY <2>2, <2>3 DEF HalfOnlyTemp, Absent, By
<1> QED
  BY <1>1, <1>2, <1>3
     DEF SerialInv, Serial, Fresh, RunInv, Running, Preparing, Committing, Sweeping

LEMMA NextSerialInv ==
  ASSUME SerialInv, Mode = "serial", [Next]_vars
  PROVE  SerialInv'
<1>1. TypeInv'
  BY NextTypeInv DEF SerialInv
<1>2. ASSUME NEW p \in Proc, Run(p) PROVE SerialInv'
  BY <1>1, <1>2, SerialRun, SerialFrame
<1>3. ASSUME NEW p \in Proc, Kill(p) PROVE SerialInv'
  <2>1. /\ UNCHANGED <<fs, at, failed>>
        /\ pc'[p] = "crashed" /\ \A q \in Proc : q # p => pc'[q] = pc[q]
    BY <1>3 DEF Kill, Goto, fileVars, SerialInv, TypeInv, TypeOK
  <2>2. HalfOnlyTemp'
    BY <2>1 DEF SerialInv, HalfOnlyTemp
  <2>3. \A q \in Proc : RunInv(q)'
    BY <2>1 DEF SerialInv, RunInv, Sweeping
  <2>4. Serial' /\ Fresh'
    BY <2>1 DEF SerialInv, Serial, Fresh, Running, Preparing, Committing, Sweeping
  <2> QED
    BY <1>1, <2>2, <2>3, <2>4 DEF SerialInv
<1>4. ASSUME PowerLoss PROVE SerialInv'
  <2>1. /\ failed' = failed
        /\ \A q \in Proc : ~Running(q)' /\ (pc'[q] = pc[q] \/ pc'[q] = "crashed")
    BY <1>4 DEF PowerLoss, Running, Preparing, Committing, Sweeping
  <2>2. \A x \in Path : /\ fs[x].state # "written" => fs'[x] = fs[x]
    BY <1>4 DEF PowerLoss
  <2>3. HalfOnlyTemp'
    BY <2>2, ConstantFacts DEF SerialInv, HalfOnlyTemp
  <2>4. \A q \in Proc : RunInv(q)'
    BY <2>1 DEF SerialInv, RunInv, Running, Preparing, Committing, Sweeping
  <2>5. Serial' /\ Fresh'
    BY <2>1 DEF SerialInv, Serial, Fresh, Running, Preparing, Committing, Sweeping
  <2> QED
    BY <1>1, <2>3, <2>4, <2>5 DEF SerialInv
<1>5. CASE UNCHANGED vars
  <2>1. UNCHANGED <<fs, pc, at, failed>>
    BY <1>5 DEF vars, fileVars, runVars
  <2> QED
    BY <1>1, <2>1
       DEF SerialInv, Serial, Fresh, HalfOnlyTemp, RunInv, Running
<1> QED
  BY <1>2, <1>3, <1>4, <1>5 DEF Next, Terminated

LEMMA SerialInvariant == ASSUME Mode = "serial" PROVE Spec => []SerialInv
BY InitSerialInv, NextSerialInv, PTL DEF Spec

\* Whatever fails and wherever runs are killed, runs that do not overlap never
\* leave a managed file truncated or unsynced.
THEOREM NeverTruncated ==
  ASSUME Mode = "serial" PROVE Spec => []NoTruncatedTarget
<1>1. SerialInv => NoTruncatedTarget
  BY DEF SerialInv, HalfOnlyTemp, NoTruncatedTarget
<1> QED
  BY <1>1, SerialInvariant, PTL

\* A run that ends its commit loop without an error has published every target.
THEOREM SuccessIsComplete ==
  ASSUME Mode = "serial" PROVE Spec => []SuccessPublishesAll
<1>1. SerialInv => SuccessPublishesAll
  BY DEF SerialInv, RunInv, SuccessPublishesAll
<1> QED
  BY <1>1, SerialInvariant, PTL
-----------------------------------------------------------------------------
(* Runs that overlap.  Until a run has been turned away, the lock file      *)
(* exists while any run works under it, from its creation to the end of the *)
(* clean-up; a run that never got to write is in Cleanup only to be turned  *)
(* away, and it is the one that may remove the lock of another.             *)

Holder(p) == PastLock(p) \/ (pc[p] \in Sweeping /\ journal[p] # NoEntry)

\* The journal tells, in Cleanup, who worked under the lock.
JournalTells(p) ==
  /\ pc[p] \in {"idle", "lock", "check"} => journal[p] = NoEntry
  /\ pc[p] \in Committing \ {"create"} => journal[p] # NoEntry
  /\ pc[p] \in Sweeping /\ journal[p] = NoEntry => p \in failed

HeldByOne == /\ \A p \in Proc : Holder(p) => lock = "held"
             /\ \A p, q \in Proc : Holder(p) /\ Holder(q) => p = q

LockInv == /\ \A p \in Proc : JournalTells(p)
           /\ (\A p \in Proc : ~TurnedAway(p)) => HeldByOne

LEMMA JournalGrows ==
  ASSUME journal \in [Proc -> Journal], NEW p \in Proc, NEW f \in Index,
         \/ journal' = [journal EXCEPT ![p].opened = @ \cup {f}]
         \/ journal' = [journal EXCEPT ![p].existed = @ \cup {f}]
         \/ journal' = [journal EXCEPT ![p].committed = @ \cup {f}]
  PROVE  journal'[p] # NoEntry /\ \A q \in Proc : q # p => journal'[q] = journal[q]
<1>1. \A j \in Journal : /\ [j EXCEPT !.opened = @ \cup {f}] # NoEntry
                         /\ [j EXCEPT !.existed = @ \cup {f}] # NoEntry
                         /\ [j EXCEPT !.committed = @ \cup {f}] # NoEntry
  <2> TAKE j \in Journal
  <2>1. /\ f \in [j EXCEPT !.opened = @ \cup {f}].opened
        /\ f \in [j EXCEPT !.existed = @ \cup {f}].existed
        /\ f \in [j EXCEPT !.committed = @ \cup {f}].committed
    BY DEF Journal
  <2>2. NoEntry.opened = {} /\ NoEntry.existed = {} /\ NoEntry.committed = {}
    BY DEF NoEntry
  <2> QED
    BY <2>1, <2>2
<1> QED
  BY <1>1

\* A step that leaves the lock alone and does not make its run a holder keeps
\* the invariant: the frame of every step but those on the lock.
LEMMA LockFrame ==
  ASSUME LockInv, NEW p \in Proc, UNCHANGED lock, pc[p] # "done",
         \A q \in Proc : q # p => pc'[q] = pc[q] /\ journal'[q] = journal[q],
         failed \subseteq failed', failed' \subseteq failed \cup {p},
         Holder(p)' => Holder(p), JournalTells(p)'
  PROVE  LockInv'
<1>1. \A q \in Proc : q # p => /\ JournalTells(q)'
                               /\ Holder(q)' = Holder(q)
                               /\ TurnedAway(q) => TurnedAway(q)'
  BY DEF LockInv, JournalTells, Holder, PastLock, TurnedAway
<1>2. ~TurnedAway(p)
  BY DEF TurnedAway
<1>3. ASSUME \A q \in Proc : ~TurnedAway(q)' PROVE HeldByOne'
  <2>1. HeldByOne
    BY <1>1, <1>2, <1>3 DEF LockInv
  <2>2. \A q \in Proc : Holder(q)' => Holder(q)
    BY <1>1
  <2> QED
    BY <2>1, <2>2 DEF HeldByOne
<1> QED
  BY <1>1, <1>3 DEF LockInv

LEMMA LockRun ==
  ASSUME TypeInv, LockInv, NEW p \in Proc, Run(p)
  PROVE  LockInv'
<1> USE DEF NoFault, Fault, Goto
<1>0. /\ journal \in [Proc -> Journal] /\ pc \in [Proc -> Label] /\ failed \subseteq Proc
      /\ JournalTells(p)
      /\ pc[p] \in {"check", "create", "write", "sync", "stat", "backup", "replace"}
           => at[p] \in Index
  BY DEF TypeInv, TypeOK, IndexOK, LockInv
<1>1. CASE Begin(p)
  <2>1. /\ pc[p] = "idle" /\ pc'[p] \in {"lock", "done"}
        /\ UNCHANGED <<lock, journal>> /\ failed \subseteq failed'
        /\ failed' \subseteq failed \cup {p}
        /\ \A q \in Proc : q # p => pc'[q] = pc[q]
    BY <1>0, <1>1 DEF Begin
  <2>2. JournalTells(p)' /\ ~Holder(p)'
    BY <1>0, <2>1 DEF JournalTells, Holder, PastLock, Committing, Sweeping
  <2> QED
    BY <2>1, <2>2, LockFrame
<1>2. CASE AcquireLock(p)
  <2>0. pc[p] = "lock" /\ journal[p] = NoEntry /\ UNCHANGED journal
    BY <1>0, <1>2 DEF AcquireLock, Refuse, JournalTells
  <2>1. CASE Refuse(p) /\ UNCHANGED lock
    <3>1. /\ pc'[p] \in Sweeping /\ failed' = failed \cup {p}
          /\ \A q \in Proc : q # p => pc'[q] = pc[q]
      BY <1>0, <2>1 DEF Refuse, EnterCleanup, Sweeping
    <3>2. JournalTells(p)' /\ ~Holder(p)'
      BY <2>0, <3>1 DEF JournalTells, Holder, PastLock, Committing, Sweeping
    <3> QED
      BY <2>0, <2>1, <3>1, <3>2, LockFrame
  <2>2. CASE lock = "free" /\ lock' = "held" /\ Goto(p, "check") /\ UNCHANGED failed
    <3>1. pc'[p] = "check" /\ \A q \in Proc : q # p => pc'[q] = pc[q]
      BY <1>0, <2>2
    <3>2. \A q \in Proc : JournalTells(q)'
      BY <2>0, <2>2, <3>1 DEF LockInv, JournalTells, Committing, Sweeping
    <3>3. \A q \in Proc : q # p => Holder(q)' = Holder(q)
      BY <2>0, <3>1 DEF Holder, PastLock
    <3>4. \A q \in Proc : TurnedAway(q) => TurnedAway(q)'
      BY <2>0, <2>2, <3>1 DEF TurnedAway
    <3>5. ASSUME \A q \in Proc : ~TurnedAway(q)' PROVE HeldByOne'
      <4>1. \A q \in Proc : ~Holder(q)
        BY <2>2, <3>4, <3>5 DEF LockInv, HeldByOne
      <4> QED
        BY <2>2, <3>3, <4>1 DEF HeldByOne
    <3> QED
      BY <3>2, <3>5 DEF LockInv
  <2> QED
    BY <1>2, <2>1, <2>2 DEF AcquireLock
<1>3. CASE CheckTarget(p)
  <2>1. /\ pc[p] = "check" /\ journal[p] = NoEntry /\ UNCHANGED <<lock, journal>>
        /\ failed \subseteq failed' /\ failed' \subseteq failed \cup {p}
        /\ \/ pc'[p] \in {"check", "create"}
           \/ pc'[p] \in Sweeping /\ p \in failed'
        /\ \A q \in Proc : q # p => pc'[q] = pc[q]
    BY <1>0, <1>3 DEF CheckTarget, Refuse, EnterCleanup, JournalTells, Sweeping, fileVars
  <2>2. JournalTells(p)' /\ Holder(p)
    BY <2>1 DEF JournalTells, Holder, PastLock, Committing, Sweeping
  <2> QED
    BY <2>1, <2>2, LockFrame
<1>4. CASE CreateTemp(p)
  <2>1. journal'[p] # NoEntry /\ \A q \in Proc : q # p => journal'[q] = journal[q]
    BY <1>0, <1>4, JournalGrows DEF CreateTemp
  <2>2. /\ pc[p] = "create" /\ UNCHANGED lock /\ pc'[p] \in {"write", "rollback"}
        /\ failed \subseteq failed' /\ failed' \subseteq failed \cup {p}
        /\ \A q \in Proc : q # p => pc'[q] = pc[q]
    BY <1>0, <1>4 DEF CreateTemp, Fail
  <2>3. JournalTells(p)' /\ Holder(p)
    BY <2>1, <2>2 DEF JournalTells, Holder, PastLock, Committing, Sweeping
  <2> QED
    BY <2>1, <2>2, <2>3, LockFrame
<1>5. CASE WriteTemp(p) \/ SyncTemp(p) \/ BackupTarget(p)
  <2>1. /\ pc[p] \in {"write", "sync", "backup"} /\ UNCHANGED <<lock, journal>>
        /\ pc'[p] \in {"sync", "stat", "replace", "rollback"}
        /\ failed \subseteq failed' /\ failed' \subseteq failed \cup {p}
        /\ \A q \in Proc : q # p => pc'[q] = pc[q]
    BY <1>0, <1>5 DEF WriteTemp, SyncTemp, BackupTarget, Fail
  <2>2. JournalTells(p)' /\ Holder(p)
    BY <1>0, <2>1 DEF JournalTells, Holder, PastLock, Committing, Sweeping
  <2> QED
    BY <2>1, <2>2, LockFrame
<1>6. CASE StatTarget(p)
  <2>1. /\ pc[p] = "stat" /\ UNCHANGED <<lock, failed>> /\ pc'[p] \in {"backup", "replace"}
        /\ \A q \in Proc : q # p => pc'[q] = pc[q]
    BY <1>0, <1>6 DEF StatTarget, fileVars
  <2>2. journal'[p] # NoEntry /\ \A q \in Proc : q # p => journal'[q] = journal[q]
    <3>1. CASE UNCHANGED journal
      BY <1>0, <2>1, <3>1 DEF JournalTells, Committing
    <3>2. CASE journal' = [journal EXCEPT ![p].existed = @ \cup {at[p]}]
      BY <1>0, <2>1, <3>2, JournalGrows
    <3> QED
      BY <1>6, <3>1, <3>2 DEF StatTarget
  <2>3. JournalTells(p)' /\ Holder(p)
    BY <2>1, <2>2 DEF JournalTells, Holder, PastLock, Committing, Sweeping
  <2> QED
    BY <2>1, <2>2, <2>3, LockFrame
<1>7. CASE ReplaceTarget(p)
  <2>1. /\ pc[p] = "replace" /\ UNCHANGED lock
        /\ failed \subseteq failed' /\ failed' \subseteq failed \cup {p}
        /\ pc'[p] \in {"create", "rollback"} \cup Sweeping
        /\ \A q \in Proc : q # p => pc'[q] = pc[q]
    BY <1>0, <1>7 DEF ReplaceTarget, Fail, EnterCleanup, Sweeping
  <2>2. journal'[p] # NoEntry /\ \A q \in Proc : q # p => journal'[q] = journal[q]
    <3>1. CASE UNCHANGED journal
      BY <1>0, <2>1, <3>1 DEF JournalTells, Committing
    <3>2. CASE journal' = [journal EXCEPT ![p].committed = @ \cup {at[p]}]
      BY <1>0, <2>1, <3>2, JournalGrows
    <3> QED
      BY <1>7, <3>1, <3>2 DEF ReplaceTarget
  <2>3. JournalTells(p)' /\ Holder(p)
    BY <2>1, <2>2 DEF JournalTells, Holder, PastLock, Committing, Sweeping
  <2> QED
    BY <2>1, <2>2, <2>3, LockFrame
<1>8. CASE RollbackEntry(p) \/ RollbackDone(p)
  <2>1. /\ pc[p] = "rollback" /\ UNCHANGED <<lock, journal, failed>>
        /\ pc'[p] \in {"rollback"} \cup Sweeping
        /\ \A q \in Proc : q # p => pc'[q] = pc[q]
    BY <1>0, <1>8 DEF RollbackEntry, RollbackDone, EnterCleanup, Sweeping, fileVars
  <2>2. JournalTells(p)' /\ Holder(p)
    BY <1>0, <2>1 DEF JournalTells, Holder, PastLock, Committing, Sweeping
  <2> QED
    BY <2>1, <2>2, LockFrame
<1>9. CASE SweepTemp(p) \/ SweepBackup(p)
  <2>1. /\ pc[p] \in Sweeping /\ pc'[p] \in Sweeping /\ UNCHANGED <<lock, journal, failed>>
        /\ \A q \in Proc : q # p => pc'[q] = pc[q]
    BY <1>0, <1>9 DEF SweepTemp, SweepBackup, Sweeping
  <2>2. JournalTells(p)' /\ (Holder(p)' => Holder(p))
    BY <1>0, <2>1 DEF JournalTells, Holder, PastLock, Committing, Sweeping
  <2> QED
    BY <2>1, <2>2, LockFrame DEF Sweeping
<1>10. CASE RemoveLock(p)
  <2>1. /\ pc[p] \in Sweeping /\ pc'[p] = "done" /\ UNCHANGED <<journal, failed>>
        /\ \A q \in Proc : q # p => pc'[q] = pc[q]
    BY <1>0, <1>10 DEF RemoveLock, Sweeping
  <2>2. \A q \in Proc : JournalTells(q)'
    BY <2>1 DEF LockInv, JournalTells, Committing, Sweeping
  <2>3. \A q \in Proc : Holder(q)' => q # p /\ Holder(q)
    BY <2>1 DEF Holder, PastLock, Committing, Sweeping
  <2>4. \A q \in Proc : TurnedAway(q) => TurnedAway(q)'
    BY <2>1 DEF TurnedAway, Sweeping
  <2>5. ASSUME \A q \in Proc : ~TurnedAway(q)' PROVE HeldByOne'
    <3>1. journal[p] # NoEntry
      BY <1>0, <2>1, <2>5 DEF TurnedAway, JournalTells
    <3>2. Holder(p) /\ HeldByOne
      BY <2>1, <2>4, <2>5, <3>1 DEF Holder, LockInv
    <3> QED
      BY <2>3, <3>2 DEF HeldByOne
  <2> QED
    BY <2>2, <2>5 DEF LockInv
<1> QED
  BY <1>1, <1>2, <1>3, <1>4, <1>5, <1>6, <1>7, <1>8, <1>9, <1>10 DEF Run

LEMMA NextLockInv == TypeInv /\ LockInv /\ [Next]_vars => LockInv'
<1> SUFFICES ASSUME TypeInv, LockInv, [Next]_vars PROVE LockInv'
  OBVIOUS
<1>1. ASSUME NEW p \in Proc, Kill(p) PROVE LockInv'
  <2>1. /\ pc[p] # "done" /\ pc'[p] = "crashed" /\ UNCHANGED <<lock, journal, failed>>
        /\ \A q \in Proc : q # p => pc'[q] = pc[q]
    BY <1>1 DEF Kill, Goto, Running, Preparing, Committing, Sweeping, fileVars, TypeInv, TypeOK
  <2>2. JournalTells(p)' /\ ~Holder(p)'
    BY <2>1 DEF JournalTells, Holder, PastLock, Committing, Sweeping
  <2> QED
    BY <2>1, <2>2, LockFrame
<1>2. CASE PowerLoss
  <2>1. /\ UNCHANGED <<lock, journal, failed>>
        /\ \A q \in Proc : \/ pc'[q] = "crashed" /\ pc[q] # "done"
                           \/ pc'[q] = pc[q]
    BY <1>2 DEF PowerLoss, Running, Preparing, Committing, Sweeping
  <2>2. \A q \in Proc : /\ JournalTells(q)'
                        /\ Holder(q)' => Holder(q)
                        /\ TurnedAway(q) => TurnedAway(q)'
    BY <2>1 DEF LockInv, JournalTells, Holder, PastLock, TurnedAway, Committing, Sweeping
  <2> QED
    BY <2>1, <2>2 DEF LockInv, HeldByOne
<1>3. CASE UNCHANGED vars
  <2>1. UNCHANGED <<lock, pc, journal, failed>>
    BY <1>3 DEF vars, fileVars, runVars
  <2> QED
    BY <2>1 DEF LockInv, HeldByOne, JournalTells, Holder, PastLock, TurnedAway
<1> QED
  BY <1>1, <1>2, <1>3, LockRun DEF Next, Terminated

\* Runs that overlap, however many: two of them commit at the same time only
\* after a third has been turned away and has removed the lock.
THEOREM SoleWriter == Spec => []SoleWriterUntilRefusal
<1>1. Init => LockInv
  BY DEF Init, LockInv, HeldByOne, JournalTells, Holder, PastLock, TurnedAway,
         Committing, Sweeping
<1>2. LockInv => SoleWriterUntilRefusal
  BY DEF LockInv, HeldByOne, Holder, SoleWriterUntilRefusal
<1> QED
  BY <1>1, <1>2, InitTypeInv, NextTypeInv, NextLockInv, PTL DEF Spec
=============================================================================
