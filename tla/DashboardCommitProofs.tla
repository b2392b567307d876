----------------------- MODULE DashboardCommitProofs -----------------------
(***************************************************************************)
(* Proofs about DashboardCommit, for any number of concurrent runs, any    *)
(* set of failing calls and any number of faults, kills and power losses.  *)
(***************************************************************************)
EXTENDS DashboardCommit, TLAPS

\* The run has checked, under the lock, that it may replace what is there.
MayReplace(p) == cur.target # Unsafe /\ (cur.target # None => p \in Forced)

\* What each run knows by where it is: that the lock and the temporary file
\* are its own, how far its file is, and that the check it made still holds.
RunInv(p) ==
  /\ pc[p] \in Critical => cur.lock = p
  /\ pc[p] \in {"write", "sync", "rename"} => cur.temp = p
  /\ pc[p] \in {"sync", "rename"} => written[p] = Size
  /\ pc[p] = "rename" => synced[p] = Size
  /\ pc[p] \in {"create", "write", "sync", "rename"} => MayReplace(p)
  /\ pc[p] = "sweep" => p \in failed
  /\ pc[p] = "syncDir" => cur.target = p
  /\ pc[p] = "unlock" /\ p \notin failed => cur.target = p /\ disk.target = p

Inv == /\ TypeOK
       /\ NeverTruncated
       /\ \A p \in Proc : RunInv(p)

LEMMA ConstantFacts ==
  /\ Size \in Nat /\ Size >= 1
  /\ User \notin Proc /\ Unsafe \notin Proc /\ None \notin Proc
  /\ User # Unsafe /\ User # None /\ Unsafe # None
  /\ Forced \subseteq Proc
BY InodeAssumption, SizeAssumption, ForcedAssumption

-----------------------------------------------------------------------------
(* Type correctness *)

LEMMA InitType == Init => TypeOK
BY ConstantFacts DEF Init, TypeOK, Entries, Inode, Label

LEMMA EntriesType ==
  ASSUME cur \in Entries, NEW p \in Proc,
         \/ cur' = [cur EXCEPT !.lock = p]
         \/ cur' = [cur EXCEPT !.lock = None]
         \/ cur' = [cur EXCEPT !.temp = p]
         \/ cur' = [cur EXCEPT !.temp = None]
         \/ cur.temp # None /\ cur' = [cur EXCEPT !.temp = None, !.target = cur.temp]
         \/ UNCHANGED cur
  PROVE  cur' \in Entries
BY DEF Entries, Inode

LEMMA NextType == TypeOK /\ [Next]_vars => TypeOK'
<1> SUFFICES ASSUME TypeOK, [Next]_vars PROVE TypeOK'
  OBVIOUS
<1> USE ConstantFacts DEF TypeOK, dirVars, runVars, Fault, NoFault
<1>0. ASSUME NEW p \in Proc, NEW l \in Label, Goto(p, l) PROVE pc' \in [Proc -> Label]
  BY <1>0 DEF Goto
<1>1. ASSUME NEW p \in Proc, Inspect(p) PROVE TypeOK'
  <2>1. pc' \in [Proc -> Label] /\ failed' \subseteq Proc
    BY <1>1, <1>0 DEF Inspect, Advance, Fail, Label, Live
  <2>2. existedBefore' \subseteq Proc /\ faults' \in Nat
    BY <1>1 DEF Inspect, InspectFails
  <2> QED
    BY <1>1, <2>1, <2>2 DEF Inspect
<1>2. ASSUME NEW p \in Proc, MakeDir(p) PROVE TypeOK'
  <2>1. pc' \in [Proc -> Label] /\ failed' \subseteq Proc
    BY <1>2, <1>0 DEF MakeDir, Advance, Fail, Label, Live
  <2> QED
    BY <1>2, <2>1 DEF MakeDir
<1>3. ASSUME NEW p \in Proc, InspectUnlocked(p) PROVE TypeOK'
  <2>1. pc' \in [Proc -> Label] /\ failed' \subseteq Proc
    BY <1>3, <1>0 DEF InspectUnlocked, Advance, Fail, Label, Live
  <2> QED
    BY <1>3, <2>1 DEF InspectUnlocked, InspectFails
<1>4. ASSUME NEW p \in Proc, AcquireLock(p) PROVE TypeOK'
  <2>1. pc' \in [Proc -> Label] /\ failed' \subseteq Proc
    BY <1>4, <1>0 DEF AcquireLock, Advance, Fail, Label, Live, Critical
  <2>2. cur' \in Entries
    BY <1>4, EntriesType DEF AcquireLock
  <2> QED
    BY <1>4, <2>1, <2>2 DEF AcquireLock
<1>5. ASSUME NEW p \in Proc, Recheck(p) PROVE TypeOK'
  <2>1. pc' \in [Proc -> Label] /\ failed' \subseteq Proc
    BY <1>5, <1>0 DEF Recheck, Advance, Fail, Label, Live, Critical
  <2>2. existed' \subseteq Proc /\ faults' \in Nat
    BY <1>5 DEF Recheck, InspectFails
  <2> QED
    BY <1>5, <2>1, <2>2 DEF Recheck
<1>6. ASSUME NEW p \in Proc, CreateTemp(p) PROVE TypeOK'
  <2>1. pc' \in [Proc -> Label] /\ failed' \subseteq Proc
    BY <1>6, <1>0 DEF CreateTemp, Advance, Fail, Label, Live, Critical
  <2>2. cur' \in Entries
    BY <1>6, EntriesType DEF CreateTemp
  <2>3. tempCreated' \subseteq Proc /\ faults' \in Nat
    BY <1>6 DEF CreateTemp
  <2> QED
    BY <1>6, <2>1, <2>2, <2>3 DEF CreateTemp
<1>7. ASSUME NEW p \in Proc, WriteBytes(p) PROVE TypeOK'
  <2>1. pc' \in [Proc -> Label] /\ failed' \subseteq Proc
    BY <1>7, <1>0 DEF WriteBytes, Fail, Label, Live, Critical
  <2>2. written' \in [Proc -> 0..Size]
    BY <1>7 DEF WriteBytes
  <2> QED
    BY <1>7, <2>1, <2>2 DEF WriteBytes
<1>8. ASSUME NEW p \in Proc, SyncTemp(p) PROVE TypeOK'
  <2>1. pc' \in [Proc -> Label] /\ failed' \subseteq Proc
    BY <1>8, <1>0 DEF SyncTemp, Advance, Fail, Label, Live, Critical
  <2>2. synced' \in [Proc -> 0..Size] /\ faults' \in Nat
    BY <1>8 DEF SyncTemp
  <2> QED
    BY <1>8, <2>1, <2>2 DEF SyncTemp
<1>9. ASSUME NEW p \in Proc, Rename(p) PROVE TypeOK'
  <2>1. pc' \in [Proc -> Label] /\ failed' \subseteq Proc
    BY <1>9, <1>0 DEF Rename, Advance, Fail, Label, Live, Critical
  <2>2. cur' \in Entries
    BY <1>9, EntriesType DEF Rename
  <2>3. tempCreated' \subseteq Proc /\ published' \subseteq Proc /\ faults' \in Nat
    BY <1>9 DEF Rename
  <2> QED
    BY <1>9, <2>1, <2>2, <2>3 DEF Rename
<1>10. ASSUME NEW p \in Proc, SyncDir(p) PROVE TypeOK'
  <2>1. pc' \in [Proc -> Label] /\ failed' \subseteq Proc
    BY <1>10, <1>0 DEF SyncDir, Advance, Fail, Label, Live, Critical
  <2> QED
    BY <1>10, <2>1 DEF SyncDir
<1>11. ASSUME NEW p \in Proc, SweepTemp(p) PROVE TypeOK'
  <2>1. pc' \in [Proc -> Label]
    BY <1>11, <1>0 DEF SweepTemp, Label, Live, Critical
  <2>2. cur' \in Entries
    BY <1>11, EntriesType DEF SweepTemp
  <2> QED
    BY <1>11, <2>1, <2>2 DEF SweepTemp
<1>12. ASSUME NEW p \in Proc, Unlock(p) PROVE TypeOK'
  <2>1. pc' \in [Proc -> Label] /\ failed' \subseteq Proc
    BY <1>12, <1>0 DEF Unlock, Label
  <2>2. cur' \in Entries
    BY <1>12, EntriesType DEF Unlock
  <2> QED
    BY <1>12, <2>1, <2>2 DEF Unlock
<1>13. ASSUME NEW p \in Proc, Kill(p) PROVE TypeOK'
  BY <1>13, <1>0 DEF Kill, Label
<1>14. CASE Flush
  BY <1>14 DEF Flush
<1>15. CASE PowerLoss
  BY <1>15 DEF PowerLoss, Label
<1>16. CASE UNCHANGED vars
  BY <1>16 DEF vars
<1> QED
  BY <1>1, <1>2, <1>3, <1>4, <1>5, <1>6, <1>7, <1>8, <1>9, <1>10, <1>11, <1>12, <1>13,
     <1>14, <1>15, <1>16 DEF Next, Run

\* Every variable of the dashboard commit keeps its type.
THEOREM TypeCorrect == Spec => []TypeOK
BY InitType, NextType, PTL DEF Spec
-----------------------------------------------------------------------------
(* Safety.  The argument: a run past the lock owns the lock entry, so the  *)
(* steps of the others leave the directory alone meanwhile.                *)

\* A step of p does not move another run, nor, while that run is past the
\* lock, the directory.
LEMMA StepFrame ==
  ASSUME Inv, NEW p \in Proc, Run(p), NEW q \in Proc, q # p
  PROVE  /\ pc'[q] = pc[q] /\ (q \in failed => q \in failed')
         /\ written'[q] = written[q] /\ synced'[q] = synced[q]
         /\ pc[q] \in Critical => UNCHANGED <<cur, disk>>
<1> USE DEF Inv, TypeOK
<1>1. pc'[q] = pc[q] /\ (q \in failed => q \in failed')
  BY DEF Run, Inspect, MakeDir, InspectUnlocked, AcquireLock, Recheck, CreateTemp,
         WriteBytes, SyncTemp, Rename, SyncDir, SweepTemp, Unlock, Fail, Advance,
         Goto, runVars
<1>2. written'[q] = written[q] /\ synced'[q] = synced[q]
  BY DEF Run, Inspect, MakeDir, InspectUnlocked, AcquireLock, Recheck, CreateTemp,
         WriteBytes, SyncTemp, Rename, SyncDir, SweepTemp, Unlock
<1>3. ASSUME pc[q] \in Critical PROVE UNCHANGED <<cur, disk>>
  <2>1. cur.lock = q /\ cur.lock # None
    BY <1>3, ConstantFacts DEF RunInv
  <2>2. pc[p] \notin Critical
    BY <2>1 DEF RunInv
  <2>3. Inspect(p) \/ MakeDir(p) \/ InspectUnlocked(p) \/ AcquireLock(p)
    BY <2>2 DEF Run, Recheck, CreateTemp, WriteBytes, SyncTemp, Rename, SyncDir,
                SweepTemp, Unlock, Critical
  <2> QED
    BY <2>1, <2>3 DEF Inspect, MakeDir, InspectUnlocked, AcquireLock, dirVars
<1> QED
  BY <1>1, <1>2, <1>3

\* Files that are complete stay so: only a run whose file is not complete
\* writes, and Sync makes durable what has been written.
LEMMA StaysComplete ==
  ASSUME Inv, NEW p \in Proc, Run(p), NEW inode \in Inode, Complete(inode)
  PROVE  Complete(inode)'
<1>1. CASE inode \notin Proc
  BY <1>1 DEF Complete
<1>2. CASE inode \in Proc
  <2> USE <1>2, ConstantFacts DEF Inv, TypeOK, Complete
  <2>1. CASE WriteBytes(p)
    BY <2>1 DEF WriteBytes
  <2>2. CASE SyncTemp(p)
    BY <2>2 DEF SyncTemp
  <2>3. CASE UNCHANGED <<written, synced>>
    BY <2>3
  <2> QED
    BY <2>1, <2>2, <2>3
       DEF Run, Inspect, MakeDir, InspectUnlocked, AcquireLock, Recheck, CreateTemp,
           Rename, SyncDir, SweepTemp, Unlock
<1> QED
  BY <1>1, <1>2

LEMMA RunTruncatesNothing ==
  ASSUME Inv, NEW p \in Proc, Run(p) PROVE NeverTruncated'
<1> USE ConstantFacts DEF Inv, TypeOK, Entries
<1>1. \A inode \in Inode : Complete(inode) => Complete(inode)'
  BY StaysComplete
<1>2. Complete(cur.target)'
  <2>1. CASE Rename(p) /\ cur' # cur
    <3>1. cur'.target = p /\ written[p] = Size /\ synced[p] = Size
      BY <2>1 DEF Rename, RunInv
    <3>2. written' = written /\ synced' = synced
      BY <2>1 DEF Rename
    <3> QED
      BY <3>1, <3>2 DEF Complete
  <2>2. CASE cur'.target = cur.target
    <3>1. Complete(cur.target)
      BY DEF NeverTruncated
    <3> QED
      BY <1>1, <2>2, <3>1 DEF Complete
  <2>3. \/ cur'.target = cur.target
        \/ Rename(p) /\ cur' # cur
    BY DEF Run, Inspect, MakeDir, InspectUnlocked, AcquireLock, Recheck, CreateTemp,
           WriteBytes, SyncTemp, Rename, SyncDir, SweepTemp, Unlock, dirVars
  <2> QED
    BY <2>1, <2>2, <2>3
<1>3. Complete(disk.target)'
  <2>1. Complete(cur.target) /\ Complete(disk.target)
    BY DEF NeverTruncated
  <2>2. disk' \in {cur, disk}
    BY DEF Run, Inspect, MakeDir, InspectUnlocked, AcquireLock, Recheck, CreateTemp,
           WriteBytes, SyncTemp, Rename, SyncDir, SweepTemp, Unlock, dirVars
  <2> QED
    BY <1>1, <2>1, <2>2 DEF Complete
<1> QED
  BY <1>2, <1>3 DEF NeverTruncated

LEMMA RunKeepsOwn ==
  ASSUME Inv, NEW p \in Proc, Run(p) PROVE RunInv(p)'
<1> USE ConstantFacts DEF Inv, TypeOK, Entries, RunInv, MayReplace, Critical, Goto, Fail,
        Advance
<1>1. CASE Inspect(p)
  BY <1>1 DEF Inspect
<1>2. CASE MakeDir(p)
  BY <1>2 DEF MakeDir
<1>3. CASE InspectUnlocked(p)
  BY <1>3 DEF InspectUnlocked
<1>4. CASE AcquireLock(p)
  BY <1>4 DEF AcquireLock
<1>5. CASE Recheck(p)
  BY <1>5 DEF Recheck, TargetUnsafe, TargetExists, dirVars
<1>6. CASE CreateTemp(p)
  BY <1>6 DEF CreateTemp
<1>7. CASE WriteBytes(p)
  BY <1>7 DEF WriteBytes, dirVars
<1>8. CASE SyncTemp(p)
  BY <1>8 DEF SyncTemp, dirVars
<1>9. CASE Rename(p)
  BY <1>9 DEF Rename
<1>10. CASE SyncDir(p)
  BY <1>10 DEF SyncDir
<1>11. CASE SweepTemp(p)
  BY <1>11 DEF SweepTemp
<1>12. CASE Unlock(p)
  BY <1>12 DEF Unlock
<1> QED
  BY <1>1, <1>2, <1>3, <1>4, <1>5, <1>6, <1>7, <1>8, <1>9, <1>10, <1>11, <1>12 DEF Run

LEMMA InitInv == Init => Inv
BY InitType, ConstantFacts
   DEF Init, Inv, NeverTruncated, Complete, RunInv, Critical

LEMMA NextInv == Inv /\ [Next]_vars => Inv'
<1> SUFFICES ASSUME Inv, [Next]_vars PROVE Inv'
  OBVIOUS
<1>0. TypeOK'
  BY NextType DEF Inv
<1>1. ASSUME NEW p \in Proc, Run(p) PROVE Inv'
  <2>1. ASSUME NEW q \in Proc PROVE RunInv(q)'
    <3>1. CASE q = p
      BY <1>1, <3>1, RunKeepsOwn
    <3>2. CASE q # p
      <4>1. /\ pc'[q] = pc[q] /\ (q \in failed => q \in failed')
            /\ written'[q] = written[q] /\ synced'[q] = synced[q]
            /\ pc[q] \in Critical => UNCHANGED <<cur, disk>>
        BY <1>1, <3>2, StepFrame
      <4> QED
        BY <4>1 DEF Inv, RunInv, MayReplace, Critical
    <3> QED
      BY <3>1, <3>2
  <2> QED
    BY <1>0, <1>1, <2>1, RunTruncatesNothing DEF Inv
<1>2. ASSUME NEW p \in Proc, Kill(p) PROVE Inv'
  <2>1. /\ UNCHANGED <<cur, disk, written, synced, failed>>
        /\ pc'[p] = "crashed" /\ \A q \in Proc : q # p => pc'[q] = pc[q]
    BY <1>2 DEF Kill, Goto, dirVars, Inv, TypeOK
  <2>2. NeverTruncated'
    BY <2>1 DEF Inv, NeverTruncated, Complete
  <2>3. \A q \in Proc : RunInv(q)'
    BY <2>1 DEF Inv, RunInv, MayReplace, Critical
  <2> QED
    BY <1>0, <2>2, <2>3 DEF Inv
<1>3. CASE Flush
  <2>1. UNCHANGED <<cur, written, synced, failed, pc>> /\ disk' = cur
    BY <1>3 DEF Flush, runVars
  <2> QED
    BY <1>0, <2>1 DEF Inv, NeverTruncated, Complete, RunInv, MayReplace
<1>4. CASE PowerLoss
  <2>1. /\ cur' = disk /\ disk' = disk /\ written' = synced /\ synced' = synced
        /\ \A q \in Proc : pc'[q] \in {"idle", "done", "crashed"}
    BY <1>4 DEF PowerLoss, Inv, TypeOK, Label, Running
  <2>2. NeverTruncated'
    BY <2>1 DEF Inv, NeverTruncated, Complete
  <2>3. \A q \in Proc : RunInv(q)'
    BY <2>1 DEF RunInv, Critical
  <2> QED
    BY <1>0, <2>2, <2>3 DEF Inv
<1>5. CASE UNCHANGED vars
  BY <1>0, <1>5
     DEF Inv, NeverTruncated, Complete, RunInv, MayReplace, vars, dirVars, runVars
<1> QED
  BY <1>1, <1>2, <1>3, <1>4, <1>5 DEF Next

LEMMA Invariant == Spec => []Inv
BY InitInv, NextInv, PTL DEF Spec

\* At most one run is past the lock, however many runs there are, crash or
\* lose power.
THEOREM Exclusion == Spec => []MutualExclusion
<1>1. Inv => MutualExclusion
  BY DEF Inv, RunInv, MutualExclusion
<1> QED
  BY <1>1, Invariant, PTL

\* dashboard.json is complete at any time, also after a power loss.
THEOREM Untruncated == Spec => []NeverTruncated
BY Invariant, PTL DEF Inv

\* What a successful run reports as written survives a power loss.
THEOREM Durable == Spec => []SuccessIsDurable
<1>1. Inv => SuccessIsDurable
  BY DEF Inv, RunInv, SuccessIsDurable
<1> QED
  BY <1>1, Invariant, PTL

\* Nobody removes the lock of another run.
THEOREM OwnerUnlocks == Spec => OnlyOwnerUnlocks
<1>1. ASSUME Inv, [Next]_vars, NEW p \in Proc, cur.lock = p, cur'.lock # p
      PROVE  pc[p] = "unlock" \/ crashes' > crashes
  <2> USE ConstantFacts DEF Inv, TypeOK, Entries
  <2>1. ASSUME NEW q \in Proc, Run(q) PROVE pc[p] = "unlock"
    <3>1. Unlock(q)
      BY <1>1, <2>1
         DEF Run, Inspect, MakeDir, InspectUnlocked, AcquireLock, Recheck, CreateTemp,
             WriteBytes, SyncTemp, Rename, SyncDir, SweepTemp, dirVars
    <3>2. cur.lock = q
      BY <3>1, <1>1 DEF Unlock, RunInv, Critical
    <3> QED
      BY <1>1, <3>1, <3>2 DEF Unlock
  <2>2. CASE PowerLoss
    <3>1. crashes' = crashes + 1 /\ crashes \in Nat
      BY <1>1, <2>2 DEF PowerLoss
    <3> QED
      BY <3>1
  <2>3. CASE UNCHANGED cur
    BY <1>1, <2>3
  <2> QED
    BY <1>1, <2>1, <2>2, <2>3 DEF Next, Kill, Flush, vars, dirVars
<1>2. Inv /\ [Next]_vars =>
        [\A p \in Proc : cur.lock = p /\ cur'.lock # p =>
           pc[p] = "unlock" \/ crashes' > crashes]_vars
  BY <1>1
<1> QED
  BY <1>2, Invariant, PTL DEF Spec, OnlyOwnerUnlocks
-----------------------------------------------------------------------------
(* What is left behind, and what a failing run has done: a run knows by     *)
(* where it is whether its temporary file is there and how many calls have  *)
(* failed, and whether another run has published since it looked.           *)

Entering == {"idle", "mkdir", "inspect", "lock", "recheck"}

TempKnown(p) ==
  /\ pc[p] \in Entering \cup {"create"} => cur.temp # p /\ disk.temp # p
  /\ pc[p] \in {"write", "sync", "rename", "sweep"} => p \in tempCreated
  /\ pc[p] = "sweep" => faults >= 1
  /\ pc[p] = "syncDir" => cur.temp # p
  /\ pc[p] = "unlock" /\ cur.temp = p => faults >= 2

Others(p)  == \E q \in published : q # p
Changed(p) == ~(p \in existed <=> p \in existedBefore)

LookedAt(p) ==
  /\ pc[p] \in Entering \cup {"create", "write", "sync", "rename", "sweep"} => p \notin published
  /\ pc[p] \in Entering \cup {"create", "write", "sync", "rename", "syncDir"} => p \notin failed
  /\ pc[p] = "idle" => p \notin existedBefore
  /\ pc[p] \in Entering => p \notin existed
  /\ pc[p] \in Entering \ {"idle"} =>
       IF p \in existedBefore THEN cur.target # None
                              ELSE cur.target = None \/ cur.target \in published
  /\ pc[p] \in {"create", "write", "sync", "rename", "syncDir"} /\ Changed(p) => Others(p)
  /\ pc[p] = "unlock" /\ p \in published =>
       IF p \in failed THEN faults >= 1 ELSE Changed(p) => Others(p)
  /\ pc[p] = "done" /\ p \in failed \cap published /\ faults = 0 => Others(p)

\* What is in place was there before any run, or has been published.
TargetsKnown == /\ cur.target \in Proc => cur.target \in published
                /\ disk.target \in Proc => disk.target \in published

Outcome == /\ Inv /\ TargetsKnown
           /\ \A p \in Proc : TempKnown(p) /\ LookedAt(p)

LEMMA FaultsGrow == Inv /\ [Next]_vars => faults \in Nat /\ faults' \in Nat /\ faults' >= faults
<1> SUFFICES ASSUME Inv, [Next]_vars PROVE faults \in Nat /\ faults' \in Nat /\ faults' >= faults
  OBVIOUS
<1>1. faults \in Nat
  BY DEF Inv, TypeOK
<1>2. faults' = faults \/ faults' = faults + 1
  BY DEF Next, Run, Inspect, MakeDir, InspectUnlocked, AcquireLock, Recheck, CreateTemp,
         WriteBytes, SyncTemp, Rename, SyncDir, SweepTemp, Unlock, Kill, Flush, PowerLoss,
         InspectFails, Fault, NoFault, vars
<1> QED
  BY <1>1, <1>2

\* The step of a run leaves it knowing what it needs.
LEMMA RunTemp ==
  ASSUME Inv, NEW p \in Proc, TempKnown(p), Run(p)
  PROVE  TempKnown(p)'
<1> USE ConstantFacts DEF Inv, TypeOK, Entries, TempKnown, Entering, Goto, Fail, Advance, Fault,
        NoFault
<1>1. CASE Inspect(p) \/ MakeDir(p) \/ InspectUnlocked(p)
  BY <1>1 DEF Inspect, MakeDir, InspectUnlocked, dirVars
<1>2. CASE AcquireLock(p)
  BY <1>2 DEF AcquireLock
<1>3. CASE Recheck(p)
  BY <1>3 DEF Recheck, dirVars
<1>4. CASE CreateTemp(p)
  BY <1>4 DEF CreateTemp
<1>5. CASE WriteBytes(p)
  BY <1>5 DEF WriteBytes, dirVars
<1>6. CASE SyncTemp(p)
  BY <1>6 DEF SyncTemp, dirVars
<1>7. CASE Rename(p)
  <2>1. cur.temp = p /\ pc[p] = "rename" /\ p \in tempCreated
    BY <1>7 DEF Rename, RunInv
  <2>2. \/ pc'[p] = "syncDir" /\ cur'.temp = None
        \/ pc'[p] = "sweep" /\ faults' = faults + 1 /\ UNCHANGED tempCreated
    BY <1>7, <2>1 DEF Rename
  <2> QED
    BY <2>1, <2>2
<1>8. CASE SyncDir(p)
  <2>1. pc[p] = "syncDir" /\ pc'[p] = "unlock" /\ cur' = cur
    BY <1>8 DEF SyncDir
  <2> QED
    BY <2>1
<1>9. CASE SweepTemp(p)
  BY <1>9 DEF SweepTemp
<1>10. CASE Unlock(p)
  BY <1>10 DEF Unlock
<1> QED
  BY <1>1, <1>2, <1>3, <1>4, <1>5, <1>6, <1>7, <1>8, <1>9, <1>10 DEF Run

LEMMA RunLooked ==
  ASSUME Inv, TargetsKnown, NEW p \in Proc, LookedAt(p), Run(p)
  PROVE  LookedAt(p)'
<1> USE ConstantFacts DEF Inv, TypeOK, Entries, Inode, LookedAt, Entering, Changed, Others, Goto,
        Fail, Advance, Fault, NoFault
<1>1. CASE Inspect(p)
  BY <1>1 DEF Inspect, TargetExists, TargetUnsafe, TargetsKnown, InspectFails, dirVars
<1>2. CASE MakeDir(p) \/ InspectUnlocked(p)
  BY <1>2 DEF MakeDir, InspectUnlocked, dirVars
<1>3. CASE AcquireLock(p)
  BY <1>3 DEF AcquireLock
<1>4. CASE Recheck(p)
  BY <1>4 DEF Recheck, TargetExists, dirVars
<1>5. CASE CreateTemp(p)
  BY <1>5 DEF CreateTemp
<1>6. CASE WriteBytes(p)
  BY <1>6 DEF WriteBytes, dirVars
<1>7. CASE SyncTemp(p)
  BY <1>7 DEF SyncTemp, dirVars
<1>8. CASE Rename(p)
  BY <1>8 DEF Rename, RunInv
<1>9. CASE SyncDir(p)
  BY <1>9 DEF SyncDir
<1>10. CASE SweepTemp(p)
  BY <1>10 DEF SweepTemp
<1>11. CASE Unlock(p)
  BY <1>11 DEF Unlock
<1> QED
  BY <1>1, <1>2, <1>3, <1>4, <1>5, <1>6, <1>7, <1>8, <1>9, <1>10, <1>11 DEF Run

\* The step of another run, a kill or a flush.
LEMMA OthersStep ==
  ASSUME Outcome, NEW p \in Proc, pc'[p] = pc[p], faults' \in Nat, faults' >= faults,
         p \in tempCreated => p \in tempCreated', p \in failed' <=> p \in failed,
         p \in existed' <=> p \in existed, p \in existedBefore' <=> p \in existedBefore,
         p \in published' <=> p \in published, published \subseteq published', published' \subseteq Proc,
         pc[p] \in Critical \ {"create"} => UNCHANGED cur.temp,
         cur'.temp = p => p \in {cur.temp, disk.temp},
         disk'.temp = p => p \in {cur.temp, disk.temp},
         cur'.target = cur.target \/ cur'.target \in published'
  PROVE  TempKnown(p)' /\ LookedAt(p)'
<1> USE ConstantFacts DEF Outcome, Inv, TypeOK
<1>1. TempKnown(p)'
  BY DEF TempKnown, Entering, Critical
<1>2. LookedAt(p)'
  <2>1. Others(p) => Others(p)'
    BY DEF Others
  <2>2. Changed(p)' <=> Changed(p)
    BY DEF Changed
  <2>3. faults = 0 \/ faults' # 0
    OBVIOUS
  <2>4. None \notin published'
    OBVIOUS
  <2> QED
    BY <2>1, <2>2, <2>3, <2>4 DEF LookedAt, Entering
<1> QED
  BY <1>1, <1>2

LEMMA InitOutcome == Init => Outcome
BY InitInv, ConstantFacts
   DEF Init, Outcome, TargetsKnown, TempKnown, LookedAt, Entering, Entries, Inode

LEMMA NextOutcome == Outcome /\ [Next]_vars => Outcome'
<1> SUFFICES ASSUME Outcome, [Next]_vars PROVE Outcome'
  OBVIOUS
<1>0. /\ Inv' /\ TypeOK' /\ published' \subseteq Proc
      /\ faults \in Nat /\ faults' \in Nat /\ faults' >= faults
  BY NextInv, FaultsGrow DEF Outcome, Inv, TypeOK
<1>1. ASSUME NEW p \in Proc, Run(p) PROVE Outcome'
  <2>1. /\ published \subseteq published' /\ published' \subseteq published \cup {p}
        /\ cur'.target \in {cur.target} \cup published'
        /\ disk' \in {cur, disk} /\ cur'.temp \in {cur.temp, p, None}
    <3> USE ConstantFacts DEF Outcome, Inv, TypeOK, Entries
    <3>1. CASE Rename(p)
      BY <3>1 DEF Rename, RunInv
    <3>2. CASE CreateTemp(p)
      BY <3>2 DEF CreateTemp
    <3>3. CASE AcquireLock(p)
      BY <3>3 DEF AcquireLock
    <3>4. CASE SweepTemp(p)
      BY <3>4 DEF SweepTemp
    <3>5. CASE Unlock(p)
      BY <3>5 DEF Unlock
    <3> QED
      BY <1>1, <3>1, <3>2, <3>3, <3>4, <3>5
         DEF Run, Inspect, MakeDir, InspectUnlocked, Recheck, WriteBytes, SyncDir, SyncTemp,
             dirVars
  <2>2. TargetsKnown'
    BY <2>1 DEF Outcome, TargetsKnown
  <2>3. TempKnown(p)' /\ LookedAt(p)'
    BY <1>1, RunTemp, RunLooked DEF Outcome
  <2>4. ASSUME NEW q \in Proc, q # p PROVE TempKnown(q)' /\ LookedAt(q)'
    <3>1. pc'[q] = pc[q] /\ (pc[q] \in Critical => UNCHANGED cur.temp)
      BY <1>1, <2>4, StepFrame DEF Outcome
    <3>2. /\ q \in tempCreated => q \in tempCreated'
          /\ q \in failed' <=> q \in failed
          /\ q \in existed' <=> q \in existed
          /\ q \in existedBefore' <=> q \in existedBefore
      BY <1>1, <2>4
         DEF Run, Inspect, MakeDir, InspectUnlocked, AcquireLock, Recheck, CreateTemp,
             WriteBytes, SyncTemp, Rename, SyncDir, SweepTemp, Unlock, Fail, Advance
    <3>3. q \in published' <=> q \in published
      BY <2>1, <2>4
    <3>4. /\ cur'.temp = q => q \in {cur.temp, disk.temp}
          /\ disk'.temp = q => q \in {cur.temp, disk.temp}
      BY <2>1, <2>4, ConstantFacts
    <3> QED
      BY <1>0, <2>1, <2>4, <3>1, <3>2, <3>3, <3>4, OthersStep
  <2> QED
    BY <1>0, <2>2, <2>3, <2>4 DEF Outcome
<1>2. ASSUME NEW p \in Proc, Kill(p) PROVE Outcome'
  <2>1. /\ UNCHANGED <<cur, disk, tempCreated, failed, existed, existedBefore, published>>
        /\ pc'[p] = "crashed" /\ \A q \in Proc : q # p => pc'[q] = pc[q]
    BY <1>2 DEF Kill, Goto, dirVars, Outcome, Inv, TypeOK
  <2>2. TempKnown(p)' /\ LookedAt(p)'
    BY <2>1 DEF TempKnown, LookedAt, Entering
  <2>3. ASSUME NEW q \in Proc, q # p PROVE TempKnown(q)' /\ LookedAt(q)'
    BY <1>0, <2>1, <2>3, OthersStep
  <2> QED
    BY <1>0, <2>1, <2>2, <2>3 DEF Outcome, TargetsKnown
<1>3. CASE Flush
  <2>1. /\ UNCHANGED <<cur, pc, tempCreated, failed, existed, existedBefore, published>>
        /\ disk' = cur
    BY <1>3 DEF Flush, runVars
  <2>2. ASSUME NEW q \in Proc PROVE TempKnown(q)' /\ LookedAt(q)'
    BY <1>0, <2>1, OthersStep
  <2> QED
    BY <1>0, <2>1, <2>2 DEF Outcome, TargetsKnown
<1>4. CASE PowerLoss
  <2>1. /\ cur' = disk /\ disk' = disk
        /\ UNCHANGED <<tempCreated, failed, existed, existedBefore, published, faults>>
        /\ \A q \in Proc : /\ pc'[q] \in {"idle", "done", "crashed"}
                           /\ pc'[q] # "crashed" => pc'[q] = pc[q]
    BY <1>4 DEF PowerLoss, Outcome, Inv, TypeOK, Label, Running
  <2>2. ASSUME NEW q \in Proc PROVE TempKnown(q)' /\ LookedAt(q)'
    BY <2>1 DEF Outcome, TempKnown, LookedAt, Entering, Others
  <2> QED
    BY <1>0, <2>1, <2>2 DEF Outcome, TargetsKnown
<1>5. CASE UNCHANGED vars
  <2>1. UNCHANGED <<cur, disk, pc, tempCreated, failed, existed, existedBefore, published>>
    BY <1>5 DEF vars, dirVars, runVars
  <2>2. ASSUME NEW q \in Proc PROVE TempKnown(q)' /\ LookedAt(q)'
    BY <1>0, <2>1, OthersStep
  <2> QED
    BY <1>0, <2>1, <2>2 DEF Outcome, TargetsKnown
<1> QED
  BY <1>1, <1>2, <1>3, <1>4, <1>5 DEF Next

LEMMA OutcomeInvariant == Spec => []Outcome
BY InitOutcome, NextOutcome, PTL DEF Spec

\* A temporary file outlives the run that created it, crashes aside, only
\* after two calls have failed.
THEOREM Swept == Spec => []NoResidue
<1>1. Outcome => NoResidue
  BY DEF Outcome, TempKnown, NoResidue
<1> QED
  BY <1>1, OutcomeInvariant, PTL

\* A run that reports failure after it has replaced the target was overtaken by
\* another one that published, or a call failed.
THEOREM FailureExplained == Spec => []FailedAfterPublishing
<1>1. Outcome => FailedAfterPublishing
  BY DEF Outcome, LookedAt, Others, FailedAfterPublishing
<1> QED
  BY <1>1, OutcomeInvariant, PTL
-----------------------------------------------------------------------------
(* Refinement *)

LEMMA InitMaps == Init => AtomicFile!Init
BY DEF Init, AtomicFile!Init

LEMMA StepMaps ==
  ASSUME Inv, [Next]_vars
  PROVE  [AtomicFile!Next]_<<cur.target, disk.target>>
<1> USE DEF Inv, TypeOK, Entries
<1>1. ASSUME NEW p \in Proc, Run(p) PROVE [AtomicFile!Next]_<<cur.target, disk.target>>
  <2>1. CASE Rename(p)
    <3>1. CASE UNCHANGED cur
      BY <2>1, <3>1 DEF Rename
    <3>2. CASE cur' = [cur EXCEPT !.temp = None, !.target = cur.temp]
      <4>1. cur'.target = p /\ MayReplace(p) /\ disk' = disk
        BY <2>1, <3>2 DEF Rename, RunInv
      <4>2. AtomicFile!Replace(p)
        BY <4>1 DEF AtomicFile!Replace, MayReplace
      <4> QED
        BY <4>2 DEF AtomicFile!Next
    <3> QED
      BY <2>1, <3>1, <3>2 DEF Rename
  <2>2. CASE SyncDir(p)
    BY <2>2 DEF SyncDir, AtomicFile!Next, AtomicFile!Persist
  <2>3. CASE cur'.target = cur.target /\ disk' = disk
    BY <2>3
  <2> QED
    BY <1>1, <2>1, <2>2, <2>3
       DEF Run, Inspect, MakeDir, InspectUnlocked, AcquireLock, Recheck, CreateTemp,
           WriteBytes, SyncTemp, SweepTemp, Unlock, dirVars
<1>2. CASE Flush
  BY <1>2 DEF Flush, AtomicFile!Next, AtomicFile!Persist
<1>3. CASE PowerLoss
  BY <1>3 DEF PowerLoss, AtomicFile!Next, AtomicFile!Lose
<1>4. CASE UNCHANGED <<cur, disk>>
  BY <1>4
<1> QED
  BY <1>1, <1>2, <1>3, <1>4 DEF Next, Kill, vars, dirVars

\* The commit of `si dashboard` implements an atomically replaced file, which
\* only a run with --force replaces when it is there.
THEOREM Refinement == Spec => ReplacesAtomically
BY InitMaps, StepMaps, Invariant, PTL DEF Spec, ReplacesAtomically, AtomicFile!Spec
=============================================================================
