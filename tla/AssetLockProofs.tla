-------------------------- MODULE AssetLockProofs --------------------------
(***************************************************************************)
(* Proofs about AssetLock for any number of processes, inodes, crashes and  *)
(* lapsed leases.                                                           *)
(***************************************************************************)
EXTENDS AssetLock, TLAPS

Inv == TypeOK /\ HoldsLatest /\ NoOrphanedLock

LEMMA TypePreserved == TypeOK /\ [Next]_vars => TypeOK'
<1> SUFFICES ASSUME TypeOK, [Next]_vars PROVE TypeOK'
  OBVIOUS
<1> USE LockLimits DEF TypeOK, Points, Acquiring, Holding, files, stateVars, counters, Go
<1>1. ASSUME NEW p \in Procs, Step(p) PROVE TypeOK'
  <2>1. CASE Look(p) \/ Stat(p) \/ ReadRecovery(p) \/ CompareLock(p) \/ UnlinkLock(p)
             \/ DropCheck(p) \/ Drop(p)
    BY <2>1
    DEF Look, Stat, ReadRecovery, CompareLock, UnlinkLock, DropCheck, Drop, DropsRecovery
  <2>2. CASE Publish(p)
    BY <2>2 DEF Publish, PathFree
  <2>3. CASE PublishExists(p) \/ Verify(p) \/ ReadOwner(p) \/ LinkRecovery(p)
    BY <2>3 DEF PublishExists, Verify, ReadOwner, LinkRecovery
  <2>4. CASE Read(p) \/ AssertOwned(p) \/ Write(p) \/ Reassert(p)
    BY <2>4 DEF Read, AssertOwned, Write, Reassert, Entry, Entries
  <2>5. CASE ReleaseCheck(p) \/ Release(p)
    BY <2>5 DEF ReleaseCheck, Release, RenamesLock
  <2> QED
    BY <1>1, <2>1, <2>2, <2>3, <2>4, <2>5 DEF Step
<1>2. ASSUME NEW p \in Procs, Begin(p) PROVE TypeOK'
  BY <1>2 DEF Begin
<1>3. ASSUME NEW p \in Procs,
             HeartbeatCheck(p) \/ HeartbeatWrite(p) \/ Stall(p) \/ Crash(p)
      PROVE  TypeOK'
  <2>1. CASE HeartbeatCheck(p)
    BY <2>1 DEF HeartbeatCheck
  <2>2. CASE HeartbeatWrite(p)
    BY <2>2 DEF HeartbeatWrite
  <2>3. CASE Stall(p)
    <3>1. leased' \in [Inodes -> BOOLEAN]
      BY <2>3 DEF Stall
    <3>2. stalls' \in 0 .. MaxStalls
      BY <2>3 DEF Stall
    <3> QED
      BY <2>3, <3>1, <3>2 DEF Stall
  <2>4. CASE Crash(p)
    BY <2>4 DEF Crash
  <2> QED
    BY <1>3, <2>1, <2>2, <2>3, <2>4
<1>4. CASE UNCHANGED vars
  BY <1>4 DEF vars
<1> QED
  BY <1>1, <1>2, <1>3, <1>4 DEF Next

\* Acquisition takes an inode no living process has open, so it is nobody else's.
LEMMA PublishInv ==
    ASSUME Inv, TypeOK', NEW p \in Procs, Publish(p)
    PROVE  HoldsLatest' /\ NoOrphanedLock'
<1>1. PICK f \in Inodes :
        /\ Free(f) /\ lock' = f
        /\ owner' = [owner EXCEPT ![f] = p]
        /\ mine' = [mine EXCEPT ![p] = f]
  BY DEF Publish, PathFree
<1>2. HoldsLatest'
  <2> SUFFICES ASSUME NEW q \in Procs, pc'[q] \in Holding
               PROVE  mine'[q] # NoFile /\ (lock' = mine'[q] => since'[q] = acquisitions')
    BY DEF HoldsLatest
  <2>1. CASE q = p
    BY <1>1, <2>1, FilesAssumption DEF Publish, Inv, TypeOK
  <2>2. CASE q # p
    <3>1. pc[q] \in Holding /\ mine'[q] = mine[q]
      BY <1>1, <2>2 DEF Publish, Inv, TypeOK
    <3>2. mine[q] # f
      BY <1>1, <3>1 DEF Free, Holding
    <3> QED
      BY <1>1, <3>1, <3>2 DEF Inv, HoldsLatest
  <2> QED
    BY <2>1, <2>2
<1>3. NoOrphanedLock'
  BY <1>1 DEF NoOrphanedLock, Inv, TypeOK
<1> QED
  BY <1>2, <1>3

\* Every other step leaves the lock path alone or empties it.
LEMMA OtherInv ==
    ASSUME Inv, [Next]_vars, \A p \in Procs : ~Publish(p)
    PROVE  HoldsLatest' /\ NoOrphanedLock'
<1> USE DEF Inv, TypeOK, Holding, files, stateVars, counters, Go, Alive
<1>1. ASSUME NEW p \in Procs, Step(p), ~Publish(p)
      PROVE  HoldsLatest' /\ NoOrphanedLock'
  <2>1. CASE Look(p) \/ Stat(p) \/ ReadRecovery(p) \/ CompareLock(p) \/ UnlinkLock(p)
             \/ DropCheck(p) \/ Drop(p)
    BY <2>1
    DEF Look, Stat, ReadRecovery, CompareLock, UnlinkLock, DropCheck, Drop, HoldsLatest,
        NoOrphanedLock
  <2>2. CASE PublishExists(p) \/ Verify(p) \/ ReadOwner(p) \/ LinkRecovery(p)
    BY <2>2
    DEF PublishExists, Verify, ReadOwner, LinkRecovery, HoldsLatest, NoOrphanedLock
  <2>3. CASE Read(p) \/ AssertOwned(p) \/ Write(p) \/ Reassert(p)
    BY <2>3 DEF Read, AssertOwned, Write, Reassert, HoldsLatest, NoOrphanedLock
  <2>4. CASE ReleaseCheck(p) \/ Release(p)
    BY <2>4 DEF ReleaseCheck, Release, RenamesLock, HoldsLatest, NoOrphanedLock
  <2> QED
    BY <1>1, <2>1, <2>2, <2>3, <2>4 DEF Step
<1>2. ASSUME NEW p \in Procs, Begin(p) PROVE HoldsLatest' /\ NoOrphanedLock'
  BY <1>2 DEF Begin, HoldsLatest, NoOrphanedLock
<1>3. ASSUME NEW p \in Procs,
             HeartbeatCheck(p) \/ HeartbeatWrite(p) \/ Stall(p) \/ Crash(p)
      PROVE  HoldsLatest' /\ NoOrphanedLock'
  BY <1>3
  DEF HeartbeatCheck, HeartbeatWrite, Stall, Crash, HoldsLatest, NoOrphanedLock
<1>4. CASE UNCHANGED vars
  BY <1>4 DEF vars, HoldsLatest, NoOrphanedLock
<1> QED
  BY <1>1, <1>2, <1>3, <1>4 DEF Next

LEMMA InvAlways == Spec => []Inv
<1>1. Init => Inv
  BY LockLimits, ProcsAssumption
  DEF Init, Inv, TypeOK, HoldsLatest, NoOrphanedLock, Points, Holding, Alive
<1>2. Inv /\ [Next]_vars => Inv'
  BY TypePreserved, PublishInv, OtherInv DEF Inv
<1> QED
  BY <1>1, <1>2, PTL DEF Spec

\* Type correctness of the lock files and of every process's operation.
THEOREM LockTypeCorrect == Spec => []TypeOK
BY InvAlways, PTL DEF Inv

\* A lock that names a living process is one that process still holds open
\* (acquireLock and releaseLock of asset-storage/src/filesystem-coordination.ts).
THEOREM NoLivingOrphan == Spec => []NoOrphanedLock
BY InvAlways, PTL DEF Inv

\* An operation reported as successful was alone from acquisition to its last
\* ownership check, for any number of processes, crashes and lapsed leases.
THEOREM SuccessMeansAlone == Spec => AcknowledgedAlone
<1>1. ASSUME Inv, [Next]_vars, NEW p \in Procs, Entry(p) \in acked' \ acked
      PROVE  acquisitions = since[p]
  <2>1. PICK q \in Procs : Reassert(q) /\ Entry(q) = Entry(p) /\ ReturnsResult(q)
    BY <1>1
    DEF Next, Step, Begin, Look, Stat, ReadRecovery, CompareLock, UnlinkLock, DropCheck,
        Drop, Publish, PublishExists, Verify, ReadOwner, LinkRecovery, Read, AssertOwned,
        Write, Reassert, ReleaseCheck, Release, HeartbeatCheck, HeartbeatWrite, Stall,
        Crash, vars, stateVars
  <2>2. q = p
    BY <2>1 DEF Entry
  <2> QED
    BY <1>1, <2>1, <2>2
    DEF Reassert, Go, ReturnsResult, Owned, Inv, HoldsLatest, Holding
<1>2. Inv /\ [Next]_vars =>
        [\A p \in Procs : Entry(p) \in acked' \ acked => acquisitions = since[p]]_vars
  BY <1>1
<1> QED
  BY <1>2, InvAlways, PTL DEF Spec, AcknowledgedAlone
-----------------------------------------------------------------------------
(* Where the lock can be trusted *)

\* What a process has read is still all that was acknowledged when it writes,
\* and what it has written is there until it reports it.
SnapshotCurrent ==
    \A p \in Procs :
        /\ pc[p] \in {"assert", "write"} => acked \subseteq snapshot[p]
        /\ pc[p] = "reassert" => Entry(p) \in reservations

\* As long as nobody shares the critical section, no transition overwrites
\* another: the reservations rest on exclusion and on nothing else.
LEMMA AcknowledgedPreserved ==
    TypeOK /\ Exclusive /\ SnapshotCurrent /\ AcknowledgedKept /\ [Next]_vars
        => SnapshotCurrent' /\ AcknowledgedKept'
<1> SUFFICES ASSUME TypeOK, Exclusive, SnapshotCurrent, AcknowledgedKept, [Next]_vars
             PROVE  SnapshotCurrent' /\ AcknowledgedKept'
  OBVIOUS
<1> USE DEF TypeOK, Go, Entry, files, stateVars, counters
<1>1. ASSUME UNCHANGED <<reservations, snapshot, acked>>,
             \A p \in Procs : pc'[p] \in {"assert", "write", "reassert"} =>
                /\ pc[p] = pc'[p] \/ (pc[p] = "assert" /\ pc'[p] = "write")
                /\ turns'[p] = turns[p]
      PROVE  SnapshotCurrent' /\ AcknowledgedKept'
  BY <1>1 DEF SnapshotCurrent, AcknowledgedKept
<1>2. ASSUME NEW p \in Procs, Read(p) PROVE SnapshotCurrent' /\ AcknowledgedKept'
  BY <1>2 DEF Read, SnapshotCurrent, AcknowledgedKept
\* Nobody else is between its acquisition and its release.
<1>3. ASSUME NEW p \in Procs, pc[p] \in Working, NEW q \in Procs \ {p}
      PROVE  pc[q] \notin {"assert", "write", "reassert"}
  BY <1>3 DEF Exclusive, Working
<1>4. ASSUME NEW p \in Procs, Write(p) PROVE SnapshotCurrent' /\ AcknowledgedKept'
  <2>1. acked \subseteq snapshot[p] /\ acked' = acked
    BY <1>4 DEF Write, SnapshotCurrent
  <2>2. pc' = [pc EXCEPT ![p] = "reassert"] /\ turns' = turns
        /\ reservations' = snapshot[p] \cup {Entry(p)}
    BY <1>4 DEF Write
  <2>3. \A q \in Procs \ {p} : pc'[q] \notin {"assert", "write", "reassert"}
    BY <1>3, <1>4, <2>2 DEF Write, Working
  <2> QED
    BY <2>1, <2>2, <2>3 DEF SnapshotCurrent, AcknowledgedKept
<1>5. ASSUME NEW p \in Procs, Reassert(p) PROVE SnapshotCurrent' /\ AcknowledgedKept'
  <2>1. Entry(p) \in reservations /\ reservations' = reservations
        /\ acked' \subseteq acked \cup {Entry(p)}
    BY <1>5 DEF Reassert, SnapshotCurrent
  <2>2. pc' = [pc EXCEPT ![p] = "releaseCheck"]
    BY <1>5 DEF Reassert
  <2>3. \A q \in Procs : pc'[q] \notin {"assert", "write", "reassert"}
    BY <1>3, <1>5, <2>2 DEF Reassert, Working
  <2> QED
    BY <2>1, <2>3 DEF SnapshotCurrent, AcknowledgedKept
<1>6. ASSUME NEW p \in Procs, Step(p)
      PROVE  \/ Read(p) \/ Write(p) \/ Reassert(p)
             \/ /\ UNCHANGED <<reservations, snapshot, acked>>
                /\ \A q \in Procs : pc'[q] \in {"assert", "write", "reassert"} =>
                     /\ pc[q] = pc'[q] \/ (pc[q] = "assert" /\ pc'[q] = "write")
                     /\ turns'[q] = turns[q]
  BY <1>6
  DEF Step, Look, Stat, ReadRecovery, CompareLock, UnlinkLock, DropCheck, Drop, Publish,
      PublishExists, Verify, ReadOwner, LinkRecovery, AssertOwned, ReleaseCheck, Release
<1>7. ASSUME NEW p \in Procs,
             Begin(p) \/ HeartbeatCheck(p) \/ HeartbeatWrite(p) \/ Stall(p) \/ Crash(p)
      PROVE  SnapshotCurrent' /\ AcknowledgedKept'
  BY <1>1, <1>7 DEF Begin, HeartbeatCheck, HeartbeatWrite, Stall, Crash
<1>8. CASE UNCHANGED vars
  BY <1>1, <1>8 DEF vars
<1> QED
  BY <1>1, <1>2, <1>4, <1>5, <1>6, <1>7, <1>8 DEF Next

\* Whatever keeps the critical section exclusive keeps every acknowledged
\* reservation, under any crashes, stalls and stale locks.
THEOREM ExclusionKeepsAcknowledged == Spec /\ []Exclusive => []AcknowledgedKept
<1>1. Init => SnapshotCurrent /\ AcknowledgedKept
  BY DEF Init, SnapshotCurrent, AcknowledgedKept
<1> QED
  BY <1>1, AcknowledgedPreserved, LockTypeCorrect, PTL DEF Spec

\* No lease runs out under its holder, and whoever meets a lock of the dead is
\* the only process there is to recover it.
SingleRecoverer ==
    /\ MaxStalls = 0
    /\ \/ ~StaleStart /\ MaxCrashes = 0
       \/ ~StaleStart /\ \E p, q \in Procs : Procs \subseteq {p, q}
       \/ \E p \in Procs : Procs \subseteq {p}

Undisturbed == ~StaleStart /\ \A p \in Procs : pc[p] # "dead"

SoleSurvivor ==
    ~Undisturbed => \A p, q \in Procs : pc[p] # "dead" /\ pc[q] # "dead" => p = q

\* Until something is there to recover, the file at the path is the holder's own.
HoldersLock ==
    Undisturbed =>
        /\ recovery = NoFile
        /\ \A p \in Procs :
              /\ pc[p] \in Holding \cup {"idle", "look", "publish", "readOwner"}
              /\ pc[p] \in Holding => /\ lock = mine[p] /\ lock # NoFile
                                      /\ owner[lock] = p /\ leased[lock]
        /\ lock # NoFile => \E p \in Procs : pc[p] \in Holding

SurvivorInv == TypeOK /\ SoleSurvivor /\ HoldersLock

LEMMA SurvivorExclusive == SurvivorInv => Exclusive
<1> SUFFICES ASSUME SurvivorInv, NEW p \in Procs, NEW q \in Procs,
                    pc[p] \in Working, pc[q] \in Working
             PROVE  p = q
  BY DEF Exclusive
<1>1. pc[p] # "dead" /\ pc[q] # "dead" /\ pc[p] \in Holding /\ pc[q] \in Holding
  BY DEF Working, Holding
<1> QED
  BY <1>1 DEF SurvivorInv, SoleSurvivor, HoldersLock

\* A death ends the undisturbed part of a behaviour; until then a process only
\* ever removes its own file from the lock path.
LEMMA SurvivorPreserved ==
    ASSUME SingleRecoverer, SurvivorInv, [Next]_vars
    PROVE  SurvivorInv'
<1> USE FilesAssumption DEF SurvivorInv, TypeOK, Go, files, stateVars, counters
<1>1. TypeOK'
  BY TypePreserved
<1>2. ASSUME NEW p \in Procs, Crash(p) PROVE SoleSurvivor' /\ HoldersLock'
  <2>1. pc' = [pc EXCEPT ![p] = "dead"] /\ MaxCrashes # 0
    BY <1>2, LockLimits DEF Crash
  <2>2. ~Undisturbed'
    BY <2>1 DEF Undisturbed
  <2>3. SoleSurvivor'
    BY <2>1 DEF SoleSurvivor, SingleRecoverer
  <2> QED
    BY <2>2, <2>3 DEF HoldersLock
<1>3. ASSUME NEW p \in Procs, Stall(p) PROVE FALSE
  BY <1>3, LockLimits DEF Stall, SingleRecoverer
<1>4. ASSUME \A q \in Procs : pc'[q] = "dead" <=> pc[q] = "dead"
      PROVE  (Undisturbed' <=> Undisturbed) /\ SoleSurvivor'
  BY <1>4 DEF Undisturbed, SoleSurvivor
<1>5. ASSUME NEW p \in Procs,
             Begin(p) \/ Step(p) \/ HeartbeatCheck(p) \/ HeartbeatWrite(p)
      PROVE  \A q \in Procs : pc'[q] = "dead" <=> pc[q] = "dead"
  BY <1>5
  DEF Begin, Step, Look, Stat, ReadRecovery, CompareLock, UnlinkLock, DropCheck, Drop,
      Publish, PublishExists, Verify, ReadOwner, LinkRecovery, Read, AssertOwned, Write,
      Reassert, ReleaseCheck, Release, HeartbeatCheck, HeartbeatWrite
<1>6. ASSUME NEW p \in Procs, Undisturbed, HoldersLock,
             Begin(p) \/ Step(p) \/ HeartbeatCheck(p) \/ HeartbeatWrite(p)
      PROVE  /\ recovery' = NoFile
             /\ \A q \in Procs :
                   /\ pc'[q] \in Holding \cup {"idle", "look", "publish", "readOwner"}
                   /\ pc'[q] \in Holding => /\ lock' = mine'[q] /\ lock' # NoFile
                                            /\ owner'[lock'] = q /\ leased'[lock']
             /\ lock' # NoFile => \E q \in Procs : pc'[q] \in Holding
  <2> USE <1>6 DEF HoldersLock, Holding
  <2>1. CASE Begin(p) \/ HeartbeatCheck(p)
    BY <2>1 DEF Begin, HeartbeatCheck
  <2>2. CASE HeartbeatWrite(p)
    BY <2>2 DEF HeartbeatWrite
  <2>3. CASE Look(p) \/ PublishExists(p)
    BY <2>3 DEF Look, PublishExists
  <2>4. CASE ReadOwner(p)
    <3>1. lock # NoFile => Active(lock)
      BY DEF Undisturbed, Active, Alive
    <3> QED
      BY <2>4, <3>1 DEF ReadOwner
  <2>5. CASE Publish(p)
    <3>1. \A q \in Procs : pc[q] \notin Holding
      BY <2>5 DEF Publish, PathFree
    <3> QED
      BY <2>5, <3>1 DEF Publish, PathFree
  <2>6. CASE Verify(p) \/ Read(p) \/ AssertOwned(p) \/ Write(p) \/ Reassert(p)
             \/ ReleaseCheck(p)
    BY <2>6 DEF Verify, Read, AssertOwned, Write, Reassert, ReleaseCheck
  <2>7. CASE Release(p)
    <3>1. \A q \in Procs \ {p} : pc[q] \notin Holding
      BY <2>7 DEF Release
    <3> QED
      BY <2>7, <3>1 DEF Release, RenamesLock
  <2>8. CASE Stat(p) \/ ReadRecovery(p) \/ CompareLock(p) \/ UnlinkLock(p) \/ DropCheck(p)
             \/ Drop(p) \/ LinkRecovery(p)
    BY <2>8
    DEF Stat, ReadRecovery, CompareLock, UnlinkLock, DropCheck, Drop, LinkRecovery
  <2> QED
    BY <2>1, <2>2, <2>3, <2>4, <2>5, <2>6, <2>7, <2>8 DEF Step
<1>7. CASE UNCHANGED vars
  BY <1>4, <1>7 DEF vars, SoleSurvivor, HoldersLock, Undisturbed
<1>8. ASSUME NEW p \in Procs,
             Begin(p) \/ Step(p) \/ HeartbeatCheck(p) \/ HeartbeatWrite(p)
      PROVE  SoleSurvivor' /\ HoldersLock'
  BY <1>4, <1>5, <1>6, <1>8 DEF HoldersLock
<1> QED
  BY <1>1, <1>2, <1>3, <1>7, <1>8 DEF Next

LEMMA SurvivorAlways == ASSUME SingleRecoverer PROVE Spec => []SurvivorInv
<1>1. Init => SurvivorInv
  <2> SUFFICES ASSUME Init PROVE SurvivorInv
    OBVIOUS
  <2>1. TypeOK
    BY LockLimits, ProcsAssumption DEF Init, TypeOK, Points
  <2>2. SoleSurvivor
    BY DEF Init, SoleSurvivor, Undisturbed, SingleRecoverer
  <2>3. HoldersLock
    BY DEF Init, HoldersLock, Undisturbed, Holding
  <2> QED
    BY <2>1, <2>2, <2>3 DEF SurvivorInv
<1>2. SurvivorInv /\ [Next]_vars => SurvivorInv'
  BY SurvivorPreserved
<1> QED
  BY <1>1, <1>2, PTL DEF Spec

\* Where one process at most is left to recover a lock, no two processes are in
\* the critical section: any number of processes none of which dies, or two of
\* which either may die anywhere (finding 1 needs two recoverers).
THEOREM SurvivorIsAlone == ASSUME SingleRecoverer PROVE Spec => []Exclusive
BY SurvivorAlways, SurvivorExclusive, PTL

\* There no acknowledged reservation is lost either.
THEOREM SurvivorKeepsAcknowledged ==
    ASSUME SingleRecoverer PROVE Spec => []AcknowledgedKept
BY SurvivorIsAlone, ExclusionKeepsAcknowledged, PTL
=============================================================================
