----------------------------- MODULE AssetLock -----------------------------
(***************************************************************************)
(* The cross-process lock of the local asset store                          *)
(* (asset-storage/src/filesystem-coordination.ts), one step per system call *)
(* that other processes can see, around the read-modify-write of the upload *)
(* reservations it protects.                                                *)
(*                                                                         *)
(* A lock is a file: the holder links an inode of its own to the lock path  *)
(* and keeps it open.  Its owner is inactive once it is dead or its lease   *)
(* has run out; whoever meets an inactive lock links it to the recovery     *)
(* path, and whoever meets a recovery link finishes it.  An inode number is *)
(* reused once nothing links it and no live process has it open.            *)
(*                                                                         *)
(* Operations of one process take turns in withProcessLocalLockTurn, so a   *)
(* process is one sequential actor.  Private files (pending, temporary,     *)
(* released) are invisible to the others and have no variable.              *)
(***************************************************************************)
EXTENDS Naturals, FiniteSets

CONSTANTS
    Procs,       \* processes that share the asset volume
    Ghost,       \* the owner of a lock left behind before the model starts
    Inodes,      \* inode numbers the file system hands out
    NoFile,      \* an absent path
    StaleStart,  \* whether such a lock may be there at the start
    MaxTurns,    \* operations per process
    MaxCrashes,  \* processes that may die
    MaxStalls    \* leases that may run out under a living holder

ASSUME ProcsAssumption == Ghost \notin Procs /\ IsFiniteSet(Procs)
ASSUME FilesAssumption == NoFile \notin Inodes
ASSUME LockLimits == /\ StaleStart \in BOOLEAN
                     /\ MaxTurns \in Nat /\ MaxCrashes \in Nat /\ MaxStalls \in Nat

VARIABLES
    lock,        \* inode at the lock path
    recovery,    \* inode at the recovery path
    owner,       \* process named in each lock file
    leased,      \* whether the lease written in each lock file is running
    pc,          \* where each process is in its operation
    seen,        \* identity of the recovery file a process looked at
    mine,        \* inode a process holds open
    beating,     \* heartbeat has checked ownership and is about to write
    turns,       \* operations a process has begun
    reservations,\* the protected state: one entry per committed operation
    snapshot,    \* reservations as read inside the critical section
    acked,       \* entries whose operation returned successfully
    acquisitions,\* how often the lock was acquired
    since,       \* value of that count at a process's own acquisition
    crashes, stalls

files == <<lock, recovery, owner, leased>>
stateVars == <<reservations, snapshot, acked>>
counters == <<acquisitions, since, crashes, stalls>>
vars == <<lock, recovery, owner, leased, pc, seen, mine, beating, turns,
          reservations, snapshot, acked, acquisitions, since, crashes, stalls>>

Acquiring == {"look", "stat", "readRecovery", "compare", "unlinkLock", "dropCheck",
              "drop", "publish", "readOwner", "linkRecovery"}
Holding == {"verify", "read", "assert", "write", "reassert", "releaseCheck", "release"}
Points == Acquiring \cup Holding \cup {"idle", "dead"}

\* Mutant: an operation is entered under the next turn's number.
EntryAhead(p) == <<p, turns[p] + 1>>

Entry(p) == <<p, turns[p]>>
Entries == Procs \X (0 .. MaxTurns)

TypeOK ==
    /\ lock \in Inodes \cup {NoFile}
    /\ recovery \in Inodes \cup {NoFile}
    /\ owner \in [Inodes -> Procs \cup {Ghost}]
    /\ leased \in [Inodes -> BOOLEAN]
    /\ pc \in [Procs -> Points]
    /\ seen \in [Procs -> Inodes \cup {NoFile}]
    /\ mine \in [Procs -> Inodes \cup {NoFile}]
    /\ beating \in [Procs -> BOOLEAN]
    /\ turns \in [Procs -> 0 .. MaxTurns]
    /\ reservations \subseteq Entries
    /\ snapshot \in [Procs -> SUBSET Entries]
    /\ acked \subseteq Entries
    /\ acquisitions \in Nat
    /\ since \in [Procs -> Nat]
    /\ crashes \in 0 .. MaxCrashes
    /\ stalls \in 0 .. MaxStalls

Init ==
    /\ lock \in IF StaleStart THEN Inodes \cup {NoFile} ELSE {NoFile}
    /\ recovery = NoFile
    /\ owner = [f \in Inodes |-> Ghost]
    /\ leased = [f \in Inodes |-> FALSE]
    /\ pc = [p \in Procs |-> "idle"]
    /\ seen = [p \in Procs |-> NoFile]
    /\ mine = [p \in Procs |-> NoFile]
    /\ beating = [p \in Procs |-> FALSE]
    /\ turns = [p \in Procs |-> 0]
    /\ reservations = {}
    /\ snapshot = [p \in Procs |-> {}]
    /\ acked = {}
    /\ acquisitions = 0
    /\ since = [p \in Procs |-> 0]
    /\ crashes = 0
    /\ stalls = 0

-----------------------------------------------------------------------------
Go(p, from, to) == pc[p] = from /\ pc' = [pc EXCEPT ![p] = to]

Alive(p) == p \in Procs /\ pc[p] # "dead"
Active(f) == Alive(owner[f]) /\ leased[f]
Free(f) == /\ f # lock /\ f # recovery
           /\ \A p \in Procs : pc[p] # "dead" => mine[p] # f

\* assertHeldLockOwnership: still our inode at the path, lease still running.
Owned(p) == lock = mine[p] /\ leased[mine[p]]

Begin(p) ==
    /\ Go(p, "idle", "look")
    /\ turns[p] < MaxTurns
    /\ turns' = [turns EXCEPT ![p] = @ + 1]
    /\ UNCHANGED <<files, seen, mine, beating, stateVars, counters>>

-----------------------------------------------------------------------------
(* finishRecovery *)

\* Is there a recovery path?
Look(p) ==
    /\ pc[p] = "look"
    /\ pc' = [pc EXCEPT ![p] = IF recovery = NoFile THEN "publish" ELSE "stat"]
    /\ UNCHANGED <<files, seen, mine, beating, turns, stateVars, counters>>

\* Remember its identity; it may be gone already, which fails the operation.
Stat(p) ==
    /\ pc[p] = "stat"
    /\ IF recovery = NoFile
         THEN pc' = [pc EXCEPT ![p] = "idle"] /\ UNCHANGED seen
         ELSE /\ pc' = [pc EXCEPT ![p] = "readRecovery"]
              /\ seen' = [seen EXCEPT ![p] = recovery]
    /\ UNCHANGED <<files, mine, beating, turns, stateVars, counters>>

ReadRecovery(p) ==
    /\ pc[p] = "readRecovery"
    /\ pc' = [pc EXCEPT ![p] = IF recovery = NoFile THEN "idle"
                               ELSE IF Active(recovery) THEN "dropCheck" ELSE "compare"]
    /\ UNCHANGED <<files, seen, mine, beating, turns, stateVars, counters>>

\* Only the file that was linked for recovery may be removed from the lock path ...
Compare(p) == lock # NoFile /\ lock = seen[p]

CompareLock(p) ==
    /\ pc[p] = "compare"
    /\ pc' = [pc EXCEPT ![p] = IF Compare(p) THEN "unlinkLock" ELSE "dropCheck"]
    /\ UNCHANGED <<files, seen, mine, beating, turns, stateVars, counters>>

\* ... but unlink() takes whatever is there by then.
UnlinkLock(p) ==
    /\ Go(p, "unlinkLock", "dropCheck")
    /\ lock' = NoFile
    /\ UNCHANGED <<recovery, owner, leased, seen, mine, beating, turns, stateVars,
                   counters>>

\* safeUnlinkIdentity(recoveryPath, recoveryIdentity)
DropCheck(p) ==
    /\ pc[p] = "dropCheck"
    /\ pc' = [pc EXCEPT ![p] = IF recovery = seen[p] THEN "drop" ELSE "look"]
    /\ UNCHANGED <<files, seen, mine, beating, turns, stateVars, counters>>

\* Mutant: the recovery link is left behind.
KeepsRecovery(p) == UNCHANGED recovery

DropsRecovery(p) == recovery' = NoFile

Drop(p) ==
    /\ Go(p, "drop", "look")
    /\ DropsRecovery(p)
    /\ UNCHANGED <<lock, owner, leased, seen, mine, beating, turns, stateVars,
                   counters>>

-----------------------------------------------------------------------------
(* acquireLock *)

\* Mutant: a rename, which replaces what is at the path.
PathIgnored(p) == TRUE

PathFree(p) == lock = NoFile

\* link(pending, lock): our own inode, unless a lock is there.
Publish(p) ==
    /\ pc[p] = "publish"
    /\ PathFree(p)
    /\ \E f \in Inodes :
          /\ Free(f)
          /\ lock' = f
          /\ owner' = [owner EXCEPT ![f] = p]
          /\ leased' = [leased EXCEPT ![f] = TRUE]
          /\ mine' = [mine EXCEPT ![p] = f]
    /\ pc' = [pc EXCEPT ![p] = "verify"]
    /\ acquisitions' = acquisitions + 1
    /\ since' = [since EXCEPT ![p] = acquisitions + 1]
    /\ UNCHANGED <<recovery, seen, beating, turns, stateVars, crashes, stalls>>

PublishExists(p) ==
    /\ Go(p, "publish", "readOwner")
    /\ lock # NoFile
    /\ UNCHANGED <<files, seen, mine, beating, turns, stateVars, counters>>

\* The path is checked once more before the lock counts as held; a lock that is
\* not ours any more is left alone, by safeUnlinkIdentity too, and the operation
\* fails.  Calls that fail with the lock still ours are left out.
Verify(p) ==
    /\ pc[p] = "verify"
    /\ IF lock = mine[p]
         THEN pc' = [pc EXCEPT ![p] = "read"] /\ UNCHANGED mine
         ELSE pc' = [pc EXCEPT ![p] = "idle"] /\ mine' = [mine EXCEPT ![p] = NoFile]
    /\ UNCHANGED <<files, seen, beating, turns, stateVars, counters>>

\* An active owner is waited for, an inactive one is recovered from.
ReadOwner(p) ==
    /\ pc[p] = "readOwner"
    /\ pc' = [pc EXCEPT ![p] = IF lock # NoFile /\ ~Active(lock)
                                 THEN "linkRecovery" ELSE "look"]
    /\ UNCHANGED <<files, seen, mine, beating, turns, stateVars, counters>>

\* recoverStaleLock: link(lock, recovery), unless there is one or no lock.
LinkRecovery(p) ==
    /\ Go(p, "linkRecovery", "look")
    /\ recovery' = IF recovery = NoFile THEN lock ELSE recovery
    /\ UNCHANGED <<lock, owner, leased, seen, mine, beating, turns, stateVars, counters>>

-----------------------------------------------------------------------------
(* The protected transition and releaseLock *)

Read(p) ==
    /\ Go(p, "read", "assert")
    /\ snapshot' = [snapshot EXCEPT ![p] = reservations]
    /\ UNCHANGED <<files, seen, mine, beating, turns, reservations, acked, counters>>

\* guard.assertOwned() right before the rename ...
AssertOwned(p) ==
    /\ pc[p] = "assert"
    /\ pc' = [pc EXCEPT ![p] = IF Owned(p) THEN "write" ELSE "releaseCheck"]
    /\ UNCHANGED <<files, seen, mine, beating, turns, stateVars, counters>>

\* ... rename(temp, reservations) ...
Write(p) ==
    /\ Go(p, "write", "reassert")
    /\ reservations' = snapshot[p] \cup {Entry(p)}
    /\ UNCHANGED <<files, seen, mine, beating, turns, snapshot, acked, counters>>

\* Mutant: no last look at the lock.
ReturnsAnyway(p) == TRUE

\* ... and once more before the result is returned.
ReturnsResult(p) == Owned(p)

Reassert(p) ==
    /\ Go(p, "reassert", "releaseCheck")
    /\ acked' = IF ReturnsResult(p) THEN acked \cup {Entry(p)} ELSE acked
    /\ UNCHANGED <<files, seen, mine, beating, turns, reservations, snapshot, counters>>

\* Release waits for a heartbeat under way, checks that the lock is ours and
\* renames the lock path away.
ReleaseCheck(p) ==
    /\ pc[p] = "releaseCheck" /\ ~beating[p]
    /\ IF lock = mine[p]
         THEN pc' = [pc EXCEPT ![p] = "release"] /\ UNCHANGED mine
         ELSE pc' = [pc EXCEPT ![p] = "idle"] /\ mine' = [mine EXCEPT ![p] = NoFile]
    /\ UNCHANGED <<files, seen, beating, turns, stateVars, counters>>

\* Mutant: the lock file is not renamed away.
LeavesLock(p) == UNCHANGED lock

RenamesLock(p) == lock' = NoFile

Release(p) ==
    /\ Go(p, "release", "idle")
    /\ RenamesLock(p)
    /\ mine' = [mine EXCEPT ![p] = NoFile]
    /\ UNCHANGED <<recovery, owner, leased, seen, beating, turns, stateVars, counters>>

-----------------------------------------------------------------------------
(* Heartbeats, stalls and crashes *)

Working == {"read", "assert", "write", "reassert"}

HeartbeatCheck(p) ==
    /\ pc[p] \in Working /\ ~beating[p]
    /\ Owned(p)
    /\ beating' = [beating EXCEPT ![p] = TRUE]
    /\ UNCHANGED <<files, pc, seen, mine, turns, stateVars, counters>>

\* The lease is written through the open handle, whatever became of the path.
HeartbeatWrite(p) ==
    /\ pc[p] # "dead" /\ beating[p]
    /\ leased' = [leased EXCEPT ![mine[p]] = TRUE]
    /\ beating' = [beating EXCEPT ![p] = FALSE]
    /\ UNCHANGED <<lock, recovery, owner, pc, seen, mine, turns, stateVars, counters>>

Stall(p) ==
    /\ stalls < MaxStalls
    /\ pc[p] \in Holding /\ leased[mine[p]]
    /\ leased' = [leased EXCEPT ![mine[p]] = FALSE]
    /\ stalls' = stalls + 1
    /\ UNCHANGED <<lock, recovery, owner, pc, seen, mine, beating, turns, stateVars,
                   acquisitions, since, crashes>>

Crash(p) ==
    /\ crashes < MaxCrashes
    /\ pc[p] # "dead"
    /\ pc' = [pc EXCEPT ![p] = "dead"]
    /\ crashes' = crashes + 1
    /\ UNCHANGED <<files, seen, mine, beating, turns, stateVars, acquisitions, since,
                   stalls>>

Step(p) ==
    \/ Look(p) \/ Stat(p) \/ ReadRecovery(p) \/ CompareLock(p) \/ UnlinkLock(p)
    \/ DropCheck(p) \/ Drop(p)
    \/ Publish(p) \/ PublishExists(p) \/ Verify(p) \/ ReadOwner(p) \/ LinkRecovery(p)
    \/ Read(p) \/ AssertOwned(p) \/ Write(p) \/ Reassert(p) \/ ReleaseCheck(p) \/ Release(p)

Next ==
    \E p \in Procs : \/ Begin(p) \/ Step(p)
                     \/ HeartbeatCheck(p) \/ HeartbeatWrite(p)
                     \/ Stall(p) \/ Crash(p)

Spec == Init /\ [][Next]_vars

\* A living process keeps running its operation; nothing makes it begin one.
FairSpec == Spec /\ \A p \in Procs : WF_vars(Step(p)) /\ WF_vars(HeartbeatWrite(p))

-----------------------------------------------------------------------------
(* Properties *)

\* An operation that reports success was alone from its acquisition to its last
\* check: nobody acquired the lock in between, whatever leases ran out, whoever
\* died and whichever recoveries crossed (withFilesystemAssetFileLock asks
\* assertOwned() once more before it returns the result).
AcknowledgedAlone ==
    [][\A p \in Procs :
          Entry(p) \in acked' \ acked => acquisitions = since[p]]_vars

\* Why: as long as a holder finds its own inode at the path, nobody has acquired
\* the lock since, because an inode it holds open is not handed out again.
HoldsLatest ==
    \A p \in Procs :
        pc[p] \in Holding =>
            /\ mine[p] # NoFile
            /\ lock = mine[p] => since[p] = acquisitions

\* State transitions are serialized: what an operation reported as done is not
\* lost to a later or a concurrent transition.
AcknowledgedKept == acked \subseteq reservations

\* Nobody is inside the critical section together with another living process.
Exclusive ==
    \A p, q \in Procs :
        pc[p] \in Working /\ pc[q] \in Working => p = q

\* A lock at the path that names a living process is one that process still has
\* open, so it is going to be released or its holder's lease will lapse.
NoOrphanedLock ==
    lock # NoFile /\ Alive(owner[lock]) => mine[owner[lock]] = lock

\* A crash at any system call wedges nobody: every operation of a survivor ends.
NeverWedged ==
    \A p \in Procs : pc[p] # "idle" ~> pc[p] \in {"idle", "dead"}
=============================================================================
