---------------------- MODULE KnowledgePublicationProofs ----------------------
(***************************************************************************)
(* Proofs about KnowledgePublication for any attempts, rollbacks,           *)
(* deployments and revisions, and any combination of faults.                *)
(***************************************************************************)
EXTENDS KnowledgePublication, TLAPS

\* An open activation is that of the plan's revision, and a compensation that
\* of an existing one.
OpenTargets ==
    \A a \in Attempts : /\ pc[a] = "activating" => target[a] = Revision(a)
                        /\ pc[a] = "compensating" => target[a] \in Revisions

PinnedRow(d) == /\ <<d, Content[d]>> \in pins
                /\ status[Content[d]] \in {"active", "retired"}

\* From activation on the revision is as durable as if it had been recorded.
PublishedAreKept ==
    \A a \in Attempts : /\ pc[a] = "persist" => PinnedRow(Uses[a])
                        /\ pc[a] \in {"settle", "commit"} => Kept(Uses[a])

Inv == TypeOK /\ OpenTargets /\ PublishedAreKept /\ RecordedAreKept

-----------------------------------------------------------------------------
LEMMA TypePreserved == TypeOK /\ OpenTargets /\ [Next]_vars => TypeOK'
<1> SUFFICES ASSUME TypeOK, OpenTargets, [Next]_vars PROVE TypeOK'
  OBVIOUS
<1>0. /\ Attempts \subseteq Callers /\ Rollbacks \subseteq Callers
      /\ {"lease", "read", "stage", "text", "activate", "activating", "persist",
          "compensate", "compensating", "settle", "unwind", "commit", "abort", "deployed",
          "replayed", "rolledback", "failed", "dead", "pair", "pairing"} \subseteq Points
      /\ {"crash", "disconnect", "commit", "release", "compensate", "pair", "automation",
          "overlap", "retry"} \subseteq Excuses
      /\ \A a \in Attempts : Revision(a) \in Revisions
  BY MapsAssumption
  DEF Points, Callers, DeployPoints, RollbackPoints, Done, Excuses, FaultKinds, Revision
<1> USE <1>0, MapsAssumption
    DEF TypeOK, Go, store, deploys, local, LetGo, Excuse, ActiveRevisions
<1>1. ASSUME NEW a \in Attempts, DeployStep(a) PROVE TypeOK'
  <2>1. CASE AcquireLease(a) \/ ReadPrevious(a) \/ Stage(a) \/ StageText(a) \/ PublishFails(a)
    BY <2>1 DEF AcquireLease, ReadPrevious, Stage, StageText, PublishFails, Staged
  <2>2. CASE ActivateOpen(a)
    BY <2>2 DEF ActivateOpen, OpenTransaction
  <2>3. CASE ActivateCommit(a)
    BY <2>3 DEF ActivateCommit, CommitTransaction, CloseTransaction, Pinned, OpenTargets
  <2>4. CASE ActivateFails(a) \/ CompensateFails(a)
    BY <2>4 DEF ActivateFails, CompensateFails, CloseTransaction
  <2>5. CASE Persist(a) \/ PersistFails(a) \/ NothingToRestore(a)
    BY <2>5 DEF Persist, PersistFails, NothingToRestore
  <2>6. CASE CompensateOpen(a)
    BY <2>6 DEF CompensateOpen, OpenTransaction
  <2>7. CASE CompensateCommit(a)
    BY <2>7 DEF CompensateCommit, CommitTransaction, CloseTransaction, Pinned, OpenTargets
  <2>8. CASE ReleaseLease(a) \/ ReleaseFails(a)
    BY <2>8 DEF ReleaseLease, ReleaseFails
  <2>9. CASE Commit(a) \/ CommitFails(a) \/ RunRefused(a) \/ Abort(a)
    BY <2>9 DEF Commit, CommitFails, RunRefused, Abort
  <2> QED
    BY <1>1, <2>1, <2>2, <2>3, <2>4, <2>5, <2>6, <2>7, <2>8, <2>9 DEF DeployStep
<1>2. ASSUME NEW a \in Attempts,
             Begin(a) \/ Replay(a) \/ LeaseFails(a) \/ Disconnect(a)
      PROVE  TypeOK'
  BY <1>2 DEF Begin, Replay, LeaseFails, Disconnect, Overtakes
<1>3. ASSUME NEW b \in Rollbacks, RollbackCommit(b) \/ RollbackStep(b) PROVE TypeOK'
  <2>1. CASE RollbackCommit(b)
    BY <2>1 DEF RollbackCommit, Overtakes
  <2>2. CASE PairOpen(b)
    BY <2>2 DEF PairOpen, OpenTransaction, PinnedBy
  <2>3. CASE PairCommit(b)
    BY <2>3 DEF PairCommit, CommitTransaction, CloseTransaction
  <2>4. CASE PairFails(b)
    BY <2>4 DEF PairFails, CloseTransaction
  <2> QED
    BY <1>3, <2>1, <2>2, <2>3, <2>4 DEF RollbackStep
<1>4. ASSUME NEW p \in Callers, LockTimesOut(p) \/ Crash(p) PROVE TypeOK'
  BY <1>4 DEF LockTimesOut, Crash, CloseTransaction
<1>5. CASE CollectGarbage \/ Expire
  BY <1>5 DEF CollectGarbage, Expire
<1>6. CASE UNCHANGED vars
  BY <1>6 DEF vars
<1> QED
  BY <1>1, <1>2, <1>3, <1>4, <1>5, <1>6 DEF Next

-----------------------------------------------------------------------------
\* Nothing that happens to the store takes away a pinned revision: pins only
\* grow, activation turns active into retired at worst, and garbage collection
\* looks at the pins.
LEMMA RowStays ==
    ASSUME TypeOK, [Next]_vars, NEW d \in Deployments, PinnedRow(d)
    PROVE  PinnedRow(d)' /\ (Content[d] \in texts => Content[d] \in texts')
<1> DEFINE r == Content[d]
<1>0. r \in Revisions
  BY MapsAssumption
<1> SUFFICES /\ <<d, r>> \in pins'
             /\ status'[r] \in {"active", "retired"}
             /\ r \in texts => r \in texts'
  BY DEF PinnedRow
<1> USE <1>0 DEF PinnedRow, TypeOK, store
<1>1. ASSUME NEW p \in Callers, CommitTransaction(p) PROVE status'[r] \in {"active", "retired"}
  BY <1>1 DEF CommitTransaction
<1>2. ASSUME NEW a \in Attempts, ActivateCommit(a) \/ CompensateCommit(a)
      PROVE  /\ <<d, r>> \in pins'
             /\ status'[r] \in {"active", "retired"}
             /\ r \in texts => r \in texts'
  BY <1>1, <1>2 DEF ActivateCommit, CompensateCommit, Pinned, Callers
<1>3. ASSUME NEW b \in Rollbacks, PairCommit(b)
      PROVE  /\ <<d, r>> \in pins'
             /\ status'[r] \in {"active", "retired"}
             /\ r \in texts => r \in texts'
  BY <1>1, <1>3 DEF PairCommit, Callers
<1>4. ASSUME NEW a \in Attempts, Stage(a) \/ StageText(a)
      PROVE  /\ <<d, r>> \in pins'
             /\ status'[r] \in {"active", "retired"}
             /\ r \in texts => r \in texts'
  BY <1>4 DEF Stage, StageText, Staged
<1>5. ASSUME CollectGarbage
      PROVE  /\ <<d, r>> \in pins'
             /\ status'[r] \in {"active", "retired"}
             /\ r \in texts => r \in texts'
  BY <1>5 DEF CollectGarbage, Garbage
<1>6. ASSUME UNCHANGED store
      PROVE  /\ <<d, r>> \in pins'
             /\ status'[r] \in {"active", "retired"}
             /\ r \in texts => r \in texts'
  BY <1>6
<1>7. ASSUME NEW a \in Attempts, DeployStep(a)
      PROVE  \/ ActivateCommit(a) \/ CompensateCommit(a) \/ Stage(a) \/ StageText(a)
             \/ UNCHANGED store
  BY <1>7 DEF DeployStep, AcquireLease, ReadPrevious, PublishFails, ActivateOpen, ActivateFails,
     Persist, PersistFails, CompensateOpen, NothingToRestore, CompensateFails, ReleaseLease,
     ReleaseFails, Commit, CommitFails, RunRefused, Abort
<1>8. ASSUME NEW b \in Rollbacks, RollbackCommit(b) \/ RollbackStep(b)
      PROVE  PairCommit(b) \/ UNCHANGED store
  BY <1>8 DEF RollbackStep, RollbackCommit, PairOpen, PairFails
<1>9. ASSUME NEW a \in Attempts, Begin(a) \/ Replay(a) \/ LeaseFails(a) \/ Disconnect(a)
      PROVE  UNCHANGED store
  BY <1>9 DEF Begin, Replay, LeaseFails, Disconnect
<1>10. ASSUME NEW p \in Callers, LockTimesOut(p) \/ Crash(p) PROVE UNCHANGED store
  BY <1>10 DEF LockTimesOut, Crash
<1>11. ASSUME Expire \/ UNCHANGED vars PROVE UNCHANGED store
  BY <1>11 DEF Expire, vars
<1> QED
  BY <1>2, <1>3, <1>4, <1>5, <1>6, <1>7, <1>8, <1>9, <1>10, <1>11 DEF Next

\* Only two steps of an attempt lead to a point where its revision must be
\* there, and each of them has just seen to it.
LEMMA PublicationPreserved ==
    TypeOK /\ OpenTargets /\ PublishedAreKept /\ RecordedAreKept /\ [Next]_vars
        => OpenTargets' /\ PublishedAreKept' /\ RecordedAreKept'
<1> SUFFICES ASSUME TypeOK, OpenTargets, PublishedAreKept, RecordedAreKept, [Next]_vars
             PROVE  OpenTargets' /\ PublishedAreKept' /\ RecordedAreKept'
  OBVIOUS
<1>0. /\ \A d \in Deployments : PinnedRow(d) => PinnedRow(d)'
      /\ \A d \in Deployments : Kept(d) => Kept(d)'
      /\ \A a \in Attempts : Uses[a] \in Deployments
  BY RowStays, MapsAssumption DEF PinnedRow, Kept
\* A step that leaves an attempt where it was, or takes it elsewhere.
<1>1. ASSUME NEW a \in Attempts,
             \/ pc'[a] = pc[a] /\ target'[a] = target[a]
             \/ pc'[a] \notin {"activating", "compensating", "persist", "settle", "commit"}
      PROVE  /\ pc'[a] = "activating" => target'[a] = Revision(a)
             /\ pc'[a] = "compensating" => target'[a] \in Revisions
             /\ pc'[a] = "persist" => PinnedRow(Uses[a])'
             /\ pc'[a] \in {"settle", "commit"} => Kept(Uses[a])'
  BY <1>0, <1>1 DEF OpenTargets, PublishedAreKept
<1> DEFINE Fine(a) == /\ pc'[a] = "activating" => target'[a] = Revision(a)
                      /\ pc'[a] = "compensating" => target'[a] \in Revisions
                      /\ pc'[a] = "persist" => PinnedRow(Uses[a])'
                      /\ pc'[a] \in {"settle", "commit"} => Kept(Uses[a])'
<1>2. ASSUME NEW a \in Attempts, DeployStep(a) PROVE Fine(a)
  <2> USE DEF Go, TypeOK, Callers
  <2>1. CASE ActivateOpen(a) \/ CompensateOpen(a)
    BY <2>1 DEF ActivateOpen, CompensateOpen, OpenTransaction, Revision
  <2>2. CASE ActivateCommit(a)
    <3>1. target[a] = Content[Uses[a]] /\ Content[Uses[a]] \in Revisions
      BY <2>2, MapsAssumption DEF ActivateCommit, OpenTargets, Revision
    <3>2. <<Uses[a], Content[Uses[a]]>> \in pins'
      BY <2>2, <3>1 DEF ActivateCommit, Pinned
    <3>3. status'[Content[Uses[a]]] = "active"
      BY <2>2, <3>1 DEF ActivateCommit, CommitTransaction
    <3> QED
      BY <2>2, <3>2, <3>3 DEF ActivateCommit, PinnedRow
  <2>3. CASE Persist(a)
    <3>1. Kept(Uses[a])
      BY <2>3 DEF Persist, PublishedAreKept, Kept, PinnedRow, Revision
    <3> QED
      BY <1>0, <2>3, <3>1 DEF Persist
  <2>4. CASE ReleaseLease(a)
    <3>1. pc[a] = "settle" => Kept(Uses[a])
      BY DEF PublishedAreKept
    <3> QED
      BY <1>0, <2>4, <3>1 DEF ReleaseLease
  <2>5. CASE AcquireLease(a) \/ ReadPrevious(a) \/ Stage(a) \/ StageText(a) \/ PublishFails(a)
    BY <1>1, <2>5 DEF AcquireLease, ReadPrevious, Stage, StageText, PublishFails
  <2>6. CASE \/ ActivateFails(a) \/ PersistFails(a) \/ CompensateCommit(a)
             \/ NothingToRestore(a) \/ CompensateFails(a)
    BY <1>1, <2>6
    DEF ActivateFails, PersistFails, CompensateCommit, NothingToRestore, CompensateFails
  <2>7. CASE ReleaseFails(a) \/ Commit(a) \/ CommitFails(a) \/ RunRefused(a) \/ Abort(a)
    BY <1>1, <2>7 DEF ReleaseFails, Commit, CommitFails, RunRefused, Abort
  <2> QED
    BY <1>2, <2>1, <2>2, <2>3, <2>4, <2>5, <2>6, <2>7 DEF DeployStep
\* A step of one caller leaves every other one where it was.
<1>3. ASSUME NEW p \in Callers, NEW a \in Attempts \ {p},
             \/ p \in Attempts /\ DeployStep(p)
             \/ p \in Attempts /\ (Begin(p) \/ Replay(p) \/ LeaseFails(p) \/ Disconnect(p))
             \/ p \in Rollbacks /\ (RollbackCommit(p) \/ RollbackStep(p))
             \/ LockTimesOut(p) \/ Crash(p)
      PROVE  pc'[a] = pc[a] /\ target'[a] = target[a]
  <2> USE <1>3 DEF TypeOK, Callers, Go, local
  <2>1. CASE p \in Attempts /\ DeployStep(p)
    BY <2>1 DEF DeployStep, AcquireLease, ReadPrevious, Stage, StageText, PublishFails,
       ActivateOpen, ActivateCommit, ActivateFails, Persist, PersistFails, CompensateOpen,
       CompensateCommit, NothingToRestore, CompensateFails, ReleaseLease, ReleaseFails,
       Commit, CommitFails, RunRefused, Abort, OpenTransaction, CloseTransaction
  <2>2. CASE p \in Attempts /\ (Begin(p) \/ Replay(p) \/ LeaseFails(p) \/ Disconnect(p))
    BY <2>2 DEF Begin, Replay, LeaseFails, Disconnect
  <2>3. CASE p \in Rollbacks /\ (RollbackCommit(p) \/ RollbackStep(p))
    BY <2>3 DEF RollbackCommit, RollbackStep, PairOpen, PairCommit, PairFails,
       OpenTransaction, CloseTransaction
  <2>4. CASE LockTimesOut(p) \/ Crash(p)
    BY <2>4 DEF LockTimesOut, Crash, CloseTransaction
  <2> QED
    BY <1>3, <2>1, <2>2, <2>3, <2>4
<1>4. ASSUME NEW a \in Attempts PROVE Fine(a)
  <2> USE DEF TypeOK, Callers, Go, local
  <2>1. CASE \E p \in Attempts : DeployStep(p)
    BY <1>1, <1>2, <1>3, <2>1
  <2>2. CASE \E p \in Attempts : Begin(p) \/ Replay(p) \/ LeaseFails(p) \/ Disconnect(p)
    <3>1. PICK p \in Attempts : Begin(p) \/ Replay(p) \/ LeaseFails(p) \/ Disconnect(p)
      BY <2>2
    <3>2. CASE p = a
      BY <1>1, <3>1, <3>2 DEF Begin, Replay, LeaseFails, Disconnect
    <3> QED
      BY <1>1, <1>3, <3>1, <3>2
  <2>3. CASE \E b \in Rollbacks : RollbackCommit(b) \/ RollbackStep(b)
    BY <1>1, <1>3, <2>3, CallersAssumption
  <2>4. CASE \E p \in Callers : LockTimesOut(p) \/ Crash(p)
    <3>1. PICK p \in Callers : LockTimesOut(p) \/ Crash(p)
      BY <2>4
    <3>2. CASE p = a
      BY <1>1, <3>1, <3>2 DEF LockTimesOut, Crash
    <3> QED
      BY <1>1, <1>3, <3>1, <3>2
  <2>5. CASE CollectGarbage \/ Expire \/ UNCHANGED vars
    BY <1>1, <2>5 DEF CollectGarbage, Expire, vars
  <2> QED
    BY <2>1, <2>2, <2>3, <2>4, <2>5 DEF Next
<1>5. RecordedAreKept'
  <2>1. CASE records' = records
    BY <1>0, <2>1 DEF RecordedAreKept, TypeOK
  <2>2. ASSUME NEW a \in Attempts, Commit(a) PROVE RecordedAreKept'
    <3>1. Kept(Uses[a])
      BY <2>2 DEF Commit, Go, PublishedAreKept
    <3> QED
      BY <1>0, <2>2, <3>1 DEF Commit, RecordedAreKept, TypeOK
  <2>3. ASSUME NEW a \in Attempts, DeployStep(a) PROVE Commit(a) \/ records' = records
    BY <2>3 DEF deploys, DeployStep, AcquireLease, ReadPrevious, Stage, StageText, PublishFails,
       ActivateOpen, ActivateCommit, ActivateFails, Persist, PersistFails, CompensateOpen,
       CompensateCommit, NothingToRestore, CompensateFails, ReleaseLease, ReleaseFails,
       CommitFails, RunRefused, Abort
  <2>4. ASSUME NEW a \in Attempts, Begin(a) \/ Replay(a) \/ LeaseFails(a) \/ Disconnect(a)
        PROVE  records' = records
    BY <2>4 DEF deploys, Begin, Replay, LeaseFails, Disconnect
  <2>5. ASSUME NEW b \in Rollbacks, RollbackCommit(b) \/ RollbackStep(b)
        PROVE  records' = records
    BY <2>5 DEF deploys, RollbackCommit, RollbackStep, PairOpen, PairCommit, PairFails
  <2>6. ASSUME NEW p \in Callers, LockTimesOut(p) \/ Crash(p) PROVE records' = records
    BY <2>6 DEF deploys, LockTimesOut, Crash
  <2>7. CASE CollectGarbage \/ Expire \/ UNCHANGED vars
    BY <2>1, <2>7 DEF deploys, CollectGarbage, Expire, vars
  <2> QED
    BY <2>1, <2>2, <2>3, <2>4, <2>5, <2>6, <2>7 DEF Next
<1> QED
  BY <1>4, <1>5 DEF OpenTargets, PublishedAreKept, Revision

-----------------------------------------------------------------------------
LEMMA InitInv == Init => Inv
<1> SUFFICES ASSUME Init PROVE Inv
  OBVIOUS
<1> USE IdsAssumption, MapsAssumption DEF Init
<1>1. TypeOK
  BY DEF TypeOK, Points
<1>2. OpenTargets /\ PublishedAreKept
  BY DEF OpenTargets, PublishedAreKept, Callers
<1>3. RecordedAreKept
  BY DEF RecordedAreKept, Kept
<1> QED
  BY <1>1, <1>2, <1>3 DEF Inv

LEMMA Invariance == Spec => []Inv
<1>1. Inv /\ [Next]_vars => Inv'
  BY TypePreserved, PublicationPreserved DEF Inv
<1> QED
  BY InitInv, <1>1, PTL DEF Spec

\* Every variable of a publication keeps its type (KnowledgePublication).
THEOREM PublicationTypeCorrect == Spec => []TypeOK
<1>1. Inv => TypeOK
  BY DEF Inv
<1> QED
  BY Invariance, <1>1, PTL

\* Every recorded deployment keeps its pinned revision with row and text,
\* whatever fails, crashes or is collected (activate, stageDocuments,
\* collectGarbage): a rollback to it always finds what it was published with.
THEOREM RecordedDeploymentsAreKept == Spec => []RecordedAreKept
<1>1. Inv => RecordedAreKept
  BY DEF Inv
<1> QED
  BY Invariance, <1>1, PTL
=============================================================================
