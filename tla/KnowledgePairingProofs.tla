------------------------ MODULE KnowledgePairingProofs ------------------------
(***************************************************************************)
(* Proofs that artifact and knowledge stay together: which events must not  *)
(* happen for one revision at most to be active, and for the active one to  *)
(* be that of the active deployment.                                        *)
(***************************************************************************)
EXTENDS KnowledgePublicationProofs, FiniteSetTheorems

\* Callers stay in their own part of the program.
Roles ==
    /\ \A a \in Attempts : pc[a] \in DeployPoints \cup Done \cup {"idle"}
    /\ \A b \in Rollbacks : pc[b] \in RollbackPoints \cup Done \cup {"idle"}

AtWork(p) == pc[p] \in DeployPoints \cup RollbackPoints

\* No rollback has paired beside another caller, no deploy has lost its lock.
Serialized == excused \cap {"overlap", "disconnect"} = {}

\* The advisory lock and the order of events leave one caller at work.
OneAtWork ==
    Serialized =>
        /\ \A p, q \in Callers : AtWork(p) /\ AtWork(q) => p = q
        /\ \A a \in Attempts : AtWork(a) => orgLock = a

\* An open transaction is going to retire whatever is active.
OneActive ==
    Serialized =>
        /\ \A r, s \in ActiveRevisions : r = s
        /\ \A p \in Callers :
              pc[p] \in {"activating", "compensating", "pairing"} =>
                  ActiveRevisions \subseteq displaced[p] \cup {target[p]}

SerialInv == Inv /\ Roles /\ OneAtWork /\ OneActive

\* Points at which a caller's knowledge may differ from the active deployment's.
Parted == {"persist", "settle", "commit", "compensate", "compensating", "pair", "pairing"}

\* Points at which an attempt knows what to go back to.
Planned == {"stage", "text", "activate", "activating", "persist", "compensate",
            "compensating"}

\* What is active at each point of an undisturbed deploy or rollback.
Paired ==
    excused = {} =>
        /\ \A a \in Attempts :
              /\ pc[a] \in {"persist", "settle", "commit"} => ActiveRevisions = {Revision(a)}
              /\ pc[a] \in Planned /\ artifact # None => previous[a] = Content[artifact]
              /\ pc[a] = "compensating" => target[a] = previous[a]
        /\ \A b \in Rollbacks :
              /\ pc[b] \in RollbackPoints => aim[b] = artifact
              /\ pc[b] = "pairing" => target[b] = Content[aim[b]]
        /\ (\A p \in Callers : pc[p] \notin Parted) /\ artifact # None
              => ActiveRevisions = {Content[artifact]}

-----------------------------------------------------------------------------
(* Steps of callers *)

CallerStep(p) ==
    \/ p \in Attempts /\ (Begin(p) \/ Replay(p) \/ LeaseFails(p) \/ DeployStep(p) \/ Disconnect(p))
    \/ p \in Rollbacks /\ (RollbackCommit(p) \/ RollbackStep(p))
    \/ LockTimesOut(p) \/ Crash(p)

LEMMA StepsAreCallers ==
    ASSUME [Next]_vars
    PROVE  (\E p \in Callers : CallerStep(p)) \/ CollectGarbage \/ Expire \/ UNCHANGED vars
BY DEF Next, CallerStep, Callers

\* Events are not forgotten.
LEMMA ExcusesGrow == ASSUME [Next]_vars PROVE excused \subseteq excused'
<1>1. ASSUME NEW a \in Attempts, DeployStep(a) PROVE excused \subseteq excused'
  BY <1>1
  DEF DeployStep, AcquireLease, ReadPrevious, Stage, StageText, PublishFails, ActivateOpen,
      ActivateCommit, ActivateFails, Persist, PersistFails, CompensateOpen, CompensateCommit,
      NothingToRestore, CompensateFails, ReleaseLease, ReleaseFails, Commit, CommitFails,
      RunRefused, Abort, Excuse
<1>2. ASSUME NEW b \in Rollbacks, RollbackCommit(b) \/ RollbackStep(b)
      PROVE  excused \subseteq excused'
  BY <1>2 DEF RollbackStep, RollbackCommit, PairOpen, PairCommit, PairFails, Excuse, Overtakes
<1>3. ASSUME NEW a \in Attempts, Begin(a) \/ Replay(a) \/ LeaseFails(a) \/ Disconnect(a)
      PROVE  excused \subseteq excused'
  BY <1>3 DEF Begin, Replay, LeaseFails, Disconnect, Excuse, Overtakes
<1>4. ASSUME NEW p \in Callers, LockTimesOut(p) \/ Crash(p) PROVE excused \subseteq excused'
  BY <1>4 DEF LockTimesOut, Crash, Excuse
<1>5. CASE CollectGarbage \/ Expire \/ UNCHANGED vars
  BY <1>5 DEF CollectGarbage, Expire, vars
<1> QED
  BY <1>1, <1>2, <1>3, <1>4, <1>5 DEF Next

\* A step of one caller leaves the others where they were.
LEMMA OthersStay ==
    ASSUME TypeOK, NEW p \in Callers, CallerStep(p), NEW q \in Callers \ {p}
    PROVE  /\ pc'[q] = pc[q] /\ target'[q] = target[q] /\ displaced'[q] = displaced[q]
           /\ q \in Attempts => previous'[q] = previous[q]
           /\ q \in Rollbacks => aim'[q] = aim[q]
<1> USE DEF TypeOK, Callers, Go, local
<1>1. CASE p \in Attempts /\ DeployStep(p)
  BY <1>1
  DEF DeployStep, AcquireLease, ReadPrevious, Stage, StageText, PublishFails, ActivateOpen,
      ActivateCommit, ActivateFails, Persist, PersistFails, CompensateOpen, CompensateCommit,
      NothingToRestore, CompensateFails, ReleaseLease, ReleaseFails, Commit, CommitFails,
      RunRefused, Abort, OpenTransaction, CloseTransaction
<1>2. CASE p \in Attempts /\ (Begin(p) \/ Replay(p) \/ LeaseFails(p) \/ Disconnect(p))
  BY <1>2 DEF Begin, Replay, LeaseFails, Disconnect
<1>3. CASE p \in Rollbacks /\ (RollbackCommit(p) \/ RollbackStep(p))
  BY <1>3
  DEF RollbackCommit, RollbackStep, PairOpen, PairCommit, PairFails, OpenTransaction,
      CloseTransaction
<1>4. CASE LockTimesOut(p) \/ Crash(p)
  BY <1>4 DEF LockTimesOut, Crash, CloseTransaction
<1> QED
  BY <1>1, <1>2, <1>3, <1>4 DEF CallerStep

\* Only a commit of the revision store changes which revisions are active: the
\* sweep takes none of them, and staging adds none.
LEMMA ActiveChanges ==
    ASSUME TypeOK, [Next]_vars,
           \A a \in Attempts : ~ActivateCommit(a) /\ ~CompensateCommit(a),
           \A b \in Rollbacks : ~PairCommit(b)
    PROVE  ActiveRevisions' = ActiveRevisions
<1> USE DEF ActiveRevisions, TypeOK, store
<1>1. CASE UNCHANGED status
  BY <1>1
<1>2. ASSUME NEW a \in Attempts, Stage(a) PROVE ActiveRevisions' = ActiveRevisions
  BY <1>2 DEF Stage, Staged
<1>3. CASE CollectGarbage
  BY <1>3 DEF CollectGarbage, Garbage
<1>4. ASSUME NEW a \in Attempts, DeployStep(a) PROVE Stage(a) \/ UNCHANGED status
  BY <1>4
  DEF DeployStep, AcquireLease, ReadPrevious, StageText, PublishFails, ActivateOpen,
      ActivateFails, Persist, PersistFails, CompensateOpen, NothingToRestore,
      CompensateFails, ReleaseLease, ReleaseFails, Commit, CommitFails, RunRefused, Abort
<1>5. ASSUME NEW b \in Rollbacks, RollbackCommit(b) \/ RollbackStep(b)
      PROVE  UNCHANGED status
  BY <1>5 DEF RollbackStep, RollbackCommit, PairOpen, PairFails
<1>6. ASSUME NEW a \in Attempts, Begin(a) \/ Replay(a) \/ LeaseFails(a) \/ Disconnect(a)
      PROVE  UNCHANGED status
  BY <1>6 DEF Begin, Replay, LeaseFails, Disconnect
<1>7. ASSUME NEW p \in Callers, LockTimesOut(p) \/ Crash(p) PROVE UNCHANGED status
  BY <1>7 DEF LockTimesOut, Crash
<1>8. CASE Expire \/ UNCHANGED vars
  BY <1>1, <1>8 DEF Expire, vars
<1> QED
  BY <1>1, <1>2, <1>3, <1>4, <1>5, <1>6, <1>7, <1>8 DEF Next

\* A transaction that retires all there is leaves its target alone active.
LEMMA ActivationIsExclusive ==
    ASSUME TypeOK, NEW p \in Callers, CommitTransaction(p),
           ActiveRevisions \subseteq displaced[p] \cup {target[p]}
    PROVE  /\ ActiveRevisions' \subseteq {target[p]}
           /\ target[p] \in Revisions => ActiveRevisions' = {target[p]}
BY DEF TypeOK, CommitTransaction, ActiveRevisions

-----------------------------------------------------------------------------
(* One caller at work *)

LEMMA RolesPreserved == TypeOK /\ Roles /\ [Next]_vars => Roles'
<1> SUFFICES ASSUME TypeOK, Roles, [Next]_vars PROVE Roles'
  OBVIOUS
<1> USE CallersAssumption DEF TypeOK, Callers, Go, DeployPoints, RollbackPoints, Done
<1>1. ASSUME NEW p \in Callers, CallerStep(p)
      PROVE  /\ p \in Attempts => pc'[p] \in DeployPoints \cup Done \cup {"idle"}
             /\ p \in Rollbacks => pc'[p] \in RollbackPoints \cup Done \cup {"idle"}
  <2> USE DEF Roles
  <2>1. CASE p \in Attempts /\ DeployStep(p)
    BY <2>1
    DEF DeployStep, AcquireLease, ReadPrevious, Stage, StageText, PublishFails, ActivateOpen,
        ActivateCommit, ActivateFails, Persist, PersistFails, CompensateOpen,
        CompensateCommit, NothingToRestore, CompensateFails, ReleaseLease, ReleaseFails,
        Commit, CommitFails, RunRefused, Abort
  <2>2. CASE p \in Attempts /\ (Begin(p) \/ Replay(p) \/ LeaseFails(p) \/ Disconnect(p))
    BY <2>2 DEF Begin, Replay, LeaseFails, Disconnect
  <2>3. CASE p \in Rollbacks /\ (RollbackCommit(p) \/ RollbackStep(p))
    BY <2>3 DEF RollbackCommit, RollbackStep, PairOpen, PairCommit, PairFails
  <2>4. CASE LockTimesOut(p) \/ Crash(p)
    BY <2>4 DEF LockTimesOut, Crash
  <2> QED
    BY <1>1, <2>1, <2>2, <2>3, <2>4 DEF CallerStep
<1>2. ASSUME NEW p \in Callers, CallerStep(p) PROVE Roles'
  BY <1>1, <1>2, OthersStay DEF Roles
<1>3. CASE CollectGarbage \/ Expire \/ UNCHANGED vars
  BY <1>3 DEF CollectGarbage, Expire, vars, Roles
<1> QED
  BY <1>2, <1>3, StepsAreCallers

\* Nobody is at work when a deploy or a rollback gets going: the lock keeps it
\* from beginning beside a deploy, and a rollback that is pairing would count
\* as an overlap.
LEMMA BeginsAlone ==
    ASSUME TypeOK, Roles, OneAtWork, Serialized, NEW p \in Callers,
           \/ p \in Attempts /\ Begin(p)
           \/ p \in Rollbacks /\ RollbackCommit(p),
           Serialized'
    PROVE  \A q \in Callers : ~AtWork(q)
<1>1. orgLock = None /\ Pairing = {}
  BY DEF Begin, RollbackCommit, Overtakes, Serialized
<1>2. \A a \in Attempts : ~AtWork(a)
  BY <1>1, CallersAssumption DEF OneAtWork, Callers
<1>3. \A b \in Rollbacks : ~AtWork(b)
  BY <1>1 DEF Pairing, AtWork, Roles, DeployPoints, RollbackPoints, Done
<1> QED
  BY <1>2, <1>3 DEF Callers

LEMMA OneAtWorkPreserved ==
    TypeOK /\ Roles /\ OneAtWork /\ [Next]_vars => OneAtWork'
<1> SUFFICES ASSUME TypeOK, Roles, OneAtWork, [Next]_vars, Serialized'
             PROVE  /\ \A p, q \in Callers : AtWork(p)' /\ AtWork(q)' => p = q
                    /\ \A a \in Attempts : AtWork(a)' => orgLock' = a
  BY DEF OneAtWork
<1>0. Serialized
  BY ExcusesGrow DEF Serialized
<1> USE CallersAssumption DEF TypeOK, Callers, Go
<1>1. ASSUME NEW p \in Callers,
             \/ p \in Attempts /\ Begin(p)
             \/ p \in Rollbacks /\ RollbackCommit(p)
      PROVE  /\ \A q, r \in Callers : AtWork(q)' /\ AtWork(r)' => q = r
             /\ \A a \in Attempts : AtWork(a)' => orgLock' = a
  <2>1. \A q \in Callers \ {p} : ~AtWork(q)'
    BY <1>0, <1>1, BeginsAlone, OthersStay DEF AtWork, CallerStep
  <2>2. p \in Attempts => orgLock' = p
    BY <1>1 DEF Begin
  <2> QED
    BY <2>1, <2>2
\* Every other step takes place at work or leads nobody there.
<1>2. ASSUME NEW p \in Callers, CallerStep(p),
             ~(p \in Attempts /\ Begin(p)), ~(p \in Rollbacks /\ RollbackCommit(p))
      PROVE  AtWork(p)' => AtWork(p) /\ orgLock' = orgLock
  <2> USE DEF AtWork, DeployPoints, RollbackPoints, Done
  <2>1. CASE p \in Attempts /\ DeployStep(p)
    BY <2>1
    DEF DeployStep, AcquireLease, ReadPrevious, Stage, StageText, PublishFails, ActivateOpen,
        ActivateCommit, ActivateFails, Persist, PersistFails, CompensateOpen,
        CompensateCommit, NothingToRestore, CompensateFails, ReleaseLease, ReleaseFails,
        Commit, CommitFails, RunRefused, Abort
  <2>2. CASE p \in Attempts /\ (Replay(p) \/ LeaseFails(p))
    BY <2>2 DEF Replay, LeaseFails
  <2>3. CASE p \in Attempts /\ Disconnect(p)
    BY <2>3 DEF Disconnect, Excuse, Serialized
  <2>4. CASE p \in Rollbacks /\ RollbackStep(p)
    BY <2>4 DEF RollbackStep, PairOpen, PairCommit, PairFails
  <2>5. CASE LockTimesOut(p) \/ Crash(p)
    BY <2>5 DEF LockTimesOut, Crash
  <2> QED
    BY <1>2, <2>1, <2>2, <2>3, <2>4, <2>5 DEF CallerStep
<1>3. ASSUME NEW p \in Callers, CallerStep(p), NEW a \in Attempts \ {p}, orgLock = a
      PROVE  orgLock' = a
  <2>1. CASE p \in Attempts /\ DeployStep(p)
    BY <1>3, <2>1
    DEF DeployStep, AcquireLease, ReadPrevious, Stage, StageText, PublishFails, ActivateOpen,
        ActivateCommit, ActivateFails, Persist, PersistFails, CompensateOpen,
        CompensateCommit, NothingToRestore, CompensateFails, ReleaseLease, ReleaseFails,
        Commit, CommitFails, RunRefused, Abort, LetGo
  <2>2. CASE p \in Attempts /\ (Begin(p) \/ Replay(p) \/ LeaseFails(p) \/ Disconnect(p))
    BY <1>3, <2>2 DEF Begin, Replay, LeaseFails, Disconnect
  <2>3. CASE p \in Rollbacks /\ (RollbackCommit(p) \/ RollbackStep(p))
    BY <1>3, <2>3 DEF RollbackCommit, RollbackStep, PairOpen, PairCommit, PairFails
  <2>4. CASE LockTimesOut(p) \/ Crash(p)
    BY <1>3, <2>4 DEF LockTimesOut, Crash, LetGo
  <2> QED
    BY <1>3, <2>1, <2>2, <2>3, <2>4 DEF CallerStep
<1>4. ASSUME NEW p \in Callers, CallerStep(p),
             ~(p \in Attempts /\ Begin(p)), ~(p \in Rollbacks /\ RollbackCommit(p))
      PROVE  /\ \A q, r \in Callers : AtWork(q)' /\ AtWork(r)' => q = r
             /\ \A a \in Attempts : AtWork(a)' => orgLock' = a
  <2>1. \A q \in Callers : AtWork(q)' => AtWork(q)
    BY <1>2, <1>4, OthersStay DEF AtWork
  <2>2. \A a \in Attempts : AtWork(a)' => orgLock' = a
    BY <1>0, <1>2, <1>3, <1>4, <2>1 DEF OneAtWork
  <2> QED
    BY <1>0, <2>1, <2>2 DEF OneAtWork
<1>5. CASE CollectGarbage \/ Expire \/ UNCHANGED vars
  BY <1>0, <1>5 DEF CollectGarbage, Expire, vars, AtWork, OneAtWork
<1> QED
  BY <1>1, <1>4, <1>5, StepsAreCallers
-----------------------------------------------------------------------------
(* One active revision *)

\* The three commits of the revision store, by whoever is at work.
CommitStep(p) ==
    \/ p \in Attempts /\ (ActivateCommit(p) \/ CompensateCommit(p))
    \/ p \in Rollbacks /\ PairCommit(p)

LEMMA OneActivePreserved ==
    TypeOK /\ OneAtWork /\ OneAtWork' /\ OneActive /\ [Next]_vars => OneActive'
<1> SUFFICES ASSUME TypeOK, OneAtWork, OneAtWork', OneActive, [Next]_vars, Serialized'
             PROVE  /\ \A r, s \in ActiveRevisions' : r = s
                    /\ \A p \in Callers :
                          pc'[p] \in {"activating", "compensating", "pairing"} =>
                              ActiveRevisions' \subseteq displaced'[p] \cup {target'[p]}
  BY DEF OneActive
<1>0. Serialized
  BY ExcusesGrow DEF Serialized
<1> USE CallersAssumption DEF TypeOK, Callers, Go
<1>1. ASSUME NEW p \in Callers, CommitStep(p)
      PROVE  /\ \A r, s \in ActiveRevisions' : r = s
             /\ \A q \in Callers : pc'[q] \notin {"activating", "compensating", "pairing"}
  <2>1. /\ pc[p] \in {"activating", "compensating", "pairing"}
        /\ pc' = [pc EXCEPT ![p] = IF pc[p] = "activating" THEN "persist"
                                   ELSE IF pc[p] = "compensating" THEN "unwind"
                                   ELSE "rolledback"]
        /\ CommitTransaction(p)
    BY <1>1 DEF CommitStep, ActivateCommit, CompensateCommit, PairCommit
  <2>2. ActiveRevisions' \subseteq {target[p]}
    BY <1>0, <2>1, ActivationIsExclusive DEF OneActive
  <2>3. \A q \in Callers \ {p} : pc[q] \notin {"activating", "compensating", "pairing"}
    BY <1>0, <2>1 DEF OneAtWork, AtWork, DeployPoints, RollbackPoints
  <2> QED
    BY <2>1, <2>2, <2>3
<1>2. ASSUME \A p \in Callers : ~CommitStep(p)
      PROVE  ActiveRevisions' = ActiveRevisions
  BY <1>2, ActiveChanges DEF CommitStep
<1>3. ASSUME NEW p \in Callers, CallerStep(p), ~CommitStep(p),
             pc'[p] \in {"activating", "compensating", "pairing"}
      PROVE  ActiveRevisions \subseteq displaced'[p] \cup {target'[p]}
  <2>1. CASE p \in Attempts /\ (ActivateOpen(p) \/ CompensateOpen(p))
    BY <2>1 DEF ActivateOpen, CompensateOpen, OpenTransaction
  <2>2. CASE p \in Rollbacks /\ PairOpen(p)
    BY <2>2 DEF PairOpen, OpenTransaction
  <2>3. CASE p \in Attempts /\ DeployStep(p) /\ ~ActivateOpen(p) /\ ~CompensateOpen(p)
    BY <1>3, <2>3
    DEF DeployStep, CommitStep, AcquireLease, ReadPrevious, Stage, StageText, PublishFails,
        ActivateFails, Persist, PersistFails, NothingToRestore, CompensateFails,
        ReleaseLease, ReleaseFails, Commit, CommitFails, RunRefused, Abort
  <2>4. CASE p \in Attempts /\ (Begin(p) \/ Replay(p) \/ LeaseFails(p))
    BY <1>3, <2>4 DEF Begin, Replay, LeaseFails
  <2>5. CASE p \in Attempts /\ Disconnect(p)
    BY <2>5 DEF Disconnect, Excuse, Serialized
  <2>6. CASE p \in Rollbacks /\ (RollbackCommit(p) \/ PairFails(p))
    BY <1>3, <2>6 DEF RollbackCommit, PairFails
  <2>7. CASE LockTimesOut(p) \/ Crash(p)
    BY <1>3, <2>7 DEF LockTimesOut, Crash
  <2> QED
    BY <1>3, <2>1, <2>2, <2>3, <2>4, <2>5, <2>6, <2>7
    DEF CallerStep, CommitStep, RollbackStep
<1>4. CASE CollectGarbage \/ Expire \/ UNCHANGED vars
  <2>1. UNCHANGED <<pc, target, displaced>>
    BY <1>4 DEF CollectGarbage, Expire, vars, local
  <2>2. \A p \in Callers : ~CommitStep(p)
    BY <2>1 DEF CommitStep, ActivateCommit, CompensateCommit, PairCommit
  <2> QED
    BY <1>0, <1>2, <2>1, <2>2 DEF OneActive
<1>5. ASSUME NEW p \in Callers, CallerStep(p), \A q \in Callers : ~CommitStep(q)
      PROVE  /\ \A r, s \in ActiveRevisions' : r = s
             /\ \A q \in Callers :
                   pc'[q] \in {"activating", "compensating", "pairing"} =>
                       ActiveRevisions' \subseteq displaced'[q] \cup {target'[q]}
  <2>1. ActiveRevisions' = ActiveRevisions
    BY <1>2, <1>5
  <2>2. ASSUME NEW q \in Callers, pc'[q] \in {"activating", "compensating", "pairing"}
        PROVE  ActiveRevisions \subseteq displaced'[q] \cup {target'[q]}
    <3>1. CASE q = p
      BY <1>3, <1>5, <2>2, <3>1
    <3>2. CASE q # p
      BY <1>0, <1>5, <2>2, <3>2, OthersStay DEF OneActive
    <3> QED
      BY <3>1, <3>2
  <2> QED
    BY <1>0, <2>1, <2>2 DEF OneActive
<1> QED
  BY <1>1, <1>4, <1>5, StepsAreCallers

LEMMA SerialAlways == Spec => []SerialInv
<1>1. Init => Roles /\ OneAtWork
  BY DEF Init, Roles, OneAtWork, AtWork, Callers, DeployPoints, RollbackPoints
<1>2. Init => OneActive
  BY DEF Init, OneActive, ActiveRevisions, Callers
<1>3. SerialInv /\ [Next]_vars => SerialInv'
  <2> SUFFICES ASSUME SerialInv, [Next]_vars PROVE SerialInv'
    OBVIOUS
  <2>1. Inv'
    BY TypePreserved, PublicationPreserved DEF SerialInv, Inv
  <2>2. Roles' /\ OneAtWork'
    BY RolesPreserved, OneAtWorkPreserved DEF SerialInv, Inv
  <2> QED
    BY <2>1, <2>2, OneActivePreserved DEF SerialInv, Inv
<1> QED
  BY <1>1, <1>2, <1>3, InitInv, PTL DEF Spec, SerialInv

\* Two revisions of a component are active only after a rollback has paired
\* beside another caller, or a deploy has lost the connection that held its
\* lock; no other failure leaves two (activate and rollback of
\* knowledge/src/postgres-revision-store.ts retire what they found active).
THEOREM OneRevisionIsActive == Spec => []OneActiveRevision
<1>1. ASSUME SerialInv PROVE OneActiveRevision
  <2> SUFFICES ASSUME Serialized PROVE Cardinality(ActiveRevisions) <= 1
    BY DEF OneActiveRevision, Serialized
  <2>1. CASE ActiveRevisions = {}
    BY <2>1, FS_EmptySet
  <2>2. CASE ActiveRevisions # {}
    <3>1. PICK r : r \in ActiveRevisions
      BY <2>2
    <3>2. \A s \in ActiveRevisions : s = r
      BY <1>1, <3>1 DEF SerialInv, OneActive
    <3>3. ActiveRevisions = {r}
      BY <3>1, <3>2
    <3>4. Cardinality({r}) = 1
      BY FS_Singleton
    <3> QED
      BY <3>3, <3>4
  <2> QED
    BY <2>1, <2>2
<1> QED
  BY <1>1, SerialAlways, PTL

-----------------------------------------------------------------------------
(* The pair is retained *)

\* With nothing excused, what one caller's step does to its own plan and to what
\* is active.
OwnPair(p) ==
    /\ p \in Attempts =>
          /\ pc[p] \in {"persist", "settle", "commit"} => ActiveRevisions = {Revision(p)}
          /\ pc[p] \in Planned /\ artifact # None => previous[p] = Content[artifact]
          /\ pc[p] = "compensating" => target[p] = previous[p]
    /\ p \in Rollbacks =>
          /\ pc[p] \in RollbackPoints => aim[p] = artifact
          /\ pc[p] = "pairing" => target[p] = Content[aim[p]]
    /\ pc[p] \notin Parted /\ artifact # None => ActiveRevisions = {Content[artifact]}

\* While one caller is at work the pair is a matter of that caller alone.
LEMMA PairHasOwner ==
    ASSUME Paired, excused = {}, NEW p \in Callers, \A q \in Callers \ {p} : ~AtWork(q)
    PROVE  OwnPair(p)
<1>1. \A q \in Callers \ {p} : pc[q] \notin Parted
  BY DEF AtWork, DeployPoints, RollbackPoints, Parted
<1> QED
  BY <1>1 DEF Paired, OwnPair

\* Each step of the caller at work takes the pair from one point to the next.
LEMMA DeployKeepsPair ==
    ASSUME SerialInv, NEW p \in Attempts, OwnPair(p), DeployStep(p), [Next]_vars,
           excused = {}, excused' = {}
    PROVE  OwnPair(p)'
<1> USE CallersAssumption, MapsAssumption, IdsAssumption
    DEF SerialInv, Inv, TypeOK, Callers, Go, OwnPair, local, deploys, store, Revision
<1>0. p \in Callers /\ p \notin Rollbacks /\ Serialized
  BY DEF Serialized
<1>1. CASE ActivateCommit(p)
  <2>1. target[p] = Revision(p) /\ Revision(p) \in Revisions
    BY <1>1 DEF ActivateCommit, OpenTargets
  <2>2. ActiveRevisions' = {Revision(p)}
    BY <1>0, <1>1, <2>1, ActivationIsExclusive DEF ActivateCommit, OneActive
  <2> QED
    BY <1>0, <1>1, <2>2 DEF ActivateCommit, Parted, Planned
<1>2. CASE CompensateCommit(p)
  <2>1. target[p] \in Revisions /\ target[p] = previous[p]
    BY <1>2 DEF CompensateCommit, OpenTargets
  <2>2. ActiveRevisions' = {previous[p]}
    BY <1>0, <1>2, <2>1, ActivationIsExclusive DEF CompensateCommit, OneActive
  <2> QED
    BY <1>0, <1>2, <2>2 DEF CompensateCommit, Parted, Planned
<1>3. ASSUME ~ActivateCommit(p), ~CompensateCommit(p)
      PROVE  ActiveRevisions' = ActiveRevisions
  <2>1. \A a \in Attempts : ~ActivateCommit(a) /\ ~CompensateCommit(a)
    <3> SUFFICES ASSUME NEW a \in Attempts, ActivateCommit(a) \/ CompensateCommit(a)
                 PROVE  FALSE
      OBVIOUS
    <3>1. a # p /\ pc'[a] # pc[a]
      BY <1>3 DEF ActivateCommit, CompensateCommit
    <3> QED
      BY <1>0, <3>1, OthersStay DEF CallerStep
  <2>2. \A b \in Rollbacks : ~PairCommit(b)
    <3> SUFFICES ASSUME NEW b \in Rollbacks, PairCommit(b) PROVE FALSE
      OBVIOUS
    <3>1. b # p /\ pc'[b] # pc[b]
      BY DEF PairCommit
    <3> QED
      BY <1>0, <3>1, OthersStay DEF CallerStep
  <2> QED
    BY <2>1, <2>2, ActiveChanges
<1>4. CASE ReadPrevious(p)
  <2>1. artifact # None => ActiveRevisions = {Content[artifact]}
    BY <1>4 DEF ReadPrevious, Parted
  <2> QED
    BY <1>0, <1>3, <1>4, <2>1
    DEF ReadPrevious, Planned, Parted, ActivateCommit, CompensateCommit
<1>5. CASE AcquireLease(p) \/ Stage(p) \/ StageText(p) \/ PublishFails(p)
  BY <1>0, <1>3, <1>5
  DEF AcquireLease, Stage, StageText, PublishFails, Planned, Parted, ActivateCommit,
      CompensateCommit
<1>6. CASE ActivateOpen(p) \/ CompensateOpen(p)
  BY <1>0, <1>3, <1>6
  DEF ActivateOpen, CompensateOpen, OpenTransaction, Planned, Parted, ActivateCommit,
      CompensateCommit
<1>7. CASE ActivateFails(p) \/ Persist(p) \/ PersistFails(p)
  BY <1>0, <1>3, <1>7
  DEF ActivateFails, CloseTransaction, Persist, PersistFails, Planned, Parted,
      ActivateCommit, CompensateCommit
<1>8. CASE NothingToRestore(p)
  BY <1>0, <1>3, <1>8
  DEF NothingToRestore, Planned, Parted, ActivateCommit, CompensateCommit
<1>9. CASE ReleaseLease(p) \/ ReleaseFails(p) \/ Abort(p)
  BY <1>0, <1>3, <1>9
  DEF ReleaseLease, ReleaseFails, Abort, Excuse, Planned, Parted, ActivateCommit,
      CompensateCommit
<1>10. CASE Commit(p)
  BY <1>0, <1>3, <1>10 DEF Commit, Planned, Parted, ActivateCommit, CompensateCommit
<1>11. CASE CompensateFails(p) \/ CommitFails(p) \/ RunRefused(p)
  BY <1>11 DEF CompensateFails, CommitFails, RunRefused, Excuse
<1> QED
  BY <1>1, <1>2, <1>4, <1>5, <1>6, <1>7, <1>8, <1>9, <1>10, <1>11 DEF DeployStep

LEMMA RollbackKeepsPair ==
    ASSUME SerialInv, NEW p \in Rollbacks, OwnPair(p), RollbackStep(p),
           excused = {}, excused' = {}
    PROVE  OwnPair(p)'
<1> USE CallersAssumption, MapsAssumption, IdsAssumption
    DEF SerialInv, Inv, TypeOK, Callers, Go, OwnPair, local, deploys, store, RollbackPoints
<1>0. p \in Callers /\ p \notin Attempts /\ Serialized
  BY DEF Serialized
<1>1. CASE PairOpen(p)
  <2>1. PinnedBy(aim[p]) = {Content[aim[p]]}
    BY <1>1 DEF PairOpen, Excuse
  <2>2. target'[p] = Content[aim[p]]
    BY <1>0, <1>1, <2>1 DEF PairOpen, OpenTransaction
  <2> QED
    BY <1>0, <1>1, <2>2 DEF PairOpen, Parted
<1>2. CASE PairCommit(p)
  <2>1. target[p] = Content[aim[p]] /\ aim[p] = artifact
    BY <1>2 DEF PairCommit
  <2>2. ActiveRevisions' \subseteq {target[p]}
    BY <1>0, <1>2, ActivationIsExclusive DEF PairCommit, OneActive
  <2>3. artifact # None => target[p] \in Revisions
    BY <2>1
  <2>4. artifact # None => ActiveRevisions' = {Content[artifact]}
    BY <1>0, <1>2, <2>1, <2>3, ActivationIsExclusive DEF PairCommit, OneActive
  <2> QED
    BY <1>0, <1>2, <2>4 DEF PairCommit, Parted
<1>3. CASE PairFails(p)
  BY <1>3 DEF PairFails, Excuse
<1> QED
  BY <1>1, <1>2, <1>3 DEF RollbackStep

\* Starting, stopping and the environment: the pair is as it was.
LEMMA EdgesKeepPair ==
    ASSUME SerialInv, SerialInv', Paired, [Next]_vars, excused = {}, excused' = {},
           NEW p \in Callers, CallerStep(p),
           ~(p \in Attempts /\ DeployStep(p)), ~(p \in Rollbacks /\ RollbackStep(p))
    PROVE  Paired'
<1> USE CallersAssumption DEF SerialInv, Inv, TypeOK, Callers, Go, local, deploys
<1>0. Serialized /\ Serialized'
  BY DEF Serialized
<1>1. ActiveRevisions' = ActiveRevisions
  <2>1. UNCHANGED status
    BY DEF CallerStep, Begin, Replay, LeaseFails, Disconnect, RollbackCommit, LockTimesOut,
       Crash, store
  <2> QED
    BY <2>1 DEF ActiveRevisions
<1>2. CASE p \in Rollbacks /\ RollbackCommit(p)
  <2>1. \A q \in Callers : ~AtWork(q)
    BY <1>0, <1>2, BeginsAlone
  <2>2. \A q \in Callers \ {p} : ~AtWork(q)'
    BY <1>2, <2>1, OthersStay DEF AtWork, CallerStep
  <2>3. OwnPair(p)'
    BY <1>2 DEF RollbackCommit, OwnPair, Parted, RollbackPoints
  <2> QED
    BY <1>2, <2>2, <2>3 DEF Paired, OwnPair, AtWork, Parted, Planned, DeployPoints,
                            RollbackPoints
<1>3. CASE ~(p \in Rollbacks /\ RollbackCommit(p))
  <2>1. artifact' = artifact
    BY <1>3 DEF CallerStep, Begin, Replay, LeaseFails, Disconnect, LockTimesOut, Crash
  <2>2. /\ pc'[p] \notin Parted
        /\ p \in Attempts => pc'[p] \notin Planned
    BY <1>3 DEF CallerStep, Begin, Replay, LeaseFails, Disconnect, LockTimesOut, Crash,
                Parted, Planned, Excuse
  <2>3. pc[p] \notin Parted
    BY <1>3 DEF CallerStep, Begin, Replay, LeaseFails, Disconnect, LockTimesOut, Crash,
                Parted, Exposed, Excuse
  <2>4. \A q \in Callers \ {p} : pc'[q] = pc[q] /\ target'[q] = target[q]
    BY OthersStay
  <2>5. previous' = previous /\ aim' = aim
    BY <1>3 DEF CallerStep, Begin, Replay, LeaseFails, Disconnect, LockTimesOut, Crash
  <2> QED
    BY <1>1, <2>1, <2>2, <2>3, <2>4, <2>5 DEF Paired, Parted, Planned, RollbackPoints, Revision
<1> QED
  BY <1>2, <1>3

LEMMA PairedPreserved == SerialInv /\ SerialInv' /\ Paired /\ [Next]_vars => Paired'
<1> SUFFICES ASSUME SerialInv, SerialInv', Paired, [Next]_vars, excused' = {}
             PROVE  Paired'
  BY DEF Paired
<1>0. excused = {} /\ Serialized /\ Serialized'
  BY ExcusesGrow DEF Serialized
<1>1. ASSUME NEW p \in Callers,
             \/ p \in Attempts /\ DeployStep(p)
             \/ p \in Rollbacks /\ RollbackStep(p)
      PROVE  Paired'
  <2>1. AtWork(p)
    BY <1>1
    DEF AtWork, DeployPoints, RollbackPoints, Go, DeployStep, AcquireLease, ReadPrevious,
        Stage, StageText, PublishFails, ActivateOpen, ActivateCommit, ActivateFails, Persist,
        PersistFails, CompensateOpen, CompensateCommit, NothingToRestore, CompensateFails,
        ReleaseLease, ReleaseFails, Commit, CommitFails, RunRefused, Abort, RollbackStep,
        PairOpen, PairCommit, PairFails
  <2>2. \A q \in Callers \ {p} : ~AtWork(q)
    BY <1>0, <2>1 DEF SerialInv, OneAtWork
  <2>3. \A q \in Callers \ {p} : ~AtWork(q)'
    BY <1>1, <2>2, OthersStay DEF AtWork, CallerStep, SerialInv, Inv
  <2>4. OwnPair(p)'
    BY <1>0, <1>1, <2>2, PairHasOwner, DeployKeepsPair, RollbackKeepsPair
  <2>5. \A q \in Callers \ {p} : pc'[q] \notin Parted /\ pc'[q] \notin Planned
    BY <2>3 DEF AtWork, DeployPoints, RollbackPoints, Parted, Planned
  <2> QED
    BY <1>0, <2>4, <2>5 DEF Paired, OwnPair, Parted, RollbackPoints, Callers, Revision
<1>2. ASSUME NEW p \in Callers, CallerStep(p) PROVE Paired'
  BY <1>0, <1>1, <1>2, EdgesKeepPair
<1>3. CASE CollectGarbage \/ Expire \/ UNCHANGED vars
  <2>1. UNCHANGED <<pc, artifact, previous, target, aim, excused>>
    BY <1>3 DEF CollectGarbage, Expire, vars, local, deploys
  <2>2. ActiveRevisions' = ActiveRevisions
    BY <1>3, <2>1, ActiveChanges
    DEF ActivateCommit, CompensateCommit, PairCommit, Go, SerialInv, Inv, TypeOK, Callers
  <2> QED
    BY <2>1, <2>2 DEF Paired, Revision
<1> QED
  BY <1>2, <1>3, StepsAreCallers

\* Artifact and knowledge stay a pair: whatever failed without being compensated
\* is one of the events in Excuses, and as long as none of them has happened the
\* active revision is that of the active deployment (withKnowledgePublication
\* and rollbackKnowledge of knowledge-operations/src/publication.ts).
THEOREM PairIsRetained == Spec => []PairRetained
<1>1. Init => Paired
  <2> SUFFICES ASSUME Init, artifact # None PROVE ActiveRevisions = {Content[artifact]}
    BY DEF Init, Paired, Callers, Planned, RollbackPoints
  <2> QED
    BY MapsAssumption, IdsAssumption DEF Init, ActiveRevisions
<1>2. Paired => PairRetained
  BY DEF Paired, PairRetained, Quiet, Parted, Done
<1> QED
  BY <1>1, <1>2, PairedPreserved, SerialAlways, PTL DEF Spec
=============================================================================
