------------------------ MODULE KnowledgePublication ------------------------
(***************************************************************************)
(* The pairing of a deployment with its knowledge revision: the publication *)
(* transaction wrapped around a deploy                                      *)
(* (knowledge-operations/src/publication.ts, called from                    *)
(* service/src/registry.ts), the revision store under it                    *)
(* (knowledge/src/postgres-revision-store.ts) and the rollback that         *)
(* reselects a pinned revision (service/src/registry-rollback.ts).          *)
(*                                                                         *)
(* One organisation, one knowledge component.  A deploy runs inside a       *)
(* transaction that holds the organisation's advisory lock; the revision    *)
(* store commits transactions of its own in the middle of it, so the two    *)
(* can part company.  A revision is named by the hash of its content.       *)
(***************************************************************************)
EXTENDS Naturals, FiniteSets

CONSTANTS
    Attempts,     \* calls of registry.deploy
    Rollbacks,    \* calls of registry.rollback
    Deployments,  \* deployment ids
    Revisions,    \* knowledge revisions
    None,         \* no deployment, no revision, no caller
    Uses,         \* deployment id of an attempt: a retried key mints it again
    Content,      \* revision a deployment's knowledge compiles to
    Automated,    \* attempts made by an automation run
    First,        \* deployment that may be there at the start
    Faults,       \* which of FaultKinds may strike
    MaxFaults     \* how many kinds of them in one behaviour

Callers == Attempts \cup Rollbacks
FaultKinds == {"crash", "disconnect", "commit", "release", "compensate", "pair"}

ASSUME CallersAssumption == Attempts \cap Rollbacks = {} /\ None \notin Callers
ASSUME IdsAssumption == /\ None \notin Deployments /\ None \notin Revisions
                        /\ First \in Deployments
ASSUME MapsAssumption == /\ Uses \in [Attempts -> Deployments]
                         /\ Content \in [Deployments -> Revisions]
ASSUME ScopeAssumption == /\ Automated \subseteq Attempts
                          /\ Faults \subseteq FaultKinds
                          /\ MaxFaults \in Nat

VARIABLES
    artifact,   \* active deploy record
    records,    \* committed deploy records
    cached,     \* an attempt's record in the #records map of its process
    status,     \* knowledge_revisions: state of each row, "absent" without one
    texts,      \* revisions with rows in knowledge_revision_documents
    pins,       \* knowledge_deployment_pins
    lease,      \* the component's row in knowledge_publication_leases
    orgLock,    \* caller whose transaction holds the advisory lock
    pc,         \* where each caller is
    previous,   \* previousRevisionId in an attempt's plan
    target,     \* revision an open store transaction activates
    displaced,  \* revisions such a transaction saw active and retires
    aim,        \* deployment a rollback has made active
    excused     \* events after which the code does not restore the pair

store == <<status, texts, pins>>
deploys == <<artifact, records, cached>>
local == <<previous, target, displaced, aim>>
vars == <<artifact, records, cached, status, texts, pins, lease, orgLock, pc,
          previous, target, displaced, aim, excused>>

Done == {"deployed", "replayed", "rolledback", "failed", "dead"}
DeployPoints == {"lease", "read", "stage", "text", "activate", "activating", "persist",
                 "compensate", "compensating", "settle", "unwind", "commit", "abort"}
RollbackPoints == {"pair", "pairing"}
Points == DeployPoints \cup RollbackPoints \cup Done \cup {"idle"}
Excuses == FaultKinds \cup {"automation", "overlap", "retry"}

TypeOK ==
    /\ artifact \in Deployments \cup {None}
    /\ records \subseteq Deployments
    /\ cached \in [Attempts -> {"none", "inactive", "active"}]
    /\ status \in [Revisions -> {"absent", "staged", "active", "retired"}]
    /\ texts \subseteq Revisions
    /\ pins \subseteq Deployments \X Revisions
    /\ lease \in {"free", "held", "stale"}
    /\ orgLock \in Callers \cup {None}
    /\ pc \in [Callers -> Points]
    /\ previous \in [Attempts -> Revisions \cup {None}]
    /\ target \in [Callers -> Revisions \cup {None}]
    /\ displaced \in [Callers -> SUBSET Revisions]
    /\ aim \in [Rollbacks -> Deployments \cup {None}]
    /\ excused \subseteq Excuses

\* Nothing deployed yet, or one deployment and its revision.
Init ==
    /\ artifact \in {None, First}
    /\ records = {artifact} \ {None}
    /\ cached = [a \in Attempts |-> "none"]
    /\ status = [r \in Revisions |->
                    IF artifact = First /\ r = Content[First] THEN "active" ELSE "absent"]
    /\ texts = {r \in Revisions : status[r] = "active"}
    /\ pins = {First} \X texts
    /\ lease = "free"
    /\ orgLock = None
    /\ pc = [p \in Callers |-> "idle"]
    /\ previous = [a \in Attempts |-> None]
    /\ target = [p \in Callers |-> None]
    /\ displaced = [p \in Callers |-> {}]
    /\ aim = [b \in Rollbacks |-> None]
    /\ excused = {}

-----------------------------------------------------------------------------
Go(p, from, to) == pc[p] = from /\ pc' = [pc EXCEPT ![p] = to]
Excuse(reason) == excused' = excused \cup {reason}

\* A failure of this kind may happen: at most MaxFaults kinds leave a mark.
Strikes(kind) == /\ kind \in Faults
                 /\ Cardinality((excused \cap FaultKinds) \cup {kind}) <= MaxFaults

Revision(a) == Content[Uses[a]]
ActiveRevisions == {r \in Revisions : status[r] = "active"}
PinnedBy(d) == {r \in Revisions : <<d, r>> \in pins}

\* Only activate takes its row FOR UPDATE; a rollback locks as it updates.
RowLocked(r) == \E a \in Attempts : target[a] = r
RowsFree(p, rows) == \A a \in Attempts \ {p} : target[a] \notin rows

\* Mutant: the UPDATE that retires is left out.
OpenWithoutRetiring(p, r, retires) ==
    /\ target' = [target EXCEPT ![p] = r]
    /\ displaced' = [displaced EXCEPT ![p] = {}]

\* A transaction of the revision store: BEGIN to the UPDATE that retires ...
OpenTransaction(p, r, retires) ==
    /\ target' = [target EXCEPT ![p] = r]
    /\ displaced' = [displaced EXCEPT ![p] = retires \ {r}]

\* ... and the rest of it, once the rows it updates are nobody else's.
CommitTransaction(p) ==
    /\ RowsFree(p, displaced[p] \cup {target[p]})
    /\ status' = [r \in Revisions |->
                    IF r = target[p] THEN "active"
                    ELSE IF r \in displaced[p] /\ status[r] = "active" THEN "retired"
                    ELSE status[r]]

CloseTransaction(p) ==
    /\ target' = [target EXCEPT ![p] = None]
    /\ displaced' = [displaced EXCEPT ![p] = {}]

\* The transaction of caller p ends and its advisory lock with it.
LetGo(p) == orgLock' = IF orgLock = p THEN None ELSE orgLock

-----------------------------------------------------------------------------
(* registry.deploy: lock, replay, publish *)

Pairing == {b \in Rollbacks : pc[b] \in RollbackPoints}
Overtakes == excused' = excused \cup (IF Pairing = {} THEN {} ELSE {"overlap"})

Begin(a) ==
    /\ orgLock = None
    /\ Uses[a] \notin records
    /\ Go(a, "idle", "lease")
    /\ orgLock' = a
    /\ Overtakes
    /\ UNCHANGED <<deploys, store, lease, local>>

\* The key's deployment is there: replayed while active, else a conflict.  A
\* process that finds no record in the store takes the one it has cached, of an
\* earlier attempt; which process serves a call is nobody's choice.
FoundActive(a) == Uses[a] \in records /\ artifact = Uses[a]
FoundInactive(a) == Uses[a] \in records /\ artifact # Uses[a]
FoundCached(a, state) == /\ Uses[a] \notin records
                         /\ \E b \in Attempts : Uses[b] = Uses[a] /\ cached[b] = state

Replay(a) ==
    /\ orgLock = None
    /\ \/ (FoundActive(a) \/ FoundCached(a, "active")) /\ Go(a, "idle", "replayed")
       \/ (FoundInactive(a) \/ FoundCached(a, "inactive")) /\ Go(a, "idle", "failed")
    /\ UNCHANGED <<deploys, store, lease, orgLock, local, excused>>

LockTimesOut(p) ==
    /\ orgLock # None
    /\ Go(p, "idle", "failed")
    /\ UNCHANGED <<deploys, store, lease, orgLock, local, excused>>

\* Mutant: a lease never times out.
LeaseFree == lease = "free"

LeaseOpen == lease \in {"free", "stale"}

AcquireLease(a) ==
    /\ LeaseOpen
    /\ Go(a, "lease", "read")
    /\ lease' = "held"
    /\ UNCHANGED <<deploys, store, orgLock, local, excused>>

LeaseFails(a) ==
    /\ Go(a, "lease", "abort")
    /\ UNCHANGED <<deploys, store, lease, orgLock, local, excused>>

ReadPrevious(a) ==
    /\ Go(a, "read", "stage")
    /\ \E r \in IF ActiveRevisions = {} THEN {None} ELSE ActiveRevisions :
         previous' = [previous EXCEPT ![a] = r]
    /\ UNCHANGED <<deploys, store, lease, orgLock, target, displaced, aim, excused>>

\* INSERT ... ON CONFLICT DO NOTHING: a known revision is reused as it is.
Staged(r) == [status EXCEPT ![r] = IF @ = "absent" THEN "staged" ELSE @]

Stage(a) ==
    /\ Go(a, "stage", "text")
    /\ status' = Staged(Revision(a))
    /\ UNCHANGED <<deploys, texts, pins, lease, orgLock, local, excused>>

StageText(a) ==
    /\ Go(a, "text", "activate")
    /\ status[Revision(a)] # "absent"
    /\ texts' = texts \cup {Revision(a)}
    /\ UNCHANGED <<deploys, status, pins, lease, orgLock, local, excused>>

\* Documents missing, verification failed, the row collected, the store down:
\* publish gives the lease back and nothing has been activated.  When the release
\* fails too, that is swallowed and the lease stays.
PublishFails(a) ==
    /\ pc[a] \in {"read", "stage", "text"}
    /\ pc' = [pc EXCEPT ![a] = "abort"]
    /\ lease' \in {"free", lease}
    /\ UNCHANGED <<deploys, store, orgLock, local, excused>>

-----------------------------------------------------------------------------
(* withKnowledgePublication: activate, persist, compensate, finish *)

ActivateOpen(a) ==
    /\ Go(a, "activate", "activating")
    /\ status[Revision(a)] # "absent"
    /\ ~ RowLocked(Revision(a))
    /\ OpenTransaction(a, Revision(a), ActiveRevisions)
    /\ UNCHANGED <<deploys, store, lease, orgLock, previous, aim, excused>>

\* Mutant: the two columns of a pin are exchanged.
PinnedBackwards(a) == pins \cup {<<target[a], Uses[a]>>}

Pinned(a) == pins \cup {<<Uses[a], target[a]>>}

ActivateCommit(a) ==
    /\ Go(a, "activating", "persist")
    /\ CommitTransaction(a)
    /\ CloseTransaction(a)
    /\ pins' = Pinned(a)
    /\ UNCHANGED <<deploys, texts, lease, orgLock, previous, aim, excused>>

\* The revision is gone, the transaction fails or loses a deadlock.
ActivateFails(a) ==
    /\ pc[a] \in {"activate", "activating"}
    /\ pc' = [pc EXCEPT ![a] = "compensate"]
    /\ CloseTransaction(a)
    /\ UNCHANGED <<deploys, store, lease, orgLock, previous, aim, excused>>

\* The index is rebuilt from durable text, then the record is written inside
\* the transaction of the organisation's lock, and cached before its COMMIT.
Persist(a) ==
    /\ Go(a, "persist", "settle")
    /\ Revision(a) \in texts
    /\ orgLock = a
    /\ cached' = [cached EXCEPT ![a] = IF a \in Automated THEN "inactive" ELSE "active"]
    /\ UNCHANGED <<artifact, records, store, lease, orgLock, local, excused>>

PersistFails(a) ==
    /\ Go(a, "persist", "compensate")
    /\ UNCHANGED <<deploys, store, lease, orgLock, local, excused>>

\* The previous revision is activated again and pinned to this deployment.
CompensateOpen(a) ==
    /\ previous[a] # None
    /\ Go(a, "compensate", "compensating")
    /\ status[previous[a]] # "absent"
    /\ ~ RowLocked(previous[a])
    /\ OpenTransaction(a, previous[a], ActiveRevisions)
    /\ UNCHANGED <<deploys, store, lease, orgLock, previous, aim, excused>>

CompensateCommit(a) ==
    /\ Go(a, "compensating", "unwind")
    /\ CommitTransaction(a)
    /\ CloseTransaction(a)
    /\ pins' = Pinned(a)
    /\ UNCHANGED <<deploys, texts, lease, orgLock, previous, aim, excused>>

\* Mutant: a failed publication is not compensated.
SkipsCompensation(a) ==
    /\ Go(a, "compensate", "unwind")
    /\ UNCHANGED <<deploys, store, lease, orgLock, local, excused>>

\* A first publication has nothing to go back to.
NothingToRestore(a) ==
    /\ previous[a] = None
    /\ Go(a, "compensate", "unwind")
    /\ UNCHANGED <<deploys, store, lease, orgLock, local, excused>>

\* The store fails, or a transaction of another publication is in the way for
\* too long: swallowed by .catch(() => undefined).
Blocked(a) == ~ RowsFree(a, displaced[a] \cup ({previous[a]} \ {None}))

CompensateFails(a) ==
    /\ Strikes("compensate") \/ Blocked(a)
    /\ pc[a] \in {"compensate", "compensating"}
    /\ pc' = [pc EXCEPT ![a] = "unwind"]
    /\ CloseTransaction(a)
    /\ Excuse("compensate")
    /\ UNCHANGED <<deploys, store, lease, orgLock, previous, aim>>

\* finish deletes the lease row by scope, whoever holds it by now.
ReleaseLease(a) ==
    /\ pc[a] \in {"settle", "unwind"}
    /\ pc' = [pc EXCEPT ![a] = IF pc[a] = "settle" THEN "commit" ELSE "abort"]
    /\ lease' = "free"
    /\ UNCHANGED <<deploys, store, orgLock, local, excused>>

\* finish throws out of the finally block, past the catch that compensates.
ReleaseFails(a) ==
    /\ Strikes("release")
    /\ pc[a] \in {"settle", "unwind"}
    /\ pc' = [pc EXCEPT ![a] = "abort"]
    /\ IF pc[a] = "settle" THEN Excuse("release") ELSE UNCHANGED excused
    /\ UNCHANGED <<deploys, store, lease, orgLock, local>>

-----------------------------------------------------------------------------
(* registry.deploy: automation run, COMMIT or ROLLBACK *)

Commit(a) ==
    /\ orgLock = a
    /\ Go(a, "commit", "deployed")
    /\ artifact' = Uses[a]
    /\ records' = records \cup {Uses[a]}
    /\ cached' = [cached EXCEPT ![a] = "active"]
    /\ orgLock' = None
    /\ UNCHANGED <<store, lease, local, excused>>

\* The activation of a run fails, or the COMMIT of either: by then the cached
\* record of a run is active as well.
CommitFails(a) ==
    /\ Strikes("commit") \/ orgLock # a
    /\ Go(a, "commit", "failed")
    /\ LetGo(a)
    /\ Excuse("commit")
    /\ cached' \in {cached, [cached EXCEPT ![a] = "active"]}
    /\ UNCHANGED <<artifact, records, store, lease, local>>

\* activateDeployment finds the run superseded: the joined transaction rolls
\* back and the caller is told so.
RunRefused(a) ==
    /\ a \in Automated
    /\ Go(a, "commit", "abort")
    /\ Excuse("automation")
    /\ UNCHANGED <<deploys, store, lease, orgLock, local>>

Abort(a) ==
    /\ Go(a, "abort", "failed")
    /\ LetGo(a)
    /\ UNCHANGED <<deploys, store, lease, local, excused>>

-----------------------------------------------------------------------------
(* registry.rollback: activate the record, then pair outside the lock *)

RollbackCommit(b) ==
    /\ orgLock = None
    /\ Go(b, "idle", "pair")
    /\ \E d \in records : artifact' = d /\ aim' = [aim EXCEPT ![b] = d]
    /\ Overtakes
    /\ UNCHANGED <<records, cached, store, lease, orgLock, previous, target, displaced>>

\* Every pinned revision is made active in turn, retiring the others: the
\* last one stays, and no ORDER BY says which is last.
PairOpen(b) ==
    /\ Go(b, "pair", "pairing")
    /\ \E r \in PinnedBy(aim[b]) :
         OpenTransaction(b, r, ActiveRevisions \cup PinnedBy(aim[b]))
    /\ IF PinnedBy(aim[b]) = {Content[aim[b]]} THEN UNCHANGED excused ELSE Excuse("retry")
    /\ UNCHANGED <<deploys, store, lease, orgLock, previous, aim>>

PairCommit(b) ==
    /\ Go(b, "pairing", "rolledback")
    /\ CommitTransaction(b)
    /\ CloseTransaction(b)
    /\ UNCHANGED <<deploys, texts, pins, lease, orgLock, previous, aim, excused>>

PairFails(b) ==
    /\ Strikes("pair")
    /\ pc[b] \in RollbackPoints
    /\ pc' = [pc EXCEPT ![b] = "failed"]
    /\ CloseTransaction(b)
    /\ Excuse("pair")
    /\ UNCHANGED <<deploys, store, lease, orgLock, previous, aim>>

-----------------------------------------------------------------------------
(* Garbage, time, failures *)

\* Mutant: pins are not looked at.
GarbageUnlessActive(r) == status[r] # "active"

Garbage(r) == /\ status[r] # "active"
              /\ \A d \in Deployments : <<d, r>> \notin pins

\* sweep runs beside any deploy; DELETE waits for a locked row and skips it.
CollectGarbage ==
    LET dropped == {r \in Revisions : status[r] # "absent" /\ Garbage(r) /\ ~ RowLocked(r)}
    IN  /\ dropped # {}
        /\ status' = [r \in Revisions |-> IF r \in dropped THEN "absent" ELSE status[r]]
        /\ texts' = texts \ dropped
        /\ UNCHANGED <<deploys, pins, lease, orgLock, pc, local, excused>>

\* LEASE_TIMEOUT_MS passes, the holder alive or not.
Expire ==
    /\ lease = "held"
    /\ lease' = "stale"
    /\ UNCHANGED <<deploys, store, orgLock, pc, local, excused>>

\* Points at which the two stores disagree about what is deployed.
Exposed == {"persist", "compensate", "compensating", "settle", "commit", "pair", "pairing"}

\* The process dies and its cache with it; its open transactions roll back, its
\* lease row stays.
Crash(p) ==
    /\ Strikes("crash")
    /\ pc[p] \notin Done \cup {"idle"}
    /\ IF pc[p] \in Exposed THEN Excuse("crash") ELSE UNCHANGED excused
    /\ pc' = [pc EXCEPT ![p] = "dead"]
    /\ cached' = [a \in Attempts |-> IF a = p THEN "none" ELSE cached[a]]
    /\ CloseTransaction(p)
    /\ LetGo(p)
    /\ UNCHANGED <<artifact, records, store, lease, previous, aim>>

\* The connection of the outer transaction is lost and the advisory lock with
\* it; the process goes on and finds out at its next use.
Disconnect(a) ==
    /\ Strikes("disconnect")
    /\ orgLock = a
    /\ orgLock' = None
    /\ Excuse("disconnect")
    /\ UNCHANGED <<deploys, store, lease, pc, local>>

-----------------------------------------------------------------------------
DeployStep(a) ==
    \/ AcquireLease(a) \/ ReadPrevious(a) \/ Stage(a) \/ StageText(a) \/ PublishFails(a)
    \/ ActivateOpen(a) \/ ActivateCommit(a) \/ ActivateFails(a)
    \/ Persist(a) \/ PersistFails(a)
    \/ CompensateOpen(a) \/ CompensateCommit(a) \/ NothingToRestore(a) \/ CompensateFails(a)
    \/ ReleaseLease(a) \/ ReleaseFails(a)
    \/ Commit(a) \/ CommitFails(a) \/ RunRefused(a) \/ Abort(a)

RollbackStep(b) == PairOpen(b) \/ PairCommit(b) \/ PairFails(b)

Next ==
    \/ \E a \in Attempts : Begin(a) \/ Replay(a) \/ LeaseFails(a) \/ DeployStep(a) \/ Disconnect(a)
    \/ \E b \in Rollbacks : RollbackCommit(b) \/ RollbackStep(b)
    \/ \E p \in Callers : LockTimesOut(p) \/ Crash(p)
    \/ CollectGarbage
    \/ Expire

Spec == Init /\ [][Next]_vars

FairSpec == /\ Spec
            /\ \A a \in Attempts : WF_vars(DeployStep(a))
            /\ \A b \in Rollbacks : WF_vars(RollbackStep(b))
            /\ WF_vars(Expire)

-----------------------------------------------------------------------------
(* Properties *)

Kept(d) == /\ <<d, Content[d]>> \in pins
           /\ status[Content[d]] \in {"active", "retired"}
           /\ Content[d] \in texts

\* Every recorded deployment can be gone back to: whatever failed, crashed or
\* was collected around it, its revision is pinned to it and still has its
\* row and its text (activate's pin and stageDocuments against collectGarbage
\* and against publications that stage the same content at the same time).
RecordedAreKept == \A d \in records : Kept(d)

\* No event has parted artifact and knowledge, and no caller is on the way.
Quiet == \A p \in Callers : pc[p] \in Done \cup {"idle"}

\* "Any failure retains the previous artifact + revision pair": with all
\* callers done, the active revision is the one the active deployment was
\* published with - unless one of the events in Excuses happened, the README
\* says how each of them gets past activate, compensate and rollback.
PairRetained == Quiet /\ artifact # None /\ excused = {}
                    => ActiveRevisions = {Content[artifact]}

\* Two active revisions of one component need a rollback that pairs while
\* another caller is at work, or a deploy that has lost the lock it relies on;
\* no crash, failed commit or failed compensation leaves two.
OneActiveRevision == excused \cap {"overlap", "disconnect"} = {}
                        => Cardinality(ActiveRevisions) <= 1

\* Every call ends: the lease of a dead publisher goes stale, transactions
\* that wait for each other's rows fail, and no retry waits for ever.
EveryCallEnds == \A p \in Callers : pc[p] # "idle" ~> pc[p] \in Done

\* The claim of publication.ts:5 as it stands, for callers that do not crash
\* and stores that do not fail: with all callers done the pair is coherent.
FailureRetainsPair == Quiet /\ artifact # None => ActiveRevisions = {Content[artifact]}

\* "Deploy and retry responses report the committed operator policy"
\* (registry-deploy-transaction.ts:160): a replayed success is of a deployment
\* that was committed.
RetryReportsCommitted == \A a \in Attempts : pc[a] = "replayed" => Uses[a] \in records

\* "rollback reselects exactly the revision the target deployment pinned"
\* (postgres-revision-store.ts:8), that is, the one it was published with.
RollbackReselectsOwn ==
    [][\A b \in Rollbacks : pc[b] = "pairing" /\ pc'[b] = "rolledback"
          => status'[Content[aim[b]]] = "active"]_vars
=============================================================================
