----------------------- MODULE OperationCoordination -----------------------
(***************************************************************************)
(* Custody of an external resource while a coordinated connector action     *)
(* writes to it.  An invocation (runtime/src/operation-execution.ts) asks   *)
(* the service for the resource (service/src/operation-coordination.ts),    *)
(* may dispatch at most one nested write while it holds it, and gives it    *)
(* back only with evidence.  An uncertain resource stays held: a later      *)
(* invocation may prove the old outcome from the source, or a reviewer may  *)
(* decide, but the clock alone never frees it.                              *)
(*                                                                         *)
(* The table of held resources is a set of rows, as in the PostgreSQL       *)
(* store; each store call is one transaction under the resource's advisory  *)
(* lock, so one step.  Everything before and after an await is a step of    *)
(* its own.  A token (a random UUID per acquire) is named by the            *)
(* invocation that drew it.                                                 *)
(*                                                                         *)
(* A connector's code blocks on each host call, so it has one in flight at  *)
(* most; but when its worker is lost or the pool closes                     *)
(* (compute/src/worker-pool.ts) the connector's promise rejects and the     *)
(* call goes on without it.                                                 *)
(*                                                                         *)
(* Assumed of code outside the module: a connector reports `completed' or   *)
(* `rejected' only when it is true of its one write, and asks to resolve a  *)
(* prior operation only once the source shows that write's fate; the        *)
(* provider may settle a write at any time after it was sent, also after    *)
(* the sender died.  AbortSignal timers fire on time.                       *)
(***************************************************************************)
EXTENDS Naturals

CONSTANTS
    Invocations,    \* coordinated invocations, each with its own token
    Resources,      \* resource identities (HMAC of scope, connection, key)
    None,           \* "no prior operation offered for recovery"
    Bound,          \* executionBoundMs of the operation
    MaxTime,        \* bound on the clock
    MaxChanges      \* bound on reconnections of the account and reopenings

ASSUME BoundAssumption == Bound \in Nat \ {0}
ASSUME NoneAssumption == None \notin Invocations
ASSUME LimitAssumption == MaxTime \in Nat /\ MaxChanges \in Nat

VARIABLES
    now,            \* the service clock
    generation,     \* live generation of the connected account
    epoch,          \* execution epoch of the running service
    rows,           \* external_operation_coordination
    receipts,       \* external_operation_coordination_resolutions
    pc,             \* where each invocation is
    call,           \* the host call its connector has made
    resource,       \* the resource it declared
    granted,        \* generation read by authority() before its await
    born,           \* epoch of the process that runs it
    abortAt,        \* when its AbortSignal.timeout fires
    deadline,       \* record.deadline, computed just before the claim
    acquired,       \* lease.acquired
    previous,       \* token of the lease's recoverable prior operation
    writeStarted,   \* frame.writeStarted
    outcome,        \* evidence its connector reported
    effect,         \* fate of its write at the provider
    adrift          \* history: its connector ended while an admitted write was
                    \* still to be dispatched, and could be

clockVars == <<now, generation, epoch>>
storeVars == <<rows, receipts>>
leaseVars == <<resource, granted, born, abortAt, deadline, acquired, previous>>
workVars  == <<writeStarted, outcome, effect, adrift>>
vars == <<now, generation, epoch, rows, receipts, pc, call, resource, granted, born,
          abortAt, deadline, acquired, previous, writeStarted, outcome, effect, adrift>>

States == {"idle", "authorizing", "claiming", "running", "finishing", "done"}
Calls == {"none", "admitted", "awaiting", "resolving", "releasing"}
Ended == {"done"}    \* returned, or its process died: nobody can tell
Fresh == {"idle", "authorizing", "claiming"}

Rows == [resource : Resources, token : Invocations, generation : Nat,
         epoch : Nat, deadline : Nat, state : {"executing", "unknown"}]
Receipts == [token : Invocations, resolution : {"source_verified", "reviewed"}]

TypeOK ==
    /\ now \in Nat /\ generation \in Nat /\ epoch \in Nat
    /\ rows \in SUBSET Rows
    /\ receipts \in SUBSET Receipts
    /\ pc \in [Invocations -> States]
    /\ call \in [Invocations -> Calls]
    /\ resource \in [Invocations -> Resources]
    /\ granted \in [Invocations -> Nat]
    /\ born \in [Invocations -> Nat]
    /\ abortAt \in [Invocations -> Nat]
    /\ deadline \in [Invocations -> Nat]
    /\ acquired \in [Invocations -> BOOLEAN]
    /\ previous \in [Invocations -> Invocations \cup {None}]
    /\ writeStarted \in [Invocations -> BOOLEAN]
    /\ outcome \in [Invocations -> {"none", "completed", "rejected", "unknown"}]
    /\ effect \in [Invocations -> {"none", "sent", "landed", "lost"}]
    /\ adrift \in [Invocations -> BOOLEAN]

Init ==
    /\ now = 0 /\ generation = 0 /\ epoch = 0
    /\ rows = {}
    /\ receipts = {}
    /\ pc = [i \in Invocations |-> "idle"]
    /\ call = [i \in Invocations |-> "none"]
    /\ resource \in [Invocations -> Resources]
    /\ granted = [i \in Invocations |-> 0]
    /\ born = [i \in Invocations |-> 0]
    /\ abortAt = [i \in Invocations |-> 0]
    /\ deadline = [i \in Invocations |-> 0]
    /\ acquired = [i \in Invocations |-> FALSE]
    /\ previous = [i \in Invocations |-> None]
    /\ writeStarted = [i \in Invocations |-> FALSE]
    /\ outcome = [i \in Invocations |-> "none"]
    /\ effect = [i \in Invocations |-> "none"]
    /\ adrift = [i \in Invocations |-> FALSE]

-----------------------------------------------------------------------------
(* The custody table *)

Go(i, from, to) == pc[i] = from /\ pc' = [pc EXCEPT ![i] = to] /\ UNCHANGED call

\* A host call the running connector makes, and the steps of one in flight, which
\* go on whether or not the connector is still there.
HostCall(i, to) ==
    /\ pc[i] = "running" /\ call[i] = "none"
    /\ call' = [call EXCEPT ![i] = to] /\ UNCHANGED pc
Proceeds(i, from, to) ==
    call[i] = from /\ call' = [call EXCEPT ![i] = to] /\ UNCHANGED pc

RowsOf(r) == {row \in rows : row.resource = r}
Holds(i) == \E row \in rows : row.token = i /\ row.resource = resource[i]
Aborted(i) == now >= abortAt[i]

StartedAt(i) == deadline[i] - Bound

\* Mutant: offered while the prior operation may still be at work.
RecoverableAtOnce(i, row) ==
    row.generation = granted[i] /\ row.epoch = born[i]

\* A blocked invocation is offered the prior operation only under the authority
\* that started it, and only once its connector has ended or its time is up.
Recoverable(i, row) ==
    /\ row.generation = granted[i]
    /\ row.epoch = born[i]
    /\ row.state = "unknown" \/ row.deadline <= StartedAt(i)

NewRow(i) ==
    [resource |-> resource[i], token |-> i, generation |-> granted[i],
     epoch |-> born[i], deadline |-> deadline[i], state |-> "executing"]

\* Mutant: released by resource, whoever holds it by now.
DeleteResource(r, t) == rows' = rows \ RowsOf(r)

\* release(): removes the row only while it still carries the caller's token.
DeleteRow(r, t) == rows' = {row \in rows : ~(row.resource = r /\ row.token = t)}

\* Mutants: a late outcome is written whether or not the row is still there, or
\* under a state of its own.
Unknown(i) == [NewRow(i) EXCEPT !.state = "unknown"]
UpsertUnknown(r, t) == rows' = (rows \ RowsOf(r)) \cup {Unknown(t)}
MarkFinished(r, t) ==
    rows' = {IF row.resource = r /\ row.token = t
               THEN [row EXCEPT !.state = "finished"] ELSE row : row \in rows}

MarkUnknown(r, t) ==
    rows' = {IF row.resource = r /\ row.token = t
               THEN [row EXCEPT !.state = "unknown"] ELSE row : row \in rows}

-----------------------------------------------------------------------------
(* Acquiring custody *)

\* invokeOperation arms the deadline, then authority() reads the connection
\* generation and awaits authorize().
Start(i) ==
    /\ now + Bound <= MaxTime
    /\ Go(i, "idle", "authorizing")
    /\ granted' = [granted EXCEPT ![i] = generation]
    /\ born' = [born EXCEPT ![i] = epoch]
    /\ abortAt' = [abortAt EXCEPT ![i] = now + Bound]
    /\ UNCHANGED <<clockVars, storeVars, workVars, resource, deadline, acquired,
                   previous>>

\* authorize() answered; the record is built with a deadline of its own.
Authorize(i) ==
    /\ Go(i, "authorizing", "claiming")
    /\ deadline' = [deadline EXCEPT ![i] = now + Bound]
    /\ UNCHANGED <<clockVars, storeVars, workVars, resource, granted, born,
                   abortAt, acquired, previous>>

\* No live authority or no reachable store: the action is rejected undispatched.
Refuse(i) ==
    /\ pc[i] \in {"authorizing", "claiming"}
    /\ pc' = [pc EXCEPT ![i] = "done"]
    /\ UNCHANGED <<clockVars, storeVars, call, leaseVars, workVars>>

\* claim() inserts the only row of the resource, or reports the one it found.
ClaimFree(i) ==
    /\ RowsOf(resource[i]) = {}
    /\ rows' = rows \cup {NewRow(i)}
    /\ acquired' = [acquired EXCEPT ![i] = TRUE]
    /\ UNCHANGED previous

ClaimHeld(i) ==
    /\ \E row \in RowsOf(resource[i]) :
          previous' = [previous EXCEPT ![i] = IF Recoverable(i, row)
                                                THEN row.token ELSE None]
    /\ UNCHANGED <<rows, acquired>>

\* Mutant: a row past its deadline is taken over.
ClaimStaleRow(i) ==
    \/ ClaimFree(i)
    \/ /\ \E row \in RowsOf(resource[i]) :
             /\ row.deadline <= now
             /\ rows' = (rows \ {row}) \cup {NewRow(i)}
       /\ acquired' = [acquired EXCEPT ![i] = TRUE]
       /\ UNCHANGED previous
    \/ ClaimHeld(i)

ClaimTransaction(i) == ClaimFree(i) \/ ClaimHeld(i)

Claim(i) ==
    /\ Go(i, "claiming", "running")
    /\ ClaimTransaction(i)
    /\ UNCHANGED <<clockVars, workVars, receipts, resource, granted, born, abortAt,
                   deadline>>

\* The insert committed but its answer never came back: acquire() throws, the
\* action is rejected undispatched and the row stays behind.
ClaimAnswerLost(i) ==
    /\ Go(i, "claiming", "done")
    /\ RowsOf(resource[i]) = {}
    /\ rows' = rows \cup {NewRow(i)}
    /\ UNCHANGED <<clockVars, receipts, leaseVars, workVars>>

-----------------------------------------------------------------------------
(* The nested write *)

\* admitCoordinatedAction: one write if the lease is ours, none if it is not.
Admits(i) == acquired[i] /\ ~writeStarted[i]

AdmitAction(i) ==
    /\ HostCall(i, "admitted")
    /\ Admits(i)
    /\ writeStarted' = [writeStarted EXCEPT ![i] = TRUE]
    /\ UNCHANGED <<clockVars, storeVars, leaseVars, outcome, effect, adrift>>

\* Policy, credentials, admission and evidence come between; the last look at
\* the abort signal is right before connector.invoke.
Dispatch(i) ==
    /\ Proceeds(i, "admitted", "awaiting")
    /\ ~Aborted(i)
    /\ effect' = [effect EXCEPT ![i] = "sent"]
    /\ UNCHANGED <<clockVars, storeVars, leaseVars, writeStarted, outcome, adrift>>

\* The nested call fails before it is dispatched.
NestedDenied(i) ==
    /\ Proceeds(i, "admitted", "none")
    /\ UNCHANGED <<clockVars, storeVars, leaseVars, workVars>>

\* The provider settles the write, whatever became of the sender.
Settle(i) ==
    /\ effect[i] = "sent"
    /\ \E fate \in {"landed", "lost"} : effect' = [effect EXCEPT ![i] = fate]
    /\ UNCHANGED <<clockVars, storeVars, leaseVars, pc, call, writeStarted, outcome, adrift>>

\* Mutant: only the provider ends the wait.
AnswerArrived(i) == effect[i] # "sent"

\* The answer arrives, or the abort signal ends the wait.
WaitOver(i) == effect[i] # "sent" \/ Aborted(i)

Answered(i) ==
    /\ Proceeds(i, "awaiting", "none")
    /\ WaitOver(i)
    /\ UNCHANGED <<clockVars, storeVars, leaseVars, workVars>>

-----------------------------------------------------------------------------
(* Evidence and the end of the invocation *)

\* The connector speaks the truth about its one write.
Truthful(i, o) ==
    \/ o = "completed" /\ effect[i] = "landed"
    \/ o = "rejected" /\ effect[i] \in {"none", "lost"}
    \/ o = "unknown"

Report(i, o) ==
    /\ pc[i] = "running" /\ call[i] = "none" /\ writeStarted[i] /\ outcome[i] = "none"
    /\ Truthful(i, o)
    /\ outcome' = [outcome EXCEPT ![i] = o]
    /\ UNCHANGED <<clockVars, storeVars, leaseVars, pc, call, writeStarted, effect, adrift>>

\* connector.invoke returns or throws by itself.
Return(i) ==
    /\ Go(i, "running", "finishing")
    /\ call[i] = "none"
    /\ UNCHANGED <<clockVars, storeVars, leaseVars, workVars>>

\* Its worker is lost, the pool closes or the backstop fires: it rejects, and
\* nothing tells the host call it was waiting for.
WorkerLost(i) ==
    /\ Go(i, "running", "finishing")
    /\ call[i] # "none"
    /\ adrift' = [adrift EXCEPT ![i] = call[i] = "admitted" /\ ~Aborted(i)]
    /\ UNCHANGED <<clockVars, storeVars, leaseVars, writeStarted, outcome, effect>>

\* Mutant: no evidence counts as success.
EvidenceFromSuccess(i) ==
    IF ~writeStarted[i] THEN "rejected"
    ELSE IF outcome[i] = "none" THEN "completed" ELSE outcome[i]

\* What finish() is told: nothing was dispatched unless a write was admitted,
\* and an admitted write without evidence is unknown.
Evidence(i) ==
    IF ~writeStarted[i] THEN "rejected"
    ELSE IF outcome[i] = "none" THEN "unknown" ELSE outcome[i]

SettleCustody(i) ==
    \/ ~acquired[i] /\ UNCHANGED rows
    \/ acquired[i] /\ Evidence(i) \in {"completed", "rejected"} /\ DeleteRow(resource[i], i)
    \/ acquired[i] /\ Evidence(i) = "unknown" /\ MarkUnknown(resource[i], i)

Finish(i) ==
    /\ Go(i, "finishing", "done")
    /\ SettleCustody(i)
    /\ UNCHANGED <<clockVars, receipts, leaseVars, workVars>>

\* The store is unavailable: the row stays as it was.
FinishFails(i) ==
    /\ Go(i, "finishing", "done")
    /\ UNCHANGED <<clockVars, storeVars, leaseVars, workVars>>

-----------------------------------------------------------------------------
(* Recovery of a prior operation *)

\* The connector has read the source, so it knows what became of the write.
SourceProof(i) == effect[previous[i]] # "sent"

\* Mutant: the authority of the claim is good enough.
AuthorityForgotten(i) == TRUE

\* authority() again: the generation this lease was granted under must still be
\* the live one.
AuthorityHeld(i) == generation = granted[i]

ResolveStart(i) ==
    /\ HostCall(i, "resolving")
    /\ previous[i] # None
    /\ ~Aborted(i)
    /\ AuthorityHeld(i)
    /\ SourceProof(i)
    /\ UNCHANGED <<clockVars, storeVars, leaseVars, workVars>>

\* authorize() answered and the recovery is still within its own deadline.
ResolveSend(i) ==
    /\ Proceeds(i, "resolving", "releasing")
    /\ now <= deadline[i]
    /\ UNCHANGED <<clockVars, storeVars, leaseVars, workVars>>

\* release(previous.token, 'source_verified') with its receipt; the lease offers
\* nothing to resolve afterwards.
Verified(i) == {row \in RowsOf(resource[i]) : row.token = previous[i]}

ResolveCommit(i) ==
    /\ Proceeds(i, "releasing", "none")
    /\ Verified(i) # {}
    /\ rows' = rows \ Verified(i)
    /\ receipts' = receipts \cup
          {[token |-> row.token, resolution |-> "source_verified"] : row \in Verified(i)}
    /\ previous' = [previous EXCEPT ![i] = None]
    /\ UNCHANGED <<clockVars, workVars, resource, granted, born, abortAt, deadline,
                   acquired>>

\* Refused authority, an expired recovery, a changed token or a store failure.
ResolveFails(i) ==
    /\ \E at \in {"resolving", "releasing"} : Proceeds(i, at, "none")
    /\ UNCHANGED <<clockVars, storeVars, leaseVars, workVars>>

\* A reviewer decides: never over an operation whose connector may still run.
Reviewable(row) == row.state = "unknown" \/ row.deadline <= now

Review(row) ==
    /\ Reviewable(row)
    /\ rows' = rows \ {row}
    /\ receipts' = receipts \cup {[token |-> row.token, resolution |-> "reviewed"]}
    /\ UNCHANGED <<clockVars, pc, call, leaseVars, workVars>>

-----------------------------------------------------------------------------
(* The environment *)

\* The process running i dies; its rows and what it sent stay.
Crash(i) ==
    /\ pc[i] \notin Ended \cup {"idle"} \/ call[i] # "none"
    /\ pc' = [pc EXCEPT ![i] = "done"]
    /\ call' = [call EXCEPT ![i] = "none"]
    /\ UNCHANGED <<clockVars, storeVars, leaseVars, workVars>>

Reconnect ==
    /\ generation + epoch < MaxChanges
    /\ generation' = generation + 1
    /\ UNCHANGED <<now, epoch, storeVars, pc, call, leaseVars, workVars>>

\* The service is reopened for recovery under a new epoch: a new process.
Reopen ==
    /\ generation + epoch < MaxChanges
    /\ epoch' = epoch + 1
    /\ pc' = [i \in Invocations |->
                 IF pc[i] \in Ended \cup {"idle"} THEN pc[i] ELSE "done"]
    /\ call' = [i \in Invocations |-> "none"]
    /\ UNCHANGED <<now, generation, storeVars, leaseVars, workVars>>

Tick ==
    /\ now < MaxTime
    /\ now' = now + 1
    /\ UNCHANGED <<generation, epoch, storeVars, pc, call, leaseVars, workVars>>

Step(i) ==
    \/ Start(i) \/ Authorize(i) \/ Refuse(i) \/ Claim(i) \/ ClaimAnswerLost(i)
    \/ AdmitAction(i) \/ Dispatch(i) \/ NestedDenied(i) \/ Settle(i) \/ Answered(i)
    \/ \E o \in {"completed", "rejected", "unknown"} : Report(i, o)
    \/ Return(i) \/ WorkerLost(i) \/ Finish(i) \/ FinishFails(i)
    \/ ResolveStart(i) \/ ResolveSend(i) \/ ResolveCommit(i) \/ ResolveFails(i)
    \/ Crash(i)

Next ==
    \/ \E i \in Invocations : Step(i)
    \/ \E row \in rows : Review(row)
    \/ Reconnect \/ Reopen \/ Tick

Spec == Init /\ [][Next]_vars

\* A running process schedules its continuations and its timers fire; nobody
\* promises that a provider ever settles or that a reviewer ever looks.
Progress(i) ==
    \/ Authorize(i) \/ Refuse(i) \/ Claim(i)
    \/ Dispatch(i) \/ NestedDenied(i) \/ Answered(i)
    \/ Return(i) \/ Finish(i) \/ FinishFails(i)
    \/ ResolveSend(i) \/ ResolveFails(i)

Fairness == WF_vars(Tick) /\ \A i \in Invocations : WF_vars(Progress(i))
FairSpec == Spec /\ Fairness

-----------------------------------------------------------------------------
(* The custody this implements *)

HolderIn(table, r) ==
    IF \E row \in table : row.resource = r
      THEN (CHOOSE row \in table : row.resource = r).token ELSE None
HolderOf(r) == HolderIn(rows, r)

C == INSTANCE Custody WITH
        Tokens <- Invocations, Resources <- Resources, Nobody <- None,
        holder <- [r \in Resources |-> HolderOf(r)],
        unsettled <- {i \in Invocations : effect[i] = "sent"},
        overridden <- {i \in Invocations :
                          [token |-> i, resolution |-> "reviewed"] \in receipts},
        stray <- {i \in Invocations : adrift[i]}

\* Every step of the coordination is a step of Custody, or leaves it unchanged:
\* one holder, writes by the holder or by one whose connector ended under an
\* admitted write, and no handover over any other open write but by a reviewer.
ImplementsCustody == C!CustodySpec

-----------------------------------------------------------------------------
(* Properties *)

Reviewed(i) == [token |-> i, resolution |-> "reviewed"] \in receipts
Resolved(i) == \E x \in receipts : x.token = i

\* A write leaves the process before its claim's deadline and while its invocation
\* holds the resource, in spite of reviewers, recoveries and late outcomes of
\* others; unless its connector ended under it (its worker was lost) and somebody
\* resolved the claim since, which the host call never learns.
WritesUnderCustody ==
    [][\A i \in Invocations :
          effect[i] = "none" /\ effect'[i] = "sent" =>
             /\ now < deadline[i]
             /\ Holds(i) \/ (adrift[i] /\ Resolved(i))]_vars

\* A write whose fate is open keeps its resource held; only a reviewer may hand
\* the resource on regardless, or a source proof if the write was adrift.
UnsettledWriteHeld ==
    \A i \in Invocations :
        effect[i] = "sent" => Holds(i) \/ Reviewed(i) \/ (adrift[i] /\ Resolved(i))

\* Custody released by source proof leaves no write in flight: "only proven
\* completion or proof of no dispatched effect releases custody"
\* (service/src/operation-coordination.ts:150).  The code does not keep it when a
\* worker is lost between the admission of a write and its dispatch.
ProvenIsSettled ==
    \A x \in receipts : x.resolution = "source_verified" => effect[x.token] # "sent"

\* A blocked invocation never starts a write, not even after it has resolved the
\* operation that blocked it (agent-kit/src/skill-authoring-refs.ts:71).
BlockedNeverWrites ==
    \A i \in Invocations : writeStarted[i] \/ effect[i] # "none" => acquired[i]

\* A resource marked unknown is released by a recorded proof or review, never by
\* time or by a late result; an executing one also by its own invocation's end.
UncertainStaysHeld ==
    [][\A row \in rows :
          (\A r \in rows' : r.token # row.token) =>
             \/ \E x \in receipts' \ receipts : x.token = row.token
             \/ row.state = "executing" /\ pc[row.token] = "finishing"
                                        /\ pc'[row.token] = "done"]_vars

\* A resolved token never holds anything again: whatever arrives late for it (a
\* finish, a second recovery) finds somebody else's token, or none.
ResolvedIsFinal ==
    \A x \in receipts : \A row \in rows : row.token # x.token

\* A recovery begins only while the live connection generation and the running
\* epoch are the ones the prior operation was started under, although the lease
\* compared them when it was granted, possibly long before.
RecoveryUnderOriginalAuthority ==
    [][\A i \in Invocations, row \in rows :
          /\ call[i] = "none" /\ call'[i] = "resolving"
          /\ row.token = previous[i]
          => row.generation = generation /\ row.epoch = epoch]_vars

\* The facts the safety properties rest on, inductive together: what a row says
\* of its invocation, why a lease outlives every dispatch of a connector that
\* waits for it, and what may still happen to a prior operation offered for
\* recovery.
Live == {"running", "finishing"}

RowsBelong ==
    \A row \in rows :
        /\ row.resource = resource[row.token]
        /\ row.deadline = deadline[row.token]
        /\ pc[row.token] \notin Fresh
        /\ row.state = "unknown" => pc[row.token] \in Ended

OneRowPerResource == \A p, q \in rows : p.resource = q.resource => p = q

FreshIsClean ==
    \A i \in Invocations :
        pc[i] \in Fresh =>
            ~acquired[i] /\ previous[i] = None /\ call[i] = "none" /\ ~adrift[i]

AbortsFirst ==
    \A i \in Invocations :
        /\ pc[i] = "authorizing" => abortAt[i] <= now + Bound
        /\ pc[i] = "claiming" => deadline[i] <= now + Bound
        /\ pc[i] \in Live \cup {"claiming"} \/ call[i] # "none"
              => abortAt[i] <= deadline[i]

LeaseHolds ==
    \A i \in Invocations :
        pc[i] \in Live /\ acquired[i] /\ now < deadline[i]
            => \E row \in rows : row.token = i

\* Custody that was not given back with evidence is still there, or was resolved.
CustodyAccounted ==
    \A i \in Invocations :
        acquired[i] /\ (pc[i] \in Live \/ call[i] = "admitted" \/ effect[i] = "sent")
            => Holds(i) \/ Resolved(i)

\* A write to be dispatched has a connector waiting for it, or is adrift, or late.
WaitedFor ==
    \A i \in Invocations :
        call[i] = "admitted" => pc[i] = "running" \/ adrift[i] \/ Aborted(i)

AdriftOnce == \A i \in Invocations : adrift[i] => writeStarted[i] /\ pc[i] # "running"

PreviousIsOver ==
    \A i \in Invocations :
        previous[i] # None =>
            /\ pc[previous[i]] \notin Fresh
            /\ pc[previous[i]] \in Ended \/ deadline[previous[i]] <= now

ProofStands ==
    \A i \in Invocations :
        call[i] \in {"resolving", "releasing"} =>
            previous[i] # None /\ (effect[previous[i]] = "sent" => adrift[previous[i]])

EvidenceIsTrue ==
    \A i \in Invocations :
        /\ effect[i] # "none" \/ call[i] = "admitted" => writeStarted[i]
        /\ call[i] = "admitted" => effect[i] = "none"
        /\ outcome[i] \in {"completed", "rejected"} =>
              writeStarted[i] /\ call[i] # "admitted" /\ effect[i] # "sent"

ReceiptsAreOld == \A x \in receipts : pc[x.token] \notin Fresh

CoordinationInv ==
    /\ RowsBelong /\ OneRowPerResource /\ FreshIsClean /\ AbortsFirst /\ LeaseHolds
    /\ CustodyAccounted /\ WaitedFor /\ AdriftOnce /\ PreviousIsOver /\ ProofStands
    /\ EvidenceIsTrue /\ ReceiptsAreOld
    /\ UnsettledWriteHeld /\ BlockedNeverWrites /\ ResolvedIsFinal

\* A provider that never answers cannot keep an invocation, nor a host call its
\* connector left behind: both end, by the deadline if by nothing else.
EveryInvocationEnds ==
    \A i \in Invocations : pc[i] # "idle" ~> pc[i] \in Ended /\ call[i] = "none"
=============================================================================
