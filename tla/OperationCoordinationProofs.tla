-------------------- MODULE OperationCoordinationProofs --------------------
(***************************************************************************)
(* Proofs about OperationCoordination for any number of invocations and     *)
(* resources, any execution bound and any bound on the clock.  The inductive *)
(* invariant is TypeOK /\ CoordinationInv.                                  *)
(***************************************************************************)
EXTENDS OperationCoordination, TLAPS

Inv == TypeOK /\ CoordinationInv

\* A row built by a claiming invocation is a row of the table.
LEMMA NewRowType ==
    ASSUME TypeOK, NEW i \in Invocations
    PROVE  NewRow(i) \in Rows
BY DEF TypeOK, NewRow, Rows

\* Every variable keeps its type.
LEMMA TypePreserved == TypeOK /\ [Next]_vars => TypeOK'
<1> SUFFICES ASSUME TypeOK, [Next]_vars PROVE TypeOK'
  OBVIOUS
<1> USE BoundAssumption, LimitAssumption, NoneAssumption
<1>1. ASSUME NEW i \in Invocations, Step(i) PROVE TypeOK'
  <2>1. CASE Start(i)
    BY <2>1 DEF TypeOK, Start, Go, HostCall, Proceeds, States, Calls, storeVars, clockVars, workVars
  <2>2. CASE Authorize(i)
    BY <2>2 DEF TypeOK, Authorize, Go, HostCall, Proceeds, States, Calls, storeVars, clockVars, workVars
  <2>3. CASE Refuse(i)
    BY <2>3 DEF TypeOK, Refuse, States, storeVars, clockVars, workVars, leaseVars
  <2>4. CASE Claim(i)
    BY <2>4, NewRowType
    DEF TypeOK, Claim, ClaimTransaction, ClaimFree, ClaimHeld, RowsOf, Rows, Go, HostCall, Proceeds, States, Calls,
        clockVars, workVars
  <2>5. CASE ClaimAnswerLost(i)
    BY <2>5, NewRowType
    DEF TypeOK, ClaimAnswerLost, Go, HostCall, Proceeds, States, Calls, clockVars, workVars, leaseVars
  <2>6. CASE AdmitAction(i)
    BY <2>6 DEF TypeOK, AdmitAction, Go, HostCall, Proceeds, States, Calls, clockVars, storeVars, leaseVars
  <2>7. CASE Dispatch(i)
    BY <2>7 DEF TypeOK, Dispatch, Go, HostCall, Proceeds, States, Calls, clockVars, storeVars, leaseVars
  <2>8. CASE NestedDenied(i) \/ Answered(i) \/ Return(i) \/ WorkerLost(i) \/ FinishFails(i)
             \/ ResolveStart(i) \/ ResolveSend(i) \/ ResolveFails(i) \/ Crash(i)
    BY <2>8
    DEF TypeOK, NestedDenied, Answered, Return, WorkerLost, FinishFails, ResolveStart, ResolveSend,
        ResolveFails, Crash, Go, HostCall, Proceeds, States, Calls, clockVars, storeVars, leaseVars, workVars
  <2>9. CASE Settle(i)
    BY <2>9 DEF TypeOK, Settle, clockVars, storeVars, leaseVars
  <2>10. CASE \E o \in {"completed", "rejected", "unknown"} : Report(i, o)
    BY <2>10 DEF TypeOK, Report, clockVars, storeVars, leaseVars
  <2>11. CASE Finish(i)
    <3>1. ASSUME MarkUnknown(resource[i], i) PROVE rows' \in SUBSET Rows
      BY <3>1 DEF TypeOK, MarkUnknown, Rows
    <3>2. ASSUME DeleteRow(resource[i], i) \/ UNCHANGED rows PROVE rows' \in SUBSET Rows
      BY <3>2 DEF TypeOK, DeleteRow
    <3>3. rows' \in SUBSET Rows
      BY <2>11, <3>1, <3>2 DEF Finish, SettleCustody
    <3> QED
      BY <2>11, <3>3 DEF TypeOK, Finish, Go, HostCall, Proceeds, States, Calls, clockVars, leaseVars, workVars
  <2>12. CASE ResolveCommit(i)
    BY <2>12
    DEF TypeOK, ResolveCommit, Verified, RowsOf, Rows, Receipts, Go, HostCall, Proceeds, States, Calls, clockVars,
        workVars
  <2> QED
    BY <1>1, <2>1, <2>2, <2>3, <2>4, <2>5, <2>6, <2>7, <2>8, <2>9, <2>10, <2>11, <2>12
    DEF Step
<1>2. ASSUME NEW row \in rows, Review(row) PROVE TypeOK'
  BY <1>2 DEF TypeOK, Review, Rows, Receipts, clockVars, leaseVars, workVars
<1>3. CASE Reconnect \/ Reopen \/ Tick
  BY <1>3
  DEF TypeOK, Reconnect, Reopen, Tick, States, Calls, Ended, storeVars, leaseVars, workVars
<1>4. CASE UNCHANGED vars
  BY <1>4 DEF TypeOK, vars
<1> QED
  BY <1>1, <1>2, <1>3, <1>4 DEF Next

\* Type correctness of the custody table, the leases and the invocations
\* (service/src/operation-coordination.ts, runtime/src/operation-execution.ts).
THEOREM TypeCorrect == Spec => []TypeOK
<1>1. Init => TypeOK
  BY LimitAssumption, NoneAssumption DEF Init, TypeOK, States, Calls
<1> QED
  BY <1>1, TypePreserved, PTL DEF Spec

-----------------------------------------------------------------------------
(* Each operation preserves the invariant *)


\* What the end of an invocation does to the table: other rows stay as they are,
\* its own row goes only on proven evidence and otherwise becomes unknown.
LEMMA SettleCustodyRows ==
    ASSUME TypeOK, OneRowPerResource, NEW i \in Invocations, SettleCustody(i)
    PROVE  /\ \A q \in rows' : \E p \in rows :
                 /\ q.resource = p.resource /\ q.token = p.token
                 /\ q.deadline = p.deadline
                 /\ q.state = "unknown" => p.state = "unknown" \/ q.token = i
           /\ \A p \in rows :
                 p.token # i \/ ~acquired[i] \/ Evidence(i) = "unknown" =>
                     \E q \in rows' : q.token = p.token /\ q.resource = p.resource
           /\ OneRowPerResource'
<1> DEFINE Marked(p) == IF p.resource = resource[i] /\ p.token = i
                          THEN [p EXCEPT !.state = "unknown"] ELSE p
<1>1. CASE MarkUnknown(resource[i], i)
  <2>1. rows' = {Marked(p) : p \in rows}
    BY <1>1 DEF MarkUnknown
  <2>2. \A p \in rows : /\ Marked(p).resource = p.resource
                        /\ Marked(p).token = p.token
                        /\ Marked(p).deadline = p.deadline
                        /\ Marked(p).state = "unknown" => p.state = "unknown" \/ p.token = i
    BY DEF TypeOK, Rows
  <2> HIDE DEF Marked
  <2> QED
    BY <2>1, <2>2 DEF OneRowPerResource
<1>2. CASE DeleteRow(resource[i], i) /\ acquired[i] /\ Evidence(i) # "unknown"
  BY <1>2 DEF DeleteRow, OneRowPerResource
<1>3. CASE UNCHANGED rows
  BY <1>3 DEF OneRowPerResource
<1> QED
  BY <1>1, <1>2, <1>3 DEF SettleCustody

\* Quiet: steps that only move one invocation along, or end it.
LEMMA QuietInv ==
    ASSUME Inv, NEW i \in Invocations,
           NestedDenied(i) \/ Answered(i) \/ Return(i) \/ FinishFails(i)
             \/ ResolveSend(i) \/ ResolveFails(i) \/ Crash(i)
    PROVE  CoordinationInv'
<1> USE NoneAssumption, BoundAssumption, LimitAssumption
    DEF Inv, TypeOK, CoordinationInv, NestedDenied, Answered, Return, FinishFails,
        ResolveSend, ResolveFails, Crash, Go, clockVars, storeVars, leaseVars,
        workVars, Live, Ended, Fresh, States, Calls, HostCall, Proceeds
<1>1. RowsBelong'
  BY DEF RowsBelong, Rows
<1>2. OneRowPerResource'
  BY DEF OneRowPerResource
<1>3. FreshIsClean'
  BY DEF FreshIsClean
<1>4. AbortsFirst'
  BY DEF AbortsFirst
<1>5. LeaseHolds'
  BY DEF LeaseHolds, Rows
<1>6. PreviousIsOver'
  BY DEF PreviousIsOver
<1>7. ProofStands'
  BY DEF ProofStands
<1>8. EvidenceIsTrue'
  BY DEF EvidenceIsTrue
<1>9. ReceiptsAreOld'
  BY DEF ReceiptsAreOld, Receipts
<1>10. UnsettledWriteHeld'
  BY DEF UnsettledWriteHeld, Holds, Reviewed, Resolved
<1>11. BlockedNeverWrites'
  BY DEF BlockedNeverWrites
<1>12. ResolvedIsFinal'
  BY DEF ResolvedIsFinal, Rows, Receipts
<1>13. CustodyAccounted'
  BY DEF CustodyAccounted, Holds, Resolved
<1>14. WaitedFor'
  BY DEF WaitedFor, Aborted
<1>15. AdriftOnce'
  BY DEF AdriftOnce
<1> QED
  BY <1>1, <1>2, <1>3, <1>4, <1>5, <1>6, <1>7, <1>8, <1>9, <1>10, <1>11, <1>12, <1>13,
     <1>14, <1>15


\* WorkerLost: the connector ends; a write it was about to make is adrift from now on.
LEMMA WorkerLostInv ==
    ASSUME Inv, NEW i \in Invocations, WorkerLost(i)
    PROVE  CoordinationInv'
<1> USE NoneAssumption, BoundAssumption, LimitAssumption
    DEF Inv, TypeOK, CoordinationInv, WorkerLost, Aborted, Go, clockVars, storeVars, leaseVars,
        workVars, Live, Ended, Fresh, States, Calls, HostCall, Proceeds
<1>1. RowsBelong'
  BY DEF RowsBelong, Rows
<1>2. OneRowPerResource'
  BY DEF OneRowPerResource
<1>3. FreshIsClean'
  BY DEF FreshIsClean
<1>4. AbortsFirst'
  BY DEF AbortsFirst
<1>5. LeaseHolds'
  BY DEF LeaseHolds, Rows
<1>6. PreviousIsOver'
  BY DEF PreviousIsOver
<1>7. ProofStands'
  BY DEF ProofStands, AdriftOnce
<1>8. EvidenceIsTrue'
  BY DEF EvidenceIsTrue
<1>9. ReceiptsAreOld'
  BY DEF ReceiptsAreOld, Receipts
<1>10. UnsettledWriteHeld'
  BY DEF UnsettledWriteHeld, Holds, Reviewed, Resolved, AdriftOnce
<1>11. BlockedNeverWrites'
  BY DEF BlockedNeverWrites
<1>12. ResolvedIsFinal'
  BY DEF ResolvedIsFinal, Rows, Receipts
<1>13. CustodyAccounted'
  BY DEF CustodyAccounted, Holds, Resolved
<1>14. WaitedFor'
  BY DEF WaitedFor
<1>15. AdriftOnce'
  BY DEF AdriftOnce, EvidenceIsTrue
<1> QED
  BY <1>1, <1>2, <1>3, <1>4, <1>5, <1>6, <1>7, <1>8, <1>9, <1>10, <1>11, <1>12, <1>13,
     <1>14, <1>15


\* Review: a reviewer only decides over an operation that has ended or passed its deadline.
LEMMA ReviewInv ==
    ASSUME Inv, NEW row \in rows, Review(row)
    PROVE  CoordinationInv'
<1> USE NoneAssumption, BoundAssumption, LimitAssumption
    DEF Inv, TypeOK, CoordinationInv, Review, Reviewable, clockVars, storeVars,
        leaseVars,
        workVars, Live, Ended, Fresh, States, Calls, HostCall, Proceeds
<1>1. RowsBelong'
  BY DEF RowsBelong, Rows
<1>2. OneRowPerResource'
  BY DEF OneRowPerResource
<1>3. FreshIsClean'
  BY DEF FreshIsClean
<1>4. AbortsFirst'
  BY DEF AbortsFirst
<1>5. LeaseHolds'
  BY DEF LeaseHolds, Rows, RowsBelong
<1>6. PreviousIsOver'
  BY DEF PreviousIsOver
<1>7. ProofStands'
  BY DEF ProofStands
<1>8. EvidenceIsTrue'
  BY DEF EvidenceIsTrue
<1>9. ReceiptsAreOld'
  BY DEF ReceiptsAreOld, Receipts, Rows, RowsBelong
<1>10. UnsettledWriteHeld'
  BY DEF UnsettledWriteHeld, Holds, Reviewed, Resolved, RowsBelong
<1>11. BlockedNeverWrites'
  BY DEF BlockedNeverWrites
<1>12. ResolvedIsFinal'
  BY DEF ResolvedIsFinal, Rows, Receipts, RowsBelong, OneRowPerResource
<1>13. CustodyAccounted'
  <2> DEFINE x == [token |-> row.token, resolution |-> "reviewed"]
  <2>1. /\ rows' = rows \ {row} /\ receipts \subseteq receipts'
        /\ x \in receipts' /\ x.token = row.token
    OBVIOUS
  <2>2. UNCHANGED <<pc, call, acquired, effect, resource>>
    OBVIOUS
  <2>3. CustodyAccounted
    OBVIOUS
  <2> HIDE DEF x
  <2> QED
    BY ONLY <2>1, <2>2, <2>3 DEF CustodyAccounted, Holds, Resolved
<1>14. WaitedFor'
  BY DEF WaitedFor, Aborted
<1>15. AdriftOnce'
  BY DEF AdriftOnce
<1> QED
  BY <1>1, <1>2, <1>3, <1>4, <1>5, <1>6, <1>7, <1>8, <1>9, <1>10, <1>11, <1>12, <1>13,
     <1>14, <1>15

\* World: time, reconnection and a new epoch take nothing away.
LEMMA WorldInv ==
    ASSUME Inv, Reconnect \/ Reopen \/ Tick \/ UNCHANGED vars
    PROVE  CoordinationInv'
<1> USE NoneAssumption, BoundAssumption, LimitAssumption
    DEF Inv, TypeOK, CoordinationInv, Reconnect, Reopen, Tick, vars, clockVars,
        storeVars, leaseVars,
        workVars, Live, Ended, Fresh, States, Calls, HostCall, Proceeds
<1>1. RowsBelong'
  BY DEF RowsBelong, Rows
<1>2. OneRowPerResource'
  BY DEF OneRowPerResource
<1>3. FreshIsClean'
  BY DEF FreshIsClean
<1>4. AbortsFirst'
  <2>1. CASE Reopen
    BY ONLY <2>1, AbortsFirst, TypeOK, LimitAssumption
    DEF Reopen, AbortsFirst, TypeOK, leaseVars, Live, Ended, Calls, States
  <2>2. CASE Reconnect \/ Tick \/ UNCHANGED vars
    BY <2>2 DEF AbortsFirst
  <2> QED
    BY <2>1, <2>2
<1>5. LeaseHolds'
  BY DEF LeaseHolds, Rows
<1>6. PreviousIsOver'
  BY DEF PreviousIsOver
<1>7. ProofStands'
  BY DEF ProofStands
<1>8. EvidenceIsTrue'
  BY DEF EvidenceIsTrue
<1>9. ReceiptsAreOld'
  BY DEF ReceiptsAreOld, Receipts
<1>10. UnsettledWriteHeld'
  BY DEF UnsettledWriteHeld, Holds, Reviewed, Resolved
<1>11. BlockedNeverWrites'
  BY DEF BlockedNeverWrites
<1>12. ResolvedIsFinal'
  BY DEF ResolvedIsFinal, Rows, Receipts
<1>13. CustodyAccounted'
  BY DEF CustodyAccounted, Holds, Resolved
<1>14. WaitedFor'
  <2>1. CASE Tick
    <3>1. now' > now
      BY <2>1
    <3> QED
      BY <2>1, <3>1 DEF WaitedFor, Aborted
  <2>2. CASE Reconnect \/ Reopen \/ UNCHANGED vars
    BY <2>2 DEF WaitedFor, Aborted
  <2> QED
    BY <2>1, <2>2
<1>15. AdriftOnce'
  BY DEF AdriftOnce
<1> QED
  BY <1>1, <1>2, <1>3, <1>4, <1>5, <1>6, <1>7, <1>8, <1>9, <1>10, <1>11, <1>12, <1>13,
     <1>14, <1>15

\* Start: an invocation starts: nothing it will own exists yet.
LEMMA StartInv ==
    ASSUME Inv, NEW i \in Invocations, Start(i)
    PROVE  CoordinationInv'
<1> USE NoneAssumption, BoundAssumption, LimitAssumption
    DEF Inv, TypeOK, CoordinationInv, Start, Go, clockVars, storeVars, leaseVars,
        workVars, Live, Ended, Fresh, States, Calls, HostCall, Proceeds
<1>1. RowsBelong'
  BY DEF RowsBelong, Rows
<1>2. OneRowPerResource'
  BY DEF OneRowPerResource
<1>3. FreshIsClean'
  BY DEF FreshIsClean
<1>4. AbortsFirst'
  BY DEF AbortsFirst, FreshIsClean
<1>5. LeaseHolds'
  BY DEF LeaseHolds, Rows
<1>6. PreviousIsOver'
  BY DEF PreviousIsOver
<1>7. ProofStands'
  BY DEF ProofStands
<1>8. EvidenceIsTrue'
  BY DEF EvidenceIsTrue
<1>9. ReceiptsAreOld'
  BY DEF ReceiptsAreOld, Receipts
<1>10. UnsettledWriteHeld'
  BY DEF UnsettledWriteHeld, Holds, Reviewed, Resolved
<1>11. BlockedNeverWrites'
  BY DEF BlockedNeverWrites
<1>12. ResolvedIsFinal'
  BY DEF ResolvedIsFinal, Rows, Receipts
<1>13. CustodyAccounted'
  BY DEF CustodyAccounted, Holds, Resolved
<1>14. WaitedFor'
  BY DEF WaitedFor, Aborted, FreshIsClean
<1>15. AdriftOnce'
  BY DEF AdriftOnce
<1> QED
  BY <1>1, <1>2, <1>3, <1>4, <1>5, <1>6, <1>7, <1>8, <1>9, <1>10, <1>11, <1>12, <1>13,
     <1>14, <1>15

\* Authorize: the record's deadline is computed after the abort timer was armed.
LEMMA AuthorizeInv ==
    ASSUME Inv, NEW i \in Invocations, Authorize(i)
    PROVE  CoordinationInv'
<1> USE NoneAssumption, BoundAssumption, LimitAssumption
    DEF Inv, TypeOK, CoordinationInv, Authorize, Go, clockVars, storeVars, leaseVars,
        workVars, Live, Ended, Fresh, States, Calls, HostCall, Proceeds
<1>1. RowsBelong'
  BY DEF RowsBelong, Rows
<1>2. OneRowPerResource'
  BY DEF OneRowPerResource
<1>3. FreshIsClean'
  BY DEF FreshIsClean
<1>4. AbortsFirst'
  BY DEF AbortsFirst, FreshIsClean
<1>5. LeaseHolds'
  BY DEF LeaseHolds, Rows
<1>6. PreviousIsOver'
  BY DEF PreviousIsOver
<1>7. ProofStands'
  BY DEF ProofStands
<1>8. EvidenceIsTrue'
  BY DEF EvidenceIsTrue
<1>9. ReceiptsAreOld'
  BY DEF ReceiptsAreOld, Receipts
<1>10. UnsettledWriteHeld'
  BY DEF UnsettledWriteHeld, Holds, Reviewed, Resolved
<1>11. BlockedNeverWrites'
  BY DEF BlockedNeverWrites
<1>12. ResolvedIsFinal'
  BY DEF ResolvedIsFinal, Rows, Receipts
<1>13. CustodyAccounted'
  BY DEF CustodyAccounted, Holds, Resolved
<1>14. WaitedFor'
  BY DEF WaitedFor, Aborted
<1>15. AdriftOnce'
  BY DEF AdriftOnce
<1> QED
  BY <1>1, <1>2, <1>3, <1>4, <1>5, <1>6, <1>7, <1>8, <1>9, <1>10, <1>11, <1>12, <1>13,
     <1>14, <1>15

\* Refuse: a refused invocation owns nothing.
LEMMA RefuseInv ==
    ASSUME Inv, NEW i \in Invocations, Refuse(i)
    PROVE  CoordinationInv'
<1> USE NoneAssumption, BoundAssumption, LimitAssumption
    DEF Inv, TypeOK, CoordinationInv, Refuse, clockVars, storeVars, leaseVars,
        workVars, Live, Ended, Fresh, States, Calls, HostCall, Proceeds
<1>1. RowsBelong'
  BY DEF RowsBelong, Rows
<1>2. OneRowPerResource'
  BY DEF OneRowPerResource
<1>3. FreshIsClean'
  BY DEF FreshIsClean
<1>4. AbortsFirst'
  BY DEF AbortsFirst
<1>5. LeaseHolds'
  BY DEF LeaseHolds, Rows
<1>6. PreviousIsOver'
  BY DEF PreviousIsOver
<1>7. ProofStands'
  BY DEF ProofStands
<1>8. EvidenceIsTrue'
  BY DEF EvidenceIsTrue
<1>9. ReceiptsAreOld'
  BY DEF ReceiptsAreOld, Receipts
<1>10. UnsettledWriteHeld'
  BY DEF UnsettledWriteHeld, Holds, Reviewed, Resolved
<1>11. BlockedNeverWrites'
  BY DEF BlockedNeverWrites
<1>12. ResolvedIsFinal'
  BY DEF ResolvedIsFinal, Rows, Receipts
<1>13. CustodyAccounted'
  BY DEF CustodyAccounted, Holds, Resolved
<1>14. WaitedFor'
  BY DEF WaitedFor, Aborted
<1>15. AdriftOnce'
  BY DEF AdriftOnce
<1> QED
  BY <1>1, <1>2, <1>3, <1>4, <1>5, <1>6, <1>7, <1>8, <1>9, <1>10, <1>11, <1>12, <1>13,
     <1>14, <1>15

\* Claim: an empty resource gets its only row; a held one yields a lease that cannot write.
LEMMA ClaimInv ==
    ASSUME Inv, NEW i \in Invocations, Claim(i)
    PROVE  CoordinationInv'
<1> USE NoneAssumption, BoundAssumption, LimitAssumption
    DEF Inv, TypeOK, CoordinationInv, Claim, ClaimTransaction, ClaimFree, ClaimHeld,
        RowsOf, NewRow, Recoverable, StartedAt, Go, clockVars, storeVars, leaseVars,
        workVars, Live, Ended, Fresh, States, Calls, HostCall, Proceeds
<1>1. RowsBelong'
  BY DEF RowsBelong, Rows, FreshIsClean
<1>2. OneRowPerResource'
  BY DEF OneRowPerResource
<1>3. FreshIsClean'
  BY DEF FreshIsClean
<1>4. AbortsFirst'
  BY DEF AbortsFirst, FreshIsClean
<1>5. LeaseHolds'
  <2>1. CASE ClaimFree(i)
    <3>1. \E row \in rows' : row.token = i
      <4>1. NewRow(i) \in rows'
        BY <2>1
      <4>2. NewRow(i).token = i
        OBVIOUS
      <4> QED
        BY <4>1, <4>2
    <3>2. rows \subseteq rows'
      BY <2>1
    <3>3. \A j \in Invocations \ {i} : (pc[j] \in Live) = (pc'[j] \in Live)
                                      /\ acquired'[j] = acquired[j]
      BY <2>1
    <3> QED
      BY <3>1, <3>2, <3>3 DEF LeaseHolds
  <2>2. CASE ClaimHeld(i)
    BY <2>2 DEF LeaseHolds, FreshIsClean
  <2> QED
    BY <2>1, <2>2
<1>6. PreviousIsOver'
  BY DEF PreviousIsOver, Rows, RowsBelong, AbortsFirst, FreshIsClean
<1>7. ProofStands'
  BY DEF ProofStands, FreshIsClean
<1>8. EvidenceIsTrue'
  BY DEF EvidenceIsTrue
<1>9. ReceiptsAreOld'
  BY DEF ReceiptsAreOld, Receipts
<1>10. UnsettledWriteHeld'
  BY DEF UnsettledWriteHeld, Holds, Reviewed, Resolved, EvidenceIsTrue
<1>11. BlockedNeverWrites'
  BY DEF BlockedNeverWrites
<1>12. ResolvedIsFinal'
  BY DEF ResolvedIsFinal, Rows, Receipts, ReceiptsAreOld
<1>13. CustodyAccounted'
  <2>1. rows \subseteq rows' /\ UNCHANGED <<resource, receipts, effect, call>>
    OBVIOUS
  <2>2. ASSUME acquired'[i] PROVE Holds(i)'
    <3>1. ClaimFree(i)
      BY <2>2 DEF FreshIsClean
    <3>2. NewRow(i) \in rows' /\ NewRow(i).token = i /\ NewRow(i).resource = resource[i]
      BY <3>1
    <3> QED
      BY <2>1, <3>2 DEF Holds
  <2>3. \A j \in Invocations \ {i} : acquired'[j] = acquired[j] /\ pc'[j] = pc[j]
    OBVIOUS
  <2>4. CustodyAccounted
    OBVIOUS
  <2> QED
    BY ONLY <2>1, <2>2, <2>3, <2>4 DEF CustodyAccounted, Holds, Resolved
<1>14. WaitedFor'
  BY DEF WaitedFor, Aborted, FreshIsClean
<1>15. AdriftOnce'
  BY DEF AdriftOnce, FreshIsClean
<1> QED
  BY <1>1, <1>2, <1>3, <1>4, <1>5, <1>6, <1>7, <1>8, <1>9, <1>10, <1>11, <1>12, <1>13,
     <1>14, <1>15

\* ClaimAnswerLost: the orphaned row belongs to an ended invocation.
LEMMA ClaimAnswerLostInv ==
    ASSUME Inv, NEW i \in Invocations, ClaimAnswerLost(i)
    PROVE  CoordinationInv'
<1> USE NoneAssumption, BoundAssumption, LimitAssumption
    DEF Inv, TypeOK, CoordinationInv, ClaimAnswerLost, RowsOf, NewRow, Go, clockVars,
        storeVars, leaseVars,
        workVars, Live, Ended, Fresh, States, Calls, HostCall, Proceeds
<1>1. RowsBelong'
  BY DEF RowsBelong, Rows
<1>2. OneRowPerResource'
  BY DEF OneRowPerResource
<1>3. FreshIsClean'
  BY DEF FreshIsClean
<1>4. AbortsFirst'
  BY DEF AbortsFirst
<1>5. LeaseHolds'
  BY DEF LeaseHolds, Rows
<1>6. PreviousIsOver'
  BY DEF PreviousIsOver
<1>7. ProofStands'
  BY DEF ProofStands
<1>8. EvidenceIsTrue'
  BY DEF EvidenceIsTrue
<1>9. ReceiptsAreOld'
  BY DEF ReceiptsAreOld, Receipts
<1>10. UnsettledWriteHeld'
  BY DEF UnsettledWriteHeld, Holds, Reviewed, Resolved
<1>11. BlockedNeverWrites'
  BY DEF BlockedNeverWrites
<1>12. ResolvedIsFinal'
  BY DEF ResolvedIsFinal, Rows, Receipts, ReceiptsAreOld
<1>13. CustodyAccounted'
  BY DEF CustodyAccounted, Holds, Resolved, FreshIsClean
<1>14. WaitedFor'
  BY DEF WaitedFor, Aborted, FreshIsClean
<1>15. AdriftOnce'
  BY DEF AdriftOnce
<1> QED
  BY <1>1, <1>2, <1>3, <1>4, <1>5, <1>6, <1>7, <1>8, <1>9, <1>10, <1>11, <1>12, <1>13,
     <1>14, <1>15

\* AdmitAction: the write is admitted before anything is reported.
LEMMA AdmitActionInv ==
    ASSUME Inv, NEW i \in Invocations, AdmitAction(i)
    PROVE  CoordinationInv'
<1> USE NoneAssumption, BoundAssumption, LimitAssumption
    DEF Inv, TypeOK, CoordinationInv, AdmitAction, Admits, Go, clockVars, storeVars,
        leaseVars,
        workVars, Live, Ended, Fresh, States, Calls, HostCall, Proceeds
<1>1. RowsBelong'
  BY DEF RowsBelong, Rows
<1>2. OneRowPerResource'
  BY DEF OneRowPerResource
<1>3. FreshIsClean'
  BY DEF FreshIsClean
<1>4. AbortsFirst'
  BY DEF AbortsFirst
<1>5. LeaseHolds'
  BY DEF LeaseHolds, Rows
<1>6. PreviousIsOver'
  BY DEF PreviousIsOver
<1>7. ProofStands'
  BY DEF ProofStands
<1>8. EvidenceIsTrue'
  BY DEF EvidenceIsTrue
<1>9. ReceiptsAreOld'
  BY DEF ReceiptsAreOld, Receipts
<1>10. UnsettledWriteHeld'
  BY DEF UnsettledWriteHeld, Holds, Reviewed, Resolved
<1>11. BlockedNeverWrites'
  BY DEF BlockedNeverWrites
<1>12. ResolvedIsFinal'
  BY DEF ResolvedIsFinal, Rows, Receipts
<1>13. CustodyAccounted'
  BY DEF CustodyAccounted, Holds, Resolved, EvidenceIsTrue
<1>14. WaitedFor'
  BY DEF WaitedFor, Aborted
<1>15. AdriftOnce'
  BY DEF AdriftOnce
<1> QED
  BY <1>1, <1>2, <1>3, <1>4, <1>5, <1>6, <1>7, <1>8, <1>9, <1>10, <1>11, <1>12, <1>13,
     <1>14, <1>15

\* Dispatch: the abort signal has not fired, so the row is still there and nobody was offered the recovery.
LEMMA DispatchInv ==
    ASSUME Inv, NEW i \in Invocations, Dispatch(i)
    PROVE  CoordinationInv'
<1> USE NoneAssumption, BoundAssumption, LimitAssumption
    DEF Inv, TypeOK, CoordinationInv, Dispatch, Aborted, Go, clockVars, storeVars,
        leaseVars,
        workVars, Live, Ended, Fresh, States, Calls, HostCall, Proceeds
<1>1. RowsBelong'
  BY DEF RowsBelong, Rows
<1>2. OneRowPerResource'
  BY DEF OneRowPerResource
<1>3. FreshIsClean'
  BY DEF FreshIsClean
<1>4. AbortsFirst'
  BY DEF AbortsFirst
<1>5. LeaseHolds'
  BY DEF LeaseHolds, Rows
<1>6. PreviousIsOver'
  BY DEF PreviousIsOver
<1>7. ProofStands'
  <2>1. deadline[i] > now /\ (pc[i] \in Ended => adrift[i])
    BY DEF AbortsFirst, WaitedFor
  <2> QED
    BY <2>1 DEF ProofStands, PreviousIsOver
<1>8. EvidenceIsTrue'
  BY DEF EvidenceIsTrue
<1>9. ReceiptsAreOld'
  BY DEF ReceiptsAreOld, Receipts
<1>10. UnsettledWriteHeld'
  <2>1. acquired[i] /\ now < deadline[i]
    BY DEF EvidenceIsTrue, BlockedNeverWrites, AbortsFirst
  <2>2. pc[i] = "running" => Holds(i)
    BY <2>1 DEF LeaseHolds, RowsBelong, Holds
  <2>3. pc[i] # "running" => adrift[i]
    BY DEF WaitedFor
  <2>4. Holds(i) \/ Resolved(i)
    BY <2>1 DEF CustodyAccounted
  <2>5. /\ UNCHANGED <<rows, receipts, resource, adrift>>
        /\ \A j \in Invocations \ {i} : effect'[j] = effect[j]
    OBVIOUS
  <2>6. UnsettledWriteHeld
    OBVIOUS
  <2> QED
    BY ONLY <2>2, <2>3, <2>4, <2>5, <2>6 DEF UnsettledWriteHeld, Holds, Reviewed, Resolved
<1>11. BlockedNeverWrites'
  BY DEF BlockedNeverWrites, EvidenceIsTrue
<1>12. ResolvedIsFinal'
  BY DEF ResolvedIsFinal, Rows, Receipts
<1>13. CustodyAccounted'
  BY DEF CustodyAccounted, Holds, Resolved
<1>14. WaitedFor'
  BY DEF WaitedFor, Aborted
<1>15. AdriftOnce'
  BY DEF AdriftOnce
<1> QED
  BY <1>1, <1>2, <1>3, <1>4, <1>5, <1>6, <1>7, <1>8, <1>9, <1>10, <1>11, <1>12, <1>13,
     <1>14, <1>15

\* Settle: the provider only ever settles an open write.
LEMMA SettleInv ==
    ASSUME Inv, NEW i \in Invocations, Settle(i)
    PROVE  CoordinationInv'
<1> USE NoneAssumption, BoundAssumption, LimitAssumption
    DEF Inv, TypeOK, CoordinationInv, Settle, clockVars, storeVars, leaseVars,
        workVars, Live, Ended, Fresh, States, Calls, HostCall, Proceeds
<1>1. RowsBelong'
  BY DEF RowsBelong, Rows
<1>2. OneRowPerResource'
  BY DEF OneRowPerResource
<1>3. FreshIsClean'
  BY DEF FreshIsClean
<1>4. AbortsFirst'
  BY DEF AbortsFirst
<1>5. LeaseHolds'
  BY DEF LeaseHolds, Rows
<1>6. PreviousIsOver'
  BY DEF PreviousIsOver
<1>7. ProofStands'
  BY DEF ProofStands
<1>8. EvidenceIsTrue'
  BY DEF EvidenceIsTrue
<1>9. ReceiptsAreOld'
  BY DEF ReceiptsAreOld, Receipts
<1>10. UnsettledWriteHeld'
  BY DEF UnsettledWriteHeld, Holds, Reviewed, Resolved
<1>11. BlockedNeverWrites'
  BY DEF BlockedNeverWrites
<1>12. ResolvedIsFinal'
  BY DEF ResolvedIsFinal, Rows, Receipts
<1>13. CustodyAccounted'
  BY DEF CustodyAccounted, Holds, Resolved
<1>14. WaitedFor'
  BY DEF WaitedFor, Aborted
<1>15. AdriftOnce'
  BY DEF AdriftOnce
<1> QED
  BY <1>1, <1>2, <1>3, <1>4, <1>5, <1>6, <1>7, <1>8, <1>9, <1>10, <1>11, <1>12, <1>13,
     <1>14, <1>15

\* Report: evidence is true when it is given.
LEMMA ReportInv ==
    ASSUME Inv, NEW i \in Invocations, NEW o \in {"completed", "rejected", "unknown"},
           Report(i, o)
    PROVE  CoordinationInv'
<1> USE NoneAssumption, BoundAssumption, LimitAssumption
    DEF Inv, TypeOK, CoordinationInv, Report, Truthful, clockVars, storeVars, leaseVars,
        workVars, Live, Ended, Fresh, States, Calls, HostCall, Proceeds
<1>1. RowsBelong'
  BY DEF RowsBelong, Rows
<1>2. OneRowPerResource'
  BY DEF OneRowPerResource
<1>3. FreshIsClean'
  BY DEF FreshIsClean
<1>4. AbortsFirst'
  BY DEF AbortsFirst
<1>5. LeaseHolds'
  BY DEF LeaseHolds, Rows
<1>6. PreviousIsOver'
  BY DEF PreviousIsOver
<1>7. ProofStands'
  BY DEF ProofStands
<1>8. EvidenceIsTrue'
  BY DEF EvidenceIsTrue
<1>9. ReceiptsAreOld'
  BY DEF ReceiptsAreOld, Receipts
<1>10. UnsettledWriteHeld'
  BY DEF UnsettledWriteHeld, Holds, Reviewed, Resolved
<1>11. BlockedNeverWrites'
  BY DEF BlockedNeverWrites
<1>12. ResolvedIsFinal'
  BY DEF ResolvedIsFinal, Rows, Receipts
<1>13. CustodyAccounted'
  BY DEF CustodyAccounted, Holds, Resolved
<1>14. WaitedFor'
  BY DEF WaitedFor, Aborted
<1>15. AdriftOnce'
  BY DEF AdriftOnce
<1> QED
  BY <1>1, <1>2, <1>3, <1>4, <1>5, <1>6, <1>7, <1>8, <1>9, <1>10, <1>11, <1>12, <1>13,
     <1>14, <1>15

\* Finish: custody goes back on proof, or is marked unknown.
LEMMA FinishInv ==
    ASSUME Inv, NEW i \in Invocations, Finish(i)
    PROVE  CoordinationInv'
<1> USE NoneAssumption, BoundAssumption, LimitAssumption
    DEF Inv, TypeOK, CoordinationInv, Finish, Go, clockVars, storeVars, leaseVars,
        workVars, Live, Ended, Fresh, States, Calls, HostCall, Proceeds
<1>1. RowsBelong'
  BY SettleCustodyRows DEF RowsBelong, Rows
<1>2. OneRowPerResource'
  BY SettleCustodyRows DEF OneRowPerResource
<1>3. FreshIsClean'
  BY DEF FreshIsClean
<1>4. AbortsFirst'
  BY DEF AbortsFirst
<1>5. LeaseHolds'
  BY SettleCustodyRows DEF LeaseHolds, Rows
<1>6. PreviousIsOver'
  BY DEF PreviousIsOver
<1>7. ProofStands'
  BY DEF ProofStands
<1>8. EvidenceIsTrue'
  BY DEF EvidenceIsTrue
<1>9. ReceiptsAreOld'
  BY DEF ReceiptsAreOld, Receipts
<1>10. UnsettledWriteHeld'
  <2>1. effect[i] = "sent" => Evidence(i) = "unknown"
    BY DEF EvidenceIsTrue, Evidence
  <2>2. SettleCustody(i) /\ UNCHANGED <<effect, receipts, resource, adrift>>
    OBVIOUS
  <2>3. \A p \in rows : p.token # i \/ Evidence(i) = "unknown" =>
            \E q \in rows' : q.token = p.token /\ q.resource = p.resource
    BY <2>2, SettleCustodyRows
  <2>4. UnsettledWriteHeld
    OBVIOUS
  <2>5. ASSUME NEW j \in Invocations, effect[j] = "sent", Holds(j)
        PROVE  Holds(j)'
    BY ONLY <2>1, <2>2, <2>3, <2>5, j = i \/ j # i DEF Holds
  <2> QED
    BY ONLY <2>2, <2>4, <2>5 DEF UnsettledWriteHeld, Reviewed, Resolved
<1>11. BlockedNeverWrites'
  BY DEF BlockedNeverWrites
<1>12. ResolvedIsFinal'
  BY SettleCustodyRows DEF ResolvedIsFinal, Rows, Receipts
<1>13. CustodyAccounted'
  <2>1. effect[i] = "sent" \/ call[i] = "admitted" => Evidence(i) = "unknown"
    BY DEF EvidenceIsTrue, Evidence
  <2>2. SettleCustody(i) /\ UNCHANGED <<effect, receipts, resource, call, acquired>>
    OBVIOUS
  <2>3. /\ \A p \in rows : p.token # i \/ Evidence(i) = "unknown" =>
              \E q \in rows' : q.token = p.token /\ q.resource = p.resource
        /\ pc'[i] = "done" /\ \A j \in Invocations \ {i} : pc'[j] = pc[j]
    BY <2>2, SettleCustodyRows
  <2>4. CustodyAccounted
    OBVIOUS
  <2> QED
    BY ONLY <2>1, <2>2, <2>3, <2>4 DEF CustodyAccounted, Holds, Resolved, Live
<1>14. WaitedFor'
  BY DEF WaitedFor, Aborted
<1>15. AdriftOnce'
  BY DEF AdriftOnce
<1> QED
  BY <1>1, <1>2, <1>3, <1>4, <1>5, <1>6, <1>7, <1>8, <1>9, <1>10, <1>11, <1>12, <1>13,
     <1>14, <1>15

\* ResolveStart: a recovery starts from a settled write.
LEMMA ResolveStartInv ==
    ASSUME Inv, NEW i \in Invocations, ResolveStart(i)
    PROVE  CoordinationInv'
<1> USE NoneAssumption, BoundAssumption, LimitAssumption
    DEF Inv, TypeOK, CoordinationInv, ResolveStart, SourceProof, Go, clockVars,
        storeVars, leaseVars,
        workVars, Live, Ended, Fresh, States, Calls, HostCall, Proceeds
<1>1. RowsBelong'
  BY DEF RowsBelong, Rows
<1>2. OneRowPerResource'
  BY DEF OneRowPerResource
<1>3. FreshIsClean'
  BY DEF FreshIsClean
<1>4. AbortsFirst'
  BY DEF AbortsFirst
<1>5. LeaseHolds'
  BY DEF LeaseHolds, Rows
<1>6. PreviousIsOver'
  BY DEF PreviousIsOver
<1>7. ProofStands'
  BY DEF ProofStands
<1>8. EvidenceIsTrue'
  BY DEF EvidenceIsTrue
<1>9. ReceiptsAreOld'
  BY DEF ReceiptsAreOld, Receipts
<1>10. UnsettledWriteHeld'
  BY DEF UnsettledWriteHeld, Holds, Reviewed, Resolved
<1>11. BlockedNeverWrites'
  BY DEF BlockedNeverWrites
<1>12. ResolvedIsFinal'
  BY DEF ResolvedIsFinal, Rows, Receipts
<1>13. CustodyAccounted'
  BY DEF CustodyAccounted, Holds, Resolved
<1>14. WaitedFor'
  BY DEF WaitedFor, Aborted
<1>15. AdriftOnce'
  BY DEF AdriftOnce
<1> QED
  BY <1>1, <1>2, <1>3, <1>4, <1>5, <1>6, <1>7, <1>8, <1>9, <1>10, <1>11, <1>12, <1>13,
     <1>14, <1>15

\* ResolveCommit: only the proven operation's row is removed.
LEMMA ResolveCommitInv ==
    ASSUME Inv, NEW i \in Invocations, ResolveCommit(i)
    PROVE  CoordinationInv'
<1> USE NoneAssumption, BoundAssumption, LimitAssumption
    DEF Inv, TypeOK, CoordinationInv, ResolveCommit, Verified, RowsOf, Go, clockVars,
        storeVars, leaseVars,
        workVars, Live, Ended, Fresh, States, Calls, HostCall, Proceeds
<1>1. RowsBelong'
  BY DEF RowsBelong, Rows
<1>2. OneRowPerResource'
  BY DEF OneRowPerResource
<1>3. FreshIsClean'
  BY DEF FreshIsClean
<1>4. AbortsFirst'
  BY DEF AbortsFirst
<1>5. LeaseHolds'
  BY DEF LeaseHolds, Rows, RowsBelong, PreviousIsOver
<1>6. PreviousIsOver'
  BY DEF PreviousIsOver
<1>7. ProofStands'
  BY DEF ProofStands
<1>8. EvidenceIsTrue'
  BY DEF EvidenceIsTrue
<1>9. ReceiptsAreOld'
  BY DEF ReceiptsAreOld, Receipts, Rows, RowsBelong
<1>10. UnsettledWriteHeld'
  <2>1. PICK gone \in Verified(i) : TRUE
    OBVIOUS
  <2> DEFINE x == [token |-> gone.token, resolution |-> "source_verified"]
  <2>2. /\ gone \in rows /\ gone.token = previous[i]
        /\ rows' = rows \ {gone} /\ receipts \subseteq receipts'
        /\ x \in receipts' /\ x.token = gone.token
    BY <2>1 DEF OneRowPerResource
  <2>3. UNCHANGED <<effect, resource, adrift>>
    OBVIOUS
  <2>4. effect[gone.token] = "sent" => adrift[gone.token]
    BY <2>2 DEF ProofStands
  <2>5. UnsettledWriteHeld
    OBVIOUS
  <2> HIDE DEF x
  <2> QED
    BY ONLY <2>2, <2>3, <2>4, <2>5 DEF UnsettledWriteHeld, Holds, Reviewed, Resolved
<1>11. BlockedNeverWrites'
  BY DEF BlockedNeverWrites
<1>12. ResolvedIsFinal'
  BY DEF ResolvedIsFinal, Rows, Receipts, RowsBelong
<1>13. CustodyAccounted'
  <2>1. PICK gone \in Verified(i) : TRUE
    OBVIOUS
  <2> DEFINE x == [token |-> gone.token, resolution |-> "source_verified"]
  <2>2. /\ gone \in rows /\ gone.token = previous[i]
        /\ rows' = rows \ {gone} /\ receipts \subseteq receipts'
        /\ x \in receipts' /\ x.token = gone.token
    BY <2>1 DEF OneRowPerResource
  <2>3. UNCHANGED <<pc, acquired, effect, resource>>
    OBVIOUS
  <2>4. CustodyAccounted /\ \A j \in Invocations : call'[j] = "admitted" => call[j] = "admitted"
    OBVIOUS
  <2> HIDE DEF x
  <2> QED
    BY ONLY <2>2, <2>3, <2>4 DEF CustodyAccounted, Holds, Resolved
<1>14. WaitedFor'
  BY DEF WaitedFor, Aborted
<1>15. AdriftOnce'
  BY DEF AdriftOnce
<1> QED
  BY <1>1, <1>2, <1>3, <1>4, <1>5, <1>6, <1>7, <1>8, <1>9, <1>10, <1>11, <1>12, <1>13,
     <1>14, <1>15

-----------------------------------------------------------------------------
(* The invariant and the safety properties *)

LEMMA InvPreserved == Inv /\ [Next]_vars => Inv'
<1> SUFFICES ASSUME Inv, [Next]_vars PROVE CoordinationInv'
  BY TypePreserved DEF Inv
<1>1. ASSUME NEW i \in Invocations, Step(i) PROVE CoordinationInv'
  <2>1. CASE \E o \in {"completed", "rejected", "unknown"} : Report(i, o)
    BY <2>1, ReportInv
  <2> QED
    BY <1>1, <2>1, StartInv, AuthorizeInv, RefuseInv, ClaimInv, ClaimAnswerLostInv,
       AdmitActionInv, DispatchInv, SettleInv, FinishInv, ResolveStartInv,
       ResolveCommitInv, QuietInv, WorkerLostInv
    DEF Step
<1>2. ASSUME NEW row \in rows, Review(row) PROVE CoordinationInv'
  BY <1>2, ReviewInv
<1>3. CASE Reconnect \/ Reopen \/ Tick \/ UNCHANGED vars
  BY <1>3, WorldInv
<1> QED
  BY <1>1, <1>2, <1>3 DEF Next

LEMMA InitEstablishes == Init => Inv
<1> USE LimitAssumption, NoneAssumption DEF Init
<1>1. Init => TypeOK
  BY DEF TypeOK, States, Calls
<1>2. Init => CoordinationInv
  BY DEF CoordinationInv, RowsBelong, OneRowPerResource, FreshIsClean, AbortsFirst,
     LeaseHolds, CustodyAccounted, WaitedFor, AdriftOnce, PreviousIsOver, ProofStands,
     EvidenceIsTrue, ReceiptsAreOld, UnsettledWriteHeld, BlockedNeverWrites,
     ResolvedIsFinal, Live
<1> QED
  BY <1>1, <1>2 DEF Inv

LEMMA InvAlways == Spec => []Inv
BY InitEstablishes, InvPreserved, PTL DEF Spec

\* What makes a dispatch safe: the abort signal has not fired, so the deadline has
\* not passed, and a connector that still waits keeps the row in the table.
LEMMA DispatchCovered ==
    ASSUME Inv, NEW i \in Invocations, Dispatch(i)
    PROVE  /\ now < deadline[i]
           /\ Holds(i) \/ (adrift[i] /\ Resolved(i))
<1> USE DEF Inv, TypeOK, CoordinationInv, Dispatch, Proceeds, Aborted
<1>1. acquired[i] /\ now < deadline[i]
  BY DEF EvidenceIsTrue, BlockedNeverWrites, AbortsFirst
<1>2. CASE pc[i] = "running"
  BY <1>1, <1>2 DEF LeaseHolds, RowsBelong, Holds, Live
<1>3. CASE pc[i] # "running"
  <2>1. adrift[i]
    BY <1>3 DEF WaitedFor
  <2>2. Holds(i) \/ Resolved(i)
    BY <1>1 DEF CustodyAccounted
  <2> QED
    BY <1>1, <2>1, <2>2
<1> QED
  BY <1>1, <1>2, <1>3

\* The inductive invariant holds in every reachable state.
THEOREM CoordinationInvHolds == Spec => []CoordinationInv
BY InvAlways, PTL DEF Inv

\* An open write keeps its resource held until its fate is known, unless a
\* reviewer released the resource, or its connector was lost before the write was
\* dispatched and the claim was resolved since (finish() and resolvePrevious() of
\* service/src/operation-coordination.ts).
THEOREM OpenWritesAreHeld == Spec => []UnsettledWriteHeld
BY InvAlways, PTL DEF Inv, CoordinationInv

\* A blocked invocation dispatches nothing, even after a recovery
\* (runtime/src/operation-coordination-execution.ts).
THEOREM BlockedInvocationsAreInert == Spec => []BlockedNeverWrites
BY InvAlways, PTL DEF Inv, CoordinationInv

\* A token with a recorded resolution holds nothing ever after.
THEOREM ResolutionsAreFinal == Spec => []ResolvedIsFinal
BY InvAlways, PTL DEF Inv, CoordinationInv

\* A write leaves the process before its claim's deadline and while its
\* invocation's row is in the table: nobody can have resolved the operation
\* between its claim and its dispatch.  The one exception is a write whose
\* connector was lost after the write was admitted (compute/src/worker-pool.ts
\* rejects the run, runtime/src/operation-execution.ts reports `unknown' and the
\* nested call goes on): then the claim may have been resolved since.
THEOREM WritesLeaveUnderCustody == Spec => WritesUnderCustody
<1> DEFINE Leaves(i) == effect[i] = "none" /\ effect'[i] = "sent"
           Covered(i) == now < deadline[i] /\ (Holds(i) \/ (adrift[i] /\ Resolved(i)))
<1>1. ASSUME Inv, [Next]_vars, NEW i \in Invocations, Leaves(i)
      PROVE  Covered(i)
  <2>1. Dispatch(i)
    BY <1>1
    DEF Next, Step, Start, Authorize, Refuse, Claim, ClaimAnswerLost, AdmitAction,
        NestedDenied, Settle, Answered, Report, Return, WorkerLost, Finish, FinishFails,
        ResolveStart, ResolveSend, ResolveCommit, ResolveFails, Crash, Review, Reconnect,
        Reopen, Tick, vars, workVars, Dispatch, Inv, TypeOK
  <2> QED
    BY <1>1, <2>1, DispatchCovered
<1>2. Inv /\ [Next]_vars =>
        [\A i \in Invocations :
          effect[i] = "none" /\ effect'[i] = "sent" =>
             /\ now < deadline[i]
             /\ Holds(i) \/ (adrift[i] /\ Resolved(i))]_vars
  BY <1>1
<1> HIDE DEF Leaves, Covered
<1> QED
  BY <1>2, InvAlways, PTL DEF Spec, WritesUnderCustody

\* Nothing but a recorded proof, a recorded review or the invocation's own end
\* with evidence releases a resource; an unknown one only a receipt.
THEOREM UncertaintyOutlivesTime == Spec => UncertainStaysHeld
<1> DEFINE Gone(row) == \A r \in rows' : r.token # row.token
           Receipted(row) == \E x \in receipts' \ receipts : x.token = row.token
           Own(row) == /\ row.state = "executing" /\ pc[row.token] = "finishing"
                       /\ pc'[row.token] = "done"
<1>1. ASSUME Inv, [Next]_vars, NEW row \in rows, Gone(row)
      PROVE  Receipted(row) \/ Own(row)
  <2>1. ASSUME NEW i \in Invocations, Finish(i) PROVE Own(row)
    <3>1. row.token = i /\ acquired[i] /\ Evidence(i) # "unknown"
      BY <1>1, <2>1, SettleCustodyRows DEF Finish, Inv, CoordinationInv
    <3>2. row.state = "executing"
      BY <2>1, <3>1 , <1>1
      DEF Finish, Go, Inv, TypeOK, CoordinationInv, RowsBelong, Rows, Ended
    <3> QED
      BY <1>1, <2>1, <3>1, <3>2 DEF Finish, Go, Inv, TypeOK
  <2>2. ASSUME NEW i \in Invocations, ResolveCommit(i) PROVE Receipted(row)
    <3>1. row \in Verified(i)
      BY <1>1, <2>2 DEF ResolveCommit
    <3> DEFINE x == [token |-> row.token, resolution |-> "source_verified"]
    <3>2. x \in receipts' /\ x.token = row.token
      BY <2>2, <3>1 DEF ResolveCommit
    <3>3. x \notin receipts
      BY <1>1 DEF Inv, CoordinationInv, ResolvedIsFinal
    <3> QED
      BY <3>2, <3>3
  <2>3. ASSUME NEW other \in rows, Review(other) PROVE Receipted(row)
    <3>1. row = other
      BY <1>1, <2>3 DEF Review
    <3> DEFINE x == [token |-> row.token, resolution |-> "reviewed"]
    <3>2. x \in receipts' /\ x.token = row.token
      BY <2>3, <3>1 DEF Review
    <3>3. x \notin receipts
      BY <1>1 DEF Inv, CoordinationInv, ResolvedIsFinal
    <3> QED
      BY <3>2, <3>3
  <2>4. CASE rows \subseteq rows'
    BY <1>1, <2>4
  <2> QED
    BY <1>1, <2>1, <2>2, <2>3, <2>4
    DEF Next, Step, Start, Authorize, Refuse, Claim, ClaimTransaction, ClaimFree,
        ClaimHeld, ClaimAnswerLost, AdmitAction, NestedDenied, Settle, Answered, Report,
        Return, WorkerLost, FinishFails, ResolveStart, ResolveSend, ResolveFails, Crash,
        Reconnect, Reopen, Tick, vars, storeVars, Dispatch
<1>2. Inv /\ [Next]_vars =>
        [\A row \in rows :
          (\A r \in rows' : r.token # row.token) =>
             \/ \E x \in receipts' \ receipts : x.token = row.token
             \/ row.state = "executing" /\ pc[row.token] = "finishing"
                                        /\ pc'[row.token] = "done"]_vars
  BY <1>1
<1> HIDE DEF Gone, Receipted, Own
<1> QED
  BY <1>2, InvAlways, PTL DEF Spec, UncertainStaysHeld

-----------------------------------------------------------------------------
(* Under whose authority: what CoordinationInv does not have to know *)

\* A row carries the authority its invocation was started under.
RowsNameAuthority ==
    \A row \in rows :
        row.generation = granted[row.token] /\ row.epoch = born[row.token]

\* What a lease offers for recovery was started under the lease's own authority.
LeaseSharesAuthority ==
    \A i \in Invocations :
        previous[i] # None => /\ granted[previous[i]] = granted[i]
                              /\ born[previous[i]] = born[i]

\* An invocation at work, or a host call it left behind, belongs to the process of
\* the running epoch.
WorkIsCurrent ==
    \A i \in Invocations :
        pc[i] \notin Ended \cup {"idle"} \/ call[i] # "none" => born[i] = epoch

AuthorityInv == RowsNameAuthority /\ LeaseSharesAuthority /\ WorkIsCurrent

LEMMA AuthorityPreserved == Inv /\ AuthorityInv /\ [Next]_vars => AuthorityInv'
<1> SUFFICES ASSUME Inv, AuthorityInv, [Next]_vars PROVE AuthorityInv'
  OBVIOUS
<1> USE NoneAssumption DEF AuthorityInv, Inv, TypeOK, Ended
<1>1. ASSUME UNCHANGED <<rows, previous, granted, born, epoch>>,
             \A i \in Invocations :
                pc[i] \in {"idle", "done"} /\ call[i] = "none" =>
                    pc'[i] \in {"idle", "done"} /\ call'[i] = "none"
      PROVE  AuthorityInv'
  BY <1>1 DEF RowsNameAuthority, LeaseSharesAuthority, WorkIsCurrent
<1>2. ASSUME NEW i \in Invocations, Start(i) PROVE AuthorityInv'
  <2>1. \A row \in rows : row.token # i /\ row.token \in Invocations
    BY <1>2 DEF Start, Go, CoordinationInv, RowsBelong, Fresh, Rows
  <2>2. previous[i] = None /\ \A j \in Invocations : previous[j] # i
    BY <1>2 DEF Start, Go, CoordinationInv, FreshIsClean, PreviousIsOver, Fresh
  <2>3. RowsNameAuthority' /\ WorkIsCurrent'
    BY <1>2, <2>1
    DEF Start, Go, RowsNameAuthority, WorkIsCurrent, storeVars, clockVars
  <2>4. LeaseSharesAuthority'
    BY <1>2, <2>2 DEF Start, LeaseSharesAuthority
  <2> QED
    BY <2>3, <2>4
<1>3. ASSUME NEW i \in Invocations, Claim(i) \/ ClaimAnswerLost(i) PROVE AuthorityInv'
  <2>1. UNCHANGED <<granted, born, epoch>>
    BY <1>3 DEF Claim, ClaimAnswerLost, clockVars, leaseVars
  <2>2. rows' = rows \/ rows' = rows \cup {NewRow(i)}
    BY <1>3 DEF Claim, ClaimAnswerLost, ClaimTransaction, ClaimFree, ClaimHeld
  <2>3. RowsNameAuthority'
    BY <2>1, <2>2 DEF RowsNameAuthority, NewRow
  <2>4. \A j \in Invocations \ {i} : previous'[j] = previous[j]
    BY <1>3 DEF Claim, ClaimAnswerLost, ClaimTransaction, ClaimFree, ClaimHeld, leaseVars
  <2>5. \/ previous'[i] = previous[i] \/ previous'[i] = None
        \/ \E row \in rows : previous'[i] = row.token /\ Recoverable(i, row)
    BY <1>3 DEF Claim, ClaimAnswerLost, ClaimTransaction, ClaimFree, ClaimHeld, leaseVars,
                RowsOf
  <2>6. LeaseSharesAuthority'
    BY <2>1, <2>4, <2>5 DEF LeaseSharesAuthority, RowsNameAuthority, Recoverable
  <2>7. WorkIsCurrent'
    BY <1>3, <2>1 DEF Claim, ClaimAnswerLost, Go, WorkIsCurrent
  <2> QED
    BY <2>3, <2>6, <2>7
<1>4. ASSUME NEW i \in Invocations, Finish(i) PROVE AuthorityInv'
  <2>1. \A q \in rows' : \E p \in rows :
            q.token = p.token /\ q.generation = p.generation /\ q.epoch = p.epoch
    BY <1>4 DEF Finish, SettleCustody, DeleteRow, MarkUnknown, Rows
  <2> QED
    BY <1>4, <2>1
    DEF Finish, Go, RowsNameAuthority, LeaseSharesAuthority, WorkIsCurrent, clockVars,
        leaseVars
<1>5. ASSUME NEW i \in Invocations, ResolveCommit(i) PROVE AuthorityInv'
  BY <1>5
  DEF ResolveCommit, Proceeds, RowsNameAuthority, LeaseSharesAuthority, WorkIsCurrent, clockVars
<1>6. ASSUME NEW row \in rows, Review(row) PROVE AuthorityInv'
  BY <1>6
  DEF Review, RowsNameAuthority, LeaseSharesAuthority, WorkIsCurrent, clockVars, leaseVars
<1>7. CASE Reopen
  BY <1>7
  DEF Reopen, RowsNameAuthority, LeaseSharesAuthority, WorkIsCurrent, storeVars, leaseVars
<1>8. ASSUME NEW i \in Invocations, Step(i)
      PROVE  \/ Start(i) \/ Claim(i) \/ ClaimAnswerLost(i) \/ Finish(i) \/ ResolveCommit(i)
             \/ /\ UNCHANGED <<rows, previous, granted, born, epoch>>
                /\ \A j \in Invocations :
                     pc[j] \in {"idle", "done"} /\ call[j] = "none" =>
                         pc'[j] \in {"idle", "done"} /\ call'[j] = "none"
  BY <1>8
  DEF Step, Authorize, Refuse, AdmitAction, Dispatch, NestedDenied, Settle, Answered,
      Report, Return, WorkerLost, FinishFails, ResolveStart, ResolveSend, ResolveFails, Crash, Go,
      HostCall, Proceeds, clockVars, storeVars, leaseVars
<1>9. CASE Reconnect \/ Tick \/ UNCHANGED vars
  BY <1>1, <1>9 DEF Reconnect, Tick, vars, storeVars, leaseVars
<1> QED
  BY <1>1, <1>2, <1>3, <1>4, <1>5, <1>6, <1>7, <1>8, <1>9 DEF Next

\* A recovery begins only while the connection generation and the epoch are the
\* ones the prior operation was started under (resolvePrevious of
\* service/src/operation-coordination.ts looks at the live generation again).
THEOREM RecoveryKeepsAuthority == Spec => RecoveryUnderOriginalAuthority
<1>1. Init => AuthorityInv
  BY NoneAssumption
  DEF Init, AuthorityInv, RowsNameAuthority, LeaseSharesAuthority, WorkIsCurrent
<1>2. ASSUME Inv, AuthorityInv, [Next]_vars, NEW i \in Invocations, NEW row \in rows,
             call[i] = "none", call'[i] = "resolving", row.token = previous[i]
      PROVE  row.generation = generation /\ row.epoch = epoch
  <2>1. ResolveStart(i)
    BY <1>2
    DEF Next, Step, Start, Authorize, Refuse, Claim, ClaimAnswerLost, AdmitAction, Dispatch,
        NestedDenied, Settle, Answered, Report, Return, WorkerLost, Finish, FinishFails, ResolveStart,
        ResolveSend, ResolveCommit, ResolveFails, Crash, Review, Reconnect, Reopen, Tick,
        Go, HostCall, Proceeds, vars, Ended, Inv, TypeOK
  <2>2. previous[i] # None /\ generation = granted[i]
    BY <2>1 DEF ResolveStart, AuthorityHeld
  <2>3. epoch = born[i]
    BY <1>2, <2>1 DEF ResolveStart, HostCall, AuthorityInv, WorkIsCurrent, Ended
  <2> QED
    BY <1>2, <2>2, <2>3 DEF AuthorityInv, RowsNameAuthority, LeaseSharesAuthority
<1>3. Inv /\ AuthorityInv /\ [Next]_vars =>
        [\A i \in Invocations, row \in rows :
          /\ call[i] = "none" /\ call'[i] = "resolving"
          /\ row.token = previous[i]
          => row.generation = generation /\ row.epoch = epoch]_vars
  BY <1>2
<1> QED
  BY <1>1, <1>3, AuthorityPreserved, InvAlways, PTL
  DEF Spec, RecoveryUnderOriginalAuthority

-----------------------------------------------------------------------------
(* Coordination implements Custody *)

\* With one row per resource, the holder of a resource is the token of its row.
LEMMA HolderOfRow ==
    ASSUME NEW T, \A p, q \in T : p.resource = q.resource => p = q,
           NEW row \in T
    PROVE  HolderIn(T, row.resource) = row.token
BY DEF HolderIn

LEMMA HolderOfNone ==
    ASSUME NEW T, NEW r, \A row \in T : row.resource # r
    PROVE  HolderIn(T, r) = None
BY DEF HolderIn

\* The function the refinement gives to Custody as its holder.
HolderMap == [r \in Resources |-> HolderOf(r)]
Open == {i \in Invocations : effect[i] = "sent"}
Overridden ==
    {i \in Invocations : [token |-> i, resolution |-> "reviewed"] \in receipts}
Stray == {i \in Invocations : adrift[i]}

\* A step that changes at most the table's states, the clock or a control point.
LEMMA SameHolders ==
    ASSUME TypeOK, TypeOK', OneRowPerResource, OneRowPerResource',
           \A q \in rows' : \E p \in rows : q.resource = p.resource /\ q.token = p.token,
           \A p \in rows : \E q \in rows' : q.resource = p.resource /\ q.token = p.token
    PROVE  HolderMap' = HolderMap
<1>1. ASSUME NEW r \in Resources PROVE HolderIn(rows', r) = HolderIn(rows, r)
  <2>1. CASE \E p \in rows : p.resource = r
    BY <2>1, HolderOfRow DEF OneRowPerResource
  <2>2. CASE \A p \in rows : p.resource # r
    BY <2>2, HolderOfNone
  <2> QED
    BY <2>1, <2>2
<1> QED
  BY <1>1 DEF HolderMap, HolderOf

\* A step that only removes rows of one resource, whose holder it is.
LEMMA OneReleased ==
    ASSUME TypeOK, OneRowPerResource, NEW gone \in rows, rows' = rows \ {gone}
    PROVE  /\ HolderMap' = [HolderMap EXCEPT ![gone.resource] = None]
           /\ HolderMap[gone.resource] = gone.token
<1>1. gone.resource \in Resources
  BY DEF TypeOK, Rows
<1>2. HolderIn(rows', gone.resource) = None
  BY HolderOfNone DEF OneRowPerResource
<1>3. ASSUME NEW r \in Resources, r # gone.resource
      PROVE  HolderIn(rows', r) = HolderIn(rows, r)
  <2>1. CASE \E p \in rows : p.resource = r
    <3>1. PICK p \in rows : p.resource = r
      BY <2>1
    <3>2. p \in rows' /\ \A q, w \in rows' : q.resource = w.resource => q = w
      BY <3>1, <1>3 DEF OneRowPerResource
    <3> QED
      BY <3>1, <3>2, HolderOfRow DEF OneRowPerResource
  <2>2. CASE \A p \in rows : p.resource # r
    BY <2>2, HolderOfNone
  <2> QED
    BY <2>1, <2>2
<1> QED
  BY <1>1, <1>2, <1>3, HolderOfRow DEF HolderMap, HolderOf, OneRowPerResource

\* A claim of an unheld resource gives it a holder.
LEMMA OneClaimed ==
    ASSUME TypeOK, OneRowPerResource, OneRowPerResource', NEW i \in Invocations,
           RowsOf(resource[i]) = {}, rows' = rows \cup {NewRow(i)}
    PROVE  /\ HolderMap' = [HolderMap EXCEPT ![resource[i]] = i]
           /\ HolderMap[resource[i]] = None
<1>1. resource[i] \in Resources
  BY DEF TypeOK
<1>2. NewRow(i) \in rows' /\ NewRow(i).token = i /\ NewRow(i).resource = resource[i]
  BY DEF NewRow
<1>3. HolderIn(rows', resource[i]) = i
  BY <1>2, HolderOfRow DEF OneRowPerResource
<1>4. HolderIn(rows, resource[i]) = None
  BY HolderOfNone DEF RowsOf
<1>5. ASSUME NEW r \in Resources, r # resource[i]
      PROVE  HolderIn(rows', r) = HolderIn(rows, r)
  <2>1. CASE \E p \in rows : p.resource = r
    <3>1. PICK p \in rows : p.resource = r
      BY <2>1
    <3>2. p \in rows'
      BY <3>1
    <3>3. HolderIn(rows, r) = p.token
      BY <3>1, HolderOfRow DEF OneRowPerResource
    <3>4. HolderIn(rows', r) = p.token
      BY <3>1, <3>2, HolderOfRow DEF OneRowPerResource
    <3> QED
      BY <3>3, <3>4
  <2>2. CASE \A p \in rows : p.resource # r
    BY <2>2, <1>2, <1>5, HolderOfNone
  <2> QED
    BY <2>1, <2>2
<1> QED
  BY <1>1, <1>3, <1>4, <1>5 DEF HolderMap, HolderOf

\* Every coordination step is a Custody step or leaves Custody's variables alone.
LEMMA StepSimulates ==
    ASSUME Inv, Inv', [Next]_vars
    PROVE  C!CustodyNext \/ UNCHANGED <<HolderMap, Open, Overridden, Stray>>
<1> USE DEF Open, Overridden, Stray
<1>1. ASSUME UNCHANGED <<rows, receipts, effect, adrift>>
      PROVE  UNCHANGED <<HolderMap, Open, Overridden, Stray>>
  BY <1>1 DEF HolderMap, HolderOf
<1>2. ASSUME NEW i \in Invocations, Claim(i) \/ ClaimAnswerLost(i),
             RowsOf(resource[i]) = {}, rows' = rows \cup {NewRow(i)}
      PROVE  C!CustodyNext
  <2>1. /\ HolderMap' = [HolderMap EXCEPT ![resource[i]] = i]
        /\ HolderMap[resource[i]] = None
    BY <1>2, OneClaimed DEF Inv, CoordinationInv
  <2>2. i \notin Open \cup Overridden \cup Stray
    BY <1>2
    DEF Claim, ClaimAnswerLost, Go, Inv, CoordinationInv, FreshIsClean, EvidenceIsTrue,
        BlockedNeverWrites, ReceiptsAreOld, Fresh
  <2>3. UNCHANGED <<Open, Overridden, Stray>>
    BY <1>2 DEF Claim, ClaimAnswerLost, workVars
  <2>4. resource[i] \in Resources
    BY DEF Inv, TypeOK
  <2>5. C!Acquire(resource[i], i)
    BY <2>1, <2>2, <2>3 DEF C!Acquire, HolderMap
  <2> QED
    BY <2>4, <2>5 DEF C!CustodyNext
<1>3. ASSUME NEW i \in Invocations, Dispatch(i) PROVE C!CustodyNext
  <2>1. Open' = Open \cup {i}
    BY <1>3 DEF Dispatch, Inv, TypeOK
  <2>2. UNCHANGED <<HolderMap, Overridden, Stray>>
    BY <1>3 DEF Dispatch, storeVars, HolderMap, HolderOf
  <2>3. CASE Holds(i)
    <3>1. HolderMap[resource[i]] = i
      BY <2>3, HolderOfRow
      DEF Holds, HolderMap, HolderOf, Inv, TypeOK, CoordinationInv, OneRowPerResource
    <3>2. C!Write(resource[i], i)
      BY <2>1, <2>2, <3>1 DEF C!Write, HolderMap
    <3> QED
      BY <3>2 DEF C!CustodyNext, Inv, TypeOK
  <2>4. CASE i \in Stray
    BY <2>1, <2>2, <2>4 DEF C!StrayWrite, C!CustodyNext, HolderMap
  <2> QED
    BY <1>3, <2>3, <2>4, DispatchCovered
<1>4. ASSUME NEW i \in Invocations, Settle(i) PROVE C!CustodyNext
  <2>1. Open' = Open \ {i}
    BY <1>4 DEF Settle, Inv, TypeOK
  <2>2. UNCHANGED <<HolderMap, Overridden, Stray>>
    BY <1>4 DEF Settle, storeVars, HolderMap, HolderOf
  <2>3. C!Settled(i)
    BY <2>1, <2>2 DEF C!Settled, HolderMap
  <2> QED
    BY <2>3 DEF C!CustodyNext
<1>5. ASSUME NEW gone \in rows, rows' = rows \ {gone},
             effect[gone.token] = "sent" => adrift[gone.token],
             UNCHANGED <<Open, Overridden, Stray>>
      PROVE  C!CustodyNext
  <2>1. /\ HolderMap' = [HolderMap EXCEPT ![gone.resource] = None]
        /\ HolderMap[gone.resource] = gone.token
    BY <1>5, OneReleased DEF Inv, CoordinationInv
  <2>2. C!Release(gone.resource)
    BY <1>5, <2>1 DEF C!Release, HolderMap
  <2> QED
    BY <2>2 DEF C!CustodyNext, Inv, TypeOK, Rows
<1>6. ASSUME NEW i \in Invocations, Finish(i)
      PROVE  C!CustodyNext \/ UNCHANGED <<HolderMap, Open, Overridden, Stray>>
  <2>1. UNCHANGED <<Open, Overridden, Stray>>
    BY <1>6 DEF Finish, workVars
  <2>2. CASE \E gone \in rows : gone \notin rows' /\ DeleteRow(resource[i], i) /\ acquired[i]
                                /\ Evidence(i) # "unknown"
    <3>1. PICK gone \in rows : /\ gone \notin rows' /\ DeleteRow(resource[i], i)
                               /\ Evidence(i) # "unknown"
      BY <2>2
    <3>2. gone.resource = resource[i] /\ gone.token = i
      BY <3>1 DEF DeleteRow
    <3>3. rows' = rows \ {gone}
      BY <3>1, <3>2 DEF DeleteRow, Inv, CoordinationInv, OneRowPerResource
    <3>4. effect[i] # "sent"
      BY <1>6, <3>1
      DEF Finish, Evidence, Inv, TypeOK, CoordinationInv, EvidenceIsTrue
    <3> QED
      BY <1>5, <2>1, <3>2, <3>3, <3>4
  <2>3. CASE DeleteRow(resource[i], i) /\ \A p \in rows : p \in rows'
    <3>1. rows' = rows
      BY <2>3 DEF DeleteRow
    <3> QED
      BY <2>1, <3>1 DEF HolderMap, HolderOf
  <2>4. CASE (acquired[i] /\ Evidence(i) = "unknown") \/ ~acquired[i]
    <3>1. /\ \A q \in rows' : \E p \in rows : q.resource = p.resource /\ q.token = p.token
          /\ \A p \in rows : \E q \in rows' : q.resource = p.resource /\ q.token = p.token
      BY <1>6, <2>4, SettleCustodyRows DEF Finish, Inv, CoordinationInv
    <3>2. HolderMap' = HolderMap
      BY <3>1, SameHolders DEF Inv, CoordinationInv
    <3> QED
      BY <2>1, <3>2
  <2> QED
    BY <1>6, <2>2, <2>3, <2>4 DEF Finish, SettleCustody
<1>7. ASSUME NEW i \in Invocations, ResolveCommit(i) PROVE C!CustodyNext
  <2>1. PICK gone \in Verified(i) : TRUE
    BY <1>7 DEF ResolveCommit
  <2>2. gone \in rows /\ Verified(i) = {gone} /\ gone.token = previous[i]
    BY <2>1 DEF Verified, RowsOf, Inv, CoordinationInv, OneRowPerResource
  <2>3. effect[gone.token] = "sent" => adrift[gone.token]
    BY <1>7, <2>2 DEF ResolveCommit, Proceeds, Inv, CoordinationInv, ProofStands
  <2>4. rows' = rows \ {gone}
    BY <1>7, <2>2 DEF ResolveCommit
  <2>5. UNCHANGED <<Open, Overridden, Stray>>
    BY <1>7 DEF ResolveCommit, workVars
  <2> QED
    BY <1>5, <2>2, <2>3, <2>4, <2>5
<1>8. ASSUME NEW gone \in rows, Review(gone) PROVE C!CustodyNext
  <2>1. rows' = rows \ {gone}
    BY <1>8 DEF Review
  <2>2. /\ HolderMap' = [HolderMap EXCEPT ![gone.resource] = None]
        /\ HolderMap[gone.resource] = gone.token
    BY <2>1, OneReleased DEF Inv, CoordinationInv
  <2>3. gone.token \in Invocations /\ gone.resource \in Resources
    BY DEF Inv, TypeOK, Rows
  <2>4. Overridden' = Overridden \cup {gone.token}
    BY <1>8, <2>3 DEF Review
  <2>5. Open' = Open /\ Stray' = Stray
    BY <1>8 DEF Review, workVars
  <2>6. C!Override(gone.resource)
    BY <2>2, <2>3, <2>4, <2>5, NoneAssumption DEF C!Override, HolderMap
  <2> QED
    BY <2>3, <2>6 DEF C!CustodyNext
<1>11. ASSUME NEW i \in Invocations, WorkerLost(i)
       PROVE  C!CustodyNext \/ UNCHANGED <<HolderMap, Open, Overridden, Stray>>
  <2>1. UNCHANGED <<HolderMap, Open, Overridden>>
    BY <1>11 DEF WorkerLost, storeVars, HolderMap, HolderOf
  <2>2. CASE call[i] = "admitted" /\ ~Aborted(i)
    <3>1. i \notin Open /\ i # None
      BY <2>2, NoneAssumption DEF Inv, CoordinationInv, EvidenceIsTrue
    <3>2. Holds(i)
      BY <1>11, <2>2
      DEF WorkerLost, Go, Aborted, Inv, TypeOK, CoordinationInv, EvidenceIsTrue, Holds,
          BlockedNeverWrites, AbortsFirst, LeaseHolds, RowsBelong, Live
    <3>3. HolderMap[resource[i]] = i
      BY <3>2, HolderOfRow
      DEF Holds, HolderMap, HolderOf, Inv, TypeOK, CoordinationInv, OneRowPerResource
    <3>4. adrift' = [adrift EXCEPT ![i] = TRUE]
      BY <1>11, <2>2 DEF WorkerLost
    <3>5. Stray' = Stray \cup {i}
      BY <3>4 DEF Inv, TypeOK
    <3>6. PICK r \in Resources : r = resource[i]
      BY DEF Inv, TypeOK
    <3>7. C!CutOff(r)
      BY <2>1, <3>1, <3>3, <3>5, <3>6 DEF C!CutOff, HolderMap
    <3> QED
      BY <3>7 DEF C!CustodyNext
  <2>3. CASE ~(call[i] = "admitted" /\ ~Aborted(i))
    <3>1. ~adrift[i] /\ ~adrift'[i]
      BY <1>11, <2>3 DEF WorkerLost, Go, Inv, TypeOK, CoordinationInv, AdriftOnce
    <3>2. Stray' = Stray
      BY <1>11, <3>1 DEF WorkerLost, Inv, TypeOK
    <3> QED
      BY <2>1, <3>2
  <2> QED
    BY <2>2, <2>3
<1>9. ASSUME NEW i \in Invocations, Step(i)
      PROVE  C!CustodyNext \/ UNCHANGED <<HolderMap, Open, Overridden, Stray>>
  <2>1. CASE Claim(i) \/ ClaimAnswerLost(i)
    BY <1>1, <1>2, <2>1
    DEF Claim, ClaimAnswerLost, ClaimTransaction, ClaimFree, ClaimHeld, workVars
  <2>2. CASE Dispatch(i) \/ Settle(i) \/ Finish(i) \/ ResolveCommit(i)
    BY <1>3, <1>4, <1>6, <1>7, <2>2
  <2> QED
    BY <1>1, <1>9, <1>11, <2>1, <2>2
    DEF Step, Start, Authorize, Refuse, AdmitAction, NestedDenied, Answered, Report,
        Return, FinishFails, ResolveStart, ResolveSend, ResolveFails, Crash, storeVars,
        workVars
<1>10. CASE Reconnect \/ Reopen \/ Tick \/ UNCHANGED vars
  BY <1>1, <1>10 DEF Reconnect, Reopen, Tick, vars, storeVars, workVars
<1> QED
  BY <1>8, <1>9, <1>10 DEF Next

\* The coordination service implements the abstract custody of resources: one
\* holder, writes by the holder or by one that was cut off after the write was
\* admitted, and no handover over any other open write except by a reviewer.
THEOREM CoordinationImplementsCustody == Spec => ImplementsCustody
<1>1. Init => C!CustodyInit
  <2>1. ASSUME Init PROVE C!CustodyInit
    <3>1. \A r \in Resources : HolderIn(rows, r) = None
      BY <2>1, HolderOfNone DEF Init
    <3> QED
      BY <2>1, <3>1 DEF Init, C!CustodyInit, HolderOf
  <2> QED
    BY <2>1
<1>2. Inv /\ Inv' /\ [Next]_vars => [C!CustodyNext]_(C!custodyVars)
  BY StepSimulates DEF C!custodyVars, HolderMap, Open, Overridden, Stray
<1> QED
  BY <1>1, <1>2, InvAlways, PTL DEF Spec, ImplementsCustody, C!CustodySpec
=============================================================================
