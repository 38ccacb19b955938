------------------------- MODULE AssetObjectsProofs -------------------------
(***************************************************************************)
(* Proofs about AssetObjects for any number of processes, objects, tokens   *)
(* and deployments, any quotas and any number of faults.                    *)
(***************************************************************************)
EXTENDS AssetObjects, FiniteSetTheorems, TLAPS

\* The lists of deployments are finite, on disk as in memory.
Lists ==
    /\ \A k \in Keys : IsFiniteSet(meta[k].marks) /\ IsFiniteSet(metaDisk[k].marks)
    /\ \A k \in Keys : Cardinality(metaDisk[k].marks) <= MaxMarks

\* Neither metadata nor bytes are ever taken away, and bytes are synced before
\* the metadata that names them is renamed.
Stored ==
    \A k \in Keys : /\ Present(metaDisk[k]) => Present(meta[k])
                    /\ Present(meta[k]) => bytes[k] # "none" /\ bytesDisk[k] # "none"

\* Metadata differs from what is synced only while a section is between the
\* rename and the sync, or after one that failed there.
Behind == \A k \in Keys : meta[k] # metaDisk[k] => k \in unsynced \cup Dangles

\* What the section relies on from one step to the next.
Working ==
    /\ at # "free" => holder \in Procs
    /\ at = "bytes" => bytes[Goal(job)] # "none"
    /\ at \in {"bytes", "metadata"} => job \in draft
    /\ at \notin {"bytes", "metadata"} => draft = {}
    /\ draft \subseteq caps
    /\ at \in {"metadata", "unreserve"} => Present(meta[Goal(job)])
    /\ at = "mark" => Remembers(meta[Mine(job)], job)

\* What was promised and not broken is in the metadata, and in what is synced of
\* it unless a failed section left it unsynced.
Acked == acked \ undone
Recorded == recorded \ (replaced \cup undone)
Kept ==
    /\ \A k \in Acked : Present(meta[k]) /\ (k \in unsynced \/ Present(metaDisk[k]))
    /\ \A d \in Recorded : /\ Remembers(meta[Mine(d)], d)
                           /\ Mine(d) \in unsynced \/ Remembers(metaDisk[Mine(d)], d)

\* The bounds hold for the reservations written and those synced together.
Everything == caps \cup capsDisk
Fitting ==
    /\ Cardinality(Everything) <= MaxPending
    /\ \E p \in Procs : Cardinality(Counted(Everything)) <= Quota[p]

Inv == TypeOK /\ Lists /\ Stored /\ Behind /\ Working /\ Kept /\ Fitting

\* A step that leaves the objects alone, makes no reservation, and either stays
\* outside the section or does not touch what it relies on.
Calm ==
    /\ UNCHANGED <<objects, history>>
    /\ caps' \subseteq caps /\ capsDisk' \subseteq caps \cup capsDisk
    /\ \/ UNCHANGED <<at, holder, job, draft, caps>>
       \/ /\ at \notin {"metadata", "mark"}
          /\ at' \notin {"bytes", "metadata", "unreserve", "mark"}
          /\ draft' = {} /\ (at' # "free" => holder' \in Procs)

-----------------------------------------------------------------------------
LEMMA InitInv == Init => Inv
<1> SUFFICES ASSUME Init PROVE Inv
  OBVIOUS
<1>1. \A k \in Keys : meta[k] = NoMetadata /\ metaDisk[k] = NoMetadata
  BY DEF Init
<1>2. ~Present(NoMetadata) /\ NoMetadata.marks = {}
  BY DEF NoMetadata, Present
<1>3. IsFiniteSet({}) /\ Cardinality({}) = 0
  BY FS_EmptySet
<1>4. TypeOK
  <2>1. NoMetadata \in Metadata
    BY DEF Metadata, NoMetadata
  <2>2. meta \in [Keys -> Metadata] /\ metaDisk \in [Keys -> Metadata]
    BY <2>1 DEF Init
  <2>3. \A k \in Keys : Cardinality(meta[k].marks) <= MaxMarks
    <3> TAKE k \in Keys
    <3>1. meta[k].marks = {}
      BY <1>1, <1>2
    <3>2. 0 <= MaxMarks
      BY ShapeAssumption
    <3> QED
      BY <3>1, <3>2, <1>3
  <2>4. /\ caps \subseteq Tokens /\ capsDisk \subseteq Tokens /\ expired \subseteq Tokens
        /\ known \in [Procs -> SUBSET Tokens]
        /\ up \in [Tokens -> {"idle", "drawn", "check", "stage", "revoke"}]
        /\ deploy \in [Deployments -> {"new", "verified", "over"}]
        /\ bytes \in [Keys -> {"none", "good", "bad"}]
        /\ bytesDisk \in [Keys -> {"none", "good", "bad"}]
    BY DEF Init
  <2> QED
    BY <2>2, <2>3, <2>4 DEF TypeOK, Init
<1>5. Lists
  <2> SUFFICES ASSUME NEW k \in Keys
               PROVE  /\ IsFiniteSet(meta[k].marks) /\ IsFiniteSet(metaDisk[k].marks)
                      /\ Cardinality(metaDisk[k].marks) <= MaxMarks
    BY DEF Lists
  <2>1. meta[k].marks = {} /\ metaDisk[k].marks = {}
    BY <1>1, <1>2
  <2>2. 0 <= MaxMarks
    BY ShapeAssumption
  <2> QED
    BY <2>1, <2>2, <1>3
<1>6. Stored /\ Behind /\ Working /\ Kept
  BY <1>1, <1>2 DEF Init, Stored, Behind, Working, Kept, Acked, Recorded
<1>7. Fitting
  <2>1. Everything = {} /\ Counted(Everything) = {}
    BY <1>1, <1>2 DEF Init, Everything, Counted
  <2>2. PICK p \in Procs : TRUE
    BY NoneAssumption
  <2>3. 0 <= Quota[p] /\ 0 <= MaxPending
    BY <2>2, ShapeAssumption
  <2> QED
    BY <2>1, <2>2, <2>3, <1>3 DEF Fitting
<1> QED
  BY <1>4, <1>5, <1>6, <1>7 DEF Inv

LEMMA FiniteSpace ==
    ASSUME Inv
    PROVE  IsFiniteSet(Everything) /\ IsFiniteSet(Counted(Everything))
<1>1. Everything \subseteq Tokens
  BY DEF Everything, Inv, TypeOK
<1>2. Counted(Everything) \subseteq Keys
  BY <1>1, ShapeAssumption DEF Counted, Goal
<1> QED
  BY <1>1, <1>2, FiniteAssumption, FS_Subset

\* Fewer reservations and no new metadata fit where more did.
LEMMA FittingShrinks ==
    ASSUME Inv, TypeOK', Everything' \subseteq Everything,
           Counted(Everything)' \subseteq Counted(Everything)
    PROVE  Fitting'
<1>1. IsFiniteSet(Everything) /\ IsFiniteSet(Counted(Everything))
  BY FiniteSpace
<1>2. /\ Cardinality(Everything') <= Cardinality(Everything)
      /\ Cardinality(Counted(Everything)') <= Cardinality(Counted(Everything))
      /\ IsFiniteSet(Everything') /\ IsFiniteSet(Counted(Everything)')
  BY <1>1, FS_Subset
<1>3. /\ Cardinality(Everything') \in Nat /\ Cardinality(Everything) \in Nat
      /\ Cardinality(Counted(Everything)') \in Nat /\ Cardinality(Counted(Everything)) \in Nat
  BY <1>1, <1>2, FS_CardinalityType
<1>4. Cardinality(Everything') <= MaxPending
  BY <1>2, <1>3, ShapeAssumption DEF Inv, Fitting
<1>5. \E p \in Procs : Cardinality(Counted(Everything)') <= Quota[p]
  BY <1>2, <1>3, ShapeAssumption DEF Inv, Fitting
<1> QED
  BY <1>4, <1>5 DEF Fitting

LEMMA CalmInv ==
    ASSUME Inv, TypeOK', Calm
    PROVE  Inv'
<1> USE DEF Calm, objects, history, Inv
<1>1. Lists' /\ Stored'
  BY DEF Lists, Stored, Present
<1>2. Behind'
  BY DEF Behind, Dangles, Goal, Mine
<1>3. Working'
  BY DEF Working, Goal, Mine, TypeOK, Present, Remembers
<1>4. Kept'
  BY DEF Kept, Acked, Recorded, Present, Remembers
<1>5. Fitting'
  <2>1. Everything' \subseteq Everything
    BY DEF Everything
  <2>2. Counted(Everything)' \subseteq Counted(Everything)
    BY <2>1 DEF Counted, Present
  <2> QED
    BY <2>1, <2>2, FittingShrinks
<1> QED
  BY <1>1, <1>2, <1>3, <1>4, <1>5

-----------------------------------------------------------------------------
(* Type correctness.                                                       *)

\* A list that is not full is shorter than its bound.
LEMMA MarkedType ==
    ASSUME NEW m \in Metadata, IsFiniteSet(m.marks), Cardinality(m.marks) <= MaxMarks,
           NEW d \in Deployments
    PROVE  /\ Marked(m, d) \in Metadata
           /\ IsFiniteSet(Marked(m, d).marks)
           /\ Cardinality(Marked(m, d).marks) <= MaxMarks
           /\ Marked(m, d).asset = m.asset
           /\ \A e \in Deployments : Remembers(m, e) => Remembers(Marked(m, d), e)
           /\ Remembers(Marked(m, d), d)
<1>1. CASE Full(m)
  <2>1. Marked(m, d) = [m EXCEPT !.retain = TRUE]
    BY <1>1 DEF Marked
  <2>2. /\ Marked(m, d) \in Metadata /\ Marked(m, d).marks = m.marks
        /\ Marked(m, d).asset = m.asset /\ Marked(m, d).retain = TRUE
    BY <2>1 DEF Metadata
  <2> QED
    BY <2>2 DEF Remembers
<1>2. CASE ~Full(m)
  <2>1. Marked(m, d) = [m EXCEPT !.marks = @ \cup {d}]
    BY <1>2 DEF Marked
  <2>2. /\ Marked(m, d) \in Metadata /\ Marked(m, d).marks = m.marks \cup {d}
        /\ Marked(m, d).asset = m.asset /\ Marked(m, d).retain = m.retain
    BY <2>1 DEF Metadata
  <2>3. /\ IsFiniteSet(m.marks \cup {d})
        /\ Cardinality(m.marks \cup {d}) = IF d \in m.marks THEN Cardinality(m.marks)
                                           ELSE Cardinality(m.marks) + 1
    BY FS_AddElement
  <2>4. Cardinality(m.marks) < MaxMarks
    BY <1>2, FS_CardinalityType, ShapeAssumption DEF Full
  <2>5. Cardinality(m.marks) \in Nat
    BY FS_CardinalityType
  <2>6. Cardinality(m.marks \cup {d}) <= MaxMarks
    BY <2>3, <2>4, <2>5, ShapeAssumption
  <2> QED
    BY <2>2, <2>3, <2>6 DEF Remembers
<1> QED
  BY <1>1, <1>2

LEMMA FreshMetadata ==
    ASSUME NEW t \in Tokens
    PROVE  LET m == [asset |-> For[t], marks |-> {}, retain |-> FALSE]
           IN  /\ m \in Metadata /\ Present(m) /\ m.marks = {}
               /\ IsFiniteSet(m.marks) /\ Cardinality(m.marks) <= MaxMarks
<1> DEFINE m == [asset |-> For[t], marks |-> {}, retain |-> FALSE]
<1>1. For[t] \in Assets /\ None \notin Assets
  BY ShapeAssumption, NoneAssumption
<1>2. m \in Metadata
  BY <1>1 DEF Metadata
<1>3. Present(m) /\ m.marks = {}
  BY <1>1 DEF Present
<1>4. IsFiniteSet({}) /\ Cardinality({}) = 0 /\ 0 <= MaxMarks
  BY FS_EmptySet, ShapeAssumption
<1> QED
  BY <1>2, <1>3, <1>4

\* The steps that write the reservations file of a section that writes no other.
LEMMA PossibleRewrites ==
    ASSUME TypeOK, NEW t \in Tokens,
           \/ Put(t) \/ PutAgain(t) \/ Check(t) \/ CommitExisting(t) \/ CommitGone(t)
           \/ CommitOverQuota(t) \/ Revoke(t)
    PROVE  \E to \in {"put", "sweep", "check", "unreserve", "refuse", "revoke"}, c \in SUBSET caps :
              Rewrite(t, to, c) /\ (to = "unreserve" => CommitExisting(t))
<1>1. Live \subseteq caps /\ Live \ {t} \subseteq caps /\ WithoutObjects(Live, {Goal(t)}) \subseteq caps
  BY DEF Live, WithoutObjects
<1>2. CASE Put(t) \/ PutAgain(t) \/ Check(t)
  BY <1>1, <1>2 DEF Put, PutAgain, Check
<1>3. CASE CommitExisting(t)
  BY <1>1, <1>3 DEF CommitExisting
<1>4. CASE CommitGone(t) \/ CommitOverQuota(t)
  BY <1>1, <1>4 DEF CommitGone, CommitOverQuota
<1>5. CASE Revoke(t)
  BY <1>1, <1>5 DEF Revoke
<1> QED
  BY <1>2, <1>3, <1>4, <1>5

LEMMA TypePreserved == TypeOK /\ Lists /\ [Next]_vars => TypeOK'
<1> SUFFICES ASSUME TypeOK, Lists, [Next]_vars PROVE TypeOK'
  OBVIOUS
<1> USE ShapeAssumption DEF TypeOK, objects, files, reservations, section, history,
        budget, Enter, Leave, Advance, SyncObjects, SyncReservations, Sets, Knows, Forgets, Fault
<1>1. ASSUME NEW p \in Procs, Plan(p) PROVE TypeOK'
  <2>1. PICK as \in Bundles[p] : PlanBegin(p, as)
    BY <1>1 DEF Plan
  <2>2. as \subseteq Assets
    BY <2>1
  <2> QED
    BY <2>1, <2>2 DEF PlanBegin, WithoutObjects, Live
<1>2. ASSUME NEW p \in Procs, Crash(p) PROVE TypeOK'
  <2>1. Dangles \subseteq Keys
    BY DEF Dangles
  <2>2. deploy' \in [Deployments -> {"new", "verified", "over"}]
    BY <1>2 DEF Crash, Abandoned
  <2> QED
    BY <1>2, <2>1, <2>2 DEF Crash, Died
<1>3. CASE PlanReserve \/ PlanRefused \/ PlanEnd \/ SweepEnd
  <2>1. CASE PlanReserve
    BY <2>1 DEF PlanReserve
  <2>2. CASE PlanRefused
    BY <2>2 DEF PlanRefused
  <2>3. CASE PlanEnd
    BY <2>3 DEF PlanEnd
  <2>4. CASE SweepEnd
    BY <2>4 DEF SweepEnd
  <2> QED
    BY <1>3, <2>1, <2>2, <2>3, <2>4
<1>4. ASSUME NEW t \in Tokens, Upload(t) PROVE TypeOK'
  <2>1. CASE Put(t) \/ PutAgain(t) \/ Check(t) \/ CommitExisting(t) \/ CommitGone(t)
             \/ CommitOverQuota(t) \/ Revoke(t)
    BY <2>1 DEF Put, PutAgain, Check, CommitExisting, CommitGone, CommitOverQuota, Revoke, Rewrite,
                Live, WithoutObjects
  <2>2. CASE PutReconciled(t)
    <3>1. up' \in [Tokens -> {"idle", "drawn", "check", "stage", "revoke"}]
      BY <2>2 DEF PutReconciled
    <3>2. known' \in [Procs -> SUBSET Tokens]
      BY <2>2 DEF PutReconciled
    <3> QED
      BY <2>2, <3>1, <3>2 DEF PutReconciled
  <2>3. CASE CheckDone(t) \/ UploadFails(t) \/ RefuseEnd(t) \/ RevokeEnd(t)
    <3>1. CASE CheckDone(t)
      BY <3>1 DEF CheckDone
    <3>2. CASE UploadFails(t)
      BY <3>2 DEF UploadFails
    <3>3. CASE RefuseEnd(t)
      <4>1. /\ up' \in [Tokens -> {"idle", "drawn", "check", "stage", "revoke"}]
            /\ known' \in [Procs -> SUBSET Tokens]
        BY <3>3 DEF RefuseEnd
      <4> QED
        BY <3>3, <4>1 DEF RefuseEnd
    <3>4. CASE RevokeEnd(t)
      BY <3>4 DEF RevokeEnd
    <3> QED
      BY <2>3, <3>1, <3>2, <3>3, <3>4
  <2>4. CASE CommitBytes(t)
    BY <2>4 DEF CommitBytes, Live
  <2>5. CASE CommitMetadata(t)
    <3> DEFINE m == [asset |-> For[t], marks |-> {}, retain |-> FALSE]
    <3>1. m \in Metadata /\ Cardinality(m.marks) <= MaxMarks
      BY FreshMetadata
    <3>2. meta' = [meta EXCEPT ![Goal(t)] = m]
      BY <2>5 DEF CommitMetadata
    <3> HIDE DEF m
    <3>3. meta' \in [Keys -> Metadata] /\ \A k \in Keys : Cardinality(meta'[k].marks) <= MaxMarks
      BY <3>1, <3>2
    <3> QED
      BY <2>5, <3>3 DEF CommitMetadata
  <2>6. CASE CommitReservations(t)
    BY <2>6 DEF CommitReservations, WithoutObjects
  <2>7. CASE CommitEnd(t)
    BY <2>7 DEF CommitEnd, WithoutObjects, Goal
  <2> QED
    BY <1>4, <2>1, <2>2, <2>3, <2>4, <2>5, <2>6, <2>7 DEF Upload
<1>5. ASSUME NEW t \in Tokens, Expire(t) PROVE TypeOK'
  BY <1>5 DEF Expire
<1>6. ASSUME NEW d \in Deployments, Verify(d) \/ MarkEnd(d) \/ MarkNothing(d) PROVE TypeOK'
  <2>1. CASE Verify(d)
    BY <2>1 DEF Verify
  <2>2. CASE MarkEnd(d)
    BY <2>2 DEF MarkEnd
  <2>3. CASE MarkNothing(d)
    BY <2>3 DEF MarkNothing
  <2> QED
    BY <1>6, <2>1, <2>2, <2>3
<1>7. ASSUME NEW d \in Deployments, NEW p \in Procs, Mark(p, d) PROVE TypeOK'
  <2>1. Mine(d) \in Keys
    BY DEF Mine
  <2>2. /\ Marked(meta[Mine(d)], d) \in Metadata
        /\ Cardinality(Marked(meta[Mine(d)], d).marks) <= MaxMarks
    BY <2>1, MarkedType DEF Lists
  <2>3. meta' = [meta EXCEPT ![Mine(d)] = Marked(meta[Mine(d)], d)]
    BY <1>7 DEF Mark
  <2>4. meta' \in [Keys -> Metadata] /\ \A k \in Keys : Cardinality(meta'[k].marks) <= MaxMarks
    BY <2>1, <2>2, <2>3
  <2> QED
    BY <1>7, <2>4 DEF Mark
<1>8. CASE SectionFails
  <2>1. Dangles \subseteq Keys
    BY DEF Dangles
  <2>2. deploy' \in [Deployments -> {"new", "verified", "over"}]
    BY <1>8 DEF SectionFails, Abandoned
  <2>3. up' \in [Tokens -> {"idle", "drawn", "check", "stage", "revoke"}]
    BY <1>8 DEF SectionFails, Undrawn
  <2>4. known' \in [Procs -> SUBSET Tokens]
    BY <1>8 DEF SectionFails
  <2> QED
    BY <1>8, <2>1, <2>2, <2>3, <2>4 DEF SectionFails
<1>9. CASE PowerLoss
  <2>1. \A k \in Keys : bytes'[k] \in {bytes[k], bytesDisk[k]} /\ meta'[k] \in {meta[k], metaDisk[k]}
    BY <1>9 DEF PowerLoss, Survives
  <2>2. bytes' \in [Keys -> {"none", "good", "bad"}] /\ meta' \in [Keys -> Metadata]
    BY <1>9, <2>1 DEF PowerLoss, Survives
  <2>3. \A k \in Keys : Cardinality(meta'[k].marks) <= MaxMarks
    BY <2>1 DEF Lists
  <2>4. deploy' \in [Deployments -> {"new", "verified", "over"}]
    BY <1>9 DEF PowerLoss, Abandoned
  <2>5. undone' \subseteq Keys \cup Deployments
    BY <1>9 DEF PowerLoss
  <2> QED
    BY <1>9, <2>2, <2>3, <2>4, <2>5 DEF PowerLoss, Died
<1>10. ASSUME NEW k \in Keys, Rot(k) PROVE TypeOK'
  BY <1>10 DEF Rot
<1>11. CASE UNCHANGED vars
  BY <1>11 DEF vars
<1> QED
  BY <1>1, <1>2, <1>3, <1>4, <1>5, <1>6, <1>7, <1>8, <1>9, <1>10, <1>11 DEF Next

-----------------------------------------------------------------------------
(* The invariant is inductive.                                             *)

\* Steps that neither promise anything nor rename an object.
LEMMA CalmSteps ==
    ASSUME Inv,
           \/ PlanRefused \/ PlanEnd \/ SweepEnd \/ UNCHANGED vars
           \/ \E p \in Procs : Plan(p)
           \/ \E d \in Deployments : Verify(d)
           \/ \E t \in Tokens :
                \/ Put(t) \/ PutReconciled(t) \/ PutAgain(t) \/ Check(t) \/ CheckDone(t)
                \/ UploadFails(t) \/ CommitGone(t) \/ CommitOverQuota(t) \/ RefuseEnd(t)
                \/ Revoke(t) \/ RevokeEnd(t) \/ Expire(t)
    PROVE  Calm
<1> USE DEF Calm, Inv, Working, objects, reservations, section, history, Leave, Enter,
        SyncReservations
<1>1. ASSUME NEW p \in Procs, Plan(p) PROVE Calm
  BY <1>1 DEF Plan, PlanBegin, WithoutObjects, Live
<1>2. CASE PlanRefused \/ PlanEnd \/ SweepEnd
  BY <1>2 DEF PlanRefused, PlanEnd, SweepEnd
<1>3. ASSUME NEW t \in Tokens,
             \/ Put(t) \/ PutAgain(t) \/ Check(t) \/ CommitGone(t) \/ CommitOverQuota(t)
             \/ Revoke(t)
      PROVE  Calm
  BY <1>3, ShapeAssumption
  DEF Put, PutAgain, Check, CommitGone, CommitOverQuota, Revoke, Rewrite, Live
<1>4. ASSUME NEW t \in Tokens,
             PutReconciled(t) \/ CheckDone(t) \/ RefuseEnd(t) \/ RevokeEnd(t)
      PROVE  Calm
  BY <1>4 DEF PutReconciled, CheckDone, RefuseEnd, RevokeEnd
<1>5. ASSUME NEW t \in Tokens, UploadFails(t) \/ Expire(t) PROVE Calm
  BY <1>5 DEF UploadFails, Expire
<1>6. ASSUME NEW d \in Deployments, Verify(d) PROVE Calm
  BY <1>6 DEF Verify
<1>7. CASE UNCHANGED vars
  BY <1>7 DEF vars
<1> QED
  BY <1>1, <1>2, <1>3, <1>4, <1>5, <1>6, <1>7

\* New reservations are made when they fit with those there are.
LEMMA PlanReserveInv ==
    ASSUME Inv, TypeOK', PlanReserve
    PROVE  Inv'
<1> USE DEF Inv, PlanReserve, Advance, objects, history
<1>1. Lists' /\ Stored' /\ Kept'
  BY DEF Lists, Stored, Kept, Acked, Recorded, Present, Remembers
<1>2. Behind' /\ Working'
  BY DEF Behind, Dangles, Working
<1>3. Fitting'
  <2>1. PICK ts \in SUBSET Tokens : Fits(holder, caps \cup ts) /\ caps' = caps \cup ts
    OBVIOUS
  <2>2. Everything' = caps \cup ts
    BY <2>1 DEF Everything
  <2>3. Counted(Everything)' = Counted(caps \cup ts)
    BY <2>2 DEF Counted, Present
  <2>4. holder \in Procs
    BY DEF Working
  <2> QED
    BY <2>1, <2>2, <2>3, <2>4 DEF Fitting, Fits
<1> QED
  BY <1>1, <1>2, <1>3

\* An object that is committed already has its metadata.
LEMMA CommitExistingInv ==
    ASSUME Inv, TypeOK', NEW t \in Tokens, CommitExisting(t)
    PROVE  Inv'
<1> USE DEF Inv, CommitExisting, Rewrite, Enter, objects, history
<1>1. Lists' /\ Stored' /\ Kept'
  BY DEF Lists, Stored, Kept, Acked, Recorded, Present, Remembers
<1>2. Behind'
  BY DEF Behind, Dangles
<1>3. Working'
  <2>1. Present(meta[Goal(t)])
    BY ShapeAssumption, NoneAssumption DEF Committed, Goal, Present
  <2> QED
    BY <2>1, ShapeAssumption DEF Working, Present
<1>4. Fitting'
  <2>1. Everything' \subseteq Everything
    BY DEF Everything, WithoutObjects, Live
  <2> QED
    BY <2>1, FittingShrinks DEF Counted, Present
<1> QED
  BY <1>1, <1>2, <1>3, <1>4

LEMMA CommitBytesInv ==
    ASSUME Inv, TypeOK', NEW t \in Tokens, CommitBytes(t)
    PROVE  Inv'
<1> USE DEF Inv, CommitBytes, Enter, reservations, history
<1>1. Lists' /\ Kept'
  BY DEF Lists, Kept, Acked, Recorded, Present, Remembers
<1>2. Stored'
  BY DEF Stored, Present, TypeOK
<1>3. Behind'
  BY DEF Behind, Dangles
<1>4. Working'
  <2>1. Goal(t) \in Keys
    BY ShapeAssumption DEF Goal
  <2> QED
    BY <2>1, ShapeAssumption DEF Working, TypeOK, Live
<1>5. Fitting'
  BY FittingShrinks DEF Everything, Counted, Present
<1> QED
  BY <1>1, <1>2, <1>3, <1>4, <1>5

\* The metadata is renamed after the bytes are synced, for an object that has
\* been counted since it was reserved.
LEMMA CommitMetadataInv ==
    ASSUME Inv, TypeOK', NEW t \in Tokens, CommitMetadata(t)
    PROVE  Inv'
<1> DEFINE m == [asset |-> For[t], marks |-> {}, retain |-> FALSE]
<1>1. /\ IsFiniteSet(m.marks) /\ Cardinality(m.marks) <= MaxMarks /\ Present(m)
  BY FreshMetadata
<1>2. /\ Goal(t) \in Keys
      /\ meta' = [meta EXCEPT ![Goal(t)] = m]
      /\ metaDisk' = meta /\ bytesDisk' = bytes /\ bytes' = bytes /\ unsynced' = {}
  BY ShapeAssumption DEF CommitMetadata, SyncObjects, Goal
<1> HIDE DEF m
<1>3. /\ meta'[Goal(t)] = m
      /\ \A k \in Keys : k # Goal(t) => meta'[k] = meta[k]
  BY <1>2 DEF Inv, TypeOK
<1>4. Lists'
  <2> SUFFICES ASSUME NEW k \in Keys
               PROVE  /\ IsFiniteSet(meta'[k].marks) /\ IsFiniteSet(metaDisk'[k].marks)
                      /\ Cardinality(metaDisk'[k].marks) <= MaxMarks
    BY DEF Lists
  <2>1. IsFiniteSet(meta'[k].marks)
    BY <1>1, <1>3 DEF Inv, Lists
  <2> QED
    BY <2>1, <1>2 DEF Inv, Lists, TypeOK
<1>5. Stored'
  BY <1>1, <1>2, <1>3 DEF Inv, Stored, Working, CommitMetadata
<1>6. Behind'
  BY <1>2, <1>3 DEF Behind, Dangles, CommitMetadata, Advance, Goal
<1>7. Working'
  BY <1>1, <1>3 DEF Inv, Working, CommitMetadata, Advance, reservations, Goal
<1>8. Kept'
  <2>1. \A k \in Acked' : Present(meta'[k]) /\ Present(metaDisk'[k])
    BY <1>1, <1>2, <1>3 DEF Inv, Kept, TypeOK, CommitMetadata, Acked
  <2>2. \A d \in Recorded' : Remembers(meta'[Mine(d)], d) /\ Remembers(metaDisk'[Mine(d)], d)
    <3> SUFFICES ASSUME NEW d \in Recorded'
                 PROVE  Remembers(meta'[Mine(d)], d) /\ Remembers(metaDisk'[Mine(d)], d)
      OBVIOUS
    <3>1. d \in Recorded /\ Mine(d) # Goal(t)
      BY DEF CommitMetadata, Recorded
    <3>2. Mine(d) \in Keys
      BY <3>1, ShapeAssumption DEF Mine, Inv, TypeOK, Recorded
    <3> QED
      BY <3>1, <3>2, <1>2, <1>3 DEF Inv, Kept
  <2> QED
    BY <2>1, <2>2 DEF Kept, Mine
<1>9. Fitting'
  <2>1. Everything' = Everything /\ t \in Everything
    BY DEF Everything, CommitMetadata, reservations, Inv, Working
  <2>2. Counted(Everything)' \subseteq Counted(Everything)
    BY <2>1, <1>3 DEF Counted, Goal
  <2> QED
    BY <2>1, <2>2, FittingShrinks
<1> QED
  BY <1>4, <1>5, <1>6, <1>7, <1>8, <1>9 DEF Inv

LEMMA CommitReservationsInv ==
    ASSUME Inv, TypeOK', NEW t \in Tokens, CommitReservations(t)
    PROVE  Inv'
<1> USE DEF CommitReservations, Advance, SyncObjects, files, history
<1>1. meta' = meta /\ metaDisk' = meta /\ bytes' = bytes /\ bytesDisk' = bytes /\ unsynced' = {}
  OBVIOUS
<1>2. Lists'
  BY <1>1 DEF Inv, TypeOK, Lists
<1>3. Stored'
  BY <1>1 DEF Inv, Stored
<1>4. Behind'
  BY <1>1 DEF Behind
<1>5. Working'
  BY <1>1 DEF Inv, Working, Goal
<1>6. Kept'
  BY <1>1 DEF Inv, Kept, Acked, Recorded, Mine
<1>7. Fitting'
  <2>1. Everything' \subseteq Everything
    BY DEF Everything, WithoutObjects, Inv, Working
  <2> QED
    BY <2>1, <1>1, FittingShrinks DEF Counted, Present
<1> QED
  BY <1>2, <1>3, <1>4, <1>5, <1>6, <1>7 DEF Inv

\* What is answered 201 has its metadata, synced or behind a failed section.
LEMMA CommitEndInv ==
    ASSUME Inv, TypeOK', NEW t \in Tokens, CommitEnd(t)
    PROVE  Inv'
<1> USE DEF CommitEnd, Leave, SyncReservations, objects
<1>1. UNCHANGED <<bytes, meta, bytesDisk, metaDisk, unsynced, recorded>>
  OBVIOUS
<1>2. Lists' /\ Stored'
  BY <1>1 DEF Inv, Lists, Stored
<1>3. Behind'
  BY <1>1 DEF Inv, Behind, Dangles
<1>4. Working'
  BY <1>1 DEF Inv, Working
<1>5. Kept'
  <2>1. Goal(t) \in Keys /\ Present(meta[Goal(t)])
    BY ShapeAssumption DEF Inv, Working, Goal
  <2>2. Goal(t) \in unsynced \/ Present(metaDisk[Goal(t)])
    BY <2>1 DEF Inv, Behind, Dangles
  <2>3. Acked' \subseteq Acked \cup {Goal(t)} /\ Recorded' = Recorded
    BY <2>1, DistinctAssumption DEF Acked, Recorded, Inv, TypeOK
  <2> QED
    BY <1>1, <2>1, <2>2, <2>3 DEF Inv, Kept, Mine
<1>6. Fitting'
  BY <1>1, FittingShrinks DEF Everything, Counted, Present
<1> QED
  BY <1>2, <1>3, <1>4, <1>5, <1>6 DEF Inv

LEMMA MarkInv ==
    ASSUME Inv, TypeOK', NEW d \in Deployments, NEW p \in Procs, Mark(p, d)
    PROVE  Inv'
<1> DEFINE m == Marked(meta[Mine(d)], d)
<1>1. /\ Mine(d) \in Keys
      /\ meta' = [meta EXCEPT ![Mine(d)] = m]
      /\ UNCHANGED <<bytes, bytesDisk, metaDisk, unsynced>>
  BY ShapeAssumption DEF Mark, Mine
<1>2. /\ IsFiniteSet(m.marks) /\ m.asset = meta[Mine(d)].asset /\ Remembers(m, d)
      /\ \A e \in Deployments : Remembers(meta[Mine(d)], e) => Remembers(m, e)
  BY <1>1, MarkedType DEF Inv, TypeOK, Lists
<1> HIDE DEF m
<1>3. /\ meta'[Mine(d)] = m
      /\ \A k \in Keys : k # Mine(d) => meta'[k] = meta[k]
  BY <1>1 DEF Inv, TypeOK
<1>4. \A k \in Keys : Present(meta'[k]) = Present(meta[k])
  BY <1>2, <1>3 DEF Present
<1>5. Lists'
  <2>1. \A k \in Keys : IsFiniteSet(meta'[k].marks)
    BY <1>2, <1>3 DEF Inv, Lists
  <2> QED
    BY <2>1, <1>1 DEF Inv, Lists
<1>6. Stored'
  BY <1>1, <1>4 DEF Inv, Stored
<1>7. Behind'
  BY <1>1, <1>3 DEF Inv, Behind, Dangles, Mark, Enter, Mine
<1>8. Working'
  BY <1>2, <1>3 DEF Inv, Working, Mark, Enter, reservations, Mine
<1>9. Kept'
  <2>1. \A k \in Acked : Present(meta'[k]) /\ (k \in unsynced \/ Present(metaDisk[k]))
    BY <1>4 DEF Inv, Kept, Acked, TypeOK
  <2>2. \A e \in Recorded : /\ Remembers(meta'[Mine(e)], e)
                            /\ Mine(e) \in unsynced \/ Remembers(metaDisk[Mine(e)], e)
    <3> SUFFICES ASSUME NEW e \in Recorded PROVE Remembers(meta'[Mine(e)], e)
      BY DEF Inv, Kept
    <3>1. e \in Deployments /\ Mine(e) \in Keys /\ Remembers(meta[Mine(e)], e)
      BY ShapeAssumption DEF Mine, Inv, TypeOK, Kept, Recorded
    <3> QED
      BY <3>1, <1>2, <1>3
  <2> QED
    BY <1>1, <2>1, <2>2 DEF Kept, Acked, Recorded, Mark, history, Mine
<1>10. Fitting'
  <2>1. Everything' = Everything
    BY DEF Mark, reservations, Everything
  <2> QED
    BY <2>1, <1>4, FittingShrinks DEF Counted
<1> QED
  BY <1>5, <1>6, <1>7, <1>8, <1>9, <1>10 DEF Inv

LEMMA MarkEndInv ==
    ASSUME Inv, TypeOK', NEW d \in Deployments, MarkEnd(d)
    PROVE  Inv'
<1> USE DEF MarkEnd, Leave, SyncObjects, files, reservations
<1>1. meta' = meta /\ metaDisk' = meta /\ bytes' = bytes /\ bytesDisk' = bytes /\ unsynced' = {}
  OBVIOUS
<1>2. Lists'
  BY <1>1 DEF Inv, TypeOK, Lists
<1>3. Stored' /\ Behind'
  BY <1>1 DEF Inv, Stored, Behind
<1>4. Working'
  BY <1>1 DEF Inv, Working
<1>5. Kept'
  <2>1. Remembers(meta[Mine(d)], d)
    BY DEF Inv, Working
  <2>2. Acked' = Acked /\ Recorded' \subseteq Recorded \cup {d}
    BY DEF Acked, Recorded
  <2> QED
    BY <1>1, <2>1, <2>2 DEF Inv, Kept, Mine
<1>6. Fitting'
  BY <1>1, FittingShrinks DEF Everything, Counted, Present
<1> QED
  BY <1>2, <1>3, <1>4, <1>5, <1>6 DEF Inv

\* What is found recorded is synced or behind a failed section.
LEMMA MarkNothingInv ==
    ASSUME Inv, TypeOK', NEW d \in Deployments, MarkNothing(d)
    PROVE  Inv'
<1> USE DEF MarkNothing, objects, reservations, section
<1>1. UNCHANGED <<bytes, meta, bytesDisk, metaDisk, unsynced, caps, capsDisk, at, holder, job,
                  draft, acked>>
  OBVIOUS
<1>2. Lists' /\ Stored'
  BY <1>1 DEF Inv, Lists, Stored
<1>3. Behind'
  BY <1>1 DEF Inv, Behind, Dangles
<1>4. Working'
  BY <1>1 DEF Inv, Working
<1>5. Kept'
  <2>1. Mine(d) \in Keys
    BY ShapeAssumption DEF Mine
  <2>2. CASE meta[Mine(d)].asset = Uses[d]
    <3>1. Remembers(meta[Mine(d)], d)
      BY <2>2
    <3>2. Mine(d) \in unsynced \/ Remembers(metaDisk[Mine(d)], d)
      BY <2>1, <3>1 DEF Inv, Behind, Dangles
    <3>3. Acked' = Acked /\ Recorded' \subseteq Recorded \cup {d}
      BY <2>2 DEF Acked, Recorded
    <3> QED
      BY <1>1, <3>1, <3>2, <3>3 DEF Inv, Kept, Mine
  <2>3. CASE meta[Mine(d)].asset # Uses[d]
    BY <1>1, <2>3 DEF Inv, Kept, Acked, Recorded, Mine
  <2> QED
    BY <2>2, <2>3
<1>6. Fitting'
  BY <1>1, FittingShrinks DEF Everything, Counted, Present
<1> QED
  BY <1>2, <1>3, <1>4, <1>5, <1>6 DEF Inv

\* A section that stops leaves its files as they are and what it had not synced
\* in unsynced.
LEMMA AbortInv ==
    ASSUME Inv, TypeOK', Leave, unsynced' = unsynced \cup Dangles,
           UNCHANGED <<files, bytesDisk, metaDisk, reservations, history>>
    PROVE  Inv'
<1> USE DEF Leave, files, reservations, history
<1>1. UNCHANGED <<bytes, meta, bytesDisk, metaDisk, caps, capsDisk, acked, recorded, replaced,
                  undone>>
  OBVIOUS
<1>2. Lists' /\ Stored'
  BY <1>1 DEF Inv, Lists, Stored
<1>3. Behind'
  BY <1>1 DEF Inv, Behind
<1>4. Working'
  BY <1>1 DEF Inv, Working
<1>5. Kept'
  BY <1>1 DEF Inv, Kept, Acked, Recorded, Mine
<1>6. Fitting'
  BY <1>1, FittingShrinks DEF Everything, Counted, Present
<1> QED
  BY <1>2, <1>3, <1>4, <1>5, <1>6 DEF Inv

\* Of every file one of the two versions is left, and both keep the promises but
\* those made on unsynced metadata that is taken back.
LEMMA PowerLossInv ==
    ASSUME Inv, TypeOK', PowerLoss
    PROVE  Inv'
<1>1. \A k \in Keys : /\ bytes'[k] \in {bytes[k], bytesDisk[k]}
                      /\ meta'[k] \in {meta[k], metaDisk[k]}
  BY DEF PowerLoss, Survives, Inv, TypeOK
<1>2. /\ bytesDisk' = bytes' /\ metaDisk' = meta' /\ unsynced' = {}
      /\ caps' \in {caps, capsDisk} /\ capsDisk' = caps'
  BY DEF PowerLoss
<1>3. Lists'
  BY <1>1, <1>2 DEF Inv, TypeOK, Lists
<1>4. \A k \in Keys : Present(meta'[k]) => Present(meta[k])
  BY <1>1 DEF Inv, Stored
<1>5. Stored'
  BY <1>1, <1>2, <1>4 DEF Inv, Stored
<1>6. Behind'
  BY <1>2 DEF Behind
<1>7. Working'
  BY DEF PowerLoss, Leave, Working
<1>8. Kept'
  <2>1. \A k \in Acked' : Present(meta'[k])
    <3> SUFFICES ASSUME NEW k \in Acked' PROVE Present(meta'[k])
      OBVIOUS
    <3>1. k \in Acked /\ k \in Keys /\ (k \notin unsynced \/ meta'[k] = meta[k])
      BY DEF PowerLoss, Reverted, Acked, Inv, TypeOK
    <3> QED
      BY <3>1, <1>1 DEF Inv, Kept
  <2>2. \A d \in Recorded' : Remembers(meta'[Mine(d)], d)
    <3> SUFFICES ASSUME NEW d \in Recorded' PROVE Remembers(meta'[Mine(d)], d)
      OBVIOUS
    <3>1. d \in Recorded /\ Mine(d) \in Keys
      BY ShapeAssumption DEF PowerLoss, Recorded, Mine, Inv, TypeOK
    <3>2. Mine(d) \notin unsynced \/ meta'[Mine(d)] = meta[Mine(d)]
      BY DEF PowerLoss, Reverted, Recorded
    <3> QED
      BY <3>1, <3>2, <1>1 DEF Inv, Kept
  <2> QED
    BY <1>2, <2>1, <2>2 DEF Kept, Mine
<1>9. Fitting'
  <2>1. Everything' \subseteq Everything
    BY <1>2 DEF Everything
  <2> QED
    BY <2>1, <1>4, FittingShrinks DEF Counted
<1> QED
  BY <1>3, <1>5, <1>6, <1>7, <1>8, <1>9 DEF Inv

LEMMA RotInv ==
    ASSUME Inv, TypeOK', NEW k \in Keys, Rot(k)
    PROVE  Inv'
<1> USE DEF Rot, reservations, section, history
<1>1. UNCHANGED <<meta, metaDisk, unsynced, caps, capsDisk, at, holder, job, draft, acked, recorded,
                  replaced, undone>>
  OBVIOUS
<1>2. \A j \in Keys : /\ bytes'[j] = "none" => bytes[j] = "none"
                      /\ bytesDisk'[j] = "none" => bytesDisk[j] = "none"
  BY DEF Inv, TypeOK
<1>3. Lists' /\ Stored'
  BY <1>1, <1>2 DEF Inv, Lists, Stored
<1>4. Behind'
  BY <1>1 DEF Inv, Behind, Dangles, Goal, Mine
<1>5. Working'
  <2>1. at = "bytes" => Goal(job) \in Keys
    BY ShapeAssumption DEF Inv, Working, TypeOK, Goal
  <2> QED
    BY <1>1, <1>2, <2>1 DEF Inv, Working, Goal, Mine
<1>6. Kept'
  BY <1>1 DEF Inv, Kept, Acked, Recorded, Mine
<1>7. Fitting'
  BY <1>1, FittingShrinks DEF Everything, Counted, Present
<1> QED
  BY <1>3, <1>4, <1>5, <1>6, <1>7 DEF Inv

-----------------------------------------------------------------------------
LEMMA InvInductive == Inv /\ [Next]_vars => Inv'
<1> SUFFICES ASSUME Inv, [Next]_vars PROVE Inv'
  OBVIOUS
<1>1. TypeOK'
  BY TypePreserved DEF Inv
<1>2. CASE PlanRefused \/ PlanEnd \/ SweepEnd \/ UNCHANGED vars
  BY <1>1, <1>2, CalmSteps, CalmInv
<1>3. ASSUME NEW p \in Procs, Plan(p) PROVE Inv'
  BY <1>1, <1>3, CalmSteps, CalmInv
<1>4. CASE PlanReserve
  BY <1>1, <1>4, PlanReserveInv
<1>5. ASSUME NEW t \in Tokens, Upload(t) PROVE Inv'
  <2>1. CASE \/ Put(t) \/ PutReconciled(t) \/ PutAgain(t) \/ Check(t) \/ CheckDone(t)
             \/ UploadFails(t) \/ CommitGone(t) \/ CommitOverQuota(t) \/ RefuseEnd(t)
             \/ Revoke(t) \/ RevokeEnd(t)
    BY <1>1, <2>1, CalmSteps, CalmInv
  <2>2. CASE CommitExisting(t)
    BY <1>1, <2>2, CommitExistingInv
  <2>3. CASE CommitBytes(t)
    BY <1>1, <2>3, CommitBytesInv
  <2>4. CASE CommitMetadata(t)
    BY <1>1, <2>4, CommitMetadataInv
  <2>5. CASE CommitReservations(t)
    BY <1>1, <2>5, CommitReservationsInv
  <2>6. CASE CommitEnd(t)
    BY <1>1, <2>6, CommitEndInv
  <2> QED
    BY <1>5, <2>1, <2>2, <2>3, <2>4, <2>5, <2>6 DEF Upload
<1>6. ASSUME NEW t \in Tokens, Expire(t) PROVE Inv'
  BY <1>1, <1>6, CalmSteps, CalmInv
<1>7. ASSUME NEW d \in Deployments, Verify(d) PROVE Inv'
  BY <1>1, <1>7, CalmSteps, CalmInv
<1>8. ASSUME NEW d \in Deployments, NEW p \in Procs, Mark(p, d) PROVE Inv'
  BY <1>1, <1>8, MarkInv
<1>9. ASSUME NEW d \in Deployments, MarkEnd(d) \/ MarkNothing(d) PROVE Inv'
  BY <1>1, <1>9, MarkEndInv, MarkNothingInv
<1>10. CASE SectionFails
  <2>1. /\ Leave /\ unsynced' = unsynced \cup Dangles
        /\ UNCHANGED <<files, bytesDisk, metaDisk, reservations, history>>
    BY <1>10 DEF SectionFails
  <2> QED
    BY <1>1, <2>1, AbortInv
<1>11. ASSUME NEW p \in Procs, Crash(p) PROVE Inv'
  <2>1. UNCHANGED <<files, bytesDisk, metaDisk, reservations, history>>
    BY <1>11 DEF Crash
  <2>2. CASE Leave /\ unsynced' = unsynced \cup Dangles
    BY <1>1, <2>1, <2>2, AbortInv
  <2>3. CASE UNCHANGED <<section, unsynced>>
    <3>1. Calm
      BY <2>1, <2>3 DEF Calm, files, objects, reservations, section, history
    <3> QED
      BY <1>1, <3>1, CalmInv
  <2> QED
    BY <1>11, <2>2, <2>3 DEF Crash
<1>12. CASE PowerLoss
  BY <1>1, <1>12, PowerLossInv
<1>13. ASSUME NEW k \in Keys, Rot(k) PROVE Inv'
  BY <1>1, <1>13, RotInv
<1> QED
  BY <1>2, <1>3, <1>4, <1>5, <1>6, <1>7, <1>8, <1>9, <1>10, <1>11, <1>12, <1>13 DEF Next

\* What the objects, the reservations and the synced files owe one another
\* holds in every reachable state.
THEOREM InvCorrect == Spec => []Inv
<1> QED
  BY InitInv, InvInductive, PTL DEF Spec

\* Every reachable state is well typed, and no metadata lists more deployments
\* than its parser accepts (recordReachability, #appendReachability).
THEOREM TypeCorrect == Spec => []TypeOK
<1>1. Inv => TypeOK
  BY DEF Inv
<1> QED
  BY <1>1, InvCorrect, PTL

\* Objects stored and reserved fit the largest quota, however many processes
\* plan and upload (#enforceStoredQuotas, #enforcePendingBounds).
THEOREM Quotas == Spec => []QuotaHeld
<1>1. Inv => QuotaHeld
  <2> SUFFICES ASSUME Inv PROVE QuotaHeld
    OBVIOUS
  <2>1. caps \subseteq Everything /\ Counted(caps) \subseteq Counted(Everything)
    BY DEF Everything, Counted
  <2>2. IsFiniteSet(Everything) /\ IsFiniteSet(Counted(Everything))
    BY FiniteSpace
  <2>3. /\ Cardinality(caps) <= Cardinality(Everything)
        /\ Cardinality(Counted(caps)) <= Cardinality(Counted(Everything))
        /\ IsFiniteSet(caps) /\ IsFiniteSet(Counted(caps))
    BY <2>1, <2>2, FS_Subset
  <2>4. /\ Cardinality(caps) \in Nat /\ Cardinality(Everything) \in Nat
        /\ Cardinality(Counted(caps)) \in Nat /\ Cardinality(Counted(Everything)) \in Nat
    BY <2>2, <2>3, FS_CardinalityType
  <2>5. Cardinality(caps) <= MaxPending
    BY <2>3, <2>4, ShapeAssumption DEF Inv, Fitting
  <2>6. \E p \in Procs : Cardinality(Counted(caps)) <= Quota[p]
    BY <2>3, <2>4, ShapeAssumption DEF Inv, Fitting
  <2> QED
    BY <2>5, <2>6 DEF QuotaHeld
<1> QED
  BY <1>1, InvCorrect, PTL

\* Across deaths, failing calls, corruption and power losses an upload answered
\* 201 keeps its metadata and bytes and a recorded deployment is remembered, except
\* in the two cases PromisesKept names: the metadata was rewritten by a later
\* upload, or was unsynced when the promise was made or extended and the power
\* went before anybody synced it (#commitStagedUpload, recordReachability).
THEOREM Promises == Spec => []PromisesKept
<1>1. Inv => PromisesKept
  BY DEF Inv, Kept, Acked, Recorded, Stored, TypeOK, PromisesKept
<1> QED
  BY <1>1, InvCorrect, PTL
=============================================================================
