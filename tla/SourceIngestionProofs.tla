----------------------- MODULE SourceIngestionProofs -----------------------
(***************************************************************************)
(* Proofs about SourceIngestion for any workers, records, requests and page *)
(* limits: the replica mirrors the provider, observations never move back   *)
(* and a refresh has seen what it was asked for.                            *)
(***************************************************************************)
EXTENDS SourceIngestion, TLAPS

\* The worker of the newest lease, and one that may still commit under it.
Current(w) == pc[w] # "idle" /\ lease[w].fence = fence
Holds(w) == Current(w) /\ pc[w] \in {"scan", "commit"}

Fenced == /\ \A w \in Workers : lease[w].fence <= fence
          /\ \A v, w \in Workers : Current(v) /\ Current(w) => v = w

\* What such a worker knows of the binding is the binding's row.
Held == \A w \in Workers : Holds(w) =>
          /\ lease[w].scan = scan /\ lease[w].mode = mode
          /\ lease[w].cursor = cursor /\ lease[w].checkpoint = checkpoint
          /\ ~complete /\ mode # "none"
          /\ mode = "changes" <=> checkpoint # 0

Positions ==
    /\ clock # 0
    /\ \A i \in Ids : changedAt[i] \in 1..clock /\ content[i] <= changedAt[i]
    /\ \A i, j \in Ids : changedAt[i] = changedAt[j] /\ i # j => changedAt[i] = 1
    /\ \A i \in Ids : seen[i] <= scan
    /\ \A i \in suppressed : content[i] = 0
    /\ began <= clock /\ checkpoint <= clock
    /\ cursor.pos # 0 =>
         /\ ~complete
         /\ mode = "changes" =>
              checkpoint # 0 /\ checkpoint <= cursor.pos /\ cursor.pos <= clock
         /\ mode # "changes" =>
              /\ mode = "snapshot" /\ checkpoint = 0 /\ cursor.pos < Records
              /\ began <= cursor.since /\ cursor.since <= clock

\* Record i is held as the provider had it at its time t, or was erased here.
Mirrored(i, t) == i \in suppressed \/ i \in lapsed \/ changedAt[i] > t
                    \/ content[i] = Stored(i)
Mirrors == /\ \A i \in Ids : Mirrored(i, checkpoint)
           /\ complete => \A i \in Ids : Mirrored(i, began)
           /\ cursor.pos # 0 /\ mode = "changes" =>
                \A i \in Ids : Mirrored(i, cursor.pos)

\* A snapshot has reported record i as it was at t, or reported nothing.
Listed(i, t) == i \in suppressed \/ i \in lapsed \/ changedAt[i] > t
                  \/ IF i \in here THEN content[i] = changedAt[i] /\ seen[i] = scan
                     ELSE content[i] = 0 \/ seen[i] # scan
Listing ==
    /\ cursor.pos # 0 /\ mode = "snapshot" =>
         \A i \in Ids : i <= cursor.pos => Listed(i, cursor.since)
    /\ (cursor.pos # 0 \/ \E w \in Workers : Holds(w)) /\ mode = "snapshot" =>
         \A i \in Ids : i > cursor.pos => seen[i] # scan

\* The page a worker may still commit.
From == IF cursor.pos = 0 THEN checkpoint ELSE cursor.pos
ChangesUpTo(p, t) == \A i \in Ids : \/ changedAt[i] > t \/ changedAt[i] <= From
                                    \/ i = p.id /\ p.version = Stored(i)
PageOfChanges(p) ==
    /\ p.id \in Ids => changedAt[p.id] > From
    /\ p.complete => /\ ChangesUpTo(p, began)
                     /\ p.checkpoint # 0 => ChangesUpTo(p, p.checkpoint)
    /\ ~p.complete => /\ ChangesUpTo(p, p.next.pos)
                      /\ p.next.pos > From /\ p.next.pos <= clock
PageOfSnapshot(p) ==
    /\ p.id = cursor.pos + 1 /\ p.id \in Ids
    /\ p.complete <=> p.id = Records
    /\ \E t \in began..clock :
         /\ cursor.pos # 0 => t = cursor.since
         /\ p.checkpoint \in {0, t}
         /\ ~p.complete => p.next = [pos |-> p.id, since |-> t]
         /\ changedAt[p.id] > t \/ p.version = Stored(p.id)
PageInHand(p) ==
    /\ p.checkpoint <= clock
    /\ p.id \in Ids => /\ p.version <= changedAt[p.id]
                       /\ p.version # 0 => content[p.id] <= p.version
    /\ mode = "changes" => PageOfChanges(p)
    /\ mode = "snapshot" => PageOfSnapshot(p)
Fetched == \A w \in Workers : Holds(w) /\ pc[w] = "commit" => PageInHand(page[w])

\* A request waiting for a scan already claimed was made before the claim.
Asked == \A k \in Keys : /\ asked[k] <= clock
                         /\ Unsettled(k) => /\ target[k] <= scan + 1
                                            /\ target[k] <= scan => asked[k] <= began

Inv == Fenced /\ Held /\ Positions /\ Mirrors /\ Listing /\ Fetched
-----------------------------------------------------------------------------
USE DEF provider, attempt, position, replica, jobs, run

LEMMA AnswersTyped ==
    ASSUME TypeOK, NEW l \in Leases PROVE Answers(l) \subseteq Pages
<1>1. \A i \in Nat : Stored(i) \in Nat
  BY DEF Stored, TypeOK
<1>2. l.cursor \in Cursors /\ l.checkpoint \in Nat
  BY DEF Leases
<1>3. \A given \in BOOLEAN : SnapshotPage(l, given) \in Pages
  BY <1>1, <1>2, RecordsAssumption DEF SnapshotPage, Pages, Cursors, NoCursor, TypeOK
<1>4. \A given \in BOOLEAN : ChangesPages(l, given) \subseteq Pages
  <2> TAKE given \in BOOLEAN
  <2> DEFINE from == IF l.cursor.pos = 0 THEN l.checkpoint ELSE l.cursor.pos
             later == {i \in Ids : changedAt[i] > from}
             end == IF given THEN clock ELSE 0
  <2>1. Ids \subseteq Nat
    BY RecordsAssumption DEF Ids
  <2>2. end \in Nat
    BY DEF TypeOK
  <2>3. CASE later = {}
    <3>1. ChangesPages(l, given) = {[id |-> 0, version |-> 0, complete |-> TRUE,
                                     next |-> NoCursor, checkpoint |-> end]}
      BY <2>3 DEF ChangesPages
    <3>2. NoCursor \in Cursors
      BY DEF Cursors, NoCursor
    <3> QED
      BY <2>2, <3>1, <3>2 DEF Pages
  <2>4. CASE later # {}
    <3> SUFFICES ASSUME NEW p \in ChangesPages(l, given) PROVE p \in Pages
      OBVIOUS
    <3>1. PICK i \in later :
            p = [id |-> i, version |-> Stored(i), complete |-> later = {i},
                 next |-> IF later = {i} THEN NoCursor
                          ELSE [pos |-> changedAt[i], since |-> 0],
                 checkpoint |-> IF later = {i} THEN end ELSE 0]
      BY <2>4 DEF ChangesPages
    <3>2. changedAt[i] \in Nat /\ i \in Nat
      BY <2>1 DEF TypeOK
    <3>3. p.next \in Cursors
      BY <3>1, <3>2 DEF Cursors, NoCursor
    <3> QED
      BY <1>1, <2>2, <3>1, <3>2, <3>3 DEF Pages
  <2> QED
    BY <2>3, <2>4
<1> QED
  BY <1>3, <1>4 DEF Answers

\* What a commit writes, action by action.
LEMMA WriteTyped ==
    ASSUME TypeOK, NEW l \in Leases, NEW p \in Pages, WritePage(l, p)
    PROVE  content' \in [Ids -> Nat] /\ seen' \in [Ids -> Nat] /\ lapsed' \subseteq Ids
BY DEF TypeOK, WritePage, ContentAfter, SeenAfter, Unseen, Upserts, Leases, Pages

LEMMA TypePreserved == TypeOK /\ [Next]_vars => TypeOK'
<1> SUFFICES ASSUME TypeOK, [Next]_vars PROVE TypeOK'
  OBVIOUS
<1>0. NoCursor \in Cursors /\ NoLease \in Leases /\ NoPage \in Pages
  BY DEF NoCursor, NoLease, NoPage, Cursors, Leases, Pages
<1>t. TypeOK
  OBVIOUS
<1> USE <1>0 DEF TypeOK, Go, GoOn, Return, Upset, Unlease
<1>1. ASSUME NEW w \in Workers, ClaimDue(w) PROVE TypeOK'
  <2>1. [fence |-> fence + 1, scan |-> ClaimGeneration, mode |-> ClaimMode,
         cursor |-> cursor, checkpoint |-> checkpoint] \in Leases
    BY DEF ClaimGeneration, ClaimMode, Leases
  <2>2. ClaimGeneration \in Nat /\ ClaimMode \in {"none", "snapshot", "changes"}
    BY DEF ClaimGeneration, ClaimMode
  <2> HIDE DEF ClaimGeneration, ClaimMode
  <2>3. lease' \in [Workers -> Leases]
    BY <1>1, <2>1 DEF ClaimDue
  <2>4. job' \in [Keys -> {"none", "queued", "running", "completed", "superseded"}]
    BY <1>1 DEF ClaimDue, JobsFollow
  <2>5. /\ owner' \in Workers \cup {None} /\ expired' \in BOOLEAN /\ complete' \in BOOLEAN
        /\ mode' \in {"none", "snapshot", "changes"} /\ fence' \in Nat /\ scan' \in Nat
    <3>1. /\ owner' = w /\ expired' = FALSE /\ complete' = FALSE /\ fence' = fence + 1
          /\ mode' = ClaimMode /\ scan' = ClaimGeneration
      BY <1>1 DEF ClaimDue
    <3>2. fence' \in Nat
      BY <3>1
    <3>3. mode' \in {"none", "snapshot", "changes"} /\ scan' \in Nat
      BY <2>2, <3>1, Zenon
    <3>4. owner' \in Workers \cup {None} /\ expired' \in BOOLEAN /\ complete' \in BOOLEAN
      BY <3>1
    <3> QED
      BY <3>2, <3>3, <3>4
  <2>6. /\ pc' \in [Workers -> {"idle", "scan", "commit", "reset", "fail"}]
        /\ pages' \in [Workers -> Nat] /\ began' \in Nat
    BY <1>1 DEF ClaimDue
  <2>7. UNCHANGED <<provider, state, due, cursor, checkpoint, replica, suppressed,
                    target, asked, page, upsets>>
    BY <1>1 DEF ClaimDue
  <2> QED
    BY <2>3, <2>4, <2>5, <2>6, <2>7
<1>2. ASSUME NEW w \in Workers, Scan(w) PROVE TypeOK'
  <2>1. Answers(lease[w]) \subseteq Pages
    BY <1>t, AnswersTyped
  <2> QED
    BY <1>2, <2>1 DEF Scan
<1>3. ASSUME NEW w \in Workers, CommitPage(w),
             CommitAnswered(w) \/ CommitUnknown(w)
      PROVE  TypeOK'
  <2> DEFINE l == lease[w]
             p == page[w]
  <2>1. l \in Leases /\ p \in Pages /\ p.next \in Cursors /\ p.checkpoint \in Nat
    BY DEF Pages
  <2>2. content' \in [Ids -> Nat] /\ seen' \in [Ids -> Nat] /\ lapsed' \subseteq Ids
    BY <1>3, <1>t, <2>1, WriteTyped DEF CommitPage
  <2>3. /\ cursor' \in Cursors /\ checkpoint' \in Nat
        /\ mode' \in {"none", "snapshot", "changes"} /\ complete' \in BOOLEAN
        /\ owner' \in Workers \cup {None} /\ expired' \in BOOLEAN
        /\ due' \in {"now", "retry", "poll"}
        /\ job' \in [Keys -> {"none", "queued", "running", "completed", "superseded"}]
    BY <1>3, <2>1 DEF CommitPage, CompletePage, ContinuePage, JobsFollow
  <2>4. [l EXCEPT !.cursor = p.next] \in Leases
    BY <2>1 DEF Leases
  <2>5. /\ pc' \in [Workers -> {"idle", "scan", "commit", "reset", "fail"}]
        /\ lease' \in [Workers -> Leases] /\ page' \in [Workers -> Pages]
        /\ pages' \in [Workers -> Nat] /\ upsets' \in Nat
    <3>1. CASE CommitUnknown(w)
      BY <3>1 DEF CommitUnknown
    <3>2. CASE CommitAnswered(w) /\ p.complete
      BY <3>2 DEF CommitAnswered
    <3>3. CASE CommitAnswered(w) /\ ~p.complete
      BY <2>4, <3>3 DEF CommitAnswered
    <3> QED
      BY <1>3, <3>1, <3>2, <3>3
  <2> QED
    BY <1>3, <2>2, <2>3, <2>5 DEF CommitPage
<1>4. ASSUME NEW w \in Workers,
             \/ LostLease(w) \/ ResetCheckpoint(w) \/ FailLease(w)
             \/ ScanResets(w) \/ RunFails(w) \/ Crash(w)
      PROVE  TypeOK'
  <2>1. CASE LostLease(w)
    BY <2>1 DEF LostLease
  <2>2. CASE ResetCheckpoint(w)
    <3>1. CASE OwnsLease(w, FALSE)
      <4>1. job' \in [Keys -> {"none", "queued", "running", "completed", "superseded"}]
        BY <2>2, <3>1 DEF ResetCheckpoint, JobsFollow
      <4>2. /\ owner' \in Workers \cup {None} /\ expired' \in BOOLEAN
            /\ complete' \in BOOLEAN /\ due' \in {"now", "retry", "poll"}
        BY <2>2, <3>1 DEF ResetCheckpoint
      <4>3. /\ cursor' \in Cursors /\ checkpoint' \in Nat
            /\ mode' \in {"none", "snapshot", "changes"}
        <5>1. cursor' = NoCursor /\ checkpoint' = 0 /\ mode' = "none"
          BY <2>2, <3>1 DEF ResetCheckpoint
        <5> QED
          BY <5>1
      <4>4. /\ pc' \in [Workers -> {"idle", "scan", "commit", "reset", "fail"}]
            /\ lease' \in [Workers -> Leases] /\ page' \in [Workers -> Pages]
            /\ pages' \in [Workers -> Nat]
        BY <2>2, <3>1 DEF ResetCheckpoint
      <4>5. UNCHANGED <<provider, state, fence, scan, replica, suppressed, target, asked,
                        began, upsets>>
        BY <2>2 DEF ResetCheckpoint
      <4> QED
        BY <4>1, <4>2, <4>3, <4>4, <4>5
    <3>2. CASE ~OwnsLease(w, FALSE)
      BY <2>2, <3>2 DEF ResetCheckpoint
    <3> QED
      BY <3>1, <3>2
  <2>3. CASE FailLease(w)
    BY <2>3 DEF FailLease, JobsFollow
  <2>4. CASE ScanResets(w)
    BY <2>4 DEF ScanResets
  <2>5. CASE RunFails(w)
    BY <2>5 DEF RunFails
  <2>6. CASE Crash(w)
    BY <2>6 DEF Crash
  <2> QED
    BY <1>4, <2>1, <2>2, <2>3, <2>4, <2>5, <2>6
<1>5. ASSUME NEW i \in Ids, Record(i) PROVE TypeOK'
  <2>1. CASE ProviderChanges(i)
    BY <2>1 DEF ProviderChanges
  <2>2. CASE PurgeExpired(i)
    BY <2>2 DEF PurgeExpired
  <2>3. CASE SuppressExternalRecord(i)
    BY <2>3 DEF SuppressExternalRecord
  <2> QED
    BY <1>5, <2>1, <2>2, <2>3 DEF Record
<1>6. ASSUME NEW k \in Keys, RequestRefresh(k) PROVE TypeOK'
  <2>1. scan + 1 \in Nat
    OBVIOUS
  <2>2. job' \in [Keys -> {"none", "queued", "running", "completed", "superseded"}]
    BY <1>6, Zenon DEF RequestRefresh, TargetScan, Unsettled
  <2> QED
    BY <1>6, <2>1, <2>2 DEF RequestRefresh, TargetScan
<1>7. ASSUME Time PROVE TypeOK'
  <2>1. CASE LeaseExpires
    BY <2>1 DEF LeaseExpires
  <2>2. CASE LeaseOutlived
    BY <2>2 DEF LeaseOutlived
  <2>3. CASE RetryDue
    BY <2>3 DEF RetryDue
  <2>4. CASE PollDue
    BY <2>4 DEF PollDue
  <2> QED
    BY <1>7, <2>1, <2>2, <2>3, <2>4 DEF Time
<1>8. ASSUME Pause \/ Resume \/ ReplaceBinding PROVE TypeOK'
  <2>1. CASE Pause
    <3>1. state' \in {"active", "paused"} /\ owner' \in Workers \cup {None}
      BY <2>1 DEF Pause
    <3>2. expired' \in BOOLEAN
      BY <2>1 DEF Pause
    <3>3. upsets' \in Nat
      BY <2>1 DEF Pause
    <3>4. UNCHANGED <<provider, due, fence, scan, position, complete, replica, suppressed,
                   jobs, run, began>>
      BY <2>1 DEF Pause
    <3> QED
      BY <3>1, <3>2, <3>3, <3>4
  <2>2. CASE Resume
    BY <2>2 DEF Resume
  <2>3. CASE ReplaceBinding
    <3>1. job' \in [Keys -> {"none", "queued", "running", "completed", "superseded"}]
      BY <2>3 DEF ReplaceBinding
    <3>2. suppressed' \subseteq Ids /\ content' \in [Ids -> Nat] /\ seen' \in [Ids -> Nat]
      BY <2>3 DEF ReplaceBinding
    <3> QED
      <4>1. /\ owner' \in Workers \cup {None} /\ expired' \in BOOLEAN
            /\ complete' \in BOOLEAN /\ due' \in {"now", "retry", "poll"}
            /\ state' \in {"active", "paused"}
        BY <2>3 DEF ReplaceBinding
      <4>2. /\ cursor' \in Cursors /\ checkpoint' \in Nat
            /\ mode' \in {"none", "snapshot", "changes"}
            /\ fence' \in Nat /\ scan' \in Nat /\ lapsed' \subseteq Ids /\ upsets' \in Nat
        BY <2>3 DEF ReplaceBinding
      <4>3. UNCHANGED <<provider, target, asked, run, began>>
        BY <2>3 DEF ReplaceBinding
      <4> QED
        BY <3>1, <3>2, <4>1, <4>2, <4>3
  <2> QED
    BY <1>8, <2>1, <2>2, <2>3
<1>9. ASSUME UNCHANGED vars PROVE TypeOK'
  BY <1>9 DEF vars
<1> QED
  BY <1>1, <1>2, <1>3, <1>4, <1>5, <1>6, <1>7, <1>8, <1>9
  DEF Next, Run, Trouble, CommitAnswered, CommitUnknown

\* Every variable keeps its type.
THEOREM TypeCorrect == Spec => []TypeOK
<1>1. Init => TypeOK
  <2> SUFFICES ASSUME Init PROVE TypeOK
    OBVIOUS
  <2>1. NoCursor \in Cursors /\ NoLease \in Leases /\ NoPage \in Pages
    BY DEF NoCursor, NoLease, NoPage, Cursors, Leases, Pages
  <2>2. here \subseteq Ids /\ changedAt \in [Ids -> Nat] /\ clock \in Nat
    BY AtFirstAssumption DEF Init, Ids
  <2>3. /\ state \in {"active", "paused"} /\ owner \in Workers \cup {None}
        /\ expired \in BOOLEAN /\ due \in {"now", "retry", "poll"} /\ complete \in BOOLEAN
    BY DEF Init
  <2>4. /\ fence \in Nat /\ scan \in Nat /\ mode \in {"none", "snapshot", "changes"}
        /\ cursor \in Cursors /\ checkpoint \in Nat /\ began \in Nat /\ upsets \in Nat
    BY <2>1 DEF Init
  <2>5. /\ content \in [Ids -> Nat] /\ seen \in [Ids -> Nat]
        /\ lapsed \subseteq Ids /\ suppressed \subseteq Ids
    BY DEF Init
  <2>6. /\ job \in [Keys -> {"none", "queued", "running", "completed", "superseded"}]
        /\ target \in [Keys -> Nat] /\ asked \in [Keys -> Nat]
    BY DEF Init
  <2>7. /\ pc \in [Workers -> {"idle", "scan", "commit", "reset", "fail"}]
        /\ lease \in [Workers -> Leases] /\ page \in [Workers -> Pages]
        /\ pages \in [Workers -> Nat]
    BY <2>1 DEF Init
  <2> QED
    BY <2>2, <2>3, <2>4, <2>5, <2>6, <2>7 DEF TypeOK
<1> QED
  BY <1>1, TypePreserved, PTL DEF Spec

-----------------------------------------------------------------------------
\* Worker w neither claims nor fetches: it stands still, or stops scanning.
Still(w) == pc'[w] = pc[w] /\ lease'[w] = lease[w] /\ page'[w] = page[w]
Stops(w) == /\ pc[w] # "idle" /\ pc'[w] \notin {"scan", "commit"}
            /\ lease'[w].fence <= fence
            /\ pc'[w] # "idle" => lease'[w] = lease[w]

LEMMA Holders ==
    ASSUME TypeOK, fence' = fence, \A w \in Workers : Still(w) \/ Stops(w)
    PROVE  /\ \A w \in Workers : Current(w)' => Current(w)
           /\ \A w \in Workers : Holds(w)' => Holds(w) /\ Still(w)
           /\ Fenced => Fenced'
<1>1. \A w \in Workers : Current(w)' => Current(w)
  BY DEF Still, Stops, Current
<1>2. \A w \in Workers : Holds(w)' => Holds(w) /\ Still(w)
  BY <1>1 DEF Still, Stops, Holds, Current
<1>3. ASSUME Fenced PROVE Fenced'
  <2>1. \A w \in Workers : (lease[w].fence <= fence)'
    BY <1>3 DEF Fenced, Still, Stops
  <2> QED
    BY <1>1, <1>3, <2>1 DEF Fenced
<1> QED
  BY <1>1, <1>2, <1>3

LEMMA ReturnStops ==
    ASSUME TypeOK, NEW w \in Workers, pc[w] # "idle", Return(w)
    PROVE  \A v \in Workers : Still(v) \/ Stops(v)
<1>1. \A v \in Workers : v # w => Still(v)
  BY DEF Return, Go, Still, TypeOK
<1>2. pc'[w] = "idle" /\ lease'[w].fence = 0 /\ fence \in Nat
  BY DEF Return, Go, NoLease, TypeOK
<1> QED
  BY <1>1, <1>2 DEF Stops

LEMMA GoOnStops ==
    ASSUME TypeOK, Inv, NEW w \in Workers, NEW to \in {"reset", "fail"},
           pc[w] # "idle", GoOn(w, to)
    PROVE  \A v \in Workers : Still(v) \/ Stops(v)
<1>1. \A v \in Workers : v # w => Still(v)
  BY DEF GoOn, Go, Still, TypeOK
<1>2. pc'[w] = to /\ lease'[w] = lease[w] /\ lease[w].fence <= fence
  BY DEF GoOn, Go, TypeOK, Inv, Fenced
<1> QED
  BY <1>1, <1>2 DEF Stops

\* A step that touches neither the replica nor the scan.
LEMMA QuietStep ==
    ASSUME TypeOK, Inv, \A w \in Workers : Still(w) \/ Stops(w), complete' => complete,
           UNCHANGED <<provider, fence, scan, position, replica, suppressed, began>>
    PROVE  Inv'
<1>1. /\ \A w \in Workers : Holds(w)' => Holds(w) /\ Still(w)
      /\ Fenced'
  BY Holders DEF Inv
<1>2. Held'
  BY <1>1 DEF Inv, Held, Still
<1>3. Positions'
  BY DEF Inv, Positions
<1>4. Mirrors'
  BY DEF Inv, Mirrors, Mirrored, Stored
<1>5. Listing'
  BY <1>1 DEF Inv, Listing, Listed
<1>6. Fetched'
  <2> SUFFICES ASSUME NEW w \in Workers, (Holds(w) /\ pc[w] = "commit")'
               PROVE  PageInHand(page[w])'
    BY DEF Fetched
  <2>1. Holds(w) /\ pc[w] = "commit" /\ page'[w] = page[w]
    BY <1>1 DEF Still
  <2>2. PageOfChanges(page[w]) => PageOfChanges(page[w])'
    BY <2>1 DEF PageOfChanges, ChangesUpTo, From, Stored
  <2>3. PageOfSnapshot(page[w]) => PageOfSnapshot(page[w])'
    BY <2>1 DEF PageOfSnapshot, Stored
  <2> QED
    BY <2>1, <2>2, <2>3 DEF Inv, Fetched, PageInHand
<1> QED
  BY <1>1, <1>2, <1>3, <1>4, <1>5, <1>6 DEF Inv

\* The provider moves on: what was read at an earlier time still was so.
LEMMA ProviderStep ==
    ASSUME TypeOK, Inv, NEW n \in Ids, ProviderChanges(n) PROVE Inv'
<1>0. /\ clock' = clock + 1 /\ clock \in Nat
      /\ changedAt' = [changedAt EXCEPT ![n] = clock + 1] /\ changedAt \in [Ids -> Nat]
      /\ \A i \in Ids : i # n => (i \in here' <=> i \in here)
      /\ UNCHANGED <<fence, scan, mode, cursor, checkpoint, complete, content, seen, lapsed,
                     suppressed, pc, lease, page, began>>
  BY DEF ProviderChanges, TypeOK
<1>1. \A w \in Workers : Still(w)
  BY <1>0 DEF Still
<1>2. Fenced' /\ \A w \in Workers : Holds(w)' => Holds(w)
  BY <1>0, <1>1, Holders DEF Inv
<1>3. Held'
  BY <1>0, <1>2 DEF Inv, Held
<1>4. \A i \in Ids : i # n => changedAt'[i] = changedAt[i] /\ Stored(i)' = Stored(i)
  BY <1>0 DEF Stored
<1>5. Positions'
  BY <1>0 DEF Inv, Positions, TypeOK, Cursors
<1>6. /\ \A t \in Nat : t <= clock => clock + 1 > t
      /\ began <= clock /\ checkpoint <= clock /\ began \in Nat /\ checkpoint \in Nat
      /\ cursor.pos \in Nat /\ cursor.since \in Nat
      /\ cursor.pos # 0 /\ mode = "changes" => cursor.pos <= clock
      /\ cursor.pos # 0 /\ mode = "snapshot" => cursor.since <= clock
  BY DEF Inv, Positions, TypeOK, Cursors
<1>7. \A i \in Ids, t \in Nat : t <= clock /\ Mirrored(i, t) => Mirrored(i, t)'
  BY <1>0, <1>4, <1>6 DEF Mirrored
<1>8. Mirrors'
  BY <1>0, <1>6, <1>7 DEF Inv, Mirrors
<1>9. \A i \in Ids, t \in Nat : t <= clock /\ Listed(i, t) => Listed(i, t)'
  BY <1>0, <1>4, <1>6 DEF Listed
<1>10. Listing'
  BY <1>0, <1>2, <1>6, <1>9 DEF Inv, Listing
<1>11. Fetched'
  <2> SUFFICES ASSUME NEW w \in Workers, (Holds(w) /\ pc[w] = "commit")'
               PROVE  PageInHand(page[w])'
    BY DEF Fetched
  <2> DEFINE p == page[w]
  <2>1. Holds(w) /\ PageInHand(p) /\ p' = p /\ p \in Pages
    BY <1>0, <1>2 DEF Inv, Fetched, TypeOK
  <2>2. p.checkpoint \in Nat /\ p.next.pos \in Nat /\ p.version \in Nat
    BY <2>1 DEF Pages, Cursors
  <2> HIDE DEF p
  <2>3. \A t \in Nat : t <= clock /\ ChangesUpTo(p, t) => ChangesUpTo(p, t)'
    BY <1>0, <1>4, <1>6, <2>1 DEF ChangesUpTo, From
  <2>4. mode = "changes" /\ PageOfChanges(p) => PageOfChanges(p)'
    <3> SUFFICES ASSUME mode = "changes", PageOfChanges(p) PROVE PageOfChanges(p)'
      OBVIOUS
    <3>1. From' = From /\ From \in Nat /\ From <= clock
      BY <1>0, <1>6 DEF From
    <3>2. p.id \in Ids => changedAt'[p.id] > From
      BY <1>0, <1>6, <3>1 DEF PageOfChanges
    <3> QED
      BY <1>0, <1>6, <2>1, <2>2, <2>3, <3>1, <3>2 DEF PageOfChanges, PageInHand
  <2>5. PageOfSnapshot(p) => PageOfSnapshot(p)'
    BY <1>0, <1>4, <1>6, <2>1 DEF PageOfSnapshot
  <2>6. p.id \in Ids => p.version <= changedAt'[p.id]
    BY <1>0, <2>1, <2>2, <1>4 DEF PageInHand, Inv, Positions
  <2> QED
    BY <1>0, <2>1, <2>2, <2>4, <2>5, <2>6 DEF PageInHand, p
<1> QED
  BY <1>2, <1>3, <1>5, <1>8, <1>10, <1>11 DEF Inv

\* Retention or a tenant erases a record: nothing that was mirrored is lost to
\* what is promised of it.
LEMMA EraseStep ==
    ASSUME TypeOK, Inv, NEW n \in Ids, PurgeExpired(n) \/ SuppressExternalRecord(n)
    PROVE  Inv'
<1>0. /\ content' = [content EXCEPT ![n] = 0] /\ content \in [Ids -> Nat]
      /\ changedAt \in [Ids -> Nat]
      /\ n \in suppressed' \/ n \in lapsed'
      /\ suppressed \subseteq suppressed' /\ lapsed \subseteq lapsed'
      /\ \A i \in suppressed' : i # n => i \in suppressed
      /\ UNCHANGED <<here, changedAt, clock, fence, scan, mode, cursor, checkpoint, complete,
                     seen, pc, lease, page, began>>
  BY DEF PurgeExpired, SuppressExternalRecord, TypeOK
<1>1. Fenced' /\ \A w \in Workers : Holds(w)' => Holds(w) /\ Still(w)
  BY <1>0, Holders DEF Inv, Still
<1>2. Held'
  BY <1>0, <1>1 DEF Inv, Held
<1>3. Positions'
  <2>1. \A i \in Ids : content'[i] <= changedAt'[i]
    BY <1>0 DEF Inv, Positions
  <2>2. \A i \in suppressed' : content'[i] = 0
    BY <1>0 DEF Inv, Positions, TypeOK
  <2> QED
    BY <1>0, <2>1, <2>2 DEF Inv, Positions
<1>5. Mirrors'
  BY <1>0 DEF Inv, Mirrors, Mirrored, Stored
<1>6. Listing'
  <2>1. \A i \in Ids : Listed(i, cursor.since) => Listed(i, cursor.since)'
    BY <1>0 DEF Listed
  <2> QED
    BY <1>0, <1>1, <2>1 DEF Inv, Listing
<1>7. Fetched'
  <2> SUFFICES ASSUME NEW w \in Workers, (Holds(w) /\ pc[w] = "commit")'
               PROVE  PageInHand(page[w])'
    BY DEF Fetched
  <2>1. PageInHand(page[w]) /\ page'[w] = page[w] /\ page[w].version \in Nat
    BY <1>0, <1>1 DEF Inv, Fetched, TypeOK, Pages
  <2>2. PageOfChanges(page[w]) => PageOfChanges(page[w])'
    BY <1>0 DEF PageOfChanges, ChangesUpTo, From, Stored
  <2>3. PageOfSnapshot(page[w]) => PageOfSnapshot(page[w])'
    BY <1>0 DEF PageOfSnapshot, Stored
  <2> QED
    BY <1>0, <2>1, <2>2, <2>3 DEF PageInHand
<1> QED
  BY <1>1, <1>2, <1>3, <1>5, <1>6, <1>7 DEF Inv

\* A replaced binding starts from nothing, and no lease of the old one holds.
LEMMA ReplaceStep == ASSUME TypeOK, Inv, ReplaceBinding PROVE Inv'
<1>0. /\ fence' = fence + 1 /\ fence \in Nat /\ scan' = 0 /\ cursor'.pos = 0
      /\ checkpoint' = 0 /\ complete' = FALSE
      /\ content' = [i \in Ids |-> 0] /\ seen' = [i \in Ids |-> 0]
      /\ changedAt \in [Ids -> Nat]
      /\ suppressed' \subseteq Ids /\ mode' = "none"
      /\ UNCHANGED <<here, changedAt, clock, pc, lease, page, began>>
  <2>1. suppressed' \subseteq Ids /\ fence \in Nat /\ changedAt \in [Ids -> Nat]
    BY DEF ReplaceBinding, TypeOK
  <2> QED
    BY <2>1 DEF ReplaceBinding, NoCursor
<1>1. \A w \in Workers : ~Current(w)' /\ lease'[w].fence <= fence' /\ lease[w].fence \in Nat
  BY <1>0 DEF Inv, Fenced, Current, TypeOK, Leases
<1>2. Fenced' /\ Held' /\ Fetched'
  BY <1>1 DEF Fenced, Held, Fetched, Holds
<1>3. Positions'
  BY <1>0 DEF Inv, Positions, TypeOK
<1>4. Mirrors'
  BY <1>0 DEF Mirrors, Mirrored, Inv, Positions
<1>5. Listing'
  BY <1>0 DEF Listing
<1> QED
  BY <1>2, <1>3, <1>4, <1>5 DEF Inv

\* A reset drops the scan: its worker was the only one that held it.
LEMMA ResetStep ==
    ASSUME TypeOK, Inv, NEW w \in Workers, ResetCheckpoint(w) PROVE Inv'
<1>0. pc[w] # "idle" /\ Return(w)
  BY DEF ResetCheckpoint
<1>1. \A v \in Workers : Still(v) \/ Stops(v)
  BY <1>0, ReturnStops
<1>2. CASE ~OwnsLease(w, FALSE)
  <2>1. UNCHANGED <<provider, fence, scan, position, replica, suppressed, began, complete>>
    BY <1>2 DEF ResetCheckpoint
  <2> QED
    BY <1>1, <2>1, QuietStep
<1>3. CASE OwnsLease(w, FALSE)
  <2>0. /\ cursor'.pos = 0 /\ checkpoint' = 0 /\ complete' = FALSE /\ mode' = "none"
        /\ UNCHANGED <<here, changedAt, clock, fence, scan, content, seen, lapsed, suppressed,
                       began>>
    <3>1. cursor' = NoCursor /\ checkpoint' = 0 /\ complete' = FALSE /\ mode' = "none"
      BY <1>3 DEF ResetCheckpoint
    <3>2. UNCHANGED <<here, changedAt, clock, fence, scan, content, seen, lapsed, suppressed,
                     began>>
      BY DEF ResetCheckpoint
    <3> QED
      BY <3>1, <3>2 DEF NoCursor
  <2>1. Current(w) /\ ~Holds(w)
    BY <1>3 DEF ResetCheckpoint, OwnsLease, Current, Holds
  <2>2. Fenced' /\ \A v \in Workers : ~Holds(v)'
    BY <1>1, <2>0, <2>1, Holders DEF Inv, Fenced, Holds
  <2>3. Held' /\ Fetched'
    BY <2>2 DEF Held, Fetched
  <2>4. Positions'
    BY <2>0 DEF Inv, Positions, TypeOK
  <2>5. Mirrors'
    BY <2>0 DEF Mirrors, Mirrored, Inv, Positions, TypeOK
  <2>6. Listing'
    BY <2>0, <2>2 DEF Listing
  <2> QED
    BY <2>2, <2>3, <2>4, <2>5, <2>6 DEF Inv
<1> QED
  BY <1>2, <1>3

\* A claim ends every older lease; a new generation has seen nothing yet.
LEMMA ClaimStep ==
    ASSUME TypeOK, Inv, NEW w \in Workers, ClaimDue(w) PROVE Inv'
<1>0. /\ fence' = fence + 1 /\ fence \in Nat /\ scan' = ClaimGeneration /\ mode' = ClaimMode
      /\ complete' = FALSE /\ pc' = [pc EXCEPT ![w] = "scan"]
      /\ began' = IF Continuing THEN began ELSE clock
      /\ UNCHANGED <<here, changedAt, clock, cursor, checkpoint, content, seen, lapsed,
                     suppressed, page>>
  BY DEF ClaimDue, Go, TypeOK
<1>1. lease' = [lease EXCEPT ![w] = [fence |-> fence + 1, scan |-> ClaimGeneration,
                                     mode |-> ClaimMode, cursor |-> cursor,
                                     checkpoint |-> checkpoint]]
  BY DEF ClaimDue
<1>2. /\ lease'[w].fence = fence + 1 /\ lease'[w].scan = scan' /\ lease'[w].mode = mode'
      /\ lease'[w].cursor = cursor /\ lease'[w].checkpoint = checkpoint
      /\ \A v \in Workers : v # w => lease'[v] = lease[v] /\ pc'[v] = pc[v]
      /\ pc'[w] = "scan"
  BY <1>0, <1>1 DEF TypeOK
<1>3. /\ \A v \in Workers : Current(v)' => v = w
      /\ \A v \in Workers : (lease[v].fence <= fence)'
  BY <1>0, <1>2 DEF Current, Inv, Fenced, TypeOK, Leases
<1>4. Fenced'
  BY <1>3 DEF Fenced
<1>5. /\ scan' \in Nat /\ scan <= scan'
      /\ Continuing => scan' = scan /\ mode' = mode /\ began' = began
      /\ ~Continuing => scan' = scan + 1
      /\ began' <= clock /\ clock \in Nat
      /\ mode' # "none" /\ (mode' = "changes" <=> checkpoint # 0)
  BY <1>0 DEF ClaimGeneration, ClaimMode, Continuing, Inv, Positions, TypeOK
<1>6. Held'
  BY <1>0, <1>2, <1>3, <1>5 DEF Held, Holds
<1>7. Positions'
  <2>1. \A i \in Ids : seen'[i] <= scan'
    BY <1>0, <1>5 DEF Inv, Positions, TypeOK
  <2>2. (cursor.pos # 0 =>
           /\ ~complete
           /\ mode = "changes" => checkpoint # 0 /\ checkpoint <= cursor.pos /\ cursor.pos <= clock
           /\ mode # "changes" =>
                /\ mode = "snapshot" /\ checkpoint = 0 /\ cursor.pos < Records
                /\ began <= cursor.since /\ cursor.since <= clock)'
    BY <1>0, <1>5 DEF Inv, Positions, Continuing
  <2> QED
    BY <1>0, <1>5, <2>1, <2>2 DEF Inv, Positions
<1>8. Mirrors'
  BY <1>0, <1>5 DEF Inv, Mirrors, Mirrored, Stored, Continuing
<1>9. Listing'
  <2>1. CASE Continuing
    BY <1>0, <1>5, <2>1 DEF Inv, Listing, Listed, Continuing
  <2>2. CASE ~Continuing
    <3>1. cursor'.pos = 0 /\ \A i \in Ids : seen'[i] # scan'
      BY <1>0, <1>5, <2>2 DEF Inv, Positions, Continuing, TypeOK
    <3> QED
      BY <3>1 DEF Listing
  <2> QED
    BY <2>1, <2>2
<1>10. Fetched'
  BY <1>2, <1>3 DEF Fetched, Holds
<1> QED
  BY <1>4, <1>6, <1>7, <1>8, <1>9, <1>10 DEF Inv

\* What the provider answers is right at that moment.
LEMMA SnapshotAnswer ==
    ASSUME TypeOK, Inv, NEW w \in Workers, Holds(w), mode = "snapshot",
           NEW given \in BOOLEAN, NEW p, p = SnapshotPage(lease[w], given)
    PROVE  PageInHand(p)
<1> DEFINE t == IF cursor.pos = 0 THEN clock ELSE cursor.since
<1>1. /\ cursor.pos \in Nat /\ cursor.since \in Nat /\ clock \in Nat /\ clock # 0 /\ began \in Nat
      /\ Records \in Nat \ {0} /\ Ids = 1..Records /\ lease[w].cursor = cursor
      /\ cursor.pos # 0 => cursor.pos < Records /\ began <= cursor.since
                           /\ cursor.since <= clock
      /\ began <= clock
      /\ \A i \in Ids : content[i] <= changedAt[i] /\ changedAt[i] \in Nat
  BY RecordsAssumption DEF Inv, Held, Positions, TypeOK, Cursors, Ids
<1> DEFINE last == cursor.pos + 1 >= Records
<1>2. p = [id |-> cursor.pos + 1, version |-> Stored(cursor.pos + 1), complete |-> last,
           next |-> IF last THEN NoCursor ELSE [pos |-> cursor.pos + 1, since |-> t],
           checkpoint |-> IF last /\ given THEN t ELSE 0]
  BY <1>1 DEF SnapshotPage
<1>3. p.id = cursor.pos + 1 /\ p.version = Stored(p.id)
      /\ (p.complete <=> p.id >= Records)
  <2>1. p.id = cursor.pos + 1 /\ p.version = Stored(cursor.pos + 1)
    BY <1>2
  <2>2. p.complete <=> last
    <3> HIDE DEF last
    <3> QED
      BY <1>2
  <2>3. p.id >= Records <=> cursor.pos + 1 >= Records
    BY <2>1
  <2> QED
    BY <2>1, <2>2, <2>3, Zenon
<1>9. p.id \in Ids /\ (p.complete <=> p.id = Records)
  BY <1>1, <1>3
<1>4. t \in began..clock /\ t \in Nat /\ (cursor.pos # 0 => t = cursor.since)
  BY <1>1
<1>5. /\ p.checkpoint \in {0, t}
      /\ ~p.complete => p.next = [pos |-> p.id, since |-> t]
  <2>1. p.checkpoint = IF cursor.pos + 1 >= Records /\ given THEN t ELSE 0
    BY <1>2
  <2>2. p.next = IF cursor.pos + 1 >= Records THEN NoCursor
                 ELSE [pos |-> cursor.pos + 1, since |-> t]
    BY <1>2
  <2> QED
    BY <1>3, <2>1, <2>2
<1> HIDE DEF t
<1>6. PageOfSnapshot(p)
  BY <1>3, <1>4, <1>5, <1>9 DEF PageOfSnapshot
<1>7. p.checkpoint <= clock
  BY <1>1, <1>4, <1>5
<1>8. p.version <= changedAt[p.id] /\ (p.version # 0 => content[p.id] <= p.version)
  BY <1>1, <1>3, <1>9 DEF Stored
<1> QED
  BY <1>6, <1>7, <1>8 DEF PageInHand

LEMMA ChangesAnswer ==
    ASSUME TypeOK, Inv, NEW w \in Workers, Holds(w), mode = "changes",
           NEW given \in BOOLEAN, NEW p, p \in ChangesPages(lease[w], given)
    PROVE  PageInHand(p)
<1> DEFINE later == {i \in Ids : changedAt[i] > From}
           end == IF given THEN clock ELSE 0
<1>1. /\ cursor.pos \in Nat /\ checkpoint \in Nat /\ checkpoint # 0
      /\ clock \in Nat /\ clock # 0 /\ began \in Nat /\ began <= clock
      /\ lease[w].cursor = cursor /\ lease[w].checkpoint = checkpoint
      /\ \A i \in Ids : /\ content[i] <= changedAt[i] /\ changedAt[i] \in Nat
                        /\ changedAt[i] <= clock /\ changedAt[i] >= 1
      /\ \A i, j \in Ids : changedAt[i] = changedAt[j] /\ i # j => changedAt[i] = 1
  BY DEF Inv, Held, Positions, TypeOK, Cursors
<1>2. From \in Nat /\ From >= 1
  BY <1>1 DEF From
<1>3. end \in Nat /\ end <= clock
  BY <1>1
<1>4. 0 \notin Ids
  BY RecordsAssumption DEF Ids
<1>5. CASE later = {}
  <2>1. p = [id |-> 0, version |-> 0, complete |-> TRUE, next |-> NoCursor,
             checkpoint |-> end]
    BY <1>1, <1>5 DEF ChangesPages, From
  <2>2. \A i \in Ids : changedAt[i] <= From
    BY <1>1, <1>2, <1>5
  <2>3. PageOfChanges(p)
    BY <1>4, <2>1, <2>2 DEF PageOfChanges, ChangesUpTo
  <2> QED
    BY <1>3, <1>4, <2>1, <2>3 DEF PageInHand
<1>6. CASE later # {}
  <2>1. PICK i \in later :
          /\ \A k \in later : changedAt[i] <= changedAt[k]
          /\ p = [id |-> i, version |-> Stored(i), complete |-> later = {i},
                  next |-> IF later = {i} THEN NoCursor
                           ELSE [pos |-> changedAt[i], since |-> 0],
                  checkpoint |-> IF later = {i} THEN end ELSE 0]
    BY <1>1, <1>6 DEF ChangesPages, From
  <2>2. /\ i \in Ids /\ changedAt[i] > From /\ p.id = i /\ p.version = Stored(i)
        /\ p.complete <=> later = {i}
        /\ p.checkpoint \in {0, end}
        /\ ~p.complete => p.next.pos = changedAt[i]
    BY <2>1
  <2>3. \A k \in Ids : k # i /\ changedAt[k] > From => changedAt[k] > changedAt[i]
    BY <1>1, <1>2, <2>1, <2>2
  <2>4. p.complete => \A t \in Nat : ChangesUpTo(p, t)
    BY <1>1, <1>2, <2>2 DEF ChangesUpTo
  <2>5. ChangesUpTo(p, changedAt[i])
    BY <1>1, <1>2, <2>2, <2>3 DEF ChangesUpTo
  <2>6. PageOfChanges(p)
    BY <1>1, <1>2, <1>3, <2>2, <2>4, <2>5 DEF PageOfChanges
  <2>7. p.version <= changedAt[p.id] /\ (p.version # 0 => content[p.id] <= p.version)
    BY <1>1, <2>2 DEF Stored
  <2> QED
    BY <1>3, <2>2, <2>6, <2>7 DEF PageInHand
<1> QED
  BY <1>5, <1>6

LEMMA ScanStep == ASSUME TypeOK, Inv, NEW w \in Workers, Scan(w) PROVE Inv'
<1>0. /\ pc[w] = "scan" /\ pc' = [pc EXCEPT ![w] = "commit"]
      /\ UNCHANGED <<here, changedAt, clock, fence, scan, mode, cursor, checkpoint, complete,
                     content, seen, lapsed, suppressed, lease, began>>
  BY DEF Scan, Go
<1>1. PICK p \in Answers(lease[w]) : page' = [page EXCEPT ![w] = p]
  BY DEF Scan
<1>2. /\ \A v \in Workers : Current(v)' <=> Current(v)
      /\ \A v \in Workers : Holds(v)' <=> Holds(v)
  BY <1>0 DEF Current, Holds, TypeOK
<1>3. Fenced' /\ Held'
  BY <1>0, <1>2 DEF Inv, Fenced, Held
<1>4. Positions' /\ Mirrors' /\ Listing'
  BY <1>0, <1>2 DEF Inv, Positions, Mirrors, Mirrored, Stored, Listing, Listed
<1>5. Holds(w) => PageInHand(p)
  <2> SUFFICES ASSUME Holds(w) PROVE PageInHand(p)
    OBVIOUS
  <2>1. lease[w].mode = mode /\ mode \in {"snapshot", "changes"}
    BY DEF Inv, Held, TypeOK
  <2>2. CASE mode = "snapshot"
    <3>1. PICK given \in BOOLEAN : p = SnapshotPage(lease[w], given)
      BY <1>1, <2>1, <2>2 DEF Answers
    <3> QED
      BY <2>2, <3>1, SnapshotAnswer
  <2>3. CASE mode = "changes"
    <3>1. PICK given \in BOOLEAN : p \in ChangesPages(lease[w], given)
      BY <1>1, <2>1, <2>3 DEF Answers
    <3> QED
      BY <2>3, <3>1, ChangesAnswer
  <2> QED
    BY <2>1, <2>2, <2>3
<1>6. ASSUME NEW v \in Workers, (Holds(v) /\ pc[v] = "commit")' PROVE PageInHand(page[v])'
  <2>1. Holds(v) /\ PageInHand(page'[v])
    <3>1. CASE v = w
      BY <1>1, <1>2, <1>5, <1>6, <3>1 DEF TypeOK
    <3>2. CASE v # w
      BY <1>0, <1>1, <1>2, <1>6, <3>2 DEF Inv, Fetched, TypeOK
    <3> QED
      BY <3>1, <3>2
  <2> QED
    BY <1>0, <2>1
    DEF PageInHand, PageOfChanges, ChangesUpTo, From, PageOfSnapshot, Stored
<1>7. Fetched'
  BY <1>6 DEF Fetched
<1> QED
  BY <1>3, <1>4, <1>7 DEF Inv

-----------------------------------------------------------------------------
\* A commit under the newest lease: what it writes of each record.
LEMMA Written ==
    ASSUME TypeOK, Inv, NEW w \in Workers, CommitPage(w)
    PROVE  /\ Holds(w) /\ pc[w] = "commit" /\ PageInHand(page[w])
           /\ mode \in {"snapshot", "changes"} /\ (mode = "changes" <=> checkpoint # 0)
           /\ ~complete
           /\ \A i \in Ids : seen'[i] = IF Upserts(page[w], i) THEN scan ELSE seen[i]
           /\ \A i \in Ids : i \in lapsed' <=> i \in lapsed /\ ~Upserts(page[w], i)
           /\ mode = "changes" => \A i \in Ids :
                content'[i] = IF Upserts(page[w], i) THEN page[w].version
                              ELSE IF i = page[w].id /\ page[w].version = 0 THEN 0
                              ELSE content[i]
           /\ mode = "snapshot" => \A i \in Ids :
                content'[i] = IF page[w].complete /\ seen'[i] # scan THEN 0
                              ELSE IF Upserts(page[w], i) THEN page[w].version
                              ELSE content[i]
<1> DEFINE p == page[w]
           l == lease[w]
<1>1. Holds(w) /\ pc[w] = "commit"
  BY DEF CommitPage, OwnsLease, Holds, Current
<1>2. /\ PageInHand(p) /\ mode \in {"snapshot", "changes"} /\ (mode = "changes" <=> checkpoint # 0)
      /\ ~complete /\ l.scan = scan /\ l.mode = mode
  BY <1>1 DEF Inv, Held, Fetched, TypeOK
<1>3. WritePage(l, p) /\ lapsed \subseteq Ids
  BY DEF CommitPage, TypeOK
<1>4. /\ \A i \in Ids : seen'[i] = IF Upserts(p, i) THEN scan ELSE seen[i]
      /\ \A i \in Ids : SeenAfter(l, p)[i] = seen'[i]
      /\ \A i \in Ids : i \in lapsed' <=> i \in lapsed /\ ~Upserts(p, i)
  BY <1>2, <1>3 DEF WritePage, SeenAfter
<1>5. \A i \in Ids : content'[i] = IF i \in Unseen(l, p) THEN 0 ELSE ContentAfter(l, p)[i]
  BY <1>3 DEF WritePage
<1>6. \A i \in Ids : i \in Unseen(l, p) <=> p.complete /\ mode = "snapshot" /\ seen'[i] # scan
  BY <1>2, <1>4 DEF Unseen
<1>7. \A i \in Ids : ContentAfter(l, p)[i] =
        IF Upserts(p, i) THEN p.version
        ELSE IF p.id = i /\ p.version = 0 /\ mode = "changes" THEN 0 ELSE content[i]
  BY <1>2 DEF ContentAfter, Erases
<1> HIDE DEF p, l
<1>8. mode = "changes" => \A i \in Ids :
        content'[i] = IF Upserts(p, i) THEN p.version
                      ELSE IF i = p.id /\ p.version = 0 THEN 0 ELSE content[i]
  BY <1>5, <1>6, <1>7
<1>9. mode = "snapshot" => \A i \in Ids :
        content'[i] = IF p.complete /\ seen'[i] # scan THEN 0
                      ELSE IF Upserts(p, i) THEN p.version ELSE content[i]
  BY <1>5, <1>6, <1>7
<1> QED
  BY <1>1, <1>2, <1>4, <1>8, <1>9 DEF p, l

\* What stays of the scan: the worker may go on, nobody else holds a lease.
LEMMA CommitHolders ==
    ASSUME TypeOK, Inv, NEW w \in Workers, CommitPage(w),
           CommitAnswered(w) \/ CommitUnknown(w)
    PROVE  Fenced' /\ Held' /\ Fetched'
<1> DEFINE p == page[w]
<1>1. Holds(w) /\ pc[w] = "commit" /\ fence' = fence /\ fence \in Nat
  BY Written DEF CommitPage, TypeOK
<1>2. \A v \in Workers : v # w => pc'[v] = pc[v] /\ lease'[v] = lease[v]
  BY DEF CommitAnswered, CommitUnknown, Return, GoOn, Go, TypeOK
<1>3. \/ lease'[w].fence = lease[w].fence
      \/ pc'[w] = "idle" /\ lease'[w].fence = 0
  <2>1. CASE CommitUnknown(w)
    BY <2>1 DEF CommitUnknown, GoOn
  <2>2. CASE CommitAnswered(w) /\ p.complete
    <3>1. lease' = [lease EXCEPT ![w] = NoLease] /\ pc' = [pc EXCEPT ![w] = "idle"]
      BY <2>2 DEF CommitAnswered, Return, Go
    <3> QED
      BY <3>1 DEF NoLease, TypeOK
  <2>3. CASE CommitAnswered(w) /\ ~p.complete
    <3>1. lease' = [lease EXCEPT ![w].cursor = p.next]
      BY <2>3 DEF CommitAnswered
    <3>2. lease'[w] = [lease[w] EXCEPT !.cursor = p.next]
      BY <3>1 DEF TypeOK
    <3>3. lease'[w].fence = lease[w].fence
      BY <3>2 DEF TypeOK, Leases
    <3> QED
      BY <3>3
  <2> QED
    BY <2>1, <2>2, <2>3
<1>4. lease[w].fence = fence /\ \A v \in Workers : Current(v) => v = w
  BY <1>1 DEF Inv, Fenced, Holds, Current
<1>5. \A v \in Workers : Current(v)' => v = w
  BY <1>1, <1>2, <1>4 DEF Current
<1>6. Fenced'
  BY <1>1, <1>2, <1>3, <1>5 DEF Inv, Fenced
<1>7. ASSUME Holds(w)'
      PROVE  /\ ~p.complete /\ pc'[w] = "scan"
             /\ lease'[w] = [lease[w] EXCEPT !.cursor = p.next]
  BY <1>1, <1>7 DEF CommitAnswered, CommitUnknown, Return, GoOn, Go, TypeOK, Holds, Current
<1>8. Fetched'
  BY <1>5, <1>7 DEF Fetched, Holds
<1>9. Held'
  <2> SUFFICES ASSUME Holds(w)'
               PROVE  /\ lease'[w].scan = scan' /\ lease'[w].mode = mode'
                      /\ lease'[w].cursor = cursor' /\ lease'[w].checkpoint = checkpoint'
                      /\ ~complete' /\ mode' # "none"
                      /\ mode' = "changes" <=> checkpoint' # 0
    BY <1>5 DEF Held, Holds
  <2>1. cursor' = p.next /\ UNCHANGED <<scan, mode, checkpoint, complete>>
    BY <1>7 DEF CommitPage, ContinuePage
  <2>2. /\ lease'[w].scan = lease[w].scan /\ lease'[w].mode = lease[w].mode
        /\ lease'[w].checkpoint = lease[w].checkpoint /\ lease'[w].cursor = p.next
    BY <1>7 DEF TypeOK, Leases
  <2> QED
    BY <1>1, <2>1, <2>2 DEF Inv, Held
<1> QED
  BY <1>6, <1>8, <1>9

\* A page of a changes scan: it brings the replica up to the page's end.
LEMMA ChangesCommit ==
    ASSUME TypeOK, Inv, NEW w \in Workers, CommitPage(w), mode = "changes"
    PROVE  Positions' /\ Mirrors' /\ Listing'
<1> DEFINE p == page[w]
<1>0. /\ UNCHANGED <<here, changedAt, clock, scan, suppressed, began>>
      /\ clock \in Nat /\ checkpoint \in Nat /\ began \in Nat /\ scan \in Nat
      /\ \A i \in Ids : changedAt[i] \in Nat /\ content[i] \in Nat /\ seen[i] \in Nat
      /\ p.version \in Nat /\ p.checkpoint \in Nat /\ p.next.pos \in Nat
      /\ cursor.pos \in Nat /\ suppressed \subseteq Ids
  BY DEF CommitPage, TypeOK, Pages, Cursors
<1>1. /\ PageInHand(p) /\ checkpoint # 0 /\ ~complete
      /\ \A i \in Ids : seen'[i] = IF Upserts(p, i) THEN scan ELSE seen[i]
      /\ \A i \in Ids : i \in lapsed' <=> i \in lapsed /\ ~Upserts(p, i)
      /\ \A i \in Ids : content'[i] = IF Upserts(p, i) THEN p.version
                                      ELSE IF i = p.id /\ p.version = 0 THEN 0
                                      ELSE content[i]
  BY Written
<1>2. \/ p.complete /\ CompletePage(lease[w], p)
      \/ ~p.complete /\ ContinuePage(w, p)
  BY DEF CommitPage
<1>3. /\ PageOfChanges(p) /\ p.checkpoint <= clock
      /\ p.id \in Ids => p.version <= changedAt[p.id]
  BY <1>1 DEF PageInHand
<1>4. lease[w].mode = "changes"
  BY Written DEF Inv, Held
<1> HIDE DEF p
<1>5. /\ From \in Nat /\ checkpoint <= From /\ checkpoint <= clock
      /\ \A i \in Ids : Mirrored(i, From)
      /\ \A i \in Ids : content[i] <= changedAt[i] /\ seen[i] <= scan /\ changedAt[i] >= 1
      /\ \A i \in suppressed : content[i] = 0
      /\ began <= clock
  BY <1>0 DEF From, Inv, Positions, Mirrors
<1>6. ASSUME NEW i \in Ids, NEW t \in Nat, ChangesUpTo(p, t) \/ t <= checkpoint
      PROVE  Mirrored(i, t)'
  <2>1. CASE i # p.id
    <3>1. content'[i] = content[i] /\ (i \in lapsed' <=> i \in lapsed)
      BY <1>1, <2>1 DEF Upserts
    <3>2. changedAt[i] > t \/ changedAt[i] <= From
      BY <1>0, <1>5, <1>6, <2>1 DEF ChangesUpTo
    <3> QED
      BY <1>0, <1>5, <3>1, <3>2 DEF Mirrored, Stored
  <2>2. CASE i = p.id
    <3>1. changedAt[i] > From
      BY <1>3, <2>2 DEF PageOfChanges
    <3>2. changedAt[i] > t \/ p.version = Stored(i)
      BY <1>0, <1>5, <1>6, <2>2, <3>1 DEF ChangesUpTo
    <3>3. i \in suppressed \/ content'[i] = p.version
      BY <1>1, <2>2 DEF Upserts
    <3> QED
      BY <1>0, <3>2, <3>3 DEF Mirrored, Stored
  <2> QED
    BY <2>1, <2>2
<1>7. /\ \A i \in Ids : content'[i] <= changedAt'[i] /\ seen'[i] <= scan'
      /\ \A i \in suppressed' : content'[i] = 0
  <2>1. \A i \in Ids : content'[i] <= changedAt'[i]
    BY <1>0, <1>1, <1>3, <1>5 DEF Upserts
  <2>2. \A i \in Ids : seen'[i] <= scan'
    BY <1>0, <1>1, <1>5
  <2>3. \A i \in suppressed' : content'[i] = 0
    BY <1>0, <1>1, <1>5 DEF Upserts
  <2> QED
    BY <2>1, <2>2, <2>3
<1>8. CASE p.complete
  <2>1. /\ checkpoint' \in {checkpoint, p.checkpoint} /\ checkpoint' # 0
        /\ cursor'.pos = 0 /\ mode' = "none" /\ complete'
    BY <1>1, <1>2, <1>4, <1>8 DEF CompletePage, NoCursor
  <2>2. Positions'
    BY <1>0, <1>3, <1>5, <1>7, <2>1 DEF Inv, Positions
  <2>3. \A i \in Ids : Mirrored(i, checkpoint)'
    BY <1>0, <1>3, <1>6, <1>8, <2>1 DEF PageOfChanges, Mirrored, Stored
  <2>4. \A i \in Ids : Mirrored(i, began)'
    BY <1>0, <1>3, <1>6, <1>8 DEF PageOfChanges, Mirrored, Stored
  <2> QED
    BY <2>1, <2>2, <2>3, <2>4 DEF Mirrors, Listing
<1>9. CASE ~p.complete
  <2>1. cursor' = p.next /\ UNCHANGED <<checkpoint, mode, complete>>
    BY <1>2, <1>9 DEF ContinuePage
  <2>2. p.next.pos > From /\ p.next.pos <= clock /\ ChangesUpTo(p, p.next.pos)
    BY <1>3, <1>9 DEF PageOfChanges
  <2>3. Positions'
    BY <1>0, <1>1, <1>5, <1>7, <2>1, <2>2 DEF Inv, Positions
  <2>4. \A i \in Ids : Mirrored(i, checkpoint)'
    BY <1>0, <1>6, <2>1 DEF Mirrored, Stored
  <2>5. \A i \in Ids : Mirrored(i, cursor.pos)'
    BY <1>0, <1>6, <2>1, <2>2 DEF Mirrored, Stored
  <2> QED
    BY <1>1, <2>1, <2>3, <2>4, <2>5 DEF Mirrors, Listing
<1> QED
  BY <1>8, <1>9

\* A page of a snapshot: its record is listed, and the last page deletes what
\* the generation did not list.
LEMMA SnapshotCommit ==
    ASSUME TypeOK, Inv, NEW w \in Workers, CommitPage(w), mode = "snapshot"
    PROVE  Positions' /\ Mirrors' /\ Listing'
<1> DEFINE p == page[w]
<1>0. /\ UNCHANGED <<here, changedAt, clock, scan, suppressed, began>>
      /\ clock \in Nat /\ began \in Nat /\ scan \in Nat
      /\ \A i \in Ids : changedAt[i] \in Nat /\ content[i] \in Nat /\ seen[i] \in Nat
      /\ p.version \in Nat /\ cursor.pos \in Nat /\ suppressed \subseteq Ids
      /\ Ids = 1..Records /\ Records \in Nat /\ here \subseteq Ids
  BY RecordsAssumption DEF CommitPage, TypeOK, Pages, Cursors, Ids
<1>1. /\ PageInHand(p) /\ checkpoint = 0 /\ ~complete /\ Holds(w)
      /\ \A i \in Ids : seen'[i] = IF Upserts(p, i) THEN scan ELSE seen[i]
      /\ \A i \in Ids : i \in lapsed' <=> i \in lapsed /\ ~Upserts(p, i)
      /\ \A i \in Ids : content'[i] = IF p.complete /\ seen'[i] # scan THEN 0
                                      ELSE IF Upserts(p, i) THEN p.version
                                      ELSE content[i]
  BY Written
<1>2. \/ p.complete /\ CompletePage(lease[w], p)
      \/ ~p.complete /\ ContinuePage(w, p)
  BY DEF CommitPage
<1>3. PageOfSnapshot(p) /\ p.id \in Ids /\ p.version <= changedAt[p.id]
  BY <1>1 DEF PageInHand, PageOfSnapshot
<1>4. lease[w].mode = "snapshot"
  BY Written DEF Inv, Held
<1>5. /\ \A i \in Ids : content[i] <= changedAt[i] /\ seen[i] <= scan /\ changedAt[i] >= 1
      /\ \A i \in suppressed : content[i] = 0
      /\ began <= clock /\ clock # 0
      /\ \A i, j \in Ids : changedAt[i] = changedAt[j] /\ i # j => changedAt[i] = 1
  BY DEF Inv, Positions
<1>6. PICK t \in began..clock :
        /\ cursor.pos # 0 => t = cursor.since
        /\ p.checkpoint \in {0, t}
        /\ ~p.complete => p.next = [pos |-> p.id, since |-> t]
        /\ changedAt[p.id] > t \/ p.version = Stored(p.id)
  BY <1>3 DEF PageOfSnapshot
<1>7. p.id = cursor.pos + 1 /\ (p.complete <=> p.id = Records)
  BY <1>3 DEF PageOfSnapshot
<1>8. /\ \A i \in Ids : i < p.id => Listed(i, t)
      /\ \A i \in Ids : i >= p.id => seen[i] # scan
  <2>1. ASSUME NEW i \in Ids, i < p.id PROVE Listed(i, t)
    <3>1. i \in Nat /\ i # 0
      BY <1>0
    <3>2. i <= cursor.pos
      BY <1>0, <1>7, <2>1, <3>1
    <3>3. cursor.pos # 0 /\ t = cursor.since
      BY <1>0, <1>6, <3>1, <3>2
    <3>4. Listed(i, cursor.since)
      BY <3>2, <3>3 DEF Inv, Listing
    <3> QED
      BY <3>3, <3>4
  <2>2. \A i \in Ids : i >= p.id => seen[i] # scan
    BY <1>0, <1>1, <1>7 DEF Inv, Listing
  <2> QED
    BY <2>1, <2>2
<1> HIDE DEF p
\* What the generation has listed up to and with this page.
<1>9. ASSUME NEW i \in Ids, i <= p.id, i \notin suppressed, i \notin lapsed', changedAt[i] <= t
      PROVE  /\ i \in here => /\ seen'[i] = scan
                              /\ (IF Upserts(p, i) THEN p.version ELSE content[i]) = changedAt[i]
             /\ i \notin here => /\ ~Upserts(p, i)
                                 /\ content[i] = 0 \/ seen'[i] # scan
  <2>1. CASE i = p.id
    <3>1. p.version = Stored(i) /\ (Upserts(p, i) <=> i \in here)
      BY <1>0, <1>5, <1>6, <1>9, <2>1 DEF Upserts, Stored
    <3> QED
      BY <1>0, <1>1, <1>8, <2>1, <3>1 DEF Stored
  <2>2. CASE i < p.id
    <3>1. ~Upserts(p, i) /\ i \notin lapsed /\ seen'[i] = seen[i] /\ Listed(i, t)
      BY <1>0, <1>1, <1>8, <1>9, <2>2 DEF Upserts
    <3> QED
      BY <1>0, <1>6, <1>9, <3>1 DEF Listed
  <2> QED
    BY <1>0, <1>3, <1>9, <2>1, <2>2
<1>10. /\ \A i \in Ids : content'[i] <= changedAt'[i] /\ seen'[i] <= scan'
       /\ \A i \in suppressed' : content'[i] = 0
  <2>1. ASSUME NEW i \in Ids PROVE content'[i] <= changedAt'[i]
    <3>1. content'[i] \in {0, p.version, content[i]} /\ changedAt'[i] = changedAt[i]
      BY <1>0, <1>1
    <3>2. content'[i] = p.version => i = p.id \/ content'[i] \in {0, content[i]}
      BY <1>1 DEF Upserts
    <3> QED
      BY <1>0, <1>3, <1>5, <3>1, <3>2
  <2>2. \A i \in Ids : seen'[i] <= scan'
    BY <1>0, <1>1, <1>5
  <2>3. \A i \in suppressed' : content'[i] = 0
    BY <1>0, <1>1, <1>5 DEF Upserts
  <2> QED
    BY <2>1, <2>2, <2>3
<1>11. CASE p.complete
  <2>1. /\ checkpoint' \in {0, t} /\ cursor'.pos = 0 /\ mode' = "none" /\ complete'
    BY <1>2, <1>4, <1>6, <1>11 DEF CompletePage, NoCursor
  <2>2. checkpoint' <= clock
    BY <1>0, <1>6, <2>1
  <2>3. Positions'
    <3>1. (\A i \in Ids : changedAt[i] \in 1..clock)'
      BY <1>0 DEF Inv, Positions
    <3>2. (\A i, j \in Ids : changedAt[i] = changedAt[j] /\ i # j => changedAt[i] = 1)'
      BY <1>0 DEF Inv, Positions
    <3>3. clock' # 0 /\ began' <= clock' /\ checkpoint' <= clock' /\ ~(cursor'.pos # 0)
      BY <1>0, <1>5, <2>1, <2>2
    <3> QED
      BY <1>10, <3>1, <3>2, <3>3 DEF Positions
  <2>4. \A i \in Ids : Mirrored(i, t)'
    <3> SUFFICES ASSUME NEW i \in Ids, i \notin suppressed, i \notin lapsed', changedAt[i] <= t
                 PROVE  content'[i] = Stored(i)
      BY <1>0, <1>6 DEF Mirrored, Stored
    <3>1. i <= p.id
      BY <1>0, <1>7, <1>11
    <3> QED
      BY <1>1, <1>9, <1>11, <3>1 DEF Stored
  <2>5. /\ \A i \in Ids : Mirrored(i, checkpoint)'
        /\ \A i \in Ids : Mirrored(i, began)'
    BY <1>0, <1>5, <1>6, <2>1, <2>4 DEF Mirrored, Stored
  <2> QED
    BY <2>1, <2>3, <2>5 DEF Mirrors, Listing
<1>12. CASE ~p.complete
  <2>1. cursor' = [pos |-> p.id, since |-> t] /\ UNCHANGED <<checkpoint, mode, complete>>
    BY <1>2, <1>6, <1>12 DEF ContinuePage
  <2>2. cursor'.pos = p.id /\ cursor'.since = t /\ p.id < Records
    BY <1>0, <1>3, <1>7, <1>12, <2>1
  <2>3. Positions'
    <3>1. (\A i \in Ids : changedAt[i] \in 1..clock)'
      BY <1>0 DEF Inv, Positions
    <3>2. (\A i, j \in Ids : changedAt[i] = changedAt[j] /\ i # j => changedAt[i] = 1)'
      BY <1>0 DEF Inv, Positions
    <3>3. clock' # 0 /\ began' <= clock' /\ checkpoint' = 0 /\ checkpoint' <= clock'
      BY <1>0, <1>1, <1>5, <2>1
    <3>4. ~complete' /\ mode' = "snapshot"
      BY <1>1, <2>1
    <3>5. cursor'.pos < Records /\ began' <= cursor'.since /\ cursor'.since <= clock'
      BY <1>0, <1>6, <2>2
    <3> QED
      BY <1>10, <3>1, <3>2, <3>3, <3>4, <3>5 DEF Positions
  <2>4. Mirrors'
    BY <1>0, <1>1, <1>5, <2>1 DEF Mirrors, Mirrored
  <2>5. ASSUME NEW i \in Ids, i <= p.id PROVE Listed(i, t)'
    <3> SUFFICES ASSUME i \notin suppressed, i \notin lapsed', changedAt[i] <= t
                 PROVE  Listed(i, t)'
      BY <1>0, <1>6 DEF Listed
    <3> QED
      BY <1>0, <1>1, <1>9, <1>12, <2>5 DEF Listed
  <2>6. \A i \in Ids : i > p.id => seen'[i] # scan
    BY <1>0, <1>1, <1>3, <1>8 DEF Upserts
  <2>7. Listing'
    BY <1>0, <2>1, <2>2, <2>5, <2>6 DEF Listing, Listed
  <2> QED
    BY <2>3, <2>4, <2>7
<1> QED
  BY <1>11, <1>12

LEMMA CommitStep ==
    ASSUME TypeOK, Inv, NEW w \in Workers, CommitAnswered(w) \/ CommitUnknown(w)
    PROVE  Inv'
<1>1. CommitPage(w)
  BY DEF CommitAnswered, CommitUnknown
<1>2. Fenced' /\ Held' /\ Fetched'
  BY <1>1, CommitHolders
<1>3. mode \in {"snapshot", "changes"}
  BY <1>1, Written
<1>4. Positions' /\ Mirrors' /\ Listing'
  BY <1>1, <1>3, ChangesCommit, SnapshotCommit
<1> QED
  BY <1>2, <1>4 DEF Inv

\* The rest of a run's steps end it and leave the replica and the scan alone.
LEMMA StoppingStep ==
    ASSUME TypeOK, Inv, NEW w \in Workers,
           LostLease(w) \/ FailLease(w) \/ ScanResets(w) \/ RunFails(w) \/ Crash(w)
    PROVE  Inv'
<1>1. /\ complete' => complete
      /\ UNCHANGED <<provider, fence, scan, position, replica, suppressed, began>>
  <2>1. CASE LostLease(w)
    BY <2>1 DEF LostLease
  <2>2. CASE FailLease(w)
    <3>1. complete' = FALSE \/ complete' = complete
      BY <2>2 DEF FailLease
    <3>2. UNCHANGED <<provider, fence, scan, position, replica, suppressed, began>>
      BY <2>2 DEF FailLease
    <3> QED
      BY <3>1, <3>2
  <2>3. CASE ScanResets(w) \/ RunFails(w) \/ Crash(w)
    BY <2>3 DEF ScanResets, RunFails, Crash
  <2> QED
    BY <2>1, <2>2, <2>3
<1>2. \A v \in Workers : Still(v) \/ Stops(v)
  <2>1. CASE LostLease(w) \/ FailLease(w) \/ Crash(w)
    <3>1. pc[w] # "idle" /\ Return(w)
      BY <2>1 DEF LostLease, FailLease, Crash
    <3> QED
      BY <3>1, ReturnStops
  <2>2. CASE ScanResets(w) \/ RunFails(w)
    <3>1. pc[w] # "idle" /\ \E to \in {"reset", "fail"} : GoOn(w, to)
      BY <2>2 DEF ScanResets, RunFails
    <3> QED
      BY <3>1, GoOnStops
  <2> QED
    BY <2>1, <2>2
<1> QED
  BY <1>1, <1>2, QuietStep

LEMMA OutsideStep ==
    ASSUME TypeOK, Inv,
           \/ Time \/ Pause \/ Resume \/ \E k \in Keys : RequestRefresh(k)
           \/ UNCHANGED vars
    PROVE  Inv'
<1>1. UNCHANGED <<provider, fence, scan, position, replica, suppressed, began, complete, run>>
  BY DEF Time, LeaseExpires, LeaseOutlived, RetryDue, PollDue, Pause, Resume,
         RequestRefresh, vars
<1>2. \A v \in Workers : Still(v)
  BY <1>1 DEF Still
<1> QED
  BY <1>1, <1>2, QuietStep

LEMMA InvPreserved == TypeOK /\ Inv /\ [Next]_vars => Inv'
<1> SUFFICES ASSUME TypeOK, Inv, [Next]_vars PROVE Inv'
  OBVIOUS
<1>1. ASSUME NEW w \in Workers, Run(w) \/ Trouble(w) PROVE Inv'
  BY <1>1, ClaimStep, ScanStep, CommitStep, StoppingStep, ResetStep DEF Run, Trouble
<1>2. ASSUME NEW i \in Ids, Record(i) PROVE Inv'
  BY <1>2, ProviderStep, EraseStep DEF Record
<1>3. CASE ReplaceBinding
  BY <1>3, ReplaceStep
<1>4. CASE \/ Time \/ Pause \/ Resume \/ \E k \in Keys : RequestRefresh(k)
           \/ UNCHANGED vars
  BY <1>4, OutsideStep
<1> QED
  BY <1>1, <1>2, <1>3, <1>4 DEF Next

LEMMA InitInv == Init => Inv
<1> SUFFICES ASSUME Init PROVE Inv
  OBVIOUS
<1>1. \A w \in Workers : pc[w] = "idle" /\ lease[w].fence = 0
  BY DEF Init, NoLease
<1>2. Fenced /\ Held /\ Fetched
  BY <1>1 DEF Init, Fenced, Held, Fetched, Holds, Current
<1>3. /\ cursor.pos = 0 /\ checkpoint = 0 /\ complete = FALSE /\ clock = 1 /\ began = 0
      /\ scan = 0 /\ mode = "none" /\ suppressed = {}
      /\ \A i \in Ids : changedAt[i] = 1 /\ content[i] = 0 /\ seen[i] = 0
  BY DEF Init, NoCursor
<1>4. Positions
  BY <1>3 DEF Positions
<1>5. Mirrors /\ Listing
  BY <1>3 DEF Mirrors, Mirrored, Listing
<1> QED
  BY <1>2, <1>4, <1>5 DEF Inv

\* The inductive invariant: only the worker of the newest lease can commit, what
\* it knows of the binding is the binding's row, and the replica owes the
\* provider nothing up to the checkpoint, the cursor and the claim (claimDue,
\* commitPage and ownsLease).
THEOREM InvCorrect == Spec => []Inv
<1>1. TypeOK /\ Inv /\ [Next]_vars => Inv'
  BY InvPreserved
<1> QED
  BY <1>1, InitInv, TypeCorrect, PTL DEF Spec

\* A completed scan has brought every record it promises to the provider's
\* state at the claim, and an erased record stays erased: by the invariant on
\* the page in a current worker's hand, whoever committed the earlier ones.
THEOREM Mirror == Spec => []ReplicaMirrorsSource
<1>1. TypeOK /\ Inv => ReplicaMirrorsSource
  <2> SUFFICES ASSUME TypeOK, Inv PROVE ReplicaMirrorsSource
    OBVIOUS
  <2>1. \A i \in suppressed : content[i] = 0
    BY DEF Inv, Positions
  <2>2. complete => \A i \in Ids \ (suppressed \cup lapsed) :
                      changedAt[i] <= began => content[i] = Stored(i)
    <3> SUFFICES ASSUME complete, NEW i \in Ids \ (suppressed \cup lapsed),
                        changedAt[i] <= began
                 PROVE  content[i] = Stored(i)
      OBVIOUS
    <3>1. Mirrored(i, began)
      BY DEF Inv, Mirrors
    <3>2. ~(changedAt[i] > began)
      BY DEF Inv, Positions, TypeOK
    <3> QED
      BY <3>1, <3>2 DEF Mirrored
  <2> QED
    BY <2>1, <2>2 DEF ReplicaMirrorsSource
<1> QED
  BY <1>1, TypeCorrect, InvCorrect, PTL

\* A late page moves no record backwards: the page in a current worker's hand
\* is no older than what is held, and no other page is ever written.
THEOREM Monotone == Spec => NeverOlder
<1> DEFINE Older == \A i \in Ids : content'[i] # 0 => content[i] <= content'[i]
<1>1. ASSUME TypeOK, Inv, NEW w \in Workers, CommitPage(w) PROVE Older
  <2> DEFINE p == page[w]
  <2>1. /\ PageInHand(p) /\ mode \in {"snapshot", "changes"}
        /\ mode = "changes" => \A i \in Ids :
             content'[i] = IF Upserts(p, i) THEN p.version
                           ELSE IF i = p.id /\ p.version = 0 THEN 0 ELSE content[i]
        /\ mode = "snapshot" => \A i \in Ids :
             content'[i] = IF p.complete /\ seen'[i] # scan THEN 0
                           ELSE IF Upserts(p, i) THEN p.version ELSE content[i]
    BY <1>1, Written
  <2> HIDE DEF p
  <2>2. \A i \in Ids : \/ content'[i] = 0 \/ content'[i] = content[i]
                       \/ Upserts(p, i) /\ content'[i] = p.version
    BY <2>1
  <2>3. \A i \in Ids : Upserts(p, i) => content[i] <= p.version
    BY <2>1 DEF PageInHand, Upserts
  <2> QED
    BY <1>1, <2>2, <2>3 DEF TypeOK
<1>2. ASSUME TypeOK, NEW i \in Ids, Record(i) PROVE Older
  BY <1>2 DEF Record, ProviderChanges, PurgeExpired, SuppressExternalRecord, TypeOK
<1>3. ASSUME TypeOK, ReplaceBinding PROVE Older
  BY <1>3 DEF ReplaceBinding
<1>4. ASSUME TypeOK, content' = content PROVE Older
  BY <1>4 DEF TypeOK
<1>5. ASSUME NEW w \in Workers, Run(w) \/ Trouble(w)
      PROVE  CommitPage(w) \/ content' = content
  BY <1>5 DEF Run, Trouble, ClaimDue, Scan, CommitAnswered, LostLease, ResetCheckpoint,
              FailLease, ScanResets, RunFails, CommitUnknown, Crash
<1>6. ASSUME \/ Time \/ Pause \/ Resume \/ \E k \in Keys : RequestRefresh(k)
             \/ UNCHANGED vars
      PROVE  content' = content
  BY <1>6 DEF Time, LeaseExpires, LeaseOutlived, RetryDue, PollDue, Pause, Resume,
              RequestRefresh, vars
<1>7. TypeOK /\ Inv /\ [Next]_vars => Older
  <2> SUFFICES ASSUME TypeOK, Inv, [Next]_vars PROVE Older
    OBVIOUS
  <2> HIDE DEF Older
  <2> QED
    BY <1>1, <1>2, <1>3, <1>4, <1>5, <1>6 DEF Next
<1>8. TypeOK /\ Inv /\ [Next]_vars => [Older]_vars
  BY <1>7
<1> QED
  BY <1>8, TypeCorrect, InvCorrect, PTL DEF Spec, NeverOlder

-----------------------------------------------------------------------------
\* The requests: a step that starts no generation and asks for nothing new.
LEMMA AskedStep ==
    ASSUME TypeOK, Asked, UNCHANGED <<scan, target, asked, began>>, clock <= clock',
           clock' \in Nat, \A k \in Keys : Unsettled(k)' => Unsettled(k)
    PROVE  Asked'
BY DEF Asked, TypeOK

LEMMA AskedPreserved == TypeOK /\ Inv /\ Asked /\ [Next]_vars => Asked'
<1> SUFFICES ASSUME TypeOK, Inv, Asked, [Next]_vars PROVE Asked'
  OBVIOUS
<1>1. ASSUME NEW g, NEW to, JobsFollow(g, to)
      PROVE  \A k \in Keys : Unsettled(k)' => Unsettled(k)
  BY <1>1 DEF JobsFollow, Unsettled
<1>2. ASSUME NEW w \in Workers, ClaimDue(w) PROVE Asked'
  <2>1. /\ UNCHANGED <<clock, target, asked>> /\ JobsFollow(ClaimGeneration, "running")
        /\ scan' = ClaimGeneration /\ began' = IF Continuing THEN began ELSE clock
    BY <1>2 DEF ClaimDue
  <2>2. \A k \in Keys : Unsettled(k)' => Unsettled(k)
    BY <1>1, <2>1
  <2>3. CASE Continuing
    BY <2>1, <2>2, <2>3 DEF Asked, ClaimGeneration
  <2>4. CASE ~Continuing
    <3>1. scan' = scan + 1 /\ began' = clock
      BY <2>1, <2>4 DEF ClaimGeneration
    <3> QED
      BY <2>1, <2>2, <3>1 DEF Asked, TypeOK
  <2> QED
    BY <2>3, <2>4
<1>3. ASSUME NEW w \in Workers, CommitAnswered(w) \/ CommitUnknown(w) PROVE Asked'
  <2>1. CommitPage(w)
    BY <1>3 DEF CommitAnswered, CommitUnknown
  <2>2. UNCHANGED <<clock, scan, target, asked, began>>
    BY <2>1 DEF CommitPage
  <2>3. job' = job \/ \E g, to : JobsFollow(g, to)
    BY <2>1 DEF CommitPage, CompletePage, ContinuePage
  <2>4. \A k \in Keys : Unsettled(k)' => Unsettled(k)
    BY <1>1, <2>3 DEF Unsettled
  <2> QED
    BY <2>2, <2>4, AskedStep DEF TypeOK
<1>4. ASSUME NEW w \in Workers,
             \/ Scan(w) \/ LostLease(w) \/ ResetCheckpoint(w) \/ FailLease(w)
             \/ ScanResets(w) \/ RunFails(w) \/ Crash(w)
      PROVE  Asked'
  <2>1. UNCHANGED <<clock, scan, target, asked, began>>
    BY <1>4 DEF Scan, LostLease, ResetCheckpoint, FailLease, ScanResets, RunFails, Crash
  <2>2. job' = job \/ \E g, to : JobsFollow(g, to)
    BY <1>4 DEF Scan, LostLease, ResetCheckpoint, FailLease, ScanResets, RunFails, Crash
  <2>3. \A k \in Keys : Unsettled(k)' => Unsettled(k)
    BY <1>1, <2>2 DEF Unsettled
  <2> QED
    BY <2>1, <2>3, AskedStep DEF TypeOK
<1>5. ASSUME NEW i \in Ids, Record(i) PROVE Asked'
  <2>1. UNCHANGED <<scan, jobs, began>> /\ clock' \in {clock, clock + 1}
    BY <1>5 DEF Record, ProviderChanges, PurgeExpired, SuppressExternalRecord
  <2>2. \A k \in Keys : Unsettled(k)' => Unsettled(k)
    BY <2>1 DEF Unsettled
  <2> QED
    BY <2>1, <2>2, AskedStep DEF TypeOK
<1>6. ASSUME NEW k \in Keys, RequestRefresh(k) PROVE Asked'
  <2>1. /\ UNCHANGED <<clock, scan, began>>
        /\ target' = [target EXCEPT ![k] = scan + 1]
        /\ asked' = [asked EXCEPT ![k] = clock]
        /\ \E s : job' = [job EXCEPT ![k] = s]
    BY <1>6 DEF RequestRefresh, TargetScan
  <2>2. \A j \in Keys : j # k => /\ target'[j] = target[j] /\ asked'[j] = asked[j]
                                 /\ Unsettled(j)' = Unsettled(j)
    BY <2>1 DEF TypeOK, Unsettled
  <2>3. target'[k] = scan + 1 /\ asked'[k] = clock
    BY <2>1 DEF TypeOK
  <2>4. scan \in Nat /\ clock \in Nat
    BY DEF TypeOK
  <2>5. ASSUME NEW j \in Keys
        PROVE  (/\ asked[j] <= clock
                /\ Unsettled(j) => /\ target[j] <= scan + 1
                                   /\ target[j] <= scan => asked[j] <= began)'
    <3>1. CASE j = k
      BY <2>1, <2>3, <2>4, <3>1
    <3>2. CASE j # k
      BY <2>1, <2>2, <3>2 DEF Asked
    <3> QED
      BY <3>1, <3>2
  <2> QED
    BY <2>5 DEF Asked
<1>7. ASSUME ReplaceBinding PROVE Asked'
  <2>1. \A k \in Keys : ~Unsettled(k)'
    BY <1>7 DEF ReplaceBinding, Unsettled
  <2> QED
    BY <1>7, <2>1 DEF ReplaceBinding, Asked
<1>8. CASE Time \/ Pause \/ Resume \/ UNCHANGED vars
  <2>1. UNCHANGED <<clock, scan, jobs, began>>
    BY <1>8 DEF Time, LeaseExpires, LeaseOutlived, RetryDue, PollDue, Pause, Resume, vars
  <2>2. \A k \in Keys : Unsettled(k)' => Unsettled(k)
    BY <2>1 DEF Unsettled
  <2> QED
    BY <2>1, <2>2, AskedStep DEF TypeOK
<1> QED
  BY <1>2, <1>3, <1>4, <1>5, <1>6, <1>7, <1>8 DEF Next, Run, Trouble

\* A refresh that completes was asked for before the scan that completes it was
\* claimed, and that scan has brought the replica up to the claim.
THEOREM Fresh == Spec => RefreshIsFresh
<1> DEFINE Settles(k) == job[k] # "completed" /\ job'[k] = "completed"
           AsAsked == \A k \in Keys : Settles(k) =>
                        \A i \in Ids \ (suppressed \cup lapsed)' :
                          changedAt[i] <= asked[k] => content'[i] = Stored(i)
<1>1. ASSUME TypeOK, Inv, Asked, NEW w \in Workers, CommitAnswered(w) \/ CommitUnknown(w)
      PROVE  AsAsked
  <2>1. CommitPage(w) /\ Inv'
    BY <1>1, CommitStep DEF CommitAnswered, CommitUnknown
  <2> SUFFICES ASSUME NEW k \in Keys, Settles(k),
                      NEW i \in Ids \ (suppressed \cup lapsed)', changedAt[i] <= asked[k]
               PROVE  content'[i] = Stored(i)
    OBVIOUS
  <2>2. CompletePage(lease[w], page[w])
    BY <2>1 DEF CommitPage, ContinuePage
  <2>3. UNCHANGED <<here, changedAt, scan, began>> /\ complete'
    BY <2>1, <2>2 DEF CommitPage, CompletePage
  <2>4. Unsettled(k) /\ target[k] <= lease[w].scan
    BY <2>2 DEF CompletePage, JobsFollow
  <2>5. lease[w].scan = scan
    BY <1>1, <2>1, Written DEF Inv, Held
  <2>6. asked[k] <= began
    BY <1>1, <2>4, <2>5 DEF Asked
  <2>7. ~(changedAt[i] > began)
    BY <1>1, <2>6 DEF TypeOK
  <2>8. Mirrored(i, began)'
    BY <2>1, <2>3 DEF Inv, Mirrors
  <2> QED
    BY <2>3, <2>7, <2>8 DEF Mirrored, Stored
<1>2. ASSUME NEW g, NEW to \in {"running", "queued"}, JobsFollow(g, to)
      PROVE  \A k \in Keys : ~Settles(k)
  BY <1>2 DEF JobsFollow
<1>3. ASSUME NEW w \in Workers,
             \/ ClaimDue(w) \/ Scan(w) \/ LostLease(w) \/ ResetCheckpoint(w) \/ FailLease(w)
             \/ ScanResets(w) \/ RunFails(w) \/ Crash(w)
      PROVE  \A k \in Keys : ~Settles(k)
  <2>1. job' = job \/ \E g : \E to \in {"running", "queued"} : JobsFollow(g, to)
    BY <1>3 DEF ClaimDue, Scan, LostLease, ResetCheckpoint, FailLease, ScanResets, RunFails,
                Crash
  <2> QED
    BY <1>2, <2>1
<1>4. ASSUME TypeOK, NEW k \in Keys, RequestRefresh(k) PROVE \A j \in Keys : ~Settles(j)
  <2>1. PICK s : job' = [job EXCEPT ![k] = s] /\ s # "completed"
    BY <1>4 DEF RequestRefresh, Unsettled
  <2> QED
    BY <1>4, <2>1 DEF TypeOK
<1>5. ASSUME \/ Time \/ Pause \/ Resume \/ ReplaceBinding \/ \E i \in Ids : Record(i)
             \/ UNCHANGED vars
      PROVE  \A k \in Keys : ~Settles(k)
  BY <1>5 DEF Time, LeaseExpires, LeaseOutlived, RetryDue, PollDue, Pause, Resume,
              ReplaceBinding, Record, ProviderChanges, PurgeExpired, SuppressExternalRecord,
              vars
<1>6. TypeOK /\ Inv /\ Asked /\ [Next]_vars => AsAsked
  <2> SUFFICES ASSUME TypeOK, Inv, Asked, [Next]_vars PROVE AsAsked
    OBVIOUS
  <2>1. (\A k \in Keys : ~Settles(k)) => AsAsked
    OBVIOUS
  <2> HIDE DEF AsAsked, Settles
  <2> QED
    BY <1>1, <1>3, <1>4, <1>5, <2>1 DEF Next, Run, Trouble
<1>7. TypeOK /\ Inv /\ Asked /\ [Next]_vars => [AsAsked]_vars
  BY <1>6
<1>8. Init => Asked
  BY DEF Init, Asked, Unsettled
<1> QED
  BY <1>7, <1>8, AskedPreserved, TypeCorrect, InvCorrect, PTL DEF Spec, RefreshIsFresh
=============================================================================
