-------------------------- MODULE SourceIngestion --------------------------
(***************************************************************************)
(* The replica of a connected source: workers claim a binding whose scan is *)
(* due, page through the provider and commit each page                      *)
(* (service/src/business-information/source-ingestion-coordinator.ts over   *)
(* source-ingestion-postgres-store.ts), while operators pause, replace and  *)
(* refresh the binding and tenants erase records                            *)
(* (source-ingestion-postgres-refresh.ts).                                  *)
(*                                                                         *)
(* One binding.  A store call holds the organisation's advisory lock, so it *)
(* is one step; the provider is read between the calls, outside any         *)
(* transaction, and its page may be committed long after.  A page speaks of *)
(* one record.  A call whose expected revision is stale answers "conflict"  *)
(* and changes nothing: it is a stuttering step.                            *)
(***************************************************************************)
EXTENDS Naturals, FiniteSets

CONSTANTS
    Workers,     \* workers of the coordinator, of one or several processes
    None,        \* no worker
    Records,     \* records the provider may hold: 1..Records, listed in order
    AtFirst,     \* those it holds at first
    Keys,        \* idempotency keys of refresh requests
    MaxPages,    \* maxPagesPerRun of each worker's coordinator
    MaxClock,    \* bound on the provider's changes
    MaxUpsets    \* bound on failures, expiries, operator actions and polls

ASSUME WorkersAssumption == None \notin Workers
ASSUME RecordsAssumption == Records \in Nat \ {0}
ASSUME AtFirstAssumption == AtFirst \subseteq 1..Records
ASSUME BoundsAssumption == /\ MaxPages \in [Workers -> Nat \ {0}] /\ MaxClock \in Nat \ {0}
                           /\ MaxUpsets \in Nat

Ids == 1..Records

VARIABLES
    here,        \* records the provider holds
    changedAt,   \* provider's time of each record's last change: its version
    clock,       \* provider's time
    state,       \* business_source_bindings.state
    fence,
    scan,        \* scan_generation
    mode,        \* scan_mode, kept until a scan completes or is reset
    owner,       \* lease_owner
    expired,     \* lease_expires_at has passed
    cursor,      \* continuation, pos 0 when there is none
    checkpoint,  \* provider time the next changes scan starts from, 0 when none
    due,         \* next_attempt_at: "now" when it has passed
    complete,    \* completeness
    content,     \* business_external_records: version held, 0 when deleted or never seen
    seen,        \* last_seen_generation
    suppressed,  \* business_source_suppressions
    job,         \* business_source_refresh_requests: state
    target,      \* target_scan_generation
    asked,       \* provider's time when it was requested
    pc,          \* where each worker is in runOne
    lease,       \* its SourceIngestionLease
    page,        \* the page it has fetched
    pages,       \* pages committed in its run
    began,       \* history: provider's time when the scan generation was claimed
    lapsed,      \* history: records purged by retention and not observed since
    upsets

provider == <<here, changedAt, clock>>
attempt == <<state, owner, expired, due>>
position == <<mode, cursor, checkpoint>>
replica == <<content, seen, lapsed>>
jobs == <<job, target, asked>>
run == <<pc, lease, page, pages>>
vars == <<provider, attempt, fence, scan, position, complete, replica, suppressed,
          jobs, run, began, upsets>>

Cursors == [pos : Nat, since : Nat]
NoCursor == [pos |-> 0, since |-> 0]
Leases == [fence : Nat, scan : Nat, mode : {"none", "snapshot", "changes"},
           cursor : Cursors, checkpoint : Nat]
NoLease == [fence |-> 0, scan |-> 0, mode |-> "none", cursor |-> NoCursor, checkpoint |-> 0]
Pages == [id : Nat, version : Nat, complete : BOOLEAN, next : Cursors,
          checkpoint : Nat]
NoPage == [id |-> 0, version |-> 0, complete |-> FALSE, next |-> NoCursor, checkpoint |-> 0]

TypeOK ==
    /\ here \subseteq Ids
    /\ changedAt \in [Ids -> Nat]
    /\ clock \in Nat
    /\ state \in {"active", "paused"}
    /\ fence \in Nat
    /\ scan \in Nat
    /\ mode \in {"none", "snapshot", "changes"}
    /\ owner \in Workers \cup {None}
    /\ expired \in BOOLEAN
    /\ cursor \in Cursors
    /\ checkpoint \in Nat
    /\ due \in {"now", "retry", "poll"}
    /\ complete \in BOOLEAN
    /\ content \in [Ids -> Nat]
    /\ seen \in [Ids -> Nat]
    /\ suppressed \subseteq Ids
    /\ job \in [Keys -> {"none", "queued", "running", "completed", "superseded"}]
    /\ target \in [Keys -> Nat]
    /\ asked \in [Keys -> Nat]
    /\ pc \in [Workers -> {"idle", "scan", "commit", "reset", "fail"}]
    /\ lease \in [Workers -> Leases]
    /\ page \in [Workers -> Pages]
    /\ pages \in [Workers -> Nat]
    /\ began \in Nat
    /\ lapsed \subseteq Ids
    /\ upsets \in Nat

\* A binding just created; the provider already holds some records.
Init ==
    /\ here = AtFirst
    /\ changedAt = [i \in Ids |-> 1]
    /\ clock = 1
    /\ state = "active" /\ owner = None /\ expired = FALSE /\ due = "now"
    /\ fence = 0 /\ scan = 0
    /\ mode = "none" /\ cursor = NoCursor /\ checkpoint = 0
    /\ complete = FALSE
    /\ content = [i \in Ids |-> 0]
    /\ seen = [i \in Ids |-> 0]
    /\ lapsed = {} /\ suppressed = {}
    /\ job = [k \in Keys |-> "none"]
    /\ target = [k \in Keys |-> 0]
    /\ asked = [k \in Keys |-> 0]
    /\ pc = [w \in Workers |-> "idle"]
    /\ lease = [w \in Workers |-> NoLease]
    /\ page = [w \in Workers |-> NoPage]
    /\ pages = [w \in Workers |-> 0]
    /\ began = 0
    /\ upsets = 0

-----------------------------------------------------------------------------
\* What the replica should hold of record i.
Stored(i) == IF i \in here THEN changedAt[i] ELSE 0

Go(w, to) == pc' = [pc EXCEPT ![w] = to]

\* runOne goes on with the lease it holds, or returns and forgets it all.
GoOn(w, to) ==
    /\ Go(w, to)
    /\ page' = [page EXCEPT ![w] = NoPage]
    /\ UNCHANGED <<lease, pages>>
Return(w) ==
    /\ Go(w, "idle")
    /\ lease' = [lease EXCEPT ![w] = NoLease]
    /\ page' = [page EXCEPT ![w] = NoPage]
    /\ pages' = [pages EXCEPT ![w] = 0]

Upset == upsets < MaxUpsets /\ upsets' = upsets + 1

\* Mutant: only the expiry is looked at.
OwnsLeaseUnfenced(w, allowExpired) == state = "active" /\ (allowExpired \/ ~expired)

OwnsLease(w, allowExpired) ==
    /\ state = "active"
    /\ fence = lease[w].fence
    /\ scan = lease[w].scan
    /\ owner = w
    /\ allowExpired \/ ~expired

Unsettled(k) == job[k] \in {"queued", "running"}

\* Mutant: what is still waiting is not looked for.
PendingUnseen == FALSE
Pending == \E k \in Keys : Unsettled(k)

\* setSourceRefreshJobState, for the requests generation g answers.
JobsFollow(g, to) ==
    job' = [k \in Keys |-> IF Unsettled(k) /\ target[k] <= g THEN to ELSE job[k]]

Unlease == owner' = None /\ expired' = FALSE

-----------------------------------------------------------------------------
(* The provider.                                                           *)

\* A record appears, is updated or is removed.
ProviderChanges(i) ==
    /\ clock < MaxClock
    /\ clock' = clock + 1
    /\ changedAt' = [changedAt EXCEPT ![i] = clock + 1]
    /\ here' \in {here \cup {i}, here \ {i}}
    /\ UNCHANGED <<attempt, fence, scan, position, complete, replica, suppressed,
                   jobs, run, began, upsets>>

\* A snapshot lists the records in order, one position to a page, and ends
\* with the time at which it started.
SnapshotPage(l, given) ==
    LET i == l.cursor.pos + 1
        since == IF l.cursor.pos = 0 THEN clock ELSE l.cursor.since
        last == i >= Records
    IN  [id |-> i, version |-> Stored(i), complete |-> last,
         next |-> IF last THEN NoCursor ELSE [pos |-> i, since |-> since],
         checkpoint |-> IF last /\ given THEN since ELSE 0]

\* A changes scan lists what changed after a position, in order of change.
ChangesPages(l, given) ==
    LET from == IF l.cursor.pos = 0 THEN l.checkpoint ELSE l.cursor.pos
        later == {i \in Ids : changedAt[i] > from}
        end == IF given THEN clock ELSE 0
    IN  IF later = {}
        THEN {[id |-> 0, version |-> 0, complete |-> TRUE, next |-> NoCursor,
               checkpoint |-> end]}
        ELSE {[id |-> i, version |-> Stored(i), complete |-> later = {i},
               next |-> IF later = {i} THEN NoCursor
                        ELSE [pos |-> changedAt[i], since |-> 0],
               checkpoint |-> IF later = {i} THEN end ELSE 0] :
              i \in {j \in later : \A k \in later : changedAt[j] <= changedAt[k]}}

Answers(l) == IF l.mode = "changes" THEN UNION {ChangesPages(l, given) : given \in BOOLEAN}
              ELSE {SnapshotPage(l, given) : given \in BOOLEAN}

-----------------------------------------------------------------------------
(* runOne, one call at a time.                                             *)

\* claimDue: a kept cursor continues its scan generation, otherwise a new one
\* starts, from the checkpoint if there is one.
Continuing == cursor.pos # 0
ClaimMode == IF Continuing THEN mode ELSE IF checkpoint = 0 THEN "snapshot" ELSE "changes"

\* Mutant: a continued scan gets a new generation.
ClaimGenerationNew == scan + 1
ClaimGeneration == IF Continuing THEN scan ELSE scan + 1

ClaimDue(w) ==
    LET m == ClaimMode
        g == ClaimGeneration
    IN  /\ pc[w] = "idle" /\ Go(w, "scan")
        /\ state = "active" /\ due = "now"
        /\ owner = None \/ expired
        /\ fence' = fence + 1
        /\ scan' = g
        /\ mode' = m
        /\ owner' = w /\ expired' = FALSE
        /\ complete' = FALSE
        /\ JobsFollow(g, "running")
        /\ lease' = [lease EXCEPT ![w] = [fence |-> fence + 1, scan |-> g, mode |-> m,
                                          cursor |-> cursor, checkpoint |-> checkpoint]]
        /\ pages' = [pages EXCEPT ![w] = 0]
        /\ began' = IF Continuing THEN began ELSE clock
        /\ UNCHANGED <<provider, state, due, cursor, checkpoint, replica, suppressed,
                       target, asked, page, upsets>>

\* executor.scan returns a page.
Scan(w) ==
    /\ pc[w] = "scan" /\ Go(w, "commit")
    /\ \E p \in Answers(lease[w]) : page' = [page EXCEPT ![w] = p]
    /\ UNCHANGED <<provider, attempt, fence, scan, position, complete, replica,
                   suppressed, jobs, lease, pages, began, upsets>>

\* It asks for a reset, or fails with invalid_checkpoint.
ScanResets(w) ==
    /\ pc[w] = "scan" /\ GoOn(w, "reset")
    /\ Upset
    /\ UNCHANGED <<provider, attempt, fence, scan, position, complete, replica,
                   suppressed, jobs, began>>

\* The scan, the page's validation or the commit fails and changes nothing.
RunFails(w) ==
    /\ pc[w] \in {"scan", "commit"} /\ GoOn(w, "fail")
    /\ Upset
    /\ UNCHANGED <<provider, attempt, fence, scan, position, complete, replica,
                   suppressed, jobs, began>>

\* #upsertExternal or #eraseExternal for the record the page speaks of: the
\* version each record holds then, and the generation that last saw it.  A
\* snapshot says nothing of a record the provider does not hold.
Upserts(p, i) == p.id = i /\ p.version # 0 /\ i \notin suppressed
Erases(l, p, i) == p.id = i /\ p.version = 0 /\ l.mode = "changes"

ContentAfter(l, p) ==
    [i \in Ids |-> IF Upserts(p, i) THEN p.version
                   ELSE IF Erases(l, p, i) THEN 0 ELSE content[i]]
SeenAfter(l, p) == [i \in Ids |-> IF Upserts(p, i) THEN l.scan ELSE seen[i]]

\* A snapshot's last page deletes what this generation did not see.
Unseen(l, p) == {i \in Ids : p.complete /\ l.mode = "snapshot" /\ SeenAfter(l, p)[i] # l.scan}

WritePage(l, p) ==
    /\ content' = [i \in Ids |-> IF i \in Unseen(l, p) THEN 0 ELSE ContentAfter(l, p)[i]]
    /\ seen' = SeenAfter(l, p)
    /\ lapsed' = {i \in lapsed : ~Upserts(p, i)}

\* #completePage: the requests this generation answers complete, and another
\* scan is due at once when some remain.
CompletePage(l, p) ==
    /\ checkpoint' = IF p.checkpoint # 0 THEN p.checkpoint
                     ELSE IF l.mode = "changes" THEN checkpoint ELSE 0
    /\ cursor' = NoCursor /\ mode' = "none"
    /\ JobsFollow(l.scan, "completed")
    /\ complete' = TRUE
    /\ Unlease
    /\ due' = IF Pending' THEN "now" ELSE "poll"

ContinuePage(w, p) ==
    /\ cursor' = p.next
    /\ expired' = FALSE
    /\ UNCHANGED <<checkpoint, mode, job, complete, owner, due>>

CommitPage(w) ==
    LET p == page[w]
        l == lease[w]
    IN  /\ pc[w] = "commit"
        /\ OwnsLease(w, FALSE) /\ cursor = l.cursor
        /\ WritePage(l, p)
        /\ \/ p.complete /\ CompletePage(l, p)
           \/ ~p.complete /\ ContinuePage(w, p)
        /\ UNCHANGED <<provider, state, fence, scan, suppressed, target, asked, began>>

\* The worker learns of the commit and goes on with the lease it returns, up to
\* maxPagesPerRun pages.
CommitAnswered(w) ==
    /\ CommitPage(w)
    /\ \/ page[w].complete /\ Return(w)
       \/ /\ ~page[w].complete
          /\ Go(w, IF pages[w] + 1 < MaxPages[w] THEN "scan" ELSE "fail")
          /\ lease' = [lease EXCEPT ![w].cursor = page[w].next]
          /\ page' = [page EXCEPT ![w] = NoPage]
          /\ pages' = [pages EXCEPT ![w] = @ + 1]
    /\ UNCHANGED upsets

\* The page commits and the answer is lost: the worker reports a failure.
CommitUnknown(w) ==
    /\ CommitPage(w)
    /\ Upset
    /\ GoOn(w, "fail")

\* stale_fence or stale_cursor.
LostLease(w) ==
    /\ pc[w] = "commit" /\ Return(w)
    /\ ~(OwnsLease(w, FALSE) /\ cursor = lease[w].cursor)
    /\ UNCHANGED <<provider, attempt, fence, scan, position, complete, replica,
                   suppressed, jobs, began, upsets>>

\* resetCheckpoint: the answer is ignored, a lease lost meanwhile changes nothing.
ResetCheckpoint(w) ==
    /\ pc[w] = "reset" /\ Return(w)
    /\ \/ /\ OwnsLease(w, FALSE)
          /\ cursor' = NoCursor /\ checkpoint' = 0 /\ mode' = "none"
          /\ Unlease
          /\ complete' = FALSE
          /\ due' = "now"
          /\ JobsFollow(scan, "queued")
       \/ ~OwnsLease(w, FALSE) /\ UNCHANGED <<position, owner, expired, complete, due, job>>
    /\ UNCHANGED <<provider, state, fence, scan, replica, suppressed, target, asked,
                   began, upsets>>

\* failLease: an expired lease nobody took over may still report.
FailLease(w) ==
    /\ pc[w] = "fail" /\ Return(w)
    /\ \/ /\ OwnsLease(w, TRUE)
          /\ Unlease
          /\ complete' = FALSE
          /\ due' = "retry"
          /\ JobsFollow(lease[w].scan, "queued")
       \/ ~OwnsLease(w, TRUE) /\ UNCHANGED <<owner, expired, complete, due, job>>
    /\ UNCHANGED <<provider, state, fence, scan, position, replica, suppressed, target,
                   asked, began, upsets>>

\* The worker dies, or the call that reports its end fails.
Crash(w) ==
    /\ pc[w] # "idle" /\ Return(w)
    /\ Upset
    /\ UNCHANGED <<provider, attempt, fence, scan, position, complete, replica,
                   suppressed, jobs, began>>

-----------------------------------------------------------------------------
(* Time.                                                                   *)

Working == \E w \in Workers : pc[w] # "idle" /\ lease[w].fence = fence

\* A dead worker's lease expires.
LeaseExpires ==
    /\ owner # None /\ ~expired /\ ~Working
    /\ expired' = TRUE
    /\ UNCHANGED <<provider, state, owner, due, fence, scan, position, complete, replica,
                   suppressed, jobs, run, began, upsets>>

\* So does the lease of a worker that is only slow.
LeaseOutlived ==
    /\ owner # None /\ ~expired /\ Working
    /\ expired' = TRUE
    /\ Upset
    /\ UNCHANGED <<provider, state, owner, due, fence, scan, position, complete, replica,
                   suppressed, jobs, run, began>>

RetryDue ==
    /\ due = "retry"
    /\ due' = "now"
    /\ UNCHANGED <<provider, state, owner, expired, fence, scan, position, complete,
                   replica, suppressed, jobs, run, began, upsets>>

PollDue ==
    /\ due = "poll"
    /\ due' = "now"
    /\ Upset
    /\ UNCHANGED <<provider, state, owner, expired, fence, scan, position, complete,
                   replica, suppressed, jobs, run, began>>

\* purgeExpired erases a record whose retention has run out.
PurgeExpired(i) ==
    /\ content[i] # 0
    /\ content' = [content EXCEPT ![i] = 0]
    /\ lapsed' = lapsed \cup {i}
    /\ Upset
    /\ UNCHANGED <<provider, attempt, fence, scan, position, complete, seen, suppressed,
                   jobs, run, began>>

-----------------------------------------------------------------------------
(* Operators and tenants.                                                  *)

\* setBindingState "paused" and "active": neither touches the fence or cursor.
Pause ==
    /\ state = "active" /\ state' = "paused"
    /\ Unlease
    /\ Upset
    /\ UNCHANGED <<provider, due, fence, scan, position, complete, replica, suppressed,
                   jobs, run, began>>

Resume ==
    /\ state = "paused" /\ state' = "active"
    /\ Unlease
    /\ due' = "now"
    /\ UNCHANGED <<provider, fence, scan, position, complete, replica, suppressed,
                   jobs, run, began, upsets>>

\* replaceBinding: the suppressions move over only for the same account.
ReplaceBinding ==
    /\ content' = [i \in Ids |-> 0]
    /\ seen' = [i \in Ids |-> 0]
    /\ lapsed' = {}
    /\ suppressed' \in {suppressed, {}}
    /\ fence' = fence + 1 /\ scan' = 0
    /\ mode' = "none" /\ cursor' = NoCursor /\ checkpoint' = 0
    /\ state' = "active" /\ due' = "now" /\ Unlease
    /\ complete' = FALSE
    /\ job' = [k \in Keys |-> IF Unsettled(k) THEN "superseded" ELSE job[k]]
    /\ Upset
    /\ UNCHANGED <<provider, target, asked, run, began>>

\* requestRefresh under a new key: it asks for the scan after the one that may
\* be running, and joins the requests waiting for it.
\* Mutants: the scan that is running, or the one before it.
TargetScanRunning == scan
TargetScanBefore == scan - 1
TargetScan == scan + 1

RequestRefresh(k) ==
    /\ job[k] = "none" /\ state = "active"
    /\ target' = [target EXCEPT ![k] = TargetScan]
    /\ asked' = [asked EXCEPT ![k] = clock]
    /\ LET waiting == {job[j] : j \in {n \in Keys : Unsettled(n) /\ target[n] = TargetScan}}
       IN  \E s \in IF waiting = {} THEN {"queued"} ELSE waiting :
             job' = [job EXCEPT ![k] = s]
    /\ due' = "now"
    /\ UNCHANGED <<provider, state, owner, expired, fence, scan, position, complete,
                   replica, suppressed, run, began, upsets>>

\* suppressExternalRecord, and restoreSuppressions for the current generation.
SuppressExternalRecord(i) ==
    /\ i \notin suppressed
    /\ suppressed' = suppressed \cup {i}
    /\ content' = [content EXCEPT ![i] = 0]
    /\ Upset
    /\ UNCHANGED <<provider, attempt, fence, scan, position, complete, seen, lapsed,
                   jobs, run, began>>

-----------------------------------------------------------------------------
Run(w) == \/ ClaimDue(w) \/ Scan(w) \/ CommitAnswered(w) \/ LostLease(w)
          \/ ResetCheckpoint(w) \/ FailLease(w)

Trouble(w) == ScanResets(w) \/ RunFails(w) \/ CommitUnknown(w) \/ Crash(w)

Record(i) == ProviderChanges(i) \/ PurgeExpired(i) \/ SuppressExternalRecord(i)

Time == LeaseExpires \/ LeaseOutlived \/ RetryDue \/ PollDue

Next == \/ \E w \in Workers : Run(w) \/ Trouble(w)
        \/ \E i \in Ids : Record(i)
        \/ \E k \in Keys : RequestRefresh(k)
        \/ Time \/ Pause \/ Resume \/ ReplaceBinding

\* The coordinator's loop keeps calling runOne and each run goes on; delays run
\* out.  Nothing obliges anyone to fail, to change a record or to resume.
Fairness == /\ WF_vars(\E w \in Workers : ClaimDue(w))
            /\ \A w \in Workers :
                 WF_vars(Scan(w) \/ CommitAnswered(w) \/ LostLease(w)
                         \/ ResetCheckpoint(w) \/ FailLease(w))
            /\ WF_vars(LeaseExpires) /\ WF_vars(RetryDue)

Spec == Init /\ [][Next]_vars /\ Fairness

-----------------------------------------------------------------------------
\* A completed scan leaves the replica as the provider was when the scan
\* generation was claimed: whatever run, worker or lease committed its pages,
\* each record not changed since, not erased by the tenant and not purged by
\* retention is held in the provider's version, and nothing else is; and an
\* erased record stays erased whatever page names it (commitPage,
\* #completePage and #upsertExternal under ownsLease).
ReplicaMirrorsSource ==
    /\ \A i \in suppressed : content[i] = 0
    /\ complete => \A i \in Ids \ (suppressed \cup lapsed) :
                      changedAt[i] <= began => content[i] = Stored(i)

\* A late page of a worker that lost its lease never brings back an older
\* version of a record ("without moving observations backwards",
\* service/test/source-ingestion-core.test.ts:270).
NeverOlder ==
    [][\A i \in Ids : content'[i] # 0 => content[i] <= content'[i]]_vars

\* A refresh that answers "completed" has seen the provider after it was asked
\* for, also when it was asked in the middle of a scan or of one abandoned with
\* its cursor kept (requestSourceRefresh's target generation).
RefreshIsFresh ==
    [][\A k \in Keys : job[k] # "completed" /\ job'[k] = "completed" =>
         \A i \in Ids \ (suppressed \cup lapsed)' :
            changedAt[i] <= asked[k] => content'[i] = Stored(i)]_vars

\* Every refresh ends, unless the binding is paused and not resumed.
RefreshSettles ==
    \A k \in Keys : Unsettled(k) ~> (~Unsettled(k) \/ state = "paused")
=============================================================================
