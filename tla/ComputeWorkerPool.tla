------------------------- MODULE ComputeWorkerPool -------------------------
(***************************************************************************)
(* The bounded pool of sandbox worker threads                               *)
(* (compute/src/worker-pool.ts) and the worker loop it talks to             *)
(* (compute/src/worker-entry.ts).                                           *)
(*                                                                         *)
(* The pool lives on the main thread: each of its callbacks is one step.    *)
(* The worker's half takes steps of its own, and what is posted is handled  *)
(* later.  The sandbox is suspended during a host call, so at most one      *)
(* message of a run is under way, and the worker's stage says which.  A     *)
(* worker is started for some job and named by it.  A message that is       *)
(* ignored changes nothing and is no step.                                  *)
(***************************************************************************)
EXTENDS Integers, Sequences, FiniteSets

CONSTANTS
    Jobs,        \* invocations
    None,        \* no job
    MaxWorkers,  \* #maxWorkers
    Budget,      \* timeoutMs of each job
    Grace,       \* #terminateGraceMs
    RecycleAfter,\* WORKER_RECYCLE_AFTER_RUNS
    MaxTime      \* where the clock of the model ends

\* How a promise is settled; a result may be the sandbox's own error.
Answers == {"result", "timeout", "queue_timeout", "lost", "closed"}

ASSUME JobsAssumption == None \notin Jobs \cup Answers /\ IsFiniteSet(Jobs)
ASSUME BudgetAssumption == Budget \in [Jobs -> Nat \ {0}] /\ Grace \in Nat
ASSUME SizeAssumption == MaxWorkers \in Nat \ {0} /\ RecycleAfter \in Nat \ {0}
ASSUME TimeAssumption == MaxTime \in Nat

VARIABLES
    now,         \* Date.now()
    closed,      \* #closed
    queue,       \* #queue
    slots,       \* #slots: the workers that are not dropped
    worker,      \* main thread's and worker's own view of each worker
    submitted,   \* jobs execute() was called with
    enqueuedAt,  \* when
    serving,     \* jobs for which the main thread is serving a host call
    answer,      \* how the promise of each job was settled
    ran          \* jobs a worker has begun to handle

vars == <<now, closed, queue, slots, worker, submitted, enqueuedAt, serving, answer, ran>>

Threads == {"none", "up", "dying", "lost", "gone"}
Started == {"running", "calling", "awaiting", "replied", "posted"}
Stages == {"ready", "sent"} \cup Started

\* active is the run the pool waits for and due when its backstop fires; exec is
\* the run the thread has; thread is "dying" once terminate() was called, "lost"
\* until its exit event is handled.
Workers == [active : Jobs \cup {None}, due : Nat, runs : 0 .. RecycleAfter,
            exec : Jobs \cup {None}, stage : Stages, thread : Threads]

TypeOK ==
    /\ now \in 0 .. MaxTime
    /\ closed \in BOOLEAN
    /\ queue \in Seq(Jobs)
    /\ slots \subseteq Jobs
    /\ worker \in [Jobs -> Workers]
    /\ submitted \subseteq Jobs
    /\ enqueuedAt \in [Jobs -> 0 .. MaxTime]
    /\ serving \subseteq Jobs
    /\ answer \in [Jobs -> Answers \cup {None}]
    /\ ran \subseteq Jobs

NoWorker == [active |-> None, due |-> 0, runs |-> 0,
             exec |-> None, stage |-> "ready", thread |-> "none"]

Init ==
    /\ now = 0
    /\ closed = FALSE
    /\ queue = <<>>
    /\ slots = {}
    /\ worker = [w \in Jobs |-> NoWorker]
    /\ submitted = {}
    /\ enqueuedAt = [j \in Jobs |-> 0]
    /\ serving = {}
    /\ answer = [j \in Jobs |-> None]
    /\ ran = {}

-----------------------------------------------------------------------------
(* Slots and dispatch *)

Queued == {queue[k] : k \in DOMAIN queue}
IdleIn(S, W) == {w \in S : W[w].active = None}
Exhausted(j) == now - enqueuedAt[j] >= Budget[j]

\* Mutant: waiting does not count against the budget.
DueAtFull(j, since) == now + Budget[j] + Grace

\* What is left of the budget after waiting, 1 at least, plus the grace.
DueAt(j, since) ==
    LET left == Budget[j] - (now - since)
    IN now + (IF left >= 1 THEN left ELSE 1) + Grace

Spawned(W, w) == [W EXCEPT ![w].thread = "up"]
Sent(W, w, j, since) ==
    [W EXCEPT ![w].active = j, ![w].due = DueAt(j, since),
              ![w].exec = j, ![w].stage = "sent"]

\* A run is over: the slot is idle again.
Vacated(W, w) == [W EXCEPT ![w].active = None, ![w].due = 0]

\* Mutant: the slot is forgotten and its thread goes on.
DroppedOnly(W, w) == Vacated(W, w)

\* #drop: out of the pool, and the thread is told to stop.
Dropped(W, w) ==
    [Vacated(W, w) EXCEPT ![w].thread = IF @ = "up" THEN "dying" ELSE @]

\* Mutant: one worker too many.
RoomForOneMore(S) == Cardinality(S) <= MaxWorkers

RoomIn(S) == Cardinality(S) < MaxWorkers

\* Mutant: a dropped worker is not replaced for those who wait.
PlaceReused(S, W) == IdleIn(S, W)

\* Where #pumpQueue puts the next job: an idle slot, or else a new one.
PlaceIn(S, W) ==
    IF IdleIn(S, W) # {} THEN IdleIn(S, W)
    ELSE IF RoomIn(S) THEN {Head(queue)} ELSE {}

\* How many jobs at the head of the queue have run out of time.
Stale(n) ==
    /\ \A k \in 1 .. n : Exhausted(queue[k])
    /\ n < Len(queue) => ~Exhausted(queue[n + 1])

\* The rest of a step that has left the pool with slots S, workers W, answers A:
\* the queue moves up while there is a place. A worker is started before the job
\* at the head is found to be out of time, and then takes a later one.
Pump(S, W, A) ==
    \/ /\ queue # <<>> => PlaceIn(S, W) = {}
       /\ slots' = S /\ worker' = W /\ answer' = A
       /\ UNCHANGED queue
    \/ /\ queue # <<>>
       /\ \E w \in PlaceIn(S, W), n \in 0 .. Len(queue) :
            LET U == IF w \in S THEN W ELSE Spawned(W, w)
            IN  /\ Stale(n)
                /\ slots' = S \cup {w}
                /\ queue' = SubSeq(queue, n + 2, Len(queue))
                /\ answer' = [j \in Jobs |-> IF \E k \in 1 .. n : queue[k] = j
                                               THEN "queue_timeout" ELSE A[j]]
                /\ worker' = IF n = Len(queue) THEN U
                             ELSE Sent(U, w, queue[n + 1], enqueuedAt[queue[n + 1]])

-----------------------------------------------------------------------------
(* The callers: execute() and close() *)

Accepted(j) ==
    /\ submitted' = submitted \cup {j}
    /\ enqueuedAt' = [enqueuedAt EXCEPT ![j] = now]

Submit(j) ==
    /\ j \notin submitted
    /\ now + Budget[j] + Grace <= MaxTime
    /\ Accepted(j)
    /\ \/ /\ closed
          /\ answer' = [answer EXCEPT ![j] = "closed"]
          /\ UNCHANGED <<queue, slots, worker>>
       \/ /\ ~closed /\ IdleIn(slots, worker) = {} /\ ~RoomIn(slots)
          /\ queue' = Append(queue, j)
          /\ UNCHANGED <<slots, worker, answer>>
       \/ /\ ~closed
          /\ \/ \E w \in IdleIn(slots, worker) :
                   worker' = Sent(worker, w, j, now) /\ UNCHANGED slots
             \/ /\ IdleIn(slots, worker) = {} /\ RoomIn(slots)
                /\ worker' = Sent(Spawned(worker, j), j, j, now)
                /\ slots' = slots \cup {j}
          /\ UNCHANGED <<queue, answer>>
    /\ UNCHANGED <<now, closed, serving, ran>>

Running == {worker[w].active : w \in slots} \ {None}

Close ==
    /\ ~closed
    /\ closed' = TRUE
    /\ queue' = <<>>
    /\ slots' = {}
    /\ worker' = [w \in Jobs |-> IF w \in slots THEN Dropped(worker, w)[w] ELSE worker[w]]
    /\ answer' = [j \in Jobs |-> IF j \in Queued \cup Running THEN "closed" ELSE answer[j]]
    /\ UNCHANGED <<submitted, enqueuedAt, now, serving, ran>>

-----------------------------------------------------------------------------
(* The worker thread. One that was told to stop may go on for a while. *)

Alive(w) == worker[w].thread \in {"up", "dying"}

Advance(w, from, to) ==
    /\ Alive(w) /\ worker[w].stage = from
    /\ worker' = [worker EXCEPT ![w].stage = to]
    /\ UNCHANGED <<now, closed, queue, slots, submitted, enqueuedAt, serving, answer>>

TakeRun(w) == Advance(w, "sent", "running") /\ ran' = ran \cup {worker[w].exec}
PostCall(w) == Advance(w, "running", "calling") /\ UNCHANGED ran
TakeReply(w) == Advance(w, "replied", "running") /\ UNCHANGED ran
PostResult(w) == Advance(w, "running", "posted") /\ UNCHANGED ran

\* The thread is gone: out of memory, process.exit, or terminate() took effect.
Exit(w) ==
    /\ Alive(w)
    /\ worker' = [worker EXCEPT ![w].thread = "lost"]
    /\ UNCHANGED <<now, closed, queue, slots, submitted, enqueuedAt, serving, answer, ran>>

-----------------------------------------------------------------------------
(* The main thread: messages, timers and exit events *)

\* Mutant: messages of an abandoned run are heeded.
HeedsAny(w) == TRUE

Heeds(w) == worker[w].active # None /\ worker[w].active = worker[w].exec

\* A call (or log entry) from the sandbox: served, or refused on the spot.
OnHostCall(w) ==
    /\ worker[w].stage = "calling" /\ Heeds(w)
    /\ \/ /\ serving' = serving \cup {worker[w].exec}
          /\ worker' = [worker EXCEPT ![w].stage = "awaiting"]
       \/ /\ worker' = [worker EXCEPT ![w].stage = "replied"]
          /\ UNCHANGED serving
    /\ UNCHANGED <<now, closed, queue, slots, submitted, enqueuedAt, answer, ran>>

\* A host call has been served. Its answer is dropped if the run is over.
Respond(j) ==
    /\ j \in serving
    /\ serving' = serving \ {j}
    /\ worker' = [w \in Jobs |-> IF w \in slots /\ worker[w].active = j
                                  THEN [worker[w] EXCEPT !.stage = "replied"]
                                  ELSE worker[w]]
    /\ UNCHANGED <<now, closed, queue, slots, submitted, enqueuedAt, answer, ran>>

Answered(j, told) == [answer EXCEPT ![j] = told]

\* Mutant: a worker is recycled one run late.
WornOutLate(runs) == runs > RecycleAfter

WornOut(runs) == runs >= RecycleAfter

OnResult(w) ==
    /\ worker[w].stage = "posted" /\ Heeds(w)
    /\ LET runs == worker[w].runs + 1
           told == Answered(worker[w].active, "result")
           done == [Vacated(worker, w) EXCEPT ![w].runs = runs, ![w].stage = "ready"]
       IN  IF WornOut(runs) THEN Pump(slots \ {w}, Dropped(done, w), told)
                            ELSE Pump(slots, done, told)
    /\ UNCHANGED <<now, closed, submitted, enqueuedAt, serving, ran>>

\* Mutant: the backstop is armed by the worker's first sign of life.
OverdueOnceTaken(w) ==
    worker[w].active # None /\ worker[w].stage # "sent" /\ now >= worker[w].due

Overdue(w) == worker[w].active # None /\ now >= worker[w].due

OnDeadline(w) ==
    /\ Overdue(w)
    /\ Pump(slots \ {w}, Dropped(worker, w), Answered(worker[w].active, "timeout"))
    /\ UNCHANGED <<now, closed, submitted, enqueuedAt, serving, ran>>

\* Mutant: a timer that was not cleared splices without having found its job.
LeavesUnfound(j) == j \in Running /\ queue' = SubSeq(queue, 1, Len(queue) - 1)

Leaves(j) ==
    \E k \in DOMAIN queue :
        /\ queue[k] = j
        /\ queue' = SubSeq(queue, 1, k - 1) \o SubSeq(queue, k + 1, Len(queue))

ExpireQueued(j) ==
    /\ Exhausted(j)
    /\ Leaves(j)
    /\ answer' = Answered(j, "queue_timeout")
    /\ UNCHANGED <<now, closed, slots, worker, submitted, enqueuedAt, serving, ran>>

\* The error or exit event of a worker. A dropped one is forgotten.
OnWorkerLost(w) ==
    /\ worker[w].thread = "lost"
    /\ LET gone == [worker EXCEPT ![w] = [NoWorker EXCEPT !.thread = "gone"]]
       IN  \/ /\ w \notin slots
              /\ worker' = gone
              /\ UNCHANGED <<queue, slots, answer>>
           \/ /\ w \in slots
              /\ Pump(slots \ {w}, gone,
                      IF worker[w].active = None THEN answer
                                                 ELSE Answered(worker[w].active, "lost"))
    /\ UNCHANGED <<now, closed, submitted, enqueuedAt, serving, ran>>

\* Timers are punctual: the sandbox does not run on the main thread.
Tick ==
    /\ now < MaxTime
    /\ \A j \in Queued : ~Exhausted(j)
    /\ \A w \in slots : ~Overdue(w)
    /\ now' = now + 1
    /\ UNCHANGED <<closed, queue, slots, worker, submitted, enqueuedAt, serving, answer, ran>>

Next ==
    \/ \E j \in Jobs : Submit(j) \/ ExpireQueued(j) \/ Respond(j)
    \/ \E w \in Jobs : \/ TakeRun(w) \/ PostCall(w) \/ TakeReply(w) \/ PostResult(w)
                       \/ Exit(w) \/ OnHostCall(w) \/ OnResult(w)
                       \/ OnDeadline(w) \/ OnWorkerLost(w)
    \/ Close
    \/ Tick

Spec == Init /\ [][Next]_vars

\* Timers fire and time passes. Nothing is asked of workers, hosts or callers.
Fairness ==
    /\ WF_vars(Tick)
    /\ \A j \in Jobs : WF_vars(ExpireQueued(j)) /\ WF_vars(OnDeadline(j))

FairSpec == Spec /\ Fairness

-----------------------------------------------------------------------------
(* Properties *)

\* Nobody waits beside an idle or a missing worker, however the place came free:
\* by a result, a deadline, a dead worker or recycling (worker-pool.ts:345).
NobodyWaitsInVain ==
    queue # <<>> =>
        /\ Cardinality(slots) = MaxWorkers
        /\ \A w \in slots : worker[w].active # None

\* Waiting and running together stay within budget and grace, and a job is
\* always in the queue or with a worker until it is answered (worker-pool.ts:15).
AnswersInTime ==
    \A j \in submitted :
        answer[j] = None =>
            /\ j \in Queued \cup Running
            /\ now <= enqueuedAt[j] + Budget[j] + Grace

\* queue_timeout is reported as retryable because the job never started
\* (code-connector.ts:119); a result comes from a sandbox that ran the job.
AnswerTellsWhetherItRan ==
    \A j \in Jobs :
        /\ answer[j] = "queue_timeout" => j \notin ran
        /\ answer[j] = "result" => j \in ran

\* A thread outside the pool has been told to stop: replacing workers leaks none.
NoThreadLeaks ==
    \A w \in Jobs : worker[w].thread = "up" => w \in slots

\* No operation of the host is begun for a caller that has its answer, even
\* while the abandoned sandbox is still running (worker-pool.ts:213).
NoCallAfterAnswer ==
    [][\A j \in serving' \ serving : answer[j] = None]_vars

Service == INSTANCE ComputeService
    WITH Calls <- Jobs, Limit <- MaxWorkers, NoAnswer <- None,
         waiting <- queue, running <- Running, answer <- answer

\* The pool keeps its promise: in order, bounded, and one answer for each job.
ImplementsService == Service!ServiceSpec

\* Every invocation is answered, whatever sandbox and host do.
EveryJobSettles == \A j \in Jobs : j \in submitted ~> answer[j] # None
=============================================================================
