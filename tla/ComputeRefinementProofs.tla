---------------------- MODULE ComputeRefinementProofs ----------------------
(* The worker pool keeps the promise of ComputeService for every set of jobs, *)
(* every size of the pool, every budget and grace.                            *)
EXTENDS ComputeWorkerPoolProofs

Busy == {w \in slots : worker[w].active # None}

-----------------------------------------------------------------------------
(* What the service counts *)

\* The service counts with the standard Cardinality.
LEMMA SameCount == ASSUME NEW S PROVE Service!Cardinality(S) = Cardinality(S)
  BY DEF Service!Cardinality, Cardinality

\* No two slots have the same job: as many jobs run as slots are busy.
LEMMA RunningCount ==
    ASSUME PoolInv
    PROVE  /\ Cardinality(Running) = Cardinality(Busy)
           /\ IsFiniteSet(slots) /\ Cardinality(slots) \in Nat
           /\ Busy \subseteq slots /\ Cardinality(Busy) <= Cardinality(slots)
           /\ Cardinality(Busy) \in Nat
           /\ Cardinality(Busy) = Cardinality(slots) => Busy = slots
<1> DEFINE job == [w \in Busy |-> worker[w].active]
<1>1. slots \subseteq Jobs
  BY DEF PoolInv, TypeOK
<1>2. IsFiniteSet(slots) /\ Cardinality(slots) \in Nat
  BY <1>1, SlotsAreFinite
<1>3. Busy \in SUBSET slots
  BY DEF Busy
<1>4. /\ IsFiniteSet(Busy) /\ Cardinality(Busy) <= Cardinality(slots)
      /\ Cardinality(slots) = Cardinality(Busy) => slots = Busy
  BY <1>2, <1>3, FS_Subset
<1>5. Cardinality(Busy) \in Nat
  BY <1>4, FS_CardinalityType
<1>6. job \in Bijection(Busy, Running)
  <2>1. \A w \in Busy : worker[w].active \in Running
    BY DEF Busy, Running
  <2>2. \A v, w \in Busy : worker[v].active = worker[w].active => v = w
    BY DEF Busy, PoolInv, Sound, ActiveRuns
  <2>3. \A j \in Running : \E w \in Busy : worker[w].active = j
    BY DEF Busy, Running
  <2>4. job \in [Busy -> Running] /\ \A w \in Busy : job[w] = worker[w].active
    BY <2>1
  <2> HIDE DEF job
  <2> QED
    BY <2>2, <2>3, <2>4 DEF Bijection, Injection, Surjection, IsInjective
<1>7. Cardinality(Running) = Cardinality(Busy)
  BY <1>4, <1>6, FS_Bijection DEF ExistsBijection
<1> QED
  BY <1>2, <1>3, <1>4, <1>5, <1>7

\* What execute() was not called with yet is new to the service.
LEMMA UnsubmittedIsNew ==
    ASSUME PoolInv, NEW j \in Jobs, j \notin submitted
    PROVE  Service!New(j)
  BY DEF PoolInv, Sound, NewUnknown, QueuedWait, ActiveRuns, Running, Service!New, Service!InLine

LEMMA NextInLine ==
    ASSUME NEW q \in Seq(Jobs), NEW n \in 0 .. Len(q), n # Len(q)
    PROVE  n + 1 \in DOMAIN q
  OBVIOUS

LEMMA SentRuns ==
    ASSUME NEW U \in [Jobs -> Workers], NEW w \in Jobs, NEW j, NEW since
    PROVE  /\ Sent(U, w, j, since)[w].active = j
           /\ \A v \in Jobs \ {w} : Sent(U, w, j, since)[v] = U[v]
  BY DEF Sent, Workers

-----------------------------------------------------------------------------
(* Each operation is a step of the service or none *)

\* execute() refuses, queues or runs the job.
LEMMA SubmitServes ==
    ASSUME PoolInv, NEW j \in Jobs, Submit(j)
    PROVE  Service!Run(j) \/ Service!Wait(j) \/ Service!Refuse(j)
<1> USE JobsAssumption, SizeAssumption
<1>0. /\ worker \in [Jobs -> Workers] /\ slots \subseteq Jobs
      /\ Service!New(j) /\ worker[j] = NoWorker
  BY UnsubmittedIsNew DEF Submit, PoolInv, TypeOK, Sound, NewUnknown
<1>1. CASE /\ answer' = [answer EXCEPT ![j] = "closed"]
           /\ UNCHANGED <<queue, slots, worker>>
  BY <1>0, <1>1 DEF Service!Refuse, Running
<1>2. CASE /\ IdleIn(slots, worker) = {} /\ ~RoomIn(slots)
           /\ queue' = Append(queue, j)
           /\ UNCHANGED <<slots, worker, answer>>
  <2>1. Busy = slots
    BY <1>2 DEF Busy, IdleIn
  <2>2. Cardinality(slots) = MaxWorkers
    BY <1>2, RunningCount DEF RoomIn, PoolInv, Sound
  <2>3. Cardinality(Running) = MaxWorkers
    BY <2>1, <2>2, RunningCount
  <2>4. Running' = Running
    BY <1>2 DEF Running
  <2>5. Service!Wait(j)
    BY <1>0, <1>2, <2>3, <2>4, SameCount DEF Service!Wait
  <2> QED
    BY <2>5
<1>3. ASSUME NEW w \in Jobs, NEW U, \A v \in Jobs : U[v].active = worker[v].active,
             U \in [Jobs -> Workers], worker' = Sent(U, w, j, now),
             slots' = slots \cup {w}, worker[w].active = None,
             UNCHANGED <<queue, answer>>
      PROVE  UNCHANGED <<queue, answer>> /\ Running' = Running \cup {j}
  <2>1. /\ worker'[w].active = j
        /\ \A v \in Jobs \ {w} : worker'[v].active = worker[v].active
    BY <1>3, SentRuns
  <2> QED
    BY <1>0, <1>3, <2>1 DEF Running
<1>4. CASE /\ \/ \E w \in IdleIn(slots, worker) :
                   worker' = Sent(worker, w, j, now) /\ UNCHANGED slots
              \/ /\ IdleIn(slots, worker) = {} /\ RoomIn(slots)
                 /\ worker' = Sent(Spawned(worker, j), j, j, now)
                 /\ slots' = slots \cup {j}
           /\ UNCHANGED <<queue, answer>>
  <2>1. queue = <<>> /\ Cardinality(Running) < MaxWorkers
    <3>1. Busy # slots \/ Cardinality(slots) < MaxWorkers
      BY <1>4 DEF Busy, IdleIn, RoomIn
    <3>2. Cardinality(Busy) < MaxWorkers
      BY <3>1, RunningCount DEF PoolInv, Sound
    <3>3. queue = <<>>
      BY <1>4 DEF PoolInv, Full, IdleIn, RoomIn
    <3> QED
      BY <3>2, <3>3, RunningCount
  <2>2. Running' = Running \cup {j}
    <3>1. ASSUME NEW w \in IdleIn(slots, worker), worker' = Sent(worker, w, j, now), UNCHANGED slots
          PROVE  Running' = Running \cup {j}
      <4>1. w \in Jobs /\ worker[w].active = None /\ slots' = slots \cup {w}
        BY <1>0, <3>1 DEF IdleIn
      <4> QED
        BY <1>0, <1>3, <1>4, <3>1, <4>1
    <3>2. ASSUME worker' = Sent(Spawned(worker, j), j, j, now), slots' = slots \cup {j}
          PROVE  Running' = Running \cup {j}
      <4>1. /\ Spawned(worker, j) \in [Jobs -> Workers]
            /\ \A v \in Jobs : Spawned(worker, j)[v].active = worker[v].active
        BY <1>0 DEF Spawned, Workers, Threads
      <4>2. worker[j].active = None
        BY <1>0 DEF NoWorker
      <4> QED
        BY <1>3, <1>4, <3>2, <4>1, <4>2
    <3> QED
      BY <1>4, <3>1, <3>2
  <2>3. UNCHANGED <<queue, answer>>
    BY <1>4
  <2>4. Service!Run(j)
    BY <1>0, <2>1, <2>2, <2>3, SameCount DEF Service!Run
  <2> QED
    BY <2>4
<1> QED
  BY <1>1, <1>2, <1>4 DEF Submit

\* close() answers all that is pending.
LEMMA CloseServes ==
    ASSUME PoolInv, Close
    PROVE  Service!CloseService
<1>1. Running' = {}
  BY DEF Close, Running
<1> QED
  BY <1>1 DEF Close, Queued, Service!CloseService, Service!InLine

\* The timer of a queued job takes it out of line.
LEMMA ExpireServes ==
    ASSUME PoolInv, NEW j \in Jobs, ExpireQueued(j)
    PROVE  \E k \in DOMAIN queue : Service!GiveUp(k)
  BY DEF ExpireQueued, Leaves, Answered, Running, Service!GiveUp

\* A run ends and the queue moves up: the service completes that call and starts
\* the next one in line that has time left.
LEMMA EndServes ==
    ASSUME PoolInv, NEW w \in Jobs, NEW S, NEW W, NEW A,
           worker[w].active # None, Frees(w, S, W, A), Pump(S, W, A)
    PROVE  Service!Complete(worker[w].active)
<1> DEFINE c == worker[w].active
<1> USE JobsAssumption, SizeAssumption
<1>0. /\ w \in slots /\ slots \subseteq Jobs /\ S \subseteq slots /\ slots \ {w} \subseteq S
      /\ worker \in [Jobs -> Workers] /\ W \in [Jobs -> Workers]
      /\ W[w].active = None /\ \A v \in Jobs \ {w} : W[v] = worker[v]
      /\ queue \in Seq(Jobs) /\ Len(queue) \in Nat /\ DOMAIN queue = 1 .. Len(queue)
      /\ answer \in [Jobs -> Answers \cup {None}]
  BY DEF Frees, PoolInv, TypeOK
<1>1. Sound(queue, S, W, A) /\ OneVacancy(queue, S, W)
  BY FreeingIsSound
<1>2. /\ c \in Running /\ c \in Jobs
      /\ \A k \in DOMAIN queue : queue[k] # c
      /\ \A v \in slots : worker[v].active = c => v = w
  <2>1. worker[w] \in Workers /\ c # None
    BY <1>0
  <2>2. c \in Running /\ c \in Jobs
    BY <1>0, <2>1 DEF Running, Workers
  <2>3. c \notin QueuedIn(queue) /\ \A v \in slots : worker[v].active = c => v = w
    BY <1>0, <2>1 DEF PoolInv, Sound, ActiveRuns
  <2> QED
    BY <2>2, <2>3 DEF QueuedIn
<1>3. PICK told \in {"result", "timeout", "lost"} : A = Answered(c, told)
  BY DEF Frees
<1>4. RunningIn(S, W) = Running \ {c}
  BY <1>0, <1>2 DEF RunningIn, Running
<1>5. told \in Service!Told
  BY DEF Service!Told
<1>6. A \in [Jobs -> Answers \cup {None}] /\ A[c] = told /\ \A d \in Jobs : d # c => A[d] = answer[d]
  BY <1>0, <1>2, <1>3 DEF Answered, Answers
<1> HIDE DEF c
<1>7. ASSUME NEW n \in 0 .. Len(queue),
             queue' = SubSeq(queue, n + 2, Len(queue)),
             Running' = (Running \ {c}) \cup {queue[k] : k \in {n + 1} \cap DOMAIN queue},
             answer' = [d \in Jobs |-> CASE d = c -> told
                                         [] \E k \in 1 .. n : queue[k] = d -> "queue_timeout"
                                         [] OTHER -> answer[d]]
      PROVE  Service!Complete(c)
  BY <1>2, <1>5, <1>7 DEF Service!Complete
\* Nobody was waiting.
<1>8. CASE /\ queue # <<>> => PlaceIn(S, W) = {}
           /\ slots' = S /\ worker' = W /\ answer' = A
           /\ UNCHANGED queue
  <2>1. queue = <<>>
    BY <1>1, <1>8, VacancyIsAPlace
  <2> DEFINE n == 0
  <2>2. /\ n \in 0 .. Len(queue) /\ queue' = SubSeq(queue, n + 2, Len(queue))
        /\ {n + 1} \cap DOMAIN queue = {} /\ 1 .. n = {}
    BY <1>8, <2>1
  <2> HIDE DEF n
  <2>3. Running' = (Running \ {c}) \cup {queue[k] : k \in {n + 1} \cap DOMAIN queue}
    BY <1>4, <1>8, <2>2 DEF Running, RunningIn
  <2>4. answer' = [d \in Jobs |-> CASE d = c -> told
                                    [] \E k \in 1 .. n : queue[k] = d -> "queue_timeout"
                                    [] OTHER -> answer[d]]
    BY <1>2, <1>6, <1>8, <2>2
  <2> QED
    BY <1>7, <2>2, <2>3, <2>4 DEF c
\* The place goes to the first that still has time, if any.
<1>9. ASSUME queue # <<>>, NEW p \in PlaceIn(S, W), NEW n \in 0 .. Len(queue),
             slots' = S \cup {p},
             queue' = SubSeq(queue, n + 2, Len(queue)),
             answer' = [j \in Jobs |-> IF \E k \in 1 .. n : queue[k] = j
                                         THEN "queue_timeout" ELSE A[j]],
             NEW U, U = IF p \in S THEN W ELSE Spawned(W, p),
             worker' = IF n = Len(queue) THEN U
                       ELSE Sent(U, p, queue[n + 1], enqueuedAt[queue[n + 1]])
      PROVE  Service!Complete(c)
  <2>1. p \in Jobs /\ W[p].active = None
    <3>1. CASE p \in IdleIn(S, W)
      BY <1>0, <3>1 DEF IdleIn
    <3>2. CASE p = Head(queue)
      <4>1. Head(queue) = queue[1] /\ 1 \in DOMAIN queue
        <5>1. queue \in Seq(Jobs) /\ queue # <<>>
          BY <1>0, <1>9
        <5> QED
          BY ONLY <5>1
      <4> QED
        BY <1>0, <1>1, <3>2, <4>1 DEF Sound, QueuedWait, NoWorker
    <3> QED
      BY <1>9, <3>1, <3>2 DEF PlaceIn
  <2>2. U \in [Jobs -> Workers] /\ \A v \in Jobs : U[v].active = W[v].active
    <3>1. Spawned(W, p) \in [Jobs -> Workers] /\ \A v \in Jobs : Spawned(W, p)[v].active = W[v].active
      <4> DEFINE started == [W[p] EXCEPT !.thread = "up"]
      <4>0. W[p] \in Workers
        BY <1>0, <2>1
      <4>1. started \in Workers /\ started.active = W[p].active
        BY <4>0 DEF Workers, Threads
      <4>2. Spawned(W, p) = [W EXCEPT ![p] = started]
        BY <1>0, <2>1 DEF Spawned
      <4> HIDE DEF started
      <4> QED
        BY <1>0, <2>1, <4>1, <4>2
    <3> QED
      BY <1>0, <1>9, <3>1
  <2>3. /\ \A v \in Jobs \ {p} : worker'[v].active = W[v].active
        /\ worker'[p].active = IF n = Len(queue) THEN None ELSE queue[n + 1]
    <3>1. CASE n = Len(queue)
      BY <1>9, <2>1, <2>2, <3>1
    <3>2. CASE n # Len(queue)
      <4>1. worker' = Sent(U, p, queue[n + 1], enqueuedAt[queue[n + 1]])
        BY <1>9, <3>2
      <4>2. worker'[p].active = queue[n + 1] /\ \A v \in Jobs \ {p} : worker'[v] = U[v]
        BY <2>1, <2>2, <4>1, SentRuns
      <4> QED
        BY <2>2, <3>2, <4>2
    <3> QED
      BY <3>1, <3>2
  <2>4. \A k \in DOMAIN queue : queue[k] # None
    BY <1>0
  <2>5. Running' = (Running \ {c}) \cup {queue[k] : k \in {n + 1} \cap DOMAIN queue}
    <3>1. Running' = RunningIn(S \cup {p}, worker')
      BY <1>9 DEF Running, RunningIn
    <3>2. CASE n = Len(queue)
      <4>1. {n + 1} \cap DOMAIN queue = {}
        BY <1>0, <3>2
      <4>2. RunningIn(S \cup {p}, worker') = RunningIn(S, W)
        BY <1>0, <2>1, <2>3, <3>2 DEF RunningIn
      <4> QED
        BY <1>4, <3>1, <4>1, <4>2
    <3>3. CASE n # Len(queue)
      <4>1. n + 1 \in DOMAIN queue
        <5>1. queue \in Seq(Jobs)
          BY <1>0
        <5> QED
          BY ONLY <5>1, <3>3, NextInLine
      <4>2. RunningIn(S \cup {p}, worker') = RunningIn(S, W) \cup {queue[n + 1]}
        <5>1. worker'[p].active = queue[n + 1] /\ queue[n + 1] # None
          BY <2>3, <2>4, <3>3, <4>1
        <5>2. \A v \in S \ {p} : worker'[v].active = W[v].active
          BY <1>0, <2>3
        <5> QED
          BY <2>1, <5>1, <5>2 DEF RunningIn
      <4>3. {queue[k] : k \in {n + 1} \cap DOMAIN queue} = {queue[n + 1]}
        BY <4>1
      <4> QED
        BY <1>4, <3>1, <4>2, <4>3
    <3> QED
      BY <3>2, <3>3
  <2>6. answer' = [d \in Jobs |-> CASE d = c -> told
                                    [] \E k \in 1 .. n : queue[k] = d -> "queue_timeout"
                                    [] OTHER -> answer[d]]
    <3>1. \A k \in 1 .. n : queue[k] # c
      BY <1>0, <1>2
    <3>2. ASSUME NEW d \in Jobs
          PROVE  (IF \E k \in 1 .. n : queue[k] = d THEN "queue_timeout" ELSE A[d])
                 = CASE d = c -> told
                     [] \E k \in 1 .. n : queue[k] = d -> "queue_timeout"
                     [] OTHER -> answer[d]
      BY <1>6, <3>1
    <3> QED
      BY <1>9, <3>2
  <2> QED
    BY <1>7, <1>9, <2>5, <2>6
<1> QED
  BY <1>8, <1>9 DEF Pump, c

\* An idle worker dies in its slot: then nobody waits, and nothing is said.
LEMMA IdleEndServes ==
    ASSUME PoolInv, NEW w \in Jobs, NEW S, NEW W, NEW A,
           worker[w].active = None, Frees(w, S, W, A), Pump(S, W, A)
    PROVE  UNCHANGED <<queue, Running, answer>>
<1>1. queue = <<>>
  BY DEF Frees, PoolInv, Full, IdleIn
<1>2. slots' = S /\ worker' = W /\ answer' = answer /\ UNCHANGED queue
  BY <1>1 DEF Frees, Pump
<1>3. RunningIn(S, W) = Running
  BY DEF Frees, RunningIn, Running, PoolInv, TypeOK
<1> QED
  BY <1>2, <1>3 DEF Running, RunningIn

\* What a thread does, and what the main thread does for a run that goes on, is
\* no business of the service.
LEMMA ThreadServes ==
    ASSUME PoolInv, NEW w \in Jobs,
           \/ TakeRun(w) \/ PostCall(w) \/ TakeReply(w) \/ PostResult(w)
           \/ Exit(w) \/ OnHostCall(w) \/ Respond(w) \/ (OnWorkerLost(w) /\ w \notin slots)
    PROVE  UNCHANGED <<queue, Running, answer>>
<1>0. worker \in [Jobs -> Workers] /\ slots \subseteq Jobs /\ \A v \in Jobs : worker[v] \in Workers
  BY DEF PoolInv, TypeOK
<1>1. UNCHANGED <<queue, slots, answer>>
  BY DEF TakeRun, PostCall, TakeReply, PostResult, Advance, Exit, OnHostCall, Respond, OnWorkerLost
<1>2. \A v \in slots : worker'[v].active = worker[v].active
  <2>1. CASE TakeRun(w) \/ PostCall(w) \/ TakeReply(w) \/ PostResult(w)
    BY <1>0, <2>1 DEF TakeRun, PostCall, TakeReply, PostResult, Advance, Workers
  <2>2. CASE Exit(w) \/ OnHostCall(w)
    BY <1>0, <2>2 DEF Exit, OnHostCall, Workers
  <2>3. CASE Respond(w)
    BY <1>0, <2>3 DEF Respond, Workers
  <2>4. CASE OnWorkerLost(w) /\ w \notin slots
    BY <1>0, <2>4 DEF OnWorkerLost
  <2> QED
    BY <2>1, <2>2, <2>3, <2>4
<1> QED
  BY <1>1, <1>2 DEF Running

-----------------------------------------------------------------------------
(* The theorem *)

LEMMA StepServes ==
    PoolInv /\ [Next]_vars => [Service!ServiceNext]_(Service!serviceVars)
<1> SUFFICES ASSUME PoolInv, [Next]_vars
             PROVE  Service!ServiceNext \/ UNCHANGED <<queue, Running, answer>>
  BY DEF Service!serviceVars
<1>1. CASE UNCHANGED vars
  BY <1>1 DEF vars, Running
<1>2. ASSUME NEW j \in Jobs, Submit(j)
      PROVE  Service!ServiceNext
  BY <1>2, SubmitServes DEF Service!ServiceNext
<1>3. ASSUME NEW j \in Jobs, ExpireQueued(j)
      PROVE  Service!ServiceNext
  BY <1>3, ExpireServes DEF Service!ServiceNext
<1>4. ASSUME NEW w \in Jobs,
             \/ TakeRun(w) \/ PostCall(w) \/ TakeReply(w) \/ PostResult(w)
             \/ Exit(w) \/ OnHostCall(w) \/ Respond(w) \/ (OnWorkerLost(w) /\ w \notin slots)
      PROVE  UNCHANGED <<queue, Running, answer>>
  BY <1>4, ThreadServes
<1>5. ASSUME NEW w \in Jobs,
             OnResult(w) \/ OnDeadline(w) \/ (OnWorkerLost(w) /\ w \in slots)
      PROVE  Service!ServiceNext \/ UNCHANGED <<queue, Running, answer>>
  <2>1. PICK S, W, A : Frees(w, S, W, A) /\ Pump(S, W, A)
    BY <1>5, EndFrees
  <2>2. CASE worker[w].active = None
    BY <2>1, <2>2, IdleEndServes
  <2>3. CASE worker[w].active # None
    <3>1. worker[w].active \in Jobs
      BY <2>3 DEF PoolInv, TypeOK, Workers
    <3>2. Service!Complete(worker[w].active)
      BY <2>1, <2>3, EndServes
    <3> QED
      BY <3>1, <3>2 DEF Service!ServiceNext
  <2> QED
    BY <2>2, <2>3
<1>6. CASE Close
  BY <1>6, CloseServes DEF Service!ServiceNext
<1>7. CASE Tick
  BY <1>7 DEF Tick, Running
<1> QED
  BY <1>1, <1>2, <1>3, <1>4, <1>5, <1>6, <1>7 DEF Next

\* The pool implements the service: in order, at most MaxWorkers at a time, nobody
\* waits beside a place, and each call is answered once, however results,
\* deadlines, dead workers, recycling and close() meet (worker-pool.ts).
THEOREM PoolImplementsService == Spec => ImplementsService
<1>1. Init => Service!ServiceInit
  BY DEF Init, Running, Service!ServiceInit
<1>2. PoolInv /\ [Next]_vars => [Service!ServiceNext]_(Service!serviceVars)
  BY StepServes
<1> QED
  BY <1>1, <1>2, PoolStaysSound, PTL DEF Spec, ImplementsService, Service!ServiceSpec
=============================================================================
