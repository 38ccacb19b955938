---------------------- MODULE ComputeWorkerPoolProofs ----------------------
(* Theorems about ComputeWorkerPool for every set of jobs, every size of the *)
(* pool, every budget and grace.                                            *)
EXTENDS ComputeWorkerPool, FiniteSetTheorems, SequenceTheorems, TLAPS

QueuedIn(Q) == {Q[k] : k \in DOMAIN Q}
RunningIn(S, W) == {W[w].active : w \in S} \ {None}

\* The parts of the invariant speak of a queue Q, slots S, workers W and answers
\* A, because a step first frees a place and then moves the queue up.

\* A slot has a thread that was not told to stop, and has runs left.
SlotsServe(S, W) ==
    \A w \in Jobs :
        IF w \in S THEN W[w].thread \in {"up", "lost"} /\ W[w].runs < RecycleAfter
                   ELSE W[w].thread # "up" /\ W[w].active = None

\* An active run is one the thread has, with its backstop at the end of the
\* job's time, and no other slot has the same job.
ActiveRuns(Q, S, W, A) ==
    \A w \in S :
        W[w].active # None =>
            /\ W[w].active \in submitted \ QueuedIn(Q)
            /\ A[W[w].active] = None
            /\ W[w].exec = W[w].active /\ W[w].stage # "ready"
            /\ W[w].due = enqueuedAt[W[w].active] + Budget[W[w].active] + Grace
            /\ now <= W[w].due
            /\ \A v \in S : W[v].active = W[w].active => v = w

\* A queued job is there once, is not late and has not given its name to a worker.
QueuedWait(Q, W, A) ==
    \A k \in DOMAIN Q :
        /\ Q[k] \in submitted
        /\ A[Q[k]] = None
        /\ W[Q[k]] = NoWorker
        /\ enqueuedAt[Q[k]] <= now /\ now <= enqueuedAt[Q[k]] + Budget[Q[k]]
        /\ \A l \in DOMAIN Q : Q[l] = Q[k] => l = k

NewUnknown(W, A) == \A j \in Jobs \ submitted : A[j] = None /\ W[j] = NoWorker

\* What a thread has was taken off the queue for good.
ThreadsRun(Q, W, A) ==
    \A w \in Jobs :
        W[w].stage # "ready" =>
            /\ W[w].exec \in submitted \ QueuedIn(Q)
            /\ A[W[w].exec] # "queue_timeout"
            /\ W[w].stage \in Started => W[w].exec \in ran

RanWasTaken(Q, A) ==
    /\ \A j \in ran : j \in submitted \ QueuedIn(Q) /\ A[j] # "queue_timeout"
    /\ \A j \in Jobs : A[j] = "result" => j \in ran

Pending(Q, S, W, A) ==
    \A j \in submitted : A[j] = None => j \in QueuedIn(Q) \cup RunningIn(S, W)

Sound(Q, S, W, A) ==
    /\ Q \in Seq(Jobs) /\ S \subseteq Jobs /\ W \in [Jobs -> Workers]
    /\ A \in [Jobs -> Answers \cup {None}]
    /\ Cardinality(S) <= MaxWorkers
    /\ SlotsServe(S, W) /\ ActiveRuns(Q, S, W, A) /\ QueuedWait(Q, W, A)
    /\ NewUnknown(W, A) /\ ThreadsRun(Q, W, A) /\ RanWasTaken(Q, A)
    /\ Pending(Q, S, W, A)

Full(Q, S, W) == Q # <<>> => Cardinality(S) = MaxWorkers /\ IdleIn(S, W) = {}

\* Between a run's end and the pump at most one place is free for the queue.
OneVacancy(Q, S, W) ==
    Q # <<>> =>
        \/ Cardinality(S) = MaxWorkers /\ \E w \in S : IdleIn(S, W) = {w}
        \/ Cardinality(S) + 1 = MaxWorkers /\ IdleIn(S, W) = {}

PoolInv ==
    /\ TypeOK
    /\ Sound(queue, slots, worker, answer) /\ Full(queue, slots, worker)
    /\ serving \subseteq ran

-----------------------------------------------------------------------------
(* The queue *)

\* What is left when the first n and one more have been shifted.
LEMMA DropFront ==
    ASSUME NEW q \in Seq(Jobs), NEW n \in 0 .. Len(q)
    PROVE  LET r == SubSeq(q, n + 2, Len(q))
           IN  /\ r \in Seq(Jobs)
               /\ \A k \in DOMAIN r : k + n + 1 \in DOMAIN q /\ r[k] = q[k + n + 1]
               /\ \A m \in DOMAIN q :
                    m > n + 1 => m - n - 1 \in DOMAIN r /\ r[m - n - 1] = q[m]
<1> DEFINE r == SubSeq(q, n + 2, Len(q))
<1>1. \A k \in (n + 2) .. Len(q) : q[k] \in Jobs
  OBVIOUS
<1>2. /\ r \in Seq(Jobs)
      /\ Len(r) = IF n + 2 <= Len(q) THEN Len(q) - (n + 2) + 1 ELSE 0
      /\ \A k \in 1 .. Len(q) - (n + 2) + 1 : r[k] = q[n + 2 + k - 1]
  BY <1>1, SubSeqProperties
<1> HIDE DEF r
<1>3. DOMAIN r = 1 .. Len(q) - (n + 2) + 1 /\ DOMAIN q = 1 .. Len(q) /\ Len(q) \in Nat
  BY <1>2
<1>4. ASSUME NEW k \in DOMAIN r
      PROVE  k + n + 1 \in DOMAIN q /\ r[k] = q[k + n + 1]
  <2>1. n + 2 + k - 1 = k + n + 1 /\ k + n + 1 \in 1 .. Len(q)
    BY <1>3
  <2> QED
    BY <1>2, <1>3, <2>1
<1>5. ASSUME NEW m \in DOMAIN q, m > n + 1
      PROVE  m - n - 1 \in DOMAIN r /\ r[m - n - 1] = q[m]
  <2>1. m - n - 1 \in DOMAIN r /\ n + 2 + (m - n - 1) - 1 = m
    BY <1>3, <1>5
  <2> QED
    BY <1>2, <1>3, <2>1
<1> QED
  BY <1>2, <1>4, <1>5 DEF r

\* What is left when the entry at k has been spliced out.
LEMMA CutOut ==
    ASSUME NEW q \in Seq(Jobs), NEW k \in DOMAIN q,
           NEW r, r = SubSeq(q, 1, k - 1) \o SubSeq(q, k + 1, Len(q))
    PROVE  /\ r \in Seq(Jobs)
           /\ Len(r) = Len(q) - 1
           /\ \A i \in DOMAIN r : r[i] = IF i < k THEN q[i] ELSE q[i + 1]
<1> DEFINE a == SubSeq(q, 1, k - 1)
           b == SubSeq(q, k + 1, Len(q))
<1>0. k \in 1 .. Len(q) /\ Len(q) \in Nat
  OBVIOUS
<1>1. /\ a \in Seq(Jobs) /\ Len(a) = k - 1
      /\ \A i \in 1 .. k - 1 : a[i] = q[i]
  <2>1. \A i \in 1 .. k - 1 : q[i] \in Jobs
    OBVIOUS
  <2> QED
    BY <2>1, SubSeqProperties
<1>2. /\ b \in Seq(Jobs) /\ Len(b) = Len(q) - k
      /\ \A i \in 1 .. Len(q) - k : b[i] = q[k + i]
  <2>1. \A i \in k + 1 .. Len(q) : q[i] \in Jobs
    OBVIOUS
  <2>2. /\ b \in Seq(Jobs)
        /\ Len(b) = IF k + 1 <= Len(q) THEN Len(q) - (k + 1) + 1 ELSE 0
        /\ \A i \in 1 .. Len(q) - (k + 1) + 1 : b[i] = q[k + 1 + i - 1]
    BY <2>1, SubSeqProperties
  <2> QED
    BY <2>2
<1> HIDE DEF a, b
<1>3. /\ a \o b \in Seq(Jobs)
      /\ Len(a \o b) = Len(a) + Len(b)
      /\ \A i \in 1 .. Len(a) + Len(b) :
            (a \o b)[i] = IF i <= Len(a) THEN a[i] ELSE b[i - Len(a)]
  BY <1>1, <1>2, ConcatProperties
<1>4. r = a \o b
  BY DEF a, b
<1>5. r \in Seq(Jobs) /\ Len(r) = Len(q) - 1
  BY ONLY <1>0, <1>1, <1>2, <1>3, <1>4
<1>6. ASSUME NEW i \in 1 .. Len(q) - 1
      PROVE  r[i] = IF i < k THEN q[i] ELSE q[i + 1]
  <2>1. CASE i < k
    <3>1. i \in 1 .. k - 1 /\ i \in 1 .. Len(a) + Len(b) /\ i <= Len(a)
      BY ONLY <2>1, <1>0, <1>1, <1>2, i \in 1 .. Len(q) - 1
    <3>2. (a \o b)[i] = a[i] /\ a[i] = q[i]
      BY ONLY <3>1, <1>1, <1>3
    <3> QED
      BY ONLY <2>1, <3>2, <1>4
  <2>2. CASE i >= k
    <3>1. i - (k - 1) \in 1 .. Len(q) - k /\ k + (i - (k - 1)) = i + 1
      BY ONLY <2>2, <1>0, i \in 1 .. Len(q) - 1
    <3>2. b[i - (k - 1)] = q[i + 1]
      BY ONLY <3>1, <1>2
    <3>3. i \in 1 .. Len(a) + Len(b) /\ ~(i <= Len(a)) /\ ~(i < k)
      BY <2>2, <1>0, <1>1, <1>2
    <3>4. (a \o b)[i] = b[i - Len(a)]
      BY <3>3, <1>3
    <3>5. Len(a) = k - 1
      BY <1>1
    <3> QED
      BY <3>2, <3>3, <3>4, <3>5, <1>4
  <2> QED
    BY ONLY <2>1, <2>2, <1>0, i \in 1 .. Len(q) - 1
<1> QED
  BY ONLY <1>0, <1>5, <1>6, r \in Seq(Jobs)

\* A job dispatched with time left gets exactly that time and the grace.
LEMMA DueIsExact ==
    ASSUME TypeOK, NEW j \in Jobs, NEW since \in 0 .. MaxTime, since <= now,
           now - since < Budget[j]
    PROVE  DueAt(j, since) = since + Budget[j] + Grace
  BY BudgetAssumption, TimeAssumption DEF TypeOK, DueAt

-----------------------------------------------------------------------------
(* A place comes free, and the pump fills it *)

\* What a step does to slot w before it pumps: its run, if any, is answered, and
\* the slot stays for another run or leaves the pool.
Frees(w, S, W, A) ==
    /\ w \in slots /\ W \in [Jobs -> Workers]
    /\ \A v \in Jobs \ {w} : W[v] = worker[v]
    /\ W[w].active = None
    /\ \/ W[w].stage = "ready"
       \/ W[w].stage = worker[w].stage /\ W[w].exec = worker[w].exec
    /\ \/ S = slots /\ W[w].thread = worker[w].thread /\ W[w].runs < RecycleAfter
       \/ S = slots \ {w} /\ W[w].thread \notin {"up", "none"}
    /\ \/ worker[w].active = None /\ A = answer
       \/ /\ worker[w].active # None
          /\ \E told \in {"result", "timeout", "lost"} :
               /\ A = Answered(worker[w].active, told)
               /\ told = "result" => worker[w].active \in ran

LEMMA SlotsAreFinite ==
    ASSUME NEW S, S \subseteq Jobs
    PROVE  /\ IsFiniteSet(S) /\ Cardinality(S) \in Nat
           /\ \A w : Cardinality(S \ {w}) = IF w \in S THEN Cardinality(S) - 1 ELSE Cardinality(S)
           /\ \A w : Cardinality(S \cup {w}) = IF w \in S THEN Cardinality(S) ELSE Cardinality(S) + 1
<1>1. IsFiniteSet(S)
  BY JobsAssumption, FS_Subset
<1>2. Cardinality(S) \in Nat
  BY <1>1, FS_CardinalityType
<1>3. \A w : Cardinality(S \ {w}) = IF w \in S THEN Cardinality(S) - 1 ELSE Cardinality(S)
  BY <1>1, FS_RemoveElement
<1>4. \A w : Cardinality(S \cup {w}) = IF w \in S THEN Cardinality(S) ELSE Cardinality(S) + 1
  BY <1>1, FS_AddElement
<1> QED
  BY <1>1, <1>2, <1>3, <1>4

\* Freeing a slot keeps the parts, and leaves one place for the queue.
LEMMA FreeingIsSound ==
    ASSUME PoolInv, NEW w, NEW S, NEW W, NEW A, Frees(w, S, W, A)
    PROVE  Sound(queue, S, W, A) /\ OneVacancy(queue, S, W)
<1> DEFINE job == worker[w].active
<1> USE JobsAssumption, SizeAssumption
<1>1. /\ w \in slots /\ slots \subseteq Jobs /\ S \subseteq slots /\ slots \ {w} \subseteq S
      /\ W \in [Jobs -> Workers] /\ worker \in [Jobs -> Workers]
      /\ answer \in [Jobs -> Answers \cup {None}]
      /\ submitted \subseteq Jobs /\ queue \in Seq(Jobs)
      /\ \A v \in Jobs \ {w} : W[v] = worker[v]
      /\ W[w].active = None
  BY DEF Frees, PoolInv, Sound, TypeOK
<1>2. /\ A \in [Jobs -> Answers \cup {None}]
      /\ job # None => A[job] \in {"result", "timeout", "lost"} /\ job \in submitted \ QueuedIn(queue)
      /\ A[job] = "result" /\ job # None => job \in ran
      /\ \A j \in Jobs : j # job => A[j] = answer[j]
  <2>1. job # None => job \in submitted \ QueuedIn(queue)
    BY <1>1 DEF PoolInv, Sound, ActiveRuns
  <2>2. CASE job = None
    BY <1>1, <2>2 DEF Frees
  <2>3. CASE job # None
    <3>1. PICK told \in {"result", "timeout", "lost"} :
             /\ A = [answer EXCEPT ![job] = told]
             /\ told = "result" => job \in ran
      BY <2>3 DEF Frees, Answered
    <3>2. job \in Jobs /\ told \in Answers
      BY <1>1, <2>1, <2>3 DEF Answers
    <3> HIDE DEF job
    <3> QED
      BY <1>1, <2>1, <2>3, <3>1, <3>2
  <2> QED
    BY <2>2, <2>3
<1>3. \A k \in DOMAIN queue : queue[k] \in Jobs /\ queue[k] # w /\ queue[k] # job
  <2>1. \A k \in DOMAIN queue : queue[k] \in Jobs /\ worker[queue[k]].thread = "none"
    BY <1>1 DEF PoolInv, Sound, QueuedWait, NoWorker
  <2>2. worker[w].thread \in {"up", "lost"}
    BY <1>1 DEF PoolInv, Sound, SlotsServe
  <2> QED
    BY <1>1, <1>2, <2>1, <2>2 DEF QueuedIn
<1>4. Cardinality(S) <= MaxWorkers
  BY <1>1, SlotsAreFinite DEF Frees, PoolInv, Sound
<1>5. SlotsServe(S, W)
  BY <1>1 DEF Frees, PoolInv, Sound, SlotsServe
<1>6. ActiveRuns(queue, S, W, A)
  <2> SUFFICES ASSUME NEW v \in S, W[v].active # None
               PROVE  /\ W[v].active \in submitted \ QueuedIn(queue)
                      /\ A[W[v].active] = None
                      /\ W[v].exec = W[v].active /\ W[v].stage # "ready"
                      /\ W[v].due = enqueuedAt[W[v].active] + Budget[W[v].active] + Grace
                      /\ now <= W[v].due
                      /\ \A u \in S : W[u].active = W[v].active => u = v
    BY DEF ActiveRuns
  <2>1. v # w /\ W[v] = worker[v] /\ v \in slots
    BY <1>1
  <2>2. worker[v].active # job
    BY <1>1, <2>1 DEF PoolInv, Sound, ActiveRuns
  <2> QED
    BY <1>1, <1>2, <2>1, <2>2 DEF PoolInv, Sound, ActiveRuns
<1>7. QueuedWait(queue, W, A)
  BY <1>1, <1>2, <1>3 DEF PoolInv, Sound, QueuedWait
<1>8. NewUnknown(W, A)
  <2>1. w \in submitted
    BY <1>1 DEF PoolInv, Sound, NewUnknown, SlotsServe, NoWorker
  <2> QED
    BY <1>1, <1>2, <2>1 DEF PoolInv, Sound, NewUnknown
<1>9. ThreadsRun(queue, W, A)
  <2> SUFFICES ASSUME NEW v \in Jobs, W[v].stage # "ready"
               PROVE  /\ W[v].exec \in submitted \ QueuedIn(queue)
                      /\ A[W[v].exec] # "queue_timeout"
                      /\ W[v].stage \in Started => W[v].exec \in ran
    BY DEF ThreadsRun
  <2>1. W[v].stage = worker[v].stage /\ W[v].exec = worker[v].exec
    BY <1>1 DEF Frees
  <2> QED
    BY <1>1, <1>2, <2>1 DEF PoolInv, Sound, ThreadsRun
<1>10. RanWasTaken(queue, A)
  BY <1>1, <1>2 DEF PoolInv, Sound, RanWasTaken
<1>11. Pending(queue, S, W, A)
  <2> SUFFICES ASSUME NEW j \in submitted, A[j] = None, j \notin QueuedIn(queue)
               PROVE  j \in RunningIn(S, W)
    BY DEF Pending
  <2>1. j # job /\ answer[j] = None
    BY <1>1, <1>2 DEF Answers
  <2>2. PICK v \in slots : worker[v].active = j
    BY <2>1 DEF PoolInv, Sound, Pending, RunningIn
  <2>3. v # w /\ v \in S /\ W[v].active = j
    BY <1>1, <2>1, <2>2
  <2> QED
    BY <2>3, <1>1 DEF RunningIn
<1>12. OneVacancy(queue, S, W)
  <2> SUFFICES ASSUME queue # <<>>
               PROVE  \/ Cardinality(S) = MaxWorkers /\ IdleIn(S, W) = {w}
                      \/ Cardinality(S) + 1 = MaxWorkers /\ IdleIn(S, W) = {}
    BY DEF OneVacancy, IdleIn
  <2>1. Cardinality(slots) = MaxWorkers /\ \A v \in slots : worker[v].active # None
    BY DEF PoolInv, Full, IdleIn
  <2>2. CASE S = slots
    BY <1>1, <2>1, <2>2 DEF IdleIn
  <2>3. CASE S = slots \ {w}
    <3>1. Cardinality(slots) \in Nat /\ Cardinality(S) = Cardinality(slots) - 1
      BY <1>1, <2>3, SlotsAreFinite
    <3>2. \A v \in S : W[v].active # None
      BY <1>1, <2>1, <2>3
    <3> QED
      BY <2>1, <3>1, <3>2 DEF IdleIn
  <2> QED
    BY <2>2, <2>3 DEF Frees
<1> QED
  BY <1>1, <1>2, <1>4, <1>5, <1>6, <1>7, <1>8, <1>9, <1>10, <1>11, <1>12 DEF Sound

\* One vacancy is a place for who waits.
LEMMA VacancyIsAPlace ==
    ASSUME NEW S, NEW W, NEW A, Sound(queue, S, W, A), OneVacancy(queue, S, W),
           queue # <<>>
    PROVE  PlaceIn(S, W) # {}
<1>1. CASE \E w \in S : IdleIn(S, W) = {w}
  BY <1>1 DEF PlaceIn
<1>2. CASE Cardinality(S) + 1 = MaxWorkers /\ IdleIn(S, W) = {}
  <2>1. Cardinality(S) < MaxWorkers
    BY <1>2, SlotsAreFinite, SizeAssumption DEF Sound
  <2>2. PlaceIn(S, W) = {Head(queue)}
    BY <1>2, <2>1 DEF PlaceIn, RoomIn
  <2> QED
    BY <2>2
<1> QED
  BY <1>1, <1>2 DEF OneVacancy

\* Pumping from sound parts with one vacancy leads to sound parts without any.
LEMMA PumpIsSound ==
    ASSUME NEW S, NEW W, NEW A, Sound(queue, S, W, A), OneVacancy(queue, S, W),
           now \in 0 .. MaxTime, enqueuedAt \in [Jobs -> 0 .. MaxTime], submitted \subseteq Jobs,
           UNCHANGED <<now, submitted, enqueuedAt, ran>>, Pump(S, W, A)
    PROVE  Sound(queue, slots, worker, answer)' /\ Full(queue, slots, worker)'
<1> USE JobsAssumption, SizeAssumption, TimeAssumption
<1>0. /\ queue \in Seq(Jobs) /\ S \subseteq Jobs /\ W \in [Jobs -> Workers]
      /\ A \in [Jobs -> Answers \cup {None}]
      /\ \A k \in DOMAIN queue : queue[k] \in Jobs
  BY DEF Sound
<1>1. ASSUME queue # <<>>, PlaceIn(S, W) = {}
      PROVE  FALSE
  BY <1>1, VacancyIsAPlace
<1>2. CASE /\ queue # <<>> => PlaceIn(S, W) = {}
           /\ slots' = S /\ worker' = W /\ answer' = A /\ queue' = queue
  <2>1. queue' = <<>>
    BY <1>1, <1>2
  <2> QED
    BY <1>2, <2>1 DEF Sound, Full, SlotsServe, ActiveRuns, QueuedWait, NewUnknown,
                      ThreadsRun, RanWasTaken, Pending, IdleIn
<1>3. ASSUME queue # <<>>, NEW w \in PlaceIn(S, W), NEW n \in 0 .. Len(queue),
             Stale(n), slots' = S \cup {w},
             queue' = SubSeq(queue, n + 2, Len(queue)),
             answer' = [j \in Jobs |-> IF \E k \in 1 .. n : queue[k] = j
                                         THEN "queue_timeout" ELSE A[j]],
             NEW U, U = IF w \in S THEN W ELSE Spawned(W, w),
             worker' = IF n = Len(queue) THEN U
                       ELSE Sent(U, w, queue[n + 1], enqueuedAt[queue[n + 1]])
      PROVE  Sound(queue, slots, worker, answer)' /\ Full(queue, slots, worker)'
  <2> DEFINE next == queue[n + 1]
             Shifted == {queue[k] : k \in 1 .. n}
  \* The queue: what has been shifted is not in it any more.
  <2>1. /\ queue' \in Seq(Jobs)
        /\ \A k \in DOMAIN queue' : k + n + 1 \in DOMAIN queue /\ queue'[k] = queue[k + n + 1]
        /\ \A m \in DOMAIN queue : m > n + 1 => m - n - 1 \in DOMAIN queue'
                                                /\ queue'[m - n - 1] = queue[m]
    <3> DEFINE r == SubSeq(queue, n + 2, Len(queue))
    <3>1. n \in 0 .. Len(queue) /\ queue \in Seq(Jobs) /\ queue' = r
      BY <1>0, <1>3
    <3>2. /\ r \in Seq(Jobs)
          /\ \A k \in DOMAIN r : k + n + 1 \in DOMAIN queue /\ r[k] = queue[k + n + 1]
          /\ \A m \in DOMAIN queue :
               m > n + 1 => m - n - 1 \in DOMAIN r /\ r[m - n - 1] = queue[m]
      BY ONLY <3>1, DropFront
    <3> HIDE DEF r
    <3> QED
      BY ONLY <3>1, <3>2
  <2>2. /\ QueuedIn(queue') \subseteq QueuedIn(queue)
        /\ \A m \in DOMAIN queue : m <= n + 1 => queue[m] \notin QueuedIn(queue')
        /\ \A m \in DOMAIN queue : m > n + 1 => queue[m] \in QueuedIn(queue')
    <3>1. QueuedIn(queue') \subseteq QueuedIn(queue)
      BY <2>1 DEF QueuedIn
    <3>2. ASSUME NEW m \in DOMAIN queue, m <= n + 1, NEW k \in DOMAIN queue', queue'[k] = queue[m]
          PROVE  FALSE
      <4>1. k + n + 1 \in DOMAIN queue /\ queue[k + n + 1] = queue[m] /\ k >= 1 /\ k \in Nat
        BY <2>1, <3>2
      <4>2. k + n + 1 = m
        BY <4>1 DEF Sound, QueuedWait
      <4> QED
        BY <1>0, <3>2, <4>1, <4>2
    <3>3. \A m \in DOMAIN queue : m > n + 1 => queue[m] \in QueuedIn(queue')
      BY <2>1 DEF QueuedIn
    <3> QED
      BY <3>1, <3>2, <3>3 DEF QueuedIn
  \* The place: the one idle slot, or a new one named by the head of the queue.
  <2>3. \/ w \in S /\ W[w].active = None /\ Cardinality(S) = MaxWorkers /\ IdleIn(S, W) = {w}
        \/ /\ w \notin S /\ w = queue[1] /\ W[w] = NoWorker
           /\ Cardinality(S) + 1 = MaxWorkers /\ IdleIn(S, W) = {}
    <3>1. CASE \E v \in S : IdleIn(S, W) = {v}
      <4>1. IdleIn(S, W) = {w}
        BY <1>3, <3>1 DEF PlaceIn
      <4>2. Cardinality(S) = MaxWorkers
        BY <1>3, <3>1 DEF OneVacancy
      <4> QED
        BY <4>1, <4>2 DEF IdleIn
    <3>2. CASE IdleIn(S, W) = {}
      <4>1. Cardinality(S) + 1 = MaxWorkers
        BY <1>3, <3>2 DEF OneVacancy
      <4>2. w = Head(queue)
        BY <1>3, <3>2 DEF PlaceIn
      <4>3. w = queue[1] /\ 1 \in DOMAIN queue
        BY <1>0, <1>3, <4>2
      <4>4. W[w] = NoWorker
        BY <4>3 DEF Sound, QueuedWait
      <4>5. w \notin S
        BY <1>0, <4>4 DEF Sound, SlotsServe, NoWorker
      <4> QED
        BY <3>2, <4>1, <4>3, <4>4, <4>5
    <3> QED
      BY <1>3, <3>1, <3>2 DEF OneVacancy
  <2>4. /\ w \in Jobs /\ w \in submitted
        /\ U \in [Jobs -> Workers] /\ \A v \in Jobs \ {w} : U[v] = W[v]
        /\ U[w].thread \in {"up", "lost"} /\ U[w].runs < RecycleAfter /\ U[w].active = None
        /\ U[w].stage = W[w].stage /\ U[w].exec = W[w].exec
    <3>1. CASE w \in S
      BY <1>0, <1>3, <2>3, <3>1 DEF Sound, SlotsServe, NewUnknown, NoWorker
    <3>2. CASE w \notin S
      <4>1. 1 \in DOMAIN queue /\ w = queue[1]
        BY <1>0, <1>3, <2>3, <3>2
      <4>2. w \in submitted /\ w \in Jobs
        BY <1>0, <4>1 DEF Sound, QueuedWait
      <4>3. U = [W EXCEPT ![w].thread = "up"]
        BY <1>3, <3>2 DEF Spawned
      <4> QED
        <5>1. U[w] = [NoWorker EXCEPT !.thread = "up"] /\ \A v \in Jobs \ {w} : U[v] = W[v]
          BY <1>0, <2>3, <3>2, <4>2, <4>3
        <5>2. U[w] \in Workers
          BY <5>1 DEF NoWorker, Workers, Threads, Stages
        <5>3. U \in [Jobs -> Workers]
          BY <1>0, <4>2, <4>3, <5>1, <5>2
        <5> QED
          BY <2>3, <3>2, <4>2, <5>1, <5>3 DEF NoWorker
    <3> QED
      BY <3>1, <3>2
  \* The next job: it is told nothing yet and gets the time it has left.
  <2>5. ASSUME n < Len(queue)
        PROVE  /\ n + 1 \in DOMAIN queue /\ next \in Jobs /\ next \in submitted
               /\ next \notin QueuedIn(queue') /\ next \in QueuedIn(queue) /\ next \notin Shifted
               /\ DueAt(next, enqueuedAt[next]) = enqueuedAt[next] + Budget[next] + Grace
               /\ now <= enqueuedAt[next] + Budget[next] + Grace
               /\ DueAt(next, enqueuedAt[next]) \in Nat
               /\ worker' = [U EXCEPT ![w].active = next, ![w].due = DueAt(next, enqueuedAt[next]),
                                      ![w].exec = next, ![w].stage = "sent"]
    <3>1. n + 1 \in DOMAIN queue /\ next \in Jobs
      BY <1>0, <2>5
    <3>2. /\ next \in submitted /\ enqueuedAt[next] <= now
          /\ now <= enqueuedAt[next] + Budget[next]
          /\ \A l \in DOMAIN queue : queue[l] = next => l = n + 1
      BY <3>1 DEF Sound, QueuedWait
    <3>3. now - enqueuedAt[next] < Budget[next]
      BY <1>3, <2>5, <3>1, BudgetAssumption DEF Stale, Exhausted
    <3>4. DueAt(next, enqueuedAt[next]) = enqueuedAt[next] + Budget[next] + Grace
      BY <3>1, <3>2, <3>3, BudgetAssumption DEF DueAt
    <3>5. next \notin Shifted
      BY <1>0, <3>2
    <3>6. next \notin QueuedIn(queue') /\ next \in QueuedIn(queue)
      BY <2>2, <3>1 DEF QueuedIn
    <3>7. worker' = [U EXCEPT ![w].active = next, ![w].due = DueAt(next, enqueuedAt[next]),
                              ![w].exec = next, ![w].stage = "sent"]
      <4>1. n # Len(queue)
        BY <1>0, <2>5
      <4> QED
        BY <1>3, <4>1 DEF Sent, next
    <3> QED
      BY <3>1, <3>2, <3>4, <3>5, <3>6, <3>7, BudgetAssumption
  <2>6. /\ worker' \in [Jobs -> Workers] /\ \A v \in Jobs \ {w} : worker'[v] = W[v]
        /\ worker'[w].thread \in {"up", "lost"} /\ worker'[w].runs < RecycleAfter
        /\ n = Len(queue) => worker'[w] = U[w]
        /\ n < Len(queue) => /\ worker'[w].active = next /\ worker'[w].exec = next
                             /\ worker'[w].stage = "sent"
                             /\ worker'[w].due = enqueuedAt[next] + Budget[next] + Grace
    <3>1. CASE n = Len(queue)
      BY <1>3, <2>4, <3>1
    <3>2. CASE n < Len(queue)
      <4> DEFINE rec == [U[w] EXCEPT !.active = next, !.due = DueAt(next, enqueuedAt[next]),
                                     !.exec = next, !.stage = "sent"]
      <4>1. worker' = [U EXCEPT ![w] = rec]
        BY <2>5, <3>2
      <4>2. U[w] \in Workers
        BY <2>4
      <4>3. rec \in Workers /\ rec.thread = U[w].thread /\ rec.runs = U[w].runs
            /\ rec.active = next /\ rec.exec = next /\ rec.stage = "sent"
            /\ rec.due = DueAt(next, enqueuedAt[next])
        BY <2>5, <3>2, <4>2 DEF Workers, Stages
      <4> HIDE DEF rec
      <4> QED
        BY <2>4, <2>5, <3>2, <4>1, <4>3
    <3> QED
      BY <1>0, <3>1, <3>2
  <2>7. /\ answer' \in [Jobs -> Answers \cup {None}]
        /\ \A j \in Jobs \ Shifted : answer'[j] = A[j]
        /\ \A j \in Shifted : answer'[j] = "queue_timeout" /\ j \in QueuedIn(queue)
    <3>1. Shifted \subseteq QueuedIn(queue)
      BY <1>0 DEF QueuedIn
    <3> QED
      BY <1>0, <1>3, <3>1 DEF Answers
  <2> HIDE DEF next
  <2>8. Shifted \cap QueuedIn(queue') = {} /\ next \notin QueuedIn(queue')
    <3>1. \A k \in 1 .. n : k \in DOMAIN queue /\ k <= n + 1
      BY <1>0
    <3>2. CASE n < Len(queue)
      BY <2>2, <2>5, <3>1, <3>2
    <3>3. CASE n = Len(queue)
      <4>1. ASSUME NEW k \in DOMAIN queue'
            PROVE  FALSE
        <5>1. k \in Nat /\ k >= 1 /\ k + n + 1 \in 1 .. Len(queue)
          BY <1>0, <2>1
        <5> QED
          BY <3>3, <5>1
      <4> QED
        BY <4>1 DEF QueuedIn
    <3> QED
      BY <1>0, <3>2, <3>3
  <2> HIDE DEF Shifted
  <2>9. \A v \in S : v # w => W[v].active # None
    BY <1>0, <2>3 DEF IdleIn
  <2>10. slots' \subseteq Jobs /\ Cardinality(slots') = MaxWorkers
    <3>1. slots' = S \cup {w} /\ slots' \subseteq Jobs
      BY <1>0, <1>3, <2>4
    <3>2. Cardinality(S \cup {w}) = IF w \in S THEN Cardinality(S) ELSE Cardinality(S) + 1
      BY <1>0, SlotsAreFinite
    <3> QED
      BY <2>3, <3>1, <3>2
  <2>11. SlotsServe(slots', worker')
    <3> SUFFICES ASSUME NEW v \in Jobs
                 PROVE  IF v \in slots'
                        THEN worker'[v].thread \in {"up", "lost"} /\ worker'[v].runs < RecycleAfter
                        ELSE worker'[v].thread # "up" /\ worker'[v].active = None
      BY DEF SlotsServe
    <3>1. CASE v = w
      BY <1>3, <2>6, <3>1
    <3>2. CASE v # w
      <4>1. worker'[v] = W[v] /\ (v \in slots' <=> v \in S)
        BY <1>3, <2>6, <3>2
      <4> QED
        BY <4>1 DEF Sound, SlotsServe
    <3> QED
      BY <3>1, <3>2
  <2>12. ActiveRuns(queue, slots, worker, answer)'
    <3>1. ASSUME NEW v \in S, v # w
          PROVE  /\ W[v].active \in submitted \ QueuedIn(queue)
                 /\ W[v].active \notin Shifted
                 /\ A[W[v].active] = None
                 /\ W[v].exec = W[v].active /\ W[v].stage # "ready"
                 /\ W[v].due = enqueuedAt[W[v].active] + Budget[W[v].active] + Grace
                 /\ now <= W[v].due
                 /\ \A u \in S : W[u].active = W[v].active => u = v
      BY <2>7, <2>9, <3>1 DEF Sound, ActiveRuns
    <3>2. ASSUME n < Len(queue), NEW v \in S, v # w
          PROVE  W[v].active # next
      BY <2>5, <3>1, <3>2
    <3>3. n < Len(queue) => answer'[next] = None
      <4>1. \A k \in DOMAIN queue : A[queue[k]] = None
        BY DEF Sound, QueuedWait
      <4> QED
        BY <2>5, <2>7, <4>1 DEF next
    <3>4. ASSUME NEW v \in slots', worker'[v].active # None
          PROVE  /\ worker'[v].active \in submitted \ QueuedIn(queue')
                 /\ answer'[worker'[v].active] = None
                 /\ worker'[v].exec = worker'[v].active /\ worker'[v].stage # "ready"
                 /\ worker'[v].due = enqueuedAt[worker'[v].active] + Budget[worker'[v].active] + Grace
                 /\ now <= worker'[v].due
                 /\ \A u \in slots' : worker'[u].active = worker'[v].active => u = v
      <4>1. CASE v = w
        <5>1. n < Len(queue)
          BY <1>0, <2>4, <2>6, <3>4, <4>1
        <5> QED
          <6>1. \A u \in slots' : u # w => worker'[u].active # next
            BY <1>0, <1>3, <2>6, <3>2, <5>1
          <6> QED
            BY <2>5, <2>6, <3>3, <4>1, <5>1, <6>1
      <4>2. CASE v # w
        <5>1. v \in S /\ worker'[v] = W[v]
          BY <1>0, <1>3, <2>6, <4>2
        <5>2. ASSUME NEW u \in slots', worker'[u].active = worker'[v].active
              PROVE  u = v
          <6>1. CASE u = w /\ n < Len(queue)
            <7>1. worker'[w].active = next /\ W[v].active # next
              BY ONLY <2>6, <3>2, <4>2, <5>1, <6>1
            <7> QED
              BY ONLY <5>1, <5>2, <6>1, <7>1
          <6>2. CASE u = w /\ n = Len(queue)
            <7>1. worker'[w].active = None
              BY ONLY <2>4, <2>6, <6>2
            <7> QED
              BY ONLY <3>4, <5>2, <6>2, <7>1
          <6>3. CASE u # w
            <7>1. u \in S /\ worker'[u] = W[u]
              BY ONLY <1>0, <1>3, <2>6, <6>3, u \in slots'
            <7> QED
              BY ONLY <3>1, <4>2, <5>1, <5>2, <7>1
          <6> QED
            BY <1>0, <6>1, <6>2, <6>3
        <5>3. /\ W[v].active \in submitted \ QueuedIn(queue)
              /\ W[v].active \notin Shifted /\ A[W[v].active] = None
              /\ W[v].exec = W[v].active /\ W[v].stage # "ready"
              /\ W[v].due = enqueuedAt[W[v].active] + Budget[W[v].active] + Grace
              /\ now <= W[v].due
          BY ONLY <3>1, <4>2, <5>1
        <5>4. answer'[W[v].active] = None
          BY <2>7, <5>3
        <5>5. W[v].active \notin QueuedIn(queue')
          BY <2>2, <5>3
        <5> QED
          BY ONLY <5>1, <5>2, <5>3, <5>4, <5>5
      <4> QED
        BY <4>1, <4>2
    <3> QED
      BY <3>4 DEF ActiveRuns, QueuedIn
  <2>13. QueuedWait(queue, worker, answer)'
    <3> SUFFICES ASSUME NEW k \in DOMAIN queue'
                 PROVE  /\ queue'[k] \in submitted
                        /\ answer'[queue'[k]] = None
                        /\ worker'[queue'[k]] = NoWorker
                        /\ enqueuedAt[queue'[k]] <= now
                        /\ now <= enqueuedAt[queue'[k]] + Budget[queue'[k]]
                        /\ \A l \in DOMAIN queue' : queue'[l] = queue'[k] => l = k
      BY DEF QueuedWait
    <3>1. k + n + 1 \in DOMAIN queue /\ queue'[k] = queue[k + n + 1] /\ k \in Nat /\ k >= 1
      BY <2>1
    <3>2. /\ queue'[k] \in submitted /\ A[queue'[k]] = None /\ W[queue'[k]] = NoWorker
          /\ enqueuedAt[queue'[k]] <= now
          /\ now <= enqueuedAt[queue'[k]] + Budget[queue'[k]]
          /\ \A l \in DOMAIN queue : queue[l] = queue'[k] => l = k + n + 1
      BY <3>1 DEF Sound, QueuedWait
    <3>3. queue'[k] # w
      <4>1. CASE w \in S
        BY <1>0, <3>2, <4>1 DEF Sound, SlotsServe, NoWorker
      <4>2. CASE w \notin S
        <5>1. w = queue[1] /\ 1 \in DOMAIN queue
          BY <1>0, <1>3, <2>3, <4>2
        <5> QED
          BY <3>1, <3>2, <5>1
      <4> QED
        BY <4>1, <4>2
    <3>4. queue'[k] \in Jobs /\ queue'[k] \notin Shifted
      BY <1>0, <2>8, <3>1 DEF QueuedIn
    <3>5. \A l \in DOMAIN queue' : queue'[l] = queue'[k] => l = k
      BY <2>1, <3>1, <3>2
    <3> QED
      BY <2>6, <2>7, <3>2, <3>3, <3>4, <3>5
  <2>14. NewUnknown(worker, answer)'
    <3>1. Shifted \subseteq submitted
      BY <2>7 DEF Sound, QueuedWait, QueuedIn
    <3> QED
      BY <2>4, <2>6, <2>7, <3>1 DEF Sound, NewUnknown
  <2>15. ThreadsRun(queue, worker, answer)'
    <3>1. ASSUME NEW v \in Jobs, W[v].stage # "ready"
          PROVE  /\ W[v].exec \in submitted \ QueuedIn(queue')
                 /\ answer'[W[v].exec] # "queue_timeout"
                 /\ W[v].stage \in Started => W[v].exec \in ran
      BY <1>0, <2>2, <2>7, <3>1 DEF Sound, ThreadsRun
    <3>2. CASE n = Len(queue)
      BY <1>0, <2>4, <2>6, <3>1, <3>2 DEF ThreadsRun, QueuedIn
    <3>3. CASE n < Len(queue)
      <4>1. /\ next \in submitted \ QueuedIn(queue')
            /\ answer'[next] # "queue_timeout" /\ "sent" \notin Started
        <5>1. \A k \in DOMAIN queue : A[queue[k]] = None
          BY DEF Sound, QueuedWait
        <5> QED
          BY <2>5, <2>7, <3>3, <5>1 DEF next, Started, Answers
      <4> QED
        BY <2>4, <2>6, <3>1, <3>3, <4>1 DEF ThreadsRun, QueuedIn
    <3> QED
      BY <1>0, <3>2, <3>3
  <2>16. RanWasTaken(queue, answer)'
    <3>1. \A j \in ran : j \in submitted \ QueuedIn(queue') /\ answer'[j] # "queue_timeout"
      BY <2>2, <2>7 DEF Sound, RanWasTaken
    <3>2. \A j \in Jobs : answer'[j] = "result" => j \in ran
      BY <2>7 DEF Sound, RanWasTaken
    <3> QED
      BY <3>1, <3>2 DEF RanWasTaken, QueuedIn
  <2>17. Pending(queue, slots, worker, answer)'
    <3> SUFFICES ASSUME NEW j \in submitted, answer'[j] = None, j \notin QueuedIn(queue')
                 PROVE  j \in RunningIn(slots', worker')
      BY DEF Pending, QueuedIn, RunningIn
    <3>1. j \notin Shifted /\ A[j] = None
      BY <2>7 DEF Answers
    <3>2. CASE j \in QueuedIn(queue)
      <4>1. PICK m \in DOMAIN queue : queue[m] = j
        BY <3>2 DEF QueuedIn
      <4>2. m = n + 1 /\ n < Len(queue) /\ j = next
        BY <1>0, <2>2, <3>1, <4>1 DEF Shifted, next
      <4> QED
        BY <1>3, <2>4, <2>6, <4>2 DEF RunningIn
    <3>3. CASE j \notin QueuedIn(queue)
      <4>1. PICK v \in S : W[v].active = j
        BY <3>1, <3>3 DEF Sound, Pending, RunningIn
      <4>2. v # w
        BY <1>0, <2>3, <4>1
      <4> QED
        BY <1>0, <1>3, <2>6, <4>1, <4>2 DEF RunningIn
    <3> QED
      BY <3>2, <3>3
  <2>18. Full(queue, slots, worker)'
    <3> SUFFICES ASSUME queue' # <<>>
                 PROVE  Cardinality(slots') = MaxWorkers /\ IdleIn(slots', worker') = {}
      BY DEF Full, IdleIn
    <3>1. n < Len(queue)
      BY <1>0, <2>1
    <3>2. next # None
      BY <2>5, <3>1
    <3> QED
      <4>1. ASSUME NEW u \in slots' PROVE worker'[u].active # None
        <5>1. CASE u = w
          BY <2>6, <3>1, <3>2, <5>1
        <5>2. CASE u # w
          <6>1. u \in S /\ u \in Jobs
            BY <1>0, <1>3, <5>2
          <6> QED
            BY <2>6, <2>9, <5>2, <6>1
        <5> QED
          BY <5>1, <5>2
      <4> QED
        BY <2>10, <4>1 DEF IdleIn
  <2> QED
    BY <2>1, <2>6, <2>7, <2>10, <2>11, <2>12, <2>13, <2>14, <2>15, <2>16, <2>17, <2>18,
       Cardinality(slots') <= MaxWorkers
    DEF Sound, SlotsServe
<1> QED
  BY <1>2, <1>3 DEF Pump

-----------------------------------------------------------------------------
(* Each operation preserves the invariant *)

\* What the steps of a thread, and of the main thread while a run goes on, have
\* in common: they move a stage on, or let a thread die.
Moves(W) ==
    /\ W \in [Jobs -> Workers]
    /\ \A w \in Jobs :
         /\ W[w].active = worker[w].active /\ W[w].due = worker[w].due
         /\ W[w].runs = worker[w].runs /\ W[w].exec = worker[w].exec
         /\ \/ W[w].stage = worker[w].stage
            \/ worker[w].stage # "ready" /\ W[w].stage \in Started /\ worker[w].exec \in ran'
         /\ \/ W[w].thread = worker[w].thread
            \/ worker[w].thread \in {"up", "dying"} /\ W[w].thread = "lost"
         /\ worker[w] = NoWorker => W[w] = NoWorker

LEMMA MoveInv ==
    ASSUME PoolInv, Moves(worker'), UNCHANGED <<now, closed, queue, slots, submitted, enqueuedAt, answer>>,
           ran \subseteq ran', serving' \subseteq ran',
           \A j \in ran' : j \in ran \/ \E w \in Jobs : worker[w].stage # "ready" /\ worker[w].exec = j
    PROVE  PoolInv'
<1>1. /\ worker' \in [Jobs -> Workers] /\ worker \in [Jobs -> Workers]
      /\ submitted \subseteq Jobs /\ slots \subseteq Jobs
      /\ \A k \in DOMAIN queue : queue[k] \in Jobs
  BY DEF Moves, PoolInv, TypeOK
<1>2. \A j \in ran' : j \in submitted \ QueuedIn(queue) /\ answer[j] # "queue_timeout"
  BY <1>1 DEF PoolInv, Sound, RanWasTaken, ThreadsRun
<1>3. TypeOK'
  BY <1>1, <1>2 DEF PoolInv, TypeOK
<1>4. SlotsServe(slots, worker)'
  BY <1>1 DEF PoolInv, Sound, SlotsServe, Moves
<1>5. ActiveRuns(queue, slots, worker, answer)'
  BY <1>1 DEF PoolInv, Sound, ActiveRuns, Moves, Started, QueuedIn
<1>6. QueuedWait(queue, worker, answer)'
  BY <1>1 DEF PoolInv, Sound, QueuedWait, Moves
<1>7. NewUnknown(worker, answer)'
  BY <1>1 DEF PoolInv, Sound, NewUnknown, Moves
<1>8. ThreadsRun(queue, worker, answer)'
  <2> SUFFICES ASSUME NEW w \in Jobs, worker'[w].stage # "ready"
               PROVE  /\ worker[w].exec \in submitted \ QueuedIn(queue)
                      /\ answer[worker[w].exec] # "queue_timeout"
                      /\ worker'[w].stage \in Started => worker[w].exec \in ran'
    BY <1>1 DEF ThreadsRun, QueuedIn, Moves
  <2>1. worker[w].stage # "ready"
    BY DEF Moves
  <2> QED
    BY <1>1, <2>1 DEF PoolInv, Sound, ThreadsRun, Moves
<1>9. RanWasTaken(queue, answer)'
  BY <1>1, <1>2 DEF PoolInv, Sound, RanWasTaken, QueuedIn
<1>10. Pending(queue, slots, worker, answer)'
  BY <1>1 DEF PoolInv, Sound, Pending, QueuedIn, RunningIn, Moves
<1>11. Full(queue, slots, worker)'
  BY <1>1 DEF PoolInv, Full, IdleIn, Moves
<1> QED
  BY <1>3, <1>4, <1>5, <1>6, <1>7, <1>8, <1>9, <1>10, <1>11 DEF PoolInv, Sound, TypeOK

\* A thread runs its job, dies, asks the host for something or gets its answer.
LEMMA ThreadInv ==
    ASSUME PoolInv, NEW w \in Jobs,
           \/ TakeRun(w) \/ PostCall(w) \/ TakeReply(w) \/ PostResult(w)
           \/ Exit(w) \/ OnHostCall(w) \/ Respond(w)
    PROVE  PoolInv'
<1>0. /\ worker \in [Jobs -> Workers] /\ submitted \subseteq Jobs /\ serving \subseteq ran
      /\ worker[w] \in Workers
  BY DEF PoolInv, TypeOK
<1>1. ASSUME worker[w].stage \in Started, NEW to \in Started,
             worker' = [worker EXCEPT ![w].stage = to], ran \subseteq ran'
      PROVE  Moves(worker')
  <2>1. worker[w].exec \in ran
    BY <1>0, <1>1 DEF PoolInv, Sound, ThreadsRun, Started
  <2> QED
    BY <1>0, <1>1, <2>1 DEF Moves, Workers, Stages, Started, NoWorker
<1>2. CASE TakeRun(w)
  <2>1. worker[w].exec \in submitted
    BY <1>0, <1>2 DEF PoolInv, Sound, ThreadsRun, TakeRun, Advance
  <2>2. Moves(worker')
    BY <1>0, <1>2 DEF TakeRun, Advance, Moves, Workers, Stages, Started, NoWorker
  <2> QED
    BY <1>0, <1>2, <2>1, <2>2, MoveInv DEF TakeRun, Advance
<1>3. CASE PostCall(w) \/ TakeReply(w) \/ PostResult(w)
  <2>1. Moves(worker')
    BY <1>1, <1>3 DEF PostCall, TakeReply, PostResult, Advance, Started
  <2> QED
    BY <1>0, <1>3, <2>1, MoveInv DEF PostCall, TakeReply, PostResult, Advance
<1>4. CASE Exit(w)
  <2>1. Moves(worker')
    BY <1>0, <1>4 DEF Exit, Alive, Moves, Workers, Threads, NoWorker
  <2> QED
    BY <1>0, <1>4, <2>1, MoveInv DEF Exit
<1>5. CASE OnHostCall(w)
  <2>1. Moves(worker')
    BY <1>1, <1>5 DEF OnHostCall, Started
  <2>2. worker[w].exec \in ran
    BY <1>0, <1>5 DEF PoolInv, Sound, ThreadsRun, OnHostCall, Started
  <2> QED
    BY <1>0, <1>5, <2>1, <2>2, MoveInv DEF OnHostCall
<1>6. CASE Respond(w)
  <2>1. ASSUME NEW v \in slots, worker[v].active = w
        PROVE  worker[v].stage # "ready" /\ worker[v].exec \in ran
    BY <1>0, <1>6, <2>1, JobsAssumption DEF PoolInv, Sound, ActiveRuns, Respond
  <2>2. worker' = [v \in Jobs |-> IF v \in slots /\ worker[v].active = w
                                  THEN [worker[v] EXCEPT !.stage = "replied"] ELSE worker[v]]
    BY <1>6 DEF Respond
  <2>3. \A v \in Jobs : worker[v] \in Workers
    BY <1>0
  <2>4. Moves(worker')
    <3> SUFFICES ASSUME NEW v \in Jobs
                 PROVE  /\ worker'[v] \in Workers
                        /\ worker'[v].active = worker[v].active /\ worker'[v].due = worker[v].due
                        /\ worker'[v].runs = worker[v].runs /\ worker'[v].exec = worker[v].exec
                        /\ \/ worker'[v].stage = worker[v].stage
                           \/ worker[v].stage # "ready" /\ worker'[v].stage \in Started /\ worker[v].exec \in ran'
                        /\ worker'[v].thread = worker[v].thread
                        /\ worker[v] = NoWorker => worker'[v] = NoWorker
      BY <2>2 DEF Moves
    <3>1. CASE v \in slots /\ worker[v].active = w
      <4>1. worker'[v] = [worker[v] EXCEPT !.stage = "replied"]
        BY <2>2, <3>1
      <4>2. worker[v] # NoWorker /\ ran' = ran
        BY <1>6, <2>1, <3>1 DEF NoWorker, Respond
      <4> QED
        BY <2>1, <2>3, <3>1, <4>1, <4>2 DEF Workers, Stages, Started
    <3>2. CASE ~(v \in slots /\ worker[v].active = w)
      BY <2>2, <2>3, <3>2
    <3> QED
      BY <3>1, <3>2
  <2> QED
    BY <1>0, <1>6, <2>4, MoveInv DEF Respond
<1> QED
  BY <1>2, <1>3, <1>4, <1>5, <1>6

\* A run ends, by its result, its deadline or the death of its worker, and the
\* queue moves up.
LEMMA PumpInv ==
    ASSUME PoolInv, NEW w, NEW S, NEW W, NEW A, Frees(w, S, W, A), Pump(S, W, A),
           UNCHANGED <<now, closed, submitted, enqueuedAt, serving, ran>>
    PROVE  PoolInv'
<1>1. Sound(queue, S, W, A) /\ OneVacancy(queue, S, W)
  BY FreeingIsSound
<1>2. Sound(queue, slots, worker, answer)' /\ Full(queue, slots, worker)'
  BY <1>1, PumpIsSound DEF PoolInv, TypeOK
<1>3. TypeOK'
  BY <1>2 DEF PoolInv, Sound, TypeOK
<1> QED
  BY <1>2, <1>3 DEF PoolInv

\* However a run ends, or an idle worker dies in its slot, the step frees that
\* slot and pumps.
LEMMA EndFrees ==
    ASSUME PoolInv, NEW w \in Jobs,
           OnResult(w) \/ OnDeadline(w) \/ (OnWorkerLost(w) /\ w \in slots)
    PROVE  \E S, W, A : Frees(w, S, W, A) /\ Pump(S, W, A)
<1>0. /\ worker \in [Jobs -> Workers] /\ worker[w] \in Workers
      /\ worker[w].active # None => w \in slots
      /\ w \in slots => worker[w].thread \in {"up", "lost"} /\ worker[w].runs < RecycleAfter
      /\ slots \subseteq Jobs
  BY DEF PoolInv, TypeOK, Sound, SlotsServe
<1>1. CASE OnResult(w)
  <2> DEFINE runs == worker[w].runs + 1
             told == Answered(worker[w].active, "result")
             done == [Vacated(worker, w) EXCEPT ![w].runs = runs, ![w].stage = "ready"]
  <2>1. /\ worker[w].active # None /\ w \in slots
        /\ worker[w].active = worker[w].exec /\ worker[w].exec \in ran
    BY <1>0, <1>1 DEF OnResult, Heeds, PoolInv, Sound, ThreadsRun, Started
  <2>2. runs \in 0 .. RecycleAfter /\ (WornOut(runs) <=> ~(runs < RecycleAfter))
    BY <1>0, <2>1, SizeAssumption DEF Workers, WornOut
  <2>3. /\ done \in [Jobs -> Workers] /\ \A v \in Jobs \ {w} : done[v] = worker[v]
        /\ done[w].active = None /\ done[w].stage = "ready" /\ done[w].runs = runs
        /\ done[w].thread = worker[w].thread
    <3> DEFINE idle == [worker[w] EXCEPT !.active = None, !.due = 0, !.runs = runs, !.stage = "ready"]
    <3> HIDE DEF runs
    <3>1. /\ idle \in Workers
          /\ idle.active = None /\ idle.stage = "ready" /\ idle.runs = runs
          /\ idle.thread = worker[w].thread
      BY <1>0, <2>2 DEF Workers, Stages
    <3>2. done = [worker EXCEPT ![w] = idle]
      BY <1>0 DEF Vacated, Workers
    <3> HIDE DEF idle, done
    <3> QED
      BY <1>0, <3>1, <3>2
  <2>4. CASE WornOut(runs)
    <3>1. /\ Dropped(done, w) \in [Jobs -> Workers]
          /\ \A v \in Jobs \ {w} : Dropped(done, w)[v] = worker[v]
          /\ Dropped(done, w)[w].active = None /\ Dropped(done, w)[w].stage = "ready"
          /\ Dropped(done, w)[w].thread \in {"dying", "lost"}
      <4> DEFINE stopped == [done[w] EXCEPT !.active = None, !.due = 0,
                                !.thread = IF @ = "up" THEN "dying" ELSE @]
      <4> HIDE DEF runs, done
      <4>1. done[w] \in Workers /\ done[w].thread \in {"up", "lost"}
        BY <1>0, <2>1, <2>3
      <4>2. /\ stopped \in Workers /\ stopped.active = None
            /\ stopped.stage = "ready" /\ stopped.thread \in {"dying", "lost"}
        BY <2>3, <4>1 DEF Workers, Threads
      <4>3. Dropped(done, w) = [done EXCEPT ![w] = stopped]
        BY <2>3, <4>1 DEF Dropped, Vacated, Workers
      <4> HIDE DEF stopped
      <4> QED
        BY <2>3, <4>2, <4>3
    <3>2. Frees(w, slots \ {w}, Dropped(done, w), told)
      BY <2>1, <3>1 DEF Frees
    <3>3. Pump(slots \ {w}, Dropped(done, w), told)
      BY <1>1, <2>4 DEF OnResult
    <3> QED
      BY <3>2, <3>3
  <2>5. CASE ~WornOut(runs)
    <3>1. Frees(w, slots, done, told)
      <4> HIDE DEF done
      <4> QED
        BY <2>1, <2>2, <2>3, <2>5 DEF Frees
    <3>2. Pump(slots, done, told)
      BY <1>1, <2>5 DEF OnResult
    <3> QED
      BY <3>1, <3>2
  <2> QED
    BY <2>4, <2>5
<1>2. CASE OnDeadline(w)
  <2>1. worker[w].active # None /\ w \in slots
    BY <1>0, <1>2 DEF OnDeadline, Overdue
  <2>2. /\ Dropped(worker, w) \in [Jobs -> Workers]
        /\ \A v \in Jobs \ {w} : Dropped(worker, w)[v] = worker[v]
        /\ Dropped(worker, w)[w].active = None
        /\ Dropped(worker, w)[w].stage = worker[w].stage
        /\ Dropped(worker, w)[w].exec = worker[w].exec
        /\ Dropped(worker, w)[w].thread \in {"dying", "lost"}
    BY <1>0, <2>1 DEF Dropped, Vacated, Workers, Threads
  <2>3. Frees(w, slots \ {w}, Dropped(worker, w), Answered(worker[w].active, "timeout"))
    BY <2>1, <2>2 DEF Frees
  <2> QED
    BY <1>2, <2>3 DEF OnDeadline
<1>3. CASE OnWorkerLost(w) /\ w \in slots
  <2> DEFINE gone == [worker EXCEPT ![w] = [NoWorker EXCEPT !.thread = "gone"]]
  <2>1. /\ gone \in [Jobs -> Workers] /\ \A v \in Jobs \ {w} : gone[v] = worker[v]
        /\ gone[w].active = None /\ gone[w].stage = "ready" /\ gone[w].thread = "gone"
    <3>1. [NoWorker EXCEPT !.thread = "gone"] \in Workers
      BY SizeAssumption DEF NoWorker, Workers, Threads, Stages
    <3> QED
      BY <1>0, <3>1 DEF NoWorker
  <2>2. Frees(w, slots \ {w}, gone,
              IF worker[w].active = None THEN answer ELSE Answered(worker[w].active, "lost"))
    <3> HIDE DEF gone
    <3> QED
      BY <1>3, <2>1 DEF Frees
  <2>3. Pump(slots \ {w}, gone,
             IF worker[w].active = None THEN answer ELSE Answered(worker[w].active, "lost"))
    BY <1>3 DEF OnWorkerLost
  <2> QED
    BY <2>2, <2>3
<1> QED
  BY <1>1, <1>2, <1>3

LEMMA EndInv ==
    ASSUME PoolInv, NEW w \in Jobs, OnResult(w) \/ OnDeadline(w) \/ OnWorkerLost(w)
    PROVE  PoolInv'
<1>1. CASE OnResult(w) \/ OnDeadline(w) \/ (OnWorkerLost(w) /\ w \in slots)
  <2>1. PICK S, W, A : Frees(w, S, W, A) /\ Pump(S, W, A)
    BY <1>1, EndFrees
  <2> QED
    BY <1>1, <2>1, PumpInv DEF OnResult, OnDeadline, OnWorkerLost
<1>2. CASE OnWorkerLost(w) /\ w \notin slots
  <2> DEFINE gone == [worker EXCEPT ![w] = [NoWorker EXCEPT !.thread = "gone"]]
  <2>0. worker \in [Jobs -> Workers] /\ slots \subseteq Jobs
    BY DEF PoolInv, TypeOK
  <2>1. /\ gone \in [Jobs -> Workers] /\ \A v \in Jobs \ {w} : gone[v] = worker[v]
        /\ gone[w].active = None /\ gone[w].stage = "ready" /\ gone[w].thread = "gone"
    <3>1. [NoWorker EXCEPT !.thread = "gone"] \in Workers
      BY SizeAssumption DEF NoWorker, Workers, Threads, Stages
    <3> QED
      BY <2>0, <3>1 DEF NoWorker
  <2>2. /\ worker' = gone /\ worker[w].thread = "lost"
        /\ UNCHANGED <<queue, slots, answer, now, closed, submitted, enqueuedAt, serving, ran>>
    BY <1>2 DEF OnWorkerLost
  <2> HIDE DEF gone
  <2>3. TypeOK'
    BY <2>1, <2>2 DEF PoolInv, TypeOK
  <2>4. \A v \in slots : worker'[v] = worker[v]
    BY <1>2, <2>0, <2>1, <2>2
  <2>5. SlotsServe(slots, worker)' /\ ActiveRuns(queue, slots, worker, answer)'
    BY <1>2, <2>0, <2>1, <2>2, <2>4 DEF PoolInv, Sound, SlotsServe, ActiveRuns, QueuedIn
  <2>6. QueuedWait(queue, worker, answer)' /\ NewUnknown(worker, answer)'
    <3>1. \A v \in Jobs : worker[v] = NoWorker => worker'[v] = NoWorker
      BY <2>1, <2>2 DEF NoWorker
    <3>2. \A k \in DOMAIN queue : queue[k] \in Jobs
      BY DEF PoolInv, TypeOK
    <3> QED
      BY <2>2, <3>1, <3>2 DEF PoolInv, Sound, QueuedWait, NewUnknown
  <2>7. ThreadsRun(queue, worker, answer)' /\ RanWasTaken(queue, answer)'
    BY <2>0, <2>1, <2>2 DEF PoolInv, Sound, ThreadsRun, RanWasTaken, QueuedIn
  <2>8. Pending(queue, slots, worker, answer)' /\ Full(queue, slots, worker)'
    BY <2>2, <2>4 DEF PoolInv, Sound, Pending, RunningIn, QueuedIn, Full, IdleIn
  <2> QED
    BY <2>2, <2>3, <2>5, <2>6, <2>7, <2>8 DEF PoolInv, Sound, TypeOK
<1> QED
  BY <1>1, <1>2

\* A job is accepted: refused by a closed pool, queued, or sent to a worker.
LEMMA SubmitInv ==
    ASSUME PoolInv, NEW j \in Jobs, Submit(j)
    PROVE  PoolInv'
<1> USE JobsAssumption
<1>0. /\ worker \in [Jobs -> Workers] /\ slots \subseteq Jobs /\ submitted \subseteq Jobs
      /\ queue \in Seq(Jobs) /\ \A k \in DOMAIN queue : queue[k] \in Jobs
      /\ answer \in [Jobs -> Answers \cup {None}] /\ enqueuedAt \in [Jobs -> 0 .. MaxTime]
      /\ now \in 0 .. MaxTime
  BY DEF PoolInv, TypeOK
<1>1. /\ j \notin submitted /\ submitted' = submitted \cup {j}
      /\ enqueuedAt' \in [Jobs -> 0 .. MaxTime] /\ enqueuedAt'[j] = now
      /\ \A i \in submitted : enqueuedAt'[i] = enqueuedAt[i]
      /\ UNCHANGED <<now, closed, serving, ran>>
  BY <1>0 DEF Submit, Accepted
<1>2. /\ answer[j] = None /\ worker[j] = NoWorker /\ j \notin slots /\ j \notin ran
      /\ j \notin QueuedIn(queue) /\ \A k \in DOMAIN queue : queue[k] # j
      /\ \A v \in slots : worker[v].active # j
  BY <1>0, <1>1 DEF PoolInv, Sound, NewUnknown, SlotsServe, QueuedWait, QueuedIn, ActiveRuns,
                    RanWasTaken, NoWorker
<1>3. CASE closed /\ answer' = [answer EXCEPT ![j] = "closed"] /\ UNCHANGED <<queue, slots, worker>>
  <2>1. /\ answer' \in [Jobs -> Answers \cup {None}] /\ answer'[j] = "closed"
        /\ \A i \in Jobs \ {j} : answer'[i] = answer[i]
    BY <1>0, <1>3 DEF Answers
  <2>2. TypeOK'
    BY <1>0, <1>1, <1>3, <2>1 DEF PoolInv, TypeOK
  <2>3. SlotsServe(slots, worker)' /\ Full(queue, slots, worker)'
    BY <1>0, <1>3 DEF PoolInv, Sound, SlotsServe, Full, IdleIn
  <2>4. ActiveRuns(queue, slots, worker, answer)' /\ QueuedWait(queue, worker, answer)'
    BY <1>0, <1>1, <1>2, <1>3, <2>1 DEF PoolInv, Sound, ActiveRuns, QueuedWait, QueuedIn
  <2>5. NewUnknown(worker, answer)' /\ Pending(queue, slots, worker, answer)'
    <3>1. NewUnknown(worker, answer)'
      BY <1>0, <1>1, <1>3, <2>1 DEF PoolInv, Sound, NewUnknown
    <3>2. ASSUME NEW i \in submitted', answer'[i] = None
          PROVE  i \in QueuedIn(queue) \cup RunningIn(slots, worker)
      <4>1. i \in submitted /\ answer[i] = None
        BY <1>0, <1>1, <2>1, <3>2 DEF Answers
      <4> QED
        BY <4>1 DEF PoolInv, Sound, Pending
    <3> QED
      BY <1>3, <3>1, <3>2 DEF Pending, QueuedIn, RunningIn
  <2>6. RanWasTaken(queue, answer)'
    BY <1>0, <1>1, <1>2, <1>3, <2>1 DEF PoolInv, Sound, RanWasTaken, QueuedIn
  <2>7. ThreadsRun(queue, worker, answer)'
    <3>1. \A i \in Jobs : answer'[i] = "queue_timeout" => answer[i] = "queue_timeout"
      BY <2>1
    <3>2. ASSUME NEW v \in Jobs, worker[v].stage # "ready"
          PROVE  /\ worker[v].exec \in submitted' \ QueuedIn(queue)
                 /\ answer'[worker[v].exec] # "queue_timeout"
                 /\ worker[v].stage \in Started => worker[v].exec \in ran
      <4>1. /\ worker[v].exec \in submitted \ QueuedIn(queue)
            /\ answer[worker[v].exec] # "queue_timeout"
            /\ worker[v].stage \in Started => worker[v].exec \in ran
        BY <3>2 DEF PoolInv, Sound, ThreadsRun
      <4>2. worker[v].exec \in Jobs
        BY <1>0, <4>1
      <4> QED
        BY <1>1, <3>1, <4>1, <4>2
    <3>3. QueuedIn(queue)' = QueuedIn(queue)
      BY <1>3 DEF QueuedIn
    <3>4. worker' = worker /\ ran' = ran
      BY <1>1, <1>3
    <3> QED
      BY <3>2, <3>3, <3>4 DEF ThreadsRun
  <2> QED
    BY <1>1, <1>3, <2>2, <2>3, <2>4, <2>5, <2>6, <2>7 DEF PoolInv, Sound, TypeOK
<1>4. CASE /\ IdleIn(slots, worker) = {} /\ ~RoomIn(slots)
           /\ queue' = Append(queue, j) /\ UNCHANGED <<slots, worker, answer>>
  <2>1. /\ queue' \in Seq(Jobs) /\ DOMAIN queue' = DOMAIN queue \cup {Len(queue) + 1}
        /\ \A k \in DOMAIN queue : queue'[k] = queue[k]
        /\ queue'[Len(queue) + 1] = j
        /\ Len(queue) + 1 \notin DOMAIN queue
    BY <1>0, <1>4
  <2>2. QueuedIn(queue') = QueuedIn(queue) \cup {j}
    BY <2>1 DEF QueuedIn
  <2>3. TypeOK'
    BY <1>0, <1>1, <1>4, <2>1 DEF PoolInv, TypeOK
  <2>4. SlotsServe(slots, worker)'
    BY <1>0, <1>4 DEF PoolInv, Sound, SlotsServe
  <2>5. ActiveRuns(queue, slots, worker, answer)'
    BY <1>0, <1>1, <1>2, <1>4, <2>2 DEF PoolInv, Sound, ActiveRuns, QueuedIn
  <2>6. QueuedWait(queue, worker, answer)'
    <3> SUFFICES ASSUME NEW k \in DOMAIN queue'
                 PROVE  /\ queue'[k] \in submitted' /\ answer[queue'[k]] = None
                        /\ worker[queue'[k]] = NoWorker
                        /\ enqueuedAt'[queue'[k]] <= now
                        /\ now <= enqueuedAt'[queue'[k]] + Budget[queue'[k]]
                        /\ \A l \in DOMAIN queue' : queue'[l] = queue'[k] => l = k
      BY <1>1, <1>4 DEF QueuedWait
    <3>1. CASE k = Len(queue) + 1
      BY <1>0, <1>1, <1>2, <2>1, <3>1, BudgetAssumption, TimeAssumption
    <3>2. CASE k \in DOMAIN queue
      BY <1>0, <1>1, <1>2, <2>1, <3>2 DEF PoolInv, Sound, QueuedWait
    <3> QED
      BY <2>1, <3>1, <3>2
  <2>7. /\ NewUnknown(worker, answer)' /\ RanWasTaken(queue, answer)'
        /\ Pending(queue, slots, worker, answer)'
    <3>1. NewUnknown(worker, answer)'
      BY <1>0, <1>1, <1>4 DEF PoolInv, Sound, NewUnknown
    <3>2. RanWasTaken(queue, answer)'
      BY <1>0, <1>1, <1>2, <1>4, <2>2 DEF PoolInv, Sound, RanWasTaken, QueuedIn
    <3>3. ASSUME NEW i \in submitted', answer[i] = None
          PROVE  i \in QueuedIn(queue') \cup RunningIn(slots, worker)
      <4>1. CASE i = j
        BY <2>2, <4>1
      <4>2. CASE i # j
        BY <1>1, <2>2, <3>3, <4>2 DEF PoolInv, Sound, Pending
      <4> QED
        BY <4>1, <4>2
    <3> QED
      BY <1>4, <3>1, <3>2, <3>3 DEF Pending, QueuedIn, RunningIn
  <2>8. ThreadsRun(queue, worker, answer)'
    <3> SUFFICES ASSUME NEW v \in Jobs, worker[v].stage # "ready"
                 PROVE  /\ worker[v].exec \in submitted' \ QueuedIn(queue')
                        /\ answer[worker[v].exec] # "queue_timeout"
                        /\ worker[v].stage \in Started => worker[v].exec \in ran
      BY <1>1, <1>4 DEF ThreadsRun, QueuedIn
    <3>1. /\ worker[v].exec \in submitted \ QueuedIn(queue)
          /\ answer[worker[v].exec] # "queue_timeout"
          /\ worker[v].stage \in Started => worker[v].exec \in ran
      BY DEF PoolInv, Sound, ThreadsRun
    <3> QED
      BY <1>1, <2>2, <3>1
  <2>9. Full(queue, slots, worker)'
    BY <1>0, <1>4, SlotsAreFinite, SizeAssumption DEF PoolInv, Sound, Full, IdleIn, RoomIn
  <2> QED
    BY <1>1, <1>4, <2>1, <2>3, <2>4, <2>5, <2>6, <2>7, <2>8, <2>9 DEF PoolInv, Sound, TypeOK
<1>5. ASSUME NEW w \in Jobs, NEW U \in [Jobs -> Workers],
             \/ w \in slots /\ worker[w].active = None /\ U = worker /\ slots' = slots
             \/ /\ w = j /\ U = Spawned(worker, j) /\ slots' = slots \cup {j} /\ RoomIn(slots),
             worker' = Sent(U, w, j, now), UNCHANGED <<queue, answer>>
      PROVE  PoolInv'
  <2>1. queue = <<>>
    BY <1>5, <1>0, SlotsAreFinite, SizeAssumption DEF PoolInv, Full, IdleIn, RoomIn
  <2>2. /\ U[w].active = None /\ U[w].thread \in {"up", "lost"} /\ U[w].runs < RecycleAfter
        /\ \A v \in Jobs \ {w} : U[v] = worker[v]
    <3>1. CASE w \in slots /\ worker[w].active = None /\ U = worker
      BY <1>0, <3>1 DEF PoolInv, Sound, SlotsServe
    <3>2. CASE w = j /\ U = Spawned(worker, j)
      <4>1. U[j] = [NoWorker EXCEPT !.thread = "up"] /\ \A v \in Jobs \ {j} : U[v] = worker[v]
        BY <1>0, <1>2, <3>2 DEF Spawned
      <4> QED
        BY <3>2, <4>1, SizeAssumption DEF NoWorker
    <3> QED
      BY <1>5, <3>1, <3>2
  <2>3. DueAt(j, now) = now + Budget[j] + Grace /\ DueAt(j, now) \in Nat /\ now <= DueAt(j, now)
    <3>1. now \in Int /\ Budget[j] \in Nat \ {0} /\ Grace \in Nat
      BY <1>0, TimeAssumption, BudgetAssumption
    <3> QED
      BY <1>0, <3>1, DueIsExact DEF PoolInv
  <2> DEFINE rec == [U[w] EXCEPT !.active = j, !.due = DueAt(j, now), !.exec = j, !.stage = "sent"]
  <2>4. /\ rec \in Workers /\ rec.active = j /\ rec.due = now + Budget[j] + Grace
        /\ rec.exec = j /\ rec.stage = "sent" /\ rec.thread = U[w].thread /\ rec.runs = U[w].runs
    <3>1. U[w] \in Workers
      BY <1>5
    <3> QED
      BY <2>3, <3>1 DEF Workers, Stages
  <2>5. worker' = [U EXCEPT ![w] = rec]
    BY <1>5 DEF Sent
  <2> HIDE DEF rec
  <2>6. /\ worker' \in [Jobs -> Workers] /\ \A v \in Jobs \ {w} : worker'[v] = worker[v]
        /\ worker'[w] = rec /\ "sent" \notin Started /\ "sent" # "ready"
    BY <1>5, <2>2, <2>4, <2>5 DEF Started
  <2>7. /\ slots' = slots \cup {w} /\ Cardinality(slots') <= MaxWorkers
        /\ w \in submitted'
    <3>1. CASE w \in slots /\ slots' = slots
      <4>1. worker[w].thread # "none"
        BY <1>0, <3>1 DEF PoolInv, Sound, SlotsServe
      <4>2. w \in submitted
        BY <1>0, <3>1, <4>1 DEF PoolInv, Sound, NewUnknown, NoWorker
      <4>3. slots' = slots \cup {w} /\ Cardinality(slots) <= MaxWorkers
        BY <3>1 DEF PoolInv, Sound
      <4> QED
        BY <1>1, <3>1, <4>2, <4>3
    <3>2. CASE w = j /\ slots' = slots \cup {j} /\ RoomIn(slots)
      <4>1. Cardinality(slots) \in Nat /\ Cardinality(slots) < MaxWorkers
        BY <1>0, <3>2, SlotsAreFinite DEF RoomIn
      <4>2. Cardinality(slots \cup {j}) = Cardinality(slots) + 1
        BY <1>0, <1>2, SlotsAreFinite
      <4> QED
        BY <1>1, <3>2, <4>1, <4>2, SizeAssumption
    <3> QED
      BY <1>5, <3>1, <3>2
  <2>8. TypeOK'
    BY <1>0, <1>1, <1>5, <2>6, <2>7 DEF PoolInv, TypeOK
  <2>9. SlotsServe(slots, worker)'
    BY <1>0, <2>2, <2>4, <2>6, <2>7 DEF PoolInv, Sound, SlotsServe
  <2>10. QueuedIn(queue') = {} /\ QueuedIn(queue) = {}
    BY <1>5, <2>1 DEF QueuedIn
  <2>11. ActiveRuns(queue, slots, worker, answer)'
    <3> SUFFICES ASSUME NEW v \in slots', worker'[v].active # None
                 PROVE  /\ worker'[v].active \in submitted' /\ answer[worker'[v].active] = None
                        /\ worker'[v].exec = worker'[v].active /\ worker'[v].stage # "ready"
                        /\ worker'[v].due = enqueuedAt'[worker'[v].active] + Budget[worker'[v].active] + Grace
                        /\ now <= worker'[v].due
                        /\ \A u \in slots' : worker'[u].active = worker'[v].active => u = v
      BY <1>1, <1>5, <2>10 DEF ActiveRuns, QueuedIn
    <3>1. \A u \in slots' : u # w => /\ u \in slots /\ worker'[u] = worker[u]
                                     /\ worker'[u].active # j
      BY <1>0, <1>2, <2>6, <2>7
    <3>2. CASE v = w
      BY <1>1, <1>2, <2>3, <2>4, <2>6, <3>1, <3>2
    <3>3. CASE v # w
      <4>1. /\ v \in slots /\ worker'[v] = worker[v] /\ worker[v].active # j
            /\ worker[v].active \in submitted /\ answer[worker[v].active] = None
            /\ worker[v].exec = worker[v].active /\ worker[v].stage # "ready"
            /\ worker[v].due = enqueuedAt[worker[v].active] + Budget[worker[v].active] + Grace
            /\ now <= worker[v].due
            /\ \A u \in slots : worker[u].active = worker[v].active => u = v
        BY <3>1, <3>3 DEF PoolInv, Sound, ActiveRuns
      <4>2. \A u \in slots' : worker'[u].active = worker[v].active => u = v
        BY <2>4, <2>6, <3>1, <4>1
      <4> QED
        BY <1>1, <4>1, <4>2
    <3> QED
      BY <3>2, <3>3
  <2>12. QueuedWait(queue, worker, answer)' /\ Full(queue, slots, worker)'
    BY <1>5, <2>1 DEF QueuedWait, Full
  <2>13. NewUnknown(worker, answer)'
    BY <1>0, <1>1, <1>5, <2>6, <2>7 DEF PoolInv, Sound, NewUnknown
  <2>14. ThreadsRun(queue, worker, answer)'
    <3> SUFFICES ASSUME NEW v \in Jobs, worker'[v].stage # "ready"
                 PROVE  /\ worker'[v].exec \in submitted'
                        /\ answer[worker'[v].exec] # "queue_timeout"
                        /\ worker'[v].stage \in Started => worker'[v].exec \in ran
      BY <1>1, <1>5, <2>10 DEF ThreadsRun, QueuedIn
    <3>1. CASE v = w
      BY <1>1, <1>2, <2>4, <2>6, <3>1 DEF Answers
    <3>2. CASE v # w
      BY <1>1, <2>6, <3>2 DEF PoolInv, Sound, ThreadsRun
    <3> QED
      BY <3>1, <3>2
  <2>15. RanWasTaken(queue, answer)'
    BY <1>1, <1>5, <2>10 DEF PoolInv, Sound, RanWasTaken, QueuedIn
  <2>16. Pending(queue, slots, worker, answer)'
    <3> SUFFICES ASSUME NEW i \in submitted', answer[i] = None
                 PROVE  i \in RunningIn(slots', worker')
      BY <1>5 DEF Pending, QueuedIn, RunningIn
    <3>1. CASE i = j
      BY <2>4, <2>6, <2>7, <3>1 DEF RunningIn
    <3>2. CASE i # j
      <4>1. PICK v \in slots : worker[v].active = i
        BY <1>1, <2>10, <3>2 DEF PoolInv, Sound, Pending, RunningIn
      <4>2. v # w
        BY <1>0, <1>1, <1>2, <1>5, <3>2, <4>1
      <4> QED
        BY <1>0, <1>1, <2>6, <2>7, <3>2, <4>1, <4>2 DEF RunningIn
    <3> QED
      BY <3>1, <3>2
  <2> QED
    BY <1>1, <2>7, <2>8, <2>9, <2>11, <2>12, <2>13, <2>14, <2>15, <2>16 DEF PoolInv, Sound, TypeOK
<1>6. CASE \E w \in IdleIn(slots, worker) : /\ worker' = Sent(worker, w, j, now)
                                            /\ UNCHANGED <<slots, queue, answer>>
  BY <1>0, <1>5, <1>6 DEF IdleIn
<1>7. CASE /\ RoomIn(slots) /\ worker' = Sent(Spawned(worker, j), j, j, now)
           /\ slots' = slots \cup {j} /\ UNCHANGED <<queue, answer>>
  <2>1. Spawned(worker, j) \in [Jobs -> Workers]
    <3>1. [NoWorker EXCEPT !.thread = "up"] \in Workers
      BY SizeAssumption DEF NoWorker, Workers, Threads, Stages
    <3>2. Spawned(worker, j) = [worker EXCEPT ![j] = [NoWorker EXCEPT !.thread = "up"]]
      BY <1>2 DEF Spawned
    <3> QED
      BY <1>0, <3>1, <3>2
  <2> QED
    BY <1>5, <1>7, <2>1
<1> QED
  BY <1>3, <1>4, <1>6, <1>7 DEF Submit

\* The pool is closed: nobody waits or runs, and every thread is told to stop.
LEMMA CloseInv ==
    ASSUME PoolInv, Close
    PROVE  PoolInv'
<1> USE JobsAssumption
<1>0. /\ worker \in [Jobs -> Workers] /\ slots \subseteq Jobs /\ submitted \subseteq Jobs
      /\ answer \in [Jobs -> Answers \cup {None}]
  BY DEF PoolInv, TypeOK
<1>1. queue' = <<>> /\ slots' = {} /\ UNCHANGED <<submitted, enqueuedAt, now, serving, ran>>
  BY DEF Close
<1>2. ASSUME NEW v \in Jobs
      PROVE  /\ worker'[v] \in Workers /\ worker'[v].active = None /\ worker'[v].thread # "up"
             /\ worker'[v].stage = worker[v].stage /\ worker'[v].exec = worker[v].exec
             /\ worker[v] = NoWorker => worker'[v] = NoWorker
  <2>0. worker[v] \in Workers
    BY <1>0
  <2>1. CASE v \in slots
    <3> DEFINE stopped == [worker[v] EXCEPT !.active = None, !.due = 0,
                                !.thread = IF @ = "up" THEN "dying" ELSE @]
    <3>1. worker[v].thread \in {"up", "lost"}
      BY <2>1 DEF PoolInv, Sound, SlotsServe
    <3>2. /\ stopped \in Workers /\ stopped.active = None /\ stopped.thread # "up"
          /\ stopped.stage = worker[v].stage /\ stopped.exec = worker[v].exec
      BY <2>0, <3>1 DEF Workers, Threads
    <3>3. worker'[v] = stopped
      BY <1>0, <2>0, <2>1 DEF Close, Dropped, Vacated, Workers
    <3>4. worker[v] # NoWorker
      BY <3>1 DEF NoWorker
    <3> HIDE DEF stopped
    <3> QED
      BY <3>2, <3>3, <3>4
  <2>2. CASE v \notin slots
    <3>1. worker'[v] = worker[v]
      BY <2>2 DEF Close
    <3> QED
      BY <2>0, <2>2, <3>1 DEF PoolInv, Sound, SlotsServe
  <2> QED
    BY <2>1, <2>2
<1>3. worker' \in [Jobs -> Workers]
  BY <1>2 DEF Close
<1>4. ASSUME NEW i \in Jobs
      PROVE  answer'[i] = IF i \in QueuedIn(queue) \cup RunningIn(slots, worker)
                          THEN "closed" ELSE answer[i]
  BY DEF Close, Queued, QueuedIn, Running, RunningIn
<1>5. answer' \in [Jobs -> Answers \cup {None}] /\ closed' \in BOOLEAN
  BY <1>0 DEF Close, Answers
<1>6. TypeOK'
  BY <1>1, <1>3, <1>5 DEF PoolInv, TypeOK
<1>7. SlotsServe(slots, worker)' /\ Cardinality(slots') <= MaxWorkers
  BY <1>1, <1>2, FS_EmptySet, SizeAssumption DEF SlotsServe
<1>8. /\ ActiveRuns(queue, slots, worker, answer)' /\ QueuedWait(queue, worker, answer)'
      /\ Full(queue, slots, worker)'
  BY <1>1 DEF ActiveRuns, QueuedWait, Full
<1>9. \A i \in QueuedIn(queue) \cup RunningIn(slots, worker) : i \in submitted
  BY DEF PoolInv, Sound, ActiveRuns, QueuedWait, QueuedIn, RunningIn
<1>10. NewUnknown(worker, answer)'
  BY <1>1, <1>2, <1>4, <1>9 DEF PoolInv, Sound, NewUnknown
<1>11. ThreadsRun(queue, worker, answer)' /\ RanWasTaken(queue, answer)'
  <2>1. QueuedIn(queue') = {}
    BY <1>1 DEF QueuedIn
  <2>2. \A i \in Jobs : answer'[i] \in {"queue_timeout", "result"} => answer'[i] = answer[i]
    BY <1>4
  <2>3. RanWasTaken(queue, answer)'
    BY <1>0, <1>1, <2>1, <2>2 DEF PoolInv, Sound, RanWasTaken, QueuedIn
  <2>4. ASSUME NEW w \in Jobs, worker'[w].stage # "ready"
        PROVE  /\ worker'[w].exec \in submitted /\ answer'[worker'[w].exec] # "queue_timeout"
               /\ worker'[w].stage \in Started => worker'[w].exec \in ran
    BY <1>0, <1>2, <2>2, <2>4 DEF PoolInv, Sound, ThreadsRun
  <2>5. ThreadsRun(queue, worker, answer)'
    BY <1>1, <2>1, <2>4 DEF ThreadsRun, QueuedIn
  <2> QED
    BY <2>3, <2>5
<1>12. Pending(queue, slots, worker, answer)'
  <2>1. ASSUME NEW i \in submitted, answer'[i] = None
        PROVE  FALSE
    <3>1. i \in Jobs /\ answer[i] = None /\ i \notin QueuedIn(queue) \cup RunningIn(slots, worker)
      BY <1>0, <1>4, <2>1 DEF Answers
    <3> QED
      BY <3>1 DEF PoolInv, Sound, Pending
  <2> QED
    BY <1>1, <2>1 DEF Pending
<1> QED
  BY <1>1, <1>6, <1>7, <1>8, <1>10, <1>11, <1>12 DEF PoolInv, Sound, TypeOK

\* A queued job runs out of time and is taken off the queue, wherever it stands.
LEMMA ExpireInv ==
    ASSUME PoolInv, NEW j \in Jobs, ExpireQueued(j)
    PROVE  PoolInv'
<1> USE JobsAssumption
<1>0. /\ slots \subseteq Jobs /\ submitted \subseteq Jobs /\ queue \in Seq(Jobs)
      /\ answer \in [Jobs -> Answers \cup {None}] /\ worker \in [Jobs -> Workers]
      /\ UNCHANGED <<now, closed, slots, worker, submitted, enqueuedAt, serving, ran>>
  BY DEF PoolInv, TypeOK, ExpireQueued
<1>1. PICK k \in DOMAIN queue :
        /\ queue[k] = j
        /\ queue' = SubSeq(queue, 1, k - 1) \o SubSeq(queue, k + 1, Len(queue))
  BY DEF ExpireQueued, Leaves
<1>2. /\ queue' \in Seq(Jobs) /\ Len(queue') = Len(queue) - 1
      /\ \A i \in DOMAIN queue' : queue'[i] = IF i < k THEN queue[i] ELSE queue[i + 1]
  <2>1. queue \in Seq(Jobs) /\ k \in DOMAIN queue
    BY <1>0
  <2> QED
    BY ONLY <1>1, <2>1, CutOut
<1>3. /\ DOMAIN queue = 1 .. Len(queue) /\ DOMAIN queue' = 1 .. Len(queue')
      /\ Len(queue) \in Nat /\ k \in 1 .. Len(queue)
  BY <1>0, <1>1, <1>2
<1>4. \A l, m \in DOMAIN queue : queue[l] = queue[m] => l = m
  BY DEF PoolInv, Sound, QueuedWait
<1>5. ASSUME NEW i \in DOMAIN queue'
      PROVE  \E m \in DOMAIN queue : m # k /\ queue'[i] = queue[m] /\ m = IF i < k THEN i ELSE i + 1
  BY <1>2, <1>3
<1>6. \A m \in DOMAIN queue : m # k => \E i \in DOMAIN queue' : queue'[i] = queue[m]
  <2> SUFFICES ASSUME NEW m \in DOMAIN queue, m # k
               PROVE  \E i \in DOMAIN queue' : queue'[i] = queue[m]
    OBVIOUS
  <2>1. CASE m < k
    BY <1>2, <1>3, <2>1
  <2>2. CASE m > k
    <3>1. m - 1 \in DOMAIN queue' /\ ~(m - 1 < k) /\ m - 1 + 1 = m
      BY <1>2, <1>3, <2>2
    <3> QED
      BY <1>2, <3>1
  <2> QED
    BY <1>3, <2>1, <2>2
<1>7. QueuedIn(queue') = QueuedIn(queue) \ {j}
  <2>1. \A m \in DOMAIN queue : queue[m] = j <=> m = k
    BY <1>1, <1>4
  <2>2. QueuedIn(queue') \subseteq QueuedIn(queue) \ {j}
    <3>1. ASSUME NEW i \in DOMAIN queue'
          PROVE  queue'[i] \in QueuedIn(queue) \ {j}
      <4>1. PICK m \in DOMAIN queue : m # k /\ queue'[i] = queue[m]
        BY <1>5
      <4> QED
        BY <2>1, <4>1 DEF QueuedIn
    <3> QED
      BY <3>1 DEF QueuedIn
  <2>3. ASSUME NEW i \in QueuedIn(queue) \ {j}
        PROVE  i \in QueuedIn(queue')
    <3>1. PICK m \in DOMAIN queue : m # k /\ queue[m] = i
      BY <2>1 DEF QueuedIn
    <3> QED
      BY <1>6, <3>1 DEF QueuedIn
  <2> QED
    BY <2>2, <2>3
<1>8. /\ answer' \in [Jobs -> Answers \cup {None}] /\ answer'[j] = "queue_timeout"
      /\ \A i \in Jobs \ {j} : answer'[i] = answer[i]
  BY <1>0 DEF ExpireQueued, Answered, Answers
<1>9. j \in QueuedIn(queue) /\ j \in submitted
  BY <1>1 DEF QueuedIn, PoolInv, Sound, QueuedWait
<1>10. TypeOK'
  BY <1>0, <1>2, <1>8 DEF PoolInv, TypeOK
<1>11. SlotsServe(slots, worker)'
  BY <1>0 DEF PoolInv, Sound, SlotsServe
<1>12. ActiveRuns(queue, slots, worker, answer)'
  <2> SUFFICES ASSUME NEW v \in slots, worker[v].active # None
               PROVE  /\ worker[v].active \in submitted \ QueuedIn(queue')
                      /\ answer'[worker[v].active] = None
                      /\ worker[v].exec = worker[v].active /\ worker[v].stage # "ready"
                      /\ worker[v].due = enqueuedAt[worker[v].active] + Budget[worker[v].active] + Grace
                      /\ now <= worker[v].due
                      /\ \A u \in slots : worker[u].active = worker[v].active => u = v
    BY <1>0 DEF ActiveRuns, QueuedIn
  <2>1. /\ worker[v].active \in submitted \ QueuedIn(queue)
        /\ answer[worker[v].active] = None
        /\ worker[v].exec = worker[v].active /\ worker[v].stage # "ready"
        /\ worker[v].due = enqueuedAt[worker[v].active] + Budget[worker[v].active] + Grace
        /\ now <= worker[v].due
        /\ \A u \in slots : worker[u].active = worker[v].active => u = v
    BY DEF PoolInv, Sound, ActiveRuns
  <2>2. worker[v].active \in Jobs
    BY <1>0, <2>1
  <2> QED
    BY <1>7, <1>8, <1>9, <2>1, <2>2
<1>13. QueuedWait(queue, worker, answer)'
  <2> SUFFICES ASSUME NEW i \in DOMAIN queue'
               PROVE  /\ queue'[i] \in submitted /\ answer'[queue'[i]] = None
                      /\ worker[queue'[i]] = NoWorker
                      /\ enqueuedAt[queue'[i]] <= now
                      /\ now <= enqueuedAt[queue'[i]] + Budget[queue'[i]]
                      /\ \A l \in DOMAIN queue' : queue'[l] = queue'[i] => l = i
    BY <1>0 DEF QueuedWait
  <2>1. PICK m \in DOMAIN queue : m # k /\ queue'[i] = queue[m] /\ m = IF i < k THEN i ELSE i + 1
    BY <1>5
  <2>2. queue'[i] # j /\ queue'[i] \in Jobs
    <3>1. queue[m] # queue[k]
      BY <1>4, <2>1
    <3>2. queue[m] \in Jobs
      BY <1>0
    <3> QED
      BY <1>1, <2>1, <3>1, <3>2
  <2>3. ASSUME NEW l \in DOMAIN queue', queue'[l] = queue'[i]
        PROVE  l = i
    <3>1. PICK p \in DOMAIN queue : p # k /\ queue'[l] = queue[p] /\ p = IF l < k THEN l ELSE l + 1
      BY <1>5
    <3>2. p = m
      BY <1>4, <2>1, <2>3, <3>1
    <3> QED
      BY <1>2, <1>3, <2>1, <3>1, <3>2
  <2> QED
    BY <1>8, <2>1, <2>2, <2>3 DEF PoolInv, Sound, QueuedWait
<1>14. NewUnknown(worker, answer)' /\ RanWasTaken(queue, answer)'
  BY <1>0, <1>7, <1>8, <1>9 DEF PoolInv, Sound, NewUnknown, RanWasTaken, QueuedIn
<1>15. ThreadsRun(queue, worker, answer)'
  <2>1. ASSUME NEW w \in Jobs, worker[w].stage # "ready"
        PROVE  /\ worker[w].exec \in submitted \ QueuedIn(queue')
               /\ answer'[worker[w].exec] # "queue_timeout"
               /\ worker[w].stage \in Started => worker[w].exec \in ran
    <3>1. /\ worker[w].exec \in submitted \ QueuedIn(queue)
          /\ answer[worker[w].exec] # "queue_timeout"
          /\ worker[w].stage \in Started => worker[w].exec \in ran
      BY <2>1 DEF PoolInv, Sound, ThreadsRun
    <3> QED
      BY <1>0, <1>7, <1>8, <1>9, <3>1
  <2> QED
    BY <1>0, <2>1 DEF ThreadsRun, QueuedIn
<1>16. Pending(queue, slots, worker, answer)'
  <2>1. ASSUME NEW i \in submitted, answer'[i] = None
        PROVE  i \in QueuedIn(queue') \cup RunningIn(slots, worker)
    <3>1. i \in Jobs /\ i # j /\ answer[i] = None
      BY <1>0, <1>8, <2>1 DEF Answers
    <3> QED
      BY <1>7, <3>1 DEF PoolInv, Sound, Pending
  <2> QED
    BY <1>0, <2>1 DEF Pending, QueuedIn, RunningIn
<1>17. Full(queue, slots, worker)'
  <2>1. queue # <<>>
    BY <1>3
  <2> QED
    BY <1>0, <2>1 DEF PoolInv, Full, IdleIn
<1> QED
  BY <1>0, <1>2, <1>8, <1>10, <1>11, <1>12, <1>13, <1>14, <1>15, <1>16, <1>17 DEF PoolInv, Sound, TypeOK

\* Time passes only while nobody's time is up.
LEMMA TickInv ==
    ASSUME PoolInv, Tick
    PROVE  PoolInv'
<1>0. /\ now \in Nat /\ now' = now + 1 /\ now' <= MaxTime
      /\ UNCHANGED <<closed, queue, slots, worker, submitted, enqueuedAt, serving, answer, ran>>
      /\ slots \subseteq Jobs /\ submitted \subseteq Jobs /\ worker \in [Jobs -> Workers]
      /\ enqueuedAt \in [Jobs -> 0 .. MaxTime]
      /\ \A k \in DOMAIN queue : queue[k] \in Jobs
  BY TimeAssumption DEF Tick, PoolInv, TypeOK
<1>1. TypeOK'
  BY <1>0, TimeAssumption DEF PoolInv, TypeOK
<1>2. SlotsServe(slots, worker)' /\ NewUnknown(worker, answer)' /\ ThreadsRun(queue, worker, answer)'
  BY <1>0 DEF PoolInv, Sound, SlotsServe, NewUnknown, ThreadsRun, QueuedIn
<1>3. /\ RanWasTaken(queue, answer)' /\ Pending(queue, slots, worker, answer)'
      /\ Full(queue, slots, worker)'
  BY <1>0 DEF PoolInv, Sound, RanWasTaken, Pending, Full, QueuedIn, RunningIn, IdleIn
<1>4. ActiveRuns(queue, slots, worker, answer)'
  <2>1. \A w \in slots : worker[w].active # None => now + 1 <= worker[w].due
    <3> SUFFICES ASSUME NEW w \in slots, worker[w].active # None
                 PROVE  now + 1 <= worker[w].due
      OBVIOUS
    <3>1. ~(now >= worker[w].due)
      BY DEF Tick, Overdue
    <3>2. worker[w].due \in Nat
      BY <1>0 DEF Workers
    <3> QED
      BY <1>0, <3>1, <3>2
  <2> QED
    BY <1>0, <2>1 DEF PoolInv, Sound, ActiveRuns, QueuedIn
<1>5. QueuedWait(queue, worker, answer)'
  <2>1. \A k \in DOMAIN queue : /\ enqueuedAt[queue[k]] <= now + 1
                                /\ now + 1 <= enqueuedAt[queue[k]] + Budget[queue[k]]
    <3> SUFFICES ASSUME NEW k \in DOMAIN queue
                 PROVE  /\ enqueuedAt[queue[k]] <= now + 1
                        /\ now + 1 <= enqueuedAt[queue[k]] + Budget[queue[k]]
      OBVIOUS
    <3>1. ~(now - enqueuedAt[queue[k]] >= Budget[queue[k]])
      BY <1>0 DEF Tick, Queued, Exhausted
    <3>2. enqueuedAt[queue[k]] \in Nat /\ Budget[queue[k]] \in Nat /\ enqueuedAt[queue[k]] <= now
      BY <1>0, BudgetAssumption, TimeAssumption DEF PoolInv, Sound, QueuedWait
    <3> QED
      BY <1>0, <3>1, <3>2
  <2> QED
    BY <1>0, <2>1 DEF PoolInv, Sound, QueuedWait
<1> QED
  BY <1>0, <1>1, <1>2, <1>3, <1>4, <1>5 DEF PoolInv, Sound, TypeOK

-----------------------------------------------------------------------------
(* The theorems *)

LEMMA InitInv == Init => PoolInv
<1> SUFFICES ASSUME Init PROVE PoolInv
  OBVIOUS
<1> USE JobsAssumption, SizeAssumption, TimeAssumption
<1>1. NoWorker \in Workers
  BY DEF NoWorker, Workers, Threads, Stages
<1>2. TypeOK
  <2>1. worker \in [Jobs -> Workers] /\ answer \in [Jobs -> Answers \cup {None}]
    BY <1>1 DEF Init
  <2>2. now \in 0 .. MaxTime /\ enqueuedAt \in [Jobs -> 0 .. MaxTime]
    BY DEF Init
  <2>3. queue \in Seq(Jobs)
    BY DEF Init
  <2> QED
    BY <2>1, <2>2, <2>3 DEF Init, TypeOK
<1>3. Cardinality(slots) <= MaxWorkers
  BY FS_EmptySet DEF Init
<1>4. SlotsServe(slots, worker) /\ ThreadsRun(queue, worker, answer) /\ NewUnknown(worker, answer)
  BY DEF Init, SlotsServe, ThreadsRun, NewUnknown, NoWorker
<1>5. /\ ActiveRuns(queue, slots, worker, answer) /\ QueuedWait(queue, worker, answer)
      /\ RanWasTaken(queue, answer) /\ Pending(queue, slots, worker, answer)
      /\ Full(queue, slots, worker) /\ serving \subseteq ran
  <2>1. "result" # None
    BY DEF Answers
  <2> QED
    BY <2>1 DEF Init, ActiveRuns, QueuedWait, RanWasTaken, Pending, Full
<1> QED
  BY <1>2, <1>3, <1>4, <1>5 DEF PoolInv, Sound, TypeOK

LEMMA NextInv == PoolInv /\ [Next]_vars => PoolInv'
<1> SUFFICES ASSUME PoolInv, [Next]_vars PROVE PoolInv'
  OBVIOUS
<1>1. CASE UNCHANGED vars
  BY <1>1 DEF vars, PoolInv, TypeOK, Sound, Full, SlotsServe, ActiveRuns, QueuedWait, NewUnknown,
              ThreadsRun, RanWasTaken, Pending, QueuedIn, RunningIn, IdleIn
<1>2. CASE Next
  <2>1. ASSUME NEW j \in Jobs, Submit(j) \/ ExpireQueued(j) \/ Respond(j)
        PROVE  PoolInv'
    BY <2>1, SubmitInv, ExpireInv, ThreadInv
  <2>2. ASSUME NEW w \in Jobs,
               \/ TakeRun(w) \/ PostCall(w) \/ TakeReply(w) \/ PostResult(w)
               \/ Exit(w) \/ OnHostCall(w)
        PROVE  PoolInv'
    BY <2>2, ThreadInv
  <2>3. ASSUME NEW w \in Jobs, OnResult(w) \/ OnDeadline(w) \/ OnWorkerLost(w)
        PROVE  PoolInv'
    BY <2>3, EndInv
  <2>4. CASE Close
    BY <2>4, CloseInv
  <2>5. CASE Tick
    BY <2>5, TickInv
  <2> QED
    BY <1>2, <2>1, <2>2, <2>3, <2>4, <2>5 DEF Next
<1> QED
  BY <1>1, <1>2

\* The parts hold of every reachable state of the pool.
THEOREM PoolStaysSound == Spec => []PoolInv
  BY InitInv, NextInv, PTL DEF Spec

\* The variables keep their types, so that run counts stay below the recycling bound.
THEOREM TypeCorrect == Spec => []TypeOK
<1>1. PoolInv => TypeOK
  BY DEF PoolInv
<1> QED
  BY <1>1, PoolStaysSound, PTL

\* However a place came free, nobody is left waiting beside it (#pumpQueue).
THEOREM WorkConserving == Spec => []NobodyWaitsInVain
<1>1. PoolInv => NobodyWaitsInVain
  BY DEF PoolInv, Full, IdleIn, NobodyWaitsInVain
<1> QED
  BY <1>1, PoolStaysSound, PTL

\* Waiting and running together stay within the budget and the grace, and no job
\* is ever lost on the way from the queue to its answer.
THEOREM InTime == Spec => []AnswersInTime
<1>1. PoolInv => AnswersInTime
  <2> SUFFICES ASSUME PoolInv, NEW j \in submitted, answer[j] = None
               PROVE  /\ j \in Queued \cup Running
                      /\ now <= enqueuedAt[j] + Budget[j] + Grace
    BY DEF AnswersInTime
  <2>0. /\ j \in Jobs /\ now \in Nat /\ enqueuedAt[j] \in Nat /\ Budget[j] \in Nat /\ Grace \in Nat
    BY TimeAssumption, BudgetAssumption DEF PoolInv, TypeOK
  <2>1. j \in QueuedIn(queue) \/ \E w \in slots : worker[w].active = j
    BY DEF PoolInv, Sound, Pending, RunningIn
  <2>2. CASE j \in QueuedIn(queue)
    <3>1. now <= enqueuedAt[j] + Budget[j]
      BY <2>2 DEF PoolInv, Sound, QueuedWait, QueuedIn
    <3> QED
      BY <2>0, <2>2, <3>1 DEF QueuedIn, Queued
  <2>3. CASE \E w \in slots : worker[w].active = j
    BY <2>0, <2>3, JobsAssumption DEF PoolInv, Sound, ActiveRuns, Running
  <2> QED
    BY <2>1, <2>2, <2>3
<1> QED
  BY <1>1, PoolStaysSound, PTL

\* A retry after queue_timeout repeats nothing, and a result is the job's own.
THEOREM HonestAnswers == Spec => []AnswerTellsWhetherItRan
<1>1. PoolInv => AnswerTellsWhetherItRan
  BY DEF PoolInv, Sound, RanWasTaken, AnswerTellsWhetherItRan
<1> QED
  BY <1>1, PoolStaysSound, PTL

\* Replacing a worker, at its deadline, its end or its recycling, leaks no thread.
THEOREM NoLeaks == Spec => []NoThreadLeaks
<1>1. PoolInv => NoThreadLeaks
  BY DEF PoolInv, Sound, SlotsServe, NoThreadLeaks
<1> QED
  BY <1>1, PoolStaysSound, PTL

\* No host operation is begun for a caller that has its answer already.
THEOREM HostCallsAreAwaited == Spec => NoCallAfterAnswer
<1>1. PoolInv /\ [Next]_vars => [\A j \in serving' \ serving : answer[j] = None]_vars
  <2> SUFFICES ASSUME PoolInv, Next, NEW j \in serving' \ serving
               PROVE  answer[j] = None
    BY DEF vars
  <2>1. PICK w \in Jobs : OnHostCall(w)
    BY DEF Next, Submit, ExpireQueued, Respond, TakeRun, PostCall, TakeReply, PostResult, Advance,
           Exit, OnResult, OnDeadline, OnWorkerLost, Close, Tick
  <2>2. j = worker[w].active /\ worker[w].active # None
    BY <2>1 DEF OnHostCall, Heeds
  <2> QED
    BY <2>2 DEF PoolInv, Sound, SlotsServe, ActiveRuns
<1> QED
  BY <1>1, PoolStaysSound, PTL DEF Spec, NoCallAfterAnswer
=============================================================================
