----------------------- MODULE StrategicWorkerProofs ------------------------
(* Proofs about the strategic worker, for any number of submissions, stops    *)
(* and restarts. The invariant says where every job is: at most once in the   *)
(* queue, or in the hands of one thread. tlapm 1.4.5 lets the SMT solver take *)
(* the domain of every function in an obligation for 1..Len(...) once the     *)
(* obligation speaks of sequences, so what is said of the queue's entries is  *)
(* proved apart from what is said of the other functions.                     *)
EXTENDS StrategicWorker, SequenceTheorems, TLAPS

\* The entries of a sequence, and that nothing but None is there twice.
Entries(s) == {s[i] : i \in 1..Len(s)}

NoRepeat(s) == \A i, k \in 1..Len(s) : s[i] = s[k] /\ s[i] # NoJob => i = k

QueueOK == queue \in Seq(Jobs \cup {NoJob}) /\ NoRepeat(queue)

\* TypeOK, without the queue.
StateOK ==
    /\ running \in BOOLEAN
    /\ newest \in {{}} \cup {{t} : t \in Threads}
    /\ worker \in [Threads -> {"none", "created", "loop", "get", "reason", "complete",
                            "exited"}]
    /\ held \in [Threads -> Jobs \cup {NoJob}]
    /\ status \in [Jobs -> {"new", "check", "alive", "set", "create", "start", "refused",
                            "put", "queued", "running"} \cup Finished]
    /\ llmUsed \subseteq Jobs
    /\ lifespan \in {"up", "poison", "join", "down", "set", "create", "start", "failed"}
    /\ stops \in 0..MaxStops
    /\ handoff \in Jobs \cup {NoJob}

\* The jobs in the queue are the queued ones.
QueueHoldsQueued == Entries(queue) \ {NoJob} = {j \in Jobs : status[j] = "queued"}

\* A thread holds a job while it works on it, and no other thread holds the same.
HeldIsRunning ==
    /\ \A t \in Threads : held[t] # NoJob <=> worker[t] \in {"reason", "complete"}
    /\ \A t \in Threads : held[t] # NoJob => status[held[t]] = "running"
    /\ \A t, u \in Threads : held[t] = held[u] /\ held[t] # NoJob => t = u
    /\ \A j \in Jobs : status[j] = "running" => \E t \in Threads : held[t] = j

\* The model advised the jobs that are completed with its plan or about to be.
AdvisedIsCompleting ==
    /\ \A j \in llmUsed :
        \/ status[j] = "completed"
        \/ \E t \in Threads : held[t] = j /\ worker[t] = "complete"
    /\ \A t \in Threads : worker[t] = "complete" => held[t] \in llmUsed
    /\ \A t \in Threads : worker[t] = "reason" => held[t] \notin llmUsed

\* A thread is created once.
NotYetCreated ==
    /\ \A j \in Jobs :
        status[j] \in {"new", "check", "alive", "set", "create"} => worker[j] = "none"
    /\ \A n \in 0..MaxStops :
        n > stops \/ (n = stops /\ lifespan \notin {"up", "start", "failed"}) =>
            worker[n] = "none"

Placement ==
    /\ StateOK
    /\ QueueOK
    /\ QueueHoldsQueued
    /\ HeldIsRunning
    /\ AdvisedIsCompleting
    /\ NotYetCreated
    /\ handoff # NoJob => handoff \in llmUsed

-----------------------------------------------------------------------------
(* The queue. The lemmas of this section speak of sequences and of nothing    *)
(* else; the steps below use the queue through Entries and QueueOK only.      *)

LEMMA EmptyQueue == Entries(<<>>) = {} /\ NoRepeat(<<>>) /\ <<>> \in Seq(Jobs \cup {NoJob})
  BY DEF Entries, NoRepeat

LEMMA PutEntry ==
    ASSUME NEW S, NEW s \in Seq(S), NoRepeat(s), NEW x \in S,
           x = NoJob \/ x \notin Entries(s)
    PROVE  /\ Append(s, x) \in Seq(S) /\ NoRepeat(Append(s, x))
           /\ Entries(Append(s, x)) = Entries(s) \cup {x}
<1>1. /\ Append(s, x) \in Seq(S)
      /\ Len(Append(s, x)) = Len(s) + 1 /\ Len(s) \in Nat
      /\ \A i \in 1..Len(s) : Append(s, x)[i] = s[i]
      /\ Append(s, x)[Len(s) + 1] = x
  BY AppendProperties
<1>2. NoRepeat(Append(s, x))
  BY <1>1 DEF NoRepeat, Entries
<1>3. Entries(Append(s, x)) = Entries(s) \cup {x}
  BY <1>1 DEF Entries
<1> QED
  BY <1>1, <1>2, <1>3

LEMMA TakeEntry ==
    ASSUME NEW S, NEW s \in Seq(S), NoRepeat(s), s # <<>>
    PROVE  /\ Tail(s) \in Seq(S) /\ NoRepeat(Tail(s))
           /\ Head(s) \in Entries(s)
           /\ Entries(Tail(s)) \ {NoJob} = (Entries(s) \ {NoJob}) \ {Head(s)}
<1> DEFINE n == Len(s)
<1>1. /\ Tail(s) \in Seq(S) /\ Head(s) = s[1]
      /\ n \in Nat /\ n >= 1 /\ Len(Tail(s)) = n - 1
      /\ \A i \in 1..n - 1 : Tail(s)[i] = s[i + 1]
  BY HeadTailProperties
<1>2. \A i \in 1..n - 1 : i + 1 \in 1..n /\ i + 1 # 1
  BY <1>1
<1>3. NoRepeat(Tail(s))
  BY <1>1, <1>2 DEF NoRepeat
<1>4. Head(s) \in Entries(s)
  BY <1>1 DEF Entries
<1>5. ASSUME NEW x \in Entries(Tail(s)), x # NoJob
      PROVE  x \in Entries(s) /\ x # Head(s)
  <2>1. PICK i \in 1..n - 1 : x = s[i + 1]
    BY <1>1 DEF Entries
  <2>2. i + 1 \in 1..n /\ 1 \in 1..n /\ i + 1 # 1
    BY <1>1, <1>2
  <2>3. x # s[1]
    BY <1>5, <2>1, <2>2 DEF NoRepeat
  <2> QED
    BY <1>1, <2>1, <2>2, <2>3 DEF Entries
<1>6. ASSUME NEW x \in Entries(s), x # Head(s)
      PROVE  x \in Entries(Tail(s))
  <2>1. PICK k \in 1..n : x = s[k]
    BY DEF Entries
  <2>2. k - 1 \in 1..n - 1 /\ (k - 1) + 1 = k
    BY <1>1, <1>6, <2>1
  <2>3. Tail(s)[k - 1] = x
    BY <1>1, <2>1, <2>2
  <2> QED
    BY <1>1, <2>2, <2>3 DEF Entries
<1> HIDE DEF n
<1> QED
  BY <1>1, <1>3, <1>4, <1>5, <1>6

LEMMA SameQueue == QueueOK /\ UNCHANGED queue => QueueOK'
  BY DEF QueueOK

\* What stop puts in the queue and a thread takes out.
LEMMA PutNoneKeepsQueue ==
    ASSUME QueueOK, queue' = Append(queue, NoJob)
    PROVE  QueueOK' /\ Entries(queue') \ {NoJob} = Entries(queue) \ {NoJob}
<1>1. /\ Append(queue, NoJob) \in Seq(Jobs \cup {NoJob}) /\ NoRepeat(Append(queue, NoJob))
      /\ Entries(Append(queue, NoJob)) = Entries(queue) \cup {NoJob}
  BY PutEntry DEF QueueOK
<1> QED
  BY <1>1 DEF QueueOK

LEMMA TakeNoneKeepsQueue ==
    ASSUME QueueOK, queue # <<>>, Head(queue) = NoJob, queue' = Tail(queue)
    PROVE  QueueOK' /\ Entries(queue') \ {NoJob} = Entries(queue) \ {NoJob}
<1>1. /\ Tail(queue) \in Seq(Jobs \cup {NoJob}) /\ NoRepeat(Tail(queue))
      /\ Entries(Tail(queue)) \ {NoJob} = (Entries(queue) \ {NoJob}) \ {Head(queue)}
  BY TakeEntry DEF QueueOK
<1> QED
  BY <1>1 DEF QueueOK

LEMMA PutJobInQueue ==
    ASSUME QueueOK, NEW j \in Jobs, j \notin Entries(queue), queue' = Append(queue, j)
    PROVE  QueueOK' /\ Entries(queue') = Entries(queue) \cup {j}
<1>1. /\ Append(queue, j) \in Seq(Jobs \cup {NoJob}) /\ NoRepeat(Append(queue, j))
      /\ Entries(Append(queue, j)) = Entries(queue) \cup {j}
  BY PutEntry DEF QueueOK
<1> QED
  BY <1>1 DEF QueueOK

LEMMA TakeJobFromQueue ==
    ASSUME QueueOK, queue # <<>>, NEW j, j = Head(queue), queue' = Tail(queue)
    PROVE  /\ QueueOK' /\ j \in Entries(queue)
           /\ Entries(queue') \ {NoJob} = (Entries(queue) \ {NoJob}) \ {j}
<1>1. /\ Tail(queue) \in Seq(Jobs \cup {NoJob}) /\ NoRepeat(Tail(queue))
      /\ Head(queue) \in Entries(queue)
      /\ Entries(Tail(queue)) \ {NoJob} = (Entries(queue) \ {NoJob}) \ {Head(queue)}
  BY TakeEntry DEF QueueOK
<1> QED
  BY <1>1 DEF QueueOK
-----------------------------------------------------------------------------
(* Threads, jobs and None are different things.                               *)

LEMMA Membership ==
    /\ 0 \in Threads
    /\ \A j \in Jobs : j \in Threads /\ j # NoJob
    /\ \A n \in 0..MaxStops : n \in Threads /\ n \notin Jobs
<1>1. MaxStops \in Nat
  BY WorkerAssumption
<1>2. 0 \in Threads
  BY <1>1 DEF Threads
<1>3. \A j \in Jobs : j \in Threads /\ j # NoJob
  BY WorkerAssumption DEF Threads
<1>4. \A n \in 0..MaxStops : n \in Threads
  BY DEF Threads
<1>5. \A n \in 0..MaxStops : n \notin Jobs
  <2> SUFFICES ASSUME NEW n \in 0..MaxStops, n \in Jobs
               PROVE  FALSE
    OBVIOUS
  <2>1. n \in Jobs \cap Nat
    BY <1>1
  <2> QED
    BY <2>1, WorkerAssumption
<1> QED
  BY <1>2, <1>3, <1>4, <1>5

LEMMA TypeParts == TypeOK <=> StateOK /\ queue \in Seq(Jobs \cup {NoJob})
  BY DEF TypeOK, StateOK

LEMMA InitPlacement == Init => Placement
<1> SUFFICES ASSUME Init PROVE Placement
  OBVIOUS
<1>1. queue = <<>>
  BY DEF Init
<1>2. QueueOK /\ Entries(queue) = {}
  BY <1>1, EmptyQueue DEF QueueOK
<1>3. /\ running = TRUE /\ newest = {0} /\ llmUsed = {} /\ lifespan = "up" /\ stops = 0
      /\ worker = [t \in Threads |-> IF t = 0 THEN "loop" ELSE "none"]
      /\ held = [t \in Threads |-> NoJob]
      /\ status = [j \in Jobs |-> "new"]
      /\ handoff = NoJob
  BY DEF Init
<1>4. StateOK /\ HeldIsRunning /\ AdvisedIsCompleting /\ NotYetCreated
  BY <1>3, WorkerAssumption, Membership
     DEF StateOK, HeldIsRunning, AdvisedIsCompleting, NotYetCreated
<1>5. QueueHoldsQueued
  BY <1>2, <1>3 DEF QueueHoldsQueued
<1> QED
  BY <1>2, <1>3, <1>4, <1>5 DEF Placement
-----------------------------------------------------------------------------
(* Every step keeps every job in its place.                                   *)

LEMMA SubmissionPlacement ==
    ASSUME Placement, NEW j \in Jobs, Submit(j) \/ Submission(j)
    PROVE  Placement'
<1> USE Membership DEF Placement, threadVars
<1>1. CASE Submit(j)
  BY <1>1, SameQueue DEF Submit, Submitting, StateOK, QueueHoldsQueued, HeldIsRunning,
              AdvisedIsCompleting, NotYetCreated
<1>2. CASE CheckWorker(j)
  BY <1>2, SameQueue DEF CheckWorker, Submitting, StateOK, QueueHoldsQueued,
              HeldIsRunning, AdvisedIsCompleting, NotYetCreated
<1>6. CASE CheckAlive(j)
  BY <1>6, SameQueue DEF CheckAlive, AlreadyStarted, NotStarted, Submitting, StateOK,
              QueueHoldsQueued, HeldIsRunning, AdvisedIsCompleting, NotYetCreated
<1>7. CASE StartWorkerFor(j)
  <2>1. /\ status[j] = "start"
        /\ \E to \in {"put", "refused"} : status' = [status EXCEPT ![j] = to]
        /\ UNCHANGED <<running, newest, held, queue, llmUsed, lifespan, stops, handoff>>
        /\ \/ UNCHANGED worker
           \/ \E u \in newest :
                 worker[u] = "created" /\ worker' = [worker EXCEPT ![u] = "loop"]
    BY <1>7 DEF StartWorkerFor, StartWorker, StartRaises, Submitting
  <2>2. newest \subseteq Threads
    BY DEF StateOK
  <2>3. QueueOK' /\ QueueHoldsQueued'
    BY <2>1, SameQueue DEF StateOK, QueueHoldsQueued
  <2>4. StateOK' /\ HeldIsRunning' /\ AdvisedIsCompleting' /\ NotYetCreated'
    BY <2>1, <2>2 DEF StateOK, HeldIsRunning, AdvisedIsCompleting, NotYetCreated
  <2> QED
    BY <2>1, <2>3, <2>4
<1>3. CASE SetRunningFor(j)
  BY <1>3, SameQueue DEF SetRunningFor, SetRunning, Submitting, StateOK, QueueHoldsQueued,
              HeldIsRunning, AdvisedIsCompleting, NotYetCreated
<1>4. CASE CreateWorkerFor(j)
  <2>1. worker[j] = "none" /\ status[j] = "create"
    BY <1>4 DEF CreateWorkerFor, Submitting, NotYetCreated
  <2>2. StateOK'
    BY <1>4 DEF CreateWorkerFor, CreateWorker, Submitting, StateOK
  <2>3. QueueOK' /\ QueueHoldsQueued'
    BY <1>4, <2>1, SameQueue DEF CreateWorkerFor, Submitting, StateOK, QueueHoldsQueued
  <2>4. HeldIsRunning'
    BY <1>4, <2>1 DEF CreateWorkerFor, CreateWorker, Submitting, StateOK, HeldIsRunning
  <2>5. AdvisedIsCompleting'
    BY <1>4, <2>1 DEF CreateWorkerFor, CreateWorker, Submitting, StateOK, AdvisedIsCompleting
  <2>6. NotYetCreated'
    BY <1>4, <2>1 DEF CreateWorkerFor, CreateWorker, Submitting, StateOK, NotYetCreated
  <2> QED
    BY <1>4, <2>2, <2>3, <2>4, <2>5, <2>6 DEF CreateWorkerFor, Submitting
<1>5. CASE Enqueue(j)
  <2>1. queue' = Append(queue, j)
    BY <1>5 DEF Enqueue
  <2>2. /\ status[j] = "put" /\ status' = [status EXCEPT ![j] = "queued"]
        /\ UNCHANGED <<threadVars, held, llmUsed, lifespan, stops, handoff>>
    BY <1>5 DEF Enqueue, Submitting
  <2>3. j \notin Entries(queue)
    BY <2>2 DEF QueueHoldsQueued
  <2>4. QueueOK' /\ Entries(queue') = Entries(queue) \cup {j}
    BY <2>1, <2>3, PutJobInQueue
  <2>5. StateOK' /\ HeldIsRunning' /\ AdvisedIsCompleting' /\ NotYetCreated'
    BY <2>2 DEF StateOK, HeldIsRunning, AdvisedIsCompleting, NotYetCreated
  <2>6. QueueHoldsQueued'
    BY <2>2, <2>4 DEF StateOK, QueueHoldsQueued
  <2> QED
    BY <2>2, <2>4, <2>5, <2>6
<1> QED
  BY <1>1, <1>2, <1>3, <1>4, <1>5, <1>6, <1>7 DEF Submission

LEMMA TakeJobPlacement ==
    ASSUME Placement, NEW t \in Threads, TakeJob(t)
    PROVE  Placement'
<1>1. PICK j : j = Head(queue)
  OBVIOUS
<1>2. queue # <<>> /\ queue' = Tail(queue) /\ j # NoJob
  BY <1>1 DEF TakeJob
<1>3. /\ status' = [status EXCEPT ![j] = "running"] /\ held' = [held EXCEPT ![t] = j]
      /\ worker[t] = "get" /\ worker' = [worker EXCEPT ![t] = "reason"]
      /\ UNCHANGED <<running, newest, llmUsed, lifespan, stops, handoff>>
  BY <1>1 DEF TakeJob, Work
<1>4. /\ QueueOK' /\ j \in Entries(queue)
      /\ Entries(queue') \ {NoJob} = (Entries(queue) \ {NoJob}) \ {j}
  BY <1>1, <1>2, TakeJobFromQueue DEF Placement
<1>5. j \in Jobs /\ status[j] = "queued"
  BY <1>2, <1>4 DEF Placement, QueueHoldsQueued
<1> USE Membership DEF Placement
<1>6. StateOK'
  BY <1>3, <1>5 DEF StateOK
<1>7. QueueHoldsQueued'
  BY <1>3, <1>4, <1>5 DEF StateOK, QueueHoldsQueued
<1>8. HeldIsRunning'
  BY <1>3, <1>5 DEF StateOK, HeldIsRunning
<1>9. AdvisedIsCompleting' /\ NotYetCreated'
  BY <1>3, <1>5 DEF StateOK, HeldIsRunning, AdvisedIsCompleting, NotYetCreated
<1> QED
  BY <1>3, <1>4, <1>6, <1>7, <1>8, <1>9

\* The other steps of a worker thread leave the queue alone, or take None out.
LEMMA WorkerPlacement ==
    ASSUME Placement, NEW t \in Threads, Worker(t)
    PROVE  Placement'
<1> USE Membership DEF Placement, Work
<1>1. CASE CheckRunning(t)
  BY <1>1, SameQueue DEF CheckRunning, StateOK, QueueHoldsQueued, HeldIsRunning,
              AdvisedIsCompleting, NotYetCreated
<1>2. CASE TakeNone(t)
  <2>1. queue # <<>> /\ Head(queue) = NoJob /\ queue' = Tail(queue)
    BY <1>2 DEF TakeNone
  <2>2. QueueOK' /\ Entries(queue') \ {NoJob} = Entries(queue) \ {NoJob}
    BY <2>1, TakeNoneKeepsQueue
  <2>3. /\ worker[t] = "get" /\ worker' = [worker EXCEPT ![t] = "loop"]
        /\ UNCHANGED <<running, newest, held, status, llmUsed, lifespan, stops, handoff>>
    BY <1>2 DEF TakeNone
  <2>4. StateOK' /\ HeldIsRunning' /\ AdvisedIsCompleting' /\ NotYetCreated'
    BY <2>3 DEF StateOK, HeldIsRunning, AdvisedIsCompleting, NotYetCreated
  <2>5. QueueHoldsQueued'
    BY <2>2, <2>3 DEF QueueHoldsQueued
  <2> QED
    BY <2>2, <2>3, <2>4, <2>5
<1>3. CASE TakeJob(t)
  BY <1>3, TakeJobPlacement
<1>4. ASSUME NEW result \in Finished, held[t] \in Jobs, held[t] # NoJob,
             worker[t] \in {"reason", "complete"},
             FinishAs(t, result), worker' = [worker EXCEPT ![t] = "loop"],
             worker[t] = "complete" => result = "completed",
             UNCHANGED <<running, newest, llmUsed, lifespan, stops, handoff>>
      PROVE  Placement'
  <2>1. status[held[t]] = "running"
    BY <1>4 DEF HeldIsRunning
  <2>2. StateOK'
    BY <1>4 DEF FinishAs, StateOK, Finished
  <2>3. QueueOK' /\ QueueHoldsQueued'
    BY <1>4, <2>1, SameQueue DEF FinishAs, StateOK, QueueHoldsQueued, Finished
  <2>4. HeldIsRunning'
    BY <1>4, <2>1 DEF FinishAs, StateOK, HeldIsRunning, Finished
  <2>5. AdvisedIsCompleting'
    BY <1>4, <2>1 DEF FinishAs, StateOK, HeldIsRunning, AdvisedIsCompleting, Finished
  <2>6. NotYetCreated'
    BY <1>4, <2>1 DEF FinishAs, StateOK, NotYetCreated, Finished
  <2> QED
    BY <1>4, <2>2, <2>3, <2>4, <2>5, <2>6
<1>5. worker[t] \in {"reason", "complete"} => held[t] \in Jobs /\ held[t] # NoJob
  BY DEF StateOK, HeldIsRunning
<1>6. CASE FailJob(t)
  BY <1>4, <1>5, <1>6 DEF FailJob, Finished
<1>7. CASE PlanWithoutModel(t)
  BY <1>4, <1>5, <1>7 DEF PlanWithoutModel, Finished
<1>8. CASE CompleteJob(t)
  BY <1>4, <1>5, <1>8 DEF CompleteJob, Finished
<1>9. CASE PublishAdvice(t)
  <2>1. worker[t] = "reason" /\ held[t] \in Jobs
    BY <1>5, <1>9 DEF PublishAdvice
  <2>2. StateOK'
    BY <1>9, <2>1 DEF PublishAdvice, StateOK
  <2>3. HeldIsRunning'
    BY <1>9, <2>1 DEF PublishAdvice, StateOK, HeldIsRunning
  <2>4. AdvisedIsCompleting'
    BY <1>9, <2>1 DEF PublishAdvice, StateOK, HeldIsRunning, AdvisedIsCompleting
  <2>5. QueueOK' /\ QueueHoldsQueued' /\ NotYetCreated'
    BY <1>9, <2>1, SameQueue DEF PublishAdvice, StateOK, QueueHoldsQueued, NotYetCreated
  <2> QED
    BY <1>9, <2>2, <2>3, <2>4, <2>5 DEF PublishAdvice
<1> QED
  BY <1>1, <1>2, <1>3, <1>6, <1>7, <1>8, <1>9 DEF Worker

LEMMA LifespanPlacement ==
    ASSUME Placement, Lifespan
    PROVE  Placement'
<1> USE Membership DEF Placement, Manage, threadVars
<1>1. CASE Stop
  <2>1. /\ stops \in Nat /\ MaxStops \in Nat /\ stops' = stops + 1 /\ stops' \in 0..MaxStops
        /\ \A n \in 0..MaxStops : n > stops' \/ n = stops' => n > stops
    BY <1>1, WorkerAssumption DEF Stop, StateOK
  <2>2. StateOK'
    BY <1>1, <2>1 DEF Stop, StateOK
  <2>3. NotYetCreated'
    BY <1>1, <2>1 DEF Stop, NotYetCreated
  <2>4. QueueOK' /\ QueueHoldsQueued' /\ HeldIsRunning' /\ AdvisedIsCompleting'
    BY <1>1, SameQueue DEF Stop, QueueHoldsQueued, HeldIsRunning, AdvisedIsCompleting
  <2> QED
    BY <1>1, <2>2, <2>3, <2>4 DEF Stop
<1>2. CASE PutNone
  <2>1. queue' = Append(queue, NoJob)
    BY <1>2 DEF PutNone
  <2>2. QueueOK' /\ Entries(queue') \ {NoJob} = Entries(queue) \ {NoJob}
    BY <2>1, PutNoneKeepsQueue
  <2>3. /\ lifespan = "poison" /\ lifespan' \in {"join"}
        /\ UNCHANGED <<threadVars, held, status, llmUsed, stops, handoff>>
    BY <1>2 DEF PutNone
  <2>4. StateOK' /\ HeldIsRunning' /\ AdvisedIsCompleting' /\ NotYetCreated'
    BY <2>3 DEF StateOK, HeldIsRunning, AdvisedIsCompleting, NotYetCreated
  <2>5. QueueHoldsQueued'
    BY <2>2, <2>3 DEF QueueHoldsQueued
  <2> QED
    BY <2>2, <2>3, <2>4, <2>5
<1>3. CASE Forget
  BY <1>3, SameQueue DEF Forget, StateOK, QueueHoldsQueued, HeldIsRunning,
              AdvisedIsCompleting, NotYetCreated
<1>4. CASE RestartCheck
  BY <1>4, SameQueue DEF RestartCheck, AlreadyStarted, NotStarted, StateOK, QueueHoldsQueued, HeldIsRunning,
              AdvisedIsCompleting, NotYetCreated
<1>5. CASE RestartSetRunning
  BY <1>5, SameQueue DEF RestartSetRunning, SetRunning, StateOK, QueueHoldsQueued, HeldIsRunning,
              AdvisedIsCompleting, NotYetCreated
<1>6. CASE RestartCreateWorker
  <2>1. stops \in Threads /\ stops \notin Jobs /\ worker[stops] = "none" /\ lifespan = "create"
    BY <1>6 DEF RestartCreateWorker, StateOK, NotYetCreated
  <2>2. StateOK'
    BY <1>6, <2>1 DEF RestartCreateWorker, CreateWorker, StateOK
  <2>3. QueueOK' /\ QueueHoldsQueued'
    BY <1>6, SameQueue DEF RestartCreateWorker, QueueHoldsQueued
  <2>4. HeldIsRunning'
    BY <1>6, <2>1 DEF RestartCreateWorker, CreateWorker, StateOK, HeldIsRunning
  <2>5. AdvisedIsCompleting'
    BY <1>6, <2>1 DEF RestartCreateWorker, CreateWorker, StateOK, AdvisedIsCompleting
  <2>6. NotYetCreated'
    BY <1>6, <2>1, WorkerAssumption DEF RestartCreateWorker, CreateWorker, StateOK, NotYetCreated
  <2> QED
    BY <1>6, <2>2, <2>3, <2>4, <2>5, <2>6 DEF RestartCreateWorker, CreateWorker
<1>7. CASE JoinRaises
  BY <1>7, SameQueue DEF JoinRaises, StateOK, QueueHoldsQueued, HeldIsRunning,
              AdvisedIsCompleting, NotYetCreated
<1>8. CASE RestartStartWorker
  <2>1. /\ lifespan' \in {"up", "failed"}
        /\ UNCHANGED <<running, newest, held, queue, status, llmUsed, stops, handoff>>
        /\ \/ UNCHANGED worker
           \/ \E u \in newest :
                 worker[u] = "created" /\ worker' = [worker EXCEPT ![u] = "loop"]
    BY <1>8 DEF RestartStartWorker, StartWorker, StartRaises
  <2>2. newest \subseteq Threads
    BY DEF StateOK
  <2>3. QueueOK' /\ QueueHoldsQueued'
    BY <2>1, SameQueue DEF QueueHoldsQueued
  <2>4. StateOK' /\ HeldIsRunning' /\ AdvisedIsCompleting' /\ NotYetCreated'
    BY <2>1, <2>2 DEF StateOK, HeldIsRunning, AdvisedIsCompleting, NotYetCreated
  <2> QED
    BY <2>1, <2>3, <2>4
<1> QED
  BY <1>1, <1>2, <1>3, <1>4, <1>5, <1>6, <1>7, <1>8 DEF Lifespan

LEMMA NextPlacement == Placement /\ [Next]_vars => Placement'
<1> SUFFICES ASSUME Placement, [Next]_vars PROVE Placement'
  OBVIOUS
<1>1. CASE Next
  <2>1. CASE Consume
    BY <2>1, SameQueue DEF Consume, Placement, threadVars, StateOK, QueueHoldsQueued,
                HeldIsRunning, AdvisedIsCompleting, NotYetCreated
  <2> QED
    BY <1>1, <2>1, SubmissionPlacement, WorkerPlacement, LifespanPlacement DEF Next
<1>2. CASE UNCHANGED vars
  BY <1>2, SameQueue DEF vars, Placement, StateOK, QueueHoldsQueued, HeldIsRunning,
              AdvisedIsCompleting, NotYetCreated
<1> QED
  BY <1>1, <1>2

LEMMA AlwaysPlacement == Spec => []Placement
  BY InitPlacement, NextPlacement, PTL DEF Spec
-----------------------------------------------------------------------------
(* The properties.                                                            *)

\* Every variable stays in range (strategic_worker.py 30-105), with any number
\* of submissions, stops and restarts.
THEOREM TypeCorrect == Spec => []TypeOK
<1>1. Placement => TypeOK
  BY TypeParts DEF Placement, QueueOK
<1> QED
  BY <1>1, AlwaysPlacement, PTL

\* No job is lost between the queue and a thread, or run by two threads, however
\* many workers a race left alive (strategic_worker.py 64-70).
THEOREM NoJobIsLost == Spec => []EachJobSomewhere
<1>1. ASSUME Placement, NEW j \in Jobs, status[j] = "queued"
      PROVE  \E i \in 1..Len(queue) : queue[i] = j
  <2>1. j \in Entries(queue)
    BY <1>1 DEF Placement, QueueHoldsQueued
  <2> QED
    BY <2>1 DEF Entries
<1>2. ASSUME Placement, NEW j \in Jobs, status[j] = "running"
      PROVE  \E t \in Alive : held[t] = j /\ \A u \in Alive : held[u] = j => u = t
  <2>1. PICK t \in Threads : held[t] = j
    BY <1>2 DEF Placement, HeldIsRunning
  <2>2. t \in Alive /\ \A u \in Threads : held[u] = j => u = t
    BY <1>2, <2>1, Membership DEF Placement, HeldIsRunning, Alive
  <2> QED
    BY <2>1, <2>2 DEF Alive
<1>3. Placement => EachJobSomewhere
  BY <1>1, <1>2 DEF EachJobSomewhere
<1> QED
  BY <1>3, AlwaysPlacement, PTL

\* What the handoff slot holds was recommended by the model: a fallback or a
\* failure leaves nothing there (strategic_worker.py 75-105).
THEOREM FallbackIsNotHandedOff == Spec => []AdviceFromModel
<1>1. Placement => AdviceFromModel
  BY DEF Placement, AdvisedIsCompleting, AdviceFromModel
<1> QED
  BY <1>1, AlwaysPlacement, PTL

\* Before the first stop the lifespan's worker is there, so no submission ever
\* starts another one.
FirstWorker ==
    stops = 0 =>
        /\ running = TRUE /\ newest = {0} /\ lifespan = "up"
        /\ worker[0] \notin {"none", "created", "exited"}
        /\ \A t \in Threads : t # 0 => worker[t] = "none"
        /\ \A j \in Jobs : status[j] \notin {"set", "create", "start"}

\* A step of a live thread: it becomes neither new nor, while the flag is set,
\* exited, and it starts no submission.
LEMMA WorkerStep ==
    ASSUME NEW t \in Threads, Worker(t)
    PROVE  /\ worker[t] # "none" /\ UNCHANGED <<running, newest, lifespan, stops>>
           /\ \E to \in {"loop", "get", "reason", "complete", "exited"} :
                  /\ worker' = [worker EXCEPT ![t] = to]
                  /\ to = "exited" => ~running
           /\ \E j, result :
                  /\ result \in {"running"} \cup Finished
                  /\ status' = status \/ status' = [status EXCEPT ![j] = result]
  BY DEF Worker, Work, CheckRunning, TakeNone, TakeJob, FailJob, PlanWithoutModel,
         PublishAdvice, CompleteJob, FinishAs, Finished

\* While the worker is up, all the lifespan can do is to stop it.
LEMMA LifespanStep == Lifespan => Stop \/ (lifespan # "up" /\ UNCHANGED stops)
  BY DEF Lifespan, Stop, PutNone, Forget, JoinRaises, RestartCheck, RestartSetRunning,
         RestartCreateWorker, RestartStartWorker, Manage

\* Until the lifespan stops the worker there is one, whatever submissions race
\* to start it (strategic_worker.py 31-35).
THEOREM OneWorker == Spec => []OneWorkerUntilStop
<1>1. Init => FirstWorker
  <2>1. Init => /\ running = TRUE /\ newest = {0} /\ lifespan = "up"
                /\ worker = [t \in Threads |-> IF t = 0 THEN "loop" ELSE "none"]
                /\ status = [j \in Jobs |-> "new"]
    BY DEF Init
  <2> QED
    BY <2>1, Membership DEF FirstWorker
<1> USE Membership
<1>2. Placement /\ FirstWorker /\ [Next]_vars => FirstWorker'
  <2> SUFFICES ASSUME Placement, FirstWorker, [Next]_vars, stops' = 0 PROVE FirstWorker'
    BY DEF FirstWorker
  <2> USE DEF FirstWorker, threadVars
  <2>1. StateOK
    BY DEF Placement
  <2>2. ASSUME NEW j \in Jobs, Submit(j) \/ Submission(j) PROVE FirstWorker'
    <3>1. CASE Submit(j)
      BY <2>1, <3>1 DEF Submit, Submitting, StateOK
    <3>2. CASE CheckWorker(j)
      BY <2>1, <3>2 DEF CheckWorker, Submitting, StateOK
    <3>3. CASE SetRunningFor(j)
      BY <2>1, <3>3 DEF SetRunningFor, SetRunning, Submitting, StateOK
    <3>4. CASE CreateWorkerFor(j)
      BY <2>1, <3>4 DEF CreateWorkerFor, Submitting
    <3>5. CASE Enqueue(j)
      <4>1. /\ status[j] = "put" /\ status' = [status EXCEPT ![j] = "queued"]
            /\ UNCHANGED <<threadVars, held, llmUsed, lifespan, stops, handoff>>
        BY <3>5 DEF Enqueue, Submitting
      <4> QED
        BY <2>1, <4>1 DEF StateOK
    <3>6. CASE CheckAlive(j)
      <4>1. UNCHANGED threadVars /\ UNCHANGED <<lifespan, stops>>
        BY <3>6 DEF CheckAlive, Submitting, AlreadyStarted, NotStarted
      <4>2. newest \cap Alive # {}
        BY <4>1 DEF Alive
      <4>3. \E to \in {"put", "refused"} : status' = [status EXCEPT ![j] = to]
        BY <3>6, <4>2 DEF CheckAlive, Submitting, NotStarted
      <4> QED
        BY <2>1, <4>1, <4>3 DEF StateOK
    <3>7. CASE StartWorkerFor(j)
      BY <2>1, <3>7 DEF StartWorkerFor, Submitting, StateOK
    <3> QED
      BY <2>2, <3>1, <3>2, <3>3, <3>4, <3>5, <3>6, <3>7 DEF Submission
  <2>3. ASSUME NEW t \in Threads, Worker(t) PROVE FirstWorker'
    <3>1. \A j \in Jobs : status'[j] \in {"set", "create", "start"} => status[j] \in {"set", "create", "start"}
      <4>1. PICK k, result : /\ result \in {"running"} \cup Finished
                             /\ status' = status \/ status' = [status EXCEPT ![k] = result]
        BY <2>3, WorkerStep
      <4> QED
        BY <2>1, <4>1 DEF StateOK, Finished
    <3>2. /\ worker[t] # "none" /\ UNCHANGED <<running, newest, lifespan, stops>>
          /\ \E to \in {"loop", "get", "reason", "complete", "exited"} :
                 /\ worker' = [worker EXCEPT ![t] = to]
                 /\ to = "exited" => ~running
      BY <2>3, WorkerStep
    <3> QED
      BY <2>1, <3>1, <3>2 DEF StateOK
  <2>4. CASE Consume
    BY <2>4 DEF Consume
  <2>5. CASE Lifespan
    <3>1. ~Stop
      BY <2>1 DEF Stop, StateOK
    <3> QED
      BY <2>5, <3>1, LifespanStep
  <2>6. CASE UNCHANGED vars
    BY <2>6 DEF vars
  <2> QED
    BY <2>2, <2>3, <2>4, <2>5, <2>6 DEF Next
<1>3. FirstWorker => OneWorkerUntilStop
  BY DEF FirstWorker, OneWorkerUntilStop, Alive
<1> QED
  BY <1>1, <1>2, <1>3, AlwaysPlacement, PTL DEF Spec
-----------------------------------------------------------------------------
(* The worker implements the abstract specification the control loop's model  *)
(* uses.                                                                      *)

AdviceUnchanged == UNCHANGED <<Outstanding, Ended, handoff>>

LEMMA InitAdvice == Init => Advice!AdviceInit
<1>1. Init => status = [j \in Jobs |-> "new"] /\ llmUsed = {} /\ handoff = NoJob
  BY DEF Init
<1> QED
  BY <1>1 DEF Advice!AdviceInit, Outstanding, Ended, Finished

\* A submission that is not queued yet and the steps of the lifespan are
\* stuttering steps.
LEMMA SubmissionAdvice ==
    ASSUME Placement, NEW j \in Jobs, Submit(j) \/ Submission(j)
    PROVE  Advice!SubmitJob(j) \/ AdviceUnchanged
<1>1. StateOK
  BY DEF Placement
<1>2. PICK from, to :
        /\ status[j] = from /\ status' = [status EXCEPT ![j] = to]
        /\ from \in {"new", "check", "alive", "set", "create", "start", "put"}
        /\ to \in {"check", "alive", "set", "create", "start", "refused", "put", "queued"}
        /\ UNCHANGED <<llmUsed, handoff>>
        /\ to = "queued" => from = "put"
  BY DEF Submission, Submit, CheckWorker, CheckAlive, SetRunningFor, CreateWorkerFor,
         StartWorkerFor, Enqueue, Submitting
<1>3. j \notin llmUsed
  BY <1>2 DEF Placement, AdvisedIsCompleting, HeldIsRunning
<1>4. CASE to = "queued"
  BY <1>1, <1>2, <1>3, <1>4 DEF StateOK, Advice!SubmitJob, Outstanding, Ended, Finished
<1>5. CASE to # "queued"
  BY <1>1, <1>2, <1>3, <1>5 DEF StateOK, AdviceUnchanged, Outstanding, Ended, Finished
<1> QED
  BY <1>4, <1>5

\* A thread takes a job or completes an advised one (both stutter), or ends it.
LEMMA WorkerAdvice ==
    ASSUME Placement, NEW t \in Threads, Worker(t)
    PROVE  \/ \E j \in Jobs : Advice!Advise(j) \/ Advice!EndWithoutAdvice(j)
           \/ AdviceUnchanged
<1>1. StateOK /\ HeldIsRunning /\ AdvisedIsCompleting
  BY DEF Placement
<1>2. CASE CheckRunning(t) \/ TakeNone(t)
  <2>1. UNCHANGED <<status, llmUsed, handoff>>
    BY <1>2 DEF CheckRunning, TakeNone
  <2> QED
    BY <2>1 DEF AdviceUnchanged, Outstanding, Ended
<1>3. CASE TakeJob(t)
  <2>1. PICK j : j = Head(queue)
    OBVIOUS
  <2>2. queue # <<>> /\ queue' = Tail(queue) /\ j # NoJob
    BY <1>3, <2>1 DEF TakeJob
  <2>3. j \in Entries(queue)
    BY <2>1, <2>2, TakeJobFromQueue DEF Placement
  <2>4. j \in Jobs /\ status[j] = "queued"
    BY <2>2, <2>3 DEF Placement, QueueHoldsQueued
  <2>5. status' = [status EXCEPT ![j] = "running"] /\ UNCHANGED <<llmUsed, handoff>>
    BY <1>3, <2>1 DEF TakeJob
  <2> QED
    BY <1>1, <2>4, <2>5 DEF StateOK, AdviceUnchanged, Outstanding, Ended, Finished
<1>4. CASE FailJob(t) \/ PlanWithoutModel(t)
  <2>1. PICK result \in Finished :
          /\ status' = [status EXCEPT ![held[t]] = result]
          /\ worker[t] = "reason" /\ UNCHANGED <<llmUsed, handoff>>
    BY <1>4 DEF FailJob, PlanWithoutModel, Work, FinishAs, Finished
  <2>2. held[t] \in Jobs /\ status[held[t]] = "running" /\ held[t] \notin llmUsed
    BY <1>1, <2>1 DEF StateOK, HeldIsRunning, AdvisedIsCompleting
  <2>3. Advice!EndWithoutAdvice(held[t])
    BY <1>1, <2>1, <2>2
       DEF StateOK, Advice!EndWithoutAdvice, Advice!End, Outstanding, Ended, Finished
  <2> QED
    BY <2>2, <2>3
<1>5. CASE PublishAdvice(t)
  <2>1. /\ worker[t] = "reason" /\ handoff' = held[t] /\ llmUsed' = llmUsed \cup {held[t]}
        /\ UNCHANGED status
    BY <1>5 DEF PublishAdvice, Work
  <2>2. held[t] \in Jobs /\ status[held[t]] = "running" /\ held[t] \notin llmUsed
    BY <1>1, <2>1 DEF StateOK, HeldIsRunning, AdvisedIsCompleting
  <2>3. Advice!Advise(held[t])
    BY <1>1, <2>1, <2>2 DEF StateOK, Advice!Advise, Advice!End, Outstanding, Ended, Finished
  <2> QED
    BY <2>2, <2>3
<1>6. CASE CompleteJob(t)
  <2>1. /\ status' = [status EXCEPT ![held[t]] = "completed"] /\ worker[t] = "complete"
        /\ UNCHANGED <<llmUsed, handoff>>
    BY <1>6 DEF CompleteJob, Work, FinishAs
  <2>2. held[t] \in Jobs /\ status[held[t]] = "running" /\ held[t] \in llmUsed
    BY <1>1, <2>1 DEF StateOK, HeldIsRunning, AdvisedIsCompleting
  <2> QED
    BY <1>1, <2>1, <2>2 DEF StateOK, AdviceUnchanged, Outstanding, Ended, Finished
<1> QED
  BY <1>2, <1>3, <1>4, <1>5, <1>6 DEF Worker

LEMMA NextAdvice == Placement /\ [Next]_vars => [Advice!AdviceNext]_(Advice!adviceVars)
<1> SUFFICES ASSUME Placement, [Next]_vars
             PROVE  Advice!AdviceNext \/ AdviceUnchanged
  BY DEF AdviceUnchanged, Advice!adviceVars
<1>1. ASSUME NEW j \in Jobs, Submit(j) \/ Submission(j)
      PROVE  Advice!AdviceNext \/ AdviceUnchanged
  BY <1>1, SubmissionAdvice DEF Advice!AdviceNext
<1>2. ASSUME NEW t \in Threads, Worker(t)
      PROVE  Advice!AdviceNext \/ AdviceUnchanged
  BY <1>2, WorkerAdvice DEF Advice!AdviceNext
<1>3. CASE Consume
  <2>1. handoff' = NoJob /\ UNCHANGED <<status, llmUsed>>
    BY <1>3 DEF Consume
  <2>2. Advice!Consume
    BY <2>1 DEF Advice!Consume, Outstanding, Ended
  <2> QED
    BY <2>2 DEF Advice!AdviceNext
<1>4. CASE Lifespan
  <2>1. UNCHANGED <<status, llmUsed, handoff>>
    BY <1>4 DEF Lifespan, Stop, PutNone, Forget, JoinRaises, RestartCheck,
                RestartSetRunning, RestartCreateWorker, RestartStartWorker, Manage
  <2> QED
    BY <2>1 DEF AdviceUnchanged, Outstanding, Ended
<1>5. CASE UNCHANGED vars
  BY <1>5 DEF vars, AdviceUnchanged, Outstanding, Ended
<1> QED
  BY <1>1, <1>2, <1>3, <1>4, <1>5 DEF Next

\* However many workers a race left alive, each job ends once, and advice comes
\* from a job that was outstanding: the worker implements AdviceService
\* (strategic_worker.py 63-105).
THEOREM WorkerImplementsService == Spec => ImplementsAdviceService
  BY InitAdvice, NextAdvice, AlwaysPlacement, PTL
     DEF Spec, ImplementsAdviceService, Advice!AdviceSpec
=============================================================================
