-------------------------- MODULE StrategicWorker ---------------------------
(* The strategic work queue (app/services/strategic_worker.py): submissions   *)
(* from the control loop and from API threads, the worker threads that run    *)
(* the jobs, and the application's lifespan, which starts and stops the       *)
(* worker. start, stop and submit take no lock: they share the running flag,  *)
(* the reference to the newest thread and the queue, one step at a time. The  *)
(* initial state is the one the lifespan leaves at startup.                   *)
(*                                                                            *)
(* A submission is named by its job; it goes through                          *)
(*   "new" -> "check" -> "alive" -> [ "set" -> "create" -> "start" -> ]       *)
(*   "put" -> "queued"                                                        *)
(* and the job then through "running" to "completed" or "failed". A           *)
(* submission that loses a race inside start is "refused": start raises, and  *)
(* there is no job.                                                           *)
EXTENDS Naturals, Sequences

CONSTANTS
    Jobs,                    \* the submissions that may be made
    NoJob,                   \* no job, and the None that stop puts in the queue
    MaxStops                 \* bound: how often the lifespan stops the worker

ASSUME WorkerAssumption ==
    /\ NoJob \notin Jobs
    /\ MaxStops \in Nat
    /\ Jobs \cap Nat = {}    \* submissions and restarts are different threads

\* Threads are named by the submission, or the number of stops before the
\* restart, that created them; the first one is thread 0.
Threads == Jobs \cup 0..MaxStops

VARIABLES
    running,                 \* _running
    newest,                  \* _thread: a set of at most one thread
    worker,                  \* the program point of each thread
    held,                    \* the job a thread took
    queue,                   \* _queue
    status,                  \* the program point of a submission, then the job's status
    llmUsed,                 \* the jobs whose plan the model recommended
    lifespan,                \* the program point of start and stop in the lifespan
    stops,                   \* how often stop was called
    handoff                  \* the job whose advice is in the policy handoff slot

threadVars == <<running, newest, worker>>
vars == <<running, newest, worker, held, queue, status, llmUsed, lifespan, stops, handoff>>

\* A thread that was created and not started yet is not alive.
Alive == {t \in Threads : worker[t] \notin {"none", "created", "exited"}}

Finished == {"completed", "failed"}

Init ==
    /\ running = TRUE
    /\ newest = {0}
    /\ worker = [t \in Threads |-> IF t = 0 THEN "loop" ELSE "none"]
    /\ held = [t \in Threads |-> NoJob]
    /\ queue = <<>>
    /\ status = [j \in Jobs |-> "new"]
    /\ llmUsed = {}
    /\ lifespan = "up"
    /\ stops = 0
    /\ handoff = NoJob
-----------------------------------------------------------------------------
(* start, called by the lifespan and by every submission.                     *)

\* The newest thread is alive: nothing is started.
AlreadyStarted == newest \cap Alive # {} /\ UNCHANGED threadVars

NotStarted == newest \cap Alive = {} /\ UNCHANGED threadVars

SetRunning == running' = TRUE /\ UNCHANGED <<newest, worker>>

\* The thread is created and remembered.
CreateWorker(t) ==
    /\ newest' = {t}
    /\ worker' = [worker EXCEPT ![t] = "created"]
    /\ UNCHANGED running

\* The newest thread is started, whoever created it; ...
StartWorker ==
    /\ \E t \in newest :
        /\ worker[t] = "created"
        /\ worker' = [worker EXCEPT ![t] = "loop"]
    /\ UNCHANGED <<running, newest>>

\* ... when it was started already, or stop dropped the reference, this raises.
StartRaises ==
    /\ \A t \in newest : worker[t] # "created"
    /\ UNCHANGED threadVars
-----------------------------------------------------------------------------
(* submit                                                                     *)

Submitting(j, from, to) ==
    /\ status[j] = from
    /\ status' = [status EXCEPT ![j] = to]
    /\ UNCHANGED <<held, llmUsed, lifespan, stops, handoff>>

Submit(j) == Submitting(j, "new", "check") /\ UNCHANGED <<threadVars, queue>>

\* The reference is read to see that there is a thread, ...
CheckWorker(j) ==
    /\ Submitting(j, "check", IF newest = {} THEN "set" ELSE "alive")
    /\ UNCHANGED <<threadVars, queue>>

\* ... and read again to see that the thread is alive, which raises when stop
\* dropped the reference in between.
CheckAlive(j) ==
    /\ \/ Submitting(j, "alive", "put") /\ AlreadyStarted
       \/ Submitting(j, "alive", "set") /\ newest # {} /\ NotStarted
       \/ Submitting(j, "alive", "refused") /\ newest = {} /\ UNCHANGED threadVars
    /\ UNCHANGED queue

SetRunningFor(j) == Submitting(j, "set", "create") /\ SetRunning /\ UNCHANGED queue

CreateWorkerFor(j) == Submitting(j, "create", "start") /\ CreateWorker(j) /\ UNCHANGED queue

StartWorkerFor(j) ==
    /\ \/ Submitting(j, "start", "put") /\ StartWorker
       \/ Submitting(j, "start", "refused") /\ StartRaises
    /\ UNCHANGED queue

\* The job is registered and its id put in the queue.
Enqueue(j) ==
    /\ Submitting(j, "put", "queued")
    /\ queue' = Append(queue, j)
    /\ UNCHANGED threadVars
-----------------------------------------------------------------------------
(* _run                                                                       *)

Work(t, from, to) ==
    /\ worker[t] = from
    /\ worker' = [worker EXCEPT ![t] = to]
    /\ UNCHANGED <<running, newest, lifespan, stops>>

\* The head of the loop.
CheckRunning(t) ==
    /\ Work(t, "loop", IF running THEN "get" ELSE "exited")
    /\ UNCHANGED <<held, queue, status, llmUsed, handoff>>

\* Mutant of TakeNone: what is queued at a stop is thrown away.
DrainQueue(t) ==
    /\ Work(t, "get", "loop")
    /\ queue # <<>> /\ Head(queue) = NoJob
    /\ queue' = <<>>
    /\ UNCHANGED <<held, status, llmUsed, handoff>>

\* None wakes the thread up to look at the running flag again.
TakeNone(t) ==
    /\ Work(t, "get", "loop")
    /\ queue # <<>> /\ Head(queue) = NoJob
    /\ queue' = Tail(queue)
    /\ UNCHANGED <<held, status, llmUsed, handoff>>

\* Mutant of TakeJob: the job stays in the queue while it runs.
PeekJob(t) ==
    /\ Work(t, "get", "reason")
    /\ queue # <<>> /\ Head(queue) # NoJob
    /\ held' = [held EXCEPT ![t] = Head(queue)]
    /\ status' = [status EXCEPT ![Head(queue)] = "running"]
    /\ UNCHANGED <<queue, llmUsed, handoff>>

\* Mutant of TakeJob: None is not told from a job.
TakeAnything(t) ==
    /\ Work(t, "get", "reason")
    /\ queue # <<>>
    /\ queue' = Tail(queue)
    /\ held' = [held EXCEPT ![t] = Head(queue)]
    /\ status' = [j \in Jobs |-> IF j = Head(queue) THEN "running" ELSE status[j]]
    /\ UNCHANGED <<llmUsed, handoff>>

TakeJob(t) ==
    /\ Work(t, "get", "reason")
    /\ queue # <<>> /\ Head(queue) # NoJob
    /\ queue' = Tail(queue)
    /\ held' = [held EXCEPT ![t] = Head(queue)]
    /\ status' = [status EXCEPT ![Head(queue)] = "running"]
    /\ UNCHANGED <<llmUsed, handoff>>

FinishAs(t, result) ==
    /\ status' = [status EXCEPT ![held[t]] = result]
    /\ held' = [held EXCEPT ![t] = NoJob]
    /\ UNCHANGED queue

\* No telemetry, or the model's answer raises something else than
\* OllamaUnavailable.
FailJob(t) ==
    /\ Work(t, "reason", "loop")
    /\ FinishAs(t, "failed")
    /\ UNCHANGED <<llmUsed, handoff>>

\* OllamaUnavailable: the deterministic plan, and no handoff.
PlanWithoutModel(t) ==
    /\ Work(t, "reason", "loop")
    /\ FinishAs(t, "completed")
    /\ UNCHANGED <<llmUsed, handoff>>

\* The model's recommendation replaces what the handoff slot holds, ...
PublishAdvice(t) ==
    /\ Work(t, "reason", "complete")
    /\ handoff' = held[t]
    /\ llmUsed' = llmUsed \cup {held[t]}
    /\ UNCHANGED <<held, queue, status>>

\* ... and the job is completed after it.
CompleteJob(t) ==
    /\ Work(t, "complete", "loop")
    /\ FinishAs(t, "completed")
    /\ UNCHANGED <<llmUsed, handoff>>

\* PolicyHandoffQueue.consume, by the control loop.
Consume ==
    /\ handoff' = NoJob
    /\ UNCHANGED <<threadVars, held, queue, status, llmUsed, lifespan, stops>>
-----------------------------------------------------------------------------
(* The lifespan: start, stop, and start again in the same process.            *)

Manage(from, to) ==
    /\ lifespan = from
    /\ lifespan' = to
    /\ UNCHANGED <<held, status, llmUsed, handoff>>

Stop ==
    /\ Manage("up", "poison")
    /\ stops < MaxStops /\ stops' = stops + 1
    /\ running' = FALSE
    /\ UNCHANGED <<newest, worker, queue>>

PutNone ==
    /\ Manage("poison", "join")
    /\ queue' = Append(queue, NoJob)
    /\ UNCHANGED <<threadVars, stops>>

\* join returns when the thread has exited or after two seconds, whichever is
\* first; the reference is dropped in both cases, also one that a submission set
\* while stop was waiting.
Forget ==
    /\ Manage("join", "down")
    /\ newest' = {}
    /\ UNCHANGED <<running, worker, queue, stops>>

\* join raises on a thread that a submission created and did not start yet.
JoinRaises ==
    /\ Manage("join", "down")
    /\ \E t \in newest : worker[t] = "created"
    /\ UNCHANGED <<threadVars, queue, stops>>

RestartCheck ==
    /\ \/ Manage("down", "up") /\ AlreadyStarted
       \/ Manage("down", "set") /\ NotStarted
    /\ UNCHANGED <<queue, stops>>

RestartSetRunning == Manage("set", "create") /\ SetRunning /\ UNCHANGED <<queue, stops>>

RestartCreateWorker ==
    /\ Manage("create", "start")
    /\ CreateWorker(stops)
    /\ UNCHANGED <<queue, stops>>

\* Without its worker the application does not come up.
RestartStartWorker ==
    /\ \/ Manage("start", "up") /\ StartWorker
       \/ Manage("start", "failed") /\ StartRaises
    /\ UNCHANGED <<queue, stops>>
-----------------------------------------------------------------------------
Submission(j) ==
    \/ CheckWorker(j) \/ CheckAlive(j)
    \/ SetRunningFor(j) \/ CreateWorkerFor(j) \/ StartWorkerFor(j)
    \/ Enqueue(j)

Worker(t) ==
    \/ CheckRunning(t) \/ TakeNone(t) \/ TakeJob(t)
    \/ FailJob(t) \/ PlanWithoutModel(t) \/ PublishAdvice(t) \/ CompleteJob(t)

Lifespan ==
    \/ Stop \/ PutNone \/ Forget \/ JoinRaises
    \/ RestartCheck \/ RestartSetRunning \/ RestartCreateWorker \/ RestartStartWorker

Next ==
    \/ \E j \in Jobs : Submit(j) \/ Submission(j)
    \/ \E t \in Threads : Worker(t)
    \/ Consume
    \/ Lifespan

Spec == Init /\ [][Next]_vars

\* Threads keep running: a submission that began returns, a worker goes on (the
\* model's answers have a timeout), and so does a stop or a restart that began.
Fairness ==
    /\ \A j \in Jobs : WF_vars(Submission(j))
    /\ \A t \in Threads : WF_vars(Worker(t))
    /\ WF_vars(PutNone \/ Forget \/ JoinRaises)
    /\ WF_vars(RestartSetRunning \/ RestartCreateWorker \/ RestartStartWorker)

FairSpec == Spec /\ Fairness
-----------------------------------------------------------------------------
(* Properties.                                                                *)

TypeOK ==
    /\ running \in BOOLEAN
    /\ newest \in {{}} \cup {{t} : t \in Threads}
    /\ worker \in [Threads -> {"none", "created", "loop", "get", "reason", "complete",
                            "exited"}]
    /\ held \in [Threads -> Jobs \cup {NoJob}]
    /\ queue \in Seq(Jobs \cup {NoJob})
    /\ status \in [Jobs -> {"new", "check", "alive", "set", "create", "start", "refused",
                            "put", "queued", "running"} \cup Finished]
    /\ llmUsed \subseteq Jobs
    /\ lifespan \in {"up", "poison", "join", "down", "set", "create", "start", "failed"}
    /\ stops \in 0..MaxStops
    /\ handoff \in Jobs \cup {NoJob}

\* However many workers a race left alive, each job ends once, and advice comes
\* only from a job that was outstanding (strategic_worker.py 63-105): what the
\* control loop's model assumes of the worker.
Outstanding ==
    {j \in Jobs : status[j] \in {"queued", "running"}} \ llmUsed

Ended == {j \in Jobs : status[j] \in Finished} \cup llmUsed

Advice == INSTANCE AdviceService WITH outstanding <- Outstanding, ended <- Ended

ImplementsAdviceService == Advice!AdviceSpec

\* A deterministic plan or a failure leaves nothing in the handoff slot: the job
\* named there was advised by the model, and is completed or about to be
\* (SYSTEM_ARCHITECTURE_AABOS.md, section 12: "no LLM handoff is applied").
AdviceFromModel ==
    handoff # NoJob =>
        /\ handoff \in llmUsed
        /\ \/ status[handoff] = "completed"
           \/ \E t \in Threads : held[t] = handoff /\ worker[t] = "complete"

\* Until the lifespan stops the worker there is one thread, whatever races to
\* start it (strategic_worker.py 31-35).
OneWorkerUntilStop == stops = 0 => Alive = {0}

\* A job waits in the queue or is held by one live thread; none is dropped
\* between them or run by two threads (strategic_worker.py 64-70).
EachJobSomewhere ==
    \A j \in Jobs :
        /\ status[j] = "queued" => \E i \in 1..Len(queue) : queue[i] = j
        /\ status[j] = "running" =>
             \E t \in Alive : held[t] = j /\ \A u \in Alive : held[u] = j => u = t

\* A queued job ends once a worker that is not stopped any more serves the
\* queue, also a job that an earlier worker left behind (strategic_worker.py
\* 31-35, 64-70).
Serving == running /\ newest \cap Alive # {}

QueuedJobsEnd ==
    <>[]Serving => \A j \in Jobs : status[j] = "queued" ~> status[j] \in Finished
=============================================================================
