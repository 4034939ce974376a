# TLA+ models of AABOS, the autonomous building controller

The repository (`src/`) is a FastAPI service that runs an EnergyPlus building
simulation, turns its telemetry into HVAC, ventilation and lighting setpoints, and
lets a local language model advise on the policy. This directory holds models of
its control core and of what feeds it in TLA+, the TLC runs that check them on small instances, and
proofs of their main properties for every value of the constants.

Run a check with `tlc -config <run>.cfg <module>.tla` and a proof with
`tlapm <module>.tla`; `PROJECT.json` lists which module goes with which run, the
source lines behind each definition, and for each property a mutant of the code
that breaks it.

## 1. The system

| component | state | operations | who calls it |
|---|---|---|---|
| Safety Sentinel `services/safety_sentinel.py` | instant of the last accepted change, three deltas; no lock | `validate` | gateway, self-healing loop |
| Control gateway `services/control_gateway.py` | none of its own | `apply_safe_setpoints`: read the store, validate, write the store | every writer below |
| Building state `simulation/state.py` | setpoints, telemetry, subscriber queues; a lock per call | `get_setpoints`, `update_setpoints`, `publish_telemetry`, `subscribe` | all |
| Routes and MCP tools that write `api/routes/{setpoints,decisions,self_healing}.py`, `mcp/server.py` | none | PUT setpoints, POST decisions/apply, POST self-healing/evaluate | operators, on API threads; the MCP server is a process of its own with state of its own |
| Policy table and self-healing loop `services/{decision_engine,self_healing}.py` | active policy, previous setpoints | `evaluate`, `register_applied_policy` | control loop, routes |
| Autonomous control loop `services/autonomous_control.py` | the status (active policy, fallback flag, comfort) | `process`, once per telemetry event (12 s) | EnergyPlus runner |
| Policy handoff `services/policy_handoff.py` | one slot | `publish`, `consume` | strategic worker; control loop |
| Strategic worker `services/strategic_worker.py` | running flag, thread reference, queue, jobs; start/stop/submit take no lock | `start`, `stop`, `submit`, `_run` | lifespan, control loop, POST strategy/jobs |
| Goal management `services/goal_management.py` | goals and their status | `assess`, `create`, `generate_proactive`, `active_goal` | control loop, routes |
| Decision engine and agents `services/{decision_engine,adaptive_policy}.py`, `agents/` | none | four votes, arbitration with a learned preference | control loop, reasoner |
| Automation Memory `services/automation_memory.py` | bounded history, queue to the database, a writing thread | `start`, `stop`, `record`, `_persist_loop` | lifespan; control loop, routes; the thread |
| EnergyPlus runner `simulation/{energyplus_runner,idf_writer}.py` | running flag, task, process, generated model, output files, frames | `start`, `stop`, `run_loop`, `run_cycle` and the readers of the output | lifespan |
| Kafka delivery and consumer `kafka/`, energy accounting, telemetry window | producer's buffer, offsets, window, totals | `publish_telemetry_event`, `_run`, `record`, `add` | runner's thread, consumer's thread |
| Telemetry subscribers `simulation/state.py`, `api/routes/telemetry.py` | latest telemetry, a bounded queue for each dashboard | `subscribe`, `publish_telemetry`, the WebSocket | dashboards; both delivering threads |
| Ollama client and reasoner `services/{ollama_client,strategic_reasoner}.py` | none kept | a conversation with tools, the plan | strategic worker |
| Counterfactuals, health, config, frontend, PDF tool | none | display and probes | people |

What is hard in this code, and what the properties are for:

* **No lock around read, validate, write.** FastAPI runs the synchronous routes on a
  thread pool and the runner runs `process` off the event loop, so two calls
  of the gateway overlap; the sentinel's four fields are assigned one after the
  other. Correct means: the actuators move by approved steps only, and the sentinel
  remembers the move that was made; where calls do overlap, neither holds, and correct
  means that the damage ends with the next change by a call that overlaps no other.
* **Values used after they changed.** A recovery is computed and validated in
  `evaluate`, and applied later by the gateway, which approves one record and replaces
  another. Correct means: the loop finds its way back, whatever came in between.
* **Two loops that each keep the active policy.** The status and the self-healing
  loop are told separately. Correct means: outcomes and failures are recorded for
  the policy that is in force.
* **Fallbacks of fallbacks.** Correct means: no sequence of rejections and
  recoveries loses track of the policy, leaves the permitted range, or keeps the
  building from recovering.
* **The slow loop.** Threads are started, stopped and restarted without a lock.
  Correct means: no job is lost or run twice, the fallback's plan is never handed
  off, and advice is used once there is no shortfall.
* **A model that answers as it likes.** It may call any tool, too early or never,
  answer without having looked, or not at all. Correct means: advice that reaches
  the loop was given under the schema and after the required tools; the conversation
  ends; what was learned nudges decisions and does not make them.
* **Experience that has to survive.** Episodes are remembered under a lock and
  queued after it; the thread that saves them may outlive the stop that gave up
  waiting for it. Correct means: no episode is saved twice or vanishes without a
  reason, rows are in order, and of what was recorded since a start the history keeps
  the newest.
* **Delivery by two threads.** A flush that times out does not take the event back;
  a consumer may lose its commit, or join when there is none. Correct means: an event
  is counted twice or lost in the named cases only, and a dashboard that keeps up
  sees the latest.
* **A process behind a coroutine.** Stop, the loop, the worker thread and
  EnergyPlus share a model file and an output directory. Correct means: nothing of a
  cycle is used in another, stop leaves nothing behind and returns.

`PROJECT.json` lists each hazard at its line with the properties that cover it,
and those no model covers yet.

## 2. The modules

| module | what it models | code |
|---|---|---|
| `SafetySentinel` | the checks of `validate` as pure operators over the setpoint record | safety_sentinel.py |
| `SetpointPolicy` | the policy table's constants and the comfort fallback | decision_engine.py, self_healing.py 62-66 |
| `ControlGateway` | calls of the gateway, one action per step another thread can come between | control_gateway.py, the writing routes |
| `SafeActuation` | abstract: the setpoints move one approved step at a time | |
| `ActuationHistory` | `ControlGateway` with the last move and the overlapping calls as history variables, and its refinement of `SafeActuation` | |
| `AutonomousControl` | the cycle of `process`, the self-healing loop, the handoff slot, the requests | autonomous_control.py, self_healing.py, policy_handoff.py, routes |
| `ControlHistory` | `AutonomousControl` with a clock and the last move as history variables, and its refinement of `SafeActuation` | |
| `AdviceService` | abstract: a job ends once, with advice or without | |
| `StrategicWorker` | start, stop, submit, the worker threads and the lifespan | strategic_worker.py, main.py 19-43 |
| `GoalManagement` | negotiation, the goal list, proactive goals and the control loop's strategic review | goal_management.py, autonomous_control.py 133-159, routes/goals.py |
| `DecisionEngine` | the agents' votes, the arbitration and the learned preference as operators | agents/specialized.py, decision_engine.py, adaptive_policy.py |
| `StrategicReasoner` | the plan of a job, from a decision, the goal and the memory | strategic_reasoner.py |
| `StrategicPlanning` | a job's conversation with the model, its plan and its handoff, while telemetry and memory change | ollama_client.py, mcp/server.py, strategic_worker.py 71-105 |
| `AutomationMemory` | the history, the queue, the table, the writing threads, restarts and crashes | automation_memory.py |
| `TelemetryPipeline` | an event through Kafka or round it, into the state, the tracker, the window and the dashboards | kafka/, state.py, main.py 24-27, energyplus_runner.py 635-639, routes/telemetry.py |
| `EnergyPlusOutput` | the readers of eso, sql and csv output and the choice of the interval, as operators | energyplus_runner.py 153-512, 548-577 |
| `SimulationRunner` | start, stop, the loop, the cycle, the process and the files | energyplus_runner.py, idf_writer.py |
| `MC*` | the constants of the program, and instances for TLC | |
| `ControlGatewayProofs`, `AutonomousControlProofs`, `StrategicWorkerProofs`, `GoalManagementProofs`, `AutomationMemoryProofs`, `StrategicPlanningProofs`, `TelemetryPipelineProofs`, `SimulationRunnerProofs` | theorems and proofs (the first two also of `ActuationHistory` and `ControlHistory`) | |

How they fit together: `ControlGateway`, `AutonomousControl` and `DecisionEngine` are
built from operators that the modules above them share. The gateway with one caller, and the
whole control loop left alone, implement `SafeActuation`. `StrategicWorker` implements
`AdviceService`; `AutonomousControl` uses the worker in the form of `AdviceService`,
and every step of `StrategicPlanning` is one of that service too
(`EndsEachJobOnce`). `SimulationRunner` ends where the telemetry of a cycle is
reported, `TelemetryPipeline` begins there and ends where the state has it, and
`AutonomousControl` begins with the telemetry it is given.

### Correspondence and granularity

*Units.* Temperatures are integers in half degrees, percentages in steps of 5 %: every
constant of the code is exact in these units (16..30 degrees are 32..60, the limit
of 2 degrees is 4, 25 % is 5, 30 % is 6).

*ControlGateway.* `pc[c]` is where thread `c` is; `current`, `proposed`, `now`,
`emergency` are its local variables. `validate` decides in one step and assigns in
two (`RememberInstant`, then `RememberDelta` for all three deltas at once); the
store is read and written in steps of their own, since `BuildingState` locks each.
A rejected call returns to "idle". `EvaluateComfort` enters through
`SelfHealingLoop.evaluate`, which validates before the gateway validates again.

`ActuationHistory` adds which calls overlap another one (`overlapped`), and whether the
store has been changed by a call that overlapped none since (`reliable`).

*AutonomousControl.* A call of the gateway is two steps, the approval (`Approve`, with
what the sentinel remembers) and the write (`Store`): everything else can come between
them, as `apply_safe_setpoints` holds no lock over them. That the approval itself is
divided further is the gateway model's. Every other step of a cycle, too, can be interleaved
with requests, jobs and time. The loop's status is written and read by the loop alone, under its
lock, so that what `StoreCorrection` and `StoreBalanced` set in it changes with the
store. The comfort score is any of `ComfortReadings`; whether
strategic reasoning is submitted, and what the agents' arbitration selects, is
nondeterministic, so the properties hold for every decision engine. The API serves one
request at a time here: a PUT, a policy or a healing request; requests against each other
are `ControlGateway`'s. A request that is rejected at once changes nothing and is no step.
Autonomous control is assumed enabled. Memory is the newest
episode. The age of the last accepted change stops at `MinChangeInterval`, where
the sentinel no longer looks at it, which keeps runs of any length finite. `settled` is
history: no request has taken a step since the loop last stored a policy with none
under way.

*StrategicWorker.* The three unlocked pieces of state are separate variables and
`start` takes a step for each time it touches them: is there a thread, is it alive, set
the flag, create the thread, start it. A start or a stop in between makes the other one
raise (`StartRaises`, `JoinRaises`; `is_alive` on a reference that is gone): the
submission is then `refused` and leaves no job, a restart leaves the application down.
Registering a job and putting its id are one step, as nobody reads the
register before the id is taken. Advice is named by its job. `join` may time
out, so `Forget` does not wait, and drops whatever reference it finds. A refused or failed
handoff is `FailJob`.
`AutonomousControl` uses the worker in the form of `AdviceService`, which
`StrategicWorker` is shown to implement.

*GoalManagement.* The goal list is a set of records with their place in the list; a
goal keeps the thread that created it, of which the code keeps only whether it was a
person. Telemetry is in tenths of kW, degrees and percent, targets in hundredths of a
percent, in which all constants of `assess` and `generate_proactive` are exact; the
rounding of floating point is left aside. `generate_proactive` is two steps, as its
lock is released between the search (`BeginCreate`, `BeginReview`) and the creation
(`Create`), and the control loop reads the active goal in a third (`Review`). The
submitted job stands for the queue, which is `StrategicWorker`'s. A tie of two
priorities goes to the later goal: creation times are taken under the lock.
`AutonomousControl` lets a cycle submit a job or not; `GoalManagement` says when.

*DecisionEngine.* The agents round scores to hundredths and rewards to thousandths; the
operators compute in these units, and totals in units of 1/2000, in which both are exact.
Where a rounding meets a tie, Python's depends on the binary form of the number; the
operators round up. A reading is the temperature and power in tenths, humidity and
occupancy in percent. `AutonomousControl` leaves the decision arbitrary, so what it
shows holds for this engine too.

*StrategicPlanning.* One action per step of the worker's thread at which the outcome can
differ: a round of the conversation is one request with its answer, of which it
matters whether it calls tools (any set of them), answers, with or without a
valid policy, or fails. The catalogue and the tools' results are wording. An answer
without a policy or a reason leads, as an unreachable model does, to the
deterministic plan; an answer that is not JSON, or a malformed tool call, raises an
exception nobody expects there and fails the job (`FailInChat`). The window the job
summarises is read when the job begins and the memory when it is planned. One job
runs at a time; the other threads a stop may leave are `StrategicWorker`'s.

*AutomationMemory.* The `k`-th episode of recorder `r` is `<<r, k>>`; a row is its
episode, and the table is in the order of its ids. `record` is two steps, since the lock
is released before the queue is used. `start` reads the rows (`Hydrate`) and
creates the thread in a second step; `stop` is three: the flag, the `None`, the join.
A thread that outlives its join goes on, and sees the flag a later start sets. `Crash`
loses everything but the table. Requests and the runner have ended when `stop` is
called, as the lifespan does it (main.py 38-43).

*TelemetryPipeline.* The topic and the producer's buffer stand for Kafka as the code uses
it: buffered events are sent in order; one whose attempt failed, or is not
acknowledged, may be sent again by the producer (`requirements.txt` permits releases that
retry), so that it is in the topic twice or behind a later one; and one may be given up.
`flush` returns when the buffer is empty, whether or not
the events were written, or after a second. Making the producer fails with
`NoBrokersAvailable`, which the code catches, or with another error, which leaves the tick
(`SendRaises`). The consumer's position moves before the
handler runs; the commit is automatic, between events; a broken connection may or may
not commit. Delivery is publish, notify each subscriber of that moment, record, add;
the two threads interleave at these steps. The subscribers' queues are filled by both threads
and read by the event loop, and an `asyncio.Queue` is not thread safe: `put_nowait` is
the look at the capacity (`FindFull`, `FindRoom`), the append (`Put`) and the wake-up of the
reader (`Wake`), so that both threads may find the same room; the wake-up raises when
its future is taken away meanwhile (`WakeFails`), which ends the delivery and loses the
event for the tracker and the window. A wake-up from another thread that the event loop
notices late delays `SendNext`, which has no bound on when it comes.

*EnergyPlusOutput.* A line is a record of its kind, an output a number with a name, a
measurement a natural number or `Missing`. The order in which the kinds of output are
looked for, the filters and the defaults are those of the readers. The loops over lines
and intervals are recursive functions, the `n`-th value of which is what the loop has
gathered before its `n`-th element (`Records`, `Yielded`). `FramesMatchOutput` is written
without them: it looks at the places of headers and values in the file.
A name of the dictionary is the set of the names looked for that it contains, as the code
searches them as substrings: candidate by candidate, each in every name in the order of
the dictionary, until one has a value in the interval (`ValueFor`).
`Readable` says what a file is (`OutputsAssumption`): lines of the three kinds, in any
order and number, and any dictionary.

*SimulationRunner.* The loop and the lifespan are coroutines of one event loop, the cycle
runs in a thread, EnergyPlus in a process. `stop`'s wait for the process blocks
the event loop, so the loop takes no step meanwhile. `stop` comes when the loop has
begun: the lifespan serves between its start and its stop. EnergyPlus may end well, end
badly before or after writing its output, be terminated or killed. The output is any of
`Outputs`, chosen once, with the cycle that wrote it. That a process which ends with
code 0 has rewritten the output is assumed, as the code does: it does not remove the files
of the cycle before.

## 3. The runs

| run | shows | bounds |
|---|---|---|
| `gateway_serial` | one caller: every move of the store is one `SafeActuation` allows, though a recovery is validated twice | one caller, clock to the interval and beyond, all policies |
| `gateway_concurrent` | two threads, every interleaving of their steps: the record and all pending proposals stay in range; a call that overlaps no other moves the store within the step limits whatever the others left, and from its first change on as `SafeActuation` allows, reversal guard included (`LoneMovesAreSafe`) | two callers, requests of 24 and 30.5 degrees (one in and one out of range), one policy, two instants |
| `control_unattended` | the loop, the worker and time: the status names the policy in force, the self-healing loop blames that policy, advice is consumed and a lasting shortfall leads to full recovery | four policies, comfort 80 or 100, one job |
| `control_requests` | operators, feedback and applied policies between any two steps of the cycle, also between an approval and its write: with the next policy the loop stores while no request is under way, status, self-healing loop and setpoints agree again, and stay so (`LoopRegainsControl`) | two policies, requests of 23 and 25 degrees, no interval (reversals are then never refused, the weakest sentinel) |
| `strategic_worker` | submissions race with a stop and a restart, and may be refused: one live thread holds a job, the threads implement `AdviceService`, queued jobs end | two submissions, one stop and restart |
| `strategic_planning` | a model that calls, answers and fails as it likes, while telemetry and memory change: only informed advice gets out of a conversation, an unadvised plan leaves the goal's policy for a reason, learning never overturns a clear vote, every job ends | two jobs with different goals, a required tool and another one, four readings at and beyond the thresholds, three memories; three rounds in place of six: one round for the tools, one for an answer that comes too early, one for the answer |
| `automation_memory` | recording threads, a stop that may give up waiting, a restart, a crash, a failing database: each episode in one place, rows in order, the history the newest of what was recorded since the start, and what a stop left in the queue written later | two recorders with two episodes each, a history of two (so that it overflows and mixes recorders), two starts |
| `goal_management` | the loop, an API thread and an operator: the loop reviews the objective accepted last, the race between search and creation costs at most one equivalent goal per thread, a transition is reasoned about within the review interval | one API thread, a reading for each branch (two of them comfort, feasible and not), one request of priority 80, between the generated ones; three goals; intervals of two units, clock to three |
| `telemetry_pipeline` | which events count twice and which are lost, with flushes that time out, attempts the producer repeats, commits that are lost, consumers that join late and deliveries that raise; a dashboard's queue takes one event too many at most; the latest telemetry goes back for named reasons only; what a dashboard sees; every event is recorded or lost for a named reason | two events, a dashboard with a queue of one, a window of two, one fault: a break of the connection or a failed attempt |
| `simulation_runner` | starts and stops against the loop, the cycle and the process, over output files: no cycle reads another's model or output, frames are what was written, the best one is reported, stop returns, failed cycles are followed by others | two cycles, two starts, two setpoints; eso data of a header and up to two lines, each a header, a value or neither, a dictionary with a name twice and with two names that contain one candidate, a file that begins before its first header; three intervals of sql output with any of three times; csv rows with gaps |
| `gateway_race` | a violation: two writes built on the same record move the temperature by 4 degrees | two callers |
| `control_stuck` | a violation: two recoveries leave no policy within one permitted step | as `control_unattended` |

The two violations are disagreements between the code and its documents, quoted under
"findings" in `PROJECT.json`.

*Why the bounds are enough.* Two threads suffice for the gateway: the only shared
state is one record and one sentinel, and every bad interleaving pairs one call's read
with another's write. `control_requests` uses a minimum comfort of 92 with
readings of 80 and 91 so that both outcomes of the prediction-error threshold happen
(an error of 4 is within it), and a lower temperature bound of 20 degrees so that the
clamp is reached within the runs; the unattended runs use the program's own
range. In `strategic_worker`, one submission finds the worker, the other meets
the stop; a second worker beside a stuck first one appears after one stop, and so it
does in `automation_memory`, where the second start also hydrates what the first
one saved. In `goal_management` three goals are enough for every pair of
equivalents with a third between them, and the clock passes both intervals. In
`telemetry_pipeline` a flush that times out leaves one event behind which the next one
overtakes, and the one fault is, in different behaviours, a break before or after the
first commit or an attempt that the producer repeats.
Two cycles are enough for one that fails before its process writes, after another
one that succeeded.
Bounds in the guards are `MaxClock`, `MaxGoals`, `MaxJobs`, `MaxStops`, `MaxRecorded`,
`MaxStarts`, `MaxEvents`, `MaxFaults` and `MaxCycles`; `MaxLines` bounds the files of
`MCSimulationRunner`. The theorems hold for every value of them. Where a run says
`CHECK_DEADLOCK FALSE` the modelled inputs can run out: submissions and stops of the
worker, jobs, goals and the clock, episodes and starts, events and dashboards, cycles.

*Fairness.* `AutonomousControl` assumes `WF(Cycle)`: the runner's loop calls
`process` after every tick that yields telemetry, and goes on with the next tick after one
that failed, so the assumption is that ticks keep yielding telemetry; and no step of a
cycle waits. Requests, jobs and time have no fairness. `StrategicWorker` assumes that a
thread that can take a step eventually does: the model's answers have a timeout of
60 seconds, a thread that waits in `get` has no step to take, and a submission, a
stop or a restart that began goes on. Nothing is assumed about whether anybody
submits, stops or restarts. `StrategicPlanning` assumes the same of its one thread; as
each of its steps changes the program point or the round, weak fairness is stated
on these two. `AutomationMemory` assumes that a recorder that appended an episode queues
it, and that a writing thread goes on and the database answers, one way or the other;
nothing about stops and starts, which is why `QueuedEpisodesEnd` begins with a store
that stays started. `TelemetryPipeline` assumes that both threads and the producer's
own thread keep running; nothing about whether an event is written, a commit arrives
or the connection holds. `SimulationRunner` assumes that the event loop and the worker
thread go on, that a stop that began is carried on, and that EnergyPlus ends: `stop`
terminates it and kills it after ten seconds, and without a stop the simulation is of a
fixed period.

## 4. The proofs

All theorems are for arbitrary constants under the named assumptions
(`SentinelAssumption` and the like, evaluated by TLC in the runs). Each module proves
one or two inductive invariants and derives its theorems from them.

* `ControlGatewayProofs`: `TypeCorrect`, `LoneCallsAreSafe` and `SentinelMatches`, for any
  number of threads. Their invariant `LoneInv` follows a call that overlaps no other from
  entry to write, whatever overlapping calls left before it: what the sentinel holds at
  each program point (`CallInv`) is the pending move, or, once the store can be relied on
  (`reliable`), the last one. `SerialGatewayIsSafe` (the refinement of `SafeActuation`) is
  the case in which every call is such a call, under `Serial`: one caller at a time.
  Without `Serial` the refinement is false, as `gateway_race` shows: the second of two
  overlapping calls may exceed the limits, and may reverse the first.
* `AutonomousControlProofs`: `TypeCorrect`, `FallbackIsNamed` and `LoopIsInControlAgain`
  under every request. The last one rests on `SettledInv`: once the loop stored a policy
  with no request under way, the record
  read at the start of the cycle is still the stored one, a pending
  registration is of the policy in force, a pending correction will be accepted
  again, and the self-healing loop knows the policy unless the balanced
  fallback replaced it, in which case no healing is asked for (`Agreement`).
  `StatusIsTruthful`, `BlameIsRight` and
  `StaysOnRecoverySide` are the case under `Unattended`, in which that moment is the
  initial state. `LoopIsSafe` (the refinement of `SafeActuation`, for `ControlHistory`) and
  `SentinelRemembers` add to it that the sentinel remembers the last move of the store,
  and is no older (`MoveRemembered`), except from the first approval of a move to its write:
  then the sentinel is ahead of the store, and nothing but
  that move is made. With requests the refinement is false: see section 5.
* `StrategicWorkerProofs`: `TypeCorrect`, `NoJobIsLost`, `FallbackIsNotHandedOff`,
  `OneWorker` and the refinement `WorkerImplementsService`, for any number of
  submissions, stops and restarts. The invariant `Placement` says where each job
  is: at most once in the queue or in the hands of one thread, with the model's
  advice exactly where it should be, and that a thread's name is fresh when it
  is created. It speaks of the queue through the set of its entries, proved apart.
* `GoalManagementProofs`: `TypeCorrect`, `NewestObjectiveIsActive`,
  `EquivalentsAreApart`, `SpikesYield` and `TransitionsAreSubmitted`, for any number
  of threads, readings, requests and intervals. `NewestObjectiveIsActive` rests on
  `PrioritiesRise`: an accepted goal is at least as urgent as every goal of another
  objective accepted before it. `EquivalentsAreApart` rests on `PendingIsApart`: while
  a thread has a request pending, its own equivalents only grow older. That the
  active goal exists when goals are accepted is a lemma on its own (`ActiveExists`).
* `AutomationMemoryProofs`: `TypeCorrect`, `EpisodesAreInOnePlace`, `RowsStayInOrder`
  and `HistoryStaysNewest`, for any recorders, limits, starts, stops and crashes.
  `Placement` says that the recorded episodes are the disjoint union of what is in the
  queue, in the hands of a thread, about to be queued, in the table and dropped, with no
  repetition in the sequences. `Order` adds, as long as no stop gave up waiting, that
  there is one thread and that what is further on its way was recorded earlier.
  `History` says that what was recorded since the start is at the end of the
  history in order: then the entry that is given up is older than every one that
  stays.
* `StrategicPlanningProofs`: `TypeCorrect`, `AdviceRestsOnTools`, `PlansAreJustified`,
  `ClearVotesDecide` and `JobsEndOnce`, from one invariant that says what
  is known at each program point of a job. Two theorems are about the operators:
  `LearningIsBounded` and `ConcernsOverride`, for every reading, signal and memory. They
  rest on bounds: an adjustment is at most 0.15 either way, and the balanced votes of
  agents below their thresholds weigh, at a quarter, less than one concern at its own.
* `TelemetryPipelineProofs`: `TypeCorrect`, `RecordsAreSingle`, `LossesAreTheThree`,
  `LatestIsMonotonic` and `DashboardsAreCurrent`, for any number of events, dashboards and
  breaks, and any lengths of the queues and of the window. All rest on
  `PipeInv`: a thread carries the event its place in the program says; events are
  in Kafka in the order they were measured, those of the buffer after those
  of the topic, but for those the producer tried again; an event the runner delivers itself
  is in neither unless its flush timed out; and a dashboard's queue has the room a thread
  found in it, or lacks one place when both threads found the same (`RoomInv`), so that
  it never holds more than one too many. `CountedInv` and `WindowInv` add what a thread is still to record
  to what is recorded. `LocatedInv` says where an event is before the consumer's
  position and `PastInv` that the position leaves only settled events behind:
  together, `NothingElseIsLost`. `LatestGoesForward` needs `NoGapInv`: what was consumed
  before a break is consumed again from the committed offset on without a gap, so that
  an event consumed for the first time is the newest, unless it was tried again (`NewestInv`).
  `DashboardGetsLatest` needs that a dashboard subscribes before it reads
  (`SubscribedInv`), that a thread puts an event in one queue at a time (`AimedInv`), and
  that what it put is there when it wakes the dashboard up (`WokenInv`).
* `SimulationRunnerProofs`: `ProcessKeepsModel`, `StopLeavesNothing`,
  `ReportsAreCurrent` from the invariant `Lifecycle`, which nests the program points:
  the process runs within the cycle's wait, the cycle within the loop, the loop within
  the application, and a completed process of this cycle is what `load` comes after.
  `FramesMatchTheFile` is about the reader alone, for eso and meter files of any length and
  content and any dictionaries. It takes the loops apart line by line: a header begins a record
  (`HeaderRecorded`), a value enters the last one (`ValueRecorded`), nothing else does
  (`OtherRecorded`), so before each line the records are exactly the headers read so far,
  each with its own values (`RecordedSoFar`); and what is yielded is an
  enumeration of the intervals kept (`YieldedSoFar`). As no induction rule can be
  instantiated, each of these goes through `AllNaturals`, which reaches every number
  from 0 by the least counterexample, and the recursive functions are proved to exist
  the same way (`RecordsExist`, `YieldedExists`). `FramesMatchOutputs` and
  `TypeCorrect` carry this into every state of the runner (`FramesInv`).
  `RepresentativeIsBest` is about any numbered frames, and `BestFrameIsReported`
  concludes it of every report: what the readers yield is such a sequence.

Proved and in no run, since each would only repeat on a small instance what the proof
says: `LoopImplementsSafeActuation`, `SentinelRemembersMove`, `SentinelMatchesStore`,
`FallbackNamesItsPolicy`, `OnRecoverySide`, `AdviceFromModel`, `OneWorkerUntilStop`,
`SpikeYieldsToPriority`, `QuietAfterStop`, `EndsEachJobOnce` and
`ConcernOverridesFallbacks`.

Every safety invariant and every action property of a passing run is stated by a theorem.
Only model-checked are the liveness properties (`HandoffConsumed`, `RecoveryConverges`,
`QueuedJobsEnd`, `QueuedEpisodesEnd`, `JobsEnd`, `EventsAreRecorded`, `StopReturns`,
`CyclesGoOn`), as liveness under fairness is outside what the prover does.

## 5. Not modelled, and the plan

Left out on purpose: what EnergyPlus computes and the text of its files, prompts and
wording, SQL, the counterfactual arithmetic for display, health probes, settings, the
frontend, the PDF tool and the demo. Of modelled components:

* energy accounting: which events are counted is in `TelemetryPipeline`; the baseline
  and the savings are sums of floats and are not;
* the consumer's own `start` and `stop`, and a crash of the process within the pipeline;
* a commit of the database that lands although it raises: in `AutomationMemory` one that
  raises has written nothing;
* backends of the simulation without `run_cycle`, which the program does not create;
* a direct `stop` of the runner before its loop has begun: only a caller other than
  the lifespan could make it (energyplus_runner.py 660 would then set the flag again).

Met while modelling, and not runs of their own:

* A reversal of one field is accepted at once when another field was changed in
  between, since the sentinel remembers the last change only (safety_sentinel.py 60),
  while SYSTEM_ARCHITECTURE_AABOS.md:364 says "Reject a reversal within 5 minutes of an
  accepted change".
* A recovery that the sentinel accepted in `evaluate` and the gateway rejects, because a
  request moved the store in between, stays remembered as the last change
  (safety_sentinel.py 58-62); a policy that reverses the request is then accepted within the
  interval. `LoopImplementsSafeActuation` fails for this reason once requests are
  allowed, so the theorem is about the loop left alone.
* A policy applied through the API is recorded under the name of the former one until
  the loop decides again (autonomous_control.py 162, 174).
* After a balanced fallback, feedback blames the policy that was replaced
  (autonomous_control.py 120), while SYSTEM_ARCHITECTURE_AABOS.md:391 has the failed
  policy recorded.
* A submission that meets a stop stays queued until somebody submits or starts again
  (strategic_worker.py 31), while the comment at 48-50 calls submissions
  self-healing; and one that meets a start or a stop inside `start` (31-35) raises
  `RuntimeError` or `AttributeError` out of `submit`, and leaves no job.
* The queue of a dashboard may hold one telemetry more than its capacity, and a delivery
  may end in the wake-up of a reader, after which the tracker and the window miss the event
  (state.py 40-44, called from two threads on queues that are not thread safe).
* A goal under negotiation does not suppress the next one, so in a building that stays
  humid (66 %, comfort goal of 12 % where 10 % is achievable) every cycle adds a goal
  to the list and submits a job, while SYSTEM_ARCHITECTURE_AABOS.md:232 says
  equivalent objectives are de-duplicated for 30 minutes.
* An answer of the model that is not JSON, or a malformed tool call, fails the job where
  every other unusable answer leads to the deterministic plan.
* The energy of an event whose flush timed out can count twice, and the latest
  telemetry can go back to an older event (`RecordedOnce`, `LatestGoesForward` name the
  conditions).
* `check_kafka_connection` returns `None` when there is a producer (client.py 24-28); what
  it was meant to do stands unreachable at the end of `publish_telemetry_event` (42-46).
* Reading an eso file does not look at the zone: of the outputs of one name the last one of
  the dictionary is taken, so temperature and occupancy may be of different zones;
  meters are matched to intervals by position (energyplus_runner.py 196). An eso
  file without frames is not made up for by sql or csv output.

The plan from here: a composition of the control loop with `DecisionEngine` in the place
of its arbitrary choice, with the theorems of both; and an abstract specification of
delivery (an event is recorded, or lost for a named reason) that `TelemetryPipeline` implements.
