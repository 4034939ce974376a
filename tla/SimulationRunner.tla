-------------------------- MODULE SimulationRunner --------------------------
(* The lifecycle of the simulation (app/simulation/energyplus_runner.py):     *)
(* start and stop, which the lifespan calls, the loop of cycles, the worker   *)
(* thread that runs a cycle, the EnergyPlus process, and the files they share:*)
(* the generated model (app/simulation/idf_writer.py) and the output. The     *)
(* loop and the lifespan are coroutines of one event loop. What a cycle does  *)
(* with its telemetry is in TelemetryPipeline and AutonomousControl.          *)
EXTENDS EnergyPlusOutput

CONSTANTS
    Setpoints, Default,      \* setpoints of the building, and those of start
    Outputs,                 \* what EnergyPlus may write
    Instants,                \* month and hour of the clock
    MaxCycles,               \* bound: cycles
    MaxStarts                \* bound: starts

ASSUME RunnerAssumption ==
    /\ Default \in Setpoints
    /\ MaxCycles \in Nat /\ MaxStarts \in Nat

ASSUME OutputsAssumption == \A written \in Outputs : Readable(written)

VARIABLES
    setpoints,               \* the building's setpoints
    manager,                 \* the program point of the lifespan
    starts,                  \* how often start was called
    running,                 \* _running
    loop,                    \* the program point of run_loop
    worker,                  \* the program point of run_cycle
    cycle,                   \* the number of the newest cycle
    wanted,                  \* the setpoints it began with
    idf,                     \* the setpoints in the generated model
    process,                 \* _process: never started, running, or its exit
    input,                   \* the setpoints in the model the process read
    output,                  \* what EnergyPlus writes, and the cycle that wrote it
    frames, frameIndex,      \* _frames and _frame_index
    reported                 \* the telemetry of the cycle

fileVars == <<idf, input, output>>
frameVars == <<frames, frameIndex, reported>>
managerVars == <<manager, starts, running>>
vars == <<setpoints, managerVars, loop, worker, cycle, wanted, process, fileVars, frameVars>>

NoReport == [cycle |-> 0]

Init ==
    /\ setpoints = Default /\ wanted = Default
    /\ manager = "down" /\ starts = 0 /\ running = FALSE
    /\ loop = "none" /\ worker = "idle" /\ cycle = 0
    /\ idf = Default /\ input = Default
    /\ process = "none"
    /\ output \in [cycle : {0}, content : Outputs]
    /\ frames = <<>> /\ frameIndex = 1 /\ reported = NoReport

\* API and control loop.
ChangeSetpoints(s) ==
    /\ setpoints' = s
    /\ UNCHANGED <<managerVars, loop, worker, cycle, wanted, process, fileVars, frameVars>>
-----------------------------------------------------------------------------
(* The lifespan. The wait for the process blocks the event loop.              *)

Manage(from, to) ==
    /\ manager = from
    /\ manager' = to
    /\ UNCHANGED <<setpoints, worker, cycle, wanted, input, output, frameVars>>

Start ==
    /\ Manage("down", "up")
    /\ ~running
    /\ starts < MaxStarts /\ starts' = starts + 1
    /\ idf' = Default
    /\ loop' = "begin"
    /\ UNCHANGED <<running, process>>

\* Mutant of Stop: the loop is not told.
StopProcessOnly ==
    /\ Manage("up", "stop process")
    /\ loop # "begin"
    /\ UNCHANGED <<starts, running, loop, process, idf>>

\* The loop has begun by then: it was scheduled before the application served.
Stop ==
    /\ Manage("up", "stop process")
    /\ loop # "begin"
    /\ running' = FALSE
    /\ UNCHANGED <<starts, loop, process, idf>>

NothingToTerminate ==
    /\ Manage("stop process", "join")
    /\ process # "running"
    /\ UNCHANGED <<starts, running, loop, process, idf>>

\* It may have ended by itself in the meantime, or end well all the same.
Terminate ==
    /\ Manage("stop process", "wait process")
    /\ process = "running"
    /\ UNCHANGED <<starts, running, loop, process, idf>>

ProcessEnded ==
    /\ Manage("wait process", "join")
    /\ process # "running"
    /\ UNCHANGED <<starts, running, loop, process, idf>>

\* Ten seconds went by.
Kill ==
    /\ Manage("wait process", "join")
    /\ process' = IF process = "running" THEN "failed" ELSE process
    /\ UNCHANGED <<starts, running, loop, idf>>

\* Mutant of Join: the loop is not awaited.
ForgetLoop ==
    /\ Manage("join", "down")
    /\ UNCHANGED <<starts, running, loop, process, idf>>

Join ==
    /\ Manage("join", "down")
    /\ loop = "ended" /\ loop' = "none"
    /\ UNCHANGED <<starts, running, process, idf>>
-----------------------------------------------------------------------------
(* run_loop                                                                   *)

Loop(from, to) ==
    /\ manager \notin {"stop process", "wait process"}
    /\ loop = from
    /\ loop' = to
    /\ UNCHANGED <<setpoints, manager, starts, process, fileVars, frames, frameIndex>>

Begin ==
    /\ Loop("begin", "tick")
    /\ running' = TRUE
    /\ UNCHANGED <<worker, cycle, wanted, reported>>

\* The worker thread reads the setpoints.
Tick ==
    /\ Loop("tick", "cycle")
    /\ running
    /\ cycle < MaxCycles /\ cycle' = cycle + 1
    /\ worker' = "write" /\ wanted' = setpoints
    /\ UNCHANGED <<running, reported>>

\* Mutant of Sleep: an error of the cycle ends the loop.
SleepAfterSuccess ==
    /\ Loop("cycle", IF worker = "reported" THEN "sleep" ELSE "ended")
    /\ worker \in {"reported", "raised"} /\ worker' = "idle"
    /\ reported' = NoReport
    /\ UNCHANGED <<running, cycle, wanted>>

\* The cycle returned or raised; the error is logged.
Sleep ==
    /\ Loop("cycle", "sleep")
    /\ worker \in {"reported", "raised"} /\ worker' = "idle"
    /\ reported' = NoReport
    /\ UNCHANGED <<running, cycle, wanted>>

Awake ==
    /\ Loop("sleep", "tick")
    /\ UNCHANGED <<running, worker, cycle, wanted, reported>>

End ==
    /\ Loop("tick", "ended")
    /\ ~running
    /\ UNCHANGED <<running, worker, cycle, wanted, reported>>
-----------------------------------------------------------------------------
(* run_cycle                                                                  *)

Work(from, to) ==
    /\ worker = from
    /\ worker' = to
    /\ UNCHANGED <<setpoints, managerVars, loop, cycle, wanted>>

\* The model is replaced as a whole; what the last cycle read is forgotten.
WriteIdf ==
    /\ Work("write", "launch")
    /\ idf' = wanted
    /\ frames' = <<>> /\ frameIndex' = 1
    /\ UNCHANGED <<reported, process, input, output>>

\* The configuration, the baseline or the disk is at fault: nothing is replaced.
WriteFails ==
    /\ Work("write", "raised")
    /\ UNCHANGED <<process, fileVars, frameVars>>

Launch ==
    /\ Work("launch", "wait")
    /\ process' = "running"
    /\ input' = idf
    /\ UNCHANGED <<idf, output, frameVars>>

LaunchFails ==
    /\ Work("launch", "raised")
    /\ UNCHANGED <<process, fileVars, frameVars>>

\* Mutant of Wait: the return code is not looked at.
WaitForAnyExit ==
    /\ Work("wait", "load")
    /\ process \in {"ended", "failed"}
    /\ UNCHANGED <<process, fileVars, frameVars>>

Wait ==
    /\ Work("wait", IF process = "ended" THEN "load" ELSE "raised")
    /\ process \in {"ended", "failed"}
    /\ UNCHANGED <<process, fileVars, frameVars>>

\* _load_frames; no frames are an error.
Load(now) ==
    LET loaded == FramesOf(output.content, now) IN
    /\ Work("load", IF loaded = <<>> THEN "raised" ELSE "choose")
    /\ frames' = loaded /\ frameIndex' = 1
    /\ UNCHANGED <<reported, process, fileVars>>

\* Mutant of Choose: the first frame is reported.
ChooseFirst ==
    /\ Work("choose", "report")
    /\ UNCHANGED <<frames, frameIndex, reported, process, fileVars>>

Choose ==
    /\ Work("choose", "report")
    /\ frameIndex' = RepresentativeFrameIndex(frames)
    /\ UNCHANGED <<frames, reported, process, fileVars>>

\* Mutant of Report: the index leaves the frames.
ReportAndMoveOn ==
    /\ Work("report", "reported")
    /\ reported' = [cycle |-> output.cycle, input |-> input, frame |-> frames[frameIndex]]
    /\ frameIndex' = frameIndex + 1
    /\ UNCHANGED <<frames, process, fileVars>>

\* latest_telemetry: the index moves on to the next frame.
Report ==
    /\ Work("report", "reported")
    /\ reported' = [cycle |-> output.cycle, input |-> input, frame |-> frames[frameIndex]]
    /\ frameIndex' = IF frameIndex < Len(frames) THEN frameIndex + 1 ELSE frameIndex
    /\ UNCHANGED <<frames, process, fileVars>>

\* EnergyPlus writes its output, or ends with an error or a signal before or after.
ProcessEnds ==
    /\ process = "running"
    /\ \/ process' = "ended" /\ output' = [output EXCEPT !.cycle = cycle]
       \/ process' = "failed" /\ output' \in {output, [output EXCEPT !.cycle = cycle]}
    /\ UNCHANGED <<setpoints, managerVars, loop, worker, cycle, wanted, idf, input, frameVars>>
-----------------------------------------------------------------------------
Lifespan ==
    \/ Start \/ Stop
    \/ NothingToTerminate \/ Terminate \/ ProcessEnded \/ Kill \/ Join

RunLoop == Begin \/ Tick \/ Sleep \/ Awake \/ End

RunCycle ==
    \/ WriteIdf \/ WriteFails \/ Launch \/ LaunchFails \/ Wait
    \/ \E now \in Instants : Load(now)
    \/ Choose \/ Report

Next ==
    \/ Lifespan \/ RunLoop \/ RunCycle \/ ProcessEnds
    \/ \E s \in Setpoints : ChangeSetpoints(s)

Spec == Init /\ [][Next]_vars

\* The event loop and the thread go on, a stop is carried on, EnergyPlus ends.
\* Fairness says of the thread only that it goes on: LeaveLoading is Load without what it loads,
\* which TLC would compute again for every state.
LeaveLoading == worker = "load" /\ worker' \in {"raised", "choose"}

LeaveChoosing == worker = "choose" /\ worker' = "report"

ThreadGoesOn ==
    \/ WriteIdf \/ WriteFails \/ Launch \/ LaunchFails \/ Wait
    \/ LeaveLoading \/ LeaveChoosing \/ Report

Fairness ==
    /\ WF_loop(RunLoop) /\ WF_worker(ThreadGoesOn) /\ WF_process(ProcessEnds)
    /\ WF_manager(NothingToTerminate \/ Terminate \/ ProcessEnded \/ Kill \/ Join)

FairSpec == Spec /\ Fairness
-----------------------------------------------------------------------------
(* Properties.                                                                *)

TypeOK ==
    /\ setpoints \in Setpoints /\ wanted \in Setpoints /\ idf \in Setpoints /\ input \in Setpoints
    /\ manager \in {"down", "up", "stop process", "wait process", "join"}
    /\ starts \in 0..MaxStarts /\ running \in BOOLEAN /\ cycle \in 0..MaxCycles
    /\ loop \in {"none", "begin", "tick", "cycle", "sleep", "ended"}
    /\ worker \in {"idle", "write", "launch", "wait", "load", "choose", "report", "reported",
                   "raised"}
    /\ process \in {"none", "running", "ended", "failed"}
    /\ output.cycle \in 0..MaxCycles
    /\ frameIndex \in 1..(IF frames = <<>> THEN 1 ELSE Len(frames))
    /\ reported.cycle \in 0..MaxCycles

\* While EnergyPlus runs, the cycle that launched it waits, and the model it reads
\* is that of the cycle: no start, stop or other cycle replaces the file under it
\* or launches another one into its output (energyplus_runner.py 514-546, 652-693).
ProcessKeepsItsModel ==
    process = "running" => worker = "wait" /\ input = wanted /\ idf = wanted

\* After stop nothing of the simulation is left: no loop, no cycle, no process, also
\* when stop came while a cycle was between two processes (energyplus_runner.py
\* 518-527, 688-693).
QuietAfterStop == manager = "down" => loop = "none" /\ worker = "idle" /\ process # "running"

\* A report is of the cycle that makes it: of its setpoints, and of output that its
\* own process completed, never of what an earlier cycle left behind
\* (energyplus_runner.py 146-151, 532-546).
ReportIsOfTheCycle ==
    reported # NoReport => reported.cycle = cycle /\ reported.input = wanted

\* See EnergyPlusOutput.
FramesAreOfTheOutput ==
    (worker = "choose" /\ output.content.eso # NoFile)
        => FramesMatchOutput(frames, output.content.eso)

ReportIsRepresentative ==
    reported # NoReport => NoBetterFrame(frames, reported.frame)

\* stop returns: whatever the cycle is doing, it ends (energyplus_runner.py 688-693).
StopReturns == manager = "stop process" ~> manager = "down"

\* While the loop runs, a cycle that failed is followed by another one, until the
\* bound on cycles (energyplus_runner.py 652-680: "A failed EnergyPlus subprocess
\* must not take down the autonomous service").
CyclesGoOn == worker = "raised" ~> (worker = "write" \/ manager # "up" \/ cycle = MaxCycles)
=============================================================================
