------------------------- MODULE StrategicPlanning --------------------------
(* How a strategic job is reasoned about: the worker's conversation with the  *)
(* local model (app/services/ollama_client.py), the plan                      *)
(* (app/services/strategic_reasoner.py), and the decision of the control loop *)
(* that takes the advice (app/services/autonomous_control.py 95-99). The      *)
(* telemetry window, the memory and the handoff slot change in the meantime.  *)
(* One worker thread runs the jobs, one after the other:                      *)
(*   "take" -> "chat" -> "answer" -> "plan" -> [ "publish" -> ] "complete"    *)
(* StrategicWorker has the queue and the threads.                             *)
EXTENDS StrategicReasoner

CONSTANTS
    Jobs,                    \* the submitted jobs
    Goals,                   \* the goal of each job: its policy and carbon signal
    WindowReadings,          \* the readings the window may average to
    NoJob,                   \* an empty handoff slot, an idle worker
    NoReading,               \* an empty window
    Memories,                \* what the memory may have learned
    Tools, RequiredTools,    \* the names of tools the model may call
    MaxRounds                \* the rounds of a conversation, 6

ASSUME PlanningAssumption ==
    /\ NoJob \notin Jobs
    /\ Goals \in [Jobs -> [policy : Policies \ {Balanced}, signal : Signals]]
    /\ WindowReadings \subseteq Readings /\ NoReading \notin Readings
    /\ Memories \subseteq [Policies -> Records]
    /\ RequiredTools \subseteq Tools
    /\ MaxRounds \in Nat

VARIABLES
    window,                  \* the aggregate of the newest telemetry
    memory,                  \* what policy_performance would say
    job,                     \* the job the worker runs
    pc,                      \* the program point of the worker
    status,                  \* the status of each job
    summary,                 \* the window the job began with
    round,                   \* the rounds of the conversation
    used,                    \* used_tools
    jsonRequired,            \* the last request demanded the policy schema
    advice,                  \* the policy the model answered with
    plan,                    \* the plan of the job
    advisedJobs,             \* the jobs whose advice was published
    handoff                  \* the handoff slot: a job and its advice

conversation == <<summary, round, used, jsonRequired>>
vars == <<window, memory, job, pc, status, conversation, advice, plan, advisedJobs, handoff>>

EmptySlot == [job |-> NoJob, policy |-> NoPolicy]

Init ==
    /\ window = NoReading
    /\ memory = NothingLearned
    /\ job = NoJob /\ pc = "take"
    /\ status = [j \in Jobs |-> "queued"]
    /\ summary = NoReading /\ round = 0 /\ used = {} /\ jsonRequired = FALSE
    /\ advice = NoPolicy /\ plan = NoPlan
    /\ advisedJobs = {}
    /\ handoff = EmptySlot
-----------------------------------------------------------------------------
(* The rest of the system.                                                    *)

workerVars == <<job, pc, status, conversation, advice, plan, advisedJobs>>

\* New telemetry moves the window; a recorded outcome changes what was learned.
Observe(r) ==
    /\ window' = r
    /\ UNCHANGED <<memory, workerVars, handoff>>

Learn(m) ==
    /\ memory' = m
    /\ UNCHANGED <<window, workerVars, handoff>>

\* A cycle takes the advice out of the slot. Without any it selects what the agents
\* and the memory say of its own telemetry; see ClearVotesWin.
Decide ==
    /\ handoff' = EmptySlot
    /\ UNCHANGED <<window, memory, workerVars>>
-----------------------------------------------------------------------------
(* The worker's job. An answer that is not an object of JSON, or a tool call  *)
(* that is malformed, raises an exception nobody expects, and the job fails.  *)

Go(from, to) ==
    /\ pc = from
    /\ pc' = to
    /\ UNCHANGED <<window, memory>>

End(result) ==
    /\ status' = [status EXCEPT ![job] = result]
    /\ job' = NoJob
    /\ summary' = NoReading /\ round' = 0 /\ used' = {} /\ jsonRequired' = FALSE
    /\ advice' = NoPolicy /\ plan' = NoPlan

Take(j) ==
    /\ Go("take", "chat")
    /\ status[j] = "queued" /\ status' = [status EXCEPT ![j] = "running"]
    /\ job' = j
    /\ summary' = window
    /\ UNCHANGED <<round, used, jsonRequired, advice, plan, advisedJobs, handoff>>

FailWithoutTelemetry ==
    /\ Go("chat", "take")
    /\ summary = NoReading
    /\ End("failed")
    /\ UNCHANGED <<advisedJobs, handoff>>

\* Mutant of Chat: one more round.
ChatOnceMore(to) ==
    /\ Go("chat", to)
    /\ summary # NoReading
    /\ round <= MaxRounds
    /\ jsonRequired' = (RequiredTools \subseteq used)
    /\ UNCHANGED <<job, status, summary, plan, advisedJobs, handoff>>

\* A request that is answered: it demands the schema once the tools were used.
Chat(to) ==
    /\ Go("chat", to)
    /\ summary # NoReading
    /\ round < MaxRounds
    /\ jsonRequired' = (RequiredTools \subseteq used)
    /\ UNCHANGED <<job, status, summary, plan, advisedJobs, handoff>>

\* The model calls tools; an unknown one is refused and counts as used, as does
\* one that raises.
CallTools(calls) ==
    /\ Chat("chat")
    /\ used' = used \cup calls
    /\ round' = round + 1
    /\ UNCHANGED advice

\* An answer before the tools were used: the model is told to call them.
AnswerTooEarly ==
    /\ Chat("chat")
    /\ ~ RequiredTools \subseteq used
    /\ round' = round + 1
    /\ UNCHANGED <<used, advice>>

\* Mutant of Answer: the tools that were called are not looked at.
AnswerAnyway(policy) ==
    /\ Chat("answer")
    /\ advice' = policy
    /\ UNCHANGED <<round, used>>

Answer(policy) ==
    /\ Chat("answer")
    /\ RequiredTools \subseteq used
    /\ advice' = policy
    /\ UNCHANGED <<round, used>>

\* The answer names a policy and gives a reason.
AcceptAnswer ==
    /\ Go("answer", "plan")
    /\ advice # NoPolicy
    /\ UNCHANGED <<job, status, conversation, advice, plan, advisedJobs, handoff>>

\* Mutant of GiveUpOnModel: nothing is done when the rounds are used up.
GiveUpInRound ==
    /\ \/ Go("chat", "plan") /\ summary # NoReading /\ round < MaxRounds
       \/ Go("answer", "plan") /\ advice = NoPolicy
    /\ advice' = NoPolicy
    /\ UNCHANGED <<job, status, conversation, plan, advisedJobs, handoff>>

\* OllamaUnavailable: the model is disabled or cannot be reached, the message is
\* no message, the rounds are used up, or the answer is no policy with a reason.
GiveUpOnModel ==
    /\ \/ Go("chat", "plan") /\ summary # NoReading
       \/ Go("answer", "plan") /\ advice = NoPolicy
    /\ advice' = NoPolicy
    /\ UNCHANGED <<job, status, conversation, plan, advisedJobs, handoff>>

FailInChat ==
    /\ Go("chat", "take")
    /\ summary # NoReading /\ round < MaxRounds
    /\ End("failed")
    /\ UNCHANGED <<advisedJobs, handoff>>
-----------------------------------------------------------------------------
LeavePlanning ==
    /\ Go("plan", IF advice = NoPolicy THEN "complete" ELSE "publish")
    /\ UNCHANGED <<job, status, conversation, advice, advisedJobs, handoff>>

CreatePlan ==
    /\ LeavePlanning
    /\ plan' = Plan(advice, summary, Goals[job], memory)

\* The advice replaces what is in the slot.
Publish ==
    /\ Go("publish", "complete")
    /\ handoff' = [job |-> job, policy |-> advice]
    /\ advisedJobs' = advisedJobs \cup {job}
    /\ UNCHANGED <<job, status, conversation, advice, plan>>

Complete ==
    /\ Go("complete", "take")
    /\ End("completed")
    /\ UNCHANGED <<advisedJobs, handoff>>
-----------------------------------------------------------------------------
Conversation ==
    \/ FailWithoutTelemetry \/ FailInChat \/ GiveUpOnModel \/ AnswerTooEarly \/ AcceptAnswer
    \/ \E calls \in SUBSET Tools \ {{}} : CallTools(calls)
    \/ \E p \in Policies \cup {NoPolicy} : Answer(p)

Worker == (\E j \in Jobs : Take(j)) \/ Conversation \/ CreatePlan \/ Publish \/ Complete

Next ==
    \/ \E r \in WindowReadings : Observe(r)
    \/ \E m \in Memories : Learn(m)
    \/ Decide
    \/ Worker

Spec == Init /\ [][Next]_vars

\* The worker goes on: each request is answered or times out, and every step of it
\* changes pc or round. (LeavePlanning stands for CreatePlan: it is enabled in the
\* same states, and TLC need not make a plan to see that.)
Fairness ==
    WF_<<pc, round>>(
        (\E j \in Jobs : Take(j)) \/ Conversation \/ LeavePlanning \/ Publish \/ Complete)

FairSpec == Spec /\ Fairness
-----------------------------------------------------------------------------
(* Properties.                                                                *)

TypeOK ==
    /\ window \in WindowReadings \cup {NoReading}
    /\ memory \in Memories \cup {NothingLearned}
    /\ job \in Jobs \cup {NoJob}
    /\ pc \in {"take", "chat", "answer", "plan", "publish", "complete"}
    /\ status \in [Jobs -> {"queued", "running", "completed", "failed"}]
    /\ summary \in WindowReadings \cup {NoReading}
    /\ round \in 0..MaxRounds
    /\ used \subseteq Tools
    /\ jsonRequired \in BOOLEAN
    /\ advice \in Policies \cup {NoPolicy}
    /\ plan.policy \in Policies \cup {NoPolicy}
    /\ advisedJobs \subseteq Jobs
    /\ handoff \in [job : Jobs \cup {NoJob}, policy : Policies \cup {NoPolicy}]

\* Advice rests on the tools and was written under the policy schema: whatever
\* the model calls, says or leaves out, no other answer gets past the
\* conversation (ollama_client.py 112-165: "you MUST call the
\* inspect_building_runtime MCP tool").
AdviceIsInformed ==
    advice # NoPolicy => RequiredTools \subseteq used /\ jsonRequired /\ summary # NoReading

\* A plan that the model did not advise leaves the goal's policy only for the one
\* that the agents select, and only when they are more than 80 % confident or it
\* did better so far than the goal's policy (strategic_reasoner.py 36-40: "A clear
\* requested goal starts with a small priority advantage").
DidBetter(performance, p, q) == Adjustment(performance[p]) > Adjustment(performance[q])

GoalKeepsItsAdvantage ==
    (plan # NoPlan /\ advice = NoPolicy /\ plan.policy # Goals[job].policy)
        => /\ plan.policy = plan.selected
           /\ plan.confidence > 80 \/ DidBetter(plan.performance, plan.selected, Goals[job].policy)

\* Whatever was learned when a cycle decides, a clear vote of the agents wins; see
\* DecisionEngine.
ClearVotesWin ==
    handoff = EmptySlot => \A r \in WindowReadings : ClearVoteWins(r, NoSignal, memory)

\* The conversation ends each job once, with advice in the slot or without: what
\* the control loop's model assumes of the worker (strategic_worker.py 71-105).
Outstanding == {j \in Jobs : status[j] \in {"queued", "running"}} \ advisedJobs

Ended == {j \in Jobs : status[j] \in {"completed", "failed"}} \cup advisedJobs

Advice == INSTANCE AdviceService WITH
    outstanding <- Outstanding, ended <- Ended, handoff <- handoff.job

EndsEachJobOnce == [][Advice!AdviceNext]_Advice!adviceVars

\* Every job ends: the rounds of a conversation are bounded, and every way out of
\* it leads to an end (ollama_client.py 112, strategic_worker.py 71-105).
JobsEnd == \A j \in Jobs : <>(status[j] \in {"completed", "failed"})
=============================================================================
