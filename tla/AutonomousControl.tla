------------------------- MODULE AutonomousControl --------------------------
(* The closed control loop (app/services/autonomous_control.py) with the      *)
(* self-healing loop, the one-slot policy handoff and the API requests that   *)
(* share the setpoints with it. A cycle goes through the program points       *)
(*   "sleep" -> [ "heal" -> "correct" -> "storeCorrection" -> "sleep" or ]    *)
(*   "decide" -> "apply" -> "store" -> "register" -> "sleep"                  *)
(* with "apply" -> "balance" -> "storeBalanced" -> "sleep" when the advised   *)
(* policy is rejected. A request, the strategic worker and the passing of     *)
(* time interleave between them. A call of the gateway is two steps, the      *)
(* approval and the write, with nothing that locks them together;             *)
(* ControlGateway divides the approval further. The API serves one request at *)
(* a time here.                                                               *)
(*                                                                            *)
(* The sentinel is remembered by the age of its last accepted change, which   *)
(* stops growing once the reversal guard no longer looks at it, so that runs  *)
(* of any length have finitely many states; a sentinel that remembers nothing *)
(* has that same age.                                                         *)
EXTENDS SetpointPolicy

CONSTANTS
    Balanced, ComfortFirst,  \* the two policies the code names
    NoPolicy,                \* an empty handoff slot
    MinComfort,              \* settings.autonomous_min_comfort_pct, 90
    ExpectedComfort,         \* the comfort the loop expects, 95
    ErrorThreshold,          \* SelfHealingLoop.error_threshold, 5
    ComfortReadings,         \* the comfort scores telemetry may lead to
    PutRequests,             \* what the PUT requests may ask: a field and its value
    RequestedPolicies,       \* what POST /decisions/apply may select
    FeedbackErrors,          \* expected - actual of POST /self-healing/evaluate
    MaxJobs                  \* bound: strategic jobs outstanding at once

ASSUME ControlAssumption ==
    /\ Balanced \in Policies /\ ComfortFirst \in Policies
    /\ Balanced # ComfortFirst
    /\ PolicySetpoints[Balanced] = DefaultSetpoints
    /\ NoPolicy \notin Policies
    /\ MinComfort \in Int /\ ExpectedComfort \in Int /\ ErrorThreshold \in Int
    /\ ComfortReadings \subseteq Int
    /\ PutRequests \subseteq [field: {"hvac", "vent", "light"}, value: Int]
    /\ RequestedPolicies \subseteq Policies
    /\ FeedbackErrors \subseteq Int
    /\ MaxJobs \in Nat

VARIABLES
    setpoints,               \* BuildingState._setpoints
    age,                     \* time since the sentinel's last accepted change
    remembered,              \* the sentinel's three deltas
    pc,                      \* the program point of the cycle
    comfort,                 \* _status.comfort_pct
    base,                    \* process: current, read when the cycle began
    chosen,                  \* process: policy
    advised,                 \* process: the policy came from a handoff
    activePolicy,            \* _status.active_policy
    fallbackActivated,       \* _status.fallback_activated
    healerPolicy,            \* SelfHealingLoop._active_policy
    healerPrevious,          \* SelfHealingLoop._previous_setpoints
    handoff,                 \* PolicyHandoffQueue._pending
    episode,                 \* the newest episode of the automation memory
    jobs,                    \* strategic jobs submitted and not finished
    request,                 \* the program point of the API request
    requestBase,             \* what the request read
    requestPolicy,           \* the policy POST /decisions/apply selected
    requestProposal,         \* what the gateway stores for the request
    settled                  \* history: no request since the loop last stored a policy

sentinelVars == <<age, remembered>>
cycleVars == <<pc, comfort, base, chosen, advised>>
statusVars == <<activePolicy, fallbackActivated>>
healerVars == <<healerPolicy, healerPrevious>>
requestVars == <<request, requestBase, requestPolicy, requestProposal, settled>>

vars == <<setpoints, sentinelVars, cycleVars, statusVars, healerVars,
          handoff, episode, jobs, requestVars>>

Episodes == [policy: Policies, failed: BOOLEAN]

Init ==
    /\ setpoints = DefaultSetpoints
    /\ age = MinChangeInterval /\ remembered = NoDelta
    /\ pc = "sleep" /\ comfort = 100 /\ base = DefaultSetpoints
    /\ chosen = Balanced /\ advised = FALSE
    /\ activePolicy = Balanced /\ fallbackActivated = FALSE
    /\ healerPolicy = Balanced /\ healerPrevious = DefaultSetpoints
    /\ handoff = NoPolicy
    /\ episode = [policy |-> Balanced, failed |-> FALSE]
    /\ jobs = 0
    /\ request = "none" /\ requestBase = DefaultSetpoints /\ requestPolicy = Balanced
    /\ requestProposal = DefaultSetpoints /\ settled = TRUE
-----------------------------------------------------------------------------
(* The sentinel and the gateway, one call at a time.                          *)

Accepted(from, to, emergency) ==
    Accepts([at |-> 0, delta |-> remembered], from, to, age, emergency)

Remember(from, to) ==
    IF to = from
    THEN UNCHANGED sentinelVars
    ELSE age' = 0 /\ remembered' = Delta(from, to)

\* apply_safe_setpoints approves the proposal, ...
Approve(to, emergency) ==
    /\ Accepted(setpoints, to, emergency)
    /\ Remember(setpoints, to)

\* ... or does not; ...
Reject(to, emergency) ==
    /\ ~Accepted(setpoints, to, emergency)
    /\ UNCHANGED sentinelVars

\* ... and stores what it approved a moment later.
Store(to) == setpoints' = to

Tick ==
    /\ age < MinChangeInterval
    /\ age' = age + 1
    /\ UNCHANGED <<setpoints, remembered, cycleVars, statusVars, healerVars,
                   handoff, episode, jobs, requestVars>>
-----------------------------------------------------------------------------
(* The cycle.                                                                 *)

\* process up to the comfort check: the observed episode is recorded under the
\* policy the status names, and strategic reasoning may be queued.
BeginCycle(score) ==
    /\ pc = "sleep"
    /\ comfort' = score
    /\ base' = setpoints
    /\ episode' = [policy |-> activePolicy, failed |-> FALSE]
    /\ jobs' \in {jobs, jobs + 1} /\ jobs' <= MaxJobs
    /\ pc' = IF activePolicy # Balanced /\ score < MinComfort THEN "heal" ELSE "decide"
    /\ UNCHANGED <<setpoints, sentinelVars, chosen, advised, statusVars, healerVars,
                   handoff, requestVars>>

\* SelfHealingLoop.evaluate with a prediction error above the threshold: the
\* failure is recorded, and the fallback validated before anybody applies it.
RecordFailure == episode' = [policy |-> healerPolicy, failed |-> TRUE]

AcceptFallback(from) ==
    /\ Accepted(from, ComfortFallback(from), TRUE)
    /\ Remember(from, ComfortFallback(from))
    /\ healerPolicy' = ComfortFirst
    /\ healerPrevious' = from

BlockFallback(from) ==
    /\ ~Accepted(from, ComfortFallback(from), TRUE)
    /\ UNCHANGED <<sentinelVars, healerVars>>

EvaluateComfort ==
    /\ pc = "heal"
    /\ \/ /\ ExpectedComfort - comfort > ErrorThreshold
          /\ RecordFailure
          /\ \/ AcceptFallback(base) /\ pc' = "correct"
             \/ BlockFallback(base) /\ pc' = "decide"
       \/ /\ ExpectedComfort - comfort <= ErrorThreshold
          /\ pc' = "decide"
          /\ UNCHANGED <<episode, sentinelVars, healerVars>>
    /\ UNCHANGED <<setpoints, comfort, base, chosen, advised, statusVars,
                   handoff, jobs, requestVars>>

\* The gateway validates the fallback again.
CorrectComfort ==
    /\ pc = "correct"
    /\ \/ Approve(ComfortFallback(base), TRUE) /\ pc' = "storeCorrection"
       \/ Reject(ComfortFallback(base), TRUE) /\ pc' = "decide"
    /\ UNCHANGED <<setpoints, comfort, base, chosen, advised, statusVars, healerVars,
                   handoff, episode, jobs, requestVars>>

\* Mutant of StoreCorrection: the cycle goes on after the recovery.
StoreCorrectionAndGoOn ==
    /\ pc = "storeCorrection"
    /\ pc' = "decide"
    /\ Store(ComfortFallback(base))
    /\ activePolicy' = ComfortFirst
    /\ fallbackActivated' = TRUE
    /\ UNCHANGED <<sentinelVars, comfort, base, chosen, advised, healerVars, handoff,
                   episode, jobs, requestVars>>

\* An accepted recovery ends the cycle. Only the loop writes and reads the status,
\* so that it changes with the store.
StoreCorrection ==
    /\ pc = "storeCorrection"
    /\ pc' = "sleep"
    /\ Store(ComfortFallback(base))
    /\ activePolicy' = ComfortFirst
    /\ fallbackActivated' = TRUE
    /\ UNCHANGED <<sentinelVars, comfort, base, chosen, advised, healerVars, handoff,
                   episode, jobs, requestVars>>

\* Mutant of Decide: the slot is read and not emptied.
DecideKeepingHandoff ==
    /\ pc = "decide"
    /\ pc' = "apply"
    /\ advised' = (handoff # NoPolicy)
    /\ IF handoff # NoPolicy THEN chosen' = handoff ELSE chosen' \in Policies
    /\ UNCHANGED <<setpoints, sentinelVars, comfort, base, statusVars, healerVars,
                   handoff, episode, jobs, requestVars>>

\* The handoff is taken out of its slot; without one the agents' arbitration
\* decides, which may select any policy.
Decide ==
    /\ pc = "decide"
    /\ pc' = "apply"
    /\ advised' = (handoff # NoPolicy)
    /\ IF handoff # NoPolicy THEN chosen' = handoff ELSE chosen' \in Policies
    /\ handoff' = NoPolicy
    /\ UNCHANGED <<setpoints, sentinelVars, comfort, base, statusVars, healerVars,
                   episode, jobs, requestVars>>

\* A rejected handoff is followed by an attempt at the balanced policy, any
\* other rejected policy leaves everything as it is.
ApplyChosen ==
    /\ pc = "apply"
    /\ \/ Approve(PolicySetpoints[chosen], FALSE) /\ pc' = "store"
       \/ /\ Reject(PolicySetpoints[chosen], FALSE)
          /\ pc' = IF advised /\ chosen # Balanced THEN "balance" ELSE "sleep"
    /\ UNCHANGED <<setpoints, comfort, base, chosen, advised, statusVars, healerVars,
                   handoff, episode, jobs, requestVars>>

\* History: no request is under way when the loop stores a policy.
Settle ==
    /\ settled' = (request = "none")
    /\ UNCHANGED <<request, requestBase, requestPolicy, requestProposal>>

StoreChosen ==
    /\ pc = "store"
    /\ pc' = "register"
    /\ Store(PolicySetpoints[chosen])
    /\ Settle
    /\ UNCHANGED <<sentinelVars, comfort, base, chosen, advised, statusVars, healerVars,
                   handoff, episode, jobs>>

\* Mutant of RegisterChosen: the self-healing loop is not told.
RegisterInStatusOnly ==
    /\ pc = "register"
    /\ pc' = "sleep"
    /\ activePolicy' = chosen
    /\ fallbackActivated' = FALSE
    /\ UNCHANGED <<setpoints, sentinelVars, comfort, base, chosen, advised, healerVars,
                   handoff, episode, jobs, requestVars>>

\* An accepted policy becomes the active one, for both loops.
RegisterChosen ==
    /\ pc = "register"
    /\ pc' = "sleep"
    /\ healerPolicy' = chosen
    /\ healerPrevious' = base
    /\ activePolicy' = chosen
    /\ fallbackActivated' = FALSE
    /\ UNCHANGED <<setpoints, sentinelVars, comfort, base, chosen, advised, handoff,
                   episode, jobs, requestVars>>

ApplyBalanced ==
    /\ pc = "balance"
    /\ \/ Approve(PolicySetpoints[Balanced], FALSE) /\ pc' = "storeBalanced"
       \/ Reject(PolicySetpoints[Balanced], FALSE) /\ pc' = "sleep"
    /\ UNCHANGED <<setpoints, comfort, base, chosen, advised, statusVars, healerVars,
                   handoff, episode, jobs, requestVars>>

\* Mutant of StoreBalanced: the status keeps the policy that was replaced.
StoreBalancedSilently ==
    /\ pc = "storeBalanced"
    /\ pc' = "sleep"
    /\ Store(PolicySetpoints[Balanced])
    /\ Settle
    /\ UNCHANGED <<sentinelVars, comfort, base, chosen, advised, statusVars, healerVars,
                   handoff, episode, jobs>>

\* The balanced fallback updates the status and not the self-healing loop.
StoreBalanced ==
    /\ pc = "storeBalanced"
    /\ pc' = "sleep"
    /\ Store(PolicySetpoints[Balanced])
    /\ Settle
    /\ activePolicy' = Balanced
    /\ fallbackActivated' = TRUE
    /\ UNCHANGED <<sentinelVars, comfort, base, chosen, advised, healerVars, handoff,
                   episode, jobs>>
-----------------------------------------------------------------------------
(* The strategic worker, seen from the handoff slot.                          *)

\* POST /strategy/jobs.
SubmitJob ==
    /\ jobs < MaxJobs
    /\ jobs' = jobs + 1
    /\ UNCHANGED <<setpoints, sentinelVars, cycleVars, statusVars, healerVars,
                   handoff, episode, requestVars>>

\* A job ends with advice, which replaces an older one nobody consumed, ...
Advise(policy) ==
    /\ jobs > 0
    /\ jobs' = jobs - 1
    /\ handoff' = policy
    /\ UNCHANGED <<setpoints, sentinelVars, cycleVars, statusVars, healerVars,
                   episode, requestVars>>

\* ... or with the deterministic plan or an error, and hands nothing off.
EndWithoutAdvice ==
    /\ jobs > 0
    /\ jobs' = jobs - 1
    /\ UNCHANGED <<setpoints, sentinelVars, cycleVars, statusVars, healerVars,
                   handoff, episode, requestVars>>
-----------------------------------------------------------------------------
(* The API.                                                                   *)

\* Whatever a request does, it does behind the loop's back.
RequestStep(next) == request' = next /\ settled' = FALSE

\* The PUT requests and the MCP tools: one field, a copy of the other two.
PutSetpoints(put) ==
    LET proposal == [setpoints EXCEPT ![put.field] = put.value] IN
    /\ request = "none"
    /\ proposal \in Setpoints
    /\ Approve(proposal, FALSE)
    /\ RequestStep("store")
    /\ requestProposal' = proposal
    /\ UNCHANGED <<setpoints, cycleVars, statusVars, healerVars, handoff, episode, jobs,
                   requestBase, requestPolicy>>

\* POST /decisions/apply: gateway first, then the self-healing loop is told;
\* the control loop's status is not.
RequestPolicy(policy) ==
    /\ request = "none"
    /\ Approve(PolicySetpoints[policy], FALSE)
    /\ RequestStep("storePolicy")
    /\ requestBase' = setpoints
    /\ requestPolicy' = policy
    /\ requestProposal' = PolicySetpoints[policy]
    /\ UNCHANGED <<setpoints, cycleVars, statusVars, healerVars, handoff, episode, jobs>>

StoreRequested ==
    /\ \/ request = "store" /\ RequestStep("none")
       \/ request = "storePolicy" /\ RequestStep("register")
    /\ Store(requestProposal)
    /\ UNCHANGED <<sentinelVars, cycleVars, statusVars, healerVars, handoff, episode,
                   jobs, requestBase, requestPolicy, requestProposal>>

RegisterRequested ==
    /\ request = "register"
    /\ RequestStep("none")
    /\ healerPolicy' = requestPolicy
    /\ healerPrevious' = requestBase
    /\ UNCHANGED <<setpoints, sentinelVars, cycleVars, statusVars, handoff, episode,
                   jobs, requestBase, requestPolicy, requestProposal>>

\* POST /self-healing/evaluate, an error within the threshold changes nothing.
RequestHealing(error) ==
    /\ request = "none"
    /\ error > ErrorThreshold
    /\ RecordFailure
    /\ requestBase' = setpoints
    /\ \/ AcceptFallback(setpoints) /\ RequestStep("correct")
       \/ BlockFallback(setpoints) /\ RequestStep("none")
    /\ UNCHANGED <<setpoints, cycleVars, statusVars, handoff, jobs, requestPolicy,
                   requestProposal>>

CorrectRequested ==
    /\ request = "correct"
    /\ requestProposal' = ComfortFallback(requestBase)
    /\ \/ Approve(ComfortFallback(requestBase), TRUE) /\ RequestStep("store")
       \/ Reject(ComfortFallback(requestBase), TRUE) /\ RequestStep("none")
    /\ UNCHANGED <<setpoints, cycleVars, statusVars, healerVars, handoff, episode, jobs,
                   requestBase, requestPolicy>>
-----------------------------------------------------------------------------
Cycle ==
    \/ \E score \in ComfortReadings : BeginCycle(score)
    \/ EvaluateComfort
    \/ CorrectComfort
    \/ StoreCorrection
    \/ Decide
    \/ ApplyChosen
    \/ StoreChosen
    \/ RegisterChosen
    \/ ApplyBalanced
    \/ StoreBalanced

Worker ==
    \/ SubmitJob
    \/ \E policy \in Policies : Advise(policy)
    \/ EndWithoutAdvice

Request ==
    \/ \E put \in PutRequests : PutSetpoints(put)
    \/ \E policy \in RequestedPolicies : RequestPolicy(policy)
    \/ StoreRequested
    \/ RegisterRequested
    \/ \E error \in FeedbackErrors : RequestHealing(error)
    \/ CorrectRequested

Next == Tick \/ Cycle \/ Worker \/ Request

Spec == Init /\ [][Next]_vars

\* Ticks of the runner keep yielding telemetry, after each of which process is called,
\* and no step of a cycle waits.
Fairness == WF_vars(Cycle)

FairSpec == Spec /\ Fairness

\* Nobody but the loop itself writes setpoints.
Unattended ==
    /\ PutRequests = {}
    /\ RequestedPolicies = {}
    /\ FeedbackErrors = {}
-----------------------------------------------------------------------------
(* Properties.                                                                *)

TypeOK ==
    /\ setpoints \in Setpoints
    /\ age \in 0..MinChangeInterval /\ remembered \in Deltas
    /\ pc \in {"sleep", "heal", "correct", "storeCorrection", "decide", "apply", "store",
               "register", "balance", "storeBalanced"}
    /\ comfort \in Int /\ base \in Setpoints
    /\ chosen \in Policies /\ advised \in BOOLEAN
    /\ activePolicy \in Policies /\ fallbackActivated \in BOOLEAN
    /\ healerPolicy \in Policies /\ healerPrevious \in Setpoints
    /\ handoff \in Policies \cup {NoPolicy}
    /\ episode \in Episodes
    /\ jobs \in 0..MaxJobs
    /\ request \in {"none", "correct", "store", "storePolicy", "register"}
    /\ requestBase \in Setpoints /\ requestPolicy \in Policies
    /\ requestProposal \in Setpoints /\ settled \in BOOLEAN

\* The policy the status names is the one whose setpoints are in force, or it
\* is the comfort-first policy of a recovery: rejections, retained setpoints and
\* the balanced fallback never leave the status, and the episodes recorded
\* under it, behind (autonomous_control.py 87-130 and 174).
PolicyInForce ==
    pc # "register" =>
        \/ setpoints = PolicySetpoints[activePolicy]
        \/ activePolicy = ComfortFirst /\ fallbackActivated

\* When the loop asks for a correction, the policy the self-healing loop will
\* blame is the one the status names, though the balanced fallback updates only
\* the status (autonomous_control.py 83-86 and 119-121, self_healing.py 50).
BlameMatchesStatus == pc = "heal" => healerPolicy = activePolicy

\* Left alone, the loop stays on the recovery side of some policy: no hotter, no
\* less ventilated and lit as that policy says (self_healing.py 62-66).
OnRecoverySide ==
    \E policy \in Policies :
        /\ setpoints.hvac <= PolicySetpoints[policy].hvac
        /\ setpoints.vent >= PolicySetpoints[policy].vent
        /\ setpoints.light = PolicySetpoints[policy].light

\* An operator's change, a policy applied by request and a recovery asked for from
\* outside leave the loop's status behind. The next policy the loop stores, when no
\* request is under way, puts status, self-healing loop and setpoints in agreement
\* again, and they stay so through recoveries, rejections and balanced fallbacks
\* until the next request (autonomous_control.py 80-131, api/routes/decisions.py
\* 50-53, api/routes/self_healing.py 18-21).
LoopRegainsControl == settled => PolicyInForce /\ BlameMatchesStatus

\* A status that shows a fallback names one of the two policies a fallback can
\* lead to (autonomous_control.py 90-91, 105 and 120-121).
FallbackNamesItsPolicy == fallbackActivated => activePolicy \in {Balanced, ComfortFirst}

\* Some policy of the table can be applied once the interval has passed: the
\* controller recovers (SYSTEM_ARCHITECTURE_AABOS.md, section 12).
SomePolicyWithinReach ==
    pc = "sleep" /\ age = MinChangeInterval =>
        \E policy \in Policies : Accepted(setpoints, PolicySetpoints[policy], FALSE)

\* A recommendation is eventually taken out of its slot once comfort stays above
\* the minimum (policy_handoff.py 29-33, autonomous_control.py 83-95).
HandoffConsumed ==
    <>[](comfort >= MinComfort) => (handoff # NoPolicy ~> handoff = NoPolicy)

\* A shortfall that lasts, under a policy that is not the balanced one, drives
\* the setpoints to full ventilation and the lowest temperature, and the loop
\* is not thrown back on the way (autonomous_control.py 83-93).
RecoveryConverges ==
    <>[](comfort < MinComfort /\ activePolicy # Balanced) =>
        <>[](setpoints.hvac = HvacMin /\ setpoints.vent = PctMax)
=============================================================================
