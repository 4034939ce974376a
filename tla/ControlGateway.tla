--------------------------- MODULE ControlGateway ---------------------------
(* The only write route to the actuators: every proposal reads the stored     *)
(* setpoints, is validated by the shared SafetySentinel and then replaces the *)
(* stored record (app/services/control_gateway.py). BuildingState locks each  *)
(* read and each write, but nothing locks the read, the validation and the    *)
(* write together, and the sentinel has no lock at all. A caller is a thread: *)
(* a worker of the API's thread pool or the control loop's cycle.             *)
(*                                                                            *)
(* A call goes through the program points                                     *)
(*   "idle" -> [ "evaluate" -> "evaluateStamp" -> "evaluateDelta" -> ]        *)
(*   "read" -> "validate" -> "stamp" -> "delta" -> "write" -> "idle"          *)
(* where the bracketed part is SelfHealingLoop.evaluate, which validates its  *)
(* fallback once on its own before the gateway validates it again.            *)
EXTENDS SetpointPolicy

CONSTANTS
    Callers,                 \* the threads that may be inside a call
    HvacRequests,            \* arguments of PUT /setpoints/hvac
    VentRequests,            \* arguments of PUT /setpoints/ventilation
    LightRequests,           \* arguments of PUT /setpoints/lighting
    MaxClock                 \* bound: the clock stops here

ASSUME GatewayAssumption ==
    /\ HvacRequests \subseteq Int
    /\ VentRequests \subseteq Int
    /\ LightRequests \subseteq Int
    /\ MaxClock \in Nat

VARIABLES
    setpoints,               \* BuildingState._setpoints
    sentinel,                \* the SafetySentinel's four fields
    clock,                   \* datetime.now(UTC)
    pc,                      \* the program point of each caller
    current,                 \* what a caller last read
    proposed,                \* what it wants to store
    now,                     \* the instant its validation began
    emergency                \* whether it is the recovery path

vars == <<setpoints, sentinel, clock, pc, current, proposed, now, emergency>>

ProgramPoints == {"idle", "evaluate", "evaluateStamp", "evaluateDelta",
                  "read", "validate", "stamp", "delta", "write"}

Init ==
    /\ setpoints = DefaultSetpoints
    /\ sentinel = InitialSentinel
    /\ clock = 0
    /\ pc = [c \in Callers |-> "idle"]
    /\ current = [c \in Callers |-> DefaultSetpoints]
    /\ proposed = [c \in Callers |-> DefaultSetpoints]
    /\ now = [c \in Callers |-> 0]
    /\ emergency = [c \in Callers |-> FALSE]

\* Time passes at any moment.
Tick ==
    /\ clock < MaxClock
    /\ clock' = clock + 1
    /\ UNCHANGED <<setpoints, sentinel, pc, current, proposed, now, emergency>>

\* A caller enters the gateway with a proposal built on the record it just read.
Propose(c, proposal) ==
    /\ pc[c] = "idle"
    /\ pc' = [pc EXCEPT ![c] = "read"]
    /\ current' = [current EXCEPT ![c] = setpoints]
    /\ proposed' = [proposed EXCEPT ![c] = proposal]
    /\ emergency' = [emergency EXCEPT ![c] = FALSE]
    /\ UNCHANGED <<setpoints, sentinel, clock, now>>

\* Mutant of SetHvacTemperature: the range check of the route is lost.
SetAnyTemperature(c, temperature) ==
    Propose(c, [setpoints EXCEPT !.hvac = temperature])

\* PUT /setpoints/hvac: the other two fields are a copy of what was read. A
\* request out of range is answered with status 400 and changes nothing.
SetHvacTemperature(c, temperature) ==
    /\ temperature \in HvacMin..HvacMax
    /\ Propose(c, [setpoints EXCEPT !.hvac = temperature])

AdjustVentilation(c, rate) ==
    /\ rate \in 0..PctMax
    /\ Propose(c, [setpoints EXCEPT !.vent = rate])

AdjustLighting(c, level) ==
    /\ level \in 0..PctMax
    /\ Propose(c, [setpoints EXCEPT !.light = level])

\* POST /decisions/apply, and the control loop's own proposal.
ApplyPolicy(c, policy) == Propose(c, PolicySetpoints[policy])

\* POST /self-healing/evaluate, or the control loop's own check, found the
\* comfort error above the threshold.
EvaluateComfort(c) ==
    /\ pc[c] = "idle"
    /\ pc' = [pc EXCEPT ![c] = "evaluate"]
    /\ current' = [current EXCEPT ![c] = setpoints]
    /\ proposed' = [proposed EXCEPT ![c] = ComfortFallback(setpoints)]
    /\ emergency' = [emergency EXCEPT ![c] = TRUE]
    /\ UNCHANGED <<setpoints, sentinel, clock, now>>

\* The decision of validate, at the two places that call it: an accepted change
\* is remembered next, an accepted proposal that changes nothing is not.
Validate(c, at, rememberAt, doneAt) ==
    /\ pc[c] = at
    /\ now' = [now EXCEPT ![c] = clock]
    /\ pc' = [pc EXCEPT ![c] =
                IF ~Accepts(sentinel, current[c], proposed[c], clock, emergency[c]) THEN "idle"
                ELSE IF proposed[c] # current[c] THEN rememberAt
                ELSE doneAt]
    /\ UNCHANGED <<setpoints, sentinel, clock, current, proposed, emergency>>

\* validate assigns the instant first ...
RememberInstant(c, at, next) ==
    /\ pc[c] = at
    /\ pc' = [pc EXCEPT ![c] = next]
    /\ sentinel' = [sentinel EXCEPT !.at = now[c]]
    /\ UNCHANGED <<setpoints, clock, current, proposed, now, emergency>>

\* ... and the three deltas after it.
RememberDelta(c, at, next) ==
    /\ pc[c] = at
    /\ pc' = [pc EXCEPT ![c] = next]
    /\ sentinel' = [sentinel EXCEPT !.delta = Delta(current[c], proposed[c])]
    /\ UNCHANGED <<setpoints, clock, current, proposed, now, emergency>>

\* SelfHealingLoop.evaluate validates the fallback itself.
ValidateFallback(c) == Validate(c, "evaluate", "evaluateStamp", "read")
RememberFallbackInstant(c) == RememberInstant(c, "evaluateStamp", "evaluateDelta")
RememberFallbackDelta(c) == RememberDelta(c, "evaluateDelta", "read")

\* apply_safe_setpoints reads the store again, ...
ReadSetpoints(c) ==
    /\ pc[c] = "read"
    /\ pc' = [pc EXCEPT ![c] = "validate"]
    /\ current' = [current EXCEPT ![c] = setpoints]
    /\ UNCHANGED <<setpoints, sentinel, clock, proposed, now, emergency>>

\* Mutant of ValidateProposal: an accepted change is not remembered.
ValidateAndForget(c) == Validate(c, "validate", "write", "write")

\* ... validates the proposal against that copy, ...
ValidateProposal(c) == Validate(c, "validate", "stamp", "write")
RememberChangeInstant(c) == RememberInstant(c, "stamp", "delta")
RememberChangeDelta(c) == RememberDelta(c, "delta", "write")

\* ... and replaces the stored record.
UpdateSetpoints(c) ==
    /\ pc[c] = "write"
    /\ pc' = [pc EXCEPT ![c] = "idle"]
    /\ setpoints' = proposed[c]
    /\ UNCHANGED <<sentinel, clock, current, proposed, now, emergency>>

Enter(c) ==
    \/ \E temperature \in HvacRequests : SetHvacTemperature(c, temperature)
    \/ \E rate \in VentRequests : AdjustVentilation(c, rate)
    \/ \E level \in LightRequests : AdjustLighting(c, level)
    \/ \E policy \in Policies : ApplyPolicy(c, policy)
    \/ EvaluateComfort(c)

\* Every step of a call but its last.
Advance(c) ==
    \/ ValidateFallback(c)
    \/ RememberFallbackInstant(c)
    \/ RememberFallbackDelta(c)
    \/ ReadSetpoints(c)
    \/ ValidateProposal(c)
    \/ RememberChangeInstant(c)
    \/ RememberChangeDelta(c)

Next ==
    \/ Tick
    \/ \E c \in Callers : Enter(c) \/ Advance(c) \/ UpdateSetpoints(c)

Spec == Init /\ [][Next]_vars
-----------------------------------------------------------------------------
(* Properties.                                                                *)

TypeOK ==
    /\ setpoints \in Setpoints
    /\ sentinel \in Sentinels
    /\ clock \in Nat
    /\ pc \in [Callers -> ProgramPoints]
    /\ current \in [Callers -> Setpoints]
    /\ proposed \in [Callers -> Setpoints]
    /\ now \in [Callers -> Nat]
    /\ emergency \in [Callers -> BOOLEAN]
=============================================================================
