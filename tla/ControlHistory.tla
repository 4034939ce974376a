--------------------------- MODULE ControlHistory ---------------------------
(* AutonomousControl with history variables: the time, the last move the      *)
(* stored setpoints really made, and the instant at which the gateway         *)
(* approved it. The loop keeps none of them: its sentinel remembers what was  *)
(* accepted, which the self-healing loop asks for before anything is written, *)
(* and only how long ago that was.                                            *)
EXTENDS AutonomousControl

CONSTANT MaxClock            \* bound: the time at which observation ends

VARIABLES
    clock,
    lastMove,                \* the last change of the store, and when it was approved
    approvedAt               \* when the loop last asked the gateway

historyVars == <<vars, clock, lastMove, approvedAt>>

HistoryInit ==
    /\ Init
    /\ clock = 0
    /\ lastMove = InitialSentinel
    /\ approvedAt = 0

\* Time passes, also when the sentinel no longer looks at it.
PassTime ==
    /\ clock < MaxClock
    /\ clock' = clock + 1
    /\ Tick \/ (age = MinChangeInterval /\ UNCHANGED vars)
    /\ UNCHANGED <<lastMove, approvedAt>>

\* Remember what a step does to the store.
Observe ==
    /\ approvedAt' = IF pc \in {"correct", "apply", "balance"} /\ pc' # pc THEN clock
                     ELSE approvedAt
    /\ lastMove' = IF setpoints' = setpoints THEN lastMove
                   ELSE [at |-> approvedAt, delta |-> Delta(setpoints, setpoints')]
    /\ UNCHANGED clock

HistoryNext ==
    \/ PassTime
    \/ (Cycle \/ Worker \/ Request) /\ Observe

HistorySpec == HistoryInit /\ [][HistoryNext]_historyVars
-----------------------------------------------------------------------------
(* Properties.                                                                *)

\* The abstract specification of the actuators.
Actuation == INSTANCE SafeActuation

\* Left alone, the whole loop moves the actuators as the gateway alone does with one
\* caller: policies, handoffs, their fallbacks and recoveries follow one another
\* within the step limits, and none but a recovery reverses the move before it
\* within the interval (autonomous_control.py 83-126, self_healing.py 50-70).
LoopImplementsSafeActuation == Actuation!SafeSpec

\* Between cycles the sentinel remembers the move the store really made, and counts no
\* more time since it was approved than has passed (safety_sentinel.py 47-62).
SentinelRemembersMove ==
    (pc = "sleep" /\ lastMove.at # Never) =>
        remembered = lastMove.delta /\ age <= clock - lastMove.at
=============================================================================
