-------------------------- MODULE ActuationHistory --------------------------
(* ControlGateway with history variables: the last move the stored setpoints  *)
(* really made, with the instant at which the sentinel approved it, and which *)
(* calls overlapped. The properties of the actuators are stated here.         *)
EXTENDS ControlGateway

VARIABLES
    lastMove,                \* the last change of the stored record
    overlapped,              \* the callers whose call, the last one, overlapped another
    reliable                 \* no two calls overlapped since the store was last changed
                             \* by a call that overlapped no other

historyVars == <<vars, lastMove, overlapped, reliable>>

HistoryInit ==
    /\ Init
    /\ lastMove = InitialSentinel
    /\ overlapped = {}
    /\ reliable = TRUE

Busy == {c \in Callers : pc[c] # "idle"}

\* Caller c enters: its call and those it finds under way overlap.
Meet(c) ==
    /\ overlapped' = IF Busy = {} THEN overlapped \ {c} ELSE overlapped \cup Busy \cup {c}
    /\ reliable' = (reliable /\ Busy = {})
    /\ UNCHANGED lastMove

\* What the write of caller c does to the store.
Observe(c) ==
    /\ lastMove' = IF setpoints' = setpoints THEN lastMove
                   ELSE [at |-> now[c], delta |-> Delta(setpoints, setpoints')]
    /\ reliable' = (reliable \/ (setpoints' # setpoints /\ c \notin overlapped))
    /\ UNCHANGED overlapped

HistoryNext ==
    \/ Tick /\ UNCHANGED <<lastMove, overlapped, reliable>>
    \/ \E c \in Callers :
        \/ Enter(c) /\ Meet(c)
        \/ Advance(c) /\ UNCHANGED <<lastMove, overlapped, reliable>>
        \/ UpdateSetpoints(c) /\ Observe(c)

HistorySpec == HistoryInit /\ [][HistoryNext]_historyVars
-----------------------------------------------------------------------------
(* Properties.                                                                *)

\* The abstract specification of the actuators.
Actuation == INSTANCE SafeActuation

\* The moves of the actuators are those SafeActuation allows: a stored record
\* is replaced by one within the step limits of it, that does not reverse the
\* previous replacement within the interval unless it restores comfort
\* (safety_sentinel.py 34-62 as used by control_gateway.py 36-39).
ImplementsSafeActuation == Actuation!SafeSpec

\* Between calls the sentinel remembers the move the store really made, unless calls
\* overlapped since: though a recovery is validated, and remembered, twice before it
\* is written (self_healing.py 67, control_gateway.py 37).
SentinelMatchesStore == reliable /\ Busy = {} => sentinel = lastMove

\* The gateway recovers from calls that overlapped. Whatever they left in the store
\* and in the sentinel, a call that overlaps no other moves the store within the step
\* limits; and once such a call has changed the store, the moves are those of
\* SafeActuation again, reversal guard included, until two calls overlap
\* (control_gateway.py 36-39, safety_sentinel.py 34-62).
LoneMovesAreSafe ==
    [][\A c \in Callers \ overlapped :
          UpdateSetpoints(c) /\ setpoints' # setpoints =>
              /\ WithinStepLimits(Delta(setpoints, setpoints'))
              /\ reliable => Actuation!Move]_historyVars

\* One accepted proposal moves the store within the step limits
\* (SYSTEM_ARCHITECTURE_AABOS.md, the table of the Safety Sentinel).
EveryMoveWithinLimits ==
    [][WithinStepLimits(Delta(setpoints, setpoints'))]_setpoints
=============================================================================
