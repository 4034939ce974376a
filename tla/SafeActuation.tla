--------------------------- MODULE SafeActuation ----------------------------
(* What the control gateway promises to whoever watches the actuators, as an  *)
(* abstract specification: the setpoints move one approved step at a time.    *)
(* It has no callers, no reads and no validation, only the sequence of moves  *)
(* and the instant each was approved.                                         *)
EXTENDS SetpointPolicy

VARIABLES setpoints, lastMove

safeVars == <<setpoints, lastMove>>

SafeInit ==
    /\ setpoints = DefaultSetpoints
    /\ lastMove = InitialSentinel

\* The move is made long enough after the previous one, or goes on in its
\* direction, or restores comfort.
MayFollow(move, previous) ==
    \/ previous.at = Never
    \/ move.at - previous.at >= MinChangeInterval
    \/ ~Reverses(move.delta, previous.delta)
    \/ setpoints' = ComfortFallback(setpoints)

Move ==
    /\ setpoints' \in Setpoints
    /\ setpoints' # setpoints
    /\ lastMove' \in Sentinels
    /\ lastMove'.delta = Delta(setpoints, setpoints')
    /\ WithinStepLimits(lastMove'.delta)
    /\ lastMove.at <= lastMove'.at
    /\ MayFollow(lastMove', lastMove)

SafeSpec == SafeInit /\ [][Move]_safeVars
=============================================================================
