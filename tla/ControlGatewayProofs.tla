----------------------- MODULE ControlGatewayProofs -------------------------
(* What holds of the control gateway for any number of callers, any requests, *)
(* limits and policies, under every interleaving of their steps: what a call  *)
(* that overlaps no other does; and that the gateway implements SafeActuation *)
(* when no calls overlap.                                                     *)
EXTENDS ActuationHistory, TLAPS

USE DEF Never, Actuation!Never

\* The remembered deltas are integers whatever two records they come from.
LEMMA DeltaType ==
    ASSUME NEW from \in Setpoints, NEW to \in Setpoints
    PROVE  Delta(from, to) \in Deltas
  BY SentinelAssumption DEF Delta, Deltas, Setpoints

\* The recovery move of the self-healing loop stays within the ranges of the
\* Setpoints schema, so building the record never fails (self_healing.py 62-66).
LEMMA FallbackType ==
    ASSUME NEW from \in Setpoints
    PROVE  ComfortFallback(from) \in Setpoints
  BY SentinelAssumption, PolicyAssumption
     DEF ComfortFallback, Setpoints, Smaller, Larger

\* A proposal built on a record in range is in range once the request is.
LEMMA FieldType ==
    ASSUME NEW from \in Setpoints
    PROVE  /\ \A t \in HvacMin..HvacMax : [from EXCEPT !.hvac = t] \in Setpoints
           /\ \A v \in 0..PctMax : [from EXCEPT !.vent = v] \in Setpoints
           /\ \A l \in 0..PctMax : [from EXCEPT !.light = l] \in Setpoints
  BY DEF Setpoints

LEMMA InitTypeOK == Init => TypeOK
  BY SentinelAssumption
     DEF Init, TypeOK, InitialSentinel, NoDelta, Sentinels, Deltas, ProgramPoints

\* Every step of every caller keeps the store, the sentinel and the registers of
\* all callers well typed; in particular nothing out of range is ever pending.
LEMMA NextTypeOK == TypeOK /\ [Next]_vars => TypeOK'
<1> SUFFICES ASSUME TypeOK, [Next]_vars PROVE TypeOK'
  OBVIOUS
<1> USE DEF TypeOK
<1>1. CASE Tick
  BY <1>1 DEF Tick
<1>2. ASSUME NEW c \in Callers, Enter(c) PROVE TypeOK'
  <2>1. ASSUME NEW proposal \in Setpoints, Propose(c, proposal) PROVE TypeOK'
    BY <2>1 DEF Propose, ProgramPoints
  <2>2. CASE \E temperature \in HvacRequests : SetHvacTemperature(c, temperature)
    BY <2>1, <2>2, FieldType DEF SetHvacTemperature
  <2>3. CASE \E rate \in VentRequests : AdjustVentilation(c, rate)
    BY <2>1, <2>3, FieldType DEF AdjustVentilation
  <2>4. CASE \E level \in LightRequests : AdjustLighting(c, level)
    BY <2>1, <2>4, FieldType DEF AdjustLighting
  <2>5. CASE \E policy \in Policies : ApplyPolicy(c, policy)
    BY <2>1, <2>5, PolicyAssumption DEF ApplyPolicy
  <2>6. CASE EvaluateComfort(c)
    BY <2>6, FallbackType DEF EvaluateComfort, ProgramPoints
  <2> QED
    BY <1>2, <2>2, <2>3, <2>4, <2>5, <2>6 DEF Enter
<1>3. ASSUME NEW c \in Callers, Advance(c) PROVE TypeOK'
  <2>1. ASSUME NEW at \in ProgramPoints, NEW rememberAt \in ProgramPoints,
               NEW doneAt \in ProgramPoints, Validate(c, at, rememberAt, doneAt)
        PROVE  TypeOK'
    BY <2>1 DEF Validate, ProgramPoints
  <2>2. ASSUME NEW at \in ProgramPoints, NEW next \in ProgramPoints,
               RememberInstant(c, at, next)
        PROVE  TypeOK'
    BY <2>2 DEF RememberInstant, Sentinels
  <2>3. ASSUME NEW at \in ProgramPoints, NEW next \in ProgramPoints,
               RememberDelta(c, at, next)
        PROVE  TypeOK'
    BY <2>3, DeltaType DEF RememberDelta, Sentinels
  <2>4. CASE ValidateFallback(c)
    BY <2>1, <2>4 DEF ValidateFallback, ProgramPoints
  <2>5. CASE RememberFallbackInstant(c)
    BY <2>2, <2>5 DEF RememberFallbackInstant, ProgramPoints
  <2>6. CASE RememberFallbackDelta(c)
    BY <2>3, <2>6 DEF RememberFallbackDelta, ProgramPoints
  <2>7. CASE ReadSetpoints(c)
    BY <2>7 DEF ReadSetpoints, ProgramPoints
  <2>8. CASE ValidateProposal(c)
    BY <2>1, <2>8 DEF ValidateProposal, ProgramPoints
  <2>9. CASE RememberChangeInstant(c)
    BY <2>2, <2>9 DEF RememberChangeInstant, ProgramPoints
  <2>10. CASE RememberChangeDelta(c)
    BY <2>3, <2>10 DEF RememberChangeDelta, ProgramPoints
  <2> QED
    BY <1>3, <2>4, <2>5, <2>6, <2>7, <2>8, <2>9, <2>10 DEF Advance
<1>4. ASSUME NEW c \in Callers, UpdateSetpoints(c) PROVE TypeOK'
  BY <1>4 DEF UpdateSetpoints, ProgramPoints
<1>5. CASE UNCHANGED vars
  BY <1>5 DEF vars
<1> QED
  BY <1>1, <1>2, <1>3, <1>4, <1>5 DEF Next

\* Type correctness: the stored setpoints, and every proposal on its way to the
\* store, are always within the ranges of the Setpoints schema.
THEOREM TypeCorrect == Spec => []TypeOK
  BY InitTypeOK, NextTypeOK, PTL DEF Spec
-----------------------------------------------------------------------------
(* A call that overlaps no other, for any number of callers and whatever      *)
(* earlier calls that did overlap left in the store and in the sentinel.      *)

\* The sentinel remembers the last move of the store, when it can be relied on.
Agreed == reliable => sentinel = lastMove

\* The proposal is a move within the limits, approved after the last move.
Approvable(c) ==
    /\ proposed[c] # setpoints
    /\ WithinStepLimits(Delta(setpoints, proposed[c]))
    /\ lastMove.at <= now[c]

\* The proposal may follow the last move.
Follows(c) ==
    \/ proposed[c] = ComfortFallback(setpoints)
    \/ lastMove.at = Never
    \/ now[c] - lastMove.at >= MinChangeInterval
    \/ ~Reverses(Delta(setpoints, proposed[c]), lastMove.delta)

\* The gateway may write it.
Approved(c) == Approvable(c) /\ (reliable => Follows(c))

\* The sentinel already remembers the pending proposal.
RemembersPending(c) ==
    sentinel = [at |-> now[c], delta |-> Delta(setpoints, proposed[c])]

\* The recovery was validated and remembered before the gateway sees it.
Rehearsed(c) == emergency[c] /\ Approvable(c) /\ RemembersPending(c)

\* What a lone caller knows at each point of its call.
CallInv(c) ==
    /\ pc[c] \in {"evaluate", "evaluateStamp", "evaluateDelta"} => emergency[c]
    /\ emergency[c] => proposed[c] = ComfortFallback(setpoints)
    /\ pc[c] # "read" => current[c] = setpoints
    /\ pc[c] \in {"evaluate", "evaluateStamp"} => Agreed
    /\ pc[c] \in {"evaluateStamp", "evaluateDelta"} => Approvable(c)
    /\ pc[c] \in {"evaluateDelta", "delta"} => sentinel.at = now[c]
    /\ pc[c] \in {"read", "validate"} => Agreed \/ Rehearsed(c)
    /\ pc[c] \in {"stamp", "delta"} => Approved(c)
    /\ pc[c] = "write" => \/ proposed[c] = setpoints /\ Agreed
                          \/ Approved(c) /\ RemembersPending(c)

\* The history variables, and the instants.
HistoryType ==
    /\ lastMove \in Sentinels /\ lastMove.at <= clock
    /\ overlapped \subseteq Callers /\ reliable \in BOOLEAN
    /\ \A c \in Callers : now[c] <= clock

\* A call that overlapped no other so far is the only one under way.
LoneInv ==
    /\ TypeOK /\ HistoryType
    /\ \A c \in Busy \ overlapped : Busy = {c} /\ CallInv(c)
    /\ reliable => Busy \cap overlapped = {}
    /\ Busy = {} => Agreed

LEMMA InitLone == HistoryInit => LoneInv
  BY InitTypeOK, SentinelAssumption
     DEF HistoryInit, Init, LoneInv, HistoryType, Busy, Agreed, InitialSentinel, NoDelta,
         Sentinels, Deltas

LEMMA StepHistoryType ==
    ASSUME TypeOK, HistoryType, [HistoryNext]_historyVars
    PROVE  TypeOK' /\ HistoryType'
<1>1. [Next]_vars
  BY DEF HistoryNext, historyVars, Next
<1>2. TypeOK'
  BY <1>1, NextTypeOK
<1> USE DEF HistoryType, TypeOK
<1>3. CASE Tick /\ UNCHANGED <<lastMove, overlapped, reliable>>
  BY <1>2, <1>3 DEF Tick, Sentinels
<1>4. ASSUME NEW c \in Callers, Enter(c), Meet(c) PROVE HistoryType'
  BY <1>4
     DEF Enter, SetHvacTemperature, AdjustVentilation, AdjustLighting, ApplyPolicy, Propose,
         EvaluateComfort, Meet, Busy
<1>5. ASSUME NEW c \in Callers, Advance(c), UNCHANGED <<lastMove, overlapped, reliable>>
      PROVE  HistoryType'
  BY <1>5
     DEF Advance, ValidateFallback, ValidateProposal, Validate, RememberFallbackInstant,
         RememberChangeInstant, RememberInstant, RememberFallbackDelta, RememberChangeDelta,
         RememberDelta, ReadSetpoints
<1>6. ASSUME NEW c \in Callers, UpdateSetpoints(c), Observe(c) PROVE HistoryType'
  <2>1. Delta(setpoints, setpoints') \in Deltas /\ now[c] \in Nat \cup {Never}
    BY <1>2, DeltaType
  <2>2. lastMove' \in Sentinels /\ lastMove'.at <= clock
    BY <1>6, <2>1 DEF Observe, Sentinels
  <2> QED
    BY <1>6, <2>2 DEF UpdateSetpoints, Observe
<1>7. CASE UNCHANGED historyVars
  BY <1>7 DEF historyVars, vars
<1> QED
  BY <1>2, <1>3, <1>4, <1>5, <1>6, <1>7 DEF HistoryNext

\* A call that enters is alone when it finds no other under way.
LEMMA EnterLone ==
    ASSUME LoneInv, NEW c \in Callers, Enter(c), Meet(c), TypeOK', HistoryType'
    PROVE  LoneInv'
<1> USE DEF Busy, TypeOK
<1>1. /\ pc[c] = "idle" /\ UNCHANGED <<setpoints, sentinel, lastMove>>
      /\ \/ pc' = [pc EXCEPT ![c] = "read"] /\ emergency' = [emergency EXCEPT ![c] = FALSE]
         \/ /\ pc' = [pc EXCEPT ![c] = "evaluate"]
            /\ emergency' = [emergency EXCEPT ![c] = TRUE]
            /\ proposed' = [proposed EXCEPT ![c] = ComfortFallback(setpoints)]
            /\ current' = [current EXCEPT ![c] = setpoints]
  BY DEF Enter, SetHvacTemperature, AdjustVentilation, AdjustLighting, ApplyPolicy, Propose,
         EvaluateComfort, Meet, LoneInv
<1>2. Busy' = Busy \cup {c}
  BY <1>1 DEF LoneInv
<1>3. CASE Busy = {}
  <2>1. Busy' = {c} /\ c \notin overlapped' /\ reliable' = reliable
    BY <1>2, <1>3 DEF Meet, LoneInv, HistoryType
  <2>2. Agreed /\ Agreed'
    BY <1>1, <1>3, <2>1 DEF LoneInv, Agreed
  <2>3. CallInv(c)'
    BY <1>1, <2>2 DEF CallInv, LoneInv, ComfortFallback, Smaller, Larger
  <2> QED
    BY <2>1, <2>3 DEF LoneInv
<1>4. CASE Busy # {}
  <2>1. Busy' \subseteq overlapped' /\ ~reliable'
    BY <1>2, <1>4 DEF Meet
  <2>2. Busy' # {}
    BY <1>2
  <2> QED
    BY <2>1, <2>2 DEF LoneInv
<1> QED
  BY <1>3, <1>4

\* The validations: what an accepted proposal satisfies is what SafeActuation
\* asks of a move.
LEMMA ValidateLone ==
    ASSUME TypeOK, HistoryType, NEW c \in Callers, CallInv(c),
           ValidateFallback(c) \/ ValidateProposal(c),
           UNCHANGED <<lastMove, reliable>>
    PROVE  IF pc'[c] = "idle" THEN Agreed' ELSE CallInv(c)'
<1> USE DEF CallInv, TypeOK, HistoryType
<1>1. CASE ValidateFallback(c)
  <2>1. pc[c] = "evaluate" /\ pc' = [pc EXCEPT ![c] = pc'[c]] /\ now' = [now EXCEPT ![c] = clock]
    BY <1>1 DEF ValidateFallback, Validate
  <2>2. UNCHANGED <<setpoints, sentinel, clock, current, proposed, emergency, lastMove,
                   reliable>>
    BY <1>1 DEF ValidateFallback, Validate
  <2>3. CASE pc'[c] = "idle"
    BY <2>1, <2>2, <2>3 DEF Agreed
  <2>4. CASE pc'[c] = "evaluateStamp"
    <3>1. Accepts(sentinel, current[c], proposed[c], clock, emergency[c]) /\ proposed[c] # current[c]
      BY <1>1, <2>4 DEF ValidateFallback, Validate
    <3>2. Approvable(c)'
      BY <2>1, <2>2, <3>1 DEF Approvable, Accepts
    <3> QED
      BY <2>1, <2>2, <2>4, <3>2 DEF Agreed
  <2>5. CASE pc'[c] = "read"
    BY <2>1, <2>2, <2>5 DEF Agreed
  <2> QED
    BY <1>1, <2>2, <2>3, <2>4, <2>5 DEF ValidateFallback, Validate
<1>2. CASE ValidateProposal(c)
  <2>1. pc[c] = "validate" /\ pc' = [pc EXCEPT ![c] = pc'[c]] /\ now' = [now EXCEPT ![c] = clock]
    BY <1>2 DEF ValidateProposal, Validate
  <2>2. UNCHANGED <<setpoints, sentinel, clock, current, proposed, emergency, lastMove,
                   reliable>>
    BY <1>2 DEF ValidateProposal, Validate
  <2>3. ASSUME Rehearsed(c)
        PROVE  Accepts(sentinel, current[c], proposed[c], clock, emergency[c]) /\ proposed[c] # current[c]
    BY <2>1, <2>3 DEF Rehearsed, Approvable, Accepts, Oscillates
  <2>4. CASE pc'[c] = "idle"
    <3>1. ~Accepts(sentinel, current[c], proposed[c], clock, emergency[c])
      BY <1>2, <2>4 DEF ValidateProposal, Validate
    <3>2. Agreed
      BY <2>1, <2>3, <3>1
    <3> QED
      BY <2>1, <2>2, <2>4, <3>2 DEF Agreed
  <2>5. CASE pc'[c] = "stamp"
    <3>1. Accepts(sentinel, current[c], proposed[c], clock, emergency[c]) /\ proposed[c] # current[c]
      BY <1>2, <2>5 DEF ValidateProposal, Validate
    <3>2. Approvable(c)'
      BY <2>1, <2>2, <3>1 DEF Approvable, Accepts
    <3>3. Approved(c)'
      <4>1. CASE emergency[c]
        BY <2>1, <2>2, <3>2, <4>1 DEF Approved, Follows
      <4>2. CASE ~emergency[c]
        <5>1. Agreed
          BY <2>1, <4>2 DEF Rehearsed
        <5>2. reliable => \/ lastMove.at = Never
                          \/ ~(clock - lastMove.at < MinChangeInterval)
                          \/ ~Reverses(Delta(setpoints, proposed[c]), lastMove.delta)
          BY <2>1, <3>1, <4>2, <5>1 DEF Accepts, Oscillates, Agreed
        <5>3. ~(clock - lastMove.at < MinChangeInterval) => clock - lastMove.at >= MinChangeInterval
          BY SentinelAssumption DEF Sentinels
        <5> QED
          BY <2>1, <2>2, <3>2, <5>2, <5>3 DEF Approved, Follows, Follows
      <4> QED
        BY <4>1, <4>2
    <3> QED
      BY <2>1, <2>2, <2>5, <3>3
  <2>6. CASE pc'[c] = "write"
    <3>1. proposed[c] = current[c]
      BY <1>2, <2>6 DEF ValidateProposal, Validate
    <3>2. Agreed
      BY <2>1, <2>3, <3>1
    <3> QED
      BY <2>1, <2>2, <2>6, <3>1, <3>2 DEF Agreed
  <2> QED
    BY <1>2, <2>2, <2>4, <2>5, <2>6 DEF ValidateProposal, Validate
<1> QED
  BY <1>1, <1>2

\* The other steps of a call that overlaps no other.
LEMMA AdvanceLone ==
    ASSUME TypeOK, HistoryType, NEW c \in Callers, CallInv(c), Advance(c),
           UNCHANGED <<lastMove, reliable>>
    PROVE  IF pc'[c] = "idle" THEN Agreed' ELSE CallInv(c)'
<1> USE DEF CallInv, TypeOK, HistoryType, Agreed, Approvable, Approved, Follows,
            RemembersPending, Rehearsed
<1>1. CASE ValidateFallback(c) \/ ValidateProposal(c)
  BY <1>1, ValidateLone
<1>2. CASE RememberFallbackInstant(c)
  BY <1>2 DEF RememberFallbackInstant, RememberInstant, Sentinels
<1>3. CASE RememberFallbackDelta(c)
  <2>1. sentinel' = [at |-> now[c], delta |-> Delta(setpoints, proposed[c])]
    BY <1>3 DEF RememberFallbackDelta, RememberDelta, Sentinels
  <2> QED
    BY <1>3, <2>1 DEF RememberFallbackDelta, RememberDelta
<1>4. CASE ReadSetpoints(c)
  BY <1>4 DEF ReadSetpoints
<1>5. CASE RememberChangeInstant(c)
  BY <1>5 DEF RememberChangeInstant, RememberInstant, Sentinels
<1>6. CASE RememberChangeDelta(c)
  <2>1. sentinel' = [at |-> now[c], delta |-> Delta(setpoints, proposed[c])]
    BY <1>6 DEF RememberChangeDelta, RememberDelta, Sentinels
  <2> QED
    BY <1>6, <2>1 DEF RememberChangeDelta, RememberDelta
<1> QED
  BY <1>1, <1>2, <1>3, <1>4, <1>5, <1>6 DEF Advance

\* After the write of such a call the sentinel agrees with the store.
LEMMA UpdateLone ==
    ASSUME TypeOK, HistoryType, NEW c \in Callers, CallInv(c), UpdateSetpoints(c), Observe(c)
    PROVE  Agreed'
<1>1. setpoints' = proposed[c] /\ sentinel' = sentinel /\ pc[c] = "write"
  BY DEF UpdateSetpoints
<1>2. CASE proposed[c] = setpoints
  <2>1. Agreed
    BY <1>1, <1>2 DEF CallInv, Approved, Approvable
  <2> QED
    BY <1>1, <1>2, <2>1 DEF Observe, Agreed
<1>3. CASE proposed[c] # setpoints
  <2>1. RemembersPending(c)
    BY <1>1, <1>3 DEF CallInv
  <2> QED
    BY <1>1, <1>3, <2>1 DEF Observe, RemembersPending, Agreed
<1> QED
  BY <1>2, <1>3

\* A step of a call under way: of one that overlapped another nothing is known, and
\* the sentinel cannot be relied on; any other one is alone.
LEMMA CallLone ==
    ASSUME LoneInv, NEW c \in Callers, TypeOK', HistoryType',
           \/ Advance(c) /\ UNCHANGED <<lastMove, overlapped, reliable>>
           \/ UpdateSetpoints(c) /\ Observe(c)
    PROVE  LoneInv'
<1>1. /\ pc[c] # "idle" /\ overlapped' = overlapped
      /\ \A d \in Callers \ {c} : pc'[d] = pc[d]
  BY DEF LoneInv, TypeOK, Advance, ValidateFallback, ValidateProposal, Validate,
         RememberFallbackInstant, RememberChangeInstant, RememberInstant, RememberFallbackDelta,
         RememberChangeDelta, RememberDelta, ReadSetpoints, UpdateSetpoints, Observe
<1>2. c \in Busy /\ Busy' \subseteq Busy
  BY <1>1 DEF Busy
<1>3. CASE c \in overlapped
  <2>1. ~reliable /\ Busy \subseteq overlapped
    BY <1>2, <1>3 DEF LoneInv
  <2>2. ~reliable'
    BY <1>3, <2>1 DEF Observe
  <2> QED
    BY <1>1, <1>2, <2>1, <2>2 DEF LoneInv, Agreed
<1>4. CASE c \notin overlapped
  <2>1. Busy = {c} /\ CallInv(c)
    BY <1>2, <1>4 DEF LoneInv
  <2>2. CASE Advance(c) /\ UNCHANGED <<lastMove, overlapped, reliable>>
    <3>1. IF pc'[c] = "idle" THEN Agreed' ELSE CallInv(c)'
      BY <2>1, <2>2, AdvanceLone DEF LoneInv
    <3>2. Busy' = IF pc'[c] = "idle" THEN {} ELSE {c}
      BY <1>2, <2>1 DEF Busy
    <3> QED
      BY <1>1, <1>4, <3>1, <3>2 DEF LoneInv
  <2>3. CASE UpdateSetpoints(c) /\ Observe(c)
    <3>1. Agreed'
      BY <2>1, <2>3, UpdateLone DEF LoneInv
    <3>2. pc'[c] = "idle"
      BY <2>3 DEF UpdateSetpoints, LoneInv, TypeOK
    <3>3. Busy' = {}
      BY <1>2, <2>1, <3>2 DEF Busy
    <3> QED
      BY <3>1, <3>3 DEF LoneInv
  <2> QED
    BY <2>2, <2>3
<1> QED
  BY <1>3, <1>4

LEMMA NextLone == LoneInv /\ [HistoryNext]_historyVars => LoneInv'
<1> SUFFICES ASSUME LoneInv, [HistoryNext]_historyVars PROVE LoneInv'
  OBVIOUS
<1>1. TypeOK' /\ HistoryType'
  BY StepHistoryType DEF LoneInv
<1>2. CASE \/ Tick /\ UNCHANGED <<lastMove, overlapped, reliable>>
           \/ UNCHANGED historyVars
  <2>1. UNCHANGED <<setpoints, sentinel, pc, current, proposed, now, emergency, lastMove,
                    overlapped, reliable>>
    BY <1>2 DEF Tick, historyVars, vars
  <2> QED
    BY <1>1, <2>1
       DEF LoneInv, Busy, CallInv, Agreed, Approvable, Approved, Follows, RemembersPending,
           Rehearsed
<1>3. ASSUME NEW c \in Callers, Enter(c), Meet(c) PROVE LoneInv'
  BY <1>1, <1>3, EnterLone
<1>4. ASSUME NEW c \in Callers,
             \/ Advance(c) /\ UNCHANGED <<lastMove, overlapped, reliable>>
             \/ UpdateSetpoints(c) /\ Observe(c)
      PROVE  LoneInv'
  BY <1>1, <1>4, CallLone
<1> QED
  BY <1>2, <1>3, <1>4 DEF HistoryNext

\* A change such a call makes is a move within the limits, and one SafeActuation allows
\* when the sentinel can be relied on.
LEMMA LoneMove ==
    ASSUME LoneInv, NEW c \in Callers \ overlapped, UpdateSetpoints(c), Observe(c),
           setpoints' # setpoints, TypeOK'
    PROVE  /\ WithinStepLimits(Delta(setpoints, setpoints'))
           /\ reliable => Actuation!Move
<1>1. setpoints' = proposed[c] /\ pc[c] = "write" /\ c \in Busy
  BY DEF UpdateSetpoints, Busy
<1>2. Approved(c)
  BY <1>1 DEF LoneInv, CallInv
<1>3. lastMove' = [at |-> now[c], delta |-> Delta(setpoints, setpoints')]
  BY DEF Observe
<1>4. lastMove'.at = now[c] /\ lastMove'.delta = Delta(setpoints, setpoints')
  BY <1>3
<1>5. WithinStepLimits(Delta(setpoints, setpoints')) /\ lastMove.at <= lastMove'.at
  BY <1>1, <1>2, <1>4 DEF Approved, Approvable
<1>6. ASSUME reliable PROVE Actuation!Move
  <2>1. lastMove' \in Sentinels /\ setpoints' \in Setpoints
    BY <1>3, DeltaType DEF LoneInv, TypeOK, Sentinels
  <2>2. Actuation!MayFollow(lastMove', lastMove)
    BY <1>1, <1>2, <1>4, <1>6
       DEF Approved, Follows, Actuation!MayFollow, Reverses, OppositeSigns, Actuation!Reverses,
           Actuation!OppositeSigns, ComfortFallback, Actuation!ComfortFallback, Smaller,
           Larger, Actuation!Smaller, Actuation!Larger
  <2>3. Actuation!WithinStepLimits(lastMove'.delta)
    BY <1>4, <1>5 DEF WithinStepLimits, AtMost, Actuation!WithinStepLimits, Actuation!AtMost
  <2>4. lastMove' \in Actuation!Sentinels /\ setpoints' \in Actuation!Setpoints
    BY <2>1
       DEF Sentinels, Deltas, Actuation!Sentinels, Actuation!Deltas, Setpoints,
           Actuation!Setpoints
  <2>5. lastMove'.delta = Actuation!Delta(setpoints, setpoints')
    BY <1>4 DEF Delta, Actuation!Delta
  <2> QED
    BY <1>5, <2>2, <2>3, <2>4, <2>5 DEF Actuation!Move
<1> QED
  BY <1>5, <1>6

\* Only a write changes the store.
LEMMA OnlyWrites ==
    ASSUME [HistoryNext]_historyVars, setpoints' # setpoints
    PROVE  \E c \in Callers : UpdateSetpoints(c) /\ Observe(c)
<1>1. ASSUME NEW c \in Callers, Enter(c) PROVE UNCHANGED setpoints
  BY <1>1
     DEF Enter, SetHvacTemperature, AdjustVentilation, AdjustLighting, ApplyPolicy,
         Propose, EvaluateComfort
<1>2. ASSUME NEW c \in Callers, Advance(c) PROVE UNCHANGED setpoints
  BY <1>2
     DEF Advance, ValidateFallback, ValidateProposal, Validate, ReadSetpoints,
         RememberFallbackInstant, RememberFallbackDelta, RememberInstant,
         RememberChangeInstant, RememberChangeDelta, RememberDelta
<1> QED
  BY <1>1, <1>2 DEF HistoryNext, Tick, historyVars, vars

\* However many callers there are, a call that overlaps no other moves the store within
\* the limits, and the first such change makes the reversal guard reliable again.
THEOREM LoneCallsAreSafe == HistorySpec => LoneMovesAreSafe
<1> DEFINE SafeStep ==
        \A c \in Callers \ overlapped :
            UpdateSetpoints(c) /\ setpoints' # setpoints =>
                /\ WithinStepLimits(Delta(setpoints, setpoints'))
                /\ reliable => Actuation!Move
<1>1. LoneInv /\ [HistoryNext]_historyVars => LoneInv'
  BY NextLone
<1>2. LoneInv /\ LoneInv' /\ [HistoryNext]_historyVars => SafeStep
  <2> SUFFICES ASSUME LoneInv, LoneInv', [HistoryNext]_historyVars,
                      NEW c \in Callers \ overlapped, UpdateSetpoints(c), setpoints' # setpoints
               PROVE  /\ WithinStepLimits(Delta(setpoints, setpoints'))
                      /\ reliable => Actuation!Move
    OBVIOUS
  <2>1. PICK d \in Callers : UpdateSetpoints(d) /\ Observe(d)
    BY OnlyWrites
  <2>2. d = c
    BY <2>1 DEF UpdateSetpoints, LoneInv, TypeOK
  <2> QED
    BY <2>1, <2>2, LoneMove DEF LoneInv
<1>3. HistorySpec => [][SafeStep]_historyVars
  BY <1>1, <1>2, InitLone, PTL DEF HistorySpec
<1> QED
  BY <1>3 DEF LoneMovesAreSafe

\* However many callers there are, the sentinel and the store agree between calls when
\* the last change was made by a call that overlapped no other.
THEOREM SentinelMatches == HistorySpec => []SentinelMatchesStore
<1>1. LoneInv => SentinelMatchesStore
  BY DEF LoneInv, Agreed, SentinelMatchesStore
<1> QED
  BY <1>1, InitLone, NextLone, PTL DEF HistorySpec
-----------------------------------------------------------------------------
(* One caller at a time: the control gateway implements SafeActuation, for    *)
(* every value of the limits, the policies, the requests and the clock. With  *)
(* two callers the run gateway_race refutes it.                               *)

\* There is only one caller.
Serial == \E c \in Callers : Callers = {c}

SerialInv == LoneInv /\ reliable /\ overlapped = {}

LEMMA NextSerial == Serial /\ SerialInv /\ [HistoryNext]_historyVars => SerialInv'
<1> SUFFICES ASSUME Serial, SerialInv, [HistoryNext]_historyVars PROVE SerialInv'
  OBVIOUS
<1>1. LoneInv'
  BY NextLone DEF SerialInv
<1>2. ASSUME NEW c \in Callers, Enter(c), Meet(c) PROVE reliable' /\ overlapped' = {}
  <2>1. pc[c] = "idle" /\ Callers = {c}
    BY <1>2
       DEF Serial, Enter, SetHvacTemperature, AdjustVentilation, AdjustLighting, ApplyPolicy,
           Propose, EvaluateComfort
  <2>2. Busy = {}
    BY <2>1 DEF Busy
  <2> QED
    BY <1>2, <2>2 DEF Meet, SerialInv
<1>3. ASSUME NEW c \in Callers, UpdateSetpoints(c), Observe(c)
      PROVE  reliable' /\ overlapped' = {}
  BY <1>3 DEF Observe, SerialInv
<1>4. CASE UNCHANGED <<lastMove, overlapped, reliable>>
  BY <1>1, <1>4 DEF SerialInv
<1> QED
  BY <1>1, <1>2, <1>3, <1>4 DEF HistoryNext, historyVars, SerialInv

LEMMA StepIsMove ==
    SerialInv /\ [HistoryNext]_historyVars => [Actuation!Move]_<<setpoints, lastMove>>
<1> SUFFICES ASSUME SerialInv, [HistoryNext]_historyVars
             PROVE  [Actuation!Move]_<<setpoints, lastMove>>
  OBVIOUS
<1>1. CASE setpoints' = setpoints
  BY <1>1 DEF HistoryNext, historyVars, Meet, Observe
<1>2. CASE setpoints' # setpoints
  <2>1. PICK c \in Callers : UpdateSetpoints(c) /\ Observe(c)
    BY <1>2, OnlyWrites
  <2>2. TypeOK'
    BY NextLone DEF SerialInv, LoneInv
  <2> QED
    BY <1>2, <2>1, <2>2, LoneMove DEF SerialInv
<1> QED
  BY <1>1, <1>2

LEMMA InitIsSafe == HistoryInit => Actuation!SafeInit
  BY DEF HistoryInit, Init, Actuation!SafeInit, InitialSentinel, Actuation!InitialSentinel,
         NoDelta, Actuation!NoDelta

\* As long as calls do not overlap, the gateway is the abstract actuator: every
\* change of the store is one approved move.
THEOREM SerialGatewayIsSafe == Serial => (HistorySpec => ImplementsSafeActuation)
<1> SUFFICES ASSUME Serial PROVE HistorySpec => ImplementsSafeActuation
  OBVIOUS
<1>1. HistoryInit => SerialInv
  BY InitLone DEF HistoryInit, SerialInv
<1>2. SerialInv /\ [HistoryNext]_historyVars => SerialInv'
  BY NextSerial
<1>3. SerialInv /\ [HistoryNext]_historyVars => [Actuation!Move]_<<setpoints, lastMove>>
  BY StepIsMove
<1>4. HistorySpec => Actuation!SafeInit /\ [][Actuation!Move]_<<setpoints, lastMove>>
  BY <1>1, <1>2, <1>3, InitIsSafe, PTL DEF HistorySpec
<1> QED
  BY <1>4 DEF ImplementsSafeActuation, Actuation!SafeSpec, Actuation!safeVars
=============================================================================
