----------------------- MODULE AutonomousControlProofs -----------------------
(* What holds of the control loop for any policy table, limits, readings and  *)
(* requests. The first theorems allow every request; the others are about the *)
(* loop left alone with the strategic worker, as the unattended runs are.     *)
EXTENDS ControlHistory, TLAPS

\* The remembered deltas are integers whatever two records they come from.
LEMMA DeltaType ==
    ASSUME NEW from \in Setpoints, NEW to \in Setpoints
    PROVE  Delta(from, to) \in Deltas
  BY SentinelAssumption DEF Delta, Deltas, Setpoints

\* The recovery move stays within the ranges of the Setpoints schema.
LEMMA FallbackType ==
    ASSUME NEW from \in Setpoints
    PROVE  ComfortFallback(from) \in Setpoints
  BY SentinelAssumption, PolicyAssumption
     DEF ComfortFallback, Setpoints, Smaller, Larger

LEMMA InitTypeOK == Init => TypeOK
<1> SUFFICES ASSUME Init PROVE TypeOK
  OBVIOUS
<1>1. /\ setpoints \in Setpoints /\ base \in Setpoints
      /\ healerPrevious \in Setpoints /\ requestBase \in Setpoints
      /\ requestProposal \in Setpoints
  BY SentinelAssumption DEF Init
<1>2. age \in 0..MinChangeInterval /\ remembered \in Deltas /\ comfort \in Int
  BY SentinelAssumption DEF Init, NoDelta, Deltas
<1>3. advised \in BOOLEAN /\ fallbackActivated \in BOOLEAN /\ settled \in BOOLEAN
  BY DEF Init
<1>4. /\ chosen \in Policies /\ activePolicy \in Policies
      /\ healerPolicy \in Policies /\ requestPolicy \in Policies
      /\ handoff \in Policies \cup {NoPolicy}
  BY ControlAssumption DEF Init
<1>5. episode \in Episodes
  BY ControlAssumption DEF Init, Episodes
<1>6. jobs \in 0..MaxJobs
  BY ControlAssumption DEF Init
<1> QED
  BY <1>1, <1>2, <1>3, <1>4, <1>5, <1>6 DEF Init, TypeOK

\* Whoever calls it, the gateway leaves the sentinel well typed.
LEMMA ApproveType ==
    ASSUME TypeOK, NEW to \in Setpoints, NEW emergency,
           Approve(to, emergency) \/ Reject(to, emergency)
    PROVE  age' \in 0..MinChangeInterval /\ remembered' \in Deltas
  BY SentinelAssumption, DeltaType DEF TypeOK, Approve, Reject, Remember, sentinelVars

\* So does the validation inside the self-healing loop.
LEMMA FallbackAcceptedType ==
    ASSUME TypeOK, NEW from \in Setpoints, AcceptFallback(from) \/ BlockFallback(from)
    PROVE  /\ age' \in 0..MinChangeInterval /\ remembered' \in Deltas
           /\ healerPolicy' \in Policies /\ healerPrevious' \in Setpoints
<1>1. CASE AcceptFallback(from)
  <2>1. Delta(from, ComfortFallback(from)) \in Deltas
    BY DeltaType, FallbackType
  <2>2. age' \in 0..MinChangeInterval /\ remembered' \in Deltas
    BY <1>1, <2>1, SentinelAssumption DEF TypeOK, AcceptFallback, Remember, sentinelVars
  <2> QED
    BY <1>1, <2>2, ControlAssumption DEF AcceptFallback
<1>2. CASE BlockFallback(from)
  BY <1>2 DEF TypeOK, BlockFallback, sentinelVars, healerVars
<1> QED
  BY <1>1, <1>2

LEMMA CycleTypeOK == TypeOK /\ Cycle => TypeOK'
<1> SUFFICES ASSUME TypeOK, Cycle PROVE TypeOK'
  OBVIOUS
<1> USE DEF TypeOK, sentinelVars, cycleVars, statusVars, healerVars, requestVars
<1>1. ASSUME NEW score \in ComfortReadings, BeginCycle(score) PROVE TypeOK'
  BY <1>1, ControlAssumption DEF BeginCycle, Episodes
<1>2. CASE EvaluateComfort
  <2>1. episode' \in Episodes
    <3>1. CASE RecordFailure
      BY <3>1 DEF RecordFailure, Episodes
    <3>2. CASE UNCHANGED episode
      BY <3>2
    <3> QED
      BY <1>2, <3>1, <3>2 DEF EvaluateComfort
  <2>2. /\ age' \in 0..MinChangeInterval /\ remembered' \in Deltas
        /\ healerPolicy' \in Policies /\ healerPrevious' \in Setpoints
    BY <1>2, FallbackAcceptedType DEF EvaluateComfort
  <2> QED
    BY <1>2, <2>1, <2>2 DEF EvaluateComfort
<1>3. CASE CorrectComfort
  BY <1>3, FallbackType, ApproveType DEF CorrectComfort
<1>4. CASE StoreCorrection
  BY <1>4, FallbackType, ControlAssumption DEF StoreCorrection, Store
<1>5. CASE Decide
  BY <1>5 DEF Decide
<1>6. CASE ApplyChosen
  BY <1>6, PolicyAssumption, ApproveType DEF ApplyChosen
<1>7. CASE StoreChosen
  BY <1>7, PolicyAssumption DEF StoreChosen, Store, Settle
<1>8. CASE RegisterChosen
  BY <1>8 DEF RegisterChosen
<1>9. CASE ApplyBalanced
  BY <1>9, PolicyAssumption, ControlAssumption, ApproveType DEF ApplyBalanced
<1>10. CASE StoreBalanced
  BY <1>10, PolicyAssumption, ControlAssumption DEF StoreBalanced, Store, Settle
<1> QED
  BY <1>1, <1>2, <1>3, <1>4, <1>5, <1>6, <1>7, <1>8, <1>9, <1>10 DEF Cycle

LEMMA RequestTypeOK == TypeOK /\ Request => TypeOK'
<1> SUFFICES ASSUME TypeOK, Request PROVE TypeOK'
  OBVIOUS
<1> USE DEF TypeOK, sentinelVars, cycleVars, statusVars, healerVars, requestVars
<1>1. ASSUME NEW put, PutSetpoints(put) PROVE TypeOK'
  BY <1>1, ApproveType DEF PutSetpoints, RequestStep
<1>2. ASSUME NEW policy \in RequestedPolicies, RequestPolicy(policy) PROVE TypeOK'
  <2>1. policy \in Policies /\ PolicySetpoints[policy] \in Setpoints
    BY PolicyAssumption, ControlAssumption
  <2> QED
    BY <1>2, <2>1, ApproveType DEF RequestPolicy, RequestStep
<1>3. CASE StoreRequested
  BY <1>3 DEF StoreRequested, RequestStep, Store
<1>4. CASE RegisterRequested
  BY <1>4 DEF RegisterRequested, RequestStep
<1>5. ASSUME NEW error \in FeedbackErrors, RequestHealing(error) PROVE TypeOK'
  BY <1>5, FallbackAcceptedType DEF RequestHealing, RecordFailure, Episodes, RequestStep
<1>6. CASE CorrectRequested
  BY <1>6, FallbackType, ApproveType DEF CorrectRequested, RequestStep
<1> QED
  BY <1>1, <1>2, <1>3, <1>4, <1>5, <1>6 DEF Request

LEMMA NextTypeOK == TypeOK /\ [Next]_vars => TypeOK'
<1> SUFFICES ASSUME TypeOK, [Next]_vars PROVE TypeOK'
  OBVIOUS
<1> USE DEF TypeOK, sentinelVars, cycleVars, statusVars, healerVars, requestVars
<1>1. CASE Tick
  BY <1>1, SentinelAssumption DEF Tick
<1>2. CASE Worker
  BY <1>2, ControlAssumption DEF Worker, SubmitJob, Advise, EndWithoutAdvice
<1>3. CASE UNCHANGED vars
  BY <1>3 DEF vars
<1> QED
  BY <1>1, <1>2, <1>3, CycleTypeOK, RequestTypeOK DEF Next

\* Type correctness under every request: the setpoints in force stay in range.
THEOREM TypeCorrect == Spec => []TypeOK
  BY InitTypeOK, NextTypeOK, PTL DEF Spec
-----------------------------------------------------------------------------
(* Under every request.                                                       *)

LEMMA NextNamesPolicy ==
    FallbackNamesItsPolicy /\ [Next]_vars => FallbackNamesItsPolicy'
<1> SUFFICES ASSUME FallbackNamesItsPolicy, [Next]_vars PROVE FallbackNamesItsPolicy'
  OBVIOUS
<1>1. UNCHANGED statusVars => FallbackNamesItsPolicy'
  BY DEF FallbackNamesItsPolicy, statusVars
<1>2. activePolicy' \in {Balanced, ComfortFirst} => FallbackNamesItsPolicy'
  BY DEF FallbackNamesItsPolicy
<1>3. fallbackActivated' = FALSE => FallbackNamesItsPolicy'
  BY DEF FallbackNamesItsPolicy
<1>4. CASE Cycle
  BY <1>1, <1>2, <1>3, <1>4
     DEF Cycle, BeginCycle, EvaluateComfort, CorrectComfort, StoreCorrection, Decide,
         ApplyChosen, StoreChosen, RegisterChosen, ApplyBalanced, StoreBalanced
<1>5. CASE Request
  BY <1>1, <1>5
     DEF Request, PutSetpoints, RequestPolicy, StoreRequested, RegisterRequested,
         RequestHealing, CorrectRequested
<1> QED
  BY <1>1, <1>4, <1>5 DEF Next, Tick, Worker, SubmitJob, Advise, EndWithoutAdvice, vars

\* A fallback the status reports is a balanced or a comfort-first one.
THEOREM FallbackIsNamed == Spec => []FallbackNamesItsPolicy
<1>1. Init => FallbackNamesItsPolicy
  BY DEF Init, FallbackNamesItsPolicy
<1> QED
  BY <1>1, NextNamesPolicy, PTL DEF Spec
-----------------------------------------------------------------------------
(* Between requests. From the moment the loop stores a policy with no request *)
(* under way, nobody else moves the setpoints until the next request: what    *)
(* the cycle reads is still in force when it uses it, and a correction that   *)
(* was validated once is accepted again.                                      *)

BaseInForce ==
    pc \in {"heal", "correct", "storeCorrection", "decide", "apply", "balance"} =>
        base = setpoints

ChosenInForce == pc = "register" => setpoints = PolicySetpoints[chosen]

CorrectionAccepted ==
    /\ pc = "correct" => WithinStepLimits(Delta(base, ComfortFallback(base)))
    /\ pc \in {"correct", "storeCorrection"} => healerPolicy = ComfortFirst

HealerKnowsPolicy ==
    pc \notin {"register", "correct", "storeCorrection"} /\ activePolicy # Balanced =>
        healerPolicy = activePolicy

HealOnlyUnderPolicy == pc = "heal" => activePolicy # Balanced

Agreement ==
    /\ request = "none"
    /\ BaseInForce
    /\ ChosenInForce
    /\ CorrectionAccepted
    /\ HealerKnowsPolicy
    /\ HealOnlyUnderPolicy
    /\ PolicyInForce
    /\ OnRecoverySide

SettledInv == TypeOK /\ (settled => Agreement)

\* A policy is on its own recovery side.
LEMMA PolicySide ==
    ASSUME NEW policy \in Policies, setpoints' = PolicySetpoints[policy]
    PROVE  OnRecoverySide'
<1>1. PolicySetpoints[policy] \in Setpoints
  BY PolicyAssumption
<1> QED
  BY <1>1, SentinelAssumption DEF OnRecoverySide, Setpoints

\* A recovery never heats, never reduces ventilation and keeps the lights, so it
\* stays on the recovery side of the policy it started from.
LEMMA FallbackSide ==
    ASSUME setpoints \in Setpoints, OnRecoverySide, setpoints' = ComfortFallback(setpoints)
    PROVE  OnRecoverySide'
<1>1. PICK policy \in Policies :
        /\ setpoints.hvac <= PolicySetpoints[policy].hvac
        /\ setpoints.vent >= PolicySetpoints[policy].vent
        /\ setpoints.light = PolicySetpoints[policy].light
  BY DEF OnRecoverySide
<1>2. PolicySetpoints[policy] \in Setpoints
  BY PolicyAssumption
<1>3. /\ setpoints'.hvac <= setpoints.hvac
      /\ setpoints'.vent >= setpoints.vent
      /\ setpoints'.light = setpoints.light
      /\ setpoints' \in Setpoints
  BY SentinelAssumption, PolicyAssumption, FallbackType
     DEF ComfortFallback, Smaller, Larger, Setpoints
<1> QED
  BY <1>1, <1>2, <1>3, SentinelAssumption DEF OnRecoverySide, Setpoints

LEMMA InitSettled == Init => SettledInv /\ settled
<1> SUFFICES ASSUME Init PROVE SettledInv /\ settled
  OBVIOUS
<1>1. setpoints = PolicySetpoints[Balanced] /\ Balanced \in Policies
  BY ControlAssumption DEF Init
<1>2. setpoints \in Setpoints
  BY SentinelAssumption DEF Init
<1>3. OnRecoverySide
  BY <1>1, <1>2, SentinelAssumption DEF OnRecoverySide, Setpoints
<1> QED
  BY <1>1, <1>3, InitTypeOK
     DEF Init, SettledInv, Agreement, BaseInForce, ChosenInForce, CorrectionAccepted,
         HealerKnowsPolicy, HealOnlyUnderPolicy, PolicyInForce

\* The loop never gives up an agreement, and storing a policy brings it about.
LEMMA CycleSettled == SettledInv /\ Cycle => SettledInv' /\ (settled => settled')
<1> SUFFICES ASSUME SettledInv, Cycle PROVE SettledInv' /\ (settled => settled')
  OBVIOUS
<1>0. TypeOK' /\ TypeOK /\ (settled => Agreement)
  BY CycleTypeOK DEF SettledInv
<1> DEFINE Goal == (settled' => Agreement') /\ (settled => settled')
<1> SUFFICES Goal
  BY <1>0 DEF SettledInv
<1> USE DEF Agreement, BaseInForce, ChosenInForce, CorrectionAccepted,
            HealerKnowsPolicy, HealOnlyUnderPolicy, PolicyInForce, sentinelVars,
            statusVars, healerVars, requestVars
<1>1. ASSUME NEW score \in ComfortReadings, BeginCycle(score) PROVE Goal
  BY <1>0, <1>1 DEF BeginCycle, OnRecoverySide
<1>2. CASE EvaluateComfort
  BY <1>0, <1>2 DEF EvaluateComfort, OnRecoverySide, AcceptFallback, BlockFallback,
                    Accepted, Accepts
<1>3. CASE CorrectComfort
  <2>1. settled' = settled /\ pc = "correct"
    BY <1>3 DEF CorrectComfort
  <2>2. ASSUME settled PROVE pc' = "storeCorrection"
    <3>1. Accepted(setpoints, ComfortFallback(base), TRUE)
      BY <1>0, <2>1, <2>2 DEF Accepted, Accepts, Oscillates
    <3> QED
      BY <1>3, <3>1 DEF CorrectComfort, Reject
  <2> QED
    BY <1>0, <1>3, <2>1, <2>2 DEF CorrectComfort, OnRecoverySide
<1>4. CASE StoreCorrection
  <2>1. settled' = settled /\ pc = "storeCorrection" /\ pc' = "sleep"
    BY <1>4 DEF StoreCorrection
  <2>2. ASSUME settled PROVE OnRecoverySide'
    BY <1>0, <1>4, <2>1, <2>2, FallbackSide DEF StoreCorrection, Store, TypeOK
  <2> QED
    BY <1>0, <1>4, <2>1, <2>2 DEF StoreCorrection
<1>5. CASE Decide
  BY <1>0, <1>5 DEF Decide, OnRecoverySide
<1>6. CASE ApplyChosen
  BY <1>0, <1>6 DEF ApplyChosen, OnRecoverySide
<1>7. CASE StoreChosen
  <2>1. setpoints' = PolicySetpoints[chosen] /\ chosen \in Policies
    BY <1>0, <1>7 DEF StoreChosen, Store, TypeOK
  <2>2. OnRecoverySide'
    BY <2>1, PolicySide
  <2> QED
    BY <1>0, <1>7, <2>1, <2>2 DEF StoreChosen, Settle
<1>8. CASE RegisterChosen
  BY <1>0, <1>8 DEF RegisterChosen, OnRecoverySide
<1>9. CASE ApplyBalanced
  BY <1>0, <1>9 DEF ApplyBalanced, OnRecoverySide
<1>10. CASE StoreBalanced
  <2>1. setpoints' = PolicySetpoints[Balanced] /\ Balanced \in Policies
    BY <1>10, ControlAssumption DEF StoreBalanced, Store
  <2>2. OnRecoverySide'
    BY <2>1, PolicySide
  <2> QED
    BY <1>0, <1>10, <2>1, <2>2 DEF StoreBalanced, Settle
<1> QED
  BY <1>1, <1>2, <1>3, <1>4, <1>5, <1>6, <1>7, <1>8, <1>9, <1>10 DEF Cycle

LEMMA QuietSettled ==
    SettledInv /\ (Tick \/ Worker \/ UNCHANGED vars) =>
        SettledInv' /\ (settled => settled')
<1> SUFFICES ASSUME SettledInv, Tick \/ Worker \/ UNCHANGED vars
             PROVE  SettledInv' /\ (settled => settled')
  OBVIOUS
<1>0. TypeOK' /\ (settled => Agreement)
  BY NextTypeOK DEF SettledInv, Next
<1>1. UNCHANGED <<setpoints, pc, base, chosen, activePolicy, fallbackActivated, healerPolicy,
                  request, settled>>
  BY DEF Tick, Worker, SubmitJob, Advise, EndWithoutAdvice, vars, cycleVars, statusVars,
         healerVars, requestVars
<1>2. Agreement => Agreement'
  BY <1>1 DEF Agreement, BaseInForce, ChosenInForce, CorrectionAccepted, HealerKnowsPolicy,
              HealOnlyUnderPolicy, PolicyInForce, OnRecoverySide
<1> QED
  BY <1>0, <1>1, <1>2 DEF SettledInv

LEMMA NextSettled == SettledInv /\ [Next]_vars => SettledInv'
<1> SUFFICES ASSUME SettledInv, [Next]_vars PROVE SettledInv'
  OBVIOUS
<1>1. CASE Request
  <2>1. TypeOK'
    BY NextTypeOK DEF SettledInv
  <2>2. settled' = FALSE
    BY <1>1 DEF Request, PutSetpoints, RequestPolicy, StoreRequested, RegisterRequested,
                RequestHealing, CorrectRequested, RequestStep
  <2> QED
    BY <2>1, <2>2 DEF SettledInv
<1> QED
  BY <1>1, CycleSettled, QuietSettled DEF Next

LEMMA SettledInvariant == Spec => []SettledInv
<1>1. Init => SettledInv
  BY InitSettled
<1> QED
  BY <1>1, NextSettled, PTL DEF Spec

LEMMA AgreementBlamesStatus == Agreement => BlameMatchesStatus
  BY DEF Agreement, HealerKnowsPolicy, HealOnlyUnderPolicy, BlameMatchesStatus

\* Whatever the requests, the next policy the loop stores between two of them makes the
\* status, the self-healing loop and the setpoints agree until the next one.
THEOREM LoopIsInControlAgain == Spec => []LoopRegainsControl
<1>1. SettledInv => LoopRegainsControl
  BY AgreementBlamesStatus DEF SettledInv, Agreement, LoopRegainsControl
<1> QED
  BY <1>1, SettledInvariant, PTL
-----------------------------------------------------------------------------
(* The loop left alone is never out of control.                               *)

UnattendedInv == SettledInv /\ settled

LEMMA NextUnattended == Unattended /\ UnattendedInv /\ [Next]_vars => UnattendedInv'
<1> SUFFICES ASSUME Unattended, UnattendedInv, [Next]_vars PROVE UnattendedInv'
  OBVIOUS
<1>1. request = "none"
  BY DEF UnattendedInv, SettledInv, Agreement
<1>2. ~Request
  BY <1>1 DEF Unattended, Request, StoreRequested, RegisterRequested, CorrectRequested
<1> QED
  BY <1>2, CycleSettled, QuietSettled DEF Next, UnattendedInv

LEMMA UnattendedInvariant == Unattended => (Spec => []UnattendedInv)
<1> SUFFICES ASSUME Unattended PROVE Spec => []UnattendedInv
  OBVIOUS
<1>1. UnattendedInv /\ [Next]_vars => UnattendedInv'
  BY NextUnattended
<1>2. Init => UnattendedInv
  BY InitSettled DEF UnattendedInv
<1> QED
  BY <1>1, <1>2, PTL DEF Spec

\* Left alone, the loop never reports a policy other than the one in force.
THEOREM StatusIsTruthful == Unattended => (Spec => []PolicyInForce)
<1>1. UnattendedInv => PolicyInForce
  BY DEF UnattendedInv, SettledInv, Agreement
<1> QED
  BY <1>1, UnattendedInvariant, PTL

\* Left alone, the loop blames the policy it reports for a comfort failure.
THEOREM BlameIsRight == Unattended => (Spec => []BlameMatchesStatus)
<1>1. UnattendedInv => BlameMatchesStatus
  BY AgreementBlamesStatus DEF UnattendedInv, SettledInv
<1> QED
  BY <1>1, UnattendedInvariant, PTL

\* Left alone, the loop never leaves the recovery side of the policy table.
THEOREM StaysOnRecoverySide == Unattended => (Spec => []OnRecoverySide)
<1>1. UnattendedInv => OnRecoverySide
  BY DEF UnattendedInv, SettledInv, Agreement
<1> QED
  BY <1>1, UnattendedInvariant, PTL
-----------------------------------------------------------------------------
(* Left alone, the loop moves the actuators as SafeActuation allows. What the *)
(* sentinel remembers runs ahead of the store from a validation to the write, *)
(* and there nothing but the move that was approved is made.                  *)

USE DEF Never, Actuation!Never

MoveRemembered ==
    lastMove.at # Never => remembered = lastMove.delta /\ age <= clock - lastMove.at

\* The loop is about to store a record.
Storing(to) ==
    \/ pc = "storeCorrection" /\ to = ComfortFallback(base)
    \/ pc = "store" /\ to = PolicySetpoints[chosen]
    \/ pc = "storeBalanced" /\ to = PolicySetpoints[Balanced]

\* The move to it may follow the last move.
Approved(to) ==
    /\ remembered = Delta(setpoints, to) /\ age <= clock - approvedAt
    /\ WithinStepLimits(Delta(setpoints, to))
    /\ \/ lastMove.at = Never
       \/ approvedAt - lastMove.at >= MinChangeInterval
       \/ ~Reverses(Delta(setpoints, to), lastMove.delta)
       \/ to = ComfortFallback(setpoints)

\* A record equal to the one in force is not remembered.
Pending(to) == IF to = setpoints THEN MoveRemembered ELSE Approved(to)

StorePoints == {"storeCorrection", "store", "storeBalanced"}

SafetyInv ==
    /\ lastMove \in Sentinels /\ lastMove.at <= approvedAt /\ approvedAt <= clock
    /\ pc \notin StorePoints \cup {"correct"} => MoveRemembered
    /\ pc = "correct" /\ ComfortFallback(base) = setpoints => MoveRemembered
    /\ \A to \in Setpoints : Storing(to) => Pending(to)

HistoryInv ==
    /\ UnattendedInv
    /\ clock \in Nat /\ approvedAt \in Nat
    /\ SafetyInv

LEMMA InitHistory == HistoryInit => HistoryInv
<1> SUFFICES ASSUME HistoryInit PROVE HistoryInv
  OBVIOUS
<1>1. lastMove \in Sentinels /\ lastMove.at = Never /\ clock = 0 /\ approvedAt = 0
  BY DEF HistoryInit, InitialSentinel, Sentinels, Deltas, NoDelta
<1>2. pc = "sleep"
  BY DEF HistoryInit, Init
<1> QED
  BY <1>1, <1>2, InitSettled
     DEF HistoryInit, HistoryInv, UnattendedInv, SafetyInv, MoveRemembered, Storing

\* The gateway approves no move that may not follow the last one.
LEMMA ApprovalIsPending ==
    ASSUME HistoryInv, NEW to \in Setpoints, NEW emergency, Approve(to, emergency),
           pc \in {"correct", "apply", "balance"}, pc' # pc, Observe, UNCHANGED setpoints,
           \/ MoveRemembered /\ emergency = FALSE
           \/ to = ComfortFallback(setpoints),
           to = setpoints => MoveRemembered
    PROVE  Pending(to)'
<1>1. /\ approvedAt' = clock /\ clock' = clock /\ lastMove' = lastMove /\ clock \in Nat
      /\ age \in Nat /\ lastMove.at \in Int /\ MinChangeInterval \in Nat
  BY SentinelAssumption
     DEF Observe, HistoryInv, UnattendedInv, SettledInv, SafetyInv, TypeOK, Sentinels
<1>2. CASE to = setpoints
  <2>1. UNCHANGED <<age, remembered>>
    BY <1>2 DEF Approve, Remember, sentinelVars
  <2> QED
    BY <1>1, <1>2, <2>1 DEF Pending, MoveRemembered
<1>3. CASE to # setpoints
  <2>1. age' = 0 /\ remembered' = Delta(setpoints, to)
    BY <1>3 DEF Approve, Remember
  <2>2. WithinStepLimits(Delta(setpoints, to))
    BY DEF Approve, Accepted, Accepts
  <2>3. ASSUME MoveRemembered, emergency = FALSE, lastMove.at # Never,
               Reverses(Delta(setpoints, to), lastMove.delta)
        PROVE  clock - lastMove.at >= MinChangeInterval
    <3>1. age <= clock - lastMove.at /\ Reverses(Delta(setpoints, to), remembered)
      BY <2>3 DEF MoveRemembered
    <3>2. ~(age - 0 < MinChangeInterval)
      BY <1>3, <2>3, <3>1 DEF Approve, Accepted, Accepts, Oscillates
    <3> QED
      BY <1>1, <3>1, <3>2
  <2>4. setpoints' = setpoints
    OBVIOUS
  <2>5. \/ lastMove.at = Never
        \/ clock - lastMove.at >= MinChangeInterval
        \/ ~Reverses(Delta(setpoints, to), lastMove.delta)
        \/ to = ComfortFallback(setpoints)
    BY <2>3
  <2> QED
    BY <1>1, <1>3, <2>1, <2>2, <2>4, <2>5 DEF Pending, Approved
<1> QED
  BY <1>2, <1>3

\* Storing what was approved is a move of SafeActuation.
LEMMA StoreIsMove ==
    ASSUME HistoryInv, NEW to \in Setpoints, Storing(to), Store(to), Observe,
           UNCHANGED sentinelVars
    PROVE  /\ [Actuation!Move]_<<setpoints, lastMove>>
           /\ lastMove' \in Sentinels /\ lastMove'.at <= approvedAt' /\ MoveRemembered'
<1>1. /\ setpoints' = to /\ approvedAt' = approvedAt /\ clock' = clock
      /\ UNCHANGED <<age, remembered>> /\ Pending(to)
  BY DEF Store, Storing, Observe, HistoryInv, SafetyInv, sentinelVars
<1>2. /\ setpoints \in Setpoints /\ clock \in Nat /\ approvedAt \in Nat
      /\ lastMove \in Sentinels /\ lastMove.at <= approvedAt
  BY DEF HistoryInv, UnattendedInv, SettledInv, TypeOK, SafetyInv
<1>3. CASE to = setpoints
  BY <1>1, <1>2, <1>3 DEF Pending, Observe, MoveRemembered
<1>4. CASE to # setpoints
  <2>1. Approved(to)
    BY <1>1, <1>4 DEF Pending
  <2>2. lastMove' = [at |-> approvedAt, delta |-> Delta(setpoints, to)]
    BY <1>1, <1>4 DEF Observe
  <2>3. lastMove' \in Sentinels
    BY <1>2, <2>2, DeltaType DEF Sentinels
  <2>4. lastMove'.at = approvedAt /\ lastMove'.delta = Delta(setpoints, setpoints')
    BY <1>1, <2>2
  <2>5. Actuation!MayFollow(lastMove', lastMove)
    BY <1>1, <2>1, <2>4
       DEF Approved, Actuation!MayFollow, Reverses, OppositeSigns, Actuation!Reverses,
           Actuation!OppositeSigns, ComfortFallback, Actuation!ComfortFallback,
           Smaller, Larger, Actuation!Smaller, Actuation!Larger
  <2>6. Actuation!WithinStepLimits(lastMove'.delta)
    BY <1>1, <2>1, <2>4
       DEF Approved, WithinStepLimits, AtMost, Actuation!WithinStepLimits, Actuation!AtMost
  <2>7. lastMove' \in Actuation!Sentinels /\ setpoints' \in Actuation!Setpoints
    BY <1>1, <2>3
       DEF Sentinels, Deltas, Actuation!Sentinels, Actuation!Deltas, Setpoints,
           Actuation!Setpoints
  <2>8. lastMove'.delta = Actuation!Delta(setpoints, setpoints')
    BY <2>4 DEF Delta, Actuation!Delta
  <2>9. Actuation!Move
    BY <1>1, <1>2, <1>4, <2>4, <2>5, <2>6, <2>7, <2>8 DEF Actuation!Move
  <2>10. MoveRemembered'
    BY <1>1, <2>1, <2>2 DEF Approved, MoveRemembered
  <2> QED
    BY <1>1, <1>2, <2>3, <2>4, <2>9, <2>10
<1> QED
  BY <1>3, <1>4

\* A step that leaves store and sentinel alone leaves them in the same relation.
LEMMA StillRemembered ==
    ASSUME HistoryInv, UNCHANGED <<setpoints, age, remembered, clock>>, Observe
    PROVE  /\ lastMove' = lastMove /\ lastMove' \in Sentinels
           /\ lastMove'.at <= approvedAt' /\ approvedAt' <= clock'
           /\ MoveRemembered => MoveRemembered'
<1>1. /\ lastMove' = lastMove /\ approvedAt' \in {approvedAt, clock}
      /\ lastMove \in Sentinels /\ lastMove.at <= approvedAt /\ approvedAt <= clock
      /\ clock \in Nat /\ approvedAt \in Nat
  BY DEF Observe, HistoryInv, SafetyInv
<1>2. lastMove.at \in Int
  BY <1>1 DEF Sentinels
<1> QED
  BY <1>1, <1>2 DEF MoveRemembered

LEMMA CycleIsSafe ==
    HistoryInv /\ Cycle /\ Observe
        => HistoryInv' /\ [Actuation!Move]_<<setpoints, lastMove>>
<1> DEFINE Goal == SafetyInv' /\ [Actuation!Move]_<<setpoints, lastMove>>
<1> SUFFICES ASSUME HistoryInv, Cycle, Observe
             PROVE  HistoryInv' /\ [Actuation!Move]_<<setpoints, lastMove>>
  OBVIOUS
<1>0. UnattendedInv' /\ clock' \in Nat /\ approvedAt' \in Nat
  BY CycleSettled DEF HistoryInv, UnattendedInv, Observe
<1> SUFFICES Goal
  BY <1>0 DEF HistoryInv
<1>1. TypeOK /\ Agreement /\ SafetyInv /\ clock \in Nat /\ clock' = clock
  BY DEF HistoryInv, UnattendedInv, SettledInv, Observe
<1>2. pc \notin StorePoints \cup {"correct"} => MoveRemembered
  BY <1>1 DEF SafetyInv
<1>3. approvedAt \in Nat /\ approvedAt <= clock /\ approvedAt' \in {approvedAt, clock}
  BY DEF HistoryInv, SafetyInv, Observe
\* A step that ends where nothing is pending.
<1>4. ASSUME MoveRemembered', pc' \notin StorePoints,
             [Actuation!Move]_<<setpoints, lastMove>>,
             lastMove' \in Sentinels, lastMove'.at <= approvedAt'
      PROVE  Goal
  BY <1>1, <1>3, <1>4 DEF SafetyInv, Storing, StorePoints
\* A step that changes neither store nor sentinel and ends there.
<1>5. ASSUME UNCHANGED <<setpoints, age, remembered>>, MoveRemembered, pc' \notin StorePoints
      PROVE  Goal
  BY <1>1, <1>4, <1>5, StillRemembered
\* An approval.
<1>6. ASSUME pc' \in StorePoints, UNCHANGED setpoints,
             \A to \in Setpoints : Storing(to)' => Pending(to)'
      PROVE  Goal
  <2>1. lastMove' = lastMove /\ lastMove \in Sentinels /\ lastMove.at <= approvedAt
    BY <1>1, <1>6 DEF Observe, SafetyInv
  <2>2. lastMove'.at <= approvedAt' /\ approvedAt' <= clock'
    <3>1. lastMove.at \in Int
      BY <2>1 DEF Sentinels
    <3> QED
      BY <1>1, <1>3, <2>1, <3>1
  <2> QED
    BY <1>6, <2>1, <2>2 DEF SafetyInv, StorePoints
<1> HIDE DEF Goal
<1>7. ASSUME NEW score \in ComfortReadings, BeginCycle(score) PROVE Goal
  BY <1>2, <1>5, <1>7 DEF BeginCycle, sentinelVars, StorePoints
<1>8. CASE EvaluateComfort
  <2>1. pc = "heal" /\ pc' \in {"correct", "decide"} /\ UNCHANGED <<setpoints, base>>
    BY <1>8 DEF EvaluateComfort, AcceptFallback, BlockFallback
  <2>2. base = setpoints /\ MoveRemembered
    BY <1>1, <1>2, <2>1 DEF Agreement, BaseInForce, StorePoints
  <2>3. CASE UNCHANGED sentinelVars
    BY <1>5, <2>1, <2>2, <2>3 DEF sentinelVars, StorePoints
  <2>4. CASE ~UNCHANGED sentinelVars
    <3>1. pc' = "correct" /\ ComfortFallback(base) # base
      BY <1>8, <2>4 DEF EvaluateComfort, AcceptFallback, BlockFallback, Remember
    <3>2. ComfortFallback(base') # setpoints'
      BY <2>1, <2>2, <3>1 DEF ComfortFallback
    <3>3. UNCHANGED <<lastMove, approvedAt>>
      BY <2>1 DEF Observe
    <3> QED
      BY <1>1, <2>1, <3>1, <3>2, <3>3 DEF SafetyInv, Storing, StorePoints, Goal
  <2> QED
    BY <2>3, <2>4
<1>9. CASE CorrectComfort
  <2>1. pc = "correct" /\ base = setpoints /\ base \in Setpoints /\ UNCHANGED <<setpoints, base>>
    BY <1>1, <1>9 DEF CorrectComfort, Agreement, BaseInForce, TypeOK
  <2>2. Accepted(setpoints, ComfortFallback(base), TRUE)
    BY <1>1, <2>1 DEF Agreement, CorrectionAccepted, Accepted, Accepts, Oscillates
  <2>3. Approve(ComfortFallback(base), TRUE) /\ pc' = "storeCorrection"
    BY <1>9, <2>2 DEF CorrectComfort, Reject
  <2>4. ASSUME NEW to \in Setpoints, to = ComfortFallback(base) PROVE Pending(to)'
    <3>1. Approve(to, TRUE) /\ to = ComfortFallback(setpoints)
      BY <2>1, <2>3, <2>4
    <3>2. to = setpoints => MoveRemembered
      BY <1>1, <2>1, <2>4 DEF SafetyInv
    <3> QED
      BY <2>1, <2>3, <3>1, <3>2, ApprovalIsPending
  <2>5. \A to \in Setpoints : Storing(to)' => Pending(to)'
    <3>1. ComfortFallback(base') = ComfortFallback(base)
      BY <2>1
    <3> QED
      BY <2>3, <2>4, <3>1 DEF Storing
  <2> QED
    BY <1>6, <2>1, <2>3, <2>5 DEF StorePoints
<1>10. CASE StoreCorrection
  <2>1. Storing(ComfortFallback(base)) /\ pc' = "sleep" /\ base \in Setpoints
    BY <1>1, <1>10 DEF StoreCorrection, Storing, TypeOK
  <2>2. ASSUME NEW to \in Setpoints, to = ComfortFallback(base)
        PROVE  /\ [Actuation!Move]_<<setpoints, lastMove>>
               /\ lastMove' \in Sentinels /\ lastMove'.at <= approvedAt' /\ MoveRemembered'
    BY <1>10, <2>1, <2>2, StoreIsMove DEF StoreCorrection
  <2> QED
    BY <1>4, <2>1, <2>2, FallbackType DEF StorePoints
<1>11. CASE Decide
  BY <1>2, <1>5, <1>11 DEF Decide, sentinelVars, StorePoints
<1>12. CASE ApplyChosen
  <2>1. /\ pc = "apply" /\ MoveRemembered /\ UNCHANGED <<setpoints, chosen>>
        /\ chosen \in Policies
    BY <1>1, <1>2, <1>12 DEF ApplyChosen, StorePoints, TypeOK
  <2>2. CASE Approve(PolicySetpoints[chosen], FALSE) /\ pc' = "store"
    <3>1. ASSUME NEW to \in Setpoints, to = PolicySetpoints[chosen] PROVE Pending(to)'
      BY <2>1, <2>2, <3>1, ApprovalIsPending
    <3>2. \A to \in Setpoints : Storing(to)' => Pending(to)'
      BY <2>1, <2>2, <3>1 DEF Storing
    <3> QED
      BY <1>6, <2>1, <2>2, <3>2 DEF StorePoints
  <2>3. CASE Reject(PolicySetpoints[chosen], FALSE) /\ pc' \in {"balance", "sleep"}
    BY <1>5, <2>1, <2>3 DEF Reject, sentinelVars, StorePoints
  <2> QED
    BY <1>12, <2>2, <2>3 DEF ApplyChosen
<1>13. CASE StoreChosen
  <2>1. Storing(PolicySetpoints[chosen]) /\ pc' = "register"
    BY <1>13 DEF StoreChosen, Storing
  <2>2. ASSUME NEW to \in Setpoints, to = PolicySetpoints[chosen]
        PROVE  /\ [Actuation!Move]_<<setpoints, lastMove>>
               /\ lastMove' \in Sentinels /\ lastMove'.at <= approvedAt' /\ MoveRemembered'
    BY <1>13, <2>1, <2>2, StoreIsMove DEF StoreChosen
  <2>3. PolicySetpoints[chosen] \in Setpoints
    BY <1>1, PolicyAssumption DEF TypeOK
  <2> QED
    BY <1>4, <2>1, <2>2, <2>3 DEF StorePoints
<1>14. CASE RegisterChosen
  BY <1>2, <1>5, <1>14 DEF RegisterChosen, sentinelVars, StorePoints
<1>15. CASE ApplyBalanced
  <2>1. pc = "balance" /\ MoveRemembered /\ UNCHANGED setpoints
    BY <1>2, <1>15 DEF ApplyBalanced, StorePoints
  <2>2. CASE Approve(PolicySetpoints[Balanced], FALSE) /\ pc' = "storeBalanced"
    <3>1. ASSUME NEW to \in Setpoints, to = PolicySetpoints[Balanced] PROVE Pending(to)'
      BY <2>1, <2>2, <3>1, ApprovalIsPending
    <3>2. \A to \in Setpoints : Storing(to)' => Pending(to)'
      BY <2>2, <3>1 DEF Storing
    <3> QED
      BY <1>6, <2>1, <2>2, <3>2 DEF StorePoints
  <2>3. CASE Reject(PolicySetpoints[Balanced], FALSE) /\ pc' = "sleep"
    BY <1>5, <2>1, <2>3 DEF Reject, sentinelVars, StorePoints
  <2> QED
    BY <1>15, <2>2, <2>3 DEF ApplyBalanced
<1>16. CASE StoreBalanced
  <2>1. Storing(PolicySetpoints[Balanced]) /\ pc' = "sleep"
    BY <1>16 DEF StoreBalanced, Storing
  <2>2. ASSUME NEW to \in Setpoints, to = PolicySetpoints[Balanced]
        PROVE  /\ [Actuation!Move]_<<setpoints, lastMove>>
               /\ lastMove' \in Sentinels /\ lastMove'.at <= approvedAt' /\ MoveRemembered'
    BY <1>16, <2>1, <2>2, StoreIsMove DEF StoreBalanced
  <2>3. PolicySetpoints[Balanced] \in Setpoints
    BY PolicyAssumption, ControlAssumption
  <2> QED
    BY <1>4, <2>1, <2>2, <2>3 DEF StorePoints
<1> QED
  BY <1>7, <1>8, <1>9, <1>10, <1>11, <1>12, <1>13, <1>14, <1>15, <1>16 DEF Cycle, Goal

\* The passing of time only makes an approval older.
LEMMA TimeIsSafe ==
    ASSUME HistoryInv,
           UNCHANGED <<setpoints, remembered, pc, base, chosen, lastMove, approvedAt>>,
           \/ UNCHANGED <<clock, age>>
           \/ clock' = clock + 1 /\ (age' = age \/ age' = age + 1)
    PROVE  SafetyInv'
<1>1. /\ age \in Int /\ clock \in Int /\ approvedAt \in Int /\ lastMove \in Sentinels
      /\ lastMove.at <= approvedAt /\ approvedAt <= clock
  BY SentinelAssumption DEF HistoryInv, UnattendedInv, SettledInv, TypeOK, SafetyInv
<1>2. lastMove.at \in Int
  BY <1>1 DEF Sentinels
<1>3. clock' \in Int /\ clock <= clock'
  BY <1>1
<1>4. UNCHANGED setpoints /\ UNCHANGED remembered /\ UNCHANGED lastMove /\ UNCHANGED approvedAt
  OBVIOUS
<1>5. ASSUME NEW at \in Int, age <= clock - at PROVE age' <= clock' - at
  <2>1. CASE UNCHANGED <<clock, age>>
    BY <1>5, <2>1
  <2>2. CASE clock' = clock + 1 /\ (age' = age \/ age' = age + 1)
    BY <1>1, <1>5, <2>2
  <2> QED
    BY <2>1, <2>2
<1>6. MoveRemembered => MoveRemembered'
  BY <1>2, <1>4, <1>5 DEF MoveRemembered
<1>7. ASSUME NEW to \in Setpoints, Pending(to) PROVE Pending(to)'
  <2>1. ComfortFallback(setpoints') = ComfortFallback(setpoints)
    BY <1>4
  <2>2. Approved(to) => Approved(to)'
    BY <1>1, <1>4, <1>5, <2>1 DEF Approved
  <2> QED
    BY <1>4, <1>6, <1>7, <2>2 DEF Pending
<1>8. ComfortFallback(base') = ComfortFallback(base) /\ pc' = pc
  BY DEF ComfortFallback
<1>9. ASSUME NEW to \in Setpoints, Storing(to)' PROVE Pending(to)'
  <2>1. Storing(to)
    BY <1>8, <1>9 DEF Storing
  <2> QED
    BY <1>7, <2>1 DEF HistoryInv, SafetyInv
<1>10. lastMove' \in Sentinels /\ lastMove'.at <= approvedAt' /\ approvedAt' <= clock'
  BY <1>1, <1>3, <1>4
<1>11. /\ pc \notin StorePoints \cup {"correct"} => MoveRemembered
       /\ pc = "correct" /\ ComfortFallback(base) = setpoints => MoveRemembered
  BY DEF HistoryInv, SafetyInv
<1>12. /\ pc' \notin StorePoints \cup {"correct"} => MoveRemembered'
       /\ pc' = "correct" /\ ComfortFallback(base') = setpoints' => MoveRemembered'
  BY <1>4, <1>6, <1>8, <1>11
<1> QED
  BY <1>9, <1>10, <1>12 DEF SafetyInv, StorePoints

LEMMA StepIsSafe ==
    Unattended /\ HistoryInv /\ [HistoryNext]_historyVars
        => HistoryInv' /\ [Actuation!Move]_<<setpoints, lastMove>>
<1> SUFFICES ASSUME Unattended, HistoryInv, [HistoryNext]_historyVars
             PROVE  HistoryInv' /\ [Actuation!Move]_<<setpoints, lastMove>>
  OBVIOUS
<1>1. [Next]_vars
  BY DEF HistoryNext, PassTime, historyVars, Next
<1>2. UnattendedInv' /\ clock \in Nat /\ approvedAt \in Nat
  BY <1>1, NextUnattended DEF HistoryInv
<1>3. age \in Nat
  BY SentinelAssumption DEF HistoryInv, UnattendedInv, SettledInv, TypeOK
<1>4. CASE PassTime
  <2>1. /\ clock' = clock + 1 /\ age' \in {age, age + 1}
        /\ UNCHANGED <<setpoints, remembered, pc, base, chosen, lastMove, approvedAt>>
    BY <1>4 DEF PassTime, Tick, cycleVars, sentinelVars, vars
  <2>2. SafetyInv'
    BY <1>2, <2>1, TimeIsSafe
  <2> QED
    BY <1>2, <2>1, <2>2 DEF HistoryInv
<1>5. CASE Cycle /\ Observe
  BY <1>5, CycleIsSafe
<1>6. CASE Worker /\ Observe
  <2>1. UNCHANGED <<setpoints, age, remembered, pc, base, chosen, clock>>
    BY <1>6
       DEF Worker, SubmitJob, Advise, EndWithoutAdvice, cycleVars, sentinelVars, Observe
  <2>2. UNCHANGED <<lastMove, approvedAt>>
    BY <1>6, <2>1 DEF Observe
  <2>3. SafetyInv'
    BY <2>1, <2>2, TimeIsSafe
  <2> QED
    BY <1>2, <2>1, <2>2, <2>3 DEF HistoryInv
<1>7. ~Request
  <2>1. request = "none"
    BY DEF HistoryInv, UnattendedInv, SettledInv, Agreement
  <2> QED
    BY <2>1 DEF Unattended, Request, StoreRequested, RegisterRequested, CorrectRequested
<1>8. CASE UNCHANGED historyVars
  <2>1. UNCHANGED <<setpoints, age, remembered, pc, base, chosen, clock, lastMove, approvedAt>>
    BY <1>8 DEF historyVars, vars, cycleVars, sentinelVars
  <2>2. SafetyInv'
    BY <2>1, TimeIsSafe
  <2> QED
    BY <1>2, <2>1, <2>2 DEF HistoryInv
<1> QED
  BY <1>4, <1>5, <1>6, <1>7, <1>8 DEF HistoryNext

LEMMA InitIsSafe == HistoryInit => Actuation!SafeInit
  BY DEF HistoryInit, Init, Actuation!SafeInit, InitialSentinel, Actuation!InitialSentinel,
         NoDelta, Actuation!NoDelta

\* Left alone, the loop moves the actuators one approved step at a time, and reverses a
\* move within the interval in order to restore comfort only.
THEOREM LoopIsSafe == Unattended => (HistorySpec => LoopImplementsSafeActuation)
<1> SUFFICES ASSUME Unattended PROVE HistorySpec => LoopImplementsSafeActuation
  OBVIOUS
<1>1. HistoryInv /\ [HistoryNext]_historyVars => HistoryInv'
  BY StepIsSafe
<1>2. HistoryInv /\ [HistoryNext]_historyVars => [Actuation!Move]_<<setpoints, lastMove>>
  BY StepIsSafe
<1>3. HistorySpec => Actuation!SafeInit /\ [][Actuation!Move]_<<setpoints, lastMove>>
  BY <1>1, <1>2, InitHistory, InitIsSafe, PTL DEF HistorySpec
<1> QED
  BY <1>3 DEF LoopImplementsSafeActuation, Actuation!SafeSpec, Actuation!safeVars

\* Left alone, the sentinel remembers between cycles the move the store really made,
\* though a recovery is validated twice before it is made.
THEOREM SentinelRemembers == Unattended => (HistorySpec => []SentinelRemembersMove)
<1> SUFFICES ASSUME Unattended PROVE HistorySpec => []SentinelRemembersMove
  OBVIOUS
<1>1. HistoryInv /\ [HistoryNext]_historyVars => HistoryInv'
  BY StepIsSafe
<1>2. HistoryInv => SentinelRemembersMove
  BY DEF HistoryInv, SafetyInv, StorePoints, MoveRemembered, SentinelRemembersMove
<1> QED
  BY <1>1, <1>2, InitHistory, PTL DEF HistorySpec
=============================================================================
