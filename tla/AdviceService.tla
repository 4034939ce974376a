--------------------------- MODULE AdviceService ----------------------------
(* What the strategic worker promises to the control loop, as an abstract     *)
(* specification: every job ends once, with advice in the handoff slot or     *)
(* without. It has no threads, no queue and no start or stop. The control     *)
(* loop's model uses the worker in this form (AutonomousControl: SubmitJob,   *)
(* Advise, EndWithoutAdvice, Decide).                                         *)
CONSTANTS
    Jobs,                    \* the jobs anybody may submit
    NoJob                    \* an empty slot

VARIABLES
    outstanding,             \* submitted and not ended
    ended,                   \* ended, with or without advice
    handoff                  \* the job whose advice is in the slot

adviceVars == <<outstanding, ended, handoff>>

AdviceInit ==
    /\ outstanding = {}
    /\ ended = {}
    /\ handoff = NoJob

SubmitJob(j) ==
    /\ j \notin outstanding \cup ended
    /\ outstanding' = outstanding \cup {j}
    /\ UNCHANGED <<ended, handoff>>

End(j) ==
    /\ j \in outstanding
    /\ outstanding' = outstanding \ {j}
    /\ ended' = ended \cup {j}

Advise(j) == End(j) /\ handoff' = j

EndWithoutAdvice(j) == End(j) /\ UNCHANGED handoff

\* The control loop takes the advice out of the slot.
Consume ==
    /\ handoff' = NoJob
    /\ UNCHANGED <<outstanding, ended>>

AdviceNext ==
    \/ \E j \in Jobs : SubmitJob(j) \/ Advise(j) \/ EndWithoutAdvice(j)
    \/ Consume

AdviceSpec == AdviceInit /\ [][AdviceNext]_adviceVars
=============================================================================
