----------------------- MODULE SimulationRunnerProofs -----------------------
(* Proofs about the lifecycle of the simulation, for any setpoints, output,   *)
(* number of cycles and number of starts. The first part says how far the     *)
(* lifespan, the loop, the worker thread and the process are from each other, *)
(* and whose setpoints and output the files hold at each point of a cycle.    *)
(* The second one says what is read from a file of any length: the readers    *)
(* are loops, their recursive functions are taken apart line by line, and     *)
(* every natural number is reached from 0. The last part says which of the    *)
(* frames is reported.                                                        *)
EXTENDS SimulationRunner, WellFoundedInduction, FiniteSetTheorems, TLAPS

\* The program points and the files, without the frames.
ControlOK ==
    /\ manager \in {"down", "up", "stop process", "wait process", "join"}
    /\ loop \in {"none", "begin", "tick", "cycle", "sleep", "ended"}
    /\ worker \in {"idle", "write", "launch", "wait", "load", "choose", "report", "reported",
                   "raised"}
    /\ process \in {"none", "running", "ended", "failed"}
    /\ output \in [cycle : 0..MaxCycles, content : Outputs]
    /\ cycle \in 0..MaxCycles

\* There is a loop unless the lifespan is down, the thread works while the loop
\* waits for it, and the process runs while the thread waits for that.
Nested ==
    /\ loop = "none" <=> manager = "down"
    /\ worker = "idle" <=> loop # "cycle"
    /\ process = "running" => worker = "wait"

\* The model in the file is that of the cycle from the moment it was written, and
\* the model that EnergyPlus read from the moment it was launched.
ModelOfCycle ==
    /\ worker \in {"launch", "wait", "load", "choose", "report", "reported"} => idf = wanted
    /\ worker \in {"wait", "load", "choose", "report", "reported"} => input = wanted

\* A process that ended well has replaced the output, and nobody else does.
OutputOfCycle ==
    /\ worker = "wait" /\ process = "ended" => output.cycle = cycle
    /\ worker \in {"load", "choose", "report"} => output.cycle = cycle

Lifecycle ==
    /\ ControlOK
    /\ Nested
    /\ ModelOfCycle
    /\ OutputOfCycle
    /\ reported = NoReport \/ (worker = "reported" /\ ReportIsOfTheCycle)

LEMMA InitLifecycle == Init => Lifecycle
  BY RunnerAssumption
     DEF Init, Lifecycle, ControlOK, Nested, ModelOfCycle, OutputOfCycle

\* start, and a stop that terminates, waits, kills and joins: none of it touches
\* the model of a cycle that is under way.
LEMMA LifespanKeepsLifecycle == Lifecycle /\ Lifespan => Lifecycle'
<1> USE DEF Lifecycle, ControlOK, Nested, ModelOfCycle, OutputOfCycle, ReportIsOfTheCycle,
            Manage, frameVars
<1> SUFFICES ASSUME Lifecycle, Lifespan PROVE Lifecycle'
  OBVIOUS
<1>1. CASE Start
  BY <1>1 DEF Start
<1>2. CASE Stop
  BY <1>2 DEF Stop
<1>3. CASE NothingToTerminate
  BY <1>3 DEF NothingToTerminate
<1>4. CASE Terminate
  BY <1>4 DEF Terminate
<1>5. CASE ProcessEnded
  BY <1>5 DEF ProcessEnded
<1>6. CASE Kill
  BY <1>6 DEF Kill
<1>7. CASE Join
  BY <1>7 DEF Join
<1> QED
  BY <1>1, <1>2, <1>3, <1>4, <1>5, <1>6, <1>7 DEF Lifespan

LEMMA TickCounts == cycle \in 0..MaxCycles /\ Tick => cycle' \in 0..MaxCycles
<1>1. MaxCycles \in Nat
  BY RunnerAssumption
<1> QED
  BY <1>1 DEF Tick

\* The loop begins a cycle when the one before it is over.
LEMMA LoopKeepsLifecycle == Lifecycle /\ RunLoop => Lifecycle'
<1> USE DEF Lifecycle, ControlOK, Nested, ModelOfCycle, OutputOfCycle, ReportIsOfTheCycle,
            Loop, fileVars
<1> SUFFICES ASSUME Lifecycle, RunLoop PROVE Lifecycle'
  OBVIOUS
<1>1. CASE Begin
  BY <1>1 DEF Begin
<1>2. CASE Tick
  <2>1. /\ loop = "tick" /\ loop' = "cycle" /\ worker' = "write"
        /\ UNCHANGED <<manager, process, output, reported>>
    BY <1>2 DEF Tick
  <2>2. cycle' \in 0..MaxCycles
    BY <1>2, TickCounts
  <2>3. worker = "idle" /\ reported = NoReport
    BY <2>1
  <2> QED
    BY <2>1, <2>2, <2>3
<1>3. CASE Sleep
  BY <1>3 DEF Sleep
<1>4. CASE Awake
  BY <1>4 DEF Awake
<1>5. CASE End
  BY <1>5 DEF End
<1> QED
  BY <1>1, <1>2, <1>3, <1>4, <1>5 DEF RunLoop

\* The steps of a cycle, on its thread.
LEMMA CycleKeepsLifecycle == Lifecycle /\ RunCycle => Lifecycle'
<1> USE DEF Lifecycle, ControlOK, Nested, ModelOfCycle, OutputOfCycle, ReportIsOfTheCycle,
            Work, managerVars, fileVars, frameVars
<1> SUFFICES ASSUME Lifecycle, RunCycle PROVE Lifecycle'
  OBVIOUS
<1>1. CASE WriteIdf
  BY <1>1 DEF WriteIdf
<1>2. CASE WriteFails
  BY <1>2 DEF WriteFails
<1>3. CASE Launch
  BY <1>3 DEF Launch
<1>4. CASE LaunchFails
  BY <1>4 DEF LaunchFails
<1>5. CASE Wait
  BY <1>5 DEF Wait
<1>6. ASSUME NEW now \in Instants, Load(now) PROVE Lifecycle'
  <2>1. worker = "load" /\ worker' \in {"raised", "choose"}
    BY <1>6 DEF Load
  <2>2. UNCHANGED <<setpoints, managerVars, loop, cycle, wanted, reported, process, fileVars>>
    BY <1>6 DEF Load
  <2> QED
    BY <2>1, <2>2
<1>7. CASE Choose
  BY <1>7 DEF Choose
<1>8. CASE Report
  <2>1. worker = "report" /\ worker' = "reported"
    BY <1>8 DEF Report
  <2>2. UNCHANGED <<setpoints, managerVars, loop, cycle, wanted, process, fileVars>>
    BY <1>8 DEF Report
  <2>3. reported'.cycle = output.cycle /\ reported'.input = input
    BY <1>8 DEF Report
  <2> QED
    BY <2>1, <2>2, <2>3
<1> QED
  BY <1>1, <1>2, <1>3, <1>4, <1>5, <1>6, <1>7, <1>8 DEF RunCycle

LEMMA NextLifecycle == Lifecycle /\ [Next]_vars => Lifecycle'
<1> SUFFICES ASSUME Lifecycle, [Next]_vars PROVE Lifecycle'
  OBVIOUS
<1>1. CASE ProcessEnds
  BY <1>1 DEF Lifecycle, ControlOK, Nested, ModelOfCycle, OutputOfCycle, ReportIsOfTheCycle,
              ProcessEnds, managerVars, frameVars
<1>2. ASSUME NEW s \in Setpoints, ChangeSetpoints(s) PROVE Lifecycle'
  BY <1>2 DEF Lifecycle, ControlOK, Nested, ModelOfCycle, OutputOfCycle, ReportIsOfTheCycle,
              ChangeSetpoints, managerVars, fileVars, frameVars
<1>3. CASE UNCHANGED vars
  BY <1>3 DEF Lifecycle, ControlOK, Nested, ModelOfCycle, OutputOfCycle, ReportIsOfTheCycle,
              vars, managerVars, fileVars, frameVars
<1> QED
  BY <1>1, <1>2, <1>3, LifespanKeepsLifecycle, LoopKeepsLifecycle, CycleKeepsLifecycle DEF Next

LEMMA LifecycleIsInvariant == Spec => []Lifecycle
  BY InitLifecycle, NextLifecycle, PTL DEF Spec

\* While EnergyPlus runs, the cycle that launched it waits, and the model it reads
\* is that of the cycle, however the application is started and stopped
\* (energyplus_runner.py 514-546, 652-693).
THEOREM ProcessKeepsModel == Spec => []ProcessKeepsItsModel
<1>1. Lifecycle => ProcessKeepsItsModel
  BY DEF Lifecycle, Nested, ModelOfCycle, ProcessKeepsItsModel
<1> QED
  BY <1>1, LifecycleIsInvariant, PTL

\* When stop has returned there is no loop, no cycle and no process, also when it
\* came while a cycle was between two processes (energyplus_runner.py 518-527,
\* 688-693).
THEOREM StopLeavesNothing == Spec => []QuietAfterStop
<1>1. Lifecycle => QuietAfterStop
  BY DEF Lifecycle, Nested, QuietAfterStop
<1> QED
  BY <1>1, LifecycleIsInvariant, PTL

\* A report is of the setpoints its cycle began with, and of output that its own
\* process completed, for any number of cycles (energyplus_runner.py 146-151,
\* 532-546).
THEOREM ReportsAreCurrent == Spec => []ReportIsOfTheCycle
<1>1. Lifecycle => ReportIsOfTheCycle
  BY DEF Lifecycle, ReportIsOfTheCycle
<1> QED
  BY <1>1, LifecycleIsInvariant, PTL
-----------------------------------------------------------------------------
(* Natural numbers and sequences.                                             *)

\* A set of natural numbers has a least one.
LEMMA LeastNatural ==
    ASSUME NEW S, S \subseteq Nat, S # {}
    PROVE  \E m \in S : \A k \in S : m <= k
<1> DEFINE R == OpToRel(<, Nat)
<1>1. IsWellFoundedOn(R, Nat)
  BY NatLessThanWellFounded
<1>2. PICK m \in S : \A k \in S : <<k, m>> \notin R
  <2> HIDE DEF R
  <2> QED
    BY <1>1, WFMin
<1>3. \A k \in S : <<k, m>> \in R <=> k < m
  BY DEF OpToRel
<1> HIDE DEF R
<1>4. ASSUME NEW k \in S PROVE m <= k
  <2>1. ~ (k < m)
    BY <1>2, <1>3
  <2>2. k \in Nat /\ m \in Nat
    OBVIOUS
  <2> QED
    BY <2>1, <2>2
<1> QED
  BY <1>4

\* A set of natural numbers that has 0 and the successor of each of its members has
\* them all.
LEMMA AllNaturals ==
    ASSUME NEW S, 0 \in S, \A n \in Nat : n \in S => n + 1 \in S
    PROVE  Nat \subseteq S
<1> SUFFICES ASSUME Nat \ S # {} PROVE FALSE
  OBVIOUS
<1>1. PICK m \in Nat \ S : \A k \in Nat \ S : m <= k
  <2>1. Nat \ S \subseteq Nat
    OBVIOUS
  <2> QED
    BY <2>1, LeastNatural
<1>2. m # 0 /\ m - 1 \in Nat
  BY <1>1
<1>3. m - 1 \in S
  BY <1>1, <1>2
<1>4. (m - 1) + 1 \in S
  BY <1>2, <1>3
<1> QED
  BY <1>1, <1>2, <1>4

\* s is a sequence, whatever its elements are.
IsSequence(s, n) == n \in Nat /\ s = [i \in 1..n |-> s[i]]

LEMMA SequenceLength ==
    ASSUME NEW s, NEW n, IsSequence(s, n)
    PROVE  DOMAIN s = 1..n /\ Len(s) = n /\ s \in Seq({s[i] : i \in 1..n})
<1> DEFINE S == {s[i] : i \in 1..n}
<1>1. n \in Nat /\ DOMAIN s = 1..n /\ \A i \in 1..n : s[i] \in S
  BY DEF IsSequence
<1>2. s \in [1..n -> S]
  BY <1>1 DEF IsSequence
<1> HIDE DEF S
<1>3. s \in Seq(S)
  BY <1>1, <1>2
<1>4. Len(s) = n
  BY <1>1, <1>3
<1> QED
  BY <1>1, <1>3, <1>4 DEF S

LEMMA SequenceShape ==
    ASSUME NEW S, NEW s \in Seq(S)
    PROVE  IsSequence(s, Len(s))
<1>1. Len(s) \in Nat /\ s \in [1..Len(s) -> S]
  OBVIOUS
<1> QED
  BY <1>1 DEF IsSequence

\* longer is s, of n elements, and e after it.
Extends(longer, s, n, e) ==
    /\ IsSequence(longer, n + 1)
    /\ longer[n + 1] = e
    /\ \A i \in 1..n : longer[i] = s[i]

LEMMA AppendExtends ==
    ASSUME NEW s, NEW n, IsSequence(s, n), NEW e, NEW longer, longer = Append(s, e)
    PROVE  Extends(longer, s, n, e)
<1> DEFINE S == {s[i] : i \in 1..n} \cup {e}
<1>1. n \in Nat /\ s \in Seq(S) /\ e \in S /\ Len(s) = n
  <2>1. n \in Nat /\ DOMAIN s = 1..n /\ \A i \in 1..n : s[i] \in S
    BY DEF IsSequence
  <2>2. s \in [1..n -> S]
    BY <2>1 DEF IsSequence
  <2> HIDE DEF S
  <2>3. s \in Seq(S)
    BY <2>1, <2>2
  <2> QED
    BY <2>1, <2>3, SequenceLength DEF S
<1> HIDE DEF S
<1>2. /\ longer \in Seq(S) /\ Len(longer) = n + 1
      /\ longer[n + 1] = e
      /\ \A i \in 1..n : longer[i] = s[i]
  BY <1>1
<1> QED
  BY <1>1, <1>2, SequenceShape DEF Extends

\* of goes through S in order, from 1 to m.
Enumerates(of, m, S) ==
    /\ m \in Nat
    /\ of \in [1..m -> S]
    /\ \A i \in S : \E j \in 1..m : of[j] = i
    /\ \A j, k \in 1..m : j < k => of[j] < of[k]

LEMMA EnumerationGrows ==
    ASSUME NEW of, NEW m, NEW n \in Nat, NEW S, Enumerates(of, m, S), S \subseteq 1..n
    PROVE  Enumerates([j \in 1..m + 1 |-> IF j = m + 1 THEN n + 1 ELSE of[j]], m + 1,
                      S \cup {n + 1})
<1> DEFINE longer == [j \in 1..m + 1 |-> IF j = m + 1 THEN n + 1 ELSE of[j]]
<1>1. m \in Nat /\ m + 1 \in Nat
  BY DEF Enumerates
<1>2. longer \in [1..m + 1 -> S \cup {n + 1}]
  BY <1>1 DEF Enumerates
<1>3. longer[m + 1] = n + 1 /\ \A j \in 1..m : longer[j] = of[j]
  BY <1>1
<1> HIDE DEF longer
<1>4. ASSUME NEW i \in S \cup {n + 1} PROVE \E j \in 1..m + 1 : longer[j] = i
  <2>1. CASE i = n + 1
    BY <1>1, <1>3, <2>1
  <2>2. CASE i \in S
    <3>1. PICK j \in 1..m : of[j] = i
      BY <2>2 DEF Enumerates
    <3> QED
      BY <1>1, <1>3, <3>1
  <2> QED
    BY <2>1, <2>2
<1>5. ASSUME NEW j \in 1..m + 1, NEW k \in 1..m + 1, j < k PROVE longer[j] < longer[k]
  <2>1. j \in 1..m
    BY <1>1, <1>5
  <2>2. of[j] \in 1..n
    BY <2>1 DEF Enumerates
  <2>3. CASE k = m + 1
    BY <1>3, <2>1, <2>2, <2>3
  <2>4. CASE k \in 1..m
    BY <1>3, <1>5, <2>1, <2>4 DEF Enumerates
  <2> QED
    BY <1>1, <2>3, <2>4
<1> QED
  BY <1>1, <1>2, <1>4, <1>5 DEF Enumerates, longer

-----------------------------------------------------------------------------
(* Reading the output.                                                        *)

\* y and r are the values of the loops of a generator, and of a reader, before each
\* of the first n items or lines and after them.
YieldedOf(items, y, n) ==
    y = [k \in 1..n + 1 |-> IF k = 1 THEN <<>>
                            ELSE IF items[k - 1] = NoFrame THEN y[k - 1]
                            ELSE Append(y[k - 1], items[k - 1])]

RecordsOf(data, r, n) ==
    r = [k \in 1..n + 1 |-> IF k = 1 THEN <<>> ELSE AddLine(r[k - 1], data[k - 1])]

LEMMA YieldedExists ==
    ASSUME NEW items PROVE \A n \in Nat : \E y : YieldedOf(items, y, n)
<1> DEFINE S == {n \in Nat : \E y : YieldedOf(items, y, n)}
<1>1. 0 \in S
  <2> DEFINE y == [k \in 1..1 |-> <<>>]
  <2>1. YieldedOf(items, y, 0)
    BY DEF YieldedOf
  <2> QED
    BY <2>1
<1>2. ASSUME NEW n \in Nat, n \in S PROVE n + 1 \in S
  <2>1. PICK y : YieldedOf(items, y, n)
    BY <1>2
  <2> DEFINE last == IF items[n + 1] = NoFrame THEN y[n + 1] ELSE Append(y[n + 1], items[n + 1])
             z == [k \in 1..n + 2 |-> IF k = n + 2 THEN last ELSE y[k]]
  <2>2. /\ \A k \in 1..n + 1 : z[k] = y[k]
        /\ z[n + 2] = last
        /\ z = [k \in 1..n + 2 |-> z[k]]
    OBVIOUS
  <2>3. \A k \in 1..n + 1 : y[k] = IF k = 1 THEN <<>>
                                ELSE IF items[k - 1] = NoFrame THEN y[k - 1]
                                ELSE Append(y[k - 1], items[k - 1])
    BY <2>1 DEF YieldedOf
  <2> HIDE DEF z
  <2>4. ASSUME NEW k \in 1..n + 2
        PROVE  z[k] = IF k = 1 THEN <<>>
                      ELSE IF items[k - 1] = NoFrame THEN z[k - 1]
                      ELSE Append(z[k - 1], items[k - 1])
    <3>1. CASE k = n + 2
      <4>1. k # 1 /\ k - 1 = n + 1 /\ n + 1 \in 1..n + 1
        BY <3>1
      <4>2. z[k - 1] = y[n + 1] /\ z[k] = last
        BY <2>2, <3>1, <4>1
      <4> QED
        BY <4>1, <4>2
    <3>2. CASE k \in 1..n + 1
      <4>1. k # 1 => k - 1 \in 1..n + 1
        BY <3>2
      <4>2. z[k] = y[k] /\ (k # 1 => z[k - 1] = y[k - 1])
        BY <2>2, <3>2, <4>1
      <4> QED
        BY <2>3, <3>2, <4>2
    <3> QED
      BY <3>1, <3>2
  <2>5. YieldedOf(items, z, n + 1)
    <3>1. (n + 1) + 1 = n + 2
      OBVIOUS
    <3> QED
      BY <2>2, <2>4, <3>1 DEF YieldedOf
  <2> QED
    BY <2>5
<1>3. Nat \subseteq S
  <2> HIDE DEF S
  <2> QED
    BY <1>1, <1>2, AllNaturals
<1> QED
  BY <1>3

LEMMA RecordsExist ==
    ASSUME NEW data PROVE \A n \in Nat : \E r : RecordsOf(data, r, n)
<1> DEFINE S == {n \in Nat : \E r : RecordsOf(data, r, n)}
<1>1. 0 \in S
  <2> DEFINE r == [k \in 1..1 |-> <<>>]
  <2>1. RecordsOf(data, r, 0)
    BY DEF RecordsOf
  <2> QED
    BY <2>1
<1>2. ASSUME NEW n \in Nat, n \in S PROVE n + 1 \in S
  <2>1. PICK r : RecordsOf(data, r, n)
    BY <1>2
  <2> DEFINE z == [k \in 1..n + 2 |->
                      IF k = n + 2 THEN AddLine(r[n + 1], data[n + 1]) ELSE r[k]]
  <2>2. /\ \A k \in 1..n + 1 : z[k] = r[k]
        /\ z[n + 2] = AddLine(r[n + 1], data[n + 1])
        /\ z = [k \in 1..n + 2 |-> z[k]]
    OBVIOUS
  <2>3. \A k \in 1..n + 1 : r[k] = IF k = 1 THEN <<>> ELSE AddLine(r[k - 1], data[k - 1])
    BY <2>1 DEF RecordsOf
  <2> HIDE DEF z
  <2>4. ASSUME NEW k \in 1..n + 2
        PROVE  z[k] = IF k = 1 THEN <<>> ELSE AddLine(z[k - 1], data[k - 1])
    <3>1. CASE k = n + 2
      <4>1. k # 1 /\ k - 1 = n + 1 /\ n + 1 \in 1..n + 1
        BY <3>1
      <4>2. z[k - 1] = r[n + 1] /\ z[k] = AddLine(r[n + 1], data[n + 1])
        BY <2>2, <3>1, <4>1
      <4> QED
        BY <4>1, <4>2
    <3>2. CASE k \in 1..n + 1
      <4>1. k # 1 => k - 1 \in 1..n + 1
        BY <3>2
      <4>2. z[k] = r[k] /\ (k # 1 => z[k - 1] = r[k - 1])
        BY <2>2, <3>2, <4>1
      <4> QED
        BY <2>3, <3>2, <4>2
    <3> QED
      BY <3>1, <3>2
  <2>5. RecordsOf(data, z, n + 1)
    <3>1. (n + 1) + 1 = n + 2
      OBVIOUS
    <3> QED
      BY <2>2, <2>4, <3>1 DEF RecordsOf
  <2> QED
    BY <2>5
<1>3. Nat \subseteq S
  <2> HIDE DEF S
  <2> QED
    BY <1>1, <1>2, AllNaturals
<1> QED
  BY <1>3

\* What is yielded, and what is recorded, in the end.
LEMMA YieldedIsLast ==
    ASSUME NEW items, Len(items) \in Nat
    PROVE  \E y : YieldedOf(items, y, Len(items)) /\ Yielded(items) = y[Len(items) + 1]
<1>1. \E y : YieldedOf(items, y, Len(items))
  BY YieldedExists
<1> QED
  BY <1>1 DEF Yielded, YieldedOf

LEMMA RecordsAreLast ==
    ASSUME NEW data, Len(data) \in Nat
    PROVE  \E r : RecordsOf(data, r, Len(data)) /\ Records(data) = r[Len(data) + 1]
<1>1. \E r : RecordsOf(data, r, Len(data))
  BY RecordsExist
<1> QED
  BY <1>1 DEF Records, RecordsOf

\* ys has what is yielded of the first n items, and of says of which item each is.
Selects(items, ys, m, of, n) ==
    /\ IsSequence(ys, m)
    /\ Enumerates(of, m, {i \in 1..n : items[i] # NoFrame})
    /\ \A j \in 1..m : ys[j] = items[of[j]]

LEMMA YieldedSoFar ==
    ASSUME NEW items, NEW N \in Nat, NEW y, YieldedOf(items, y, N)
    PROVE  \A n \in 0..N : \E m, of : Selects(items, y[n + 1], m, of, n)
<1> DEFINE S == {n \in Nat : n <= N => \E m, of : Selects(items, y[n + 1], m, of, n)}
<1>1. \A k \in 1..N + 1 : y[k] = IF k = 1 THEN <<>>
                             ELSE IF items[k - 1] = NoFrame THEN y[k - 1]
                             ELSE Append(y[k - 1], items[k - 1])
  BY DEF YieldedOf
<1>2. 0 \in S
  <2> DEFINE none == [j \in 1..0 |-> 0]
  <2>1. y[1] = <<>>
    BY <1>1
  <2>2. IsSequence(y[1], 0)
    BY <2>1 DEF IsSequence
  <2>3. Enumerates(none, 0, {i \in 1..0 : items[i] # NoFrame})
    BY DEF Enumerates
  <2>4. Selects(items, y[1], 0, none, 0)
    BY <2>2, <2>3 DEF Selects
  <2> QED
    BY <2>4
<1>3. ASSUME NEW n \in Nat, n \in S PROVE n + 1 \in S
  <2> SUFFICES ASSUME n + 1 <= N
               PROVE  \E m, of : Selects(items, y[n + 2], m, of, n + 1)
    OBVIOUS
  <2>1. PICK m, of : Selects(items, y[n + 1], m, of, n)
    BY <1>3
  <2>2. y[n + 2] = IF items[n + 1] = NoFrame THEN y[n + 1] ELSE Append(y[n + 1], items[n + 1])
    BY <1>1
  <2>3. CASE items[n + 1] = NoFrame
    <3>1. {i \in 1..n + 1 : items[i] # NoFrame} = {i \in 1..n : items[i] # NoFrame}
      BY <2>3
    <3>2. Selects(items, y[n + 2], m, of, n + 1)
      BY <2>1, <2>2, <2>3, <3>1 DEF Selects
    <3> QED
      BY <3>2
  <2>4. CASE items[n + 1] # NoFrame
    <3> DEFINE T == {i \in 1..n : items[i] # NoFrame}
               longer == [j \in 1..m + 1 |-> IF j = m + 1 THEN n + 1 ELSE of[j]]
    <3>1. {i \in 1..n + 1 : items[i] # NoFrame} = T \cup {n + 1}
      BY <2>4
    <3>2. Enumerates(longer, m + 1, T \cup {n + 1})
      <4>1. T \subseteq 1..n /\ Enumerates(of, m, T)
        BY <2>1 DEF Selects
      <4> HIDE DEF T
      <4> QED
        BY <4>1, EnumerationGrows
    <3>3. /\ IsSequence(y[n + 2], m + 1)
          /\ y[n + 2][m + 1] = items[n + 1]
          /\ \A j \in 1..m : y[n + 2][j] = y[n + 1][j]
      <4>1. IsSequence(y[n + 1], m) /\ y[n + 2] = Append(y[n + 1], items[n + 1])
        BY <2>1, <2>2, <2>4 DEF Selects
      <4>2. Extends(y[n + 2], y[n + 1], m, items[n + 1])
        BY <4>1, AppendExtends
      <4> QED
        BY <4>2 DEF Extends
    <3>4. ASSUME NEW j \in 1..m + 1 PROVE y[n + 2][j] = items[longer[j]]
      <4>1. m \in Nat /\ \A i \in 1..m : y[n + 1][i] = items[of[i]]
        BY <2>1 DEF Selects, Enumerates
      <4> QED
        BY <3>3, <4>1
    <3>5. Selects(items, y[n + 2], m + 1, longer, n + 1)
      <4> HIDE DEF longer, T
      <4> QED
        BY <3>1, <3>2, <3>3, <3>4 DEF Selects
    <3> QED
      BY <3>5
  <2> QED
    BY <2>3, <2>4
<1>4. Nat \subseteq S
  <2> HIDE DEF S
  <2> QED
    BY <1>2, <1>3, AllNaturals
<1> QED
  BY <1>4

LEMMA YieldedInOrder ==
    ASSUME NEW items, NEW n \in Nat, IsSequence(items, n)
    PROVE  \E m, of : Selects(items, Yielded(items), m, of, n)
<1>1. Len(items) = n
  BY SequenceLength
<1>2. PICK y : YieldedOf(items, y, n) /\ Yielded(items) = y[n + 1]
  BY <1>1, YieldedIsLast
<1> QED
  BY <1>2, YieldedSoFar

\* The lines of an interval with a value of an output, of the first n lines.
WrittenBy(data, header, index, n) == {k \in Written(data, header, index) : k <= n}

\* What a record has of the first n lines, if its interval begins at header.
IsRecordOf(data, record, header, n) ==
    /\ record = [time |-> TimeOf(data[header]), values |-> record.values]
    /\ \A index :
           IF WrittenBy(data, header, index, n) = {} THEN index \notin DOMAIN record.values
           ELSE /\ index \in DOMAIN record.values
                /\ \E k \in WrittenBy(data, header, index, n) :
                       /\ record.values[index] = data[k].value
                       /\ \A l \in WrittenBy(data, header, index, n) : l <= k

LEMMA NothingWritten ==
    ASSUME NEW data, NEW h \in Nat, NEW index, NEW n \in Nat,
           data[n + 1].kind = "value" /\ data[n + 1].index = index
               => Headers(data) \cap (h .. n + 1) # {h}
    PROVE  WrittenBy(data, h, index, n + 1) = WrittenBy(data, h, index, n)
<1>1. n + 1 \notin Written(data, h, index)
  BY DEF Written
<1>2. \A k \in Written(data, h, index) : k \in Int
  BY DEF Written
<1> QED
  BY <1>1, <1>2 DEF WrittenBy

LEMMA ValueWritten ==
    ASSUME NEW data, NEW N \in Nat, IsSequence(data, N), NEW h \in Nat, NEW n \in Nat,
           h <= n, n + 1 <= N,
           data[n + 1].kind = "value", Headers(data) \cap (h .. n + 1) = {h}
    PROVE  n + 1 \in Written(data, h, data[n + 1].index)
<1>1. Len(data) = N
  BY SequenceLength
<1> QED
  BY <1>1 DEF Written

LEMMA WrittenInData ==
    ASSUME NEW data, NEW N \in Nat, IsSequence(data, N), NEW h \in Nat, NEW index
    PROVE  Written(data, h, index) \subseteq 1..N
<1>1. Len(data) = N
  BY SequenceLength
<1> QED
  BY <1>1 DEF Written

LEMMA RecordStays ==
    ASSUME NEW data, NEW h \in Nat, NEW n \in Nat, NEW record,
           IsRecordOf(data, record, h, n),
           data[n + 1].kind = "value" => Headers(data) \cap (h .. n + 1) # {h}
    PROVE  IsRecordOf(data, record, h, n + 1)
<1>1. \A index : WrittenBy(data, h, index, n + 1) = WrittenBy(data, h, index, n)
  BY NothingWritten
<1> QED
  BY <1>1 DEF IsRecordOf

LEMMA RecordTakesValue ==
    ASSUME NEW data, NEW h \in Nat, NEW n \in Nat, NEW record, NEW record2,
           IsRecordOf(data, record, h, n),
           n + 1 \in Written(data, h, data[n + 1].index),
           record2 = [time |-> record.time,
                      values |-> SetValue(record.values, data[n + 1].index, data[n + 1].value)]
    PROVE  IsRecordOf(data, record2, h, n + 1)
<1> DEFINE index == data[n + 1].index
           values == record.values
           values2 == record2.values
<1>1. values2 = [i \in DOMAIN values \cup {index} |->
                    IF i = index THEN data[n + 1].value ELSE values[i]]
  BY DEF SetValue
<1>2. record2 = [time |-> TimeOf(data[h]), values |-> values2]
  BY DEF IsRecordOf
<1>3. ASSUME NEW x, x # index
      PROVE  /\ WrittenBy(data, h, x, n + 1) = WrittenBy(data, h, x, n)
             /\ x \in DOMAIN values2 <=> x \in DOMAIN values
             /\ x \in DOMAIN values => values2[x] = values[x]
  <2>1. WrittenBy(data, h, x, n + 1) = WrittenBy(data, h, x, n)
    BY <1>3, NothingWritten
  <2> HIDE DEF index, values, values2
  <2> QED
    BY <1>1, <1>3, <2>1
<1>4. /\ WrittenBy(data, h, index, n + 1) = WrittenBy(data, h, index, n) \cup {n + 1}
      /\ index \in DOMAIN values2 /\ values2[index] = data[n + 1].value
  <2>1. WrittenBy(data, h, index, n + 1) = WrittenBy(data, h, index, n) \cup {n + 1}
    <3>1. \A k \in Written(data, h, index) : k \in Int
      BY DEF Written
    <3> QED
      BY <3>1 DEF WrittenBy
  <2> HIDE DEF index, values, values2
  <2> QED
    BY <1>1, <2>1
<1>5. \A l \in WrittenBy(data, h, index, n + 1) : l <= n + 1
  BY DEF WrittenBy
<1>6. ASSUME NEW x
      PROVE  IF WrittenBy(data, h, x, n + 1) = {} THEN x \notin DOMAIN values2
             ELSE /\ x \in DOMAIN values2
                  /\ \E k \in WrittenBy(data, h, x, n + 1) :
                         /\ values2[x] = data[k].value
                         /\ \A l \in WrittenBy(data, h, x, n + 1) : l <= k
  <2>1. CASE x = index
    <3> HIDE DEF index, values2
    <3>1. n + 1 \in WrittenBy(data, h, x, n + 1)
      BY <1>4, <2>1
    <3> QED
      BY <1>4, <1>5, <2>1, <3>1
  <2>2. CASE x # index
    <3>1. IF WrittenBy(data, h, x, n) = {} THEN x \notin DOMAIN values
          ELSE /\ x \in DOMAIN values
               /\ \E k \in WrittenBy(data, h, x, n) :
                      /\ values[x] = data[k].value
                      /\ \A l \in WrittenBy(data, h, x, n) : l <= k
      BY DEF IsRecordOf
    <3>2. /\ WrittenBy(data, h, x, n + 1) = WrittenBy(data, h, x, n)
          /\ x \in DOMAIN values2 <=> x \in DOMAIN values
          /\ x \in DOMAIN values => values2[x] = values[x]
      BY <1>3, <2>2
    <3> HIDE DEF index, values, values2
    <3> QED
      BY <3>1, <3>2
  <2> QED
    BY <2>1, <2>2
<1> QED
  BY <1>2, <1>6 DEF IsRecordOf

LEMMA RecordBegins ==
    ASSUME NEW data, NEW n \in Nat, NEW record,
           record = [time |-> TimeOf(data[n + 1]), values |-> NoValues]
    PROVE  IsRecordOf(data, record, n + 1, n + 1)
<1>1. \A index : WrittenBy(data, n + 1, index, n + 1) = {}
  BY DEF WrittenBy, Written
<1>2. \A index : index \notin DOMAIN record.values
  BY DEF NoValues
<1> QED
  BY <1>1, <1>2 DEF IsRecordOf

\* The headers among the first n lines, and the last of them.
HeadersOf(data, n) == {h \in 1..n : data[h].kind = "header"}

LEMMA LastHeader ==
    ASSUME NEW data, NEW N \in Nat, IsSequence(data, N), NEW n \in Nat, n + 1 <= N,
           data[n + 1].kind # "header",
           NEW m, NEW of, Enumerates(of, m, HeadersOf(data, n)), NEW j \in 1..m
    PROVE  Headers(data) \cap (of[j] .. n + 1) = {of[j]} <=> j = m
<1>1. m \in Nat /\ of[j] \in HeadersOf(data, n) /\ of[m] \in HeadersOf(data, n)
  BY DEF Enumerates
<1>2. Headers(data) = {h \in 1..N : data[h].kind = "header"}
  BY SequenceLength DEF Headers
<1>3. of[j] \in Headers(data) \cap (of[j] .. n + 1)
  BY <1>1, <1>2 DEF HeadersOf
<1>4. CASE j = m
  <2>1. ASSUME NEW h \in Headers(data) \cap (of[j] .. n + 1) PROVE h = of[j]
    <3>1. h \in HeadersOf(data, n)
      BY <1>1, <1>2 DEF HeadersOf
    <3>2. PICK i \in 1..m : of[i] = h
      BY <3>1 DEF Enumerates
    <3>3. i < m => of[i] < of[m]
      BY <1>1 DEF Enumerates
    <3>4. h \in Nat /\ of[m] \in Nat /\ h >= of[m]
      BY <1>1, <1>4, <3>1 DEF HeadersOf
    <3> QED
      BY <1>1, <1>4, <3>2, <3>3, <3>4
  <2> QED
    BY <1>3, <1>4, <2>1
<1>5. CASE j # m
  <2>1. of[j] < of[m]
    BY <1>1, <1>5 DEF Enumerates
  <2>2. of[m] \in Headers(data) \cap (of[j] .. n + 1)
    BY <1>1, <1>2, <2>1 DEF HeadersOf
  <2>3. of[m] # of[j]
    BY <1>1, <2>1 DEF HeadersOf
  <2> QED
    BY <1>5, <2>2, <2>3
<1> QED
  BY <1>4, <1>5

\* rs has the records of the first n lines, and of says at which header each begins.
Recorded(data, rs, m, of, n) ==
    /\ IsSequence(rs, m)
    /\ Enumerates(of, m, HeadersOf(data, n))
    /\ \A j \in 1..m : IsRecordOf(data, rs[j], of[j], n)

LEMMA HeaderRecorded ==
    ASSUME NEW data, NEW n \in Nat, NEW rs, NEW m, NEW of, Recorded(data, rs, m, of, n),
           data[n + 1].kind = "header"
    PROVE  \E m2, of2 : Recorded(data, AddLine(rs, data[n + 1]), m2, of2, n + 1)
<1> DEFINE new == [time |-> TimeOf(data[n + 1]), values |-> NoValues]
           rs2 == AddLine(rs, data[n + 1])
           longer == [j \in 1..m + 1 |-> IF j = m + 1 THEN n + 1 ELSE of[j]]
           headers == HeadersOf(data, n)
<1>1. m \in Nat
  BY DEF Recorded, Enumerates
<1>2. Extends(rs2, rs, m, new)
  <2>1. rs2 = Append(rs, new)
    BY DEF AddLine
  <2>2. IsSequence(rs, m)
    BY DEF Recorded
  <2> HIDE DEF rs2, new
  <2> QED
    BY <2>1, <2>2, AppendExtends
<1>3. HeadersOf(data, n + 1) = headers \cup {n + 1}
  BY DEF HeadersOf
<1>4. Enumerates(longer, m + 1, headers \cup {n + 1})
  <2>1. headers \subseteq 1..n /\ Enumerates(of, m, headers)
    BY DEF Recorded, HeadersOf
  <2> HIDE DEF headers
  <2> QED
    BY <2>1, EnumerationGrows
<1>5. IsRecordOf(data, new, n + 1, n + 1)
  BY RecordBegins
<1>6. ASSUME NEW j \in 1..m PROVE IsRecordOf(data, rs[j], of[j], n + 1)
  <2>1. of[j] \in Nat /\ IsRecordOf(data, rs[j], of[j], n)
    BY DEF Recorded, Enumerates, HeadersOf
  <2> QED
    BY <2>1, RecordStays
<1>7. ASSUME NEW j \in 1..m + 1 PROVE IsRecordOf(data, rs2[j], longer[j], n + 1)
  <2> HIDE DEF rs2, new
  <2>1. CASE j = m + 1
    <3>1. rs2[j] = new /\ longer[j] = n + 1
      BY <1>1, <1>2, <2>1 DEF Extends
    <3> QED
      BY <1>5, <3>1
  <2>2. CASE j \in 1..m
    <3>1. rs2[j] = rs[j] /\ longer[j] = of[j]
      BY <1>1, <1>2, <2>2 DEF Extends
    <3> QED
      BY <1>6, <2>2, <3>1
  <2> QED
    BY <1>1, <2>1, <2>2
<1>8. Recorded(data, rs2, m + 1, longer, n + 1)
  <2>1. IsSequence(rs2, m + 1)
    BY <1>2 DEF Extends
  <2> HIDE DEF rs2, longer, headers
  <2> QED
    BY <1>3, <1>4, <1>7, <2>1 DEF Recorded
<1> QED
  BY <1>8

LEMMA ValueRecorded ==
    ASSUME NEW data, NEW N \in Nat, IsSequence(data, N), NEW n \in Nat, n + 1 <= N,
           NEW rs, NEW m, NEW of, Recorded(data, rs, m, of, n),
           data[n + 1].kind = "value"
    PROVE  Recorded(data, AddLine(rs, data[n + 1]), m, of, n + 1)
<1> DEFINE rs2 == AddLine(rs, data[n + 1])
<1>1. m \in Nat /\ Len(rs) = m /\ DOMAIN rs = 1..m
  BY SequenceLength DEF Recorded, Enumerates
<1>2. Enumerates(of, m, HeadersOf(data, n + 1))
  <2>1. HeadersOf(data, n + 1) = HeadersOf(data, n)
    BY DEF HeadersOf
  <2> QED
    BY <2>1 DEF Recorded
<1>3. ASSUME NEW j \in 1..m
      PROVE  /\ of[j] \in Nat /\ of[j] <= n
             /\ IsRecordOf(data, rs[j], of[j], n)
             /\ Headers(data) \cap (of[j] .. n + 1) = {of[j]} <=> j = m
  <2>1. of[j] \in Nat /\ of[j] <= n /\ IsRecordOf(data, rs[j], of[j], n)
    BY DEF Recorded, Enumerates, HeadersOf
  <2>2. Enumerates(of, m, HeadersOf(data, n)) /\ data[n + 1].kind # "header"
    BY DEF Recorded
  <2> QED
    BY <2>1, <2>2, LastHeader
<1>4. CASE rs = <<>>
  <2>1. m = 0 /\ rs2 = rs
    BY <1>1, <1>4 DEF AddLine
  <2>2. IsSequence(rs2, m)
    BY <2>1 DEF Recorded
  <2> QED
    BY <1>2, <2>1, <2>2 DEF Recorded
<1>5. CASE rs # <<>>
  <2> DEFINE last == [time |-> rs[m].time,
                      values |-> SetValue(rs[m].values, data[n + 1].index, data[n + 1].value)]
  <2>1. m # 0
    <3>1. IsSequence(rs, m)
      BY DEF Recorded
    <3>2. m = 0 => rs = <<>>
      BY <1>1, <3>1 DEF IsSequence
    <3> QED
      BY <1>5, <3>2
  <2>2. rs[m] = [time |-> rs[m].time, values |-> rs[m].values]
    BY <1>1, <1>3, <2>1 DEF IsRecordOf
  <2>3. rs2 = [rs EXCEPT ![m].values =
                   SetValue(@, data[n + 1].index, data[n + 1].value)]
    BY <1>1, <1>5 DEF AddLine
  <2>4. /\ rs2 = [j \in 1..m |-> rs2[j]]
        /\ rs2[m] = last
        /\ \A j \in 1..m : j # m => rs2[j] = rs[j]
    <3> HIDE DEF rs2
    <3>1. DOMAIN rs2 = 1..m
      BY <1>1, <2>3
    <3>2. rs2[m] = [rs[m] EXCEPT !.values =
                        SetValue(rs[m].values, data[n + 1].index, data[n + 1].value)]
      BY <1>1, <2>1, <2>3
    <3>3. rs2[m] = last
      BY <2>2, <3>2
    <3> QED
      BY <1>1, <2>3, <3>1, <3>3
  <2>5. IsRecordOf(data, last, of[m], n + 1)
    <3>1. m \in 1..m
      BY <1>1, <2>1
    <3>2. IsRecordOf(data, rs[m], of[m], n) /\ of[m] \in Nat /\ of[m] <= n
      BY <1>3, <3>1
    <3>3. Headers(data) \cap (of[m] .. n + 1) = {of[m]}
      BY <1>3, <3>1
    <3>4. n + 1 \in Written(data, of[m], data[n + 1].index)
      BY <3>2, <3>3, ValueWritten
    <3> QED
      BY <3>2, <3>4, RecordTakesValue
  <2>6. ASSUME NEW j \in 1..m PROVE IsRecordOf(data, rs2[j], of[j], n + 1)
    <3> HIDE DEF rs2, last
    <3>1. CASE j = m
      BY <2>4, <2>5, <3>1
    <3>2. CASE j # m
      <4>1. IsRecordOf(data, rs[j], of[j], n + 1)
        BY <1>3, <3>2, RecordStays
      <4> QED
        BY <2>4, <3>2, <4>1
    <3> QED
      BY <3>1, <3>2
  <2>7. IsSequence(rs2, m)
    BY <1>1, <2>4 DEF IsSequence
  <2> HIDE DEF rs2
  <2>8. Recorded(data, rs2, m, of, n + 1)
    BY <1>2, <2>6, <2>7 DEF Recorded
  <2> QED
    BY <2>8 DEF rs2
<1> QED
  BY <1>4, <1>5

LEMMA OtherRecorded ==
    ASSUME NEW data, NEW n \in Nat, NEW rs, NEW m, NEW of, Recorded(data, rs, m, of, n),
           data[n + 1].kind \notin {"header", "value"}
    PROVE  Recorded(data, AddLine(rs, data[n + 1]), m, of, n + 1)
<1>1. AddLine(rs, data[n + 1]) = rs
  BY DEF AddLine
<1>2. HeadersOf(data, n + 1) = HeadersOf(data, n)
  BY DEF HeadersOf
<1>3. ASSUME NEW j \in 1..m PROVE IsRecordOf(data, rs[j], of[j], n + 1)
  <2>1. of[j] \in Nat /\ IsRecordOf(data, rs[j], of[j], n)
    BY DEF Recorded, Enumerates, HeadersOf
  <2> QED
    BY <2>1, RecordStays
<1> QED
  BY <1>1, <1>2, <1>3 DEF Recorded

LEMMA RecordedSoFar ==
    ASSUME NEW data, NEW N \in Nat, IsSequence(data, N), NEW r, RecordsOf(data, r, N)
    PROVE  \A n \in 0..N : \E m, of : Recorded(data, r[n + 1], m, of, n)
<1> DEFINE S == {n \in Nat : n <= N => \E m, of : Recorded(data, r[n + 1], m, of, n)}
<1>1. \A k \in 1..N + 1 : r[k] = IF k = 1 THEN <<>> ELSE AddLine(r[k - 1], data[k - 1])
  BY DEF RecordsOf
<1>2. 0 \in S
  <2> DEFINE none == [j \in 1..0 |-> 0]
  <2>1. r[1] = <<>>
    BY <1>1
  <2>2. IsSequence(r[1], 0)
    BY <2>1 DEF IsSequence
  <2>3. Enumerates(none, 0, HeadersOf(data, 0))
    BY DEF Enumerates, HeadersOf
  <2>4. Recorded(data, r[1], 0, none, 0)
    BY <2>2, <2>3 DEF Recorded
  <2> QED
    BY <2>4
<1>3. ASSUME NEW n \in Nat, n \in S PROVE n + 1 \in S
  <2> SUFFICES ASSUME n + 1 <= N
               PROVE  \E m, of : Recorded(data, r[n + 2], m, of, n + 1)
    OBVIOUS
  <2>1. PICK m, of : Recorded(data, r[n + 1], m, of, n)
    BY <1>3
  <2>2. r[n + 2] = AddLine(r[n + 1], data[n + 1])
    BY <1>1
  <2>3. \E m2, of2 : Recorded(data, AddLine(r[n + 1], data[n + 1]), m2, of2, n + 1)
    <3>1. CASE data[n + 1].kind = "header"
      BY <2>1, <3>1, HeaderRecorded
    <3>2. CASE data[n + 1].kind = "value"
      <4>1. Recorded(data, AddLine(r[n + 1], data[n + 1]), m, of, n + 1)
        BY <2>1, <3>2, ValueRecorded
      <4> QED
        BY <4>1
    <3>3. CASE data[n + 1].kind \notin {"header", "value"}
      <4>1. Recorded(data, AddLine(r[n + 1], data[n + 1]), m, of, n + 1)
        BY <2>1, <3>3, OtherRecorded
      <4> QED
        BY <4>1
    <3> QED
      BY <3>1, <3>2, <3>3
  <2> QED
    BY <2>2, <2>3
<1>4. Nat \subseteq S
  <2> HIDE DEF S
  <2> QED
    BY <1>2, <1>3, AllNaturals
<1> QED
  BY <1>4

\* The records of a whole file: one of each header, with the last values written in
\* its interval.
LEMMA RecordsMatchData ==
    ASSUME NEW data, NEW N \in Nat, IsSequence(data, N)
    PROVE  \E m, of : Recorded(data, Records(data), m, of, N)
<1>1. Len(data) = N
  BY SequenceLength
<1>2. PICK r : RecordsOf(data, r, N) /\ Records(data) = r[N + 1]
  BY <1>1, RecordsAreLast
<1> QED
  BY <1>2, RecordedSoFar

\* The intervals of a file have the numbers of their records.
LEMMA NumberOfRecord ==
    ASSUME NEW data, NEW N \in Nat, IsSequence(data, N),
           NEW m, NEW of, Enumerates(of, m, HeadersOf(data, N)), NEW j \in 1..m
    PROVE  Number(data, of[j]) = j
<1> DEFINE T == {h \in Headers(data) : h <= of[j]}
           f == [i \in 1..j |-> of[i]]
<1>1. Headers(data) = HeadersOf(data, N)
  BY SequenceLength DEF Headers, HeadersOf
<1>2. /\ m \in Nat /\ j \in Nat /\ 1..j \subseteq 1..m
      /\ \A i \in 1..m : of[i] \in HeadersOf(data, N) /\ of[i] \in Nat
      /\ \A i, k \in 1..m : i < k => of[i] < of[k]
  BY DEF Enumerates, HeadersOf
<1>3. ASSUME NEW i \in 1..j PROVE f[i] \in T
  <2>1. i = j \/ i < j
    BY <1>2
  <2>2. of[i] \in HeadersOf(data, N) /\ of[i] <= of[j]
    BY <1>2, <2>1
  <2> QED
    BY <1>1, <2>2
<1>4. ASSUME NEW i \in 1..j, NEW k \in 1..j, f[i] = f[k] PROVE i = k
  <2>1. of[i] = of[k] /\ of[i] \in Nat /\ ~ (i < k /\ of[i] >= of[k])
    BY <1>2, <1>4
  <2>2. ~ (i < k) /\ ~ (k < i)
    BY <1>2, <2>1
  <2> QED
    BY <1>2, <2>2
<1>5. ASSUME NEW h \in T PROVE \E i \in 1..j : f[i] = h
  <2>1. PICK i \in 1..m : of[i] = h
    BY <1>1 DEF Enumerates
  <2>2. ~ (j < i)
    BY <1>2, <2>1
  <2>3. i \in 1..j
    BY <1>2, <2>2
  <2> QED
    BY <2>1, <2>3
<1>6. ExistsBijection(1..j, T)
  <2>1. f \in [1..j -> T]
    <3> HIDE DEF T
    <3> QED
      BY <1>3
  <2> HIDE DEF f, T
  <2>2. f \in Bijection(1..j, T)
    BY <1>4, <1>5, <2>1 DEF Bijection, Injection, Surjection, IsInjective
  <2> QED
    BY <2>2 DEF ExistsBijection
<1>7. IsFiniteSet(1..j) /\ Cardinality(1..j) = j
  BY <1>2, FS_Interval
<1>8. Cardinality(T) = j
  <2> HIDE DEF T
  <2> QED
    BY <1>6, <1>7, FS_Bijection
<1> QED
  BY <1>8 DEF Number

LEMMA FirstIsThere ==
    ASSUME NEW values, NEW n \in Nat, DOMAIN values = 1..n
    PROVE  /\ First(values) = Missing <=> \A i \in 1..n : values[i] = Missing
           /\ First(values) # Missing =>
                  \E i \in 1..n : /\ First(values) = values[i] /\ values[i] # Missing
                                  /\ \A k \in 1..i - 1 : values[k] = Missing
<1>1. CASE \A i \in 1..n : values[i] = Missing
  BY <1>1 DEF First
<1>2. CASE \E i \in 1..n : values[i] # Missing
  <2> DEFINE there == {i \in 1..n : values[i] # Missing}
  <2>1. PICK first \in there : \A k \in there : first <= k
    <3>1. there \subseteq Nat /\ there # {}
      BY <1>2
    <3> HIDE DEF there
    <3> QED
      BY <3>1, LeastNatural
  <2>2. \A k \in 1..first - 1 : values[k] = Missing
    BY <2>1
  <2>3. \E i \in DOMAIN values : values[i] # Missing /\ \A k \in 1..i - 1 : values[k] = Missing
    BY <2>1, <2>2
  <2>4. First(values) = values[CHOOSE i \in DOMAIN values :
                                  values[i] # Missing
                                      /\ \A k \in 1..i - 1 : values[k] = Missing]
    BY <1>2 DEF First
  <2>5. \E i \in 1..n : /\ First(values) = values[i] /\ values[i] # Missing
                         /\ \A k \in 1..i - 1 : values[k] = Missing
    BY <2>3, <2>4
  <2> QED
    BY <1>2, <2>5
<1> QED
  BY <1>1, <1>2

\* A record has for an output of the dictionary the last value that was written in the
\* interval, if the name contains the candidate, and none if there is none.
LEMMA ValueAtIsRead ==
    ASSUME NEW data, NEW N \in Nat, IsSequence(data, N), \A k \in 1..N : data[k] \in Lines,
           NEW h \in Nat, NEW record, IsRecordOf(data, record, h, N), NEW dictionary,
           NEW candidate, NEW k
    PROVE  LET value == ValueAt(record, dictionary, candidate, k)
               lines == Lookup(data, h, dictionary, candidate, k)
           IN /\ value = Missing <=> lines = {}
              /\ value # Missing =>
                     \E l \in lines : value = data[l].value /\ \A j \in lines : j <= l
<1> DEFINE x == IndexOf(dictionary, k)
           value == ValueAt(record, dictionary, candidate, k)
<1>1. WrittenBy(data, h, x, N) = Written(data, h, x)
  <2>1. Written(data, h, x) \subseteq 1..N
    BY WrittenInData
  <2> QED
    BY <2>1 DEF WrittenBy
<1>2. ASSUME NEW l \in Written(data, h, x) PROVE data[l].value # Missing
  <2>1. l \in 1..N /\ data[l].kind = "value"
    <3>1. l \in 1..N
      BY WrittenInData
    <3> QED
      BY <3>1 DEF Written
  <2>2. data[l] \in [kind : {"value"}, index : Nat, value : Nat]
    BY <2>1 DEF Lines, OtherLine
  <2> QED
    BY <2>2 DEF Missing
<1>3. CASE candidate \in dictionary[k].contains
  <2>1. Lookup(data, h, dictionary, candidate, k) = Written(data, h, x)
    BY <1>3 DEF Lookup
  <2>2. value = IF x \in DOMAIN record.values THEN record.values[x] ELSE Missing
    BY <1>3 DEF ValueAt
  <2> HIDE DEF x, value
  <2>3. IF Written(data, h, x) = {} THEN x \notin DOMAIN record.values
        ELSE /\ x \in DOMAIN record.values
             /\ \E l \in Written(data, h, x) :
                    record.values[x] = data[l].value /\ \A j \in Written(data, h, x) : j <= l
    BY <1>1 DEF IsRecordOf
  <2> QED
    BY <1>2, <2>1, <2>2, <2>3 DEF value
<1>4. CASE candidate \notin dictionary[k].contains
  BY <1>4 DEF Lookup, ValueAt
<1> QED
  BY <1>3, <1>4

\* It has for a quantity the value of the first output that is written in the interval,
\* candidate by candidate, and none if there is none.
LEMMA ValueIsRead ==
    ASSUME NEW data, NEW N \in Nat, IsSequence(data, N), \A k \in 1..N : data[k] \in Lines,
           NEW h \in Nat, NEW record, IsRecordOf(data, record, h, N),
           NEW dictionary, NEW D \in Nat, DOMAIN dictionary = 1..D,
           NEW candidates, NEW n \in Nat, DOMAIN candidates = 1..n, NEW default
    PROVE  LET value == ValueFor(record, dictionary, candidates)
           IN /\ value = Missing <=> Available(data, h, dictionary, candidates) = {}
              /\ Reads(OrElse(value, default), data, h, dictionary, candidates, default)
<1> DEFINE at(c, k) == ValueAt(record, dictionary, candidates[c], k)
           lines(c, k) == Lookup(data, h, dictionary, candidates[c], k)
           found(c) == [k \in DOMAIN dictionary |-> at(c, k)]
           values == [c \in DOMAIN candidates |-> First(found(c))]
           value == ValueFor(record, dictionary, candidates)
           available == Available(data, h, dictionary, candidates)
<1>1. ASSUME NEW c, NEW k
      PROVE  /\ at(c, k) = Missing <=> lines(c, k) = {}
             /\ at(c, k) # Missing =>
                    \E l \in lines(c, k) :
                        at(c, k) = data[l].value /\ \A j \in lines(c, k) : j <= l
  BY ValueAtIsRead
<1>2. available = {p \in (1..n) \X (1..D) : lines(p[1], p[2]) # {}}
  BY DEF Available
<1>3. value = First(values) /\ DOMAIN values = 1..n
  BY DEF ValueFor
<1>4. /\ value = Missing <=> \A c \in 1..n : values[c] = Missing
      /\ value # Missing => \E c \in 1..n : /\ value = values[c] /\ values[c] # Missing
                                            /\ \A d \in 1..c - 1 : values[d] = Missing
  <2> HIDE DEF values, value
  <2> QED
    BY <1>3, FirstIsThere
<1>5. ASSUME NEW c \in 1..n
      PROVE  /\ values[c] = Missing <=> \A k \in 1..D : at(c, k) = Missing
             /\ values[c] # Missing =>
                    \E k \in 1..D : /\ values[c] = at(c, k) /\ at(c, k) # Missing
                                    /\ \A j \in 1..k - 1 : at(c, j) = Missing
  <2>1. values[c] = First(found(c)) /\ DOMAIN found(c) = 1..D
    OBVIOUS
  <2>2. \A k \in 1..D : found(c)[k] = at(c, k)
    OBVIOUS
  <2> HIDE DEF found, at, values
  <2>3. /\ First(found(c)) = Missing <=> \A k \in 1..D : found(c)[k] = Missing
        /\ First(found(c)) # Missing =>
               \E k \in 1..D : /\ First(found(c)) = found(c)[k] /\ found(c)[k] # Missing
                               /\ \A j \in 1..k - 1 : found(c)[j] = Missing
    BY <2>1, FirstIsThere
  <2>4. \A k \in 1..D : \A j \in 1..k - 1 : j \in 1..D
    OBVIOUS
  <2> QED
    BY <2>1, <2>2, <2>3, <2>4
<1> HIDE DEF at, lines, found, values, value, available
<1>6. value = Missing <=> available = {}
  <2>1. \A c \in 1..n : values[c] = Missing <=> \A k \in 1..D : lines(c, k) = {}
    BY <1>1, <1>5
  <2>2. ASSUME NEW c \in 1..n, NEW k \in 1..D, lines(c, k) # {} PROVE available # {}
    <3>1. <<c, k>> \in available
      BY <1>2, <2>2
    <3> QED
      BY <3>1
  <2>3. ASSUME NEW p \in available PROVE \E c \in 1..n : \E k \in 1..D : lines(c, k) # {}
    BY <1>2
  <2> QED
    BY <1>4, <2>1, <2>2, <2>3
<1>7. CASE value = Missing
  <2>1. available = {} /\ OrElse(value, default) = default
    BY <1>6, <1>7 DEF OrElse
  <2> QED
    BY <1>6, <2>1 DEF Reads, value, available
<1>8. CASE value # Missing
  <2>1. PICK c \in 1..n : /\ value = values[c] /\ values[c] # Missing
                          /\ \A d \in 1..c - 1 : values[d] = Missing
    BY <1>4, <1>8
  <2>2. PICK k \in 1..D : /\ values[c] = at(c, k) /\ at(c, k) # Missing
                          /\ \A j \in 1..k - 1 : at(c, j) = Missing
    BY <1>5, <2>1
  <2>3. <<c, k>> \in available
    BY <1>1, <1>2, <2>2
  <2>4. ASSUME NEW q \in available PROVE c < q[1] \/ (c = q[1] /\ k <= q[2])
    <3>1. q[1] \in 1..n /\ q[2] \in 1..D /\ at(q[1], q[2]) # Missing
      BY <1>1, <1>2
    <3>2. values[q[1]] # Missing
      BY <1>5, <3>1
    <3>3. ~ (q[1] < c)
      BY <2>1, <3>1, <3>2
    <3>4. q[1] = c => ~ (q[2] < k)
      BY <2>2, <3>1
    <3> QED
      BY <3>1, <3>3, <3>4
  <2>5. \E l \in lines(c, k) : value = data[l].value /\ \A j \in lines(c, k) : j <= l
    BY <1>1, <2>1, <2>2
  <2>6. OrElse(value, default) = value
    BY <1>8 DEF OrElse
  <2> DEFINE p == <<c, k>>
  <2>7. p[1] = c /\ p[2] = k /\ p \in available
    BY <2>3
  <2> HIDE DEF p
  <2>8. Reads(value, data, h, dictionary, candidates, default)
    <3>1. /\ \A q \in available : p[1] < q[1] \/ (p[1] = q[1] /\ p[2] <= q[2])
          /\ \E l \in lines(p[1], p[2]) :
                 value = data[l].value /\ \A j \in lines(p[1], p[2]) : j <= l
      BY <2>4, <2>5, <2>7
    <3> QED
      BY <2>7, <3>1 DEF Reads, lines, available
  <2> QED
    BY <1>6, <2>6, <2>8 DEF value, available
<1> QED
  BY <1>7, <1>8

\* What stands in the output and in the meters is what the frame of an interval has.
IsFrameOf(eso, frame, h) ==
    IF Available(eso.data, h, eso.dictionary, TemperatureNames) = {} THEN frame = NoFrame
    ELSE /\ frame # NoFrame
         /\ frame.time = TimeOf(eso.data[h])
         /\ Reads(frame.temperature, eso.data, h, eso.dictionary, TemperatureNames, Missing)
         /\ Reads(frame.humidity, eso.data, h, eso.dictionary, HumidityNames, 50)
         /\ Reads(frame.occupancy, eso.data, h, eso.dictionary, OccupancyNames, 25)
         /\ ReadsPower(frame.power, eso, h)

\* Whatever number of intervals the meters have.
LEMMA PowerIsRead ==
    ASSUME NEW eso, NEW M \in Nat, IsSequence(eso.meterData, M),
           \A k \in 1..M : eso.meterData[k] \in Lines,
           NEW D \in Nat, DOMAIN eso.meterDictionary = 1..D,
           NEW h, NEW i \in Nat, Number(eso.data, h) = i, i >= 1,
           NEW power,
           power = IF i <= Len(Records(eso.meterData))
                   THEN OrElse(ValueFor(Records(eso.meterData)[i], eso.meterDictionary,
                                        PowerMeters), 0)
                   ELSE 0
    PROVE  ReadsPower(power, eso, h)
<1> DEFINE data == eso.meterData
           meters == Records(eso.meterData)
           metered == {g \in Headers(data) : Number(data, g) = i}
<1> HIDE DEF meters
<1>1. PICK R, of : Recorded(data, meters, R, of, M)
  BY RecordsMatchData DEF meters
<1>2. R \in Nat /\ Len(meters) = R
  BY <1>1, SequenceLength DEF Recorded, Enumerates
<1>3. Enumerates(of, R, HeadersOf(data, M)) /\ Headers(data) = HeadersOf(data, M)
  BY <1>1, SequenceLength DEF Recorded, Headers, HeadersOf
<1>4. \A j \in 1..R : Number(data, of[j]) = j
  BY <1>3, NumberOfRecord
<1>5. ASSUME NEW g \in metered PROVE i \in 1..R /\ g = of[i]
  <2>1. PICK j \in 1..R : of[j] = g
    BY <1>3 DEF Enumerates
  <2> QED
    BY <1>4, <2>1
<1>6. CASE i <= R
  <2>1. i \in 1..R
    BY <1>2, <1>6
  <2>2. IsRecordOf(data, meters[i], of[i], M) /\ of[i] \in Nat /\ of[i] \in Headers(data)
    BY <1>1, <1>3, <2>1 DEF Recorded, Enumerates, HeadersOf
  <2>3. of[i] \in metered
    BY <1>4, <2>1, <2>2
  <2>4. Reads(power, data, of[i], eso.meterDictionary, PowerMeters, 0)
    <3>1. DOMAIN PowerMeters = 1..4
      BY DEF PowerMeters
    <3>2. power = OrElse(ValueFor(meters[i], eso.meterDictionary, PowerMeters), 0)
      BY <1>2, <1>6 DEF meters
    <3>3. Reads(OrElse(ValueFor(meters[i], eso.meterDictionary, PowerMeters), 0),
                data, of[i], eso.meterDictionary, PowerMeters, 0)
      BY <2>2, <3>1, ValueIsRead
    <3> QED
      BY <3>2, <3>3
  <2> QED
    BY <1>5, <2>3, <2>4 DEF ReadsPower
<1>7. CASE ~ (i <= R)
  <2>1. metered = {}
    BY <1>5, <1>7
  <2>2. power = 0
    BY <1>2, <1>7 DEF meters
  <2> QED
    BY <2>1, <2>2 DEF ReadsPower
<1> QED
  BY <1>6, <1>7

LEMMA EsoFrameMatches ==
    ASSUME NEW eso, NEW N \in Nat, IsSequence(eso.data, N),
           \A k \in 1..N : eso.data[k] \in Lines,
           NEW D \in Nat, DOMAIN eso.dictionary = 1..D,
           NEW h \in Nat, NEW record, IsRecordOf(eso.data, record, h, N), NEW meters, NEW i,
           \A power : power = (IF i <= Len(meters)
                               THEN OrElse(ValueFor(meters[i], eso.meterDictionary,
                                                    PowerMeters), 0)
                               ELSE 0) => ReadsPower(power, eso, h)
    PROVE  IsFrameOf(eso, EsoFrame(eso, meters, record, i), h)
<1> DEFINE data == eso.data
           t == ValueFor(record, eso.dictionary, TemperatureNames)
           y == OrElse(ValueFor(record, eso.dictionary, HumidityNames), 50)
           o == OrElse(ValueFor(record, eso.dictionary, OccupancyNames), 25)
           p == IF i <= Len(meters)
                THEN OrElse(ValueFor(meters[i], eso.meterDictionary, PowerMeters), 0)
                ELSE 0
           frame == EsoFrame(eso, meters, record, i)
<1>1. /\ t = Missing <=> Available(data, h, eso.dictionary, TemperatureNames) = {}
      /\ Reads(OrElse(t, Missing), data, h, eso.dictionary, TemperatureNames, Missing)
  <2>1. DOMAIN TemperatureNames = 1..1
    BY DEF TemperatureNames
  <2> QED
    BY <2>1, ValueIsRead
<1>2. Reads(y, data, h, eso.dictionary, HumidityNames, 50)
  <2>1. DOMAIN HumidityNames = 1..2
    BY DEF HumidityNames
  <2> QED
    BY <2>1, ValueIsRead
<1>3. Reads(o, data, h, eso.dictionary, OccupancyNames, 25)
  <2>1. DOMAIN OccupancyNames = 1..2
    BY DEF OccupancyNames
  <2> QED
    BY <2>1, ValueIsRead
<1>4. ReadsPower(p, eso, h)
  OBVIOUS
<1>5. CASE t = Missing
  <2>1. frame = NoFrame
    BY <1>5 DEF EsoFrame
  <2> QED
    BY <1>1, <1>5, <2>1 DEF IsFrameOf
<1>6. CASE t # Missing
  <2>1. /\ frame # NoFrame
        /\ frame.time = record.time /\ frame.temperature = t /\ frame.humidity = y
        /\ frame.occupancy = o /\ frame.power = p
    BY <1>6 DEF EsoFrame, Frame, NoFrame
  <2>2. record.time = TimeOf(data[h]) /\ OrElse(t, Missing) = t
    BY <1>6 DEF IsRecordOf, OrElse
  <2> HIDE DEF t, y, o, p, frame
  <2> QED
    BY <1>1, <1>2, <1>3, <1>4, <1>6, <2>1, <2>2 DEF IsFrameOf, frame
<1> QED
  BY <1>5, <1>6

\* Of files of any length, with any dictionaries and any lines in any order, each
\* interval with a temperature is a frame, in order, and has what was written in its
\* own interval of the output and of the meters (energyplus_runner.py 191-216,
\* 258-324).
THEOREM FramesMatchTheFile ==
    ASSUME NEW eso, eso.data \in Seq(Lines), eso.meterData \in Seq(Lines),
           eso.dictionary \in Seq(DictionaryLines),
           eso.meterDictionary \in Seq(DictionaryLines)
    PROVE  FramesMatchOutput(EsoFrames(eso), eso)
<1> DEFINE data == eso.data
           N == Len(eso.data)
           records == Records(eso.data)
           meters == Records(eso.meterData)
           kept == {h \in Headers(eso.data) :
                       Available(eso.data, h, eso.dictionary, TemperatureNames) # {}}
<1>1. N \in Nat /\ IsSequence(data, N) /\ \A k \in 1..N : data[k] \in Lines
  BY SequenceShape
<1>2. PICK R, hs : Recorded(data, records, R, hs, N)
  <2> HIDE DEF N
  <2> QED
    BY <1>1, RecordsMatchData
<1>3. R \in Nat /\ Len(records) = R
  BY <1>2, SequenceLength DEF Recorded, Enumerates
<1> DEFINE items == [i \in 1..R |-> EsoFrame(eso, meters, records[i], i)]
<1>4. EsoFrames(eso) = Yielded(items)
  BY <1>3 DEF EsoFrames
<1>5. PICK m, of : Selects(items, Yielded(items), m, of, R)
  <2>1. IsSequence(items, R)
    BY <1>3 DEF IsSequence
  <2> HIDE DEF items
  <2> QED
    BY <1>3, <2>1, YieldedInOrder
<1> DEFINE yielded == EsoFrames(eso)
           at == [j \in 1..m |-> hs[of[j]]]
<1>6. Headers(data) = HeadersOf(data, N)
  BY <1>1, SequenceLength DEF Headers, HeadersOf
<1>7. ASSUME NEW i \in 1..R
      PROVE  /\ hs[i] \in Headers(data) /\ hs[i] \in Nat
             /\ IsFrameOf(eso, items[i], hs[i])
  <2>1. hs[i] \in HeadersOf(data, N) /\ IsRecordOf(data, records[i], hs[i], N)
    BY <1>2 DEF Recorded, Enumerates
  <2>2. hs[i] \in Nat
    BY <2>1 DEF HeadersOf
  <2>3. Number(data, hs[i]) = i
    <3>1. Enumerates(hs, R, HeadersOf(data, N))
      BY <1>2 DEF Recorded
    <3> HIDE DEF N
    <3> QED
      BY <1>1, <3>1, NumberOfRecord
  <2>4. ASSUME NEW power,
               power = IF i <= Len(meters)
                       THEN OrElse(ValueFor(meters[i], eso.meterDictionary, PowerMeters), 0)
                       ELSE 0
        PROVE  ReadsPower(power, eso, hs[i])
    <3> DEFINE M == Len(eso.meterData)
    <3>1. /\ M \in Nat /\ IsSequence(eso.meterData, M)
          /\ \A k \in 1..M : eso.meterData[k] \in Lines
      BY SequenceShape
    <3>2. i \in Nat /\ i >= 1
      OBVIOUS
    <3>3. PICK D \in Nat : DOMAIN eso.meterDictionary = 1..D
      BY SequenceShape
    <3> HIDE DEF M
    <3> QED
      BY <2>3, <2>4, <3>1, <3>2, <3>3, PowerIsRead
  <2>5. IsFrameOf(eso, EsoFrame(eso, meters, records[i], i), hs[i])
    <3>1. PICK D \in Nat : DOMAIN eso.dictionary = 1..D
      BY SequenceShape
    <3> HIDE DEF N, meters
    <3> QED
      BY <1>1, <2>1, <2>2, <2>4, <3>1, EsoFrameMatches
  <2> QED
    BY <1>6, <2>1, <2>2, <2>5
<1>8. \A i \in 1..R : items[i] # NoFrame <=> hs[i] \in kept
  BY <1>7 DEF IsFrameOf
<1>9. m \in Nat /\ DOMAIN yielded = 1..m /\ \A j \in 1..m : yielded[j] = items[of[j]]
  <2>1. m \in Nat /\ IsSequence(yielded, m)
    BY <1>4, <1>5 DEF Selects, Enumerates
  <2>2. DOMAIN yielded = 1..m
    BY <2>1, SequenceLength
  <2> QED
    BY <1>4, <1>5, <2>1, <2>2 DEF Selects
<1>10. \A j \in 1..m : of[j] \in 1..R /\ items[of[j]] # NoFrame
  BY <1>5 DEF Selects, Enumerates
<1> HIDE DEF yielded, items
<1>11. at \in [DOMAIN yielded -> kept]
  <2>1. \A j \in 1..m : hs[of[j]] \in kept
    BY <1>8, <1>10
  <2> HIDE DEF kept
  <2> QED
    BY <1>9, <2>1
<1>12. ASSUME NEW h \in kept PROVE \E j \in DOMAIN yielded : at[j] = h
  <2>1. PICK i \in 1..R : hs[i] = h
    BY <1>2, <1>6 DEF Recorded, Enumerates
  <2>2. items[i] # NoFrame
    BY <1>8, <2>1
  <2>3. PICK j \in 1..m : of[j] = i
    BY <1>5, <2>2 DEF Selects, Enumerates
  <2> QED
    BY <1>9, <2>1, <2>3
<1>13. ASSUME NEW j \in DOMAIN yielded, NEW k \in DOMAIN yielded, j < k PROVE at[j] < at[k]
  <2>1. of[j] < of[k]
    BY <1>5, <1>9, <1>13 DEF Selects, Enumerates
  <2>2. hs[of[j]] < hs[of[k]]
    BY <1>2, <1>9, <1>10, <2>1 DEF Recorded, Enumerates
  <2> QED
    BY <1>9, <2>2
<1>14. ASSUME NEW j \in DOMAIN yielded
       PROVE  /\ yielded[j].time = TimeOf(data[at[j]])
              /\ Reads(yielded[j].temperature, data, at[j], eso.dictionary, TemperatureNames,
                       Missing)
              /\ Reads(yielded[j].humidity, data, at[j], eso.dictionary, HumidityNames, 50)
              /\ Reads(yielded[j].occupancy, data, at[j], eso.dictionary, OccupancyNames, 25)
              /\ ReadsPower(yielded[j].power, eso, at[j])
  <2>1. /\ of[j] \in 1..R /\ items[of[j]] # NoFrame
        /\ yielded[j] = items[of[j]] /\ at[j] = hs[of[j]]
    BY <1>9, <1>10
  <2>2. IsFrameOf(eso, yielded[j], at[j]) /\ yielded[j] # NoFrame
    BY <1>7, <2>1
  <2> HIDE DEF at
  <2> QED
    BY <2>2 DEF IsFrameOf
<1> HIDE DEF at
<1> QED
  BY <1>11, <1>12, <1>13, <1>14 DEF FramesMatchOutput, yielded

\* What is read is a sequence of frames.
LEMMA YieldedIsSequence ==
    ASSUME NEW items, NEW n \in Nat, IsSequence(items, n)
    PROVE  \E m : IsSequence(Yielded(items), m)
<1>1. \E m, of : Selects(items, Yielded(items), m, of, n)
  BY YieldedInOrder
<1> QED
  BY <1>1 DEF Selects

LEMMA FramesAreSequence ==
    ASSUME NEW written, Readable(written), NEW now
    PROVE  \E n : IsSequence(FramesOf(written, now), n)
<1>1. CASE written.eso # NoFile
  <2> DEFINE eso == written.eso
             items == [i \in 1..Len(Records(eso.data)) |->
                          EsoFrame(eso, Records(eso.meterData), Records(eso.data)[i], i)]
  <2>1. eso.data \in Seq(Lines)
    BY <1>1 DEF Readable
  <2>2. Len(eso.data) \in Nat /\ IsSequence(eso.data, Len(eso.data))
    BY <2>1, SequenceShape
  <2>3. PICK R, hs : Recorded(eso.data, Records(eso.data), R, hs, Len(eso.data))
    BY <2>2, RecordsMatchData
  <2>4. Len(Records(eso.data)) \in Nat
    BY <2>3, SequenceLength DEF Recorded, Enumerates
  <2>5. IsSequence(items, Len(Records(eso.data)))
    BY <2>4 DEF IsSequence
  <2>6. FramesOf(written, now) = Yielded(items)
    BY <1>1 DEF FramesOf, EsoFrames
  <2> HIDE DEF items
  <2> QED
    BY <2>4, <2>5, <2>6, YieldedIsSequence
<1>2. CASE written.eso = NoFile /\ written.sql # NoFile
  <2> DEFINE sql == written.sql
             items == [t \in 1..sql.last |-> SqlFrame(sql, t, now)]
  <2>1. sql.last \in Nat
    BY <1>2 DEF Readable
  <2>2. IsSequence(items, sql.last)
    BY <2>1 DEF IsSequence
  <2>3. FramesOf(written, now) = Yielded(items)
    BY <1>2 DEF FramesOf, SqlFrames
  <2> HIDE DEF items
  <2> QED
    BY <2>1, <2>2, <2>3, YieldedIsSequence
<1>3. CASE written.eso = NoFile /\ written.sql = NoFile /\ written.csv # <<>>
  <2> DEFINE rows == written.csv
             items == [i \in 1..Len(rows) |-> CsvFrame(rows[i], now)]
  <2>1. Len(rows) \in Nat
    BY DEF Readable
  <2>2. IsSequence(items, Len(rows))
    BY <2>1 DEF IsSequence
  <2>3. FramesOf(written, now) = Yielded(items)
    BY <1>3 DEF FramesOf, CsvFrames
  <2> HIDE DEF items
  <2> QED
    BY <2>1, <2>2, <2>3, YieldedIsSequence
<1>4. CASE written.eso = NoFile /\ written.sql = NoFile /\ written.csv = <<>>
  <2>1. FramesOf(written, now) = <<>>
    BY <1>4 DEF FramesOf
  <2>2. IsSequence(<<>>, 0)
    BY DEF IsSequence
  <2> QED
    BY <2>1, <2>2
<1> QED
  BY <1>1, <1>2, <1>3, <1>4
-----------------------------------------------------------------------------
(* Choosing a frame.                                                          *)

\* The frame at i comes before the one at k among the candidates of frames.
Nearer(fs, i, k) ==
    \/ Distance(fs[i]) < Distance(fs[k])
    \/ Distance(fs[i]) = Distance(fs[k]) /\ i <= k

\* The hours of midday have a distance, whatever the frame is otherwise.
LEMMA MiddayDistance == \A f : Midday(f) => Distance(f) \in Nat
<1> SUFFICES ASSUME NEW f, Midday(f) PROVE Distance(f) \in Nat
  OBVIOUS
<1>1. f.time.hour \in 10..15
  BY DEF Midday
<1> QED
  BY <1>1 DEF Distance

\* There is a first one among the nearest candidates, so the choice of the runner
\* is one of them.
LEMMA NearestExists ==
    ASSUME NEW fs, DOMAIN fs \subseteq Nat, Candidates(fs) # {}
    PROVE  \E i \in Candidates(fs) : \A k \in Candidates(fs) : Nearer(fs, i, k)
<1> DEFINE C == Candidates(fs)
           d(i) == Distance(fs[i])
<1>1. C # {} /\ C \subseteq Nat
  BY DEF Candidates
<1>2. \A i \in C : d(i) \in Nat
  BY MiddayDistance DEF Candidates
<1> HIDE DEF C, d
<1>3. PICK least \in {d(i) : i \in C} : \A k \in {d(i) : i \in C} : least <= k
  <2>1. {d(i) : i \in C} \subseteq Nat /\ {d(i) : i \in C} # {}
    BY <1>1, <1>2
  <2> QED
    BY <2>1, LeastNatural
<1>4. PICK first \in {i \in C : d(i) = least} : \A k \in {i \in C : d(i) = least} : first <= k
  <2>1. {i \in C : d(i) = least} \subseteq Nat /\ {i \in C : d(i) = least} # {}
    BY <1>1, <1>3
  <2> QED
    BY <2>1, LeastNatural
<1>5. first \in C /\ d(first) = least
  BY <1>4
<1>6. ASSUME NEW k \in C
      PROVE  d(first) < d(k) \/ (d(first) = d(k) /\ first <= k)
  <2>1. d(first) <= d(k) /\ d(first) \in Nat /\ d(k) \in Nat
    BY <1>2, <1>3, <1>5
  <2>2. d(k) = d(first) => first <= k
    BY <1>4, <1>5
  <2> QED
    BY <2>1, <2>2
<1> QED
  BY <1>5, <1>6 DEF Nearer, C, d

LEMMA RepresentativeIsNearest ==
    ASSUME NEW fs, DOMAIN fs \subseteq Nat, Candidates(fs) # {}
    PROVE  /\ RepresentativeFrameIndex(fs) \in Candidates(fs)
           /\ \A k \in Candidates(fs) : Nearer(fs, RepresentativeFrameIndex(fs), k)
  BY NearestExists DEF RepresentativeFrameIndex, Nearer

\* "Return an occupied midday record from the warmest available period": for frames
\* of any number, months, hours and occupancy, the frame chosen is a best one
\* (energyplus_runner.py 548-577).
THEOREM RepresentativeIsBest ==
    ASSUME NEW fs, DOMAIN fs \subseteq Nat
    PROVE  NoBetterFrame(fs, fs[RepresentativeFrameIndex(fs)])
<1> DEFINE best == RepresentativeFrameIndex(fs)
<1> HIDE DEF best
<1> SUFFICES ASSUME NEW j \in DOMAIN fs, Better(fs[j], fs[best])
             PROVE  FALSE
  BY DEF NoBetterFrame, best
<1>1. Midday(fs[j])
  BY DEF Better
<1>2. Candidates(fs) # {}
  BY <1>1 DEF Candidates
<1>3. /\ best \in Candidates(fs)
      /\ \A k \in Candidates(fs) : Nearer(fs, best, k)
  BY <1>2, RepresentativeIsNearest DEF best
<1>4. /\ best \in DOMAIN fs /\ Midday(fs[best])
      /\ Occupied(fs[j]) => Occupied(fs[best])
      /\ (Occupied(fs[best]) => Occupied(fs[j])) => j \in Candidates(fs)
  BY <1>1, <1>3 DEF Candidates
<1>5. j \in Candidates(fs) /\ Distance(fs[j]) < Distance(fs[best])
  BY <1>4 DEF Better
<1>6. Distance(fs[j]) \in Nat /\ Distance(fs[best]) \in Nat
  BY <1>1, <1>4, MiddayDistance
<1> QED
  BY <1>3, <1>5, <1>6 DEF Nearer

-----------------------------------------------------------------------------
(* The frames of the runner.                                                  *)

\* The representative of some frames is one of them.
LEMMA RepresentativeIsThere ==
    ASSUME NEW fs, NEW n, IsSequence(fs, n), fs # <<>>
    PROVE  RepresentativeFrameIndex(fs) \in 1..n
<1>1. n \in Nat /\ DOMAIN fs = 1..n /\ Len(fs) = n
  BY SequenceLength DEF IsSequence
<1>2. n # 0
  <2>1. n = 0 => fs = <<>>
    BY <1>1 DEF IsSequence
  <2> QED
    BY <2>1
<1>3. CASE Candidates(fs) # {}
  <2>1. RepresentativeFrameIndex(fs) \in Candidates(fs)
    BY <1>1, <1>3, RepresentativeIsNearest
  <2> QED
    BY <1>1, <2>1 DEF Candidates
<1>4. CASE Candidates(fs) = {}
  <2>1. RepresentativeFrameIndex(fs) = IF n = 1 THEN 1 ELSE n \div 2 + 1
    BY <1>1, <1>4 DEF RepresentativeFrameIndex
  <2> QED
    BY <1>1, <1>2, <2>1
<1> QED
  BY <1>3, <1>4

\* The frames are those of the output that lies there from the moment they are
\* loaded until one is chosen, and the index is of one of them.
IndexOK == frameIndex \in 1..(IF frames = <<>> THEN 1 ELSE Len(frames))

FramesInv ==
    /\ \E n : IsSequence(frames, n)
    /\ IndexOK
    /\ worker = "choose" =>
           frames # <<>> /\ \E now \in Instants : frames = FramesOf(output.content, now)

LEMMA InitFrames == Init => FramesInv
<1> SUFFICES ASSUME Init PROVE FramesInv
  OBVIOUS
<1>1. frames = <<>> /\ frameIndex = 1 /\ worker = "idle"
  BY DEF Init
<1>2. IsSequence(frames, 0)
  BY <1>1 DEF IsSequence
<1> QED
  BY <1>1, <1>2 DEF FramesInv, IndexOK

LEMMA CycleKeepsFrames ==
    ASSUME Lifecycle, FramesInv, RunCycle
    PROVE  FramesInv'
<1> USE DEF Work, fileVars, frameVars
<1>1. CASE WriteIdf
  <2>1. frames' = <<>> /\ frameIndex' = 1 /\ worker' = "launch"
    BY <1>1 DEF WriteIdf
  <2>2. IsSequence(frames', 0)
    BY <2>1 DEF IsSequence
  <2> QED
    BY <2>1, <2>2 DEF FramesInv, IndexOK
<1>2. CASE WriteFails \/ Launch \/ LaunchFails \/ Wait
  <2>1. worker' # "choose" /\ UNCHANGED <<frames, frameIndex>>
    BY <1>2 DEF WriteFails, Launch, LaunchFails, Wait
  <2> QED
    BY <2>1 DEF FramesInv, IndexOK
<1>3. ASSUME NEW now \in Instants, Load(now) PROVE FramesInv'
  <2>1. /\ frames' = FramesOf(output.content, now) /\ frameIndex' = 1
        /\ output' = output
        /\ worker' = "choose" => frames' # <<>>
    BY <1>3 DEF Load
  <2>2. PICK n : IsSequence(frames', n)
    <3>1. Readable(output.content)
      BY OutputsAssumption DEF Lifecycle, ControlOK
    <3> QED
      BY <2>1, <3>1, FramesAreSequence
  <2>3. IndexOK'
    <3>1. n \in Nat /\ Len(frames') = n /\ (n = 0 => frames' = <<>>)
      BY <2>2, SequenceLength DEF IsSequence
    <3> QED
      BY <2>1, <3>1 DEF IndexOK
  <2> QED
    BY <2>1, <2>2, <2>3 DEF FramesInv
<1>4. CASE Choose
  <2>1. /\ worker = "choose" /\ worker' = "report" /\ frames' = frames
        /\ frameIndex' = RepresentativeFrameIndex(frames)
    BY <1>4 DEF Choose
  <2>2. PICK n : IsSequence(frames, n)
    BY DEF FramesInv
  <2>3. frames # <<>>
    BY <2>1 DEF FramesInv
  <2>4. frameIndex' \in 1..n /\ Len(frames) = n
    BY <2>1, <2>2, <2>3, RepresentativeIsThere, SequenceLength
  <2> QED
    BY <2>1, <2>2, <2>3, <2>4 DEF FramesInv, IndexOK
<1>5. CASE Report
  <2>1. /\ worker' = "reported" /\ frames' = frames
        /\ frameIndex' = IF frameIndex < Len(frames) THEN frameIndex + 1 ELSE frameIndex
    BY <1>5 DEF Report
  <2>2. PICK n : IsSequence(frames, n)
    BY DEF FramesInv
  <2>3. n \in Nat /\ Len(frames) = n /\ (frames = <<>> => n = 0)
    BY <2>2, SequenceLength DEF IsSequence
  <2>4. IndexOK'
    BY <2>1, <2>3 DEF FramesInv, IndexOK
  <2> QED
    BY <2>1, <2>2, <2>4 DEF FramesInv
<1> QED
  BY <1>1, <1>2, <1>3, <1>4, <1>5 DEF RunCycle

\* Only the thread changes the frames, and no process writes an output under it.
LEMMA NextFrames ==
    ASSUME Lifecycle, FramesInv, [Next]_vars
    PROVE  FramesInv'
<1> USE DEF managerVars, fileVars, frameVars
<1>1. CASE Lifespan \/ RunLoop
  <2>1. /\ UNCHANGED <<frames, frameIndex, output>>
        /\ worker' = "choose" => worker = "choose"
    BY <1>1 DEF Lifespan, Start, Stop, NothingToTerminate, Terminate, ProcessEnded, Kill, Join,
                Manage, RunLoop, Begin, Tick, Sleep, Awake, End, Loop
  <2> QED
    BY <2>1 DEF FramesInv, IndexOK
<1>2. CASE ProcessEnds
  <2>1. UNCHANGED <<frames, frameIndex, worker>> /\ worker # "choose"
    BY <1>2 DEF ProcessEnds, Lifecycle, Nested
  <2> QED
    BY <2>1 DEF FramesInv, IndexOK
<1>3. ASSUME NEW s \in Setpoints, ChangeSetpoints(s) PROVE FramesInv'
  BY <1>3 DEF ChangeSetpoints, FramesInv, IndexOK
<1>4. CASE UNCHANGED vars
  BY <1>4 DEF vars, FramesInv, IndexOK
<1> QED
  BY <1>1, <1>2, <1>3, <1>4, CycleKeepsFrames DEF Next

LEMMA FramesInvIsInvariant == Spec => []FramesInv
  BY InitLifecycle, NextLifecycle, InitFrames, NextFrames, PTL DEF Spec

\* See EnergyPlusOutput: the frames that are chosen from are those of the file that
\* the process of the cycle wrote, whatever it wrote (energyplus_runner.py 191-216,
\* 264-288, 532-546).
THEOREM FramesMatchOutputs == Spec => []FramesAreOfTheOutput
<1>1. Lifecycle /\ FramesInv => FramesAreOfTheOutput
  <2> SUFFICES ASSUME Lifecycle, FramesInv, worker = "choose", output.content.eso # NoFile
               PROVE  FramesMatchOutput(frames, output.content.eso)
    BY DEF FramesAreOfTheOutput
  <2> DEFINE eso == output.content.eso
  <2>1. frames = EsoFrames(eso)
    BY DEF FramesInv, FramesOf
  <2>2. /\ eso.data \in Seq(Lines) /\ eso.meterData \in Seq(Lines)
        /\ eso.dictionary \in Seq(DictionaryLines)
        /\ eso.meterDictionary \in Seq(DictionaryLines)
    BY OutputsAssumption DEF Lifecycle, ControlOK, Readable
  <2> HIDE DEF eso
  <2>3. FramesMatchOutput(EsoFrames(eso), eso)
    BY <2>2, FramesMatchTheFile
  <2> QED
    BY <2>1, <2>3 DEF eso
<1> QED
  BY <1>1, LifecycleIsInvariant, FramesInvIsInvariant, PTL

\* The rest of the types.
SetpointsOK ==
    /\ setpoints \in Setpoints /\ wanted \in Setpoints /\ idf \in Setpoints /\ input \in Setpoints
    /\ starts \in 0..MaxStarts /\ running \in BOOLEAN

LEMMA InitSetpoints == Init => SetpointsOK
<1>1. Default \in Setpoints /\ MaxStarts \in Nat
  BY RunnerAssumption
<1>2. Init => /\ setpoints = Default /\ wanted = Default /\ idf = Default /\ input = Default
              /\ starts = 0 /\ running = FALSE
  BY DEF Init
<1>3. 0 \in 0..MaxStarts
  BY <1>1
<1> QED
  BY <1>1, <1>2, <1>3 DEF SetpointsOK

LEMMA NextSetpoints ==
    ASSUME SetpointsOK, [Next]_vars
    PROVE  SetpointsOK'
<1> USE DEF SetpointsOK, managerVars, fileVars, frameVars
<1>1. CASE Lifespan
  <2>1. Default \in Setpoints /\ MaxStarts \in Nat
    BY RunnerAssumption
  <2>2. CASE Start
    BY <2>1, <2>2 DEF Start, Manage
  <2>3. CASE Stop \/ NothingToTerminate \/ Terminate \/ ProcessEnded \/ Kill \/ Join
    BY <2>3 DEF Stop, NothingToTerminate, Terminate, ProcessEnded, Kill, Join, Manage
  <2> QED
    BY <1>1, <2>2, <2>3 DEF Lifespan
<1>2. CASE RunLoop
  BY <1>2 DEF RunLoop, Begin, Tick, Sleep, Awake, End, Loop
<1>3. CASE WriteIdf \/ WriteFails \/ Launch \/ LaunchFails \/ Wait \/ Choose \/ Report
  BY <1>3 DEF WriteIdf, WriteFails, Launch, LaunchFails, Wait, Choose, Report, Work
<1>4. ASSUME NEW now \in Instants, Load(now) PROVE SetpointsOK'
  BY <1>4 DEF Load, Work
<1>5. CASE ProcessEnds
  BY <1>5 DEF ProcessEnds
<1>6. ASSUME NEW s \in Setpoints, ChangeSetpoints(s) PROVE SetpointsOK'
  BY <1>6 DEF ChangeSetpoints
<1>7. CASE UNCHANGED vars
  BY <1>7 DEF vars
<1> QED
  BY <1>1, <1>2, <1>3, <1>4, <1>5, <1>6, <1>7 DEF Next, RunCycle

\* The program points and the files are what they are meant to be, and the index is
\* of a frame whenever there are frames, so that no report reads beyond them
\* (energyplus_runner.py 146-151, 532-577).
THEOREM TypeCorrect == Spec => []TypeOK
<1>1. Lifecycle /\ FramesInv /\ SetpointsOK => TypeOK
  <2> SUFFICES ASSUME Lifecycle, FramesInv, SetpointsOK PROVE TypeOK
    OBVIOUS
  <2>1. output.cycle \in 0..MaxCycles
    BY DEF Lifecycle, ControlOK
  <2>2. reported.cycle \in 0..MaxCycles
    <3>1. MaxCycles \in Nat
      BY RunnerAssumption
    <3>2. CASE reported = NoReport
      BY <3>1, <3>2 DEF NoReport
    <3>3. CASE reported # NoReport
      BY <3>3 DEF Lifecycle, ControlOK, ReportIsOfTheCycle
    <3> QED
      BY <3>2, <3>3
  <2> QED
    BY <2>1, <2>2 DEF TypeOK, Lifecycle, ControlOK, FramesInv, IndexOK, SetpointsOK
<1> QED
  BY <1>1, InitLifecycle, NextLifecycle, InitFrames, NextFrames, InitSetpoints, NextSetpoints,
     PTL DEF Spec

\* The index is chosen before the report, and the frames stay until the next model
\* is written.
Representative ==
    /\ worker = "report" => frameIndex = RepresentativeFrameIndex(frames)
    /\ reported # NoReport => reported.frame = frames[RepresentativeFrameIndex(frames)]

LEMMA InitRepresentative == Init => Representative
  BY DEF Init, Representative

LEMMA CycleKeepsRepresentative ==
    ASSUME Lifecycle, Representative, RunCycle
    PROVE  Representative'
<1> USE DEF Representative, Work, fileVars, frameVars
<1>1. worker # "reported" => reported = NoReport
  BY DEF Lifecycle
<1>2. CASE WriteIdf
  BY <1>1, <1>2 DEF WriteIdf
<1>3. CASE WriteFails \/ Launch \/ LaunchFails \/ Wait
  BY <1>1, <1>3 DEF WriteFails, Launch, LaunchFails, Wait
<1>4. ASSUME NEW now \in Instants, Load(now) PROVE Representative'
  <2>1. worker = "load" /\ worker' # "report" /\ UNCHANGED reported
    BY <1>4 DEF Load
  <2> QED
    BY <1>1, <2>1
<1>5. CASE Choose
  BY <1>1, <1>5 DEF Choose
<1>6. CASE Report
  <2>1. /\ worker = "report" /\ worker' = "reported" /\ frames' = frames
        /\ reported'.frame = frames[frameIndex]
    BY <1>6 DEF Report
  <2> QED
    BY <2>1
<1> QED
  BY <1>2, <1>3, <1>4, <1>5, <1>6 DEF RunCycle

LEMMA NextRepresentative ==
    ASSUME Lifecycle, Representative, [Next]_vars
    PROVE  Representative'
<1> USE DEF Representative, Lifecycle, Nested, managerVars, fileVars, frameVars
<1>1. CASE Lifespan
  <2>1. UNCHANGED <<worker, frames, frameIndex, reported>>
    BY <1>1 DEF Lifespan, Start, Stop, NothingToTerminate, Terminate, ProcessEnded, Kill, Join,
                Manage
  <2> QED
    BY <2>1
<1>2. CASE RunLoop
  <2>1. /\ worker' # "report" \/ worker' = worker
        /\ UNCHANGED <<frames, frameIndex>>
        /\ reported' = NoReport \/ reported' = reported
    BY <1>2 DEF RunLoop, Begin, Tick, Sleep, Awake, End, Loop
  <2> QED
    BY <2>1
<1>3. CASE ProcessEnds
  BY <1>3 DEF ProcessEnds
<1>4. ASSUME NEW s \in Setpoints, ChangeSetpoints(s) PROVE Representative'
  BY <1>4 DEF ChangeSetpoints
<1>5. CASE UNCHANGED vars
  BY <1>5 DEF vars
<1> QED
  BY <1>1, <1>2, <1>3, <1>4, <1>5, CycleKeepsRepresentative DEF Next

\* Whatever EnergyPlus wrote, however often the application starts and stops, the
\* telemetry of a cycle is that of its best frame (energyplus_runner.py 146-151,
\* 548-577).
THEOREM BestFrameIsReported == Spec => []ReportIsRepresentative
<1>1. Representative /\ FramesInv => ReportIsRepresentative
  <2> SUFFICES ASSUME Representative, FramesInv PROVE ReportIsRepresentative
    OBVIOUS
  <2>1. PICK n : IsSequence(frames, n)
    BY DEF FramesInv
  <2>2. DOMAIN frames \subseteq Nat
    BY <2>1, SequenceLength DEF IsSequence
  <2> QED
    BY <2>2, RepresentativeIsBest DEF Representative, ReportIsRepresentative
<1> QED
  BY <1>1, FramesInvIsInvariant, InitLifecycle, NextLifecycle, InitRepresentative,
     NextRepresentative, PTL DEF Spec
=============================================================================
