---------------------- MODULE AutomationMemoryProofs ------------------------
(* Proofs about the experience store, for any recorders, limits, stops,       *)
(* restarts and crashes. The invariant says where every recorded episode is,  *)
(* and, as long as no stop gave up waiting for its thread, in which order the *)
(* episodes of a recorder are there. What is said of the entries of sequences *)
(* is proved apart from what is said of other functions (see                  *)
(* StrategicWorkerProofs). A second invariant relates the history to what was *)
(* recorded since the last start.                                             *)
EXTENDS AutomationMemory, SequenceTheorems, TLAPS

\* Episodes of one recorder in the order in which it recorded them.
Precedes(e, f) == e[1] = f[1] => e[2] < f[2]

\* Nothing but None is in a sequence twice.
NoRepeat(s) == \A i, k \in 1..Len(s) : s[i] = s[k] /\ s[i] # NoEpisode => i = k

Ordered(s) ==
    \A i, k \in 1..Len(s) :
        i < k /\ s[i] # NoEpisode /\ s[k] # NoEpisode => Precedes(s[i], s[k])

Entry == Episodes \cup {NoEpisode}

QueueOK == queue \in Seq(Entry) /\ NoRepeat(queue)

TableOK == table \in Seq(Episodes) /\ NoRepeat(table)

HistoryOK == episodes \in Seq(Episodes) /\ Len(episodes) <= MaxEpisodes
-----------------------------------------------------------------------------
(* Sequences. The lemmas of this section speak of nothing else.               *)

LEMMA EmptySequence ==
    /\ \A S : <<>> \in Seq(S)
    /\ Entries(<<>>) = {} /\ NoRepeat(<<>>) /\ Ordered(<<>>)
  BY DEF Entries, NoRepeat, Ordered

LEMMA PutEntry ==
    ASSUME NEW S, NEW s \in Seq(S), NoRepeat(s), NEW x \in S,
           x = NoEpisode \/ x \notin Entries(s)
    PROVE  /\ Append(s, x) \in Seq(S) /\ NoRepeat(Append(s, x))
           /\ Entries(Append(s, x)) = Entries(s) \cup {x}
<1>1. /\ Append(s, x) \in Seq(S)
      /\ Len(Append(s, x)) = Len(s) + 1 /\ Len(s) \in Nat
      /\ \A i \in 1..Len(s) : Append(s, x)[i] = s[i]
      /\ Append(s, x)[Len(s) + 1] = x
  BY AppendProperties
<1>2. NoRepeat(Append(s, x))
  BY <1>1 DEF NoRepeat, Entries
<1>3. Entries(Append(s, x)) = Entries(s) \cup {x}
  BY <1>1 DEF Entries
<1> QED
  BY <1>1, <1>2, <1>3

LEMMA PutInOrder ==
    ASSUME NEW S, NEW s \in Seq(S), Ordered(s), NEW x \in S,
           x = NoEpisode \/ \A y \in Entries(s) \ {NoEpisode} : Precedes(y, x)
    PROVE  Ordered(Append(s, x))
<1>1. /\ Len(Append(s, x)) = Len(s) + 1 /\ Len(s) \in Nat
      /\ \A i \in 1..Len(s) : Append(s, x)[i] = s[i]
      /\ Append(s, x)[Len(s) + 1] = x
  BY AppendProperties
<1> SUFFICES ASSUME NEW i \in 1..Len(s) + 1, NEW k \in 1..Len(s) + 1, i < k,
                    Append(s, x)[i] # NoEpisode, Append(s, x)[k] # NoEpisode
             PROVE  Precedes(Append(s, x)[i], Append(s, x)[k])
  BY <1>1 DEF Ordered
<1>2. i \in 1..Len(s) /\ Append(s, x)[i] = s[i] /\ s[i] \in Entries(s)
  BY <1>1 DEF Entries
<1>3. CASE k \in 1..Len(s)
  BY <1>1, <1>2, <1>3 DEF Ordered
<1>4. CASE k = Len(s) + 1
  BY <1>1, <1>2, <1>4
<1> QED
  BY <1>1, <1>3, <1>4

LEMMA TakeEntry ==
    ASSUME NEW S, NEW s \in Seq(S), NoRepeat(s), s # <<>>
    PROVE  /\ Tail(s) \in Seq(S) /\ NoRepeat(Tail(s))
           /\ Head(s) \in Entries(s)
           /\ Entries(Tail(s)) \ {NoEpisode} = (Entries(s) \ {NoEpisode}) \ {Head(s)}
<1> DEFINE n == Len(s)
<1>1. /\ Tail(s) \in Seq(S) /\ Head(s) = s[1]
      /\ n \in Nat /\ n >= 1 /\ Len(Tail(s)) = n - 1
      /\ \A i \in 1..n - 1 : Tail(s)[i] = s[i + 1]
  BY HeadTailProperties
<1>2. \A i \in 1..n - 1 : i + 1 \in 1..n /\ i + 1 # 1
  BY <1>1
<1>3. NoRepeat(Tail(s))
  BY <1>1, <1>2 DEF NoRepeat
<1>4. Head(s) \in Entries(s)
  BY <1>1 DEF Entries
<1>5. ASSUME NEW x \in Entries(Tail(s)), x # NoEpisode
      PROVE  x \in Entries(s) /\ x # Head(s)
  <2>1. PICK i \in 1..n - 1 : x = s[i + 1]
    BY <1>1 DEF Entries
  <2>2. i + 1 \in 1..n /\ 1 \in 1..n /\ i + 1 # 1
    BY <1>1, <1>2
  <2>3. x # s[1]
    BY <1>5, <2>1, <2>2 DEF NoRepeat
  <2> QED
    BY <1>1, <2>1, <2>2, <2>3 DEF Entries
<1>6. ASSUME NEW x \in Entries(s), x # Head(s)
      PROVE  x \in Entries(Tail(s))
  <2>1. PICK k \in 1..n : x = s[k]
    BY DEF Entries
  <2>2. k - 1 \in 1..n - 1 /\ (k - 1) + 1 = k
    BY <1>1, <1>6, <2>1
  <2>3. Tail(s)[k - 1] = x
    BY <1>1, <2>1, <2>2
  <2> QED
    BY <1>1, <2>2, <2>3 DEF Entries
<1> HIDE DEF n
<1> QED
  BY <1>1, <1>3, <1>4, <1>5, <1>6

LEMMA TakeInOrder ==
    ASSUME NEW S, NEW s \in Seq(S), Ordered(s), s # <<>>
    PROVE  /\ Ordered(Tail(s))
           /\ Head(s) # NoEpisode =>
                \A y \in Entries(Tail(s)) \ {NoEpisode} : Precedes(Head(s), y)
<1> DEFINE n == Len(s)
<1>1. /\ Head(s) = s[1] /\ n \in Nat /\ n >= 1 /\ Len(Tail(s)) = n - 1
      /\ \A i \in 1..n - 1 : Tail(s)[i] = s[i + 1]
  BY HeadTailProperties
<1>2. \A i \in 1..n - 1 : i + 1 \in 1..n /\ 1 < i + 1
  BY <1>1
<1>3. Ordered(Tail(s))
  <2> SUFFICES ASSUME NEW i \in 1..n - 1, NEW k \in 1..n - 1, i < k,
                      Tail(s)[i] # NoEpisode, Tail(s)[k] # NoEpisode
               PROVE  Precedes(Tail(s)[i], Tail(s)[k])
    BY <1>1 DEF Ordered
  <2>1. i + 1 \in 1..n /\ k + 1 \in 1..n /\ i + 1 < k + 1
    BY <1>1
  <2> QED
    BY <1>1, <2>1 DEF Ordered
<1>4. ASSUME Head(s) # NoEpisode, NEW y \in Entries(Tail(s)) \ {NoEpisode}
      PROVE  Precedes(Head(s), y)
  <2>1. PICK i \in 1..n - 1 : y = s[i + 1]
    BY <1>1 DEF Entries
  <2> QED
    BY <1>1, <1>2, <1>4, <2>1 DEF Ordered
<1> QED
  BY <1>3, <1>4

LEMMA NewestType ==
    ASSUME NEW s \in Seq(Episodes), NEW n \in Nat \ {0}
    PROVE  Newest(s, n) \in Seq(Episodes) /\ Len(Newest(s, n)) <= n
<1>1. Len(s) \in Nat
  OBVIOUS
<1>2. CASE Len(s) <= n
  BY <1>1, <1>2 DEF Newest
<1>3. CASE Len(s) > n
  <2>1. Len(s) - n + 1 \in 1..Len(s) /\ Len(s) - (Len(s) - n + 1) + 1 = n
    BY <1>1, <1>3
  <2>2. \A i \in (Len(s) - n + 1)..Len(s) : s[i] \in Episodes
    BY <1>1, <2>1
  <2>3. /\ SubSeq(s, Len(s) - n + 1, Len(s)) \in Seq(Episodes)
        /\ Len(SubSeq(s, Len(s) - n + 1, Len(s))) = n
    BY <1>1, <2>1, SubSeqProperties
  <2> QED
    BY <1>1, <1>3, <2>3 DEF Newest
<1> QED
  BY <1>1, <1>2, <1>3
-----------------------------------------------------------------------------
(* Where the episodes are.                                                    *)

\* TypeOK, without the sequences.
StateOK ==
    /\ available \in BOOLEAN /\ running \in BOOLEAN /\ gaveUp \in BOOLEAN
    /\ starts \in 0..MaxStarts /\ newest \in {{}} \cup {{t} : t \in Threads}
    /\ writer \in [Threads -> {"none", "loop", "get", "commit", "exited"}]
    /\ held \in [Threads -> Entry]
    /\ dropped \subseteq Episodes
    /\ recorded \in [Recorders -> 0..MaxRecorded]
    /\ restoredAt \in [Recorders -> 0..MaxRecorded]
    /\ recorder \in [Recorders -> {"idle", "put"}]
    /\ lifespan \in {"down", "start", "up", "poison", "join"}

\* A thread holds an episode while it commits it, and no other thread holds the same;
\* a thread is created once; a recorder puts what it has recorded.
ThreadsOK ==
    /\ \A t \in Threads : held[t] # NoEpisode <=> writer[t] = "commit"
    /\ \A t, u \in Threads : held[t] = held[u] /\ held[t] # NoEpisode => t = u
    /\ \A t \in Threads : t > starts => writer[t] = "none"
    /\ lifespan = "start" => starts \in Threads /\ writer[starts] = "none"
    /\ \A r \in Recorders : recorder[r] = "put" => recorded[r] >= 1

InQueue == Entries(queue) \ {NoEpisode}

InHand == {held[t] : t \in Threads} \ {NoEpisode}

Waiting == {Pending(r) : r \in {r \in Recorders : recorder[r] = "put"}}

Saved == Entries(table)

\* Five sets with nothing in common.
Apart(A, B, C, D, E) ==
    /\ A \cap B = {} /\ A \cap C = {} /\ A \cap D = {} /\ A \cap E = {}
    /\ B \cap C = {} /\ B \cap D = {} /\ B \cap E = {}
    /\ C \cap D = {} /\ C \cap E = {}
    /\ D \cap E = {}

Placed ==
    /\ Recorded = InQueue \cup InHand \cup Waiting \cup Saved \cup dropped
    /\ Apart(InQueue, InHand, Waiting, Saved, dropped)

Placement == StateOK /\ QueueOK /\ TableOK /\ HistoryOK /\ ThreadsOK /\ Placed

LEMMA TypeParts == StateOK /\ QueueOK /\ TableOK /\ HistoryOK => TypeOK
  BY DEF StateOK, QueueOK, TableOK, HistoryOK, TypeOK, Entry

LEMMA NoneIsNoEpisode == NoEpisode \notin Episodes
  BY MemoryAssumption DEF Episodes

LEMMA SameSequences ==
    /\ QueueOK /\ UNCHANGED queue => QueueOK' /\ InQueue' = InQueue
    /\ TableOK /\ UNCHANGED table => TableOK' /\ Saved' = Saved
    /\ HistoryOK /\ UNCHANGED episodes => HistoryOK'
  BY DEF QueueOK, TableOK, HistoryOK, InQueue, Saved

\* The episodes of the state, from the functions that name them.
LEMMA PendingFacts ==
    ASSUME recorded \in [Recorders -> 0..MaxRecorded], NEW r \in Recorders, recorded[r] >= 1
    PROVE  /\ Pending(r) \in Recorded
           /\ \A q \in Recorders : Pending(q) = Pending(r) => q = r
           /\ \A e \in Recorded : e # Pending(r) => Precedes(e, Pending(r))
<1>1. MaxRecorded \in Nat
  BY MemoryAssumption
<1>2. recorded[r] \in 1..MaxRecorded
  BY <1>1
<1>3. Pending(r) \in Recorded
  BY <1>2 DEF Pending, Recorded, Episodes
<1>4. \A q \in Recorders : Pending(q) = Pending(r) => q = r
  BY DEF Pending
<1>5. ASSUME NEW e \in Recorded, e # Pending(r) PROVE Precedes(e, Pending(r))
  <2>1. PICK q \in Recorders, k \in 1..MaxRecorded : e = <<q, k>>
    BY DEF Recorded, Episodes
  <2>2. k <= recorded[q]
    BY <2>1 DEF Recorded
  <2>3. q = r => k < recorded[r]
    BY <1>2, <1>5, <2>1, <2>2 DEF Pending
  <2> QED
    BY <2>1, <2>3 DEF Precedes, Pending
<1> QED
  BY <1>3, <1>4, <1>5

LEMMA RecordFacts ==
    ASSUME recorded \in [Recorders -> 0..MaxRecorded], NEW r \in Recorders,
           recorded[r] < MaxRecorded, recorded' = [recorded EXCEPT ![r] = @ + 1]
    PROVE  /\ recorded' \in [Recorders -> 0..MaxRecorded]
           /\ <<r, recorded[r] + 1>> \in Episodes
           /\ <<r, recorded[r] + 1>> \notin Recorded
           /\ Recorded' = Recorded \cup {<<r, recorded[r] + 1>>}
           /\ Pending(r)' = <<r, recorded[r] + 1>>
           /\ \A q \in Recorders \ {r} : Pending(q)' = Pending(q)
<1>1. MaxRecorded \in Nat
  BY MemoryAssumption
<1>2. recorded[r] + 1 \in 1..MaxRecorded /\ recorded[r] \in Nat
  BY <1>1
<1>3. recorded' \in [Recorders -> 0..MaxRecorded]
  BY <1>1, <1>2
<1>4. <<r, recorded[r] + 1>> \in Episodes
  BY <1>2 DEF Episodes
<1>5. <<r, recorded[r] + 1>> \notin Recorded
  BY <1>2 DEF Recorded
<1>6. \A q \in Recorders, k \in 1..MaxRecorded :
        k <= recorded'[q] <=> (k <= recorded[q] \/ (q = r /\ k = recorded[r] + 1))
  BY <1>1, <1>2
<1>7. Recorded' = {e \in Episodes : e[2] <= recorded'[e[1]]}
  BY DEF Recorded, Episodes
<1>8. ASSUME NEW e \in Episodes
      PROVE  e \in Recorded' <=> (e \in Recorded \/ e = <<r, recorded[r] + 1>>)
  <2>1. PICK q \in Recorders, k \in 1..MaxRecorded : e = <<q, k>>
    BY DEF Episodes
  <2>2. /\ e \in Recorded <=> k <= recorded[q]
        /\ e \in Recorded' <=> k <= recorded'[q]
        /\ e = <<r, recorded[r] + 1>> <=> (q = r /\ k = recorded[r] + 1)
    BY <1>7, <2>1 DEF Recorded
  <2> QED
    BY <1>6, <2>2
<1>9. Recorded' = Recorded \cup {<<r, recorded[r] + 1>>}
  <2>1. Recorded' \subseteq Episodes /\ Recorded \subseteq Episodes
    BY <1>7 DEF Recorded
  <2> QED
    BY <1>4, <1>8, <2>1
<1>10. Pending(r)' = <<r, recorded[r] + 1>> /\ \A q \in Recorders \ {r} : Pending(q)' = Pending(q)
  BY DEF Pending
<1> QED
  BY <1>3, <1>4, <1>5, <1>9, <1>10

LEMMA SameSets ==
    /\ UNCHANGED held => InHand' = InHand
    /\ UNCHANGED <<recorded, recorder>> => Waiting' = Waiting /\ Recorded' = Recorded
  BY DEF InHand, Waiting, Pending, Recorded, Episodes

LEMMA SamePlaces ==
    Placed /\ UNCHANGED <<Recorded, InQueue, InHand, Waiting, Saved, dropped>> => Placed'
  BY DEF Placed, Apart

LEMMA InitPlacement == Init => Placement
<1> SUFFICES ASSUME Init PROVE Placement
  OBVIOUS
<1>1. episodes = <<>> /\ queue = <<>> /\ table = <<>>
  BY DEF Init
<1>2. QueueOK /\ TableOK /\ InQueue = {} /\ Saved = {}
  BY <1>1, EmptySequence DEF QueueOK, TableOK, InQueue, Saved
<1>3. HistoryOK
  <2>1. Len(<<>>) = 0 /\ 0 <= MaxEpisodes
    BY MemoryAssumption
  <2> QED
    BY <1>1, <2>1, EmptySequence DEF HistoryOK
<1>4. MaxRecorded \in Nat /\ MaxStarts \in Nat
  BY MemoryAssumption
<1>5. StateOK /\ ThreadsOK
  <2>1. /\ available = FALSE /\ running = FALSE /\ newest = {} /\ starts = 0 /\ gaveUp = FALSE
        /\ writer = [t \in Threads |-> "none"] /\ held = [t \in Threads |-> NoEpisode]
        /\ dropped = {} /\ lifespan = "down"
        /\ recorded = [r \in Recorders |-> 0] /\ restoredAt = [r \in Recorders |-> 0]
        /\ recorder = [r \in Recorders |-> "idle"]
    BY DEF Init, Idle
  <2>2. 0 \in 0..MaxStarts /\ 0 \in 0..MaxRecorded
    BY <1>4
  <2>3. StateOK
    BY <2>1, <2>2 DEF StateOK, Entry
  <2>4. ThreadsOK
    BY <2>1 DEF ThreadsOK
  <2> QED
    BY <2>3, <2>4
<1>6. Recorded = {}
  BY <1>4 DEF Init, Recorded, Episodes
<1>7. InHand = {} /\ Waiting = {} /\ dropped = {}
  BY DEF Init, InHand, Waiting, Idle
<1> QED
  BY <1>2, <1>3, <1>5, <1>6, <1>7 DEF Placement, Placed, Apart
-----------------------------------------------------------------------------
(* The lifespan moves no episode.                                             *)

LEMMA LifespanPlacement ==
    ASSUME Placement, Lifespan
    PROVE  Placement'
<1> USE DEF Placement
<1>1. UNCHANGED <<recorded, recorder, held, table, dropped>>
  BY DEF Lifespan, StartWithoutDatabase, Hydrate, StartThread, Stop, PutNone, Join, Manage
<1>2. QueueOK' /\ InQueue' = InQueue
  <2>1. CASE UNCHANGED queue
    BY <2>1, SameSequences
  <2>2. CASE PutNone
    <3>1. queue' = Append(queue, NoEpisode)
      BY <2>2 DEF PutNone
    <3>2. /\ Append(queue, NoEpisode) \in Seq(Entry) /\ NoRepeat(Append(queue, NoEpisode))
          /\ Entries(Append(queue, NoEpisode)) = Entries(queue) \cup {NoEpisode}
      <4>1. NoEpisode \in Entry
        BY DEF Entry
      <4> QED
        BY <4>1, PutEntry DEF QueueOK
    <3> QED
      BY <3>1, <3>2 DEF QueueOK, InQueue
  <2> QED
    BY <2>1, <2>2 DEF Lifespan, StartWithoutDatabase, Hydrate, StartThread, Stop, Join, Restart
<1>3. HistoryOK'
  <2>1. CASE UNCHANGED episodes
    BY <2>1, SameSequences
  <2>2. CASE Hydrate
    <3>1. episodes' = Newest(table, MaxEpisodes)
      BY <2>2 DEF Hydrate
    <3>2. table \in Seq(Episodes) /\ MaxEpisodes \in Nat \ {0}
      BY MemoryAssumption DEF TableOK
    <3> QED
      BY <3>1, <3>2, NewestType DEF HistoryOK
  <2> QED
    BY <2>1, <2>2 DEF Lifespan, StartWithoutDatabase, StartThread, Stop, PutNone, Join
<1>4. TableOK' /\ Placed'
  BY <1>1, <1>2, SameSequences, SameSets, SamePlaces
<1>5. StateOK' /\ ThreadsOK'
  <2> USE DEF StateOK, ThreadsOK, Manage, Restart, threadVars
  <2>1. CASE StartWithoutDatabase \/ Hydrate
    <3>1. /\ starts < MaxStarts /\ starts' = starts + 1 /\ restoredAt' = recorded
          /\ UNCHANGED <<running, newest, writer, gaveUp>> /\ available' \in BOOLEAN
          /\ lifespan' \in {"up", "start"}
      BY <2>1 DEF StartWithoutDatabase, Hydrate
    <3>2. starts' \in 0..MaxStarts /\ starts' \in Threads /\ starts' > starts
      <4>1. MaxStarts \in Nat
        BY MemoryAssumption
      <4> QED
        BY <3>1, <4>1 DEF Threads
    <3>3. writer[starts'] = "none"
      BY <3>2
    <3>4. \A t \in Threads : t > starts' => t > starts
      BY <3>1 DEF Threads
    <3> QED
      BY <1>1, <3>1, <3>2, <3>3, <3>4
  <2>2. CASE StartThread
    BY <1>1, <2>2 DEF StartThread
  <2>3. CASE Stop \/ PutNone \/ Join
    BY <1>1, <2>3 DEF Stop, PutNone, Join
  <2> QED
    BY <2>1, <2>2, <2>3 DEF Lifespan
<1> QED
  BY <1>2, <1>3, <1>4, <1>5
-----------------------------------------------------------------------------
(* A recorder appends an episode and puts it in the queue.                    *)

LEMMA RecordPlacement ==
    ASSUME Placement, NEW r \in Recorders, Record(r)
    PROVE  Placement'
<1> DEFINE new == <<r, recorded[r] + 1>>
<1> USE DEF Placement
<1>1. /\ recorder[r] = "idle" /\ recorded[r] < MaxRecorded
      /\ recorded' = [recorded EXCEPT ![r] = @ + 1]
      /\ recorder' = [recorder EXCEPT ![r] = "put"]
      /\ UNCHANGED <<queue, available, threadVars, held, table, dropped>>
      /\ UNCHANGED <<lifespan, restoredAt, gaveUp>>
  BY DEF Record
<1>2. /\ recorded' \in [Recorders -> 0..MaxRecorded]
      /\ new \in Episodes /\ new \notin Recorded
      /\ Recorded' = Recorded \cup {new}
      /\ Pending(r)' = new
      /\ \A q \in Recorders \ {r} : Pending(q)' = Pending(q)
  BY <1>1, RecordFacts DEF StateOK
<1>3. Waiting' = Waiting \cup {new}
  <2>1. Waiting' = {Pending(q)' : q \in {q \in Recorders : recorder'[q] = "put"}}
    BY DEF Waiting
  <2>2. {q \in Recorders : recorder'[q] = "put"}
            = {q \in Recorders : recorder[q] = "put"} \cup {r}
    BY <1>1 DEF StateOK
  <2>3. r \notin {q \in Recorders : recorder[q] = "put"}
    BY <1>1
  <2> HIDE DEF new
  <2> QED
    BY <1>2, <2>1, <2>2, <2>3 DEF Waiting
<1>4. /\ QueueOK' /\ InQueue' = InQueue /\ TableOK' /\ Saved' = Saved /\ InHand' = InHand
  BY <1>1, SameSequences, SameSets
<1>5. HistoryOK'
  <2>1. episodes' = Newest(Append(episodes, new), MaxEpisodes)
    BY DEF Record, Remember
  <2>2. Append(episodes, new) \in Seq(Episodes) /\ MaxEpisodes \in Nat \ {0}
    <3> HIDE DEF new
    <3> QED
      BY <1>2, AppendProperties, MemoryAssumption DEF HistoryOK
  <2> HIDE DEF new
  <2> QED
    BY <2>1, <2>2, NewestType DEF HistoryOK
<1>6. StateOK'
  BY <1>1, <1>2 DEF StateOK, threadVars
<1>7. ThreadsOK'
  BY <1>1, MemoryAssumption DEF StateOK, ThreadsOK, threadVars
<1>8. Placed'
  <2> HIDE DEF new
  <2> QED
    BY <1>1, <1>2, <1>3, <1>4 DEF Placed, Apart
<1> QED
  BY <1>4, <1>5, <1>6, <1>7, <1>8

\* An episode that a recorder holds becomes an entry of the queue, or is dropped.
LEMMA EnqueuePlacement ==
    ASSUME Placement, NEW r \in Recorders, Enqueue(r)
    PROVE  Placement'
<1> DEFINE e == Pending(r)
<1> USE DEF Placement
<1>1. /\ recorder[r] = "put" /\ recorder' = [recorder EXCEPT ![r] = "idle"]
      /\ UNCHANGED <<episodes, available, threadVars, held, table, recorded>>
      /\ UNCHANGED <<lifespan, restoredAt, gaveUp>>
  BY DEF Enqueue
<1>2. \/ queue' = Append(queue, e) /\ dropped' = dropped
      \/ queue' = queue /\ dropped' = dropped \cup {e}
  BY DEF Enqueue
<1>3. e \in Recorded /\ \A q \in Recorders : Pending(q) = e => q = r
  BY <1>1, PendingFacts DEF StateOK, ThreadsOK
<1>4. e \in Waiting /\ Waiting' = Waiting \ {e} /\ Recorded' = Recorded
  <2>1. e \in Waiting
    BY <1>1 DEF Waiting
  <2>2. Recorded' = Recorded /\ \A q \in Recorders : Pending(q)' = Pending(q)
    BY <1>1 DEF Recorded, Episodes, Pending
  <2>3. {q \in Recorders : recorder'[q] = "put"}
            = {q \in Recorders : recorder[q] = "put"} \ {r}
    BY <1>1 DEF StateOK
  <2>4. Waiting' = {Pending(q)' : q \in {q \in Recorders : recorder'[q] = "put"}}
    BY DEF Waiting
  <2> HIDE DEF e
  <2> QED
    BY <1>3, <2>1, <2>2, <2>3, <2>4 DEF Waiting, e
<1>5. e \in Episodes /\ e # NoEpisode
  BY <1>3, NoneIsNoEpisode DEF Recorded
<1>6. TableOK' /\ Saved' = Saved /\ HistoryOK' /\ InHand' = InHand
  BY <1>1, SameSequences, SameSets
<1> HIDE DEF e
<1>7. /\ QueueOK'
      /\ \/ InQueue' = InQueue \cup {e} /\ dropped' = dropped
         \/ InQueue' = InQueue /\ dropped' = dropped \cup {e}
  <2>1. CASE queue' = queue /\ dropped' = dropped \cup {e}
    BY <2>1, SameSequences
  <2>2. CASE queue' = Append(queue, e) /\ dropped' = dropped
    <3>1. e \notin Entries(queue) /\ e \in Entry
      BY <1>4, <1>5 DEF Placed, Apart, InQueue, Entry
    <3>2. /\ Append(queue, e) \in Seq(Entry) /\ NoRepeat(Append(queue, e))
          /\ Entries(Append(queue, e)) = Entries(queue) \cup {e}
      BY <3>1, PutEntry DEF QueueOK
    <3> QED
      BY <1>5, <2>2, <3>2 DEF QueueOK, InQueue
  <2> QED
    BY <1>2, <2>1, <2>2
<1>8. StateOK'
  BY <1>1, <1>5, <1>7 DEF StateOK, threadVars
<1>9. ThreadsOK'
  BY <1>1 DEF StateOK, ThreadsOK, threadVars
<1>10. Placed'
  BY <1>4, <1>6, <1>7 DEF Placed, Apart
<1> QED
  BY <1>6, <1>7, <1>8, <1>9, <1>10
-----------------------------------------------------------------------------
(* A thread takes episodes to the table.                                      *)

LEMMA TakeNonePlacement ==
    ASSUME Placement, NEW t \in Threads, CheckRunning(t) \/ TakeNone(t)
    PROVE  Placement'
<1> USE DEF Placement
<1>1. /\ writer[t] \in {"loop", "get"} /\ \E to \in {"get", "loop", "exited"} :
                                              writer' = [writer EXCEPT ![t] = to]
      /\ UNCHANGED <<memoryVars, available, running, newest, lifespan, starts, restoredAt, gaveUp>>
      /\ UNCHANGED <<held, table, dropped>>
  BY DEF CheckRunning, TakeNone, Work
<1>2. QueueOK' /\ InQueue' = InQueue
  <2>1. CASE CheckRunning(t)
    BY <2>1, SameSequences DEF CheckRunning
  <2>2. CASE TakeNone(t)
    <3>1. queue # <<>> /\ Head(queue) = NoEpisode /\ queue' = Tail(queue)
      BY <2>2 DEF TakeNone
    <3>2. /\ Tail(queue) \in Seq(Entry) /\ NoRepeat(Tail(queue))
          /\ Entries(Tail(queue)) \ {NoEpisode} = (Entries(queue) \ {NoEpisode}) \ {Head(queue)}
      BY <3>1, TakeEntry DEF QueueOK
    <3> QED
      BY <3>1, <3>2 DEF QueueOK, InQueue
  <2> QED
    BY <2>1, <2>2
<1>3. TableOK' /\ HistoryOK' /\ Placed'
  BY <1>1, <1>2, SameSequences, SameSets, SamePlaces DEF memoryVars
<1>4. writer[t] # "none" /\ held[t] = NoEpisode
  BY <1>1 DEF ThreadsOK
<1>5. StateOK' /\ ThreadsOK'
  BY <1>1, <1>4 DEF StateOK, ThreadsOK, memoryVars
<1> QED
  BY <1>2, <1>3, <1>5

LEMMA TakePlacement ==
    ASSUME Placement, NEW t \in Threads, Take(t)
    PROVE  Placement'
<1> USE DEF Placement
<1>1. PICK e : e = Head(queue)
  OBVIOUS
<1>2. queue # <<>> /\ e # NoEpisode /\ queue' = Tail(queue)
  BY <1>1 DEF Take
<1>3. /\ writer[t] = "get" /\ writer' = [writer EXCEPT ![t] = "commit"]
      /\ held' = [held EXCEPT ![t] = e]
      /\ UNCHANGED <<memoryVars, available, running, newest, lifespan, starts, restoredAt, gaveUp>>
      /\ UNCHANGED <<table, dropped>>
  BY <1>1 DEF Take, Work
<1>4. QueueOK' /\ e \in InQueue /\ InQueue' = InQueue \ {e}
  <2>1. /\ Tail(queue) \in Seq(Entry) /\ NoRepeat(Tail(queue)) /\ Head(queue) \in Entries(queue)
        /\ Entries(Tail(queue)) \ {NoEpisode} = (Entries(queue) \ {NoEpisode}) \ {Head(queue)}
    BY <1>2, TakeEntry DEF QueueOK
  <2> QED
    BY <1>1, <1>2, <2>1 DEF QueueOK, InQueue
<1>5. e \in Episodes /\ e \notin InHand
  BY <1>4 DEF Placed, Apart, Recorded
<1>6. held[t] = NoEpisode
  BY <1>3 DEF ThreadsOK
<1>7. InHand' = InHand \cup {e}
  BY <1>2, <1>3, <1>6 DEF StateOK, InHand
<1>8. TableOK' /\ Saved' = Saved /\ HistoryOK' /\ Waiting' = Waiting /\ Recorded' = Recorded
  BY <1>3, SameSequences, SameSets DEF memoryVars
<1>9. Placed'
  BY <1>3, <1>4, <1>7, <1>8 DEF Placed, Apart
<1>10. StateOK'
  BY <1>3, <1>5 DEF StateOK, memoryVars, Entry
<1>11. ThreadsOK'
  BY <1>2, <1>3, <1>5, <1>6 DEF StateOK, ThreadsOK, memoryVars, InHand
<1> QED
  BY <1>4, <1>8, <1>9, <1>10, <1>11

\* The episode is a row, or the database refused it; the thread holds none.
LEMMA CommitPlacement ==
    ASSUME Placement, NEW t \in Threads, Commit(t) \/ Rollback(t)
    PROVE  Placement'
<1> DEFINE e == held[t]
<1> USE DEF Placement
<1>1. /\ writer[t] = "commit" /\ writer' = [writer EXCEPT ![t] = "loop"]
      /\ held' = [held EXCEPT ![t] = NoEpisode]
      /\ UNCHANGED <<memoryVars, available, running, newest, lifespan, starts, restoredAt, gaveUp>>
      /\ UNCHANGED queue
  BY DEF Commit, Rollback, Work, Release
<1>2. e # NoEpisode /\ e \in InHand /\ e \in Episodes
  BY <1>1 DEF StateOK, ThreadsOK, InHand, Entry
<1>3. InHand' = InHand \ {e}
  BY <1>1, <1>2 DEF StateOK, ThreadsOK, InHand
<1>4. QueueOK' /\ InQueue' = InQueue /\ HistoryOK' /\ Waiting' = Waiting /\ Recorded' = Recorded
  BY <1>1, SameSequences, SameSets DEF memoryVars
<1>5. /\ TableOK'
      /\ \/ Saved' = Saved \cup {e} /\ dropped' = dropped
         \/ Saved' = Saved /\ dropped' = dropped \cup {e}
  <2>1. CASE Rollback(t)
    BY <2>1, SameSequences DEF Rollback
  <2>2. CASE Commit(t)
    <3>1. table' = Append(table, e) /\ dropped' = dropped
      BY <2>2 DEF Commit
    <3>2. e \notin Entries(table)
      BY <1>2 DEF Placed, Apart, Saved
    <3> HIDE DEF e
    <3>3. /\ Append(table, e) \in Seq(Episodes) /\ NoRepeat(Append(table, e))
          /\ Entries(Append(table, e)) = Entries(table) \cup {e}
      BY <1>2, <3>2, PutEntry DEF TableOK
    <3> QED
      BY <3>1, <3>3 DEF TableOK, Saved
  <2> QED
    BY <2>1, <2>2
<1>6. StateOK'
  BY <1>1, <1>2, <1>5 DEF StateOK, memoryVars, Entry
<1>7. ThreadsOK'
  BY <1>1 DEF StateOK, ThreadsOK, memoryVars
<1>8. Placed'
  <2> HIDE DEF e
  <2> QED
    BY <1>2, <1>3, <1>4, <1>5 DEF Placed, Apart
<1> QED
  BY <1>4, <1>5, <1>6, <1>7, <1>8

\* The process dies: what is on its way is dropped, the table stays.
LEMMA CrashPlacement ==
    ASSUME Placement, Crash
    PROVE  Placement'
<1> USE DEF Placement
<1>1. /\ episodes' = <<>> /\ queue' = <<>> /\ newest' = {}
      /\ available' = FALSE /\ running' = FALSE
      /\ dropped' = dropped \cup Unsaved
      /\ writer' = [t \in Threads |-> IF t <= starts THEN "exited" ELSE "none"]
      /\ held' = [t \in Threads |-> NoEpisode]
      /\ recorder' = Idle /\ lifespan' = "down"
      /\ UNCHANGED <<table, recorded, starts, restoredAt, gaveUp>>
  BY DEF Crash
<1>2. QueueOK' /\ HistoryOK' /\ InQueue' = {}
  <2>1. Len(<<>>) = 0 /\ 0 <= MaxEpisodes
    BY MemoryAssumption
  <2> QED
    BY <1>1, <2>1, EmptySequence DEF QueueOK, HistoryOK, InQueue
<1>3. TableOK' /\ Saved' = Saved
  BY <1>1, SameSequences
<1>4. Unsaved = InQueue \cup InHand \cup Waiting
  <2>1. {held[t] : t \in Alive} \ {NoEpisode} = InHand
    BY DEF InHand, Alive, ThreadsOK
  <2> QED
    BY <2>1 DEF Unsaved, InQueue, Waiting
<1>5. InHand' = {} /\ Waiting' = {} /\ Recorded' = Recorded
  BY <1>1 DEF InHand, Waiting, Recorded, Episodes, Idle
<1>6. dropped' \subseteq Episodes
  BY <1>1, <1>4 DEF Placed, Recorded
<1>7. StateOK'
  <2>1. /\ writer' \in [Threads -> {"none", "loop", "get", "commit", "exited"}]
        /\ held' \in [Threads -> Entry] /\ recorder' \in [Recorders -> {"idle", "put"}]
    BY <1>1 DEF Entry, Idle
  <2>2. /\ newest' = {} /\ available' = FALSE /\ running' = FALSE /\ lifespan' = "down"
        /\ UNCHANGED <<recorded, starts, restoredAt, gaveUp>>
    BY <1>1
  <2> QED
    BY <1>6, <2>1, <2>2 DEF StateOK
<1>8. ThreadsOK'
  <2>1. /\ writer' = [t \in Threads |-> IF t <= starts THEN "exited" ELSE "none"]
        /\ held' = [t \in Threads |-> NoEpisode] /\ recorder' = [r \in Recorders |-> "idle"]
        /\ lifespan' = "down" /\ starts' = starts /\ starts \in 0..MaxStarts
    BY <1>1 DEF Idle, StateOK
  <2>2. \A t \in Threads : t > starts => ~ (t <= starts)
    BY <2>1, MemoryAssumption DEF Threads
  <2> QED
    BY <2>1, <2>2 DEF ThreadsOK
<1>9. Placed'
  BY <1>1, <1>2, <1>3, <1>4, <1>5 DEF Placed, Apart
<1> QED
  BY <1>2, <1>3, <1>7, <1>8, <1>9

LEMMA NextPlacement == Placement /\ [Next]_vars => Placement'
<1> SUFFICES ASSUME Placement, [Next]_vars PROVE Placement'
  OBVIOUS
<1>1. ASSUME NEW t \in Threads, Writer(t) PROVE Placement'
  BY <1>1, TakeNonePlacement, TakePlacement, CommitPlacement DEF Writer
<1>2. CASE UNCHANGED vars
  <2> USE DEF Placement
  <2>1. QueueOK' /\ TableOK' /\ HistoryOK' /\ Placed'
    BY <1>2, SameSequences, SameSets, SamePlaces DEF vars
  <2>2. StateOK' /\ ThreadsOK'
    BY <1>2 DEF vars, StateOK, ThreadsOK
  <2> QED
    BY <2>1, <2>2
<1> QED
  BY <1>1, <1>2, RecordPlacement, EnqueuePlacement, LifespanPlacement, CrashPlacement DEF Next

LEMMA PlacementIsInvariant == Spec => []Placement
  BY InitPlacement, NextPlacement, PTL DEF Spec

\* Whatever stops, restarts and crashes there are, every variable of the store keeps
\* its type, and the history never exceeds its limit (automation_memory.py 102-106).
THEOREM TypeCorrect == Spec => []TypeOK
<1>1. Placement => TypeOK
  BY TypeParts DEF Placement
<1> QED
  BY <1>1, PlacementIsInvariant, PTL
-----------------------------------------------------------------------------
(* Each recorded episode is in one place.                                     *)

LEMMA AtEntry ==
    ASSUME NEW S, NEW s \in Seq(S), NoRepeat(s), NEW e, e # NoEpisode
    PROVE  /\ e \in Entries(s) => \E i : At(s, e) = {i}
           /\ e \notin Entries(s) => At(s, e) = {}
<1>1. ASSUME e \in Entries(s) PROVE \E i : At(s, e) = {i}
  <2>1. PICK i \in 1..Len(s) : s[i] = e
    BY <1>1 DEF Entries
  <2>2. \A k \in 1..Len(s) : s[k] = e => k = i
    BY <2>1 DEF NoRepeat
  <2>3. At(s, e) = {i}
    BY <2>1, <2>2 DEF At
  <2> QED
    BY <2>3
<1>2. e \notin Entries(s) => At(s, e) = {}
  BY DEF Entries, At
<1> QED
  BY <1>1, <1>2

LEMMA Products ==
    /\ \A n, x : {n} \X {x} = {<<n, x>>}
    /\ \A n : {n} \X {} = {}
  OBVIOUS

LEMMA PlacedOnce == Placement => EachEpisodeOnce
<1> SUFFICES ASSUME Placement, NEW e \in Episodes
             PROVE  IF e \in Recorded THEN \E p \in Places(e) : Places(e) = {p}
                                      ELSE Places(e) = {}
  BY DEF EachEpisodeOnce
<1> DEFINE A == At(queue, e)
           B == At(table, e)
           C == {t \in Alive : held[t] = e}
           D == {r \in Recorders : recorder[r] = "put" /\ Pending(r) = e}
           E == {e} \cap dropped
<1>1. e # NoEpisode
  BY NoneIsNoEpisode
<1>2. IF e \in InQueue THEN \E x : A = {x} ELSE A = {}
  BY <1>1, AtEntry DEF Placement, QueueOK, InQueue
<1>3. IF e \in Saved THEN \E x : B = {x} ELSE B = {}
  BY <1>1, AtEntry DEF Placement, TableOK, Saved
<1>4. IF e \in InHand THEN \E x : C = {x} ELSE C = {}
  <2>1. C = {t \in Threads : held[t] = e}
    BY <1>1 DEF Placement, ThreadsOK, Alive
  <2>2. CASE e \in InHand
    <3>1. PICK t \in Threads : held[t] = e
      BY <2>2 DEF InHand
    <3>2. C = {t}
      BY <1>1, <2>1, <3>1 DEF Placement, ThreadsOK
    <3> QED
      BY <2>2, <3>2
  <2>3. CASE e \notin InHand
    BY <1>1, <2>1, <2>3 DEF InHand
  <2> QED
    BY <2>2, <2>3
<1>5. IF e \in Waiting THEN \E x : D = {x} ELSE D = {}
  <2>1. CASE e \in Waiting
    <3>1. PICK r \in Recorders : recorder[r] = "put" /\ Pending(r) = e
      BY <2>1 DEF Waiting
    <3>2. \A q \in Recorders : Pending(q) = e => q = r
      BY <3>1, PendingFacts DEF Placement, StateOK, ThreadsOK
    <3>3. D = {r}
      BY <3>1, <3>2
    <3> QED
      BY <2>1, <3>3
  <2>2. CASE e \notin Waiting
    BY <2>2 DEF Waiting
  <2> QED
    BY <2>1, <2>2
<1>6. IF e \in dropped THEN \E x : E = {x} ELSE E = {}
  OBVIOUS
<1>7. Places(e) = ({"queue"} \X A) \cup ({"table"} \X B) \cup ({"thread"} \X C)
                      \cup ({"recorder"} \X D) \cup ({"dropped"} \X E)
  BY DEF Places
<1> HIDE DEF A, B, C, D, E
<1>8. CASE e \in Recorded
  <2>1. ASSUME e \in InQueue PROVE \E p : Places(e) = {p}
    <3>1. PICK x : A = {x}
      BY <1>2, <2>1
    <3>2. B = {} /\ C = {} /\ D = {} /\ E = {}
      BY <1>2, <1>3, <1>4, <1>5, <1>6, <2>1 DEF Placement, Placed, Apart
    <3>3. Places(e) = {<<"queue", x>>}
      BY <1>7, <3>1, <3>2, Products
    <3> QED
      BY <3>3
  <2>2. ASSUME e \in Saved PROVE \E p : Places(e) = {p}
    <3>1. PICK x : B = {x}
      BY <1>3, <2>2
    <3>2. A = {} /\ C = {} /\ D = {} /\ E = {}
      BY <1>2, <1>3, <1>4, <1>5, <1>6, <2>2 DEF Placement, Placed, Apart
    <3>3. Places(e) = {<<"table", x>>}
      BY <1>7, <3>1, <3>2, Products
    <3> QED
      BY <3>3
  <2>3. ASSUME e \in InHand PROVE \E p : Places(e) = {p}
    <3>1. PICK x : C = {x}
      BY <1>4, <2>3
    <3>2. A = {} /\ B = {} /\ D = {} /\ E = {}
      BY <1>2, <1>3, <1>4, <1>5, <1>6, <2>3 DEF Placement, Placed, Apart
    <3>3. Places(e) = {<<"thread", x>>}
      BY <1>7, <3>1, <3>2, Products
    <3> QED
      BY <3>3
  <2>4. ASSUME e \in Waiting PROVE \E p : Places(e) = {p}
    <3>1. PICK x : D = {x}
      BY <1>5, <2>4
    <3>2. A = {} /\ B = {} /\ C = {} /\ E = {}
      BY <1>2, <1>3, <1>4, <1>5, <1>6, <2>4 DEF Placement, Placed, Apart
    <3>3. Places(e) = {<<"recorder", x>>}
      BY <1>7, <3>1, <3>2, Products
    <3> QED
      BY <3>3
  <2>5. ASSUME e \in dropped PROVE \E p : Places(e) = {p}
    <3>1. PICK x : E = {x}
      BY <1>6, <2>5
    <3>2. A = {} /\ B = {} /\ C = {} /\ D = {}
      BY <1>2, <1>3, <1>4, <1>5, <1>6, <2>5 DEF Placement, Placed, Apart
    <3>3. Places(e) = {<<"dropped", x>>}
      BY <1>7, <3>1, <3>2, Products
    <3> QED
      BY <3>3
  <2>6. \E p : Places(e) = {p}
    BY <1>8, <2>1, <2>2, <2>3, <2>4, <2>5 DEF Placement, Placed
  <2> QED
    BY <1>8, <2>6
<1>9. CASE e \notin Recorded
  <2>1. A = {} /\ B = {} /\ C = {} /\ D = {} /\ E = {}
    BY <1>2, <1>3, <1>4, <1>5, <1>6, <1>9 DEF Placement, Placed
  <2> QED
    BY <1>7, <1>9, <2>1
<1> QED
  BY <1>8, <1>9

\* Every recorded episode is on its way, in the table once, or dropped for a reason,
\* and nowhere else, for any number of recorders, starts, stops and crashes
\* (automation_memory.py 77-109).
THEOREM EpisodesAreInOnePlace == Spec => []EachEpisodeOnce
  BY PlacedOnce, PlacementIsInvariant, PTL
-----------------------------------------------------------------------------
(* The rows are in order.                                                     *)

\* Until a stop gives up, the only thread that lives is the one the store knows.
OneWriter ==
    /\ lifespan \in {"down", "start"} => newest = {}
    /\ ~gaveUp => Alive \subseteq newest

\* What is in the table comes before what a thread holds, and that before what is in
\* the queue.
InOrder ==
    /\ Ordered(table) /\ Ordered(queue)
    /\ \A e \in Saved, f \in InHand \cup InQueue : Precedes(e, f)
    /\ \A e \in InHand, f \in InQueue : Precedes(e, f)

Order == OneWriter /\ (~gaveUp => InOrder)

LEMMA SameOrder ==
    InOrder /\ UNCHANGED <<table, queue, InHand>> => InOrder'
  BY DEF InOrder, Ordered, Saved, InQueue, Entries

\* A thread that lives has no other thread beside it.
LEMMA AloneInHand ==
    ASSUME Placement, Order, ~gaveUp, NEW t \in Threads, t \in Alive
    PROVE  InHand \subseteq {held[t]}
<1>1. \A u \in Alive : u = t
  BY DEF Order, OneWriter, Placement, StateOK
<1>2. \A u \in Threads : held[u] # NoEpisode => u \in Alive
  BY DEF Placement, ThreadsOK, Alive
<1> QED
  BY <1>1, <1>2 DEF InHand

LEMMA InitOrder == Init => Order
<1> SUFFICES ASSUME Init PROVE Order
  OBVIOUS
<1>1. queue = <<>> /\ table = <<>>
  BY DEF Init
<1>2. Ordered(table) /\ Ordered(queue) /\ Saved = {} /\ InQueue = {}
  BY <1>1, EmptySequence DEF Saved, InQueue
<1>3. newest = {} /\ Alive = {}
  BY DEF Init, Alive
<1>4. InHand = {}
  BY DEF Init, InHand
<1> QED
  BY <1>2, <1>3, <1>4 DEF Order, OneWriter, InOrder

LEMMA LifespanOrder ==
    ASSUME Placement, Order, Lifespan
    PROVE  Order'
<1>1. UNCHANGED <<held, table>> /\ InHand' = InHand
  BY DEF Lifespan, StartWithoutDatabase, Hydrate, StartThread, Stop, PutNone, Join, Manage, InHand
<1>2. OneWriter'
  <2> USE DEF Order, OneWriter, Manage, Restart, threadVars, Alive
  <2>1. CASE StartWithoutDatabase \/ Hydrate
    BY <2>1 DEF StartWithoutDatabase, Hydrate
  <2>2. CASE StartThread
    <3>1. /\ lifespan = "start" /\ lifespan' = "up" /\ newest' = {starts} /\ gaveUp' = gaveUp
          /\ writer' = [writer EXCEPT ![starts] = "loop"] /\ newest = {}
      BY <2>2 DEF StartThread
    <3> QED
      BY <3>1 DEF Placement, StateOK
  <2>3. CASE Stop
    BY <2>3 DEF Stop
  <2>4. CASE PutNone
    BY <2>4 DEF PutNone
  <2>5. CASE Join
    BY <2>5 DEF Join
  <2> QED
    BY <2>1, <2>2, <2>3, <2>4, <2>5 DEF Lifespan
<1>3. ~gaveUp' => ~gaveUp
  BY DEF Lifespan, StartWithoutDatabase, Hydrate, StartThread, Stop, PutNone, Join, Restart,
         Placement, StateOK
<1>4. ASSUME InOrder PROVE InOrder'
  <2>1. CASE UNCHANGED queue
    BY <1>1, <1>4, <2>1, SameOrder
  <2>2. CASE PutNone
    <3>1. queue' = Append(queue, NoEpisode)
      BY <2>2 DEF PutNone
    <3>2. NoEpisode \in Entry /\ queue \in Seq(Entry) /\ NoRepeat(queue) /\ Ordered(queue)
      BY <1>4 DEF Entry, Placement, QueueOK, InOrder
    <3>3. Entries(Append(queue, NoEpisode)) = Entries(queue) \cup {NoEpisode}
      BY <3>2, PutEntry
    <3>4. Ordered(Append(queue, NoEpisode))
      BY <3>2, PutInOrder
    <3>5. Ordered(queue') /\ InQueue' = InQueue
      BY <3>1, <3>3, <3>4 DEF InQueue
    <3>6. Ordered(table') /\ Saved' = Saved
      BY <1>1, <1>4 DEF InOrder, Saved
    <3> QED
      BY <1>1, <1>4, <3>5, <3>6 DEF InOrder
  <2> QED
    BY <2>1, <2>2 DEF Lifespan, StartWithoutDatabase, Hydrate, StartThread, Stop, Join, Restart
<1> QED
  BY <1>2, <1>3, <1>4 DEF Order

LEMMA EnqueueOrder ==
    ASSUME Placement, Order, NEW r \in Recorders, Enqueue(r)
    PROVE  Order'
<1> DEFINE e == Pending(r)
<1>1. /\ recorder[r] = "put"
      /\ UNCHANGED <<writer, newest, lifespan, gaveUp, held, table>>
      /\ queue' = Append(queue, e) \/ queue' = queue
  BY DEF Enqueue, threadVars
<1>2. OneWriter'
  BY <1>1 DEF Order, OneWriter, Alive
<1>3. ASSUME InOrder PROVE InOrder'
  <2>1. InHand' = InHand /\ Saved' = Saved /\ Ordered(table')
    BY <1>1, <1>3 DEF InHand, Saved, InOrder
  <2>2. CASE queue' = queue
    BY <1>1, <1>3, <2>1, <2>2, SameOrder
  <2>3. CASE queue' = Append(queue, e)
    <3>1. e \in Waiting
      BY <1>1 DEF Waiting
    <3>2. \A f \in Recorded : f # e => Precedes(f, e)
      BY <1>1, PendingFacts DEF Placement, StateOK, ThreadsOK
    <3>3. e \in Entry /\ e \notin Entries(queue)
      BY <3>1, NoneIsNoEpisode
         DEF Placement, Placed, Apart, InQueue, Recorded, Entry
    <3> HIDE DEF e
    <3>4. \A f \in InQueue \cup InHand \cup Saved : Precedes(f, e)
      BY <3>1, <3>2 DEF Placement, Placed, Apart
    <3>5. queue \in Seq(Entry) /\ NoRepeat(queue) /\ Ordered(queue)
      BY <1>3 DEF Placement, QueueOK, InOrder
    <3>6. Entries(Append(queue, e)) = Entries(queue) \cup {e}
      BY <3>3, <3>5, PutEntry
    <3>7. \A y \in Entries(queue) \ {NoEpisode} : Precedes(y, e)
      BY <3>4 DEF InQueue
    <3>8. Ordered(Append(queue, e))
      BY <3>3, <3>5, <3>7, PutInOrder
    <3>9. Ordered(queue') /\ InQueue' \subseteq InQueue \cup {e}
      BY <2>3, <3>6, <3>8 DEF InQueue
    <3> QED
      BY <1>3, <2>1, <3>4, <3>9 DEF InOrder
  <2> QED
    BY <1>1, <2>2, <2>3
<1> QED
  BY <1>1, <1>2, <1>3 DEF Order

LEMMA WriterOrder ==
    ASSUME Placement, Order, NEW t \in Threads, Writer(t)
    PROVE  Order'
<1>1. /\ t \in Alive /\ Alive' \subseteq Alive
      /\ UNCHANGED <<newest, lifespan, gaveUp>>
  BY DEF Writer, CheckRunning, TakeNone, Take, Commit, Rollback, Work, Alive, Placement, StateOK
<1>2. OneWriter'
  BY <1>1 DEF Order, OneWriter
<1>3. ASSUME ~gaveUp PROVE InOrder'
  <2>1. InOrder /\ InHand \subseteq {held[t]}
    BY <1>1, <1>3, AloneInHand DEF Order
  <2>2. CASE CheckRunning(t)
    BY <2>1, <2>2, SameOrder, SameSets DEF CheckRunning
  <2>3. CASE TakeNone(t) \/ Take(t)
    <3>1. PICK e : e = Head(queue)
      OBVIOUS
    <3>2. /\ queue # <<>> /\ queue' = Tail(queue) /\ UNCHANGED table
          /\ \/ e = NoEpisode /\ held' = held
             \/ e # NoEpisode /\ held' = [held EXCEPT ![t] = e] /\ writer[t] = "get"
      BY <2>3, <3>1 DEF TakeNone, Take, Work
    <3>3. queue \in Seq(Entry) /\ NoRepeat(queue) /\ Ordered(queue)
      BY <2>1 DEF Placement, QueueOK, InOrder
    <3>4. /\ Head(queue) \in Entries(queue)
          /\ Entries(Tail(queue)) \ {NoEpisode} = (Entries(queue) \ {NoEpisode}) \ {Head(queue)}
      BY <3>2, <3>3, TakeEntry
    <3>5. /\ Ordered(Tail(queue))
          /\ Head(queue) # NoEpisode =>
               \A y \in Entries(Tail(queue)) \ {NoEpisode} : Precedes(Head(queue), y)
      BY <3>2, <3>3, TakeInOrder
    <3>6. /\ Ordered(queue') /\ InQueue' \subseteq InQueue
          /\ e # NoEpisode => e \in InQueue /\ \A y \in InQueue' : Precedes(e, y)
      BY <3>1, <3>2, <3>4, <3>5 DEF InQueue
    <3>7. Ordered(table') /\ Saved' = Saved
      BY <2>1, <3>2 DEF InOrder, Saved
    <3>8. CASE e = NoEpisode
      <4>1. InHand' = InHand
        BY <3>2, <3>8 DEF InHand
      <4> QED
        BY <2>1, <3>6, <3>7, <4>1 DEF InOrder
    <3>9. CASE e # NoEpisode
      <4>1. held[t] = NoEpisode /\ held' = [held EXCEPT ![t] = e]
        BY <3>2, <3>9 DEF Placement, ThreadsOK
      <4>2. InHand' \subseteq {e}
        BY <2>1, <4>1 DEF InHand, Placement, StateOK
      <4> QED
        BY <2>1, <3>6, <3>7, <3>9, <4>2 DEF InOrder
    <3> QED
      BY <3>8, <3>9
  <2>4. CASE Commit(t) \/ Rollback(t)
    <3> DEFINE e == held[t]
    <3>1. /\ writer[t] = "commit" /\ UNCHANGED queue
          /\ held' = [held EXCEPT ![t] = NoEpisode]
          /\ table' = Append(table, e) \/ table' = table
      BY <2>4 DEF Commit, Rollback, Work, Release
    <3>2. e # NoEpisode /\ e \in InHand
      BY <3>1 DEF Placement, ThreadsOK, InHand
    <3>3. InHand' = {}
      <4>1. \A u \in Threads : u # t => held[u] = NoEpisode
        BY <2>1, <3>2 DEF InHand, Placement, ThreadsOK
      <4>2. \A u \in Threads : held'[u] = NoEpisode
        BY <3>1, <4>1 DEF Placement, StateOK
      <4> QED
        BY <4>2 DEF InHand
    <3>4. Ordered(queue') /\ InQueue' = InQueue
      BY <2>1, <3>1 DEF InOrder, InQueue
    <3> HIDE DEF e
    <3>5. \A y \in Saved : Precedes(y, e)
      BY <2>1, <3>2 DEF InOrder
    <3>6. Ordered(table') /\ Saved' \subseteq Saved \cup {e}
      <4>1. CASE table' = table
        BY <2>1, <4>1 DEF InOrder, Saved
      <4>2. CASE table' = Append(table, e)
        <5>1. /\ table \in Seq(Episodes) /\ NoRepeat(table) /\ Ordered(table)
              /\ e \in Episodes /\ e \notin Entries(table)
          BY <2>1, <3>2 DEF Placement, TableOK, InOrder, Placed, Apart, Recorded, Saved
        <5>2. Entries(Append(table, e)) = Entries(table) \cup {e}
          BY <5>1, PutEntry
        <5>3. \A y \in Entries(table) \ {NoEpisode} : Precedes(y, e)
          BY <3>5 DEF Saved
        <5>4. Ordered(Append(table, e))
          BY <5>1, <5>3, PutInOrder
        <5> QED
          BY <4>2, <5>2, <5>4 DEF Saved
      <4> QED
        BY <3>1, <4>1, <4>2
    <3> QED
      BY <2>1, <3>2, <3>3, <3>4, <3>6 DEF InOrder
  <2> QED
    BY <2>2, <2>3, <2>4 DEF Writer
<1> QED
  BY <1>1, <1>2, <1>3 DEF Order

LEMMA CrashOrder ==
    ASSUME Placement, Order, Crash
    PROVE  Order'
<1>1. /\ queue' = <<>> /\ newest' = {} /\ UNCHANGED <<table, gaveUp>>
      /\ writer' = [t \in Threads |-> IF t <= starts THEN "exited" ELSE "none"]
      /\ held' = [t \in Threads |-> NoEpisode]
  BY DEF Crash
<1>2. OneWriter'
  <2>1. Alive' = {}
    BY <1>1 DEF Alive
  <2> QED
    BY <1>1, <2>1 DEF OneWriter
<1>3. InHand' = {}
  BY <1>1 DEF InHand
<1>4. Ordered(queue') /\ InQueue' = {}
  BY <1>1, EmptySequence DEF InQueue
<1>5. InOrder => Ordered(table')
  BY <1>1 DEF InOrder
<1> QED
  BY <1>1, <1>2, <1>3, <1>4, <1>5 DEF Order, InOrder

LEMMA NextOrder == Placement /\ Order /\ [Next]_vars => Order'
<1> SUFFICES ASSUME Placement, Order, [Next]_vars PROVE Order'
  OBVIOUS
<1>1. ASSUME NEW r \in Recorders, Record(r) PROVE Order'
  <2>1. UNCHANGED <<queue, held, table, writer, newest, lifespan, gaveUp>>
    BY <1>1 DEF Record, threadVars
  <2>2. OneWriter'
    BY <2>1 DEF Order, OneWriter, Alive
  <2> QED
    BY <2>1, <2>2, SameOrder, SameSets DEF Order
<1>2. CASE UNCHANGED vars
  <2>1. UNCHANGED <<queue, held, table, writer, newest, lifespan, gaveUp>>
    BY <1>2 DEF vars
  <2>2. OneWriter'
    BY <2>1 DEF Order, OneWriter, Alive
  <2> QED
    BY <2>1, <2>2, SameOrder, SameSets DEF Order
<1> QED
  BY <1>1, <1>2, EnqueueOrder, LifespanOrder, WriterOrder, CrashOrder DEF Next

\* As long as no stop gave up waiting for its thread, the rows of a recorder are in
\* the order in which it recorded them, whatever restarts, crashes and refused
\* commits there were (automation_memory.py 63-71, 102-108).
THEOREM RowsStayInOrder == Spec => []RowsInOrder
<1>1. Placement /\ Order => RowsInOrder
  <2> SUFFICES ASSUME Placement, Order, ~gaveUp, NEW i \in 1..Len(table), NEW k \in 1..Len(table),
                      i < k, table[i][1] = table[k][1]
               PROVE  table[i][2] < table[k][2]
    BY DEF RowsInOrder
  <2>1. table[i] # NoEpisode /\ table[k] # NoEpisode
    BY NoneIsNoEpisode DEF Placement, TableOK
  <2>2. Precedes(table[i], table[k])
    BY <2>1 DEF Order, InOrder, Ordered
  <2> QED
    BY <2>2 DEF Precedes
<1> QED
  BY <1>1, PlacementIsInvariant, InitOrder, NextOrder, PTL DEF Spec
-----------------------------------------------------------------------------
(* The history holds the newest episodes.                                     *)

Since == UNION {RecordedSince(r) : r \in Recorders}

\* An episode and what its recorder recorded after it.
Later(e) == {e[1]} \X (e[2] .. recorded[e[1]])

\* What was recorded since the start is at the end of the history, in order.
SinceIsLast(s) ==
    \A i, k \in 1..Len(s) :
        i < k /\ s[i] \in Since => s[k] \in Since /\ Precedes(s[i], s[k])

KeepsNewest(s) ==
    /\ SinceIsLast(s)
    /\ Since \subseteq Entries(s) \/ (Entries(s) \subseteq Since /\ Len(s) = MaxEpisodes)
    /\ \A e \in Since \cap Entries(s) : Later(e) \subseteq Entries(s)

History ==
    /\ \A r \in Recorders : restoredAt[r] <= recorded[r]
    /\ Entries(episodes) \subseteq Recorded
    /\ lifespan \in {"start", "up"} => KeepsNewest(episodes)

\* Of an episode and the later ones of its recorder.
LEMMA LaterFacts ==
    ASSUME recorded \in [Recorders -> 0..MaxRecorded],
           restoredAt \in [Recorders -> 0..MaxRecorded],
           NEW e \in Since, NEW f \in Later(e)
    PROVE  f \in Since /\ ~ Precedes(f, e)
<1>1. MaxRecorded \in Nat
  BY MemoryAssumption
<1>2. PICK r \in Recorders : e \in RecordedSince(r)
  BY DEF Since
<1>3. PICK k \in restoredAt[r] + 1 .. recorded[r] : e = <<r, k>>
  BY <1>2 DEF RecordedSince
<1>4. PICK l \in k .. recorded[r] : f = <<r, l>>
  BY <1>3 DEF Later
<1>5. restoredAt[r] \in Nat /\ recorded[r] \in Nat
  BY <1>1
<1>6. k \in Int /\ l \in Int /\ k <= l /\ l \in restoredAt[r] + 1 .. recorded[r]
  BY <1>5
<1>7. f \in Since
  BY <1>4, <1>6 DEF Since, RecordedSince
<1>8. ~ Precedes(f, e)
  BY <1>3, <1>4, <1>6 DEF Precedes
<1> QED
  BY <1>7, <1>8

LEMMA RecordSince ==
    ASSUME recorded \in [Recorders -> 0..MaxRecorded],
           restoredAt \in [Recorders -> 0..MaxRecorded], restoredAt' = restoredAt,
           NEW r \in Recorders, recorded' = [recorded EXCEPT ![r] = @ + 1],
           NEW x, x = <<r, recorded[r] + 1>>
    PROVE  /\ Since' \subseteq Since \cup {x}
           /\ Since \subseteq Since'
           /\ restoredAt[r] <= recorded[r] => x \in Since'
           /\ \A e \in Recorded : Later(e)' \subseteq Later(e) \cup {x}
           /\ Later(x)' \subseteq {x}
           /\ \A e \in Since : Precedes(e, x)
<1>1. MaxRecorded \in Nat
  BY MemoryAssumption
<1>2. \A q \in Recorders : recorded[q] \in Nat /\ restoredAt[q] \in Nat
  BY <1>1
<1>3. recorded'[r] = recorded[r] + 1 /\ \A q \in Recorders \ {r} : recorded'[q] = recorded[q]
  OBVIOUS
<1>4. Since' = UNION {{q} \X (restoredAt[q] + 1 .. recorded'[q]) : q \in Recorders}
  BY DEF Since, RecordedSince
<1>5. Since' \subseteq Since \cup {x} /\ Since \subseteq Since'
  <2>1. \A q \in Recorders : \A k \in restoredAt[q] + 1 .. recorded'[q] :
          k \in restoredAt[q] + 1 .. recorded[q] \/ (q = r /\ k = recorded[r] + 1)
    BY <1>2, <1>3
  <2>2. \A q \in Recorders : \A k \in restoredAt[q] + 1 .. recorded[q] :
          k \in restoredAt[q] + 1 .. recorded'[q]
    BY <1>2, <1>3
  <2>3. Since' \subseteq Since \cup {x}
    BY <1>4, <2>1 DEF Since, RecordedSince
  <2>4. Since \subseteq Since'
    BY <1>4, <2>2 DEF Since, RecordedSince
  <2> QED
    BY <2>3, <2>4
<1>6. ASSUME restoredAt[r] <= recorded[r] PROVE x \in Since'
  <2>1. recorded[r] + 1 \in restoredAt[r] + 1 .. recorded'[r]
    BY <1>2, <1>3, <1>6
  <2> QED
    BY <1>4, <2>1
<1>7. ASSUME NEW e \in Recorded PROVE Later(e)' \subseteq Later(e) \cup {x}
  <2>1. PICK q \in Recorders, k \in 1..MaxRecorded : e = <<q, k>>
    BY DEF Recorded, Episodes
  <2>2. Later(e)' = {q} \X (k .. recorded'[q]) /\ Later(e) = {q} \X (k .. recorded[q])
    BY <2>1 DEF Later
  <2>3. \A l \in k .. recorded'[q] :
          l \in k .. recorded[q] \/ (q = r /\ l = recorded[r] + 1)
    BY <1>1, <1>2, <1>3
  <2> QED
    BY <2>2, <2>3
<1>8. Later(x)' \subseteq {x}
  <2>1. Later(x)' = {r} \X (recorded[r] + 1 .. recorded[r] + 1)
    BY <1>3 DEF Later
  <2>2. \A l \in recorded[r] + 1 .. recorded[r] + 1 : l = recorded[r] + 1
    BY <1>2
  <2> QED
    BY <2>1, <2>2
<1>9. ASSUME NEW e \in Since PROVE Precedes(e, x)
  <2>1. PICK q \in Recorders : e \in RecordedSince(q)
    BY <1>9 DEF Since
  <2>2. PICK k \in restoredAt[q] + 1 .. recorded[q] : e = <<q, k>>
    BY <2>1 DEF RecordedSince
  <2>3. k \in Int /\ k <= recorded[q]
    BY <1>2
  <2> QED
    BY <1>2, <2>2, <2>3 DEF Precedes
<1> QED
  BY <1>5, <1>6, <1>7, <1>8, <1>9

\* Where the entries of the history go when one is remembered: the oldest is given
\* up only by a full history.
LEMMA RememberEntries ==
    ASSUME NEW s \in Seq(Episodes), Len(s) <= MaxEpisodes, NEW x \in Episodes,
           NEW r, r = Remember(s, x)
    PROVE  \E d \in {0, 1} :
             /\ Len(r) = Len(s) + 1 - d /\ r[Len(r)] = x
             /\ \A i \in 1..Len(s) - d : r[i] = s[i + d]
             /\ Len(s) = MaxEpisodes <=> d = 1
<1>1. MaxEpisodes \in Nat \ {0} /\ Len(s) \in Nat
  BY MemoryAssumption
<1>2. PICK a : a = Append(s, x)
  OBVIOUS
<1>3. /\ a \in Seq(Episodes) /\ Len(a) = Len(s) + 1
      /\ \A i \in 1..Len(s) : a[i] = s[i]
      /\ a[Len(s) + 1] = x
  BY <1>2, AppendProperties
<1>4. CASE Len(s) < MaxEpisodes
  <2>1. r = a
    BY <1>1, <1>2, <1>3, <1>4 DEF Remember, Newest
  <2>2. Len(r) = Len(s) + 1 - 0 /\ r[Len(r)] = x /\ Len(s) # MaxEpisodes
    BY <1>1, <1>3, <1>4, <2>1
  <2>3. \A i \in 1..Len(s) - 0 : r[i] = s[i + 0]
    BY <1>1, <1>3, <2>1
  <2> QED
    BY <2>2, <2>3
<1>5. CASE Len(s) = MaxEpisodes
  <2>1. r = SubSeq(a, 2, Len(a))
    BY <1>1, <1>2, <1>3, <1>5 DEF Remember, Newest
  <2>2. \A i \in 2..Len(a) : a[i] \in Episodes
    BY <1>1, <1>3
  <2>3. /\ Len(r) = Len(a) - 2 + 1
        /\ \A i \in 1..Len(a) - 2 + 1 : r[i] = a[2 + i - 1]
    BY <1>1, <1>3, <2>1, <2>2, SubSeqProperties
  <2>4. Len(r) = Len(s) /\ r[Len(r)] = x
    BY <1>1, <1>3, <1>5, <2>3
  <2>5. \A i \in 1..Len(s) - 1 : r[i] = s[i + 1]
    BY <1>1, <1>3, <2>3
  <2> QED
    BY <1>1, <1>5, <2>4, <2>5
<1> QED
  BY <1>1, <1>4, <1>5

LEMMA RememberKeeps ==
    ASSUME NEW s \in Seq(Episodes), Len(s) <= MaxEpisodes, KeepsNewest(s),
           NEW x \in Episodes, x \notin Entries(s), NEW r, r = Remember(s, x),
           Entries(s) \subseteq Recorded, Since' = Since \cup {x},
           \A e \in Recorded : Later(e)' \subseteq Later(e) \cup {x},
           Later(x)' \subseteq {x}, \A e \in Since : Precedes(e, x),
           \A e \in Since : \A f \in Later(e) : f \in Since /\ ~ Precedes(f, e)
    PROVE  Entries(r) \subseteq Entries(s) \cup {x} /\ KeepsNewest(r)'
<1>1. Len(s) \in Nat /\ MaxEpisodes \in Nat \ {0}
  BY MemoryAssumption
<1>2. PICK d \in {0, 1} :
        /\ Len(r) = Len(s) + 1 - d /\ r[Len(r)] = x
        /\ \A i \in 1..Len(s) - d : r[i] = s[i + d]
        /\ Len(s) = MaxEpisodes <=> d = 1
  BY RememberEntries
<1>3. /\ Len(r) \in 1..MaxEpisodes
      /\ \A i \in 1..Len(r) : i = Len(r) \/ i \in 1..Len(s) - d
      /\ \A i \in 1..Len(s) - d : i + d \in 1..Len(s) /\ i # Len(r) /\ i \in 1..Len(r)
  BY <1>1, <1>2
<1>4. /\ x \in Entries(r)
      /\ \A i \in 1..Len(s) - d : s[i + d] \in Entries(r)
      /\ \A k \in 1..Len(s) : s[k] \in Entries(r) \/ (k = 1 /\ d = 1)
  <2>1. \A k \in 1..Len(s) : k - d \in 1..Len(s) - d \/ (k = 1 /\ d = 1)
    BY <1>1, <1>2
  <2>2. x \in Entries(r)
    <3>1. Len(r) \in 1..Len(r)
      BY <1>1, <1>3
    <3> QED
      BY <1>2, <3>1 DEF Entries
  <2>4. ASSUME NEW i \in 1..Len(s) - d PROVE s[i + d] \in Entries(r)
    BY <1>2, <1>3 DEF Entries
  <2>3. \A k \in 1..Len(s) : (k - d) + d = k
    BY <1>1, <1>2
  <2> QED
    BY <2>1, <2>2, <2>3, <2>4
<1>5. Entries(r) \subseteq Entries(s) \cup {x}
  BY <1>2, <1>3 DEF Entries
<1>6. SinceIsLast(s)
  BY DEF KeepsNewest
<1>7. SinceIsLast(r)'
  <2> SUFFICES ASSUME NEW i \in 1..Len(r), NEW k \in 1..Len(r), i < k, r[i] \in Since'
               PROVE  r[k] \in Since' /\ Precedes(r[i], r[k])
    BY DEF SinceIsLast
  <2>1. i # Len(r) /\ i \in 1..Len(s) - d
    BY <1>1, <1>3
  <2>2. r[i] = s[i + d] /\ r[i] \in Entries(s) /\ r[i] \in Since
    BY <1>2, <1>3, <2>1 DEF Entries
  <2>3. CASE k = Len(r)
    BY <1>2, <2>2, <2>3
  <2>4. CASE k # Len(r)
    <3>1. k \in 1..Len(s) - d /\ r[k] = s[k + d]
      BY <1>2, <1>3, <2>4
    <3>2. i + d \in 1..Len(s) /\ k + d \in 1..Len(s) /\ i + d < k + d
      BY <1>2, <1>3, <2>1, <3>1
    <3> QED
      BY <1>6, <2>2, <3>1, <3>2 DEF SinceIsLast
  <2> QED
    BY <2>3, <2>4
<1>8. Since' \subseteq Entries(r) \/ (Entries(r) \subseteq Since' /\ Len(r) = MaxEpisodes)
  <2>1. CASE d = 0
    <3>1. Entries(s) \subseteq Entries(r)
      BY <1>4, <2>1 DEF Entries
    <3>2. Since \subseteq Entries(s)
          \/ (Entries(s) \subseteq Since /\ Len(r) = MaxEpisodes + 1)
      BY <1>2, <2>1 DEF KeepsNewest
    <3>3. Since \subseteq Entries(s)
      BY <1>1, <1>3, <3>2
    <3> QED
      BY <1>4, <3>1, <3>3
  <2>2. CASE d = 1 /\ s[1] \in Since
    <3>1. Len(r) = MaxEpisodes
      BY <1>1, <1>2, <2>2
    <3>2. \A k \in 1..Len(s) : s[k] \in Since
      BY <1>1, <1>6, <2>2 DEF SinceIsLast
    <3>3. Entries(s) \subseteq Since
      BY <3>2 DEF Entries
    <3> QED
      BY <1>5, <3>1, <3>3
  <2>3. CASE d = 1 /\ s[1] \notin Since
    <3>1. s[1] \in Entries(s)
      BY <1>1, <1>2, <2>3 DEF Entries
    <3>2. Since \subseteq Entries(s)
      BY <2>3, <3>1 DEF KeepsNewest
    <3>3. Entries(s) \ {s[1]} \subseteq Entries(r)
      BY <1>4 DEF Entries
    <3> QED
      BY <1>4, <2>3, <3>2, <3>3
  <2> QED
    BY <1>2, <2>1, <2>2, <2>3
<1>9. ASSUME NEW e \in Since' \cap Entries(r) PROVE Later(e)' \subseteq Entries(r)
  <2>1. CASE e = x
    BY <1>4, <2>1
  <2>2. CASE e # x
    <3>1. e \in Since /\ e \in Entries(s) /\ e \in Recorded
      BY <1>5, <1>9, <2>2
    <3>2. PICK i \in 1..Len(s) - d : e = s[i + d]
      BY <1>2, <1>3, <1>9, <2>2 DEF Entries
    <3>3. i + d \in 1..Len(s) /\ (d = 1 => 1 < i + d /\ 1 \in 1..Len(s))
      BY <1>1, <1>3, <3>2
    <3>4. ASSUME NEW f \in Later(e) PROVE f \in Entries(r)
      <4>1. f \in Since /\ ~ Precedes(f, e) /\ f \in Entries(s)
        BY <3>1, <3>4 DEF KeepsNewest
      <4>2. PICK k \in 1..Len(s) : f = s[k]
        BY <4>1 DEF Entries
      <4>3. ~ (k = 1 /\ d = 1)
        BY <1>6, <3>2, <3>3, <4>1, <4>2 DEF SinceIsLast
      <4> QED
        BY <1>4, <4>2, <4>3
    <3> QED
      BY <1>4, <3>1, <3>4
  <2> QED
    BY <2>1, <2>2
<1> QED
  BY <1>5, <1>7, <1>8, <1>9 DEF KeepsNewest

\* A start restores rows of the database; nothing was recorded since.
LEMMA RestoredHistory ==
    ASSUME StateOK, TableOK, Placed, NEW s,
           Entries(s) \subseteq Recorded \/ s = Newest(table, MaxEpisodes),
           UNCHANGED recorded, restoredAt' = recorded, episodes' = s
    PROVE  History'
<1>1. Recorded' = Recorded /\ Since' = {}
  <2>1. Recorded' = Recorded
    BY DEF Recorded
  <2>2. StateOK => Since' = {}
    <3> SUFFICES ASSUME StateOK PROVE Since' = {}
      OBVIOUS
    <3>1. MaxRecorded \in Nat
      BY MemoryAssumption
    <3>2. \A r \in Recorders : restoredAt'[r] \in Nat /\ restoredAt'[r] = recorded'[r]
      BY <3>1 DEF StateOK
    <3> QED
      BY <3>2 DEF Since, RecordedSince
  <2> QED
    BY <2>1, <2>2
<1>2. Entries(s) \subseteq Recorded
  <2>1. CASE s = Newest(table, MaxEpisodes)
    <3>1. Entries(Newest(table, MaxEpisodes)) \subseteq Saved
      <4>1. MaxEpisodes \in Nat \ {0} /\ table \in Seq(Episodes) /\ Len(table) \in Nat
        BY MemoryAssumption DEF TableOK
      <4>2. CASE Len(table) <= MaxEpisodes
        BY <4>2 DEF Newest, Saved
      <4>3. CASE ~ (Len(table) <= MaxEpisodes)
        <5> DEFINE from == Len(table) - MaxEpisodes + 1
        <5>1. from \in 1..Len(table) /\ Newest(table, MaxEpisodes) = SubSeq(table, from, Len(table))
          BY <4>1, <4>3 DEF Newest
        <5> HIDE DEF from
        <5>2. \A i \in from..Len(table) : table[i] \in Episodes
          BY <4>1, <5>1
        <5>3. /\ Len(SubSeq(table, from, Len(table))) = Len(table) - from + 1
              /\ \A i \in 1..Len(table) - from + 1 :
                   SubSeq(table, from, Len(table))[i] = table[from + i - 1]
          BY <4>1, <5>1, <5>2, SubSeqProperties
        <5>4. \A i \in 1..Len(table) - from + 1 : from + i - 1 \in 1..Len(table)
          BY <4>1, <5>1
        <5> QED
          BY <5>1, <5>3, <5>4 DEF Entries, Saved
      <4> QED
        BY <4>2, <4>3
    <3> QED
      BY <2>1, <3>1 DEF Placed
  <2> QED
    BY <2>1
<1>3. KeepsNewest(s)'
  BY <1>1 DEF KeepsNewest, SinceIsLast
<1>4. \A r \in Recorders : restoredAt'[r] <= recorded'[r]
  <2>1. MaxRecorded \in Nat
    BY MemoryAssumption
  <2> QED
    BY <2>1 DEF StateOK
<1>5. KeepsNewest(episodes)'
  BY <1>3 DEF KeepsNewest, SinceIsLast
<1> QED
  BY <1>1, <1>2, <1>4, <1>5 DEF History

LEMMA SameHistory ==
    ASSUME History, UNCHANGED <<episodes, recorded, restoredAt>>,
           lifespan' \in {"start", "up"} => lifespan \in {"start", "up"}
    PROVE  History'
<1>1. Recorded' = Recorded /\ Since' = Since /\ \A e : Later(e)' = Later(e)
  BY DEF Recorded, Since, RecordedSince, Later
<1>2. KeepsNewest(episodes) => KeepsNewest(episodes)'
  BY <1>1 DEF KeepsNewest, SinceIsLast
<1> QED
  BY <1>1, <1>2 DEF History

LEMMA InitHistory == Init => History
<1> SUFFICES ASSUME Init PROVE History
  OBVIOUS
<1>1. /\ Entries(episodes) = {} /\ lifespan = "down"
      /\ \A r \in Recorders : restoredAt[r] = 0 /\ recorded[r] = 0
  BY EmptySequence DEF Init
<1> QED
  BY <1>1 DEF History

LEMMA RecordHistory ==
    ASSUME Placement, History, NEW r \in Recorders, Record(r)
    PROVE  History'
<1>1. PICK x : x = <<r, recorded[r] + 1>>
  OBVIOUS
<1>2. /\ recorded[r] < MaxRecorded /\ recorded' = [recorded EXCEPT ![r] = @ + 1]
      /\ episodes' = Remember(episodes, x) /\ lifespan = "up"
      /\ UNCHANGED <<restoredAt, lifespan>>
  BY <1>1 DEF Record
<1>3. /\ recorded \in [Recorders -> 0..MaxRecorded]
      /\ restoredAt \in [Recorders -> 0..MaxRecorded]
      /\ episodes \in Seq(Episodes) /\ Len(episodes) <= MaxEpisodes
  BY DEF Placement, StateOK, HistoryOK
<1>4. x \in Episodes /\ x \notin Recorded /\ Recorded' = Recorded \cup {x}
  BY <1>1, <1>2, <1>3, RecordFacts
<1>5. /\ Entries(episodes) \subseteq Recorded /\ KeepsNewest(episodes)
      /\ \A q \in Recorders : restoredAt[q] <= recorded[q]
  BY <1>2 DEF History
<1>6. /\ Since' = Since \cup {x}
      /\ \A e \in Recorded : Later(e)' \subseteq Later(e) \cup {x}
      /\ Later(x)' \subseteq {x}
      /\ \A e \in Since : Precedes(e, x)
  <2>1. /\ Since' \subseteq Since \cup {x} /\ Since \subseteq Since'
        /\ restoredAt[r] <= recorded[r] => x \in Since'
        /\ \A e \in Recorded : Later(e)' \subseteq Later(e) \cup {x}
        /\ Later(x)' \subseteq {x}
        /\ \A e \in Since : Precedes(e, x)
    BY <1>1, <1>2, <1>3, RecordSince
  <2> QED
    BY <1>5, <2>1
<1>7. \A e \in Since : \A f \in Later(e) : f \in Since /\ ~ Precedes(f, e)
  BY <1>3, LaterFacts
<1>8. PICK s : s = episodes'
  OBVIOUS
<1>9. Entries(s) \subseteq Entries(episodes) \cup {x} /\ KeepsNewest(s)'
  BY <1>2, <1>3, <1>4, <1>5, <1>6, <1>7, <1>8, RememberKeeps
<1>10. KeepsNewest(episodes)' /\ Entries(episodes)' \subseteq Recorded'
  BY <1>4, <1>5, <1>8, <1>9 DEF KeepsNewest, SinceIsLast, Entries
<1>11. \A q \in Recorders : restoredAt'[q] <= recorded'[q]
  <2>1. MaxRecorded \in Nat
    BY MemoryAssumption
  <2> QED
    BY <1>2, <1>3, <1>5, <2>1
<1> QED
  BY <1>10, <1>11 DEF History

LEMMA NextHistory == Placement /\ History /\ [Next]_vars => History'
<1> SUFFICES ASSUME Placement, History, [Next]_vars PROVE History'
  OBVIOUS
<1>1. ASSUME NEW r \in Recorders, Enqueue(r) PROVE History'
  BY <1>1, SameHistory DEF Enqueue
<1>2. ASSUME NEW t \in Threads, Writer(t) PROVE History'
  BY <1>2, SameHistory
  DEF Writer, CheckRunning, TakeNone, Take, Commit, Rollback, Work, memoryVars
<1>3. CASE StartWithoutDatabase \/ Hydrate
  <2>1. /\ Entries(episodes') \subseteq Recorded \/ episodes' = Newest(table, MaxEpisodes)
        /\ UNCHANGED recorded /\ restoredAt' = recorded
    BY <1>3 DEF StartWithoutDatabase, Hydrate, Restart, Manage, History
  <2> QED
    BY <2>1, RestoredHistory DEF Placement
<1>4. CASE StartThread \/ Stop \/ PutNone \/ Join
  BY <1>4, SameHistory DEF StartThread, Stop, PutNone, Join, Manage
<1>5. CASE Crash
  <2>1. /\ Entries(episodes') = {} /\ lifespan' = "down"
        /\ UNCHANGED <<recorded, restoredAt>>
    BY <1>5, EmptySequence DEF Crash
  <2> QED
    BY <2>1 DEF History, Entries
<1>6. CASE UNCHANGED vars
  BY <1>6, SameHistory DEF vars
<1> QED
  BY <1>1, <1>2, <1>3, <1>4, <1>5, <1>6, RecordHistory DEF Next, Lifespan

\* The history never holds an older episode in place of a newer one: what was
\* recorded since the start is all there or fills the history, and of each recorder
\* the newest are kept, for any limit and any restarts (automation_memory.py 102-106,
\* 63-73).
THEOREM HistoryStaysNewest == Spec => []HistoryIsNewest
<1>1. History => HistoryIsNewest
  <2> SUFFICES ASSUME History, lifespan = "up" PROVE HistoryIsNewest
    BY DEF HistoryIsNewest
  <2>1. KeepsNewest(episodes)
    BY DEF History
  <2> QED
    BY <2>1 DEF HistoryIsNewest, KeepsNewest, Since, Later
<1> QED
  BY <1>1, PlacementIsInvariant, InitHistory, NextHistory, PTL DEF Spec
=============================================================================
