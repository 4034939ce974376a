---------------------- MODULE TelemetryPipelineProofs ------------------------
(* What holds of the telemetry on its way for any number of dashboards,       *)
(* measurements and broken connections, and for every capacity of the queues  *)
(* and the window, under every interleaving of the two threads, Kafka and the *)
(* dashboards.                                                                *)
EXTENDS TelemetryPipeline, FiniteSetTheorems, TLAPS

USE DEF None
-----------------------------------------------------------------------------
(* What the operations on a sequence do to the set of its entries.            *)

LEMMA EntriesType ==
    ASSUME NEW S, NEW s \in Seq(S)
    PROVE  Entries(s) \subseteq S
  BY DEF Entries

LEMMA AppendEntries ==
    ASSUME NEW S, NEW s \in Seq(S), NEW x \in S
    PROVE  /\ Append(s, x) \in Seq(S) /\ Len(Append(s, x)) = Len(s) + 1
           /\ \A i \in 1..Len(s) : Append(s, x)[i] = s[i]
           /\ Append(s, x)[Len(s) + 1] = x
           /\ Entries(Append(s, x)) = Entries(s) \cup {x}
<1>1. /\ Append(s, x) \in Seq(S) /\ Len(Append(s, x)) = Len(s) + 1
      /\ \A i \in 1..Len(s) : Append(s, x)[i] = s[i]
      /\ Append(s, x)[Len(s) + 1] = x
  OBVIOUS
<1>2. 1..(Len(s) + 1) = (1..Len(s)) \cup {Len(s) + 1}
  OBVIOUS
<1>3. Entries(Append(s, x)) = {Append(s, x)[i] : i \in (1..Len(s)) \cup {Len(s) + 1}}
  BY <1>1, <1>2 DEF Entries
<1> QED
  BY <1>1, <1>3 DEF Entries

LEMMA TailEntries ==
    ASSUME NEW S, NEW s \in Seq(S), s # <<>>
    PROVE  /\ Head(s) \in S /\ Head(s) = s[1] /\ Len(s) >= 1
           /\ Tail(s) \in Seq(S) /\ Len(Tail(s)) = Len(s) - 1
           /\ \A i \in 1..Len(Tail(s)) : Tail(s)[i] = s[i + 1]
           /\ Entries(s) = {Head(s)} \cup Entries(Tail(s))
<1>1. /\ Head(s) \in S /\ Head(s) = s[1] /\ Len(s) >= 1
      /\ Tail(s) \in Seq(S) /\ Len(Tail(s)) = Len(s) - 1
      /\ \A i \in 1..Len(Tail(s)) : Tail(s)[i] = s[i + 1]
  OBVIOUS
<1>2. ASSUME NEW x \in Entries(s) PROVE x \in {Head(s)} \cup Entries(Tail(s))
  <2>1. PICK i \in 1..Len(s) : x = s[i]
    BY DEF Entries
  <2>2. CASE i = 1
    BY <1>1, <2>1, <2>2
  <2>3. CASE i # 1
    <3>1. i - 1 \in 1..Len(Tail(s)) /\ x = Tail(s)[i - 1]
      BY <1>1, <2>1, <2>3
    <3> QED
      BY <3>1 DEF Entries
  <2> QED
    BY <2>2, <2>3
<1>3. ASSUME NEW x \in Entries(Tail(s)) PROVE x \in Entries(s)
  <2>1. PICK i \in 1..Len(Tail(s)) : x = Tail(s)[i]
    BY DEF Entries
  <2>2. i + 1 \in 1..Len(s) /\ x = s[i + 1]
    BY <1>1, <2>1
  <2> QED
    BY <2>2 DEF Entries
<1>4. Head(s) \in Entries(s)
  BY <1>1 DEF Entries
<1> QED
  BY <1>1, <1>2, <1>3, <1>4

LEMMA RestEntries ==
    ASSUME NEW S, NEW s \in Seq(S), NEW n \in 0..Len(s)
    PROVE  Entries(SubSeq(s, n + 1, Len(s))) = {s[i] : i \in (n + 1)..Len(s)}
<1> DEFINE r == SubSeq(s, n + 1, Len(s))
<1>1. Len(r) = Len(s) - n /\ \A i \in 1..Len(r) : r[i] = s[n + i]
  OBVIOUS
<1> HIDE DEF r
<1>2. ASSUME NEW i \in (n + 1)..Len(s) PROVE i - n \in 1..Len(r) /\ s[i] = r[i - n]
  BY <1>1
<1>3. ASSUME NEW i \in 1..Len(r) PROVE n + i \in (n + 1)..Len(s) /\ r[i] = s[n + i]
  BY <1>1
<1>4. ASSUME NEW x \in Entries(r) PROVE x \in {s[i] : i \in (n + 1)..Len(s)}
  <2>1. PICK i \in 1..Len(r) : x = r[i]
    BY DEF Entries
  <2> QED
    BY <1>3, <2>1
<1>5. ASSUME NEW i \in (n + 1)..Len(s) PROVE s[i] \in Entries(r)
  BY <1>2 DEF Entries
<1> QED
  BY <1>4, <1>5 DEF r
-----------------------------------------------------------------------------
(* The invariants.                                                            *)

\* The points at which a thread is at the queues, and those at which it delivers.
Notifying == {"notify", "put", "wake"}
Delivering == {"publish", "add"} \cup Notifying

\* Thread t is to deliver e, and has not recorded it.
Pending(t, e) == carried[t] = e /\ pc[t] \in {"publish"} \cup Notifying

\* What a thread carries at each point of its work: the runner's event is the last
\* one measured, the consumer's is the one at its position.
CarriedInv ==
    /\ pc["runner"] # "tick" => carried["runner"] = measured /\ measured # 0
    /\ pc["runner"] \in Delivering => carried["runner"] \in degraded
    /\ pc["consumer"] \in Delivering =>
          /\ position # 0 /\ carried["consumer"] = topic[position]
          /\ carried["consumer"] \in consumed
    /\ \A t \in Threads : pc[t] \notin Notifying => targets[t] = {}

\* Events are written in the order they were measured, but for those an attempt of
\* which failed, and only events that were measured are anywhere.
OrderInv ==
    /\ \A i, j \in 1..Len(topic) : i < j /\ topic[j] \notin retried => topic[i] < topic[j]
    /\ \A i \in 1..Len(topic), e \in buffer \ retried : topic[i] < e
    /\ Entries(topic) \cup buffer \cup degraded \subseteq 1..measured
    /\ consumed \subseteq Entries(topic)
    /\ committed <= position + 1
    /\ \A e \in degraded \ timedOut : e \notin buffer \cup Entries(topic)

\* Thread t is about to put an event in the queue of c.
Putting(t, c) == pc[t] = "put" /\ c \in putting[t]

\* The room the threads found in a queue is there, but for the one both found.
RoomInv ==
    \A c \in Clients :
        /\ Len(queue[c]) <= MaxQueue + 1
        /\ \A t \in Threads : Putting(t, c) => Len(queue[c]) <= MaxQueue
        /\ (\A t \in Threads : Putting(t, c)) => Len(queue[c]) < MaxQueue

PipeInv == TypeOK /\ CarriedInv /\ OrderInv /\ RoomInv

\* A recorded event has gone through one of the threads.
CountedInv ==
    \A e \in Events :
        /\ recorded[e] > 0 => e \in degraded \cup consumed
        /\ e \notin timedOut \cup redelivered =>
            /\ recorded[e] <= 1
            /\ recorded[e] = 1 => ~Pending("runner", e) /\ ~Pending("consumer", e)

Count(s, e) == Cardinality({i \in 1..Len(s) : s[i] = e})

\* What thread t is about to add to the window.
Adding(t, e) == IF pc[t] = "add" /\ carried[t] = e THEN 1 ELSE 0

WindowInv ==
    \A e \in Events :
        Count(samples, e) + Adding("runner", e) + Adding("consumer", e) <= recorded[e]

\* Where a measured event is.
LocatedInv ==
    \A e \in 1..measured :
        \/ e \in buffer \cup Entries(topic) \cup givenUp \cup aborted
        \/ recorded[e] > 0 \/ Pending("runner", e)

\* The consumer is done with e, or at it.
Settled(e) == recorded[e] > 0 \/ e \in skipped \cup aborted \/ Pending("consumer", e)

\* The consumer left no event of the topic behind.
PastInv == \A i \in 1..position : Settled(topic[i])

\* The latest telemetry came through the runner or through the topic.
LatestInv ==
    /\ latest # None /\ latest \notin degraded => latest \in consumed
    /\ latest <= measured

\* The consumer once was at r: it consumed nothing beyond, everything between its
\* position and r, and everything from the committed offset to r.
BeenAt(r) ==
    /\ position <= r /\ consumed \subseteq {topic[i] : i \in 1..r}
    /\ \A i \in (position + 1)..r : topic[i] \in consumed
    /\ committed # None => \A i \in committed..r : topic[i] \in consumed

NoGapInv == \E r \in 0..Len(topic) : BeenAt(r)

\* An event consumed for the first time is newer than all consumed before, but for
\* one that was overtaken.
NewestInv ==
    pc["consumer"] = "publish" /\ carried["consumer"] \notin redelivered \cup retried =>
        \A e \in consumed : e <= carried["consumer"]

\* A connected dashboard is subscribed, and one that never was gets nothing.
SubscribedInv ==
    \A c \in Clients :
        /\ client[c] \in {"read", "wait"} => c \in subscribers
        /\ client[c] = "out" => c \notin subscribers /\ \A t \in Threads : c \notin targets[t]

\* A thread puts the event in one queue at a time, of those it has to.
AimedInv ==
    \A t \in Threads : pc[t] \in {"put", "wake"} => \E c \in targets[t] : putting[t] = {c}

\* What was put in a queue is there, or was shown, when the dashboard is woken up.
WokenInv ==
    \A t \in Threads, c \in Clients :
        pc[t] = "wake" /\ c \in putting[t] /\ client[c] \in {"read", "wait"} =>
            carried[t] \in shown[c] \cup Entries(queue[c])
-----------------------------------------------------------------------------
(* Types, what the threads carry, and the order of Kafka.                     *)

LEMMA InitPipe == Init => PipeInv
<1> SUFFICES ASSUME Init PROVE PipeInv
  OBVIOUS
<1>1. TypeOK
  BY PipelineAssumption DEF Init, TypeOK, Events, Threads, ProgramPoints
<1>2. CarriedInv
  BY DEF Init, CarriedInv, Threads, Delivering, Notifying
<1>3. OrderInv
  BY DEF Init, OrderInv, Entries
<1>4. RoomInv
  BY PipelineAssumption DEF Init, RoomInv, Putting, Threads
<1> QED
  BY <1>1, <1>2, <1>3, <1>4 DEF PipeInv

\* The next event of the topic, when there is one.
LEMMA NextOfTopic ==
    ASSUME PipeInv, position < Len(topic)
    PROVE  /\ position + 1 \in 1..Len(topic)
           /\ topic[position + 1] \in Events
           /\ topic[position + 1] \in Entries(topic)
  BY DEF PipeInv, TypeOK, Entries

\* A thread that delivers has an event.
LEMMA EventCarried ==
    ASSUME PipeInv, NEW t \in Threads, pc[t] \in Delivering
    PROVE  carried[t] \in Events
  BY DEF PipeInv, TypeOK, CarriedInv, OrderInv, Events, Threads

\* What the steps at a queue have in common.
LEMMA NotifyFrame ==
    ASSUME PipeInv, NEW t \in Threads, NEW c \in Clients, Notify(t, c)
    PROVE  /\ UNCHANGED <<stateVars, kafkaVars, storeVars, clientVars, runnerVars, carried>>
           /\ pc' \in [Threads -> ProgramPoints]
           /\ \A u \in Threads \ {t} : UNCHANGED <<pc[u], targets[u], putting[u]>>
           /\ pc[t] \in Notifying /\ pc'[t] \in Notifying \cup {Rest(t)}
           /\ targets' \in [Threads -> SUBSET Clients] /\ putting' \in [Threads -> SUBSET Clients]
           /\ targets'[t] \subseteq targets[t]
           /\ pc'[t] \in Notifying => aborted' = aborted
           /\ pc'[t] \notin Notifying => aborted' = aborted \cup {carried[t]} /\ targets'[t] = {}
           /\ overflowed \subseteq overflowed' /\ overflowed' \subseteq Clients
<1> USE DEF Notifying, Rest, Go, ProgramPoints, Threads
<1>1. /\ pc \in [Threads -> ProgramPoints] /\ overflowed \subseteq Clients
      /\ targets \in [Threads -> SUBSET Clients] /\ putting \in [Threads -> SUBSET Clients]
  BY DEF PipeInv, TypeOK
<1>2. CASE FindFull(t, c)
  BY <1>1, <1>2 DEF FindFull
<1>3. CASE FindRoom(t, c)
  BY <1>1, <1>3 DEF FindRoom
<1>4. CASE Put(t, c)
  BY <1>1, <1>4 DEF Put
<1>5. CASE Wake(t, c)
  BY <1>1, <1>5 DEF Wake
<1>6. CASE WakeFails(t, c)
  BY <1>1, <1>6 DEF WakeFails
<1> QED
  BY <1>2, <1>3, <1>4, <1>5, <1>6 DEF Notify

\* The queues hold events, and one at most that they have no room for.
LEMMA NextRoom ==
    ASSUME PipeInv, [Next]_vars
    PROVE  RoomInv' /\ queue' \in [Clients -> Seq(Events)]
<1> USE DEF Putting, Threads, RoomInv
<1>1. /\ queue \in [Clients -> Seq(Events)] /\ \A d \in Clients : Len(queue[d]) \in Nat
      /\ MaxQueue \in Nat \ {0} /\ RoomInv
      /\ pc \in [Threads -> ProgramPoints] /\ putting \in [Threads -> SUBSET Clients]
  <2>1. queue \in [Clients -> Seq(Events)] /\ \A d \in Clients : Len(queue[d]) \in Nat
    BY DEF PipeInv, TypeOK
  <2> QED
    BY <2>1, PipelineAssumption DEF PipeInv, TypeOK
<1>2. ASSUME queue' = queue,
             \A t \in Threads : pc'[t] # "put" \/ UNCHANGED <<pc[t], putting[t]>>
      PROVE  RoomInv' /\ queue' \in [Clients -> Seq(Events)]
  BY <1>1, <1>2
<1>3. CASE Send \/ SendFails \/ SendRaises \/ FlushEnds \/ FlushTimesOut \/ Join \/ Poll
           \/ Commit \/ Break \/ Kafka \/ UNCHANGED vars
  BY <1>1, <1>2, <1>3
     DEF Send, SendFails, SendRaises, FlushEnds, FlushTimesOut, Join, Poll, Commit, Break, Kafka,
         Write, Retry, GiveUp, Attempt, queueVars, vars, Go
<1>4. ASSUME NEW t \in Threads, Publish(t) \/ Record(t) \/ Add(t)
      PROVE  RoomInv' /\ queue' \in [Clients -> Seq(Events)]
  BY <1>1, <1>2, <1>4 DEF Publish, Record, Add, queueVars, Go, Rest
<1>5. ASSUME NEW t \in Threads, NEW c \in Clients, Notify(t, c)
      PROVE  RoomInv' /\ queue' \in [Clients -> Seq(Events)]
  <2>1. CASE FindFull(t, c)
    BY <1>1, <1>2, <2>1 DEF FindFull
  <2>2. CASE FindRoom(t, c)
    <3>1. /\ queue' = queue /\ Len(queue[c]) < MaxQueue /\ putting'[t] = {c}
          /\ \A u \in Threads \ {t} : UNCHANGED <<pc[u], putting[u]>>
      BY <1>1, <2>2 DEF FindRoom, Go
    <3> QED
      BY <1>1, <3>1
  <2>3. CASE Put(t, c)
    <3>1. carried[t] \in Events
      BY <2>3, EventCarried DEF Put, Go, Delivering, Notifying
    <3>2. /\ Append(queue[c], carried[t]) \in Seq(Events)
          /\ Len(Append(queue[c], carried[t])) = Len(queue[c]) + 1
      BY <1>1, <3>1, AppendEntries
    <3>3. /\ queue' = [queue EXCEPT ![c] = Append(queue[c], carried[t])]
          /\ pc[t] = "put" /\ pc'[t] = "wake" /\ c \in putting[t] /\ putting' = putting
          /\ \A u \in Threads \ {t} : UNCHANGED pc[u]
      BY <1>1, <2>3 DEF Put, Go
    <3>4. /\ queue' \in [Clients -> Seq(Events)] /\ Len(queue'[c]) = Len(queue[c]) + 1
          /\ \A d \in Clients \ {c} : queue'[d] = queue[d]
      BY <1>1, <3>2, <3>3
    <3>5. ASSUME NEW d \in Clients
          PROVE  /\ Len(queue'[d]) <= MaxQueue + 1
                 /\ \A u \in Threads : Putting(u, d)' => Len(queue'[d]) <= MaxQueue
                 /\ ~(\A u \in Threads : Putting(u, d)')
      BY <1>1, <3>3, <3>4
    <3> QED
      BY <3>4, <3>5
  <2>4. CASE Wake(t, c) \/ WakeFails(t, c)
    <3>1. /\ queue' = queue /\ pc'[t] # "put"
          /\ \A u \in Threads \ {t} : UNCHANGED <<pc[u], putting[u]>>
      BY <1>1, <2>4 DEF Wake, WakeFails, Go, Rest
    <3> QED
      BY <1>2, <3>1
  <2> QED
    BY <1>5, <2>1, <2>2, <2>3, <2>4 DEF Notify
<1>6. ASSUME NEW c \in Clients, Dashboard(c)
      PROVE  RoomInv' /\ queue' \in [Clients -> Seq(Events)]
  <2>1. UNCHANGED <<pc, putting>>
    BY <1>6 DEF Dashboard, Subscribe, SendLatest, SendNext, Disconnect, Client
  <2>2. /\ queue' \in [Clients -> Seq(Events)]
        /\ \A d \in Clients :
              Len(queue'[d]) \in Nat /\ (Len(queue'[d]) = 0 \/ Len(queue'[d]) <= Len(queue[d]))
    <3>1. CASE Subscribe(c) \/ Disconnect(c)
      <4>1. queue' = [queue EXCEPT ![c] = <<>>]
        BY <3>1 DEF Subscribe, Disconnect
      <4>2. Len(<<>>) = 0 /\ <<>> \in Seq(Events)
        OBVIOUS
      <4> QED
        BY <1>1, <4>1, <4>2
    <3>2. CASE SendLatest(c)
      BY <1>1, <3>2 DEF SendLatest
    <3>3. CASE SendNext(c)
      <4>1. Tail(queue[c]) \in Seq(Events) /\ Len(Tail(queue[c])) = Len(queue[c]) - 1
            /\ Len(queue[c]) >= 1
        BY <1>1, <3>3, TailEntries DEF SendNext
      <4>2. queue' = [queue EXCEPT ![c] = Tail(queue[c])]
        BY <3>3 DEF SendNext
      <4> QED
        BY <1>1, <4>1, <4>2
    <3> QED
      BY <1>6, <3>1, <3>2, <3>3 DEF Dashboard
  <2> QED
    BY <1>1, <2>1, <2>2
<1> QED
  BY <1>3, <1>4, <1>5, <1>6 DEF Next, Runner, Consumer, Deliver

\* What Kafka's write does to the topic.
LEMMA TopicWritten ==
    ASSUME PipeInv, NEW e \in buffer, topic' = Append(topic, e)
    PROVE  /\ topic' \in Seq(Events) /\ Len(topic) \in Nat /\ Len(topic') = Len(topic) + 1
           /\ \A i \in 1..Len(topic) : topic'[i] = topic[i]
           /\ topic'[Len(topic) + 1] = e
           /\ Entries(topic') = Entries(topic) \cup {e}
  BY AppendEntries DEF PipeInv, TypeOK

LEMMA RestOfTopic ==
    ASSUME PipeInv
    PROVE  Entries(SubSeq(topic, position + 1, Len(topic))) \subseteq Events
<1>1. topic \in Seq(Events) /\ position \in 0..Len(topic)
  BY DEF PipeInv, TypeOK
<1>2. \A i \in (position + 1)..Len(topic) : topic[i] \in Events
  BY <1>1
<1>3. Entries(SubSeq(topic, position + 1, Len(topic))) = {topic[i] : i \in (position + 1)..Len(topic)}
  BY <1>1, RestEntries
<1> QED
  BY <1>2, <1>3

LEMMA NextType == PipeInv /\ [Next]_vars => TypeOK'
<1> SUFFICES ASSUME PipeInv, [Next]_vars PROVE TypeOK'
  OBVIOUS
<1>0. queue' \in [Clients -> Seq(Events)] /\ \A c \in Clients : Len(queue'[c]) <= MaxQueue + 1
  BY NextRoom DEF RoomInv
<1> USE DEF PipeInv, TypeOK, Threads, ProgramPoints, Go
<1>1. CASE Send
  <2>1. measured' \in Events
    BY <1>1, PipelineAssumption DEF Send, Measure, Events
  <2> QED
    BY <1>0, <1>1, <2>1
       DEF Send, Measure, stateVars, storeVars, clientVars, queueVars, Events
<1>2. CASE SendFails
  <2>1. measured' \in Events /\ carried' \in [Threads -> Events \cup {None}]
    BY <1>2, PipelineAssumption DEF SendFails, Measure, Events
  <2> QED
    BY <1>0, <1>2, <2>1
       DEF SendFails, Measure, stateVars, storeVars, clientVars, kafkaVars, queueVars, Events
<1>14. CASE SendRaises
  <2>1. measured' \in Events
    BY <1>14, PipelineAssumption DEF SendRaises, Measure, Events
  <2> QED
    BY <1>0, <1>14, <2>1
       DEF SendRaises, Measure, stateVars, storeVars, clientVars, kafkaVars, Events
<1>3. CASE FlushEnds
  BY <1>0, <1>3 DEF FlushEnds, stateVars, storeVars, clientVars, kafkaVars, runnerVars, queueVars
<1>4. CASE FlushTimesOut
  <2>1. carried["runner"] \in Events
    BY <1>4, PipelineAssumption DEF FlushTimesOut, CarriedInv, Events
  <2> QED
    BY <1>0, <1>4, <2>1
       DEF FlushTimesOut, stateVars, storeVars, clientVars, kafkaVars, queueVars
<1>5. ASSUME NEW e \in buffer, Write(e) \/ Retry(e) \/ GiveUp(e) PROVE TypeOK'
  <2>1. topic' = topic \/ topic' = Append(topic, e)
    BY <1>5 DEF Write, Retry, GiveUp
  <2>2. topic' \in Seq(Events) /\ position \in 0..Len(topic')
    <3>1. CASE topic' = topic
      BY <3>1
    <3>2. CASE topic' = Append(topic, e)
      BY <3>2, TopicWritten
    <3> QED
      BY <2>1, <3>1, <3>2
  <2> QED
    BY <1>0, <1>5, <2>2
       DEF Write, Retry, GiveUp, Attempt, stateVars, storeVars, clientVars, runnerVars, queueVars
<1>7. CASE Join
  <2>1. Entries(SubSeq(topic, position + 1, Len(topic))) \subseteq Events
    BY RestOfTopic
  <2>2. FirstPosition \in 0..Len(topic)
    BY DEF FirstPosition, OrderInv
  <2> QED
    BY <1>0, <1>7, <2>1, <2>2 DEF Join, stateVars, storeVars, clientVars, runnerVars, queueVars
<1>8. CASE Poll
  <2>1. /\ position' \in 0..Len(topic) /\ carried' \in [Threads -> Events \cup {None}]
        /\ redelivered' \subseteq consumed'
    BY <1>8, NextOfTopic DEF Poll
  <2> QED
    BY <1>0, <1>8, <2>1 DEF Poll, stateVars, storeVars, clientVars, runnerVars, queueVars
<1>9. CASE Commit
  BY <1>0, <1>9 DEF Commit, stateVars, storeVars, clientVars, runnerVars, queueVars
<1>10. CASE Break
  <2>1. committed' \in Nat /\ breaks' \in Nat
    BY <1>10 DEF Break
  <2> QED
    BY <1>0, <1>10, <2>1 DEF Break, stateVars, storeVars, clientVars, runnerVars, queueVars
<1>11. ASSUME NEW t \in Threads, Deliver(t) PROVE TypeOK'
  <2>1. CASE Publish(t)
    BY <1>0, <1>11, <2>1 DEF Publish, kafkaVars, storeVars, clientVars, runnerVars, queueVars
  <2>2. ASSUME NEW c \in Clients, Notify(t, c) PROVE TypeOK'
    <3>1. carried[t] \in Events
      BY <2>2, EventCarried, NotifyFrame DEF Delivering
    <3>2. aborted' \subseteq Events
      <4>1. aborted' = aborted \/ aborted' = aborted \cup {carried[t]}
        BY <2>2, NotifyFrame
      <4> QED
        BY <3>1, <4>1
    <3>3. pc'["runner"] \notin {"join", "poll"} /\ pc'["consumer"] \notin {"tick", "flush"}
      BY <2>2, NotifyFrame DEF Notifying, Rest
    <3>4. /\ UNCHANGED <<stateVars, kafkaVars, storeVars, clientVars, runnerVars, carried>>
          /\ pc' \in [Threads -> ProgramPoints]
          /\ targets' \in [Threads -> SUBSET Clients] /\ putting' \in [Threads -> SUBSET Clients]
          /\ overflowed' \subseteq Clients
      BY <2>2, NotifyFrame
    <3> QED
      BY <1>0, <3>2, <3>3, <3>4 DEF kafkaVars, storeVars, clientVars, runnerVars, stateVars
  <2>3. CASE Record(t)
    <3>1. recorded[carried[t]] + 1 \in Nat
      BY <2>3, EventCarried DEF Record, Delivering, Notifying
    <3>2. recorded' \in [Events -> Nat]
      BY <2>3, <3>1 DEF Record
    <3> QED
      BY <1>0, <2>3, <3>2 DEF Record, kafkaVars, stateVars, clientVars, runnerVars, queueVars
  <2>4. CASE Add(t)
    <3>1. carried[t] \in Events
      BY <2>4, EventCarried DEF Add, Delivering, Notifying
    <3>2. samples' \in Seq(Events) /\ Len(samples') <= MaxSamples
      <4>1. CASE Len(samples) < MaxSamples
        <5>1. /\ Append(samples, carried[t]) \in Seq(Events)
              /\ Len(Append(samples, carried[t])) = Len(samples) + 1
          BY <3>1, AppendEntries
        <5> QED
          BY <2>4, <4>1, <5>1, PipelineAssumption DEF Add
      <4>2. CASE ~(Len(samples) < MaxSamples)
        <5>1. samples # <<>> /\ Len(samples) = MaxSamples
          BY <4>2, PipelineAssumption
        <5>2. Tail(samples) \in Seq(Events) /\ Len(Tail(samples)) = MaxSamples - 1
          BY <5>1, TailEntries
        <5>3. /\ Append(Tail(samples), carried[t]) \in Seq(Events)
              /\ Len(Append(Tail(samples), carried[t])) = MaxSamples
          BY <3>1, <5>2, AppendEntries, PipelineAssumption
        <5> QED
          BY <2>4, <4>2, <5>3, PipelineAssumption DEF Add
      <4> QED
        BY <4>1, <4>2
    <3> QED
      BY <1>0, <2>4, <3>2
         DEF Add, Rest, kafkaVars, stateVars, clientVars, runnerVars, queueVars
  <2> QED
    BY <1>11, <2>1, <2>2, <2>3, <2>4 DEF Deliver
<1>12. ASSUME NEW c \in Clients, Dashboard(c) PROVE TypeOK'
  <2> USE DEF Client, kafkaVars, storeVars, runnerVars
  <2>1. CASE Subscribe(c)
    BY <1>0, <2>1 DEF Subscribe
  <2>2. CASE SendLatest(c)
    BY <1>0, <2>2 DEF SendLatest
  <2>3. CASE SendNext(c)
    <3>1. Head(queue[c]) \in Events
      BY <2>3, TailEntries DEF SendNext
    <3> QED
      BY <1>0, <2>3, <3>1 DEF SendNext
  <2>4. CASE Disconnect(c)
    BY <1>0, <2>4 DEF Disconnect
  <2> QED
    BY <1>12, <2>1, <2>2, <2>3, <2>4 DEF Dashboard
<1>13. CASE UNCHANGED vars
  BY <1>0, <1>13 DEF vars, stateVars, kafkaVars, storeVars, clientVars, runnerVars, queueVars
<1> QED
  BY <1>1, <1>2, <1>3, <1>4, <1>5, <1>7, <1>8, <1>9, <1>10, <1>11, <1>12, <1>13,
     <1>14
     DEF Next, Runner, Consumer, Kafka

LEMMA NextCarried == PipeInv /\ [Next]_vars => CarriedInv'
<1> SUFFICES ASSUME PipeInv, [Next]_vars PROVE CarriedInv'
  OBVIOUS
<1> USE DEF PipeInv, TypeOK, CarriedInv, Threads, Go, Delivering, Notifying
<1>1. CASE Send \/ SendFails
  <2>1. measured + 1 # 0 /\ "runner" # "consumer"
    OBVIOUS
  <2> QED
    BY <1>1, <2>1 DEF Send, SendFails, Measure, kafkaVars
<1>2. CASE SendRaises
  BY <1>2 DEF SendRaises, Measure, kafkaVars
<1>3. CASE FlushEnds
  BY <1>3 DEF FlushEnds, kafkaVars, runnerVars
<1>4. CASE FlushTimesOut
  BY <1>4 DEF FlushTimesOut, kafkaVars
<1>5. ASSUME NEW e \in buffer, Write(e) \/ Retry(e) \/ GiveUp(e) PROVE CarriedInv'
  <2>1. position # 0 => topic'[position] = topic[position]
    <3>1. topic' = topic \/ topic' = Append(topic, e)
      BY <1>5 DEF Write, Retry, GiveUp
    <3>2. CASE topic' = Append(topic, e)
      BY <3>2, TopicWritten
    <3> QED
      BY <3>1, <3>2
  <2> QED
    BY <1>5, <2>1 DEF Write, Retry, GiveUp, Attempt, runnerVars
<1>6. CASE Join
  BY <1>6 DEF Join, runnerVars
<1>7. CASE Poll
  BY <1>7 DEF Poll, runnerVars
<1>8. CASE Commit
  BY <1>8 DEF Commit, runnerVars
<1>9. CASE Break
  BY <1>9 DEF Break, runnerVars
<1>10. ASSUME NEW t \in Threads, Publish(t) PROVE CarriedInv'
  BY <1>10 DEF Publish, kafkaVars, runnerVars
<1>11. ASSUME NEW t \in Threads, NEW c \in Clients, Notify(t, c) PROVE CarriedInv'
  <2>1. /\ UNCHANGED <<measured, degraded, position, topic, consumed, carried>>
        /\ \A u \in Threads \ {t} : UNCHANGED <<pc[u], targets[u]>>
        /\ pc[t] \in Notifying /\ pc'[t] \in Notifying \cup {Rest(t)}
        /\ pc'[t] \notin Notifying => targets'[t] = {}
    BY <1>11, NotifyFrame DEF kafkaVars, runnerVars
  <2> QED
    BY <2>1 DEF Rest
<1>12. ASSUME NEW t \in Threads, Record(t) PROVE CarriedInv'
  BY <1>12 DEF Record, kafkaVars, runnerVars
<1>13. ASSUME NEW t \in Threads, Add(t) PROVE CarriedInv'
  BY <1>13 DEF Add, Rest, kafkaVars, runnerVars
<1>14. ASSUME NEW c \in Clients, Dashboard(c) PROVE CarriedInv'
  BY <1>14
     DEF Dashboard, Subscribe, SendLatest, SendNext, Disconnect, Client, kafkaVars, runnerVars
<1>15. CASE UNCHANGED vars
  BY <1>15 DEF vars, kafkaVars, runnerVars
<1> QED
  BY <1>1, <1>2, <1>3, <1>4, <1>5, <1>6, <1>7, <1>8, <1>9, <1>10, <1>11, <1>12, <1>13, <1>14,
     <1>15 DEF Next, Runner, Consumer, Kafka, Deliver

LEMMA NextOrder == PipeInv /\ [Next]_vars => OrderInv'
<1> SUFFICES ASSUME PipeInv, [Next]_vars PROVE OrderInv'
  OBVIOUS
<1>0. /\ Events \subseteq Nat /\ measured \in Nat /\ Len(topic) \in Nat
      /\ \A i \in 1..Len(topic) : topic[i] \in 1..measured
  BY DEF PipeInv, TypeOK, OrderInv, Entries, Events
<1> USE DEF PipeInv, OrderInv
<1>1. CASE Send
  <2>1. /\ measured' = measured + 1 /\ buffer' = buffer \cup {measured + 1}
        /\ UNCHANGED <<topic, retried, degraded, timedOut, consumed, committed, position>>
    BY <1>1 DEF Send, Measure
  <2>2. \A i \in 1..Len(topic) : topic[i] < measured + 1
    BY <1>0
  <2>3. measured + 1 \notin degraded \cup Entries(topic)
    BY <1>0
  <2> QED
    BY <1>0, <2>1, <2>2, <2>3
<1>2. CASE SendFails
  BY <1>0, <1>2 DEF SendFails, Measure, kafkaVars
<1>3. CASE SendRaises
  BY <1>0, <1>3 DEF SendRaises, Measure, kafkaVars
<1>4. CASE FlushTimesOut
  <2>1. carried["runner"] = measured /\ measured # 0
    BY <1>4 DEF FlushTimesOut, CarriedInv, Go
  <2> QED
    BY <1>0, <1>4, <2>1 DEF FlushTimesOut, kafkaVars
<1>5. ASSUME NEW e \in buffer, Write(e) \/ Retry(e) \/ GiveUp(e) PROVE OrderInv'
  <2>1. /\ UNCHANGED <<measured, degraded, timedOut, consumed, committed, position>>
        /\ \A f \in buffer : f < e => f \in retried
        /\ retried \subseteq retried' /\ buffer' \subseteq buffer
        /\ topic' = topic \/ topic' = Append(topic, e)
        /\ topic' # topic => e \notin buffer' \ retried'
    BY <1>5 DEF Write, Retry, GiveUp, Attempt, runnerVars
  <2>2. CASE topic' = topic
    BY <2>1, <2>2
  <2>3. CASE topic' = Append(topic, e) /\ topic' # topic
    <3>1. /\ Len(topic') = Len(topic) + 1
          /\ \A i \in 1..Len(topic) : topic'[i] = topic[i]
          /\ topic'[Len(topic) + 1] = e
          /\ Entries(topic') = Entries(topic) \cup {e}
      BY <2>3, TopicWritten
    <3>2. \A i, j \in 1..Len(topic') : i < j /\ topic'[j] \notin retried' => topic'[i] < topic'[j]
      <4> SUFFICES ASSUME NEW i \in 1..Len(topic'), NEW j \in 1..Len(topic'),
                          i < j, topic'[j] \notin retried'
                   PROVE  topic'[i] < topic'[j]
        OBVIOUS
      <4>1. i \in 1..Len(topic) /\ topic'[i] = topic[i]
        BY <1>0, <3>1
      <4>2. CASE j \in 1..Len(topic)
        BY <2>1, <3>1, <4>1, <4>2
      <4>3. CASE j = Len(topic) + 1
        BY <2>1, <3>1, <4>1, <4>3
      <4> QED
        BY <1>0, <3>1, <4>2, <4>3
    <3>3. ASSUME NEW i \in 1..Len(topic'), NEW f \in buffer' \ retried' PROVE topic'[i] < f
      <4>1. f \in buffer \ retried /\ f # e /\ f \in Nat /\ e \in Nat
        BY <1>0, <2>1, <2>3 DEF TypeOK
      <4>2. e < f
        BY <2>1, <4>1
      <4>3. CASE i \in 1..Len(topic)
        BY <3>1, <4>1, <4>3
      <4>4. CASE i = Len(topic) + 1
        BY <3>1, <4>2, <4>4
      <4> QED
        BY <1>0, <3>1, <4>3, <4>4
    <3> QED
      BY <2>1, <3>1, <3>2, <3>3
  <2> QED
    BY <2>1, <2>2, <2>3
<1>6. CASE Join
  BY <1>0, <1>6 DEF Join, FirstPosition, runnerVars, TypeOK
<1>7. CASE Poll
  BY <1>7, NextOfTopic DEF Poll, runnerVars, TypeOK
<1>8. CASE Commit
  BY <1>8 DEF Commit, runnerVars, TypeOK
<1>9. CASE Break
  BY <1>9 DEF Break, runnerVars, TypeOK
<1>10. CASE UNCHANGED <<topic, buffer, retried, measured, degraded, timedOut, consumed, committed,
                        position>>
  BY <1>10 DEF Entries
<1>11. ASSUME NEW t \in Threads, NEW c \in Clients, Notify(t, c) PROVE OrderInv'
  BY <1>10, <1>11, NotifyFrame DEF kafkaVars, runnerVars
<1> QED
  BY <1>1, <1>2, <1>3, <1>4, <1>5, <1>6, <1>7, <1>8, <1>9, <1>10, <1>11
     DEF Next, Runner, Consumer, Kafka, Deliver, FlushEnds, Publish, Record, Add,
         Dashboard, Subscribe, SendLatest, SendNext, Disconnect, Client, kafkaVars, runnerVars,
         vars, Threads

LEMMA NextPipe == PipeInv /\ [Next]_vars => PipeInv'
  BY NextType, NextCarried, NextOrder, NextRoom DEF PipeInv

\* Type correctness. Among others: the two threads that look for room in a queue
\* without a lock put one event too many in it, and never two; no window holds more
\* than its capacity, and the consumer is never past the end of the topic.
THEOREM TypeCorrect == Spec => []TypeOK
<1>1. PipeInv => TypeOK
  BY DEF PipeInv
<1> QED
  BY <1>1, InitPipe, NextPipe, PTL DEF Spec
-----------------------------------------------------------------------------
(* An event is recorded once, but for a timeout or a redelivery.              *)

\* An event the runner delivers, without a timeout, never comes from the topic.
LEMMA ApartInv == PipeInv => \A e \in degraded \ timedOut : e \notin consumed
  BY DEF PipeInv, OrderInv

LEMMA NextCounted == PipeInv /\ CountedInv /\ [Next]_vars => CountedInv'
<1> SUFFICES ASSUME PipeInv, CountedInv, [Next]_vars, NEW e \in Events
             PROVE  /\ recorded'[e] > 0 => e \in degraded' \cup consumed'
                    /\ e \notin timedOut' \cup redelivered' =>
                        /\ recorded'[e] <= 1
                        /\ recorded'[e] = 1 => ~(Pending("runner", e)') /\ ~(Pending("consumer", e)')
  BY DEF CountedInv
<1>1. /\ recorded[e] \in Nat
      /\ recorded[e] > 0 => e \in degraded \cup consumed
      /\ e \notin timedOut \cup redelivered =>
          /\ recorded[e] <= 1
          /\ recorded[e] = 1 => ~Pending("runner", e) /\ ~Pending("consumer", e)
  BY DEF CountedInv, PipeInv, TypeOK
<1>2. e \in degraded \ timedOut => e \notin consumed
  BY ApartInv
<1>3. pc \in [Threads -> ProgramPoints] /\ carried \in [Threads -> Events \cup {None}]
  BY DEF PipeInv, TypeOK
<1>4. measured \in Nat /\ degraded \cup consumed \subseteq 1..measured
  BY DEF PipeInv, TypeOK, OrderInv
<1> USE DEF Pending, Threads, Go, Notifying
<1>5. CASE Send \/ SendFails
  <2>1. carried'["runner"] = measured + 1 /\ carried'["consumer"] = carried["consumer"]
    BY <1>3, <1>5 DEF Send, SendFails
  <2>2. recorded[e] > 0 => e # measured + 1
    BY <1>1, <1>4
  <2> QED
    BY <1>1, <1>3, <1>5, <2>1, <2>2 DEF Send, SendFails, storeVars, kafkaVars
<1>19. CASE SendRaises
  BY <1>1, <1>19 DEF SendRaises, storeVars, kafkaVars
<1>6. CASE FlushEnds
  BY <1>1, <1>3, <1>6 DEF FlushEnds, storeVars, kafkaVars, runnerVars
<1>7. CASE FlushTimesOut
  BY <1>1, <1>3, <1>7 DEF FlushTimesOut, storeVars, kafkaVars
<1>8. CASE Kafka
  BY <1>1, <1>8 DEF Kafka, Write, Retry, GiveUp, Attempt, storeVars, runnerVars
<1>9. CASE Join
  BY <1>1, <1>3, <1>9 DEF Join, storeVars, runnerVars
<1>10. CASE Poll
  <2> DEFINE next == topic[position + 1]
  <2>1. next \in Entries(topic)
    BY <1>10, NextOfTopic DEF Poll
  <2>2. next \in degraded => next \in timedOut
    BY <2>1 DEF PipeInv, OrderInv
  <2>3. /\ carried'["runner"] = carried["runner"] /\ carried'["consumer"] = next
        /\ pc'["runner"] = pc["runner"]
        /\ consumed' = consumed \cup {next} /\ redelivered' = redelivered \cup ({next} \cap consumed)
        /\ UNCHANGED <<recorded, degraded, timedOut>>
    BY <1>3, <1>10 DEF Poll, storeVars, runnerVars
  <2> HIDE DEF next
  <2> QED
    BY <1>1, <2>2, <2>3
<1>11. CASE Commit \/ Break
  BY <1>1, <1>3, <1>11 DEF Commit, Break, storeVars, runnerVars
<1>12. ASSUME NEW t \in Threads, Publish(t)
       PROVE  UNCHANGED <<recorded, degraded, timedOut, consumed, redelivered, carried>>
              /\ Pending("runner", e)' = Pending("runner", e)
              /\ Pending("consumer", e)' = Pending("consumer", e)
  BY <1>3, <1>12 DEF Publish, storeVars, kafkaVars, runnerVars
<1>13. CASE Record("runner")
  <2>1. carried["runner"] \in degraded /\ pc["runner"] = "notify"
    BY <1>13 DEF Record, PipeInv, CarriedInv, Delivering
  <2>2. CASE e = carried["runner"]
    <3>1. recorded'[e] = recorded[e] + 1 /\ e \in degraded
      BY <1>13, <2>1, <2>2 DEF Record, PipeInv, TypeOK
    <3>2. e \notin timedOut \cup redelivered => recorded[e] = 0
      BY <1>1, <2>1, <2>2
    <3>3. carried["consumer"] # e \/ e \in timedOut \/ pc["consumer"] \notin Delivering
      BY <1>2, <3>1 DEF PipeInv, CarriedInv
    <3> QED
      BY <1>3, <1>13, <3>1, <3>2, <3>3 DEF Record, Delivering, kafkaVars, runnerVars
  <2>3. CASE e # carried["runner"]
    BY <1>1, <1>3, <1>13, <2>3 DEF Record, kafkaVars, runnerVars, PipeInv, TypeOK
  <2> QED
    BY <2>2, <2>3
<1>14. CASE Record("consumer")
  <2>1. carried["consumer"] \in consumed /\ pc["consumer"] = "notify"
    BY <1>14 DEF Record, PipeInv, CarriedInv, Delivering
  <2>2. CASE e = carried["consumer"]
    <3>1. recorded'[e] = recorded[e] + 1 /\ e \in consumed
      BY <1>14, <2>1, <2>2 DEF Record, PipeInv, TypeOK
    <3>2. e \notin timedOut \cup redelivered => recorded[e] = 0
      BY <1>1, <2>1, <2>2
    <3>3. carried["runner"] # e \/ e \in timedOut \/ pc["runner"] \notin Delivering
      BY <1>2, <3>1 DEF PipeInv, CarriedInv
    <3> QED
      BY <1>3, <1>14, <3>1, <3>2, <3>3 DEF Record, Delivering, kafkaVars, runnerVars
  <2>3. CASE e # carried["consumer"]
    BY <1>1, <1>3, <1>14, <2>3 DEF Record, kafkaVars, runnerVars, PipeInv, TypeOK
  <2> QED
    BY <2>2, <2>3
<1>15. ASSUME NEW t \in Threads, NEW c \in Clients, Notify(t, c)
       PROVE  UNCHANGED <<recorded, degraded, timedOut, consumed, redelivered, carried>>
              /\ (Pending("runner", e)' => Pending("runner", e))
              /\ (Pending("consumer", e)' => Pending("consumer", e))
  BY <1>15, NotifyFrame DEF Rest, storeVars, kafkaVars, runnerVars
<1>16. ASSUME NEW t \in Threads, Add(t)
       PROVE  UNCHANGED <<recorded, degraded, timedOut, consumed, redelivered, carried>>
              /\ Pending("runner", e)' = Pending("runner", e)
              /\ Pending("consumer", e)' = Pending("consumer", e)
  BY <1>3, <1>16 DEF Add, Rest, kafkaVars, runnerVars
<1>17. ASSUME NEW c \in Clients, Dashboard(c)
       PROVE  UNCHANGED <<recorded, degraded, timedOut, consumed, redelivered, carried, pc>>
  BY <1>17
     DEF Dashboard, Subscribe, SendLatest, SendNext, Disconnect, Client, storeVars, kafkaVars,
         runnerVars
<1>18. CASE UNCHANGED vars
  BY <1>1, <1>18 DEF vars, storeVars, kafkaVars, runnerVars
<1> QED
  BY <1>1, <1>5, <1>6, <1>7, <1>8, <1>9, <1>10, <1>11, <1>12, <1>13, <1>14, <1>15, <1>16, <1>17,
     <1>18, <1>19 DEF Next, Runner, Consumer, Deliver
-----------------------------------------------------------------------------
(* The window has an event no more often than the tracker.                    *)

Places(s, e) == {i \in 1..Len(s) : s[i] = e}

LEMMA CountType ==
    ASSUME NEW s \in Seq(Events), NEW e
    PROVE  IsFiniteSet(Places(s, e)) /\ Count(s, e) \in Nat
<1>1. IsFiniteSet(1..Len(s)) /\ Places(s, e) \in SUBSET (1..Len(s))
  BY FS_Interval DEF Places
<1>2. IsFiniteSet(Places(s, e))
  BY <1>1, FS_Subset
<1> QED
  BY <1>2, FS_CardinalityType DEF Count, Places

\* Adding an event to the window counts it once.
LEMMA AppendCount ==
    ASSUME NEW s \in Seq(Events), NEW x \in Events, NEW e
    PROVE  Count(Append(s, x), e) = Count(s, e) + (IF x = e THEN 1 ELSE 0)
<1> DEFINE r == Append(s, x)
           n == Len(s) + 1
<1>1. /\ Len(s) \in Nat /\ Len(r) = n
      /\ (\A i \in 1..Len(s) : r[i] = s[i]) /\ r[n] = x
  BY AppendEntries
<1> HIDE DEF r
<1>2. IsFiniteSet(Places(s, e)) /\ Count(s, e) \in Nat
  BY CountType
<1>3. Count(s, e) = Cardinality(Places(s, e)) /\ Count(r, e) = Cardinality(Places(r, e))
  BY DEF Count, Places
<1>4. CASE x = e
  <2>1. Places(r, e) = Places(s, e) \cup {n}
    BY <1>1, <1>4 DEF Places
  <2>2. n \notin Places(s, e)
    BY <1>1 DEF Places
  <2>3. Cardinality(Places(r, e)) = Cardinality(Places(s, e)) + 1
    BY <1>2, <2>1, <2>2, FS_AddElement
  <2> QED
    BY <1>3, <1>4, <2>3 DEF r
<1>5. CASE x # e
  <2>1. Places(r, e) = Places(s, e)
    BY <1>1, <1>5 DEF Places
  <2> QED
    BY <1>2, <1>3, <1>5, <2>1 DEF r
<1> QED
  BY <1>4, <1>5

\* Dropping the oldest event of the window adds none.
LEMMA TailCount ==
    ASSUME NEW s \in Seq(Events), s # <<>>, NEW e
    PROVE  Count(Tail(s), e) <= Count(s, e)
<1> DEFINE r == Tail(s)
           f == [i \in Places(r, e) |-> i + 1]
<1>1. /\ Len(s) \in Nat /\ Len(r) \in Nat /\ Len(r) = Len(s) - 1
      /\ \A i \in 1..Len(r) : r[i] = s[i + 1]
  BY TailEntries
<1> HIDE DEF r
<1>2. f \in [Places(r, e) -> Places(s, e)]
  BY <1>1 DEF Places
<1>3. \A i, j \in Places(r, e) : f[i] = f[j] => i = j
  BY <1>1 DEF Places
<1>4. f \in Injection(Places(r, e), Places(s, e))
  BY <1>2, <1>3 DEF Injection, IsInjective
<1>5. IsFiniteSet(Places(s, e))
  BY CountType
<1>6. Cardinality(Places(r, e)) <= Cardinality(Places(s, e))
  BY <1>4, <1>5, FS_Injection
<1> QED
  BY <1>6 DEF r, Count, Places

LEMMA NextWindow == PipeInv /\ WindowInv /\ [Next]_vars => WindowInv'
<1> SUFFICES ASSUME PipeInv, WindowInv, [Next]_vars, NEW e \in Events
             PROVE  Count(samples', e) + Adding("runner", e)' + Adding("consumer", e)'
                        <= recorded'[e]
  BY DEF WindowInv
<1>1. /\ Count(samples, e) + Adding("runner", e) + Adding("consumer", e) <= recorded[e]
      /\ recorded \in [Events -> Nat] /\ Count(samples, e) \in Nat
  BY CountType DEF WindowInv, PipeInv, TypeOK
<1>2. /\ pc \in [Threads -> ProgramPoints] /\ carried \in [Threads -> Events \cup {None}]
      /\ samples \in Seq(Events) /\ Len(samples) \in Nat
  BY DEF PipeInv, TypeOK
<1> USE DEF Threads, Go
<1>3. ASSUME UNCHANGED <<samples, recorded>>,
             pc'["runner"] # "add" \/ UNCHANGED <<pc["runner"], carried["runner"]>>,
             pc'["consumer"] # "add" \/ UNCHANGED <<pc["consumer"], carried["consumer"]>>
      PROVE  Count(samples', e) + Adding("runner", e)' + Adding("consumer", e)' <= recorded'[e]
  BY <1>1, <1>3 DEF Adding
<1>4. ASSUME Send \/ SendFails
      PROVE  UNCHANGED <<samples, recorded, pc["consumer"], carried["consumer"]>>
             /\ pc'["runner"] # "add"
  BY <1>2, <1>4 DEF Send, SendFails, storeVars
<1>15. ASSUME SendRaises PROVE UNCHANGED <<samples, recorded, pc, carried>>
  BY <1>15 DEF SendRaises, storeVars
<1>5. ASSUME FlushEnds \/ FlushTimesOut
      PROVE  UNCHANGED <<samples, recorded, pc["consumer"], carried>> /\ pc'["runner"] # "add"
  BY <1>2, <1>5 DEF FlushEnds, FlushTimesOut, storeVars
<1>6. ASSUME Kafka PROVE UNCHANGED <<samples, recorded, pc, carried>>
  BY <1>6 DEF Kafka, Write, Retry, GiveUp, Attempt, storeVars
<1>7. ASSUME Join \/ Poll \/ Commit \/ Break
      PROVE  UNCHANGED <<samples, recorded, pc["runner"], carried["runner"]>>
             /\ pc'["consumer"] # "add"
  BY <1>2, <1>7 DEF Join, Poll, Commit, Break, storeVars
<1>8. ASSUME NEW t \in Threads, Publish(t)
      PROVE  /\ UNCHANGED <<samples, recorded, carried>> /\ pc'[t] # "add"
             /\ \A u \in Threads \ {t} : UNCHANGED pc[u]
  BY <1>2, <1>8 DEF Publish, storeVars
<1>9. ASSUME NEW t \in Threads, NEW c \in Clients, Notify(t, c)
      PROVE  /\ UNCHANGED <<samples, recorded, carried>> /\ pc'[t] # "add"
             /\ \A u \in Threads \ {t} : UNCHANGED pc[u]
  BY <1>9, NotifyFrame DEF Notifying, Rest, storeVars
<1>10. ASSUME NEW t \in Threads, NEW u \in Threads, t # u, Record(t)
       PROVE  Count(samples', e) + Adding(t, e)' + Adding(u, e)' <= recorded'[e]
  <2>1. /\ UNCHANGED <<samples, carried, pc[u]>> /\ pc[t] = "notify" /\ pc'[t] = "add"
        /\ recorded' = [recorded EXCEPT ![carried[t]] = @ + 1]
    BY <1>2, <1>10 DEF Record
  <2>2. Count(samples, e) + Adding(u, e) <= recorded[e]
    BY <1>1, <1>10, <2>1 DEF Adding
  <2>3. recorded'[e] = recorded[e] + (IF carried[t] = e THEN 1 ELSE 0)
    BY <1>1, <2>1
  <2>4. Adding(u, e)' = Adding(u, e) /\ Adding(t, e)' = (IF carried[t] = e THEN 1 ELSE 0)
    BY <2>1 DEF Adding
  <2>5. Adding(u, e) \in Nat /\ recorded[e] \in Nat
    BY <1>1 DEF Adding
  <2> QED
    BY <1>1, <2>1, <2>2, <2>3, <2>4, <2>5
<1>11. ASSUME NEW t \in Threads, NEW u \in Threads, t # u, Add(t)
       PROVE  Count(samples', e) + Adding(t, e)' + Adding(u, e)' <= recorded'[e]
  <2>1. /\ UNCHANGED <<recorded, carried, pc[u]>> /\ pc[t] = "add" /\ pc'[t] # "add"
        /\ samples' = IF Len(samples) < MaxSamples THEN Append(samples, carried[t])
                      ELSE Append(Tail(samples), carried[t])
    BY <1>2, <1>11 DEF Add, Rest
  <2>2. carried[t] \in Events
    BY <1>11, <2>1, EventCarried DEF Delivering
  <2>3. Count(samples', e) <= Count(samples, e) + (IF carried[t] = e THEN 1 ELSE 0)
        /\ Count(samples', e) \in Nat
    <3>1. CASE Len(samples) < MaxSamples
      <4>1. Append(samples, carried[t]) \in Seq(Events)
        BY <1>2, <2>2, AppendEntries
      <4> QED
        BY <1>1, <1>2, <2>1, <2>2, <3>1, <4>1, AppendCount, CountType
    <3>2. CASE ~(Len(samples) < MaxSamples)
      <4>1. samples # <<>>
        BY <1>2, <3>2, PipelineAssumption
      <4>2. Tail(samples) \in Seq(Events) /\ Count(Tail(samples), e) <= Count(samples, e)
        BY <1>2, <4>1, TailEntries, TailCount
      <4>3. Append(Tail(samples), carried[t]) \in Seq(Events)
            /\ Count(Append(Tail(samples), carried[t]), e)
               = Count(Tail(samples), e) + (IF carried[t] = e THEN 1 ELSE 0)
        <5> DEFINE tail == Tail(samples)
        <5>1. tail \in Seq(Events)
          BY <4>2
        <5> HIDE DEF tail
        <5>2. Append(tail, carried[t]) \in Seq(Events)
          BY <2>2, <5>1, AppendEntries
        <5>3. Count(Append(tail, carried[t]), e)
                = Count(tail, e) + (IF carried[t] = e THEN 1 ELSE 0)
          BY <2>2, <5>1, AppendCount
        <5> QED
          BY <5>2, <5>3 DEF tail
      <4>4. /\ Count(Append(Tail(samples), carried[t]), e) \in Nat
            /\ Count(Tail(samples), e) \in Nat
        BY <4>2, <4>3, CountType
      <4>5. samples' = Append(Tail(samples), carried[t])
        BY <2>1, <3>2
      <4> QED
        BY <1>1, <4>2, <4>3, <4>4, <4>5
    <3> QED
      BY <3>1, <3>2
  <2>4. /\ Adding(u, e)' = Adding(u, e) /\ Adding(t, e)' = 0
        /\ Adding(t, e) = (IF carried[t] = e THEN 1 ELSE 0) /\ Adding(u, e) \in Nat
    BY <2>1 DEF Adding
  <2>5. Count(samples, e) + Adding(t, e) + Adding(u, e) <= recorded[e] /\ recorded[e] \in Nat
    BY <1>1, <1>11, <2>4 DEF Adding
  <2> QED
    BY <1>1, <2>1, <2>3, <2>4, <2>5
<1>12. ASSUME NEW c \in Clients, Dashboard(c) PROVE UNCHANGED <<samples, recorded, pc, carried>>
  BY <1>12 DEF Dashboard, Subscribe, SendLatest, SendNext, Disconnect, Client, storeVars
<1>13. ASSUME UNCHANGED vars PROVE UNCHANGED <<samples, recorded, pc, carried>>
  BY <1>13 DEF vars, storeVars
<1>14. ASSUME NEW t \in Threads, Deliver(t)
       PROVE  Count(samples', e) + Adding("runner", e)' + Adding("consumer", e)' <= recorded'[e]
  <2>1. CASE Publish(t)
    BY <1>3, <1>8, <2>1
  <2>2. CASE Record(t) \/ Add(t)
    <3>1. PICK u \in Threads : u # t
      OBVIOUS
    <3>2. Count(samples', e) + Adding(t, e)' + Adding(u, e)' <= recorded'[e]
      BY <1>10, <1>11, <2>2, <3>1
    <3>3. Count(samples', e) \in Nat /\ Adding(t, e)' \in Nat /\ Adding(u, e)' \in Nat
      BY NextPipe, CountType DEF Adding, PipeInv, TypeOK
    <3> QED
      BY <3>1, <3>2, <3>3
  <2> QED
    BY <1>3, <1>9, <1>14, <2>1, <2>2 DEF Deliver
<1> QED
  BY <1>3, <1>4, <1>5, <1>6, <1>7, <1>12, <1>13, <1>14, <1>15 DEF Next, Runner, Consumer

LEMMA InitCounted == Init => CountedInv /\ WindowInv
<1> SUFFICES ASSUME Init PROVE CountedInv /\ WindowInv
  OBVIOUS
<1>1. CountedInv
  BY DEF Init, CountedInv
<1>2. ASSUME NEW e \in Events
      PROVE  Count(samples, e) + Adding("runner", e) + Adding("consumer", e) <= recorded[e]
  <2>1. Places(samples, e) = {}
    BY DEF Init, Places
  <2>2. Count(samples, e) = 0
    BY <2>1, FS_EmptySet DEF Count, Places
  <2> QED
    BY <2>2 DEF Init, Adding
<1> QED
  BY <1>1, <1>2 DEF WindowInv

\* The energy of an event counts twice only after a timeout or a lost commit, and
\* the window is never ahead of the tracker.
THEOREM RecordsAreSingle == Spec => []RecordedOnce
<1> DEFINE IInv == PipeInv /\ CountedInv /\ WindowInv
<1>1. Init => IInv
  BY InitPipe, InitCounted
<1>2. IInv /\ [Next]_vars => IInv'
  BY NextPipe, NextCounted, NextWindow
<1>3. IInv => RecordedOnce
  <2> SUFFICES ASSUME IInv, NEW e \in Events
               PROVE  /\ recorded[e] > 1 => e \in timedOut \cup redelivered
                      /\ Count(samples, e) <= recorded[e]
    BY DEF RecordedOnce, Count
  <2>1. recorded[e] \in Nat /\ Count(samples, e) \in Nat
    BY CountType DEF PipeInv, TypeOK
  <2>2. Adding("runner", e) \in Nat /\ Adding("consumer", e) \in Nat
    BY DEF Adding
  <2>3. Count(samples, e) + Adding("runner", e) + Adding("consumer", e) <= recorded[e]
    BY DEF WindowInv
  <2> QED
    BY <2>1, <2>2, <2>3 DEF CountedInv
<1> QED
  BY <1>1, <1>2, <1>3, PTL DEF Spec
-----------------------------------------------------------------------------
(* Nothing is lost on the way.                                                *)

LEMMA NextLocated == PipeInv /\ LocatedInv /\ [Next]_vars => LocatedInv'
<1> SUFFICES ASSUME PipeInv, LocatedInv, [Next]_vars PROVE LocatedInv'
  OBVIOUS
<1>1. /\ pc \in [Threads -> ProgramPoints] /\ carried \in [Threads -> Events \cup {None}]
      /\ recorded \in [Events -> Nat] /\ measured \in 0..MaxEvents /\ MaxEvents \in Nat
  BY PipelineAssumption DEF PipeInv, TypeOK
<1> USE DEF LocatedInv, Pending, Threads, Go, Notifying
<1>2. CASE Send
  BY <1>1, <1>2 DEF Send, Measure, storeVars, queueVars, Entries
<1>3. CASE SendFails \/ SendRaises
  BY <1>1, <1>3 DEF SendFails, SendRaises, Measure, storeVars, kafkaVars, queueVars, Entries
<1>4. CASE FlushEnds \/ FlushTimesOut
  BY <1>1, <1>4
     DEF FlushEnds, FlushTimesOut, storeVars, kafkaVars, runnerVars, queueVars, Entries
<1>5. ASSUME NEW e \in buffer, Write(e) \/ Retry(e) \/ GiveUp(e) PROVE LocatedInv'
  <2>1. topic' = topic \/ topic' = Append(topic, e)
    BY <1>5 DEF Write, Retry, GiveUp
  <2>2. Entries(topic) \subseteq Entries(topic') /\ (topic' = Append(topic, e) => e \in Entries(topic'))
    <3>1. CASE topic' = topic
      BY <3>1, TopicWritten
    <3>2. CASE topic' = Append(topic, e)
      BY <3>2, TopicWritten
    <3> QED
      BY <2>1, <3>1, <3>2
  <2>3. /\ UNCHANGED <<recorded, measured, pc, carried, aborted>>
        /\ givenUp \subseteq givenUp' /\ buffer \subseteq buffer' \cup {e}
        /\ e \in buffer' \/ e \in givenUp' \/ topic' = Append(topic, e)
    BY <1>5 DEF Write, Retry, GiveUp, Attempt, storeVars, runnerVars, queueVars
  <2> QED
    BY <2>2, <2>3
<1>7. CASE Join \/ Poll \/ Commit \/ Break
  <2>1. UNCHANGED <<buffer, topic, givenUp, aborted, recorded, measured, pc["runner"], carried["runner"]>>
    BY <1>1, <1>7 DEF Join, Poll, Commit, Break, storeVars, runnerVars, queueVars
  <2> QED
    BY <2>1 DEF Entries
<1>8. ASSUME NEW t \in Threads, Publish(t) PROVE LocatedInv'
  BY <1>1, <1>8 DEF Publish, storeVars, kafkaVars, runnerVars, queueVars, Entries
<1>9. ASSUME NEW t \in Threads, NEW c \in Clients, Notify(t, c) PROVE LocatedInv'
  <2>1. /\ UNCHANGED <<buffer, topic, givenUp, recorded, measured, carried>>
        /\ \A u \in Threads \ {t} : UNCHANGED pc[u]
        /\ pc'[t] \in Notifying \/ aborted' = aborted \cup {carried[t]}
        /\ aborted \subseteq aborted'
    BY <1>9, NotifyFrame DEF storeVars, kafkaVars, runnerVars
  <2> QED
    BY <2>1 DEF Entries
<1>10. ASSUME NEW t \in Threads, Record(t) PROVE LocatedInv'
  <2>1. carried[t] \in Events
    BY <1>10, EventCarried DEF Record, Delivering
  <2>2. recorded'[carried[t]] > 0 /\ \A e \in Events : recorded[e] > 0 => recorded'[e] > 0
    BY <1>1, <1>10, <2>1 DEF Record
  <2>3. 1..measured \subseteq Events
    BY <1>1 DEF Events
  <2>4. ASSUME NEW e \in Events, Pending("runner", e) PROVE recorded'[e] > 0 \/ Pending("runner", e)'
    BY <1>1, <1>10, <2>2, <2>4 DEF Record
  <2>5. UNCHANGED <<buffer, topic, givenUp, aborted, measured>>
    BY <1>10 DEF Record, kafkaVars, runnerVars, queueVars
  <2> QED
    BY <2>2, <2>3, <2>4, <2>5 DEF Entries
<1>11. ASSUME NEW t \in Threads, Add(t) PROVE LocatedInv'
  BY <1>1, <1>11 DEF Add, Rest, kafkaVars, runnerVars, queueVars, Entries
<1>12. ASSUME NEW c \in Clients, Dashboard(c) PROVE LocatedInv'
  BY <1>12
     DEF Dashboard, Subscribe, SendLatest, SendNext, Disconnect, Client, storeVars, kafkaVars,
         runnerVars, Entries
<1>13. CASE UNCHANGED vars
  BY <1>13 DEF vars, storeVars, kafkaVars, runnerVars, queueVars, Entries
<1> QED
  BY <1>2, <1>3, <1>4, <1>5, <1>7, <1>8, <1>9, <1>10, <1>11, <1>12, <1>13
     DEF Next, Runner, Consumer, Kafka, Deliver

\* The consumer leaves an event it is at only when the event is recorded.
LEMMA SettledStays ==
    ASSUME PipeInv, [Next]_vars, NEW e \in Events, Settled(e)
    PROVE  Settled(e)'
<1>1. /\ pc \in [Threads -> ProgramPoints] /\ carried \in [Threads -> Events \cup {None}]
      /\ recorded \in [Events -> Nat]
  BY DEF PipeInv, TypeOK
<1> USE <1>1 DEF Settled, Pending, Threads, Go, Notifying
<1>2. CASE Send \/ SendFails \/ SendRaises \/ FlushEnds \/ FlushTimesOut
  BY <1>2 DEF Send, SendFails, SendRaises, FlushEnds, FlushTimesOut, storeVars, kafkaVars, queueVars
<1>3. CASE Kafka
  BY <1>3 DEF Kafka, Write, Retry, GiveUp, Attempt, storeVars, queueVars
<1>4. CASE Join \/ Poll
  <2>1. /\ ~Pending("consumer", e) /\ recorded' = recorded /\ skipped \subseteq skipped'
        /\ aborted' = aborted
    BY <1>4 DEF Join, Poll, storeVars, queueVars
  <2> QED
    BY <2>1
<1>5. CASE Commit \/ Break
  BY <1>5 DEF Commit, Break, storeVars, queueVars
<1>6. ASSUME NEW t \in Threads, Publish(t) PROVE Settled(e)'
  BY <1>6 DEF Publish, storeVars, kafkaVars, queueVars
<1>7. ASSUME NEW t \in Threads, NEW c \in Clients, Notify(t, c) PROVE Settled(e)'
  <2>1. /\ UNCHANGED <<skipped, recorded, carried>>
        /\ \A u \in Threads \ {t} : UNCHANGED pc[u]
        /\ pc'[t] \in Notifying \/ aborted' = aborted \cup {carried[t]}
        /\ aborted \subseteq aborted'
    BY <1>7, NotifyFrame DEF storeVars, kafkaVars
  <2> QED
    BY <2>1
<1>8. ASSUME NEW t \in Threads, Record(t) PROVE Settled(e)'
  <2>1. recorded'[e] = recorded[e] + (IF carried[t] = e THEN 1 ELSE 0)
    BY <1>8 DEF Record
  <2>2. carried[t] = e \/ Pending("consumer", e)' = Pending("consumer", e)
    BY <1>8 DEF Record
  <2> QED
    BY <1>8, <2>1, <2>2 DEF Record, kafkaVars, queueVars
<1>9. ASSUME NEW t \in Threads, Add(t) PROVE Settled(e)'
  BY <1>9 DEF Add, Rest, kafkaVars, queueVars
<1>10. ASSUME NEW c \in Clients, Dashboard(c) PROVE Settled(e)'
  BY <1>10
     DEF Dashboard, Subscribe, SendLatest, SendNext, Disconnect, Client, storeVars, kafkaVars
<1>11. CASE UNCHANGED vars
  BY <1>11 DEF vars, storeVars, kafkaVars, queueVars
<1> QED
  BY <1>2, <1>3, <1>4, <1>5, <1>6, <1>7, <1>8, <1>9, <1>10, <1>11
     DEF Next, Runner, Consumer, Deliver

LEMMA NextPast == PipeInv /\ PastInv /\ [Next]_vars => PastInv'
<1> SUFFICES ASSUME PipeInv, PastInv, [Next]_vars,
                    NEW i \in 1..position', NEW e, e = topic'[i]
             PROVE  Settled(e)'
  BY DEF PastInv
<1>1. /\ topic \in Seq(Events) /\ position \in 0..Len(topic)
      /\ committed \in Nat /\ committed <= position + 1
  BY DEF PipeInv, TypeOK, OrderInv
<1>2. ASSUME i \in 1..position, e = topic[i] PROVE Settled(e)'
  <2>1. e \in Events /\ Settled(e)
    BY <1>1, <1>2 DEF PastInv
  <2> QED
    BY <2>1, SettledStays
<1>3. ASSUME NEW f \in buffer, Write(f) \/ Retry(f) \/ GiveUp(f) PROVE Settled(e)'
  <2>1. position' = position /\ (topic' = topic \/ topic' = Append(topic, f))
    BY <1>3 DEF Write, Retry, GiveUp, Attempt
  <2>2. i \in 1..position /\ topic'[i] = topic[i]
    <3>1. CASE topic' = topic
      BY <2>1, <3>1
    <3>2. CASE topic' = Append(topic, f)
      BY <1>1, <2>1, <3>2, TopicWritten
    <3> QED
      BY <2>1, <3>1, <3>2
  <2> QED
    BY <1>2, <2>2
<1>4. CASE Join
  <2>1. position' = FirstPosition /\ e = topic[i]
    BY <1>4 DEF Join
  <2>2. CASE committed = None
    <3>1. skipped' = skipped \cup Entries(SubSeq(topic, position + 1, Len(topic)))
      BY <1>4, <2>2 DEF Join
    <3>2. Entries(SubSeq(topic, position + 1, Len(topic)))
            = {topic[k] : k \in (position + 1)..Len(topic)}
      BY <1>1, RestEntries
    <3>3. i \in 1..position \/ i \in (position + 1)..Len(topic)
      BY <1>1, <2>1, <2>2 DEF FirstPosition
    <3>4. i \in (position + 1)..Len(topic) => e \in skipped'
      BY <2>1, <3>1, <3>2
    <3> QED
      BY <1>2, <2>1, <3>3, <3>4 DEF Settled
  <2>3. CASE committed # None
    <3>1. i \in 1..position
      BY <1>1, <2>1, <2>3 DEF FirstPosition
    <3> QED
      BY <1>2, <2>1, <3>1
  <2> QED
    BY <2>2, <2>3
<1>5. CASE Poll
  <2>1. position' = position + 1 /\ e = topic[i]
    BY <1>5 DEF Poll
  <2>2. i = position + 1 => Pending("consumer", e)'
    BY <1>5, <2>1 DEF Poll, Pending, Go, PipeInv, TypeOK, Threads, ProgramPoints, Notifying
  <2>3. i \in 1..position \/ i = position + 1
    BY <1>1, <2>1
  <2> QED
    BY <1>2, <2>1, <2>2, <2>3 DEF Settled
<1>6. CASE UNCHANGED <<topic, position>>
  BY <1>2, <1>6
<1>7. ASSUME NEW t \in Threads, NEW c \in Clients, Notify(t, c) PROVE UNCHANGED <<topic, position>>
  BY <1>7, NotifyFrame DEF kafkaVars
<1> QED
  BY <1>3, <1>4, <1>5, <1>6, <1>7
     DEF Next, Runner, Consumer, Kafka, Deliver, Send, SendFails, SendRaises, FlushEnds,
         FlushTimesOut, Commit, Break, Publish, Record, Add, Dashboard, Subscribe, SendLatest,
         SendNext, Disconnect, Client, kafkaVars, vars, Threads

\* A measured event is recorded in the end, or one can say where it is, or which of
\* the three losses nobody is told of it met.
THEOREM LossesAreTheThree == Spec => []NothingElseIsLost
<1> DEFINE IInv == PipeInv /\ LocatedInv /\ PastInv
<1>1. Init => IInv
  BY InitPipe DEF Init, LocatedInv, PastInv
<1>2. IInv /\ [Next]_vars => IInv'
  BY NextPipe, NextLocated, NextPast
<1>3. IInv => NothingElseIsLost
  <2> SUFFICES ASSUME IInv, NEW e \in 1..measured
               PROVE  recorded[e] > 0 \/ Carried(e) \/ e \in buffer \/ Ahead(e) \/ e \in Lost
    BY DEF NothingElseIsLost
  <2>1. \A t \in Threads : Pending(t, e) => Carried(e)
    BY DEF Pending, Carried, Notifying
  <2>2. CASE e \in Entries(topic)
    <3>1. topic \in Seq(Events) /\ position \in 0..Len(topic)
      BY DEF PipeInv, TypeOK
    <3>2. PICK i \in 1..Len(topic) : e = topic[i]
      BY <2>2 DEF Entries
    <3>3. CASE i \in 1..position
      BY <2>1, <3>2, <3>3 DEF PastInv, Settled, Threads, Lost
    <3>4. CASE i \in (position + 1)..Len(topic)
      BY <3>1, <3>2, <3>4, RestEntries DEF Ahead
    <3> QED
      BY <3>1, <3>3, <3>4
  <2> QED
    BY <2>1, <2>2 DEF LocatedInv, Threads, Lost
<1> QED
  BY <1>1, <1>2, <1>3, PTL DEF Spec
-----------------------------------------------------------------------------
(* The latest telemetry goes forward.                                         *)

LEMMA NextLatest == PipeInv /\ LatestInv /\ [Next]_vars => LatestInv'
<1> SUFFICES ASSUME PipeInv, LatestInv, [Next]_vars PROVE LatestInv'
  OBVIOUS
<1> USE DEF LatestInv
<1>1. ASSUME NEW t \in Threads, Publish(t) PROVE LatestInv'
  <2>1. /\ carried[t] \in degraded \cup consumed
        /\ degraded \cup consumed \subseteq 1..measured
    BY <1>1 DEF Publish, Go, Threads, PipeInv, CarriedInv, OrderInv, Delivering
  <2> QED
    BY <1>1, <2>1 DEF Publish, kafkaVars, runnerVars, PipeInv, TypeOK
<1>2. ASSUME latest' = latest, degraded \subseteq degraded', consumed \subseteq consumed',
             measured \in Nat, measured' \in {measured, measured + 1}, latest \in Nat
      PROVE  LatestInv'
  BY <1>2
<1>3. measured \in Nat /\ latest \in Nat
  BY DEF PipeInv, TypeOK, Events
<1>4. CASE Send \/ SendFails \/ SendRaises \/ FlushEnds \/ FlushTimesOut
  BY <1>2, <1>3, <1>4
     DEF Send, SendFails, SendRaises, Measure, FlushEnds, FlushTimesOut, stateVars, kafkaVars,
         runnerVars
<1>5. CASE Kafka \/ Join \/ Poll \/ Commit \/ Break
  BY <1>2, <1>3, <1>5
     DEF Kafka, Write, Retry, GiveUp, Attempt, Join, Poll, Commit, Break, stateVars, runnerVars
<1>6. ASSUME NEW t \in Threads, Record(t) \/ Add(t) PROVE LatestInv'
  BY <1>2, <1>3, <1>6 DEF Record, Add, stateVars, kafkaVars, runnerVars
<1>9. ASSUME NEW t \in Threads, NEW c \in Clients, Notify(t, c) PROVE LatestInv'
  BY <1>2, <1>3, <1>9, NotifyFrame DEF stateVars, kafkaVars, runnerVars
<1>7. ASSUME NEW c \in Clients, Dashboard(c) PROVE LatestInv'
  BY <1>2, <1>3, <1>7
     DEF Dashboard, Subscribe, SendLatest, SendNext, Disconnect, Client, kafkaVars, runnerVars
<1>8. CASE UNCHANGED vars
  BY <1>2, <1>3, <1>8 DEF vars, stateVars, kafkaVars, runnerVars
<1> QED
  BY <1>1, <1>4, <1>5, <1>6, <1>7, <1>8, <1>9 DEF Next, Runner, Consumer, Deliver, Threads

LEMMA TopicFacts ==
    ASSUME PipeInv
    PROVE  /\ Len(topic) \in Nat /\ position \in 0..Len(topic)
           /\ committed \in Nat /\ committed <= position + 1
           /\ \A i, j \in 1..Len(topic) : i < j /\ topic[j] \notin retried => topic[i] < topic[j]
           /\ \A i \in 1..Len(topic) : topic[i] \in Nat
<1>1. topic \in Seq(Events) /\ Events \subseteq Nat
  BY DEF PipeInv, TypeOK, Events
<1>2. \A i \in 1..Len(topic) : topic[i] \in Events
  BY <1>1
<1>3. \A i \in 1..Len(topic) : topic[i] \in Nat
  BY <1>1, <1>2
<1> QED
  BY <1>3 DEF PipeInv, TypeOK, OrderInv

LEMMA NextNoGap == PipeInv /\ NoGapInv /\ [Next]_vars => NoGapInv'
<1> SUFFICES ASSUME PipeInv, [Next]_vars, NEW r \in 0..Len(topic), BeenAt(r)
             PROVE  \E s \in 0..Len(topic') : BeenAt(s)'
  BY DEF NoGapInv
<1>1. /\ Len(topic) \in Nat /\ position \in 0..Len(topic)
      /\ committed \in Nat /\ committed <= position + 1
      /\ position <= r /\ consumed \subseteq {topic[i] : i \in 1..r}
      /\ \A i \in (position + 1)..r : topic[i] \in consumed
      /\ committed # None => \A i \in committed..r : topic[i] \in consumed
  BY TopicFacts DEF BeenAt
<1>2. ASSUME NEW e \in buffer, Write(e) \/ Retry(e) \/ GiveUp(e)
      PROVE  \E s \in 0..Len(topic') : BeenAt(s)'
  <2>1. /\ UNCHANGED <<position, committed, consumed>>
        /\ topic' = topic \/ topic' = Append(topic, e)
    BY <1>2 DEF Write, Retry, GiveUp, Attempt
  <2>2. r \in 0..Len(topic') /\ \A i \in 1..r : topic'[i] = topic[i]
    <3>1. CASE topic' = topic
      BY <3>1
    <3>2. CASE topic' = Append(topic, e)
      BY <1>1, <3>2, TopicWritten
    <3> QED
      BY <2>1, <3>1, <3>2
  <2>3. committed # None => committed >= 1
    BY <1>1
  <2>4. /\ consumed \subseteq {topic'[i] : i \in 1..r}
        /\ \A i \in (position + 1)..r : topic'[i] \in consumed
        /\ committed # None => \A i \in committed..r : topic'[i] \in consumed
    BY <1>1, <2>2, <2>3
  <2> QED
    BY <1>1, <2>1, <2>2, <2>4 DEF BeenAt
<1>3. CASE Join
  <2>1. position' = FirstPosition /\ UNCHANGED <<topic, committed, consumed>>
    BY <1>3 DEF Join
  <2>2. CASE committed = None
    <3>1. position' = Len(topic)
      BY <2>1, <2>2 DEF FirstPosition
    <3>2. consumed \subseteq {topic[i] : i \in 1..Len(topic)}
      BY <1>1
    <3> QED
      BY <1>1, <2>1, <2>2, <3>1, <3>2 DEF BeenAt
  <2>3. CASE committed # None
    <3>1. position' = committed - 1
      BY <2>1, <2>3 DEF FirstPosition
    <3>2. BeenAt(r)'
      BY <1>1, <2>1, <2>3, <3>1 DEF BeenAt
    <3> QED
      BY <2>1, <3>2
  <2> QED
    BY <2>2, <2>3
<1>4. CASE Poll
  <2>1. /\ position < Len(topic) /\ position' = position + 1
        /\ consumed' = consumed \cup {topic[position + 1]}
        /\ UNCHANGED <<topic, committed>>
    BY <1>4 DEF Poll
  <2>2. CASE position < r
    <3>1. consumed' = consumed
      BY <1>1, <2>1, <2>2
    <3> QED
      BY <1>1, <2>1, <2>2, <3>1 DEF BeenAt
  <2>3. CASE position = r
    <3>1. /\ consumed' \subseteq {topic[i] : i \in 1..(r + 1)}
          /\ \A i \in (position' + 1)..(r + 1) : topic[i] \in consumed'
          /\ committed # None => \A i \in committed..(r + 1) : topic[i] \in consumed'
      BY <1>1, <2>1, <2>3
    <3>2. r + 1 \in 0..Len(topic')
      BY <1>1, <2>1, <2>3
    <3>3. BeenAt(r + 1)'
      BY <2>1, <2>3, <3>1 DEF BeenAt
    <3> QED
      BY <3>2, <3>3
  <2> QED
    BY <1>1, <2>2, <2>3
<1>5. CASE Commit \/ Break
  <2>1. /\ committed' \in {committed, position + 1}
        /\ UNCHANGED <<topic, position, consumed>>
    BY <1>5 DEF Commit, Break
  <2> QED
    BY <1>1, <2>1 DEF BeenAt
<1>6. CASE UNCHANGED <<topic, position, committed, consumed>>
  BY <1>6 DEF BeenAt
<1>7. ASSUME NEW t \in Threads, NEW c \in Clients, Notify(t, c)
      PROVE  UNCHANGED <<topic, position, committed, consumed>>
  BY <1>7, NotifyFrame DEF kafkaVars
<1> QED
  BY <1>2, <1>3, <1>4, <1>5, <1>6, <1>7
     DEF Next, Runner, Consumer, Kafka, Deliver, Send, SendFails, SendRaises, FlushEnds,
         FlushTimesOut, Publish, Record, Add, Dashboard, Subscribe, SendLatest, SendNext,
         Disconnect, Client, kafkaVars, vars, Threads

LEMMA NextNewest == PipeInv /\ NoGapInv /\ NewestInv /\ [Next]_vars => NewestInv'
<1> SUFFICES ASSUME PipeInv, NoGapInv, NewestInv, [Next]_vars PROVE NewestInv'
  OBVIOUS
<1>1. pc \in [Threads -> ProgramPoints] /\ carried \in [Threads -> Events \cup {None}]
  BY DEF PipeInv, TypeOK
<1> USE DEF NewestInv, Threads, Go
<1>2. CASE Poll
  <2> DEFINE next == topic[position + 1]
  <2>1. /\ position < Len(topic) /\ carried'["consumer"] = next
        /\ consumed' = consumed \cup {next} /\ redelivered' = redelivered \cup ({next} \cap consumed)
        /\ retried' = retried
    BY <1>1, <1>2 DEF Poll
  <2>2. PICK r \in 0..Len(topic) : BeenAt(r)
    BY DEF NoGapInv
  <2>3. /\ Len(topic) \in Nat /\ position \in 0..Len(topic)
        /\ \A i, j \in 1..Len(topic) : i < j /\ topic[j] \notin retried => topic[i] < topic[j]
        /\ \A i \in 1..Len(topic) : topic[i] \in Nat
    BY TopicFacts
  <2>4. next \in Nat
    BY <2>1, <2>3
  <2>5. ASSUME next \notin consumed \cup retried, NEW e \in consumed PROVE e <= next
    <3>1. r = position
      BY <2>2, <2>3, <2>5 DEF BeenAt
    <3>2. PICK k \in 1..position : e = topic[k]
      BY <2>2, <3>1 DEF BeenAt
    <3>3. topic[k] < topic[position + 1] /\ topic[k] \in Nat
      BY <2>1, <2>3, <2>5
    <3> QED
      BY <2>4, <3>2, <3>3
  <2> HIDE DEF next
  <2> QED
    BY <2>1, <2>4, <2>5
<1>3. ASSUME pc'["consumer"] # "publish" PROVE NewestInv'
  BY <1>3
<1>4. ASSUME UNCHANGED <<pc["consumer"], carried["consumer"], consumed, redelivered>>,
             retried \subseteq retried'
      PROVE  NewestInv'
  BY <1>4
<1>5. CASE Send \/ SendFails \/ SendRaises \/ FlushEnds \/ FlushTimesOut
  BY <1>1, <1>4, <1>5 DEF Send, SendFails, SendRaises, FlushEnds, FlushTimesOut, kafkaVars
<1>6. CASE Join \/ Break
  BY <1>1, <1>3, <1>6 DEF Join, Break
<1>7. CASE Commit \/ Kafka
  BY <1>4, <1>7 DEF Commit, Kafka, Write, Retry, GiveUp, Attempt
<1>8. ASSUME NEW t \in Threads, Publish(t) \/ Record(t) \/ Add(t) PROVE NewestInv'
  <2>1. UNCHANGED <<carried, consumed, redelivered, retried>>
    BY <1>8 DEF Publish, Record, Add, kafkaVars
  <2>2. pc'["consumer"] # "publish" \/ UNCHANGED pc["consumer"]
    BY <1>1, <1>8 DEF Publish, Record, Add, Rest
  <2> QED
    BY <1>3, <1>4, <2>1, <2>2
<1>11. ASSUME NEW t \in Threads, NEW c \in Clients, Notify(t, c) PROVE NewestInv'
  <2>1. UNCHANGED <<carried, consumed, redelivered, retried>>
    BY <1>11, NotifyFrame DEF kafkaVars
  <2>2. pc'["consumer"] # "publish" \/ UNCHANGED pc["consumer"]
    BY <1>11, NotifyFrame DEF Rest, Notifying
  <2> QED
    BY <1>3, <1>4, <2>1, <2>2
<1>9. ASSUME NEW c \in Clients, Dashboard(c) PROVE NewestInv'
  BY <1>4, <1>9 DEF Dashboard, Subscribe, SendLatest, SendNext, Disconnect, Client, kafkaVars
<1>10. CASE UNCHANGED vars
  BY <1>4, <1>10 DEF vars, kafkaVars
<1> QED
  BY <1>2, <1>5, <1>6, <1>7, <1>8, <1>9, <1>10, <1>11 DEF Next, Runner, Consumer, Deliver

\* The latest telemetry is replaced by an older one only when the runner's fallback
\* overtook Kafka, or when the consumer is handed an event again, or one that others
\* overtook while the producer retried it.
THEOREM LatestIsMonotonic == Spec => LatestGoesForward
<1> DEFINE IInv == PipeInv /\ LatestInv /\ NoGapInv /\ NewestInv
<1>1. Init => IInv
  BY InitPipe DEF Init, LatestInv, NoGapInv, BeenAt, NewestInv
<1>2. IInv /\ [Next]_vars => IInv'
  BY NextPipe, NextLatest, NextNoGap, NextNewest
<1>3. IInv /\ [Next]_vars
        => [latest' < latest => latest \in degraded \/ latest' \in redelivered \cup retried]_latest
  <2> SUFFICES ASSUME IInv, [Next]_vars, latest' # latest, latest' < latest
               PROVE  latest \in degraded \/ latest' \in redelivered \cup retried
    OBVIOUS
  <2>0. \A t \in Threads, c \in Clients : ~Notify(t, c)
    BY NotifyFrame DEF stateVars
  <2>1. PICK t \in Threads : Publish(t)
    BY <2>0
       DEF Next, Runner, Consumer, Kafka, Deliver, Send, SendFails, SendRaises, FlushEnds,
           FlushTimesOut, Write, Retry, GiveUp, Attempt, Join, Poll, Commit, Break, Record, Add,
           Dashboard, Subscribe, SendLatest, SendNext, Disconnect, Client, stateVars, vars, Threads
  <2>2. latest \in Nat /\ measured \in Nat /\ carried[t] \in Nat
    BY DEF PipeInv, TypeOK, Events
  <2>3. latest' = carried[t] /\ pc[t] = "publish"
    BY <2>1 DEF Publish, Go
  <2>4. t # "runner"
    BY <2>2, <2>3 DEF PipeInv, CarriedInv, LatestInv, Delivering
  <2>5. t = "consumer"
    BY <2>4 DEF Threads
  <2>6. latest # None
    BY <2>2, <2>3
  <2> QED
    BY <2>2, <2>3, <2>5, <2>6 DEF LatestInv, NewestInv
<1> QED
  BY <1>1, <1>2, <1>3, PTL DEF Spec, LatestGoesForward
-----------------------------------------------------------------------------
(* A dashboard that keeps up gets the latest telemetry.                       *)

LEMMA NextSubscribed == PipeInv /\ SubscribedInv /\ [Next]_vars => SubscribedInv'
<1> SUFFICES ASSUME PipeInv, SubscribedInv, [Next]_vars PROVE SubscribedInv'
  OBVIOUS
<1> USE DEF SubscribedInv, Threads
<1>1. /\ client \in [Clients -> {"out", "read", "wait", "gone"}]
      /\ targets \in [Threads -> SUBSET Clients]
  BY DEF PipeInv, TypeOK
<1>2. ASSUME NEW c \in Clients, Dashboard(c) PROVE SubscribedInv'
  BY <1>1, <1>2 DEF Dashboard, Subscribe, SendLatest, SendNext, Disconnect, Client
<1>3. CASE UNCHANGED <<client, subscribers, targets>>
  BY <1>3
<1>4. CASE Send \/ SendFails \/ SendRaises \/ FlushEnds \/ FlushTimesOut \/ Join \/ Poll \/ Commit
           \/ Break \/ Kafka \/ UNCHANGED vars
  BY <1>3, <1>4
     DEF Send, SendFails, SendRaises, FlushEnds, FlushTimesOut, Join, Poll, Commit, Break, Kafka,
         Write, Retry, GiveUp, Attempt, stateVars, clientVars, vars
<1>5. ASSUME NEW t \in Threads, Publish(t) PROVE SubscribedInv'
  BY <1>1, <1>5 DEF Publish, clientVars
<1>6. ASSUME NEW t \in Threads, Record(t) \/ Add(t) PROVE SubscribedInv'
  BY <1>3, <1>6 DEF Record, Add, stateVars, clientVars
<1>7. ASSUME NEW t \in Threads, NEW c \in Clients, Notify(t, c) PROVE SubscribedInv'
  <2>1. /\ UNCHANGED <<client, subscribers>> /\ \A u \in Threads : targets'[u] \subseteq targets[u]
    BY <1>7, NotifyFrame DEF stateVars, clientVars
  <2> QED
    BY <2>1
<1> QED
  BY <1>2, <1>4, <1>5, <1>6, <1>7 DEF Next, Runner, Consumer, Deliver

\* What was in a queue, or shown, stays one of the two while its dashboard is connected.
LEMMA QueueKeeps ==
    ASSUME PipeInv, [Next]_vars, NEW c \in Clients, NEW e, client'[c] \in {"read", "wait"},
           client[c] # "out", e \in shown[c] \cup Entries(queue[c])
    PROVE  e \in shown'[c] \cup Entries(queue'[c])
<1>1. /\ client \in [Clients -> {"out", "read", "wait", "gone"}]
      /\ shown \in [Clients -> SUBSET Events] /\ DOMAIN queue = Clients
      /\ queue[c] \in Seq(Events)
  BY DEF PipeInv, TypeOK
<1>2. CASE UNCHANGED <<shown[c], queue[c]>>
  BY <1>2
<1>3. ASSUME NEW t \in Threads, NEW d \in Clients, Notify(t, d)
      PROVE  e \in shown'[c] \cup Entries(queue'[c])
  <2>1. shown' = shown
    BY <1>3, NotifyFrame DEF clientVars
  <2>2. CASE Put(t, d)
    <3>1. carried[t] \in Events
      BY <2>2, EventCarried DEF Put, Go, Delivering, Notifying
    <3>2. queue' = [queue EXCEPT ![d] = Append(queue[d], carried[t])]
      BY <2>2 DEF Put
    <3>3. CASE d = c
      <4>1. queue'[c] = Append(queue[c], carried[t])
        BY <1>1, <3>2, <3>3
      <4>2. Entries(queue[c]) \subseteq Entries(queue'[c])
        BY <1>1, <3>1, <4>1, AppendEntries
      <4> QED
        BY <2>1, <4>2
    <3>4. CASE d # c
      BY <1>1, <1>2, <2>1, <3>2, <3>4
    <3> QED
      BY <3>3, <3>4
  <2>3. CASE ~Put(t, d)
    BY <1>2, <1>3, <2>1, <2>3 DEF Notify, FindFull, FindRoom, Wake, WakeFails
  <2> QED
    BY <2>2, <2>3
<1>4. ASSUME NEW d \in Clients, Subscribe(d) \/ Disconnect(d)
      PROVE  e \in shown'[c] \cup Entries(queue'[c])
  <2>1. d # c
    BY <1>1, <1>4 DEF Subscribe, Disconnect, Client
  <2> QED
    BY <1>1, <1>2, <1>4, <2>1 DEF Subscribe, Disconnect
<1>5. ASSUME NEW d \in Clients, SendLatest(d) PROVE e \in shown'[c] \cup Entries(queue'[c])
  BY <1>1, <1>5 DEF SendLatest
<1>6. ASSUME NEW d \in Clients, SendNext(d) PROVE e \in shown'[c] \cup Entries(queue'[c])
  <2>1. CASE d = c
    <3>1. queue'[c] = Tail(queue[c]) /\ shown'[c] = shown[c] \cup {Head(queue[c])} /\ queue[c] # <<>>
      BY <1>1, <1>6, <2>1 DEF SendNext
    <3>2. Entries(queue[c]) = {Head(queue[c])} \cup Entries(queue'[c])
      BY <1>1, <3>1, TailEntries
    <3> QED
      BY <3>1, <3>2
  <2>2. CASE d # c
    BY <1>1, <1>2, <1>6, <2>2 DEF SendNext
  <2> QED
    BY <2>1, <2>2
<1>7. CASE Send \/ SendFails \/ SendRaises \/ FlushEnds \/ FlushTimesOut \/ Join \/ Poll \/ Commit
           \/ Break \/ Kafka \/ UNCHANGED vars
  BY <1>2, <1>7
     DEF Send, SendFails, SendRaises, FlushEnds, FlushTimesOut, Join, Poll, Commit, Break, Kafka,
         Write, Retry, GiveUp, Attempt, queueVars, clientVars, vars
<1>8. ASSUME NEW t \in Threads, Publish(t) \/ Record(t) \/ Add(t)
      PROVE  e \in shown'[c] \cup Entries(queue'[c])
  BY <1>2, <1>8 DEF Publish, Record, Add, queueVars, clientVars
<1> QED
  BY <1>3, <1>4, <1>5, <1>6, <1>7, <1>8 DEF Next, Runner, Consumer, Deliver, Dashboard, Threads

LEMMA NextAimed == PipeInv /\ AimedInv /\ [Next]_vars => AimedInv'
<1> SUFFICES ASSUME PipeInv, AimedInv, [Next]_vars,
                    NEW t \in Threads, pc'[t] \in {"put", "wake"}
             PROVE  \E c \in targets'[t] : putting'[t] = {c}
  BY DEF AimedInv
<1> USE DEF Threads, Go, AimedInv
<1>1. /\ pc \in [Threads -> ProgramPoints] /\ putting \in [Threads -> SUBSET Clients]
      /\ targets \in [Threads -> SUBSET Clients]
  BY DEF PipeInv, TypeOK
<1>2. CASE UNCHANGED <<pc[t], putting[t], targets[t]>>
  BY <1>2
<1>3. CASE Send \/ SendFails \/ SendRaises \/ FlushEnds \/ FlushTimesOut \/ Join \/ Poll \/ Commit
           \/ Break \/ Kafka \/ UNCHANGED vars
  BY <1>1, <1>2, <1>3
     DEF Send, SendFails, SendRaises, FlushEnds, FlushTimesOut, Join, Poll, Commit, Break, Kafka,
         Write, Retry, GiveUp, Attempt, queueVars, vars
<1>4. ASSUME NEW u \in Threads, Publish(u) \/ Record(u) \/ Add(u)
      PROVE  UNCHANGED <<pc[t], putting[t], targets[t]>>
  <2>1. u # t /\ UNCHANGED putting
    BY <1>1, <1>4 DEF Publish, Record, Add, Rest, queueVars
  <2> QED
    BY <1>1, <1>4, <2>1 DEF Publish, Record, Add
<1>5. ASSUME NEW u \in Threads, NEW d \in Clients, Notify(u, d), u # t
      PROVE  UNCHANGED <<pc[t], putting[t], targets[t]>>
  BY <1>5, NotifyFrame
<1>6. ASSUME NEW d \in Clients, Notify(t, d) PROVE \E c \in targets'[t] : putting'[t] = {c}
  <2>1. CASE FindRoom(t, d)
    BY <1>1, <2>1 DEF FindRoom
  <2>2. CASE Put(t, d)
    BY <1>1, <2>2 DEF Put
  <2> QED
    BY <1>1, <1>6, <2>1, <2>2 DEF Notify, FindFull, Wake, WakeFails, Rest
<1>7. ASSUME NEW d \in Clients, Dashboard(d) PROVE UNCHANGED <<pc[t], putting[t], targets[t]>>
  BY <1>7 DEF Dashboard, Subscribe, SendLatest, SendNext, Disconnect, Client
<1> QED
  BY <1>2, <1>3, <1>4, <1>5, <1>6, <1>7 DEF Next, Runner, Consumer, Deliver

\* A connected dashboard was subscribed before, but for the step in which it subscribes.
LEMMA WasConnected ==
    ASSUME PipeInv, [Next]_vars, NEW c \in Clients, client'[c] \in {"read", "wait"}, client[c] # "out"
    PROVE  client[c] \in {"read", "wait"}
<1>1. client \in [Clients -> {"out", "read", "wait", "gone"}]
  BY DEF PipeInv, TypeOK
<1>2. ASSUME NEW d \in Clients, Dashboard(d) PROVE client[c] \in {"read", "wait"}
  BY <1>1, <1>2 DEF Dashboard, Subscribe, SendLatest, SendNext, Disconnect, Client
<1>3. ASSUME NEW t \in Threads, NEW d \in Clients, Notify(t, d) PROVE client' = client
  BY <1>3, NotifyFrame DEF clientVars
<1>4. CASE \A d \in Clients : ~Dashboard(d)
  <2>1. client' = client
    BY <1>3, <1>4
       DEF Next, Runner, Consumer, Kafka, Deliver, Send, SendFails, SendRaises, FlushEnds,
           FlushTimesOut, Write, Retry, GiveUp, Attempt, Join, Poll, Commit, Break, Publish,
           Record, Add, clientVars, vars, Threads
  <2> QED
    BY <2>1
<1> QED
  BY <1>2, <1>4

LEMMA NextWoken == PipeInv /\ SubscribedInv /\ AimedInv /\ WokenInv /\ [Next]_vars => WokenInv'
<1> SUFFICES ASSUME PipeInv, SubscribedInv, AimedInv, WokenInv, [Next]_vars,
                    NEW t \in Threads, NEW c \in Clients, pc'[t] = "wake", c \in putting'[t],
                    client'[c] \in {"read", "wait"}
             PROVE  carried'[t] \in shown'[c] \cup Entries(queue'[c])
  BY DEF WokenInv
<1> USE DEF Threads, Go
<1>1. /\ pc \in [Threads -> ProgramPoints] /\ putting \in [Threads -> SUBSET Clients]
      /\ queue \in [Clients -> Seq(Events)]
      /\ carried \in [Threads -> Events \cup {None}]
  BY DEF PipeInv, TypeOK
<1>2. ASSUME UNCHANGED <<pc[t], putting[t], carried[t]>>
      PROVE  carried'[t] \in shown'[c] \cup Entries(queue'[c])
  <2>1. c \in targets[t]
    BY <1>2 DEF AimedInv
  <2>2. client[c] # "out"
    BY <2>1 DEF SubscribedInv
  <2>3. client[c] \in {"read", "wait"}
    BY <2>2, WasConnected
  <2>4. carried[t] \in shown[c] \cup Entries(queue[c])
    BY <1>2, <2>3 DEF WokenInv
  <2> QED
    BY <1>2, <2>2, <2>4, QueueKeeps
<1>4. CASE Send \/ SendFails \/ SendRaises \/ FlushEnds \/ FlushTimesOut \/ Join \/ Poll \/ Commit
           \/ Break \/ Kafka \/ UNCHANGED vars
  <2>1. UNCHANGED <<pc[t], putting[t], carried[t]>>
    BY <1>1, <1>4
       DEF Send, SendFails, SendRaises, FlushEnds, FlushTimesOut, Join, Poll, Commit, Break, Kafka,
           Write, Retry, GiveUp, Attempt, queueVars, vars
  <2> QED
    BY <1>2, <2>1
<1>5. ASSUME NEW u \in Threads, Publish(u) \/ Record(u) \/ Add(u)
      PROVE  UNCHANGED <<pc[t], putting[t], carried[t]>>
  BY <1>1, <1>5 DEF Publish, Record, Add, Rest, queueVars
<1>6. ASSUME NEW u \in Threads, NEW d \in Clients, Notify(u, d), u # t
      PROVE  UNCHANGED <<pc[t], putting[t], carried[t]>>
  BY <1>6, NotifyFrame
<1>7. ASSUME NEW d \in Clients, Notify(t, d)
      PROVE  carried'[t] \in shown'[c] \cup Entries(queue'[c])
  <2>1. Put(t, d)
    BY <1>1, <1>7 DEF Notify, FindFull, FindRoom, Put, Wake, WakeFails, Rest
  <2>2. carried[t] \in Events
    BY <2>1, EventCarried DEF Put, Delivering, Notifying
  <2>3. /\ queue' = [queue EXCEPT ![d] = Append(queue[d], carried[t])]
        /\ UNCHANGED <<putting, carried>> /\ d \in putting[t] /\ pc[t] = "put"
    BY <2>1 DEF Put
  <2>4. d = c
    BY <2>3 DEF AimedInv
  <2>5. queue'[c] = Append(queue[c], carried[t])
    BY <1>1, <2>3, <2>4
  <2>6. carried[t] \in Entries(queue'[c])
    BY <1>1, <2>2, <2>5, AppendEntries
  <2> QED
    BY <2>3, <2>6
<1>8. ASSUME NEW d \in Clients, Dashboard(d) PROVE UNCHANGED <<pc[t], putting[t], carried[t]>>
  BY <1>8 DEF Dashboard, Subscribe, SendLatest, SendNext, Disconnect, Client
<1> QED
  BY <1>2, <1>4, <1>5, <1>6, <1>7, <1>8 DEF Next, Runner, Consumer, Deliver

\* What the dashboard c has been shown, or will be.
Reaches(c, e) ==
    \/ e \in shown[c] \cup Entries(queue[c])
    \/ \E t \in Threads : c \in targets[t] /\ carried[t] = e

\* An event that is on its way to a dashboard gets there, but for a full queue and an
\* exception.
LEMMA ReachesStays ==
    ASSUME PipeInv, SubscribedInv, AimedInv, WokenInv, [Next]_vars, NEW c \in Clients,
           NEW e \in Events, client[c] \in {"read", "wait"}, client'[c] \in {"read", "wait"},
           c \notin overflowed', e \notin aborted', Reaches(c, e),
           ~(\E t \in Threads : Publish(t))
    PROVE  Reaches(c, e)'
<1>1. /\ carried \in [Threads -> Events \cup {None}]
      /\ targets \in [Threads -> SUBSET Clients]
  BY DEF PipeInv, TypeOK
<1>2. \A t \in Threads : pc[t] \notin Notifying => targets[t] = {}
  BY DEF PipeInv, CarriedInv
<1>3. CASE e \in shown[c] \cup Entries(queue[c])
  BY <1>3, QueueKeeps DEF Reaches
<1>4. ASSUME NEW t \in Threads, c \in targets[t], carried[t] = e PROVE Reaches(c, e)'
  <2>1. CASE c \in targets'[t] /\ carried'[t] = e
    BY <2>1 DEF Reaches
  <2>2. pc[t] \in Notifying
    BY <1>2, <1>4
  <2>3. CASE Send \/ SendFails \/ SendRaises \/ FlushEnds \/ FlushTimesOut \/ Join \/ Poll \/ Commit
             \/ Break \/ Kafka \/ UNCHANGED vars
    <3>1. c \in targets'[t] /\ carried'[t] = e
      BY <1>1, <1>4, <2>2, <2>3
         DEF Send, SendFails, SendRaises, FlushEnds, FlushTimesOut, Join, Poll, Commit, Break,
             Kafka, Write, Retry, GiveUp, Attempt, Go, Threads, Notifying, vars
    <3> QED
      BY <2>1, <3>1
  <2>4. ASSUME NEW u \in Threads, Record(u) \/ Add(u) PROVE Reaches(c, e)'
    BY <1>4, <2>1, <2>4 DEF Record, Add
  <2>5. ASSUME NEW d \in Clients, Dashboard(d) PROVE Reaches(c, e)'
    BY <1>4, <2>1, <2>5 DEF Dashboard, Subscribe, SendLatest, SendNext, Disconnect, Client
  <2>6. ASSUME NEW u \in Threads, NEW d \in Clients, Notify(u, d), u # t PROVE Reaches(c, e)'
    BY <1>4, <2>1, <2>6, NotifyFrame
  <2>7. ASSUME NEW d \in Clients, Notify(t, d) PROVE Reaches(c, e)'
    <3>1. CASE FindFull(t, d)
      BY <1>1, <1>4, <2>1, <3>1 DEF FindFull
    <3>2. CASE FindRoom(t, d)
      BY <1>4, <2>1, <3>2 DEF FindRoom
    <3>3. CASE Put(t, d)
      BY <1>4, <2>1, <3>3 DEF Put
    <3>4. CASE Wake(t, d)
      <4>1. CASE d = c
        <5>1. carried[t] \in shown[c] \cup Entries(queue[c])
          BY <3>4, <4>1 DEF Wake, Go, WokenInv
        <5> QED
          BY <1>4, <5>1, QueueKeeps DEF Reaches
      <4>2. CASE d # c
        BY <1>1, <1>4, <2>1, <3>4, <4>2 DEF Wake
      <4> QED
        BY <4>1, <4>2
    <3>5. ~WakeFails(t, d)
      BY <1>4 DEF WakeFails
    <3> QED
      BY <2>7, <3>1, <3>2, <3>3, <3>4, <3>5 DEF Notify
  <2> QED
    BY <2>3, <2>4, <2>5, <2>6, <2>7 DEF Next, Runner, Consumer, Deliver, Threads
<1> QED
  BY <1>3, <1>4 DEF Reaches

LEMMA NextDashboard ==
    /\ PipeInv /\ SubscribedInv /\ AimedInv /\ WokenInv /\ DashboardGetsLatest /\ [Next]_vars
        => DashboardGetsLatest'
<1> SUFFICES ASSUME PipeInv, SubscribedInv, AimedInv, WokenInv, DashboardGetsLatest, [Next]_vars,
                    NEW c \in Clients, client'[c] = "wait", c \notin overflowed',
                    NEW e, e = latest', e # None, e \notin aborted'
             PROVE  Reaches(c, e)'
  BY DEF DashboardGetsLatest, Reaches
<1>1. /\ client \in [Clients -> {"out", "read", "wait", "gone"}]
      /\ shown \in [Clients -> SUBSET Events] /\ targets \in [Threads -> SUBSET Clients]
  BY DEF PipeInv, TypeOK
<1>2. ASSUME NEW t \in Threads, Publish(t) PROVE Reaches(c, e)'
  <2>1. c \in subscribers
    BY <1>2 DEF Publish, clientVars, SubscribedInv
  <2>2. c \in targets'[t] /\ carried'[t] = e
    BY <1>1, <1>2, <2>1 DEF Publish
  <2> QED
    BY <2>2 DEF Reaches
<1>3. CASE SendLatest(c)
  BY <1>1, <1>3 DEF SendLatest, Client, Reaches
<1>4. ASSUME ~SendLatest(c), ~(\E t \in Threads : Publish(t)) PROVE Reaches(c, e)'
  <2>1. latest' = latest /\ client[c] = "wait" /\ c \notin overflowed /\ aborted \subseteq aborted'
    <3>1. CASE Send \/ SendFails \/ SendRaises \/ FlushEnds \/ FlushTimesOut \/ Join \/ Poll \/ Commit
               \/ Break \/ Kafka \/ UNCHANGED vars
      BY <3>1
         DEF Send, SendFails, SendRaises, FlushEnds, FlushTimesOut, Join, Poll, Commit, Break,
             Kafka, Write, Retry, GiveUp, Attempt, stateVars, clientVars, queueVars, vars
    <3>2. ASSUME NEW t \in Threads, Record(t) \/ Add(t)
          PROVE  latest' = latest /\ client[c] = "wait" /\ c \notin overflowed /\ aborted' = aborted
      BY <3>2 DEF Record, Add, stateVars, clientVars, queueVars
    <3>3. ASSUME NEW t \in Threads, NEW d \in Clients, Notify(t, d)
          PROVE  latest' = latest /\ client[c] = "wait" /\ c \notin overflowed
                 /\ aborted \subseteq aborted'
      BY <3>3, NotifyFrame DEF stateVars, clientVars
    <3>4. ASSUME NEW d \in Clients, Dashboard(d)
          PROVE  latest' = latest /\ client[c] = "wait" /\ c \notin overflowed /\ aborted' = aborted
      BY <1>1, <1>4, <3>4 DEF Dashboard, Subscribe, SendLatest, SendNext, Disconnect, Client
    <3> QED
      BY <1>4, <3>1, <3>2, <3>3, <3>4 DEF Next, Runner, Consumer, Deliver, Threads
  <2>2. e \in Events /\ Reaches(c, e)
    BY <2>1 DEF DashboardGetsLatest, Reaches, PipeInv, TypeOK
  <2> QED
    BY <1>4, <2>1, <2>2, ReachesStays
<1> QED
  BY <1>2, <1>3, <1>4

\* Between subscribing and reading no publication falls through: a dashboard whose
\* queue never was full has seen the latest telemetry, or is going to.
THEOREM DashboardsAreCurrent == Spec => []DashboardGetsLatest
<1> DEFINE IInv == PipeInv /\ SubscribedInv /\ AimedInv /\ WokenInv /\ DashboardGetsLatest
<1>1. Init => IInv
  BY InitPipe DEF Init, SubscribedInv, AimedInv, WokenInv, DashboardGetsLatest, Threads
<1>2. IInv /\ [Next]_vars => IInv'
  BY NextPipe, NextSubscribed, NextAimed, NextWoken, NextDashboard
<1> QED
  BY <1>1, <1>2, PTL DEF Spec
=============================================================================
