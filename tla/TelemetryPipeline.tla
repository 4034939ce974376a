-------------------------- MODULE TelemetryPipeline -------------------------
(* What happens to a measurement of the runner: it goes to Kafka              *)
(* (app/kafka/client.py), from where the consumer thread                      *)
(* (app/kafka/telemetry_consumer.py) delivers it to the building's state, the *)
(* energy tracker and the window (app/main.py 24-27); when it cannot be       *)
(* published the runner's thread delivers it itself                           *)
(* (app/simulation/energyplus_runner.py 635-639). The two threads deliver     *)
(* concurrently. The dashboard follows the state through a bounded queue.     *)
(*                                                                            *)
(* The k-th measurement is the event k. The producer's buffer and the topic   *)
(* belong to Kafka. The buffered events are sent in order; one whose attempt   *)
(* failed, or is not acknowledged, may be sent again by the producer, and     *)
(* those behind it may overtake it until then. One that is given up is gone,  *)
(* and nobody looks.                                                          *)
EXTENDS Integers, Sequences, FiniteSets

CONSTANTS
    Clients,                 \* the dashboards
    MaxQueue,                \* the capacity of a dashboard's queue, 100
    MaxSamples,              \* the size of the window
    MaxEvents,               \* bound: measurements
    MaxFaults                \* bound: attempts of the producer that fail, and errors of
                             \* the consumer's connection

ASSUME PipelineAssumption ==
    /\ MaxQueue \in Nat \ {0} /\ MaxSamples \in Nat \ {0}
    /\ MaxEvents \in Nat /\ MaxFaults \in Nat

Events == 1..MaxEvents

None == 0                    \* no event, no committed offset

Threads == {"runner", "consumer"}

\* The runner ticks and flushes, the consumer joins and polls, both deliver.
ProgramPoints ==
    {"tick", "flush", "join", "poll", "publish", "notify", "put", "wake", "add"}

\* Where a thread is when it is done with an event.
Rest(t) == IF t = "runner" THEN "tick" ELSE "poll"

VARIABLES
    measured,                \* how many events there are
    pc,                      \* the program point of each thread
    carried,                 \* the event each thread is about
    targets,                 \* the queues it has still to put it in
    putting,                 \* the one of them it found not to be full
    buffer,                  \* the events in the producer's buffer
    topic,                   \* the events in the topic
    committed,               \* the committed offset plus one, or None
    position,                \* how many events of the topic the consumer went past
    latest,                  \* _latest_telemetry
    client,                  \* the program point of each dashboard
    subscribers,             \* _subscribers
    queue,                   \* the queue of each dashboard
    samples,                 \* the window
    recorded,                \* history: how often each event was recorded
    shown,                   \* history: the events each dashboard was sent
    overflowed,              \* history: the dashboards whose queue was full
    degraded, timedOut,      \* history: delivered by the runner; after a timeout
    givenUp, skipped,        \* history: given up by the producer; skipped on a join
    retried,                 \* history: an attempt of the producer failed
    aborted,                 \* history: an exception ended what a thread did with it
    consumed, redelivered,   \* history: consumed once or more; more than once
    breaks                   \* how often the connection broke

stateVars == <<latest, subscribers>>
kafkaVars == <<buffer, topic, committed, position, givenUp, skipped, retried, consumed,
               redelivered, breaks>>
queueVars == <<queue, overflowed, putting, aborted>>
storeVars == <<samples, recorded>>
clientVars == <<client, shown>>
runnerVars == <<measured, degraded, timedOut>>
vars == <<stateVars, kafkaVars, storeVars, clientVars, runnerVars,
          queueVars, pc, carried, targets>>

Entries(s) == {s[i] : i \in 1..Len(s)}

Init ==
    /\ measured = 0
    /\ pc = [runner |-> "tick", consumer |-> "join"]
    /\ carried = [t \in Threads |-> None] /\ targets = [t \in Threads |-> {}]
    /\ putting = [t \in Threads |-> {}] /\ aborted = {}
    /\ buffer = {} /\ topic = <<>> /\ committed = None /\ position = 0
    /\ latest = None /\ subscribers = {}
    /\ client = [c \in Clients |-> "out"] /\ queue = [c \in Clients |-> <<>>]
    /\ shown = [c \in Clients |-> {}] /\ overflowed = {}
    /\ samples = <<>> /\ recorded = [e \in Events |-> 0]
    /\ degraded = {} /\ timedOut = {} /\ givenUp = {} /\ skipped = {} /\ retried = {}
    /\ consumed = {} /\ redelivered = {} /\ breaks = 0

Go(t, from, to) ==
    /\ pc[t] = from
    /\ pc' = [pc EXCEPT ![t] = to]
-----------------------------------------------------------------------------
(* The runner: tick_once after its cycle, and publish_telemetry_event.        *)

Measure == measured < MaxEvents /\ measured' = measured + 1

\* A cycle was measured, and the event is given to the producer.
Send ==
    /\ Go("runner", "tick", "flush")
    /\ Measure
    /\ carried' = [carried EXCEPT !["runner"] = measured + 1]
    /\ buffer' = buffer \cup {measured + 1}
    /\ UNCHANGED <<stateVars, storeVars, clientVars, queueVars, targets, topic, committed,
                   position, givenUp, skipped, retried, consumed, redelivered, breaks,
                   degraded, timedOut>>

\* There is no broker to make the producer with, or it cannot take the event.
SendFails ==
    /\ Go("runner", "tick", "publish")
    /\ Measure
    /\ carried' = [carried EXCEPT !["runner"] = measured + 1]
    /\ degraded' = degraded \cup {measured + 1}
    /\ UNCHANGED <<stateVars, storeVars, clientVars, kafkaVars, queueVars, targets, timedOut>>

\* Any other error while the producer is made leaves tick_once, which delivers nothing.
SendRaises ==
    /\ pc["runner"] = "tick"
    /\ Measure
    /\ aborted' = aborted \cup {measured + 1}
    /\ UNCHANGED <<stateVars, storeVars, clientVars, kafkaVars, pc, carried, targets, queue,
                   overflowed, putting, degraded, timedOut>>

\* Mutant of FlushEnds: the runner delivers what it published, too.
FlushEndsAndDeliver ==
    /\ Go("runner", "flush", "publish")
    /\ buffer = {}
    /\ UNCHANGED <<stateVars, storeVars, clientVars, kafkaVars, runnerVars, queueVars,
                   carried, targets>>

\* Everything left the buffer, written or given up.
FlushEnds ==
    /\ Go("runner", "flush", "tick")
    /\ buffer = {}
    /\ UNCHANGED <<stateVars, storeVars, clientVars, kafkaVars, runnerVars, queueVars,
                   carried, targets>>

\* A second went by: the event counts as not published, and stays in the buffer.
FlushTimesOut ==
    /\ Go("runner", "flush", "publish")
    /\ buffer # {}
    /\ degraded' = degraded \cup {carried["runner"]}
    /\ timedOut' = timedOut \cup {carried["runner"]}
    /\ UNCHANGED <<stateVars, storeVars, clientVars, kafkaVars, queueVars, measured,
                   carried, targets>>
-----------------------------------------------------------------------------
(* Kafka.                                                                     *)

FaultPossible == breaks + Cardinality(retried) < MaxFaults

\* The producer is at event e: those before it wait for their next attempt.
Attempt(e) ==
    /\ e \in buffer
    /\ \A f \in buffer : f < e => f \in retried
    /\ UNCHANGED <<stateVars, storeVars, clientVars, runnerVars, queueVars, pc, carried, targets,
                   committed, position, skipped, consumed, redelivered, breaks>>

Write(e) ==
    /\ Attempt(e)
    /\ buffer' = buffer \ {e} /\ topic' = Append(topic, e)
    /\ UNCHANGED <<givenUp, retried>>

\* The attempt fails, or its acknowledgement is lost: the producer is to retry.
Retry(e) ==
    /\ Attempt(e)
    /\ e \notin retried /\ FaultPossible
    /\ retried' = retried \cup {e}
    /\ topic' \in {topic, Append(topic, e)}
    /\ UNCHANGED <<buffer, givenUp>>

GiveUp(e) ==
    /\ Attempt(e)
    /\ buffer' = buffer \ {e} /\ givenUp' = givenUp \cup {e}
    /\ UNCHANGED <<topic, retried>>
-----------------------------------------------------------------------------
(* The consumer.                                                              *)

\* Mutant of FirstPosition: the consumer starts at the end each time.
AlwaysLatest == Len(topic)

\* auto_offset_reset="latest" applies when nothing was committed.
FirstPosition == IF committed = None THEN Len(topic) ELSE committed - 1

Join ==
    /\ Go("consumer", "join", "poll")
    /\ position' = FirstPosition
    /\ skipped' = IF committed = None
                  THEN skipped \cup Entries(SubSeq(topic, position + 1, Len(topic))) ELSE skipped
    /\ UNCHANGED <<stateVars, storeVars, clientVars, runnerVars, queueVars, carried, targets,
                   buffer, topic, committed, givenUp, retried, consumed, redelivered, breaks>>

\* The position moves before the handler sees the event.
Poll ==
    /\ Go("consumer", "poll", "publish")
    /\ position < Len(topic) /\ position' = position + 1
    /\ carried' = [carried EXCEPT !["consumer"] = topic[position + 1]]
    /\ consumed' = consumed \cup {topic[position + 1]}
    /\ redelivered' = redelivered \cup ({topic[position + 1]} \cap consumed)
    /\ UNCHANGED <<stateVars, storeVars, clientVars, runnerVars, queueVars, targets,
                   buffer, topic, committed, givenUp, skipped, retried, breaks>>

\* The automatic commit, between two events.
Commit ==
    /\ pc["consumer"] = "poll"
    /\ committed' = position + 1
    /\ UNCHANGED <<stateVars, storeVars, clientVars, runnerVars, queueVars, pc, carried, targets,
                   buffer, topic, position, givenUp, skipped, retried, consumed, redelivered,
                   breaks>>

\* The connection breaks. Closing the consumer commits, when it can.
Break ==
    /\ Go("consumer", "poll", "join")
    /\ FaultPossible /\ breaks' = breaks + 1
    /\ committed' \in {committed, position + 1}
    /\ UNCHANGED <<stateVars, storeVars, clientVars, runnerVars, queueVars, carried, targets,
                   buffer, topic, position, givenUp, skipped, retried, consumed, redelivered>>
-----------------------------------------------------------------------------
(* The delivery, by either thread.                                            *)

\* publish_telemetry: the subscribers are those at the moment of the change.
Publish(t) ==
    /\ Go(t, "publish", "notify")
    /\ latest' = carried[t]
    /\ targets' = [targets EXCEPT ![t] = subscribers]
    /\ UNCHANGED <<kafkaVars, storeVars, clientVars, runnerVars, queueVars, subscribers, carried>>

\* put_nowait drops the event when it finds the queue full.
FindFull(t, c) ==
    /\ pc[t] = "notify" /\ c \in targets[t]
    /\ Len(queue[c]) >= MaxQueue
    /\ targets' = [targets EXCEPT ![t] = @ \ {c}]
    /\ overflowed' = overflowed \cup {c}
    /\ UNCHANGED <<stateVars, kafkaVars, storeVars, clientVars, runnerVars, pc, carried, queue,
                   putting, aborted>>

\* Mutant of FindRoom: the queue takes one event too many.
FindRoomWhenFull(t, c) ==
    /\ Go(t, "notify", "put")
    /\ c \in targets[t] /\ Len(queue[c]) <= MaxQueue
    /\ putting' = [putting EXCEPT ![t] = {c}]
    /\ UNCHANGED <<stateVars, kafkaVars, storeVars, clientVars, runnerVars, carried, targets,
                   queue, overflowed, aborted>>

\* It finds room: no lock keeps the other thread from finding the same room.
FindRoom(t, c) ==
    /\ Go(t, "notify", "put")
    /\ c \in targets[t] /\ Len(queue[c]) < MaxQueue
    /\ putting' = [putting EXCEPT ![t] = {c}]
    /\ UNCHANGED <<stateVars, kafkaVars, storeVars, clientVars, runnerVars, carried, targets,
                   queue, overflowed, aborted>>

Put(t, c) ==
    /\ Go(t, "put", "wake")
    /\ c \in putting[t]
    /\ queue' = [queue EXCEPT ![c] = Append(@, carried[t])]
    /\ UNCHANGED <<stateVars, kafkaVars, storeVars, clientVars, runnerVars, carried, targets,
                   overflowed, putting, aborted>>

\* It wakes the dashboard up, when that waits for the queue.
Wake(t, c) ==
    /\ Go(t, "wake", "notify")
    /\ c \in putting[t]
    /\ targets' = [targets EXCEPT ![t] = @ \ {c}]
    /\ putting' = [putting EXCEPT ![t] = {}]
    /\ UNCHANGED <<stateVars, kafkaVars, storeVars, clientVars, runnerVars, carried, queue,
                   overflowed, aborted>>

\* The other thread, or the dashboard as it leaves, takes the waiting future away
\* under its hands: the exception ends the delivery. run_loop or the consumer logs it.
WakeFails(t, c) ==
    /\ Go(t, "wake", Rest(t))
    /\ c \in putting[t]
    /\ client[c] = "gone" \/ \E u \in Threads \ {t} : pc[u] = "wake" /\ c \in putting[u]
    /\ targets' = [targets EXCEPT ![t] = {}]
    /\ putting' = [putting EXCEPT ![t] = {}]
    /\ aborted' = aborted \cup {carried[t]}
    /\ UNCHANGED <<stateVars, kafkaVars, storeVars, clientVars, runnerVars, carried, queue,
                   overflowed>>

\* The energy tracker.
Record(t) ==
    /\ Go(t, "notify", "add")
    /\ targets[t] = {}
    /\ recorded' = [recorded EXCEPT ![carried[t]] = @ + 1]
    /\ UNCHANGED <<stateVars, kafkaVars, clientVars, runnerVars, queueVars, carried, targets,
                   samples>>

\* The window.
Add(t) ==
    /\ Go(t, "add", Rest(t))
    /\ samples' = IF Len(samples) < MaxSamples THEN Append(samples, carried[t])
                  ELSE Append(Tail(samples), carried[t])
    /\ UNCHANGED <<stateVars, kafkaVars, clientVars, runnerVars, queueVars, carried, targets,
                   recorded>>
-----------------------------------------------------------------------------
(* The dashboards: the WebSocket of api/routes/telemetry.py.                  *)

Client(c, from, to) ==
    /\ client[c] = from
    /\ client' = [client EXCEPT ![c] = to]
    /\ UNCHANGED <<kafkaVars, storeVars, runnerVars, pc, carried, targets, putting, aborted,
                   latest>>

\* Mutant of Subscribe: the dashboard waits for the next telemetry.
SubscribeToNext(c) ==
    /\ Client(c, "out", "wait")
    /\ subscribers' = subscribers \cup {c}
    /\ queue' = [queue EXCEPT ![c] = <<>>] /\ overflowed' = overflowed \ {c}
    /\ UNCHANGED shown

Subscribe(c) ==
    /\ Client(c, "out", "read")
    /\ subscribers' = subscribers \cup {c}
    /\ queue' = [queue EXCEPT ![c] = <<>>] /\ overflowed' = overflowed \ {c}
    /\ UNCHANGED shown

SendLatest(c) ==
    /\ Client(c, "read", "wait")
    /\ shown' = [shown EXCEPT ![c] = IF latest = None THEN @ ELSE @ \cup {latest}]
    /\ UNCHANGED <<subscribers, queue, overflowed>>

SendNext(c) ==
    /\ Client(c, "wait", "wait")
    /\ queue[c] # <<>>
    /\ queue' = [queue EXCEPT ![c] = Tail(@)]
    /\ shown' = [shown EXCEPT ![c] = @ \cup {Head(queue[c])}]
    /\ UNCHANGED <<subscribers, overflowed>>

\* What is put in its queue from now on nobody takes out.
Disconnect(c) ==
    /\ \E from \in {"read", "wait"} : Client(c, from, "gone")
    /\ subscribers' = subscribers \ {c}
    /\ queue' = [queue EXCEPT ![c] = <<>>] /\ overflowed' = overflowed \ {c}
    /\ shown' = [shown EXCEPT ![c] = {}]
-----------------------------------------------------------------------------
Notify(t, c) == FindFull(t, c) \/ FindRoom(t, c) \/ Put(t, c) \/ Wake(t, c) \/ WakeFails(t, c)

Deliver(t) == Publish(t) \/ (\E c \in Clients : Notify(t, c)) \/ Record(t) \/ Add(t)

Runner == Send \/ SendFails \/ SendRaises \/ FlushEnds \/ FlushTimesOut \/ Deliver("runner")

Consumer == Join \/ Poll \/ Deliver("consumer")

Kafka == \E e \in buffer : Write(e) \/ Retry(e) \/ GiveUp(e)

Dashboard(c) == Subscribe(c) \/ SendLatest(c) \/ SendNext(c) \/ Disconnect(c)

Next ==
    \/ Runner \/ Consumer \/ Commit \/ Break \/ Kafka
    \/ \E c \in Clients : Dashboard(c)

Spec == Init /\ [][Next]_vars

\* The threads keep running, the consumer retries, and the producer writes what it
\* has or gives it up.
Fairness == WF_vars(Runner) /\ WF_vars(Consumer) /\ WF_vars(Kafka)

FairSpec == Spec /\ Fairness
-----------------------------------------------------------------------------
(* Properties.                                                                *)

TypeOK ==
    /\ measured \in 0..MaxEvents
    /\ pc \in [Threads -> ProgramPoints]
    /\ pc["runner"] \notin {"join", "poll"} /\ pc["consumer"] \notin {"tick", "flush"}
    /\ carried \in [Threads -> Events \cup {None}]
    /\ targets \in [Threads -> SUBSET Clients] /\ putting \in [Threads -> SUBSET Clients]
    /\ buffer \subseteq Events /\ topic \in Seq(Events)
    /\ committed \in Nat /\ position \in 0..Len(topic)
    /\ latest \in Events \cup {None} /\ subscribers \subseteq Clients
    /\ client \in [Clients -> {"out", "read", "wait", "gone"}]
    /\ queue \in [Clients -> Seq(Events)]
    /\ \A c \in Clients : Len(queue[c]) <= MaxQueue + 1
    /\ shown \in [Clients -> SUBSET Events] /\ overflowed \subseteq Clients
    /\ samples \in Seq(Events) /\ Len(samples) <= MaxSamples
    /\ recorded \in [Events -> Nat]
    /\ degraded \subseteq Events /\ timedOut \subseteq degraded
    /\ givenUp \subseteq Events /\ skipped \subseteq Events /\ redelivered \subseteq consumed
    /\ retried \subseteq Events /\ aborted \subseteq Events
    /\ breaks \in Nat

\* An event is recorded twice, so that its energy counts twice, only when the
\* producer's flush timed out, after which the event may still be written, or when
\* it was consumed more than once, because its commit was lost or the producer wrote it
\* twice (client.py 36-41, telemetry_consumer.py 46-69). The window has it no more
\* often than the tracker.
RecordedOnce ==
    \A e \in Events :
        /\ recorded[e] > 1 => e \in timedOut \cup redelivered
        /\ Cardinality({i \in 1..Len(samples) : samples[i] = e}) <= recorded[e]

\* The position of e when it is in the topic and still to be consumed.
Ahead(e) == e \in Entries(SubSeq(topic, position + 1, Len(topic)))

Carried(e) ==
    \E t \in Threads :
        carried[t] = e /\ pc[t] \in {"flush", "publish", "notify", "put", "wake"}

\* The events nobody will record, and nobody is told of.
Lost == givenUp \cup skipped \cup aborted

\* An event is lost in three cases only: the producer gave it up after flush had
\* nothing to wait for, the consumer joined after it and had never committed, or an
\* exception nobody expected ended its publication, or its delivery at the queue of a
\* dashboard (client.py 14-20 and 36-39, telemetry_consumer.py 46-60, state.py 40-44).
NothingElseIsLost ==
    \A e \in 1..measured :
        recorded[e] > 0 \/ Carried(e) \/ e \in buffer \/ Ahead(e) \/ e \in Lost

\* The latest telemetry goes back in time only when a newer event was delivered by
\* the runner, past those in Kafka, or when one is consumed again, or was overtaken
\* while the producer retried it.
LatestGoesForward ==
    [][latest' < latest => latest \in degraded \/ latest' \in redelivered \cup retried]_latest

\* A dashboard that keeps up is shown the latest telemetry, or has it in its queue,
\* or is about to, unless an exception ended the delivery: subscribing before reading
\* leaves no gap (state.py 57-64, telemetry.py 31-39).
DashboardGetsLatest ==
    \A c \in Clients :
        (client[c] = "wait" /\ c \notin overflowed /\ latest \notin {None} \cup aborted) =>
            \/ latest \in shown[c] \cup Entries(queue[c])
            \/ \E t \in Threads : c \in targets[t] /\ carried[t] = latest

\* Each measured event is recorded in the end, or lost in one of the three cases.
EventsAreRecorded == \A e \in Events : measured >= e ~> recorded[e] > 0 \/ e \in Lost
=============================================================================
