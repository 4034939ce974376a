-------------------------- MODULE AutomationMemory --------------------------
(* The experience store (app/services/automation_memory.py): the bounded      *)
(* history the control loop learns from, and the thread that writes episodes  *)
(* to the database. Episodes are recorded by the control loop and by API      *)
(* threads while the application serves; the lifespan starts and stops the    *)
(* store, perhaps again in the same process, and the process may crash.       *)
(*                                                                            *)
(* The k-th episode of recorder r is <<r, k>>. A recorder appends it to the   *)
(* history under the lock and queues it for the database after that.          *)
EXTENDS Naturals, Sequences

CONSTANTS
    Recorders,               \* the threads that record episodes
    NoEpisode,               \* the None that stop puts in the queue
    MaxEpisodes,             \* _max_episodes
    MaxRecorded,             \* bound: episodes of one recorder
    MaxStarts                \* bound: how often start is called

ASSUME MemoryAssumption ==
    /\ MaxEpisodes \in Nat \ {0}
    /\ MaxRecorded \in Nat
    /\ MaxStarts \in Nat
    /\ NoEpisode \notin Recorders \X (1..MaxRecorded)

Episodes == Recorders \X (1..MaxRecorded)

\* A thread is named by the start that created it.
Threads == 1..MaxStarts

VARIABLES
    episodes,                \* _episodes
    queue,                   \* _persistence_queue
    available,               \* _database_available
    running,                 \* _persistence_running
    newest,                  \* _persistence_thread: a set of at most one thread
    writer,                  \* the program point of each thread
    held,                    \* the episode a thread took
    table,                   \* the rows of the database, by id
    dropped,                 \* history: the episodes that will never be a row
    recorded,                \* how many episodes each recorder has appended
    recorder,                \* the program point of each recorder
    lifespan,                \* the program point of start and stop
    starts,                  \* how often start was called
    restoredAt,              \* history: what was recorded before the last start
    gaveUp                   \* history: a stop left its thread running

memoryVars == <<episodes, recorded, recorder>>
threadVars == <<running, newest, starts, writer>>
vars == <<episodes, queue, available, running, newest, writer, held, table, dropped,
          recorded, recorder, lifespan, starts, restoredAt, gaveUp>>

Alive == {t \in Threads : writer[t] \in {"loop", "get", "commit"}}

\* The last n entries of a sequence.
Newest(s, n) == IF Len(s) <= n THEN s ELSE SubSeq(s, Len(s) - n + 1, Len(s))

Idle == [r \in Recorders |-> "idle"]

Init ==
    /\ episodes = <<>> /\ queue = <<>> /\ table = <<>>
    /\ available = FALSE /\ running = FALSE
    /\ newest = {} /\ starts = 0
    /\ writer = [t \in Threads |-> "none"]
    /\ held = [t \in Threads |-> NoEpisode]
    /\ dropped = {}
    /\ recorded = [r \in Recorders |-> 0] /\ restoredAt = recorded
    /\ recorder = Idle
    /\ lifespan = "down"
    /\ gaveUp = FALSE
-----------------------------------------------------------------------------
(* start                                                                      *)

Manage(from, to) ==
    /\ lifespan = from
    /\ lifespan' = to
    /\ UNCHANGED <<recorded, recorder, held, table, dropped>>

Restart ==
    /\ starts < MaxStarts /\ starts' = starts + 1
    /\ restoredAt' = recorded
    /\ UNCHANGED <<queue, running, newest, writer, gaveUp>>

\* The tables cannot be created or read: the store stays in memory.
StartWithoutDatabase ==
    /\ Manage("down", "up")
    /\ Restart
    /\ available' = FALSE
    /\ UNCHANGED episodes

\* The newest rows, oldest first, replace the history.
Hydrate ==
    /\ Manage("down", "start")
    /\ Restart
    /\ episodes' = Newest(table, MaxEpisodes)
    /\ available' = TRUE

\* The flag is set before the thread exists: a thread that an earlier stop gave
\* up waiting for sees it too.
StartThread ==
    /\ Manage("start", "up")
    /\ running' = TRUE
    /\ newest' = {starts}
    /\ writer' = [writer EXCEPT ![starts] = "loop"]
    /\ UNCHANGED <<episodes, queue, available, starts, restoredAt, gaveUp>>
-----------------------------------------------------------------------------
(* stop. Requests and the runner end before it is called (main.py 38-43).     *)

Stop ==
    /\ Manage("up", "poison")
    /\ recorder = Idle
    /\ running' = FALSE
    /\ UNCHANGED <<episodes, queue, available, newest, starts, writer, restoredAt, gaveUp>>

PutNone ==
    /\ Manage("poison", IF newest = {} THEN "down" ELSE "join")
    /\ queue' = Append(queue, NoEpisode)
    /\ UNCHANGED <<episodes, available, threadVars, restoredAt, gaveUp>>

\* join ends with the thread or after two seconds; the thread is forgotten.
Join ==
    /\ Manage("join", "down")
    /\ newest' = {}
    /\ gaveUp' = (gaveUp \/ newest \cap Alive # {})
    /\ UNCHANGED <<episodes, queue, available, running, starts, writer, restoredAt>>
-----------------------------------------------------------------------------
(* record                                                                     *)

Pending(r) == <<r, recorded[r]>>

\* Mutant of Remember: the limit is checked before the episode is appended.
RememberOneMore(s, e) == IF Len(s) > MaxEpisodes THEN Append(Tail(s), e) ELSE Append(s, e)

\* Mutant of Remember: the newest episode goes when there are too many.
RememberOldest(s, e) == IF Len(s) < MaxEpisodes THEN Append(s, e) ELSE s

\* The episode is appended, and the oldest one goes when there are too many.
Remember(s, e) == Newest(Append(s, e), MaxEpisodes)

Record(r) ==
    /\ lifespan = "up" /\ recorder[r] = "idle" /\ recorded[r] < MaxRecorded
    /\ recorded' = [recorded EXCEPT ![r] = @ + 1]
    /\ recorder' = [recorder EXCEPT ![r] = "put"]
    /\ episodes' = Remember(episodes, <<r, recorded[r] + 1>>)
    /\ UNCHANGED <<queue, available, threadVars, held, table, dropped>>
    /\ UNCHANGED <<lifespan, restoredAt, gaveUp>>

\* Another recorder may have queued its episode in between.
Enqueue(r) ==
    /\ recorder[r] = "put"
    /\ recorder' = [recorder EXCEPT ![r] = "idle"]
    /\ queue' = IF available THEN Append(queue, Pending(r)) ELSE queue
    /\ dropped' = IF available THEN dropped ELSE dropped \cup {Pending(r)}
    /\ UNCHANGED <<episodes, available, threadVars, held, table, recorded>>
    /\ UNCHANGED <<lifespan, restoredAt, gaveUp>>
-----------------------------------------------------------------------------
(* _persist_loop                                                              *)

Work(t, from, to) ==
    /\ writer[t] = from
    /\ writer' = [writer EXCEPT ![t] = to]
    /\ UNCHANGED <<memoryVars, available, running, newest, lifespan, starts, restoredAt, gaveUp>>

CheckRunning(t) ==
    /\ Work(t, "loop", IF running THEN "get" ELSE "exited")
    /\ UNCHANGED <<queue, held, table, dropped>>

\* Mutant of TakeNone: the stop empties the queue.
TakeAll(t) ==
    /\ Work(t, "get", "loop")
    /\ queue # <<>> /\ Head(queue) = NoEpisode
    /\ queue' = <<>>
    /\ UNCHANGED <<held, table, dropped>>

TakeNone(t) ==
    /\ Work(t, "get", "loop")
    /\ queue # <<>> /\ Head(queue) = NoEpisode
    /\ queue' = Tail(queue)
    /\ UNCHANGED <<held, table, dropped>>

Take(t) ==
    /\ Work(t, "get", "commit")
    /\ queue # <<>> /\ Head(queue) # NoEpisode
    /\ queue' = Tail(queue)
    /\ held' = [held EXCEPT ![t] = Head(queue)]
    /\ UNCHANGED <<table, dropped>>

Release(t) == held' = [held EXCEPT ![t] = NoEpisode]

Commit(t) ==
    /\ Work(t, "commit", "loop") /\ Release(t)
    /\ table' = Append(table, held[t])
    /\ UNCHANGED <<queue, dropped>>

\* Mutant of Rollback: a failed episode is queued again.
Retry(t) ==
    /\ Work(t, "commit", "loop") /\ Release(t)
    /\ queue' = Append(queue, held[t])
    /\ UNCHANGED <<table, dropped>>

\* The database refuses: the episode is logged and not tried again.
Rollback(t) ==
    /\ Work(t, "commit", "loop") /\ Release(t)
    /\ dropped' = dropped \cup {held[t]}
    /\ UNCHANGED <<queue, table>>
-----------------------------------------------------------------------------
Entries(s) == {s[i] : i \in 1..Len(s)}

\* What was recorded and is not in the database.
Unsaved ==
    ((Entries(queue) \cup {held[t] : t \in Alive}) \ {NoEpisode})
        \cup {Pending(r) : r \in {r \in Recorders : recorder[r] = "put"}}

\* The process dies with its memory; the table stays.
Crash ==
    /\ lifespan # "down"
    /\ episodes' = <<>> /\ queue' = <<>>
    /\ dropped' = dropped \cup Unsaved
    /\ available' = FALSE /\ running' = FALSE /\ newest' = {}
    /\ writer' = [t \in Threads |-> IF t <= starts THEN "exited" ELSE "none"]
    /\ held' = [t \in Threads |-> NoEpisode]
    /\ recorder' = Idle
    /\ lifespan' = "down"
    /\ UNCHANGED <<table, recorded, starts, restoredAt, gaveUp>>

Writer(t) == CheckRunning(t) \/ TakeNone(t) \/ Take(t) \/ Commit(t) \/ Rollback(t)

Lifespan == StartWithoutDatabase \/ Hydrate \/ StartThread \/ Stop \/ PutNone \/ Join

Next ==
    \/ \E r \in Recorders : Record(r) \/ Enqueue(r)
    \/ \E t \in Threads : Writer(t)
    \/ Lifespan
    \/ Crash

Spec == Init /\ [][Next]_vars

\* Threads keep running; the database answers a commit, one way or the other.
Fairness ==
    /\ \A r \in Recorders : WF_vars(Enqueue(r))
    /\ \A t \in Threads : WF_vars(Writer(t))

FairSpec == Spec /\ Fairness
-----------------------------------------------------------------------------
(* Properties.                                                                *)

TypeOK ==
    /\ episodes \in Seq(Episodes) /\ Len(episodes) <= MaxEpisodes
    /\ queue \in Seq(Episodes \cup {NoEpisode})
    /\ table \in Seq(Episodes)
    /\ available \in BOOLEAN /\ running \in BOOLEAN /\ gaveUp \in BOOLEAN
    /\ starts \in 0..MaxStarts /\ newest \in SUBSET Threads
    /\ writer \in [Threads -> {"none", "loop", "get", "commit", "exited"}]
    /\ held \in [Threads -> Episodes \cup {NoEpisode}]
    /\ dropped \subseteq Episodes
    /\ recorded \in [Recorders -> 0..MaxRecorded]
    /\ restoredAt \in [Recorders -> 0..MaxRecorded]
    /\ recorder \in [Recorders -> {"idle", "put"}]
    /\ lifespan \in {"down", "start", "up", "poison", "join"}

Recorded == {e \in Episodes : e[2] <= recorded[e[1]]}

\* Whatever stops, restarts, crashes and failing commits there are, also with two
\* threads writing, each recorded episode is in one place only: on its way, in
\* the table once, or dropped for a reason (automation_memory.py 77-109).
At(s, e) == {i \in 1..Len(s) : s[i] = e}

Places(e) ==
    ({"queue"} \X At(queue, e)) \cup ({"table"} \X At(table, e))
        \cup ({"thread"} \X {t \in Alive : held[t] = e})
        \cup ({"recorder"} \X {r \in Recorders : recorder[r] = "put" /\ Pending(r) = e})
        \cup ({"dropped"} \X ({e} \cap dropped))

EachEpisodeOnce ==
    \A e \in Episodes :
        IF e \in Recorded THEN \E p \in Places(e) : Places(e) = {p}
                          ELSE Places(e) = {}

\* As long as no stop gave up waiting for its thread, the rows of a recorder are
\* in the order in which it recorded them, so a restart restores a history that
\* is in order (automation_memory.py 63-71, 102-108).
RowsInOrder ==
    ~gaveUp => \A i, k \in 1..Len(table) :
        i < k /\ table[i][1] = table[k][1] => table[i][2] < table[k][2]

\* The history never holds an older episode in place of a newer one: what was
\* recorded since the start is all there, or fills the history, and of each
\* recorder the newest are kept (automation_memory.py 102-106, 63-73).
RecordedSince(r) == {r} \X (restoredAt[r] + 1 .. recorded[r])

HistoryIsNewest ==
    lifespan = "up" =>
        LET since == UNION {RecordedSince(r) : r \in Recorders} IN
        /\ since \subseteq Entries(episodes)
             \/ (Entries(episodes) \subseteq since /\ Len(episodes) = MaxEpisodes)
        /\ \A e \in since \cap Entries(episodes) :
             {e[1]} \X (e[2] .. recorded[e[1]]) \subseteq Entries(episodes)

\* Once the store stays started, every queued episode reaches the table or is
\* refused by it, also one that an earlier stop left in the queue
\* (automation_memory.py 77-100).
Serving == running /\ newest # {}

QueuedEpisodesEnd ==
    <>[]Serving => \A e \in Episodes :
        e \in Entries(queue) ~> (e \in Entries(table) \/ e \in dropped)
=============================================================================
