----------------------------- MODULE EventStream ----------------------------
(***************************************************************************)
(* Telemetry on its way to the table sensor_events, and the switch that    *)
(* lets it through: EventHubBatchReader (app/integrations/                 *)
(* eventhub_consumer.py) and the two loops that use it,                    *)
(* SimulationWorker._run (app/workers/simulation_worker.py) and            *)
(* data-processor/processor.py.                                            *)
(*                                                                         *)
(* Each cycle of a worker asks SimulationControl first.  It then ingests   *)
(* one event of its own making or, like the data-processor, opens a        *)
(* connection at "@latest", takes one batch, closes it and ingests the     *)
(* batch event by event in one database session; nobody keeps a            *)
(* checkpoint.  The worker passes over an event that raises, the           *)
(* data-processor ends and is restarted by Kubernetes.                     *)
(*                                                                         *)
(* The hub is one partition.  What ingest_telemetry_event does with a      *)
(* valid event is AlertStreaming.                                          *)
(***************************************************************************)
EXTENDS SimulationControl

CONSTANTS
    Processors,   \* consumers that are data-processors
    Faults,       \* what may go wrong: "hub", "database", "crash"
    MaxEvents,    \* bound on the number of events published
    MaxBatch      \* max_batch_size

Consumers == Workers \cup Processors

ASSUME EventStreamAssumption ==
    /\ Sessions \cap Processors = {}
    /\ Faults \subseteq {"hub", "database", "crash"}
    /\ MaxEvents \in Nat
    /\ MaxBatch \in Nat \ {0}

VARIABLES
    source,     \* what each worker ingests, fixed by its settings
    hub,        \* the kinds of the events published so far
    consumer,   \* what each consumer is doing
    stored,     \* for each consumer, the events it stored, in order
    \* History variables, read by no action.
    received,   \* for each consumer, the events it took and did not lose
    since       \* for each worker, the events it stored since the switch is off

streamVars == <<source, hub, consumer, stored, received, since>>

vars == <<controlVars, streamVars>>

Closed == [step |-> "closed", position |-> 0, batch |-> <<>>, db |-> "clean"]

Init ==
    /\ ControlInit
    /\ source \in [Workers -> {"eventhub", "simulation"}]
    /\ hub = <<>>
    /\ consumer = [c \in Consumers |-> Closed]
    /\ stored = [c \in Consumers |-> <<>>]
    /\ received = [c \in Consumers |-> {}]
    /\ since = [w \in Workers |-> 0]

-----------------------------------------------------------------------------
(***************************************************************************)
(* Events.  An event of the hub is its offset; Own is the telemetry that a *)
(* worker makes up, _generate_payload.                                     *)
(***************************************************************************)
Own == 0

Kinds == {"plain", "annotated", "garbled"}

Kind(e) == IF e = Own THEN "plain" ELSE hub[e]

\* _event_to_payload: a body that is not a JSON object is dropped.
Parses(kind) == kind # "garbled"

\* PredictionRequest forbids fields it does not know: event_id, event_ts,
\* source and anomaly of an annotated event among them.
Accepts(kind) == kind = "plain"

(***************************************************************************)
(* The hub and the reader.                                                 *)
(***************************************************************************)
Publish(kind) ==
    /\ Len(hub) < MaxEvents
    /\ hub' = Append(hub, kind)
    /\ UNCHANGED <<controlVars, source, consumer, stored, received, since>>

\* The generator of the notebooks sends one event at a time, with event_id,
\* event_ts, source and anomaly beside the telemetry.
GenerateStream == Publish("annotated")

\* Other devices send what they like.
DeviceSends == Publish("plain") \/ Publish("garbled")

(***************************************************************************)
(* The gate of a worker.                                                   *)
(***************************************************************************)
\* A cycle begins with a session of its own and the question.
StartCycle(w) ==
    /\ consumer[w].step = "closed"
    /\ Open(w, "look")
    /\ UNCHANGED streamVars

\* The worker found or made a row that says "running".
Admitted(w) == session[w].step = "loaded" /\ session[w].seen

\* The row does not say so: the worker sleeps.
StayOut(w) ==
    /\ ~Admitted(w)
    /\ Answer(w)
    /\ UNCHANGED streamVars

\* The question raises: "except Exception: pass", and the worker sleeps.
GateFails(w) ==
    /\ "database" \in Faults
    /\ SessionFails(w)
    /\ UNCHANGED streamVars

\* A worker without an Event Hub makes up one event.
Generate(w) ==
    /\ Admitted(w)
    /\ source[w] = "simulation"
    /\ Answer(w)
    /\ consumer' = [consumer EXCEPT ![w] = [Closed EXCEPT !.step = "ingesting", !.batch = <<Own>>]]
    /\ UNCHANGED <<source, hub, stored, received, since>>

(***************************************************************************)
(* The connection.                                                         *)
(***************************************************************************)
\* Mutant: the position of a new connection is the beginning of the partition.
StartingPosition_Earliest(c) == 0

\* "@latest": only what is published from now on.
StartingPosition(c) == Len(hub)

\* Mutant: a worker that was let through once does not ask again.
MayConnect_Once(c) ==
    IF c \in Workers
    THEN /\ source[c] = "eventhub"
         /\ \/ Admitted(c) /\ Answer(c)
            \/ /\ consumer[c].step = "closed"
               /\ session[c] = Idle
               /\ received[c] # {}
               /\ UNCHANGED controlVars
    ELSE consumer[c].step = "closed" /\ UNCHANGED controlVars

\* A worker connects when it is let through, the data-processor whenever it is
\* through with its last batch.
MayConnect(c) ==
    IF c \in Workers THEN Admitted(c) /\ source[c] = "eventhub" /\ Answer(c)
                     ELSE consumer[c].step = "closed" /\ UNCHANGED controlVars

Connect(c) ==
    /\ MayConnect(c)
    /\ consumer' = [consumer EXCEPT ![c] =
          [Closed EXCEPT !.step = "receiving", !.position = StartingPosition(c)]]
    /\ UNCHANGED <<source, hub, stored, received, since>>

\* The loop of the callback over the n events behind from: buffered_payloads.
Parsed(from, n) ==
    LET buffered[i \in 0..n] ==
           IF i = 0 THEN <<>>
           ELSE IF Parses(hub[from + i]) THEN Append(buffered[i - 1], from + i)
           ELSE buffered[i - 1]
    IN  buffered[n]

\* The callback gets the next events.  While none of them parses the reader
\* goes on waiting; otherwise it takes the batch and closes the connection.
ReceiveBatch(c) ==
    LET from == consumer[c].position
    IN  /\ consumer[c].step = "receiving"
        /\ \E n \in 1..MaxBatch :
              LET parsed == Parsed(from, n)
              IN  /\ from + n <= Len(hub)
                  /\ consumer' = [consumer EXCEPT ![c] =
                        IF parsed = <<>> THEN [@ EXCEPT !.position = from + n]
                        ELSE [Closed EXCEPT !.step = "ingesting", !.batch = parsed]]
                  /\ received' = [received EXCEPT ![c] = @ \cup ToSet(parsed)]
        /\ UNCHANGED <<controlVars, source, hub, stored, since>>

\* receive_batch raises: the worker sleeps and asks again, the data-processor
\* ends.
ReceiveFails(c) ==
    /\ "hub" \in Faults
    /\ consumer[c].step = "receiving"
    /\ consumer' = [consumer EXCEPT ![c] =
          [Closed EXCEPT !.step = IF c \in Workers THEN "closed" ELSE "down"]]
    /\ UNCHANGED <<controlVars, source, hub, stored, received, since>>

(***************************************************************************)
(* The loops over a batch.                                                 *)
(***************************************************************************)
\* What is left of the batch of c is lost.
Lost(c) == received' = [received EXCEPT ![c] = @ \ ToSet(consumer[c].batch)]

\* Mutant: the end of the batch is not noticed.
Rest_KeepsOpen(c, db) ==
    consumer' = [consumer EXCEPT ![c].batch = Tail(@), ![c].db = db]

\* An event is over: the next one, or the end of the batch and its session.
Rest(c, db) ==
    LET rest == Tail(consumer[c].batch)
    IN  consumer' = [consumer EXCEPT ![c] =
           IF rest = <<>> THEN Closed ELSE [@ EXCEPT !.batch = rest, !.db = db]]

\* Every row of the control table says "stopped".
SwitchedOff == rows # <<>> /\ TRUE \notin ToSet(rows)

Store(c) ==
    LET e == Head(consumer[c].batch)
    IN  /\ consumer[c].step = "ingesting"
        /\ Accepts(Kind(e))
        /\ consumer[c].db = "clean"
        /\ stored' = IF e = Own THEN stored ELSE [stored EXCEPT ![c] = Append(@, e)]
        /\ since' = IF c \in Workers /\ SwitchedOff
                    THEN [since EXCEPT ![c] = Min({@ + 1, MaxBatch + 1})] ELSE since
        /\ Rest(c, "clean")
        /\ UNCHANGED <<controlVars, source, hub, received>>

\* Mutant: a refused event leaves the session unusable too.
Raises_BreaksSession(c, db) ==
    IF c \in Workers THEN Rest(c, "broken")
    ELSE consumer' = [consumer EXCEPT ![c] = [Closed EXCEPT !.step = "down"]]

\* Mutant: the event that raised is tried again.
Raises_Retries(c, db) == consumer' = [consumer EXCEPT ![c].db = db]

\* An exception: "continue" in the worker, the end of the data-processor.
Raises(c, db) ==
    IF c \in Workers THEN Rest(c, db)
    ELSE consumer' = [consumer EXCEPT ![c] = [Closed EXCEPT !.step = "down"]]

\* The schema refuses the event before the database is used.
Refuse(c) ==
    /\ consumer[c].step = "ingesting"
    /\ ~Accepts(Kind(Head(consumer[c].batch)))
    /\ Raises(c, consumer[c].db)
    /\ UNCHANGED <<controlVars, source, hub, stored, received, since>>

\* The flush fails, or the session is one whose flush failed before: nobody
\* calls rollback(), so every later event of the batch raises as well.
DatabaseFails(c) ==
    /\ consumer[c].step = "ingesting"
    /\ Accepts(Kind(Head(consumer[c].batch)))
    /\ consumer[c].db = "broken" \/ "database" \in Faults
    /\ Raises(c, "broken")
    /\ IF consumer[c].db = "clean" THEN Lost(c) ELSE UNCHANGED received
    /\ UNCHANGED <<controlVars, source, hub, stored, since>>

(***************************************************************************)
(* Processes.                                                              *)
(***************************************************************************)
\* The process ends, at its shutdown (stop() waits five seconds for a daemon
\* thread) or by itself; what its batch still held is lost with it.
Crash(c) ==
    /\ "crash" \in Faults
    /\ consumer[c].step # "down"
    /\ consumer' = [consumer EXCEPT ![c] = [Closed EXCEPT !.step = "down"]]
    /\ session' = [s \in Sessions |-> IF s = c THEN Idle ELSE session[s]]
    /\ Lost(c)
    /\ UNCHANGED <<rows, asked, last, raced, source, hub, stored, since>>

Restart(c) ==
    /\ consumer[c].step = "down"
    /\ consumer' = [consumer EXCEPT ![c] = Closed]
    /\ UNCHANGED <<controlVars, source, hub, stored, received, since>>

\* Admins at work.  A command that leaves a row running starts since afresh.
Control(a) ==
    /\ Administer(a) \/ ("database" \in Faults /\ SessionFails(a))
    /\ since' = IF SwitchedOff' THEN since ELSE [w \in Workers |-> 0]
    /\ UNCHANGED <<source, hub, consumer, stored, received>>

Gate(w) ==
    \/ StartCycle(w)
    \/ GetOrCreate(w) /\ UNCHANGED streamVars
    \/ StayOut(w)
    \/ Generate(w)

Ingest(c) == Store(c) \/ Refuse(c) \/ DatabaseFails(c)

Consume(c) ==
    \/ c \in Workers /\ Gate(c)
    \/ Connect(c)
    \/ ReceiveBatch(c)
    \/ Ingest(c)
    \/ Restart(c)

Next ==
    \/ GenerateStream
    \/ DeviceSends
    \/ \E a \in Admins : Control(a)
    \/ \E w \in Workers : GateFails(w)
    \/ \E c \in Consumers : Consume(c) \/ ReceiveFails(c) \/ Crash(c)

\* The loops never end by themselves and Kubernetes restarts what crashed.
Fairness == \A c \in Consumers : WF_vars(Consume(c))

Spec == Init /\ [][Next]_vars

FairSpec == Spec /\ Fairness

-----------------------------------------------------------------------------
Offsets == 1..MaxEvents

TypeOK ==
    /\ ControlTypeOK
    /\ source \in [Workers -> {"eventhub", "simulation"}]
    /\ hub \in Seq(Kinds)
    /\ stored \in [Consumers -> Seq(Offsets)]
    /\ received \in [Consumers -> SUBSET Offsets]
    /\ since \in [Workers -> 0..MaxBatch + 1]
    /\ \A c \in Consumers :
          /\ consumer[c].step \in {"closed", "receiving", "ingesting", "down"}
          /\ consumer[c].position \in 0..Len(hub)
          /\ consumer[c].batch \in Seq({Own} \cup DOMAIN hub)
          /\ consumer[c].db \in {"clean", "broken"}
          /\ consumer[c].step = "ingesting" <=> consumer[c].batch # <<>>
    /\ \A w \in Workers : session[w].step # "idle" => consumer[w].step = "closed"

\* A consumer stores events in the order of the hub and none of them twice, over
\* any number of connections, crashes and restarts, although it keeps no
\* checkpoint.
StoredInHubOrder ==
    \A c \in Consumers : \A i, j \in DOMAIN stored[c] : i < j => stored[c][i] < stored[c][j]

\* One bad event, or a flush that failed in an earlier batch, does not cost a
\* worker the others: everything acceptable that it took and has not in hand any
\* more is stored, but for what a crash or a failing flush took away.
BatchIsIsolated ==
    \A w \in Workers : \A e \in received[w] \ ToSet(consumer[w].batch) :
       Accepts(Kind(e)) => e \in ToSet(stored[w])

\* "Setting simulation stop pauses local simulation ingestion" (docs/18): once the
\* switch is off, a worker that was let through finishes the batch it waits for or
\* has in hand, and stores nothing after it until the switch is on again.
StopIsObeyed == \A w \in Workers : since[w] <= MaxBatch

\* "Keep worker resilient and retry on next cycle" (simulation_worker.py): a
\* consumer whose process and gate do not fail for ever is back at its source again
\* and again, a worker unless it is switched off again and again.
Interrupted(c) == Crash(c) \/ (c \in Workers /\ GateFails(c))

AtSource(c) ==
    consumer[c].step =
       IF c \in Workers /\ source[c] = "simulation" THEN "ingesting" ELSE "receiving"

KeepsReceiving(c) ==
    \/ []<><<Interrupted(c)>>_vars
    \/ c \in Workers /\ []<>(FALSE \in ToSet(rows) \/ rows = <<>>)
    \/ []<>AtSource(c)
=============================================================================
