---------------------------- MODULE MCEventStream ---------------------------
(***************************************************************************)
(* Two instances of EventStream, checked in one run.  The variable setting *)
(* says which one a behavior is about and never changes.                   *)
(*                                                                         *)
(*   "faults"   ingestion is switched on and nobody touches the switch;    *)
(*              every consumer runs, on the hub, with every kind of event  *)
(*              and every fault.                                           *)
(*   "control"  the table is empty at first, admins start, stop and look;  *)
(*              only the workers run, on either source; events are plain   *)
(*              and only database sessions fail.                           *)
(***************************************************************************)
EXTENDS EventStream, TLC

CONSTANTS w1, d1, a1, a2

VARIABLE setting

mcVars == <<vars, setting>>

MCInit ==
    \/ /\ setting = "control"
       /\ Init
    \/ /\ setting = "faults"
       /\ rows = <<TRUE>>
       /\ asked = 1
       /\ last = "start"
       /\ raced = FALSE
       /\ session = [s \in Sessions |-> Idle]
       /\ source = [w \in Workers |-> "eventhub"]
       /\ hub = <<>>
       /\ consumer = [c \in Consumers |-> Closed]
       /\ stored = [c \in Consumers |-> <<>>]
       /\ received = [c \in Consumers |-> {}]
       /\ since = [w \in Workers |-> 0]

In(settings) == setting \in settings /\ UNCHANGED setting

Both == {"faults", "control"}

\* The consumers that run.
Runs(c) == c \in Workers \/ setting = "faults"

MCNext ==
    \/ In({"faults"}) /\ GenerateStream
    \/ In({"faults"}) /\ DeviceSends
    \/ In({"control"}) /\ Publish("plain")
    \/ \E a \in Admins :
          \/ In({"control"}) /\ Ask(a) /\ Control(a)
          \/ In({"control"}) /\ GetOrCreate(a) /\ Control(a)
          \/ In({"control"}) /\ Command(a) /\ Control(a)
          \/ In({"control"}) /\ Answer(a) /\ Control(a)
          \/ In({"control"}) /\ SessionFails(a) /\ Control(a)
    \/ \E w \in Workers :
          \/ In(Both) /\ StartCycle(w)
          \/ In(Both) /\ GetOrCreate(w) /\ UNCHANGED streamVars
          \/ In(Both) /\ StayOut(w)
          \/ In(Both) /\ Generate(w)
          \/ In(Both) /\ GateFails(w)
    \/ \E c \in Consumers :
          \/ In(Both) /\ Runs(c) /\ Connect(c)
          \/ In(Both) /\ Runs(c) /\ ReceiveBatch(c)
          \/ In(Both) /\ Runs(c) /\ Store(c)
          \/ In(Both) /\ Runs(c) /\ Refuse(c)
          \/ In({"faults"}) /\ DatabaseFails(c)
          \/ In({"faults"}) /\ ReceiveFails(c)
          \/ In({"faults"}) /\ Crash(c)
          \/ In({"faults"}) /\ Restart(c)

MCSpec ==
    /\ MCInit
    /\ [][MCNext]_mcVars
    /\ \A c \in Consumers : WF_vars(Runs(c) /\ Consume(c))

-----------------------------------------------------------------------------
\* Every consumer that runs is back at its source again and again (KeepsReceiving),
\* whatever events, hub errors and lost batches there are in between.
ConsumersKeepReceiving ==
    \A c \in Consumers : (setting = "control" /\ c \in Processors) \/ KeepsReceiving(c)
=============================================================================
