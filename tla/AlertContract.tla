--------------------------- MODULE AlertContract ----------------------------
(***************************************************************************)
(* What the alert table of app/services/streaming_service.py promises to   *)
(* the dashboards: a board with one lamp per asset.  Storing an event and  *)
(* switching the lamp of its asset is one step.                            *)
(***************************************************************************)
EXTENDS Sequences, Naturals

CONSTANTS Assets, MaxEvents

VARIABLES log, board

Lamp(level) == IF level = "low" THEN "none" ELSE level

Init == log = <<>> /\ board = [a \in Assets |-> "none"]

Ingest(a, level) ==
    /\ Len(log) < MaxEvents
    /\ log' = Append(log, [asset |-> a, level |-> level])
    /\ board' = [board EXCEPT ![a] = Lamp(level)]

Next == \E a \in Assets, level \in {"low", "medium", "high"} : Ingest(a, level)

Spec == Init /\ [][Next]_<<log, board>>
=============================================================================
