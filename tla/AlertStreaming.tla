--------------------------- MODULE AlertStreaming ---------------------------
(***************************************************************************)
(* The streaming ingestion of app/services/streaming_service.py: an        *)
(* ingester (the worker thread of an API replica, or the data-processor)   *)
(* takes telemetry events one by one, stores each with its risk level and  *)
(* raises, updates or resolves the alert of its asset in the same          *)
(* transaction, then refreshes the gauge of its own process.  Ingesters    *)
(* share the tables and nothing else; the tables have no constraint on     *)
(* active alerts and no row is locked before it is written.                *)
(***************************************************************************)
EXTENDS Integers, FiniteSets, Sequences

CONSTANTS
    Ingesters,   \* the processes that call ingest_telemetry_event
    Assets,      \* the asset codes
    None,        \* no alert, no sample
    MaxEvents    \* bound on the number of stored events

ASSUME StreamAssumption ==
    /\ IsFiniteSet(Ingesters)
    /\ MaxEvents \in Nat
    /\ None \notin Nat

Levels == {"low", "medium", "high"}
Severities == {"medium", "high"}

VARIABLES
    events,     \* rows of sensor_events, in the order of their commits
    alerts,     \* rows of alerts, in the order of their commits
    ingester,   \* what each ingester is doing
    gauge,      \* energypredict_active_alerts of each process
    authors,    \* history: the ingesters that have stored an event
    skipped     \* history: those that failed between the last commit and the gauge

vars == <<events, alerts, ingester, gauge, authors, skipped>>

Active(a) == {i \in DOMAIN alerts : alerts[i].asset = a /\ alerts[i].status = "active"}

\* _active_alert_counts
Counts(rows) ==
    [s \in Severities |->
        Cardinality({i \in DOMAIN rows : rows[i].status = "active" /\ rows[i].severity = s})]

Waiting == [step |-> "waiting", asset |-> None, level |-> "low", alert |-> None, was |-> "low"]

\* A gauge with labels has no sample until it is set.
NoSample == None

Init ==
    /\ events = <<>>
    /\ alerts = <<>>
    /\ ingester = [p \in Ingesters |-> Waiting]
    /\ gauge = [p \in Ingesters |-> NoSample]
    /\ authors = {}
    /\ skipped = {}

-----------------------------------------------------------------------------
(***************************************************************************)
(* ingest_telemetry_event.  The prediction and the explanation are         *)
(* abstracted to the risk level they give.                                 *)
(***************************************************************************)
Receive(p) ==
    /\ ingester[p].step = "waiting"
    /\ Len(events) < MaxEvents
    /\ \E a \in Assets, level \in Levels :
          ingester' = [ingester EXCEPT ![p] =
              [Waiting EXCEPT !.step = "lookup", !.asset = a, !.level = level]]
    /\ UNCHANGED <<events, alerts, gauge, authors, skipped>>

\* Mutant: the query forgets the status filter.
Lookup_AnyStatus(p) ==
    LET job == ingester[p]
        rows == {i \in DOMAIN alerts : alerts[i].asset = job.asset}
    IN  /\ job.step = "lookup"
        /\ IF rows = {}
           THEN ingester' = [ingester EXCEPT ![p].step = "commit"]
           ELSE \E i \in rows :
                   ingester' = [ingester EXCEPT ![p] =
                       [@ EXCEPT !.step = "commit", !.alert = i, !.was = alerts[i].severity]]
        /\ UNCHANGED <<events, alerts, gauge, authors, skipped>>

\* first() without an ORDER BY: the database may return any active alert of
\* the asset.  The session remembers the severity it loaded.
Lookup(p) ==
    LET job == ingester[p]
    IN  /\ job.step = "lookup"
        /\ IF Active(job.asset) = {}
           THEN ingester' = [ingester EXCEPT ![p].step = "commit"]
           ELSE \E i \in Active(job.asset) :
                   ingester' = [ingester EXCEPT ![p] =
                       [@ EXCEPT !.step = "commit", !.alert = i, !.was = alerts[i].severity]]
        /\ UNCHANGED <<events, alerts, gauge, authors, skipped>>

NewAlert(job) ==
    [asset |-> job.asset, severity |-> job.level, status |-> "active", event |-> Len(events) + 1]

\* The columns that change are written: status only by a low event, severity
\* only if it differs from the one that was loaded.
Severity(stored, was, level) == IF level = was THEN stored ELSE level

\* Mutant: the branch for low events is missing.
Upsert_NoLowBranch(job) ==
    IF job.alert = None THEN Append(alerts, NewAlert(job))
    ELSE [alerts EXCEPT ![job.alert].severity = job.level, ![job.alert].event = Len(events) + 1]

\* Mutant: the branch for an existing alert is missing.
Upsert_NoUpdate(job) ==
    IF job.level = "low"
    THEN IF job.alert = None THEN alerts
         ELSE [alerts EXCEPT ![job.alert].status = "resolved"]
    ELSE Append(alerts, NewAlert(job))

\* Mutant: updating an alert also reopens it.
Upsert_Reopens(job) ==
    IF job.level = "low"
    THEN IF job.alert = None THEN alerts
         ELSE [alerts EXCEPT ![job.alert].status = "resolved"]
    ELSE IF job.alert = None THEN Append(alerts, NewAlert(job))
    ELSE [alerts EXCEPT ![job.alert].status = "active",
                        ![job.alert].severity = job.level,
                        ![job.alert].event = Len(events) + 1]

Upsert(job) ==
    IF job.level = "low"
    THEN IF job.alert = None THEN alerts
         ELSE [alerts EXCEPT ![job.alert].status = "resolved"]
    ELSE IF job.alert = None THEN Append(alerts, NewAlert(job))
    ELSE [alerts EXCEPT ![job.alert].severity = Severity(@, job.was, job.level),
                        ![job.alert].event = Len(events) + 1]

Commit(p) ==
    /\ ingester[p].step = "commit"
    /\ Len(events) < MaxEvents
    /\ alerts' = Upsert(ingester[p])
    /\ events' = Append(events, [asset |-> ingester[p].asset, level |-> ingester[p].level])
    /\ ingester' = [ingester EXCEPT ![p] = [Waiting EXCEPT !.step = "gauge", !.asset = ingester[p].asset]]
    /\ authors' = authors \cup {p}
    /\ UNCHANGED <<gauge, skipped>>

\* Mutant: the gauge is refreshed with the counts of the asset just ingested.
Observe_OwnAsset(p) ==
    /\ ingester[p].step = "gauge"
    /\ gauge' = [gauge EXCEPT ![p] = Counts(SelectSeq(alerts, LAMBDA r : r.asset = ingester[p].asset))]
    /\ ingester' = [ingester EXCEPT ![p] = Waiting]
    /\ skipped' = skipped \ {p}
    /\ UNCHANGED <<events, alerts, authors>>

Observe(p) ==
    /\ ingester[p].step = "gauge"
    /\ gauge' = [gauge EXCEPT ![p] = Counts(alerts)]
    /\ ingester' = [ingester EXCEPT ![p] = Waiting]
    /\ skipped' = skipped \ {p}
    /\ UNCHANGED <<events, alerts, authors>>

\* An exception before the commit: the transaction is rolled back and the
\* event is gone.
Fail(p) ==
    /\ ingester[p].step \in {"lookup", "commit"}
    /\ ingester' = [ingester EXCEPT ![p] = Waiting]
    /\ UNCHANGED <<events, alerts, gauge, authors, skipped>>

\* An exception after the commit, in the refresh of the event or the query of
\* the counts: the event is stored and the gauge is left alone.
FailAfterCommit(p) ==
    /\ ingester[p].step = "gauge"
    /\ ingester' = [ingester EXCEPT ![p] = Waiting]
    /\ skipped' = skipped \cup {p}
    /\ UNCHANGED <<events, alerts, gauge, authors>>

\* The process ends at any point and comes back with empty metrics.
Restart(p) ==
    /\ ingester' = [ingester EXCEPT ![p] = Waiting]
    /\ gauge' = [gauge EXCEPT ![p] = NoSample]
    /\ skipped' = skipped \ {p}
    /\ UNCHANGED <<events, alerts, authors>>

Next == \E p \in Ingesters :
            \/ Receive(p) \/ Lookup(p) \/ Commit(p) \/ Observe(p)
            \/ Fail(p) \/ FailAfterCommit(p) \/ Restart(p)

Spec == Init /\ [][Next]_vars
-----------------------------------------------------------------------------
Row ==
    [asset : Assets, severity : Severities, status : {"active", "resolved"}, event : 1..MaxEvents]

TypeOK ==
    /\ events \in Seq([asset : Assets, level : Levels])
    /\ alerts \in Seq(Row)
    /\ gauge \in [Ingesters -> [Severities -> 0..MaxEvents] \cup {NoSample}]
    /\ authors \subseteq Ingesters /\ skipped \subseteq Ingesters
    /\ \A p \in Ingesters :
          /\ ingester[p].step \in {"waiting", "lookup", "commit", "gauge"}
          /\ ingester[p].level \in Levels /\ ingester[p].was \in Levels
          /\ ingester[p].asset \in Assets \cup {None}
          /\ ingester[p].alert \in DOMAIN alerts \cup {None}

\* Index of the last stored event of an asset, 0 if there is none.
LastEvent(a) ==
    CHOOSE i \in 0..Len(events) :
       /\ i > 0 => events[i].asset = a
       /\ \A j \in (i + 1)..Len(events) : events[j].asset # a

\* "El worker de API persiste SensorEvent y activa alertas" (docs/06): an asset
\* whose last stored event is at risk has an active alert.
RiskHasAlert ==
    \A a \in Assets :
       (LastEvent(a) > 0 /\ events[LastEvent(a)].level # "low") => Active(a) # {}

\* Duplicates come from ingesters that all found no alert and all insert one:
\* there are never more of them than ingesters, counting those on their way.
Inserting(a) ==
    {p \in Ingesters : /\ ingester[p].step = "commit"
                       /\ ingester[p].asset = a
                       /\ ingester[p].alert = None}

DuplicatesAreBounded ==
    \A a \in Assets :
       Cardinality(Active(a)) + Cardinality(Inserting(a)) <= Cardinality(Ingesters)

\* No late update sets the status of a resolved alert back to active, not even one
\* that found it active.  (Its severity and its event it may still rewrite.)
ResolvedIsFinal ==
    [][\A i \in DOMAIN alerts :
          /\ i \in DOMAIN alerts'
          /\ alerts[i].status = "resolved" => alerts'[i].status = "resolved"]_vars

\* All stored events come from the same ingester; others may be at work, and hold
\* what they looked up.
OneAuthor == Cardinality(authors) <= 1

\* "Current active predictive-maintenance alerts by severity" (metrics.py): while
\* nobody else stores events, the gauge of a process is not older than the
\* table, over restarts and failed events, unless its last event failed between
\* the commit and the gauge.
GaugeIsCurrent ==
    OneAuthor =>
       \A p \in Ingesters \ skipped :
          (ingester[p].step = "waiting" /\ gauge[p] # NoSample) => gauge[p] = Counts(alerts)

\* The tables seen as the contract's board.
Board ==
    [a \in Assets |-> IF Active(a) = {} THEN "none"
                      ELSE alerts[CHOOSE i \in Active(a) : TRUE].severity]

Contract == INSTANCE AlertContract WITH log <- events, board <- Board

\* While one ingester stores the events, the tables implement the alert board:
\* at most one active alert per asset, switched by the asset's last event in
\* the step that stores it.
ImplementsContract ==
    /\ Contract!Init
    /\ [][OneAuthor' =>
             /\ [Contract!Next]_<<events, Board>>
             /\ \A a \in Assets : Cardinality(Active(a)') <= 1]_vars
=============================================================================
