------------------------ MODULE AlertStreaming_proofs ------------------------
(***************************************************************************)
(* Theorems about AlertStreaming, for any finite set of ingesters, any set *)
(* of assets and any number of events.                                     *)
(***************************************************************************)
EXTENDS AlertStreaming, FiniteSetTheorems, SequenceTheorems, TLAPS

Event == [asset : Assets, level : Levels]

Steps == {"waiting", "lookup", "commit", "gauge"}

Job ==
    [step : Steps, asset : Assets \cup {None}, level : Levels, alert : Nat \cup {None}, was : Levels]

-----------------------------------------------------------------------------
(***************************************************************************)
(* The inductive invariant.                                                *)
(***************************************************************************)

\* An event under way has an asset, and the alert it holds is one of that asset;
\* before the lookup it holds none.
JobFits(p) ==
    /\ ingester[p].step \in {"lookup", "commit"} => ingester[p].asset \in Assets
    /\ ingester[p].step = "lookup" => ingester[p].alert = None
    /\ ingester[p].alert # None =>
          /\ ingester[p].alert \in DOMAIN alerts
          /\ alerts[ingester[p].alert].asset = ingester[p].asset

TypeInv ==
    /\ events \in Seq(Event)
    /\ alerts \in Seq(Row)
    /\ Len(alerts) <= Len(events)
    /\ Len(events) <= MaxEvents
    /\ ingester \in [Ingesters -> Job]
    /\ gauge \in [Ingesters -> [Severities -> 0..MaxEvents] \cup {NoSample}]
    /\ authors \subseteq Ingesters
    /\ skipped \subseteq Ingesters
    /\ \A p \in Ingesters : JobFits(p)

\* The rows of the two tables are rows.
LEMMA RowsAreRows ==
    ASSUME TypeInv
    PROVE  /\ Len(alerts) \in Nat /\ DOMAIN alerts = 1..Len(alerts)
           /\ \A i \in DOMAIN alerts : alerts[i] \in Row
           /\ Len(events) \in Nat /\ DOMAIN events = 1..Len(events)
<1>1. alerts \in Seq(Row) /\ events \in Seq(Event)
  BY DEF TypeInv
<1> QED BY <1>1, LenProperties, ElementOfSeq

\* The counts of the gauge are no more than the alerts there are.
LEMMA CountsAreBounded ==
    ASSUME TypeInv
    PROVE  Counts(alerts) \in [Severities -> 0..MaxEvents]
<1>1. ASSUME NEW s \in Severities
      PROVE  Cardinality({i \in DOMAIN alerts : alerts[i].status = "active" /\ alerts[i].severity = s})
                \in 0..MaxEvents
  <2> DEFINE S == {i \in DOMAIN alerts : alerts[i].status = "active" /\ alerts[i].severity = s}
  <2>1. DOMAIN alerts = 1..Len(alerts) /\ Len(alerts) \in Nat
    BY RowsAreRows
  <2>2. IsFiniteSet(1..Len(alerts)) /\ Cardinality(1..Len(alerts)) = Len(alerts)
    <3>1. 1 \in Int /\ Len(alerts) \in Int
      BY <2>1
    <3>2. /\ IsFiniteSet(1..Len(alerts))
          /\ Cardinality(1..Len(alerts)) = IF 1 > Len(alerts) THEN 0 ELSE Len(alerts) - 1 + 1
      BY <3>1, FS_Interval
    <3> QED BY <3>2, <2>1
  <2>3. S \subseteq 1..Len(alerts)
    BY <2>1
  <2>4. IsFiniteSet(S) /\ Cardinality(S) <= Len(alerts)
    BY <2>2, <2>3, FS_Subset
  <2>5. Cardinality(S) \in Nat
    BY <2>4, FS_CardinalityType
  <2>6. Len(alerts) <= MaxEvents
    BY RowsAreRows, StreamAssumption DEF TypeInv
  <2>7. \A n : n \in Nat /\ n <= Len(alerts) => n \in 0..MaxEvents
    BY <2>1, <2>6, StreamAssumption
  <2> QED BY <2>4, <2>5, <2>7
<1> QED BY <1>1 DEF Counts

-----------------------------------------------------------------------------
(***************************************************************************)
(* What a commit does to the alerts: one of four branches.                 *)
(***************************************************************************)

\* Row k of the table becomes r and the other rows stay.
Rewritten(k, r) ==
    /\ k \in DOMAIN alerts
    /\ alerts' \in Seq(Row)
    /\ Len(alerts') = Len(alerts)
    /\ DOMAIN alerts' = DOMAIN alerts
    /\ alerts'[k] = r
    /\ \A i \in DOMAIN alerts : i # k => alerts'[i] = alerts[i]

\* A row r is added to the table.
Added(r) ==
    /\ alerts' \in Seq(Row)
    /\ Len(alerts') = Len(alerts) + 1
    /\ DOMAIN alerts' = DOMAIN alerts \cup {Len(alerts')}
    /\ Len(alerts') \notin DOMAIN alerts
    /\ alerts'[Len(alerts')] = r
    /\ \A i \in DOMAIN alerts : alerts'[i] = alerts[i]

Ignores(job) == job.level = "low" /\ job.alert = None /\ alerts' = alerts

Resolves(job) ==
    /\ job.level = "low"
    /\ job.alert # None
    /\ Rewritten(job.alert, [alerts[job.alert] EXCEPT !.status = "resolved"])

Raises(job) == job.level # "low" /\ job.alert = None /\ Added(NewAlert(job))

Updates(job) ==
    /\ job.level # "low"
    /\ job.alert # None
    /\ Rewritten(job.alert,
          [alerts[job.alert] EXCEPT !.severity = Severity(alerts[job.alert].severity, job.was, job.level),
                                    !.event = Len(events) + 1])

LEMMA RewriteKeepsRows ==
    ASSUME TypeInv, NEW k \in DOMAIN alerts, NEW r \in Row, alerts' = [alerts EXCEPT ![k] = r]
    PROVE  Rewritten(k, r)
<1>1. alerts \in Seq(Row) /\ k \in 1..Len(alerts)
  BY RowsAreRows DEF TypeInv
<1>2. /\ alerts' \in Seq(Row) /\ Len(alerts') = Len(alerts)
      /\ \A j \in 1..Len(alerts) : alerts'[j] = IF j = k THEN r ELSE alerts[j]
  BY <1>1, ExceptSeq
<1> QED BY <1>1, <1>2, LenProperties, RowsAreRows DEF Rewritten

LEMMA CommitBranches ==
    ASSUME TypeInv, NEW p \in Ingesters, Commit(p)
    PROVE  Ignores(ingester[p]) \/ Resolves(ingester[p]) \/ Raises(ingester[p]) \/ Updates(ingester[p])
<1> DEFINE job == ingester[p]
<1>1. job \in Job /\ job.asset \in Assets /\ alerts' = Upsert(job) /\ Len(events) < MaxEvents
  BY DEF Commit, TypeInv, JobFits
<1>2. Len(events) + 1 \in 1..MaxEvents
  BY <1>1, RowsAreRows, StreamAssumption
<1>3. CASE job.alert = None /\ job.level = "low"
  BY <1>1, <1>3 DEF Upsert, Ignores
<1>4. CASE job.alert = None /\ job.level # "low"
  <2>1. NewAlert(job) \in Row
    BY <1>1, <1>2, <1>4 DEF NewAlert, Row, Job, Levels, Severities
  <2>2. alerts' = Append(alerts, NewAlert(job)) /\ alerts \in Seq(Row)
    BY <1>1, <1>4 DEF Upsert, TypeInv
  <2>3. /\ alerts' \in Seq(Row) /\ Len(alerts') = Len(alerts) + 1
        /\ alerts'[Len(alerts) + 1] = NewAlert(job)
        /\ \A i \in 1..Len(alerts) : alerts'[i] = alerts[i]
    BY <2>1, <2>2, AppendProperties
  <2>4. DOMAIN alerts' = 1..(Len(alerts) + 1)
    BY <2>3, LenProperties
  <2> HIDE DEF job
  <2> QED BY <1>4, <2>3, <2>4, RowsAreRows DEF Raises, Added, job
<1>5. CASE job.alert # None
  <2>1. job.alert \in DOMAIN alerts /\ alerts[job.alert] \in Row
    BY <1>5, RowsAreRows DEF TypeInv, JobFits
  <2>2. CASE job.level = "low"
    <3> DEFINE r == [alerts[job.alert] EXCEPT !.status = "resolved"]
    <3>1. r \in Row
      BY <2>1 DEF Row
    <3>2. alerts' = [alerts EXCEPT ![job.alert] = r]
      BY <1>1, <1>5, <2>2 DEF Upsert
    <3>3. Rewritten(job.alert, r)
      BY <2>1, <3>1, <3>2, RewriteKeepsRows
    <3> QED BY <3>3, <1>5, <2>2 DEF Resolves
  <2>3. CASE job.level # "low"
    <3> DEFINE r == [alerts[job.alert] EXCEPT
                        !.severity = Severity(alerts[job.alert].severity, job.was, job.level),
                        !.event = Len(events) + 1]
    <3>1. r \in Row
      <4>1. Severity(alerts[job.alert].severity, job.was, job.level) \in Severities
        BY <1>1, <2>1, <2>3 DEF Severity, Row, Job, Levels, Severities
      <4> QED BY <4>1, <2>1, <1>2 DEF Row
    <3>2. alerts' = [alerts EXCEPT ![job.alert] = r]
      BY <1>1, <1>5, <2>1, <2>3 DEF Upsert
    <3>3. Rewritten(job.alert, r)
      BY <2>1, <3>1, <3>2, RewriteKeepsRows
    <3> QED BY <3>3, <1>5, <2>3 DEF Updates
  <2> QED BY <2>2, <2>3
<1> QED BY <1>3, <1>4, <1>5

-----------------------------------------------------------------------------
(***************************************************************************)
(* Type correctness.                                                       *)
(***************************************************************************)

\* A step that leaves the tables alone and only moves one ingester.
LEMMA JobStep ==
    ASSUME TypeInv, NEW p \in Ingesters, NEW j \in Job,
           ingester' = [ingester EXCEPT ![p] = j], UNCHANGED <<events, alerts>>,
           gauge' \in [Ingesters -> [Severities -> 0..MaxEvents] \cup {NoSample}],
           authors' \subseteq Ingesters, skipped' \subseteq Ingesters, JobFits(p)'
    PROVE  TypeInv'
<1>1. ingester' \in [Ingesters -> Job]
  BY DEF TypeInv
<1>2. ASSUME NEW q \in Ingesters PROVE JobFits(q)'
  <2>1. CASE q = p
    BY <2>1
  <2>2. CASE q # p
    <3>1. ingester'[q] = ingester[q]
      BY <2>2 DEF TypeInv
    <3> QED BY <3>1 DEF TypeInv, JobFits
  <2> QED BY <2>1, <2>2
<1> QED BY <1>1, <1>2 DEF TypeInv

LEMMA WaitingIsJob == Waiting \in Job /\ Waiting.alert = None /\ Waiting.step = "waiting"
BY DEF Waiting, Job, Steps, Levels

LEMMA ReceiveKeepsTypes ==
    ASSUME TypeInv, NEW p \in Ingesters, Receive(p)
    PROVE  TypeInv'
<1>1. PICK a \in Assets, level \in Levels :
         ingester' = [ingester EXCEPT ![p] =
            [Waiting EXCEPT !.step = "lookup", !.asset = a, !.level = level]]
  BY DEF Receive
<1> DEFINE j == [Waiting EXCEPT !.step = "lookup", !.asset = a, !.level = level]
<1>2. j \in Job /\ j.alert = None /\ j.asset \in Assets
  BY DEF Waiting, Job, Steps, Levels
<1>3. ingester' = [ingester EXCEPT ![p] = j] /\ ingester'[p] = j
  BY <1>1 DEF TypeInv
<1>4. JobFits(p)'
  BY <1>2, <1>3 DEF JobFits
<1>5. UNCHANGED <<events, alerts>> /\ UNCHANGED <<gauge, authors, skipped>>
  BY DEF Receive
<1> HIDE DEF j
<1> QED BY <1>2, <1>3, <1>4, <1>5, JobStep DEF TypeInv

\* What Lookup leaves: the ingester is ready to commit, holding no alert if the
\* asset has none, and an active alert with its severity otherwise.
LEMMA LookupResult ==
    ASSUME TypeInv, NEW p \in Ingesters, Lookup(p)
    PROVE  /\ UNCHANGED <<events, alerts, gauge, authors, skipped>>
           /\ ingester'[p] \in Job
           /\ ingester' = [ingester EXCEPT ![p] = ingester'[p]]
           /\ ingester'[p].step = "commit" /\ ingester'[p].asset = ingester[p].asset
           /\ ingester[p].asset \in Assets
           /\ \/ Active(ingester[p].asset) = {} /\ ingester'[p].alert = None
              \/ /\ ingester'[p].alert \in Active(ingester[p].asset)
                 /\ ingester'[p].was = alerts[ingester'[p].alert].severity
<1>1. ingester[p] \in Job /\ ingester[p].asset \in Assets /\ ingester[p].alert = None
      /\ UNCHANGED <<events, alerts, gauge, authors, skipped>>
  BY DEF Lookup, TypeInv, JobFits
<1>2. CASE Active(ingester[p].asset) = {}
  <2> DEFINE j == [ingester[p] EXCEPT !.step = "commit"]
  <2>1. ingester' = [ingester EXCEPT ![p] = j]
    BY <1>2 DEF Lookup
  <2>2. j \in Job /\ j.step = "commit" /\ j.asset = ingester[p].asset /\ j.alert = None
    BY <1>1 DEF Job, Steps
  <2>3. ingester'[p] = j
    BY <2>1 DEF TypeInv
  <2> HIDE DEF j
  <2> QED BY <1>1, <1>2, <2>1, <2>2, <2>3
<1>3. CASE Active(ingester[p].asset) # {}
  <2>1. PICK i \in Active(ingester[p].asset) :
           ingester' = [ingester EXCEPT ![p] =
              [ingester[p] EXCEPT !.step = "commit", !.alert = i, !.was = alerts[i].severity]]
    BY <1>3 DEF Lookup
  <2> DEFINE j == [ingester[p] EXCEPT !.step = "commit", !.alert = i, !.was = alerts[i].severity]
  <2>2. i \in Nat /\ alerts[i].severity \in Levels
    BY RowsAreRows DEF Active, Row, Severities, Levels
  <2>3. j \in Job /\ j.step = "commit" /\ j.asset = ingester[p].asset /\ j.alert = i
        /\ j.was = alerts[i].severity
    BY <1>1, <2>2 DEF Job, Steps
  <2>4. ingester' = [ingester EXCEPT ![p] = j]
    BY <2>1
  <2>5. ingester'[p] = j
    BY <2>4 DEF TypeInv
  <2> HIDE DEF j
  <2> QED BY <1>1, <2>3, <2>4, <2>5
<1> QED BY <1>2, <1>3

LEMMA LookupKeepsTypes ==
    ASSUME TypeInv, NEW p \in Ingesters, Lookup(p)
    PROVE  TypeInv'
<1>1. JobFits(p)'
  BY LookupResult DEF JobFits, Active
<1>2. UNCHANGED <<events, alerts>> /\ UNCHANGED <<gauge, authors, skipped>>
  BY LookupResult
<1>3. /\ gauge' \in [Ingesters -> [Severities -> 0..MaxEvents] \cup {NoSample}]
      /\ authors' \subseteq Ingesters /\ skipped' \subseteq Ingesters
  BY <1>2 DEF TypeInv
<1>4. PICK j \in Job : ingester' = [ingester EXCEPT ![p] = j]
  BY LookupResult
<1> QED BY <1>1, <1>2, <1>3, <1>4, JobStep

\* A commit changes no asset and removes no row.
LEMMA CommitKeepsRows ==
    ASSUME TypeInv, NEW p \in Ingesters, Commit(p)
    PROVE  /\ alerts' \in Seq(Row) /\ Len(alerts') <= Len(alerts) + 1
           /\ \A i \in DOMAIN alerts :
                 /\ i \in DOMAIN alerts' /\ alerts'[i].asset = alerts[i].asset
                 /\ alerts[i].status = "resolved" => alerts'[i].status = "resolved"
<1>1. \A i \in DOMAIN alerts : alerts[i] \in Row
  BY RowsAreRows
<1>2. CASE Ignores(ingester[p])
  BY <1>2, RowsAreRows DEF Ignores, TypeInv
<1>3. CASE Resolves(ingester[p])
  <2> DEFINE k == ingester[p].alert
  <2>1. Rewritten(k, [alerts[k] EXCEPT !.status = "resolved"]) /\ alerts[k] \in Row
    BY <1>1, <1>3 DEF Resolves, Rewritten
  <2>2. alerts'[k].asset = alerts[k].asset /\ alerts'[k].status = "resolved"
    BY <2>1 DEF Rewritten, Row
  <2>3. /\ alerts' \in Seq(Row) /\ Len(alerts') = Len(alerts) /\ DOMAIN alerts' = DOMAIN alerts
        /\ \A i \in DOMAIN alerts : i # k => alerts'[i] = alerts[i]
    BY <2>1 DEF Rewritten
  <2> HIDE DEF k
  <2> QED BY <2>2, <2>3, RowsAreRows
<1>4. CASE Raises(ingester[p])
  BY <1>1, <1>4, RowsAreRows DEF Raises, Added
<1>5. CASE Updates(ingester[p])
  <2> DEFINE k == ingester[p].alert
  <2>1. k \in DOMAIN alerts /\ alerts[k] \in Row
    BY <1>1, <1>5 DEF Updates, Rewritten
  <2>2. alerts'[k].asset = alerts[k].asset /\ alerts'[k].status = alerts[k].status
    BY <2>1, <1>5 DEF Updates, Rewritten, Row
  <2>3. /\ alerts' \in Seq(Row) /\ Len(alerts') = Len(alerts) /\ DOMAIN alerts' = DOMAIN alerts
        /\ \A i \in DOMAIN alerts : i # k => alerts'[i] = alerts[i]
    BY <1>5 DEF Updates, Rewritten
  <2> HIDE DEF k
  <2> QED BY <2>1, <2>2, <2>3, RowsAreRows
<1> QED BY <1>2, <1>3, <1>4, <1>5, CommitBranches

\* The event that a commit stores, and what is left of the ingester's job.
LEMMA CommittedEvent ==
    ASSUME TypeInv, NEW p \in Ingesters, Commit(p)
    PROVE  /\ events' \in Seq(Event) /\ Len(events') = Len(events) + 1
           /\ Len(events) < MaxEvents
           /\ ingester'[p] \in Job /\ ingester' = [ingester EXCEPT ![p] = ingester'[p]]
           /\ ingester'[p].step = "gauge" /\ ingester'[p].alert = None
<1> DEFINE j == [Waiting EXCEPT !.step = "gauge", !.asset = ingester[p].asset]
<1>1. ingester[p] \in Job /\ ingester[p].asset \in Assets
  BY DEF Commit, TypeInv, JobFits
<1>2. j \in Job /\ j.step = "gauge" /\ j.alert = None
  BY <1>1 DEF Waiting, Job, Steps, Levels
<1>3. ingester' = [ingester EXCEPT ![p] = j] /\ ingester'[p] = j
  BY DEF Commit, TypeInv
<1>4. [asset |-> ingester[p].asset, level |-> ingester[p].level] \in Event
  BY <1>1 DEF Event, Job
<1>5. events' \in Seq(Event) /\ Len(events') = Len(events) + 1
  <2>1. events \in Seq(Event)
        /\ events' = Append(events, [asset |-> ingester[p].asset, level |-> ingester[p].level])
    BY DEF Commit, TypeInv
  <2> QED BY <1>4, <2>1, AppendProperties
<1>6. Len(events) < MaxEvents
  BY DEF Commit
<1> HIDE DEF j
<1> QED BY <1>2, <1>3, <1>5, <1>6

LEMMA CommitKeepsTypes ==
    ASSUME TypeInv, NEW p \in Ingesters, Commit(p)
    PROVE  TypeInv'
<1>1. events' \in Seq(Event) /\ Len(events') <= MaxEvents /\ Len(alerts') <= Len(events')
  <2>1. Len(alerts') \in Nat
    BY CommitKeepsRows, LenProperties
  <2>2. Len(alerts) <= Len(events)
    BY DEF TypeInv
  <2> QED BY <2>1, <2>2, CommitKeepsRows, CommittedEvent, RowsAreRows, StreamAssumption
<1>2. ingester' \in [Ingesters -> Job]
  BY CommittedEvent DEF TypeInv
<1>3. ASSUME NEW q \in Ingesters PROVE JobFits(q)'
  <2>1. CASE q = p
    BY <2>1, CommittedEvent DEF JobFits
  <2>2. CASE q # p
    <3>1. ingester'[q] = ingester[q]
      BY <2>2, CommittedEvent DEF TypeInv
    <3> QED BY <3>1, CommitKeepsRows DEF TypeInv, JobFits
  <2> QED BY <2>1, <2>2
<1>4. gauge' = gauge /\ skipped' = skipped /\ authors' \subseteq Ingesters
  BY DEF Commit, TypeInv
<1> QED BY <1>1, <1>2, <1>3, <1>4, CommitKeepsRows DEF TypeInv

\* Observe, Fail, FailAfterCommit and Restart: the ingester waits again.
LEMMA ReleaseKeepsTypes ==
    ASSUME TypeInv, NEW p \in Ingesters,
           Observe(p) \/ Fail(p) \/ FailAfterCommit(p) \/ Restart(p)
    PROVE  TypeInv'
<1>1. ingester' = [ingester EXCEPT ![p] = Waiting] /\ UNCHANGED <<events, alerts>>
  BY DEF Observe, Fail, FailAfterCommit, Restart
<1>2. JobFits(p)'
  <2>1. ingester'[p] = Waiting
    BY <1>1 DEF TypeInv
  <2> QED BY <2>1, WaitingIsJob DEF JobFits
<1>3. gauge' \in [Ingesters -> [Severities -> 0..MaxEvents] \cup {NoSample}]
  BY CountsAreBounded DEF TypeInv, Observe, Fail, FailAfterCommit, Restart
<1>4. authors' \subseteq Ingesters /\ skipped' \subseteq Ingesters
  BY DEF TypeInv, Observe, Fail, FailAfterCommit, Restart
<1> QED BY <1>1, <1>2, <1>3, <1>4, WaitingIsJob, JobStep

\* After a step that is no lookup and no commit the ingester is not about to
\* commit, and the others are where they were.
LEMMA OthersWait ==
    ASSUME TypeInv, NEW p \in Ingesters,
           Receive(p) \/ Observe(p) \/ Fail(p) \/ FailAfterCommit(p) \/ Restart(p)
    PROVE  ingester'[p].step # "commit" /\ \A q \in Ingesters : q # p => ingester'[q] = ingester[q]
<1>1. PICK j : ingester' = [ingester EXCEPT ![p] = j] /\ j.step # "commit"
  <2>1. CASE Receive(p)
    <3>1. PICK a \in Assets, level \in Levels :
             ingester' = [ingester EXCEPT ![p] =
                [Waiting EXCEPT !.step = "lookup", !.asset = a, !.level = level]]
      BY <2>1 DEF Receive
    <3> WITNESS [Waiting EXCEPT !.step = "lookup", !.asset = a, !.level = level]
    <3> QED BY <3>1 DEF Waiting
  <2>2. CASE Observe(p) \/ Fail(p) \/ FailAfterCommit(p) \/ Restart(p)
    BY <2>2, WaitingIsJob DEF Observe, Fail, FailAfterCommit, Restart
  <2> QED BY <2>1, <2>2
<1> QED BY <1>1 DEF TypeInv

LEMMA InitTypes == Init => TypeInv
<1> SUFFICES ASSUME Init PROVE TypeInv
  OBVIOUS
<1>1. events \in Seq(Event) /\ alerts \in Seq(Row) /\ Len(events) = 0 /\ Len(alerts) = 0
  BY DEF Init
<1>2. ingester \in [Ingesters -> Job]
  BY WaitingIsJob DEF Init
<1>3. ASSUME NEW p \in Ingesters PROVE JobFits(p)
  BY WaitingIsJob DEF Init, JobFits
<1> QED BY <1>1, <1>2, <1>3, StreamAssumption DEF Init, TypeInv

LEMMA NextKeepsTypes == TypeInv /\ [Next]_vars => TypeInv'
<1> SUFFICES ASSUME TypeInv, [Next]_vars PROVE TypeInv'
  OBVIOUS
<1>1. ASSUME NEW p \in Ingesters, Receive(p) PROVE TypeInv'
  BY <1>1, ReceiveKeepsTypes
<1>2. ASSUME NEW p \in Ingesters, Lookup(p) PROVE TypeInv'
  BY <1>2, LookupKeepsTypes
<1>3. ASSUME NEW p \in Ingesters, Commit(p) PROVE TypeInv'
  BY <1>3, CommitKeepsTypes
<1>4. ASSUME NEW p \in Ingesters, Observe(p) \/ Fail(p) \/ FailAfterCommit(p) \/ Restart(p)
      PROVE  TypeInv'
  BY <1>4, ReleaseKeepsTypes
<1>5. CASE UNCHANGED vars
  BY <1>5 DEF vars, TypeInv, JobFits
<1> QED BY <1>1, <1>2, <1>3, <1>4, <1>5 DEF Next

LEMMA TypesHold == Spec => []TypeInv
BY InitTypes, NextKeepsTypes, PTL DEF Spec

\* TypeOK: the tables keep their types, an ingester only holds an alert that
\* exists, and no gauge shows more alerts than there were events.
THEOREM TypeCorrect == Spec => []TypeOK
<1>1. TypeInv => TypeOK
  <2> SUFFICES ASSUME TypeInv PROVE TypeOK
    OBVIOUS
  <2>1. ASSUME NEW p \in Ingesters
        PROVE  /\ ingester[p] \in Job
               /\ ingester[p].alert \in DOMAIN alerts \cup {None}
    BY DEF TypeInv, JobFits
  <2> QED BY <2>1 DEF TypeOK, TypeInv, Event, Job, Steps
<1> QED BY <1>1, TypesHold, PTL

-----------------------------------------------------------------------------
(***************************************************************************)
(* Resolved alerts.                                                        *)
(***************************************************************************)

ResolvedStep ==
    \A i \in DOMAIN alerts :
       /\ i \in DOMAIN alerts'
       /\ alerts[i].status = "resolved" => alerts'[i].status = "resolved"

\* ResolvedIsFinal: no commit, of a copy however old, takes an alert's status back
\* from resolved; the statement is about the status only.
THEOREM ResolvedStays == Spec => ResolvedIsFinal
<1>1. TypeInv /\ [Next]_vars => [ResolvedStep]_vars
  <2> SUFFICES ASSUME TypeInv, Next PROVE ResolvedStep
    BY DEF vars
  <2>1. ASSUME NEW p \in Ingesters, Commit(p) PROVE ResolvedStep
    BY <2>1, CommitKeepsRows DEF ResolvedStep
  <2>2. ASSUME NEW p \in Ingesters, ~Commit(p),
               \/ Receive(p) \/ Lookup(p) \/ Observe(p)
               \/ Fail(p) \/ FailAfterCommit(p) \/ Restart(p)
        PROVE  ResolvedStep
    <3>1. alerts' = alerts
      BY <2>2 DEF Receive, Lookup, Observe, Fail, FailAfterCommit, Restart
    <3> QED BY <3>1 DEF ResolvedStep
  <2> QED BY <2>1, <2>2 DEF Next
<1>2. [][ResolvedStep]_vars => ResolvedIsFinal
  BY PTL DEF ResolvedIsFinal, ResolvedStep
<1> QED BY <1>1, <1>2, TypesHold, PTL DEF Spec

-----------------------------------------------------------------------------
(***************************************************************************)
(* Duplicates.                                                             *)
(***************************************************************************)

LEMMA CountedSetsAreFinite ==
    ASSUME TypeInv, NEW a
    PROVE  /\ IsFiniteSet(Active(a)) /\ Cardinality(Active(a)) \in Nat
           /\ IsFiniteSet(Inserting(a)) /\ Cardinality(Inserting(a)) \in Nat
           /\ Cardinality(Inserting(a)) <= Cardinality(Ingesters)
           /\ Cardinality(Ingesters) \in Nat
<1>1. Active(a) \subseteq 1..Len(alerts) /\ Len(alerts) \in Int /\ 1 \in Int
  BY RowsAreRows DEF Active
<1>2. IsFiniteSet(Active(a))
  BY <1>1, FS_Interval, FS_Subset
<1>3. Inserting(a) \subseteq Ingesters
  BY DEF Inserting
<1> QED BY <1>2, <1>3, StreamAssumption, FS_Subset, FS_CardinalityType

\* An alert is only inserted by an ingester that was on its way to insert it.
LEMMA CommitKeepsDuplicates ==
    ASSUME TypeInv, TypeInv', DuplicatesAreBounded, NEW p \in Ingesters, Commit(p)
    PROVE  DuplicatesAreBounded'
<1> DEFINE job == ingester[p]
<1> SUFFICES ASSUME NEW a \in Assets
             PROVE  Cardinality(Active(a)') + Cardinality(Inserting(a)') <= Cardinality(Ingesters)
  BY DEF DuplicatesAreBounded
<1>1. /\ Cardinality(Active(a)) + Cardinality(Inserting(a)) <= Cardinality(Ingesters)
      /\ IsFiniteSet(Active(a)) /\ Cardinality(Active(a)) \in Nat
      /\ IsFiniteSet(Inserting(a)) /\ Cardinality(Inserting(a)) \in Nat
      /\ Cardinality(Ingesters) \in Nat
  BY CountedSetsAreFinite DEF DuplicatesAreBounded
<1>2. Inserting(a)' = Inserting(a) \ {p}
  <2>1. \A q \in Ingesters : q # p => ingester'[q] = ingester[q]
    BY CommittedEvent DEF TypeInv
  <2> QED BY <2>1, CommittedEvent DEF Inserting
<1>3. IsFiniteSet(Inserting(a)') /\ Cardinality(Inserting(a)') \in Nat
      /\ Cardinality(Inserting(a)') = IF p \in Inserting(a) THEN Cardinality(Inserting(a)) - 1
                                      ELSE Cardinality(Inserting(a))
  BY <1>1, <1>2, FS_RemoveElement, FS_CardinalityType
<1>4. ASSUME Active(a)' \subseteq Active(a)
      PROVE  Cardinality(Active(a)') + Cardinality(Inserting(a)') <= Cardinality(Ingesters)
  <2>1. Cardinality(Active(a)') <= Cardinality(Active(a)) /\ Cardinality(Active(a)') \in Nat
    BY <1>1, <1>4, FS_Subset, FS_CardinalityType
  <2> QED BY <1>1, <1>3, <2>1
<1>5. CASE Ignores(job)
  BY <1>4, <1>5 DEF Ignores, Active
<1>6. CASE Resolves(job)
  <2>1. Active(a)' \subseteq Active(a)
    <3>1. alerts[job.alert] \in Row /\ DOMAIN alerts' = DOMAIN alerts
          /\ \A i \in DOMAIN alerts : i # job.alert => alerts'[i] = alerts[i]
      BY <1>6, RowsAreRows DEF Resolves, Rewritten
    <3>2. alerts'[job.alert].status = "resolved"
      BY <1>6, <3>1 DEF Resolves, Rewritten, Row
    <3> HIDE DEF job
    <3> QED BY <3>1, <3>2 DEF Active
  <2> QED BY <2>1, <1>4
<1>7. CASE Updates(job)
  <2>1. alerts[job.alert] \in Row /\ DOMAIN alerts' = DOMAIN alerts
    BY <1>7, RowsAreRows DEF Updates, Rewritten
  <2>2. alerts'[job.alert].status = alerts[job.alert].status
    BY <2>1, <1>7 DEF Updates, Rewritten, Row
  <2>3. \A i \in DOMAIN alerts : alerts'[i].status = alerts[i].status
                                 /\ alerts'[i].asset = alerts[i].asset
    BY <2>2, <1>7, CommitKeepsRows DEF Updates, Rewritten
  <2>4. Active(a)' \subseteq Active(a)
    BY <2>1, <2>3 DEF Active
  <2> QED BY <2>4, <1>4
<1>8. CASE Raises(job)
  <2>1. \A i \in DOMAIN alerts : alerts'[i] = alerts[i]
    BY <1>8 DEF Raises, Added
  <2>2. DOMAIN alerts' = DOMAIN alerts \cup {Len(alerts')} /\ Len(alerts') \notin DOMAIN alerts
        /\ alerts'[Len(alerts')].asset = job.asset
    BY <1>8 DEF Raises, Added, NewAlert
  <2>3. CASE a = job.asset
    <3>1. p \in Inserting(a)
      BY <2>3, <1>8 DEF Raises, Inserting, Commit
    <3>2. Active(a)' \subseteq Active(a) \cup {Len(alerts')}
      BY <2>1, <2>2 DEF Active
    <3>3. IsFiniteSet(Active(a) \cup {Len(alerts')})
          /\ Cardinality(Active(a) \cup {Len(alerts')}) <= Cardinality(Active(a)) + 1
      <4>1. /\ IsFiniteSet(Active(a) \cup {Len(alerts')})
            /\ Cardinality(Active(a) \cup {Len(alerts')}) =
                  IF Len(alerts') \in Active(a) THEN Cardinality(Active(a)) ELSE Cardinality(Active(a)) + 1
        BY <1>1, FS_AddElement
      <4> QED BY <4>1, <1>1
    <3>4. Cardinality(Active(a)') <= Cardinality(Active(a) \cup {Len(alerts')})
          /\ Cardinality(Active(a)') \in Nat /\ Cardinality(Active(a) \cup {Len(alerts')}) \in Nat
      BY <3>2, <3>3, FS_Subset, FS_CardinalityType
    <3> QED BY <3>1, <3>3, <3>4, <1>1, <1>3
  <2>4. CASE a # job.asset
    <3>1. Active(a)' \subseteq Active(a)
      BY <2>1, <2>2, <2>4 DEF Active
    <3> QED BY <3>1, <1>4
  <2> QED BY <2>3, <2>4
<1> QED BY <1>5, <1>6, <1>7, <1>8, CommitBranches

\* DuplicatesAreBounded: an asset never has more active alerts than there are
\* ingesters, whatever they looked up and however their commits interleave.
THEOREM DuplicatesBounded == Spec => []DuplicatesAreBounded
<1>1. Init => DuplicatesAreBounded
  <2> SUFFICES ASSUME Init, NEW a \in Assets
               PROVE  Cardinality(Active(a)) + Cardinality(Inserting(a)) <= Cardinality(Ingesters)
    BY DEF DuplicatesAreBounded
  <2>1. Active(a) = {} /\ Inserting(a) = {}
    BY WaitingIsJob DEF Init, Active, Inserting
  <2>2. Cardinality(Ingesters) \in Nat
    BY StreamAssumption, FS_CardinalityType
  <2> QED BY <2>1, <2>2, FS_EmptySet
<1>2. TypeInv /\ TypeInv' /\ DuplicatesAreBounded /\ [Next]_vars => DuplicatesAreBounded'
  <2> SUFFICES ASSUME TypeInv, TypeInv', DuplicatesAreBounded, [Next]_vars
               PROVE  DuplicatesAreBounded'
    OBVIOUS
  <2>1. ASSUME alerts' = alerts,
               \A a \in Assets : Inserting(a)' \subseteq Inserting(a) \/ Active(a) = {}
        PROVE  DuplicatesAreBounded'
    <3> SUFFICES ASSUME NEW a \in Assets
                 PROVE  Cardinality(Active(a)') + Cardinality(Inserting(a)') <= Cardinality(Ingesters)
      BY DEF DuplicatesAreBounded
    <3>1. Active(a)' = Active(a)
      BY <2>1 DEF Active
    <3>2. Inserting(a)' \subseteq Ingesters
      BY DEF Inserting
    <3>3. Cardinality(Inserting(a)') <= Cardinality(Ingesters) /\ Cardinality(Inserting(a)') \in Nat
      BY <3>2, StreamAssumption, FS_Subset, FS_CardinalityType
    <3>4. CASE Active(a) = {}
      <4>1. Cardinality(Active(a)') = 0
        BY <3>1, <3>4, FS_EmptySet
      <4> QED BY <4>1, <3>3, CountedSetsAreFinite
    <3>5. CASE Inserting(a)' \subseteq Inserting(a)
      <4>1. Cardinality(Inserting(a)') <= Cardinality(Inserting(a))
        BY <3>5, CountedSetsAreFinite, FS_Subset
      <4> QED BY <3>1, <3>3, <4>1, CountedSetsAreFinite DEF DuplicatesAreBounded
    <3> QED BY <3>4, <3>5, <2>1
  <2>2. ASSUME NEW p \in Ingesters, Lookup(p) PROVE DuplicatesAreBounded'
    <3>1. alerts' = alerts /\ \A q \in Ingesters : q # p => ingester'[q] = ingester[q]
      BY <2>2, LookupResult DEF TypeInv
    <3>2. ASSUME NEW a \in Assets, Active(a) # {} PROVE Inserting(a)' \subseteq Inserting(a)
      <4>1. p \notin Inserting(a)'
        <5>1. (Active(ingester[p].asset) = {} /\ ingester'[p].asset = ingester[p].asset)
              \/ ingester'[p].alert \in DOMAIN alerts
          BY <2>2, LookupResult DEF Active
        <5>2. None \notin DOMAIN alerts
          BY RowsAreRows, StreamAssumption
        <5> QED BY <3>2, <5>1, <5>2 DEF Inserting
      <4> QED BY <4>1, <3>1 DEF Inserting
    <3> QED BY <3>1, <3>2, <2>1
  <2>3. ASSUME NEW p \in Ingesters,
               Receive(p) \/ Observe(p) \/ Fail(p) \/ FailAfterCommit(p) \/ Restart(p)
        PROVE  DuplicatesAreBounded'
    <3>1. alerts' = alerts
      BY <2>3 DEF Receive, Observe, Fail, FailAfterCommit, Restart
    <3>2. ingester'[p].step # "commit" /\ \A q \in Ingesters : q # p => ingester'[q] = ingester[q]
      BY <2>3, OthersWait
    <3> QED BY <3>1, <3>2, <2>1 DEF Inserting
  <2>4. ASSUME NEW p \in Ingesters, Commit(p) PROVE DuplicatesAreBounded'
    BY <2>4, CommitKeepsDuplicates
  <2>5. CASE UNCHANGED vars
    BY <2>5 DEF vars, DuplicatesAreBounded, Active, Inserting
  <2> QED BY <2>2, <2>3, <2>4, <2>5 DEF Next
<1> QED BY <1>1, <1>2, TypesHold, PTL DEF Spec

-----------------------------------------------------------------------------
(***************************************************************************)
(* The gauge.  A sample is only current because nobody but its process has *)
(* committed since: a process that has a sample, or is about to take one,  *)
(* is an author, and a second author ends the claim.                       *)
(***************************************************************************)

GaugeInv ==
    \A p \in Ingesters :
       /\ gauge[p] # NoSample \/ ingester[p].step = "gauge" => p \in authors
       /\ OneAuthor /\ p \notin skipped /\ ingester[p].step # "gauge" /\ gauge[p] # NoSample =>
             gauge[p] = Counts(alerts)

\* With one author, the ingester that commits is the author.
LEMMA AuthorIsAlone ==
    ASSUME TypeInv, NEW p \in Ingesters, Commit(p), OneAuthor'
    PROVE  authors' = {p} /\ authors \subseteq {p} /\ OneAuthor
<1>1. authors' = authors \cup {p} /\ IsFiniteSet(authors')
  <2>1. authors' \subseteq Ingesters /\ authors' = authors \cup {p}
    BY DEF Commit, TypeInv
  <2> QED BY <2>1, StreamAssumption, FS_Subset
<1>2. Cardinality(authors') = 0 \/ Cardinality(authors') = 1
  BY <1>1, FS_CardinalityType DEF OneAuthor
<1>3. Cardinality(authors') # 0
  BY <1>1, FS_EmptySet
<1>4. PICK x : authors' = {x}
  BY <1>1, <1>2, <1>3, FS_Singleton
<1>5. authors' = {p} /\ authors \subseteq {p}
  BY <1>1, <1>4
<1>6. Cardinality(authors) <= 1
  <2>1. authors = {} \/ authors = {p}
    BY <1>5
  <2>2. Cardinality({}) = 0 /\ Cardinality({p}) = 1
    BY FS_EmptySet, FS_Singleton
  <2> QED BY <2>1, <2>2
<1> QED BY <1>5, <1>6 DEF OneAuthor

LEMMA NextKeepsGauge == TypeInv /\ GaugeInv /\ [Next]_vars => GaugeInv'
<1> SUFFICES ASSUME TypeInv, GaugeInv, [Next]_vars PROVE GaugeInv'
  OBVIOUS
<1>1. ASSUME NEW p \in Ingesters, Commit(p) PROVE GaugeInv'
  <2>1. p \in authors' /\ gauge' = gauge /\ skipped' = skipped /\ authors \subseteq authors'
    BY <1>1 DEF Commit
  <2>2. ingester'[p].step = "gauge" /\ \A q \in Ingesters : q # p => ingester'[q] = ingester[q]
    BY <1>1, CommittedEvent DEF TypeInv
  <2>3. ASSUME NEW q \in Ingesters, gauge'[q] # NoSample \/ ingester'[q].step = "gauge"
        PROVE  q \in authors'
    BY <2>1, <2>2, <2>3 DEF GaugeInv
  <2>4. ASSUME NEW q \in Ingesters, OneAuthor', ingester'[q].step # "gauge", gauge'[q] # NoSample
        PROVE  FALSE
    <3>1. q \in authors /\ q # p
      BY <2>1, <2>2, <2>4 DEF GaugeInv
    <3> QED BY <3>1, <2>4, <1>1, AuthorIsAlone
  <2> QED BY <2>3, <2>4 DEF GaugeInv
<1>2. ASSUME NEW p \in Ingesters, Observe(p) PROVE GaugeInv'
  <2>1. p \in authors /\ authors' = authors /\ alerts' = alerts
    BY <1>2 DEF Observe, GaugeInv
  <2>2. gauge'[p] = Counts(alerts) /\ Counts(alerts)' = Counts(alerts)
    BY <1>2, <2>1 DEF Observe, TypeInv, Counts
  <2>3. \A q \in Ingesters : q # p =>
           ingester'[q] = ingester[q] /\ gauge'[q] = gauge[q] /\ (q \in skipped' <=> q \in skipped)
    BY <1>2 DEF Observe, TypeInv
  <2> QED BY <2>1, <2>2, <2>3 DEF GaugeInv, OneAuthor
<1>3. ASSUME NEW p \in Ingesters, Receive(p) \/ Lookup(p) \/ Fail(p) \/ FailAfterCommit(p)
      PROVE  GaugeInv'
  <2>1. UNCHANGED <<alerts, authors, gauge>> /\ Counts(alerts)' = Counts(alerts)
    <3>1. UNCHANGED <<alerts, authors, gauge>>
      BY <1>3, LookupResult DEF Receive, Fail, FailAfterCommit
    <3> QED BY <3>1 DEF Counts
  <2>2. \A q \in Ingesters : q # p => ingester'[q] = ingester[q] /\ (q \in skipped' <=> q \in skipped)
    BY <1>3, LookupResult DEF Receive, Fail, FailAfterCommit, TypeInv
  <2>3. ingester'[p].step # "gauge"
    <3>1. CASE Receive(p)
      <4>1. PICK a \in Assets, level \in Levels :
               ingester' = [ingester EXCEPT ![p] =
                  [Waiting EXCEPT !.step = "lookup", !.asset = a, !.level = level]]
        BY <3>1 DEF Receive
      <4> QED BY <4>1 DEF TypeInv, Waiting
    <3>2. CASE Lookup(p)
      BY <3>2, LookupResult
    <3>3. CASE Fail(p) \/ FailAfterCommit(p)
      BY <3>3, WaitingIsJob DEF Fail, FailAfterCommit, TypeInv
    <3> QED BY <3>1, <3>2, <3>3, <1>3
  <2>4. p \in skipped' \/ (ingester[p].step # "gauge" /\ (p \in skipped' <=> p \in skipped))
    BY <1>3, LookupResult DEF Receive, Lookup, Fail, FailAfterCommit
  <2> QED BY <2>1, <2>2, <2>3, <2>4 DEF GaugeInv, OneAuthor
<1>4. ASSUME NEW p \in Ingesters, Restart(p) PROVE GaugeInv'
  <2>1. UNCHANGED <<alerts, authors>> /\ Counts(alerts)' = Counts(alerts)
    BY <1>4 DEF Restart, Counts
  <2>2. gauge'[p] = NoSample /\ ingester'[p].step = "waiting"
    BY <1>4, WaitingIsJob DEF Restart, TypeInv
  <2>3. \A q \in Ingesters : q # p =>
           ingester'[q] = ingester[q] /\ gauge'[q] = gauge[q] /\ (q \in skipped' <=> q \in skipped)
    BY <1>4 DEF Restart, TypeInv
  <2> QED BY <2>1, <2>2, <2>3 DEF GaugeInv, OneAuthor
<1>5. CASE UNCHANGED vars
  <2>1. Counts(alerts)' = Counts(alerts)
    BY <1>5 DEF vars, Counts
  <2> QED BY <1>5, <2>1 DEF vars, GaugeInv, OneAuthor
<1> QED BY <1>1, <1>2, <1>3, <1>4, <1>5 DEF Next

\* GaugeIsCurrent: while one process stores the events its gauge shows the
\* table, whatever failed or restarted, unless its last refresh failed.
THEOREM GaugeCurrent == Spec => []GaugeIsCurrent
<1>1. Init => GaugeInv
  <2> SUFFICES ASSUME Init PROVE GaugeInv
    OBVIOUS
  <2>1. \A p \in Ingesters : gauge[p] = NoSample /\ ingester[p].step = "waiting"
    BY WaitingIsJob DEF Init
  <2> QED BY <2>1 DEF GaugeInv
<1>2. GaugeInv => GaugeIsCurrent
  BY DEF GaugeInv, GaugeIsCurrent
<1> QED BY <1>1, <1>2, NextKeepsGauge, TypesHold, PTL DEF Spec

-----------------------------------------------------------------------------
(***************************************************************************)
(* The alert board.  With one author the alerts of an asset are at most    *)
(* one active row, and what an ingester looked up still holds when it      *)
(* commits, as long as no other ingester has committed anything.           *)
(***************************************************************************)

OneActive == OneAuthor => \A a \in Assets : \A i, j \in Active(a) : i = j

LookupIsFresh(p) ==
    ingester[p].step = "commit" /\ authors \subseteq {p} =>
       \/ ingester[p].alert = None /\ Active(ingester[p].asset) = {}
       \/ /\ ingester[p].alert \in Active(ingester[p].asset)
          /\ ingester[p].was = alerts[ingester[p].alert].severity

BoardInv == OneActive /\ \A p \in Ingesters : LookupIsFresh(p)

\* A commit by the only author switches the lamp of its asset and no other.
LEMMA CommitSwitchesLamp ==
    ASSUME TypeInv, BoardInv, NEW p \in Ingesters, Commit(p), OneAuthor',
           NEW job, NEW a, job = ingester[p], a = job.asset
    PROVE  /\ a \in Assets
           /\ \A b \in Assets \ {a} :
                 Active(b)' = Active(b) /\ \A i \in Active(b) : alerts'[i] = alerts[i]
           /\ job.level = "low" => Active(a)' = {}
           /\ job.level # "low" =>
                 \E k : Active(a)' = {k} /\ alerts'[k].severity = job.level
<1>0. job = ingester[p] /\ a = job.asset /\ a \in Assets
  BY DEF Commit, TypeInv, JobFits
<1>1. a \in Assets /\ \A i, j \in Active(a) : i = j
  BY <1>0, AuthorIsAlone DEF BoardInv, OneActive
<1>2. \/ job.alert = None /\ Active(a) = {}
      \/ job.alert \in Active(a) /\ job.was = alerts[job.alert].severity
  BY <1>0, AuthorIsAlone DEF BoardInv, LookupIsFresh, Commit
<1>3. None \notin DOMAIN alerts
  BY RowsAreRows, StreamAssumption
<1>4. CASE Ignores(job)
  <2>1. alerts' = alerts /\ job.level = "low" /\ Active(a) = {}
    BY <1>2, <1>3, <1>4 DEF Ignores, Active
  <2> QED BY <2>1, <1>0 DEF Active
<1>5. CASE Resolves(job)
  <2>1. job.alert \in Active(a) /\ alerts[job.alert] \in Row /\ job.level = "low"
    BY <1>2, <1>5, RowsAreRows DEF Resolves, Active
  <2>2. Active(a) = {job.alert}
    BY <2>1, <1>1
  <2>3. DOMAIN alerts' = DOMAIN alerts /\ \A i \in DOMAIN alerts : i # job.alert => alerts'[i] = alerts[i]
    BY <1>5 DEF Resolves, Rewritten
  <2>4. alerts'[job.alert].status = "resolved" /\ alerts'[job.alert].asset = a
    BY <1>5, <2>1 DEF Resolves, Rewritten, Row, Active
  <2>5. Active(a)' = {}
    BY <2>2, <2>3, <2>4 DEF Active
  <2>6. ASSUME NEW b \in Assets, b # a
        PROVE  Active(b)' = Active(b) /\ \A i \in Active(b) : alerts'[i] = alerts[i]
    BY <2>1, <2>3, <2>4, <2>6 DEF Active
  <2> QED BY <2>1, <2>5, <2>6, <1>0
<1>6. CASE Raises(job)
  <2>1. Active(a) = {} /\ job.level # "low"
    BY <1>2, <1>3, <1>6 DEF Raises, Active
  <2>2. PICK k : k = Len(alerts')
    OBVIOUS
  <2>3. DOMAIN alerts' = DOMAIN alerts \cup {k} /\ k \notin DOMAIN alerts
        /\ \A i \in DOMAIN alerts : alerts'[i] = alerts[i]
    BY <1>6, <2>2 DEF Raises, Added
  <2>4. alerts'[k].asset = a /\ alerts'[k].severity = job.level /\ alerts'[k].status = "active"
    BY <1>0, <1>6, <2>2 DEF Raises, Added, NewAlert
  <2>5. Active(a)' = {k}
    BY <2>1, <2>3, <2>4 DEF Active
  <2>6. ASSUME NEW b \in Assets, b # a
        PROVE  Active(b)' = Active(b) /\ \A i \in Active(b) : alerts'[i] = alerts[i]
    BY <2>3, <2>4, <2>6 DEF Active
  <2> QED BY <2>1, <2>4, <2>5, <2>6, <1>0
<1>7. CASE Updates(job)
  <2>1. job.alert \in Active(a) /\ job.was = alerts[job.alert].severity
        /\ alerts[job.alert] \in Row /\ job.level # "low"
    BY <1>2, <1>7, RowsAreRows DEF Updates, Active
  <2>2. Active(a) = {job.alert}
    BY <2>1, <1>1
  <2>3. DOMAIN alerts' = DOMAIN alerts /\ \A i \in DOMAIN alerts : i # job.alert => alerts'[i] = alerts[i]
    BY <1>7 DEF Updates, Rewritten
  <2>4. alerts'[job.alert].status = "active" /\ alerts'[job.alert].asset = a
    BY <1>7, <2>1 DEF Updates, Rewritten, Row, Active
  <2>5. alerts'[job.alert].severity = job.level
    <3>1. alerts'[job.alert].severity = Severity(alerts[job.alert].severity, job.was, job.level)
      BY <1>7, <2>1 DEF Updates, Rewritten, Row
    <3> QED BY <3>1, <2>1 DEF Severity
  <2>6. Active(a)' = {job.alert}
    BY <2>2, <2>3, <2>4 DEF Active
  <2>7. ASSUME NEW b \in Assets, b # a
        PROVE  Active(b)' = Active(b) /\ \A i \in Active(b) : alerts'[i] = alerts[i]
    BY <2>1, <2>3, <2>4, <2>7 DEF Active
  <2> QED BY <2>1, <2>5, <2>6, <2>7, <1>0
<1> QED BY <1>0, <1>4, <1>5, <1>6, <1>7, CommitBranches

LEMMA NextKeepsBoard == TypeInv /\ BoardInv /\ [Next]_vars => BoardInv'
<1> SUFFICES ASSUME TypeInv, BoardInv, [Next]_vars PROVE BoardInv'
  OBVIOUS
<1>1. ASSUME NEW p \in Ingesters, Commit(p) PROVE BoardInv'
  <2>1. ASSUME OneAuthor', NEW b \in Assets, NEW i \in Active(b)', NEW j \in Active(b)' PROVE i = j
    <3>0. PICK job, a : job = ingester[p] /\ a = job.asset
      OBVIOUS
    <3>1. CASE b = a
      <4>1. Active(a)' = {} \/ \E k : Active(a)' = {k}
        <5>1. job.level = "low" => Active(a)' = {}
          BY <3>0, <2>1, <1>1, CommitSwitchesLamp
        <5>2. job.level # "low" => \E k : Active(a)' = {k} /\ alerts'[k].severity = job.level
          BY <3>0, <2>1, <1>1, CommitSwitchesLamp
        <5> QED BY <5>1, <5>2
      <4> QED BY <4>1, <3>1, <2>1
    <3>2. CASE b # a
      <4>1. Active(b)' = Active(b)
        BY <3>0, <3>2, <2>1, <1>1, CommitSwitchesLamp
      <4> QED BY <4>1, <2>1, <1>1, AuthorIsAlone DEF BoardInv, OneActive
    <3> QED BY <3>1, <3>2
  <2>2. ASSUME NEW q \in Ingesters PROVE LookupIsFresh(q)'
    <3>1. CASE q = p
      BY <3>1, <1>1, CommittedEvent DEF LookupIsFresh
    <3>2. CASE q # p
      BY <3>2, <1>1 DEF Commit, LookupIsFresh
    <3> QED BY <3>1, <3>2
  <2> QED BY <2>1, <2>2 DEF BoardInv, OneActive
<1>2. ASSUME NEW p \in Ingesters, UNCHANGED <<alerts, authors>>, LookupIsFresh(p)',
             \A q \in Ingesters : q # p => ingester'[q] = ingester[q]
      PROVE  BoardInv'
  <2>1. \A a : Active(a)' = Active(a)
    BY <1>2 DEF Active
  <2>2. ASSUME NEW q \in Ingesters, q # p PROVE LookupIsFresh(q)'
    <3>1. Active(ingester[q].asset)' = Active(ingester[q].asset)
      BY <1>2, <2>2 DEF Active
    <3> QED BY <3>1, <1>2, <2>2 DEF BoardInv, LookupIsFresh
  <2> QED BY <2>1, <2>2, <1>2 DEF BoardInv, OneActive, OneAuthor
<1>3. ASSUME NEW p \in Ingesters, Lookup(p) PROVE BoardInv'
  <2>1. UNCHANGED <<alerts, authors>> /\ \A q \in Ingesters : q # p => ingester'[q] = ingester[q]
    BY <1>3, LookupResult DEF TypeInv
  <2>2. Active(ingester[p].asset)' = Active(ingester[p].asset)
    BY <1>3, LookupResult DEF Active
  <2>3. LookupIsFresh(p)'
    BY <1>3, <2>1, <2>2, LookupResult DEF LookupIsFresh
  <2> QED BY <2>1, <2>3, <1>2
<1>4. ASSUME NEW p \in Ingesters,
             Receive(p) \/ Observe(p) \/ Fail(p) \/ FailAfterCommit(p) \/ Restart(p)
      PROVE  BoardInv'
  <2>1. UNCHANGED <<alerts, authors>>
    BY <1>4 DEF Receive, Observe, Fail, FailAfterCommit, Restart
  <2>2. ingester'[p].step # "commit" /\ \A q \in Ingesters : q # p => ingester'[q] = ingester[q]
    BY <1>4, OthersWait
  <2> QED BY <2>1, <2>2, <1>2 DEF LookupIsFresh
<1>5. CASE UNCHANGED vars
  BY <1>5 DEF vars, BoardInv, OneActive, OneAuthor, LookupIsFresh, Active
<1> QED BY <1>1, <1>3, <1>4, <1>5 DEF Next

\* What a step does to the board when it leaves one author.
ContractStep ==
    OneAuthor' =>
       /\ [Contract!Next]_<<events, Board>>
       /\ \A a \in Assets : Cardinality(Active(a)') <= 1

LEMMA BoardOfCommit ==
    ASSUME TypeInv, BoardInv, NEW p \in Ingesters, Commit(p), OneAuthor'
    PROVE  Board' = [Board EXCEPT ![ingester[p].asset] = Contract!Lamp(ingester[p].level)]
<1>0. PICK job, a, level : job = ingester[p] /\ a = job.asset /\ level = job.level
  OBVIOUS
<1>1. \A b \in Assets \ {a} : Board'[b] = Board[b]
  <2> SUFFICES ASSUME NEW b \in Assets, b # a PROVE Board'[b] = Board[b]
    OBVIOUS
  <2>1. Active(b)' = Active(b) /\ \A i \in Active(b) : alerts'[i] = alerts[i]
    BY <1>0, CommitSwitchesLamp
  <2>2. CASE Active(b) = {}
    BY <2>1, <2>2 DEF Board
  <2>3. CASE Active(b) # {}
    <3>1. (CHOOSE i \in Active(b) : TRUE) \in Active(b)
      BY <2>3
    <3> QED BY <2>1, <2>3, <3>1 DEF Board
  <2> QED BY <2>2, <2>3
<1>2. a \in Assets
  BY <1>0 DEF Commit, TypeInv, JobFits
<1>3. Board'[a] = Contract!Lamp(level)
  <2>1. CASE level = "low"
    <3>1. Active(a)' = {}
      BY <2>1, <1>0, CommitSwitchesLamp
    <3> QED BY <3>1, <2>1, <1>2 DEF Board, Contract!Lamp
  <2>2. CASE level # "low"
    <3>1. PICK k : Active(a)' = {k} /\ alerts'[k].severity = level
      BY <2>2, <1>0, CommitSwitchesLamp
    <3>2. (CHOOSE i \in Active(a)' : TRUE) = k
      BY <3>1
    <3> QED BY <3>1, <3>2, <2>2, <1>2 DEF Board, Contract!Lamp
  <2> QED BY <2>1, <2>2
<1> PICK lamp : lamp = Contract!Lamp(level)
  OBVIOUS
<1>4. /\ Board = [b \in Assets |-> Board[b]]
      /\ Board' = [b \in Assets |-> Board'[b]]
  BY DEF Board
<1>5. Board' = [Board EXCEPT ![a] = lamp]
  BY <1>1, <1>2, <1>3, <1>4
<1> QED BY <1>0, <1>5

\* ImplementsContract: while one ingester stores the events, every step is a step
\* of the alert board or leaves it alone.
THEOREM Refinement == Spec => ImplementsContract
<1>1. Init => Contract!Init
  <2> SUFFICES ASSUME Init PROVE Contract!Init
    OBVIOUS
  <2>1. events = <<>> /\ \A a \in Assets : Active(a) = {}
    BY DEF Init, Active
  <2> QED BY <2>1 DEF Contract!Init, Board
<1>2. Init => BoardInv
  BY WaitingIsJob DEF Init, BoardInv, OneActive, LookupIsFresh, Active
<1>3. TypeInv /\ BoardInv /\ BoardInv' /\ [Next]_vars => [ContractStep]_vars
  <2> SUFFICES ASSUME TypeInv, BoardInv, BoardInv', Next, OneAuthor'
               PROVE  /\ [Contract!Next]_<<events, Board>>
                      /\ \A a \in Assets : Cardinality(Active(a)') <= 1
    BY DEF ContractStep, vars
  <2>1. ASSUME NEW a \in Assets PROVE Cardinality(Active(a)') <= 1
    <3>1. \A i, j \in Active(a)' : i = j
      BY DEF BoardInv, OneActive
    <3>2. Active(a)' = {} \/ \E k : Active(a)' = {k}
      BY <3>1
    <3>3. CASE Active(a)' = {}
      <4>1. Cardinality(Active(a)') = 0
        BY <3>3, FS_EmptySet
      <4> QED BY <4>1
    <3>4. ASSUME NEW k, Active(a)' = {k} PROVE Cardinality(Active(a)') <= 1
      <4>1. Cardinality(Active(a)') = 1
        BY <3>4, FS_Singleton
      <4> QED BY <4>1
    <3> QED BY <3>2, <3>3, <3>4
  <2>2. ASSUME NEW p \in Ingesters, Commit(p) PROVE Contract!Next
    <3>1. ingester[p].asset \in Assets /\ ingester[p].level \in {"low", "medium", "high"}
      BY <2>2 DEF Commit, TypeInv, JobFits, Job, Levels
    <3>2. Contract!Ingest(ingester[p].asset, ingester[p].level)
      BY <2>2, BoardOfCommit DEF Commit, Contract!Ingest
    <3> QED BY <3>1, <3>2 DEF Contract!Next
  <2>3. ASSUME NEW p \in Ingesters,
               \/ Receive(p) \/ Lookup(p) \/ Observe(p)
               \/ Fail(p) \/ FailAfterCommit(p) \/ Restart(p)
        PROVE  UNCHANGED <<events, Board>>
    <3>1. UNCHANGED <<events, alerts>>
      BY <2>3, LookupResult DEF Receive, Observe, Fail, FailAfterCommit, Restart
    <3> QED BY <3>1 DEF Board, Active
  <2> QED BY <2>1, <2>2, <2>3 DEF Next
<1>4. [][ContractStep]_vars /\ Contract!Init => ImplementsContract
  BY PTL DEF ImplementsContract, ContractStep
<1> QED BY <1>1, <1>2, <1>3, <1>4, NextKeepsBoard, TypesHold, PTL DEF Spec
=============================================================================
