----------------------------- MODULE RiskPolicy -----------------------------
(***************************************************************************)
(* The risk thresholds of app/services/risk_policy_service.py: the tables  *)
(* risk_threshold_policies and risk_threshold_audits, and the sessions     *)
(* that read and update them.  Readers are predictions, telemetry and the  *)
(* startup block of app/main.py; admins are PUT /admin/risk-thresholds.    *)
(* No session locks a row, so any two may interleave between statements.   *)
(*                                                                         *)
(* A threshold is an integer from 0 to Scale standing for a float from 0   *)
(* to 1.  "stamp" stands for updated_at; a commit is one step, so stamps   *)
(* follow the order of the commits.                                        *)
(***************************************************************************)
EXTENDS Integers, FiniteSets, FiniteSetsExt, SequencesExt

CONSTANTS
    Admins,         \* sessions that may update the thresholds
    Readers,        \* sessions that only read them
    None,           \* no user, no row, no request
    Scale,          \* the threshold 1.0
    Default,        \* risk_threshold_{low,medium}_max_default
    Bootstrapped,   \* whether the startup block created the policy
    MaxUpdates      \* bound on the number of updates asked for

Clients == Admins \cup Readers

Thresholds == [low : 0..Scale, medium : 0..Scale]

\* Mutant: low_max <= medium_max is enough.
Valid_AllowsEqual(t) == t.low <= t.medium /\ t.medium <= Scale

Valid(t) == t.low < t.medium /\ t.medium <= Scale

ASSUME PolicyAssumption ==
    /\ Scale \in Nat
    /\ Default \in Thresholds
    /\ Default.low < Default.medium
    /\ Bootstrapped \in BOOLEAN
    /\ MaxUpdates \in Nat
    /\ Admins \cap Readers = {}
    /\ IsFiniteSet(Clients)
    /\ None \notin Clients

VARIABLES
    policies,   \* the active rows, in the order they were inserted
    audits,     \* the audit rows, in the order they were committed
    session,    \* what each request holds in memory
    updates     \* number of updates asked for so far

vars == <<policies, audits, session, updates>>

Idle == [step |-> "idle", row |-> 0, held |-> None, want |-> None]

Row(limits, by, stamp) == [limits |-> limits, by |-> by, stamp |-> stamp]

\* A stamp later than that of every row.
Now == 1 + Max({0} \cup {policies[i].stamp : i \in DOMAIN policies})

\* The row of ORDER BY updated_at DESC, first().
Newest == CHOOSE i \in DOMAIN policies :
             \A j \in DOMAIN policies : policies[j].stamp <= policies[i].stamp

Init ==
    /\ policies = IF Bootstrapped THEN <<Row(Default, None, 1)>> ELSE <<>>
    /\ audits = <<>>
    /\ session = [c \in Clients |-> Idle]
    /\ updates = 0

-----------------------------------------------------------------------------
(***************************************************************************)
(* The requests.                                                           *)
(***************************************************************************)
StartRead(c) ==
    /\ session[c].step = "idle"
    /\ session' = [session EXCEPT ![c].step = "query"]
    /\ UNCHANGED <<policies, audits, updates>>

\* The schema and validate_thresholds refuse a disordered request before the
\* database is touched.
StartUpdate(c) ==
    /\ session[c].step = "idle"
    /\ updates < MaxUpdates
    /\ updates' = updates + 1
    /\ \E t \in {u \in Thresholds : Valid(u)} :
          session' = [session EXCEPT ![c].step = "query", ![c].want = t]
    /\ UNCHANGED <<policies, audits>>

\* The request holds row i: a read is answered, an update goes on to commit.
Hold(c, i) ==
    session' = [session EXCEPT ![c] =
        IF @.want = None THEN Idle
        ELSE [@ EXCEPT !.step = "commit", !.row = i, !.held = policies[i]]]

\* Mutant: the policy is looked up among the rows nobody has updated yet.
Query_Untouched(c) ==
    /\ session[c].step = "query"
    /\ IF \E i \in DOMAIN policies : policies[i].by = None
       THEN Hold(c, Newest)
       ELSE session' = [session EXCEPT ![c].step = "insert"]
    /\ UNCHANGED <<policies, audits, updates>>

Query(c) ==
    /\ session[c].step = "query"
    /\ IF policies # <<>>
       THEN Hold(c, Newest)
       ELSE session' = [session EXCEPT ![c].step = "insert"]
    /\ UNCHANGED <<policies, audits, updates>>

\* No active row was seen: the defaults are inserted and committed, whatever
\* other sessions have committed in the meantime.
Insert(c) ==
    /\ session[c].step = "insert"
    /\ policies' = Append(policies, Row(Default, None, Now))
    /\ session' = [session EXCEPT ![c].step = "refresh", ![c].row = Len(policies')]
    /\ UNCHANGED <<audits, updates>>

Refresh(c) ==
    /\ session[c].step = "refresh"
    /\ Hold(c, session[c].row)
    /\ UNCHANGED <<policies, audits, updates>>

\* Mutant: the audit is built after the row's columns were assigned.
Audit_AfterAssignment(c) ==
    [row |-> session[c].row, previous |-> session[c].want,
     new |-> session[c].want, by |-> c]

\* Mutant: new_low_max is taken from the old row.
Audit_HeldLow(c) ==
    [row |-> session[c].row, previous |-> session[c].held.limits,
     new |-> [session[c].want EXCEPT !.low = session[c].held.limits.low], by |-> c]

Audit(c) ==
    [row |-> session[c].row, previous |-> session[c].held.limits,
     new |-> session[c].want, by |-> c]

\* What the UPDATE leaves of a column: SQLAlchemy only sends the columns whose
\* value differs from the one the session loaded.
Column(stored, held, new) == IF new = held THEN stored ELSE new

\* Mutant: assigning the columns is forgotten for the low limit.
Updated_MediumOnly(c) ==
    LET s == session[c] stored == policies[s.row]
    IN  Row([low    |-> stored.limits.low,
             medium |-> Column(stored.limits.medium, s.held.limits.medium, s.want.medium)],
            c, Now)

Updated(c) ==
    LET s == session[c] stored == policies[s.row]
    IN  IF s.held.limits = s.want /\ s.held.by = c THEN stored
        ELSE Row([low    |-> Column(stored.limits.low, s.held.limits.low, s.want.low),
                  medium |-> Column(stored.limits.medium, s.held.limits.medium, s.want.medium)],
                 Column(stored.by, s.held.by, c), Now)

\* One commit writes the audit row and the changed columns of the policy.
Commit(c) ==
    /\ session[c].step = "commit"
    /\ audits' = Append(audits, Audit(c))
    /\ policies' = [policies EXCEPT ![session[c].row] = Updated(c)]
    /\ session' = [session EXCEPT ![c] = Idle]
    /\ UNCHANGED updates

\* The connection or the replica is lost: the open transaction is rolled back.
Fail(c) ==
    /\ session[c].step # "idle"
    /\ session' = [session EXCEPT ![c] = Idle]
    /\ UNCHANGED <<policies, audits, updates>>

Next ==
    \/ \E c \in Readers : StartRead(c)
    \/ \E c \in Admins : StartUpdate(c) \/ Commit(c)
    \/ \E c \in Clients : Query(c) \/ Insert(c) \/ Refresh(c) \/ Fail(c)

Spec == Init /\ [][Next]_vars

-----------------------------------------------------------------------------
\* Sessions that all saw no policy all insert one, but no session does so once a
\* policy is there to be seen: the rows are at most as many as the sessions,
\* and one if the startup block created it.
RowsAreBounded ==
    Len(policies) + Cardinality({c \in Clients : session[c].step = "insert"})
       <= IF Bootstrapped THEN 1 ELSE Cardinality(Clients)

TypeOK ==
    /\ policies \in Seq([limits : Thresholds, by : Admins \cup {None}, stamp : Nat])
    /\ audits \in Seq([row : Nat, previous : Thresholds, new : Thresholds, by : Admins])
    /\ updates \in 0..MaxUpdates
    /\ RowsAreBounded
    /\ \A c \in Clients :
          /\ session[c].step \in {"idle", "query", "insert", "refresh", "commit"}
          /\ session[c].row \in 0..Len(policies)
          /\ session[c].want \in Thresholds \cup {None}
          /\ session[c].step = "commit" => session[c].row # 0 /\ session[c].want # None

\* All the updates so far were made by the same admin.
OneAuthor == \A i, j \in DOMAIN audits : audits[i].by = audits[j].by

\* "assert original["low_max"] < original["medium_max"]" (test_admin_thresholds):
\* every row is ordered, whoever updates it.
OrderedThresholds ==
    \A i \in DOMAIN policies :
       /\ policies[i].limits.low < policies[i].limits.medium
       /\ policies[i].limits.medium <= Scale

\* As long as one admin makes the updates the thresholds always leave room for
\* a medium risk, although the UPDATE is sent column by column and others may
\* hold old copies of the row.
OneAuthorKeepsOrder == OneAuthor => OrderedThresholds

AuditsOf(i) == {j \in DOMAIN audits : audits[j].row = i}

\* What the audit trail says of the limits of row i before its j-th audit.
Recorded(i, j) ==
    LET earlier == {k \in AuditsOf(i) : k < j}
    IN  IF earlier = {} THEN Default ELSE audits[Max(earlier)].new

\* "Threshold changes are ... fully audited" (docs/17): with one author the
\* audit rows of a policy form a chain that starts at the defaults, and the
\* policy says what the last of them says.
AuditTrailIsComplete ==
    OneAuthor =>
       /\ \A j \in DOMAIN audits : audits[j].previous = Recorded(audits[j].row, j)
       /\ \A i \in DOMAIN policies : policies[i].limits = Recorded(i, Len(audits) + 1)

\* The thresholds that predictions use are those of the update that was
\* committed last, while one admin updates the only policy there is.
LastUpdateIsInForce ==
    (OneAuthor /\ Len(policies) = 1 /\ audits # <<>>) =>
       policies[Newest].limits = audits[Len(audits)].new

\* The history is append-only and a limit only moves in the transaction that
\* writes its audit row.
NoChangeWithoutAudit ==
    [][/\ IsPrefix(audits, audits')
       /\ \A i \in DOMAIN policies :
             policies'[i].limits # policies[i].limits =>
                /\ Len(audits') = Len(audits) + 1
                /\ Last(audits').row = i
                /\ policies'[i].limits.low \in {policies[i].limits.low, Last(audits').new.low}
                /\ policies'[i].limits.medium
                      \in {policies[i].limits.medium, Last(audits').new.medium}]_vars
=============================================================================
