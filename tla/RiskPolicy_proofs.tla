------------------------- MODULE RiskPolicy_proofs -------------------------
(***************************************************************************)
(* Theorems about RiskPolicy, for any finite set of sessions, any scale    *)
(* and any number of updates.                                              *)
(***************************************************************************)
EXTENDS RiskPolicy, FiniteSetTheorems, SequenceTheorems, TLAPS

PolicyRow == [limits : Thresholds, by : Admins \cup {None}, stamp : Nat]

AuditRow == [row : Nat, previous : Thresholds, new : Thresholds, by : Admins]

Steps == {"idle", "query", "insert", "refresh", "commit"}

Session ==
    [step : Steps, row : Nat, held : PolicyRow \cup {None}, want : Thresholds \cup {None}]

-----------------------------------------------------------------------------
\* A set of naturals that has a bound has a greatest element: otherwise the
\* distances to the bound have no least element.
LEMMA HasMaximum ==
    ASSUME NEW n \in Nat, NEW S, S \subseteq 0..n, S # {}
    PROVE  \E x \in S : \A y \in S : x >= y
<1> DEFINE R == {ss \in Nat \X Nat : ss[1] < ss[2]}
           T == {n - x : x \in S}
<1>1. IsWellFoundedOn(R, Nat)
  BY NatLessThanWellFounded DEF OpToRel
<1>2. T \subseteq Nat /\ T # {}
  <2>1. \A x \in S : x \in 0..n /\ n - x \in Nat
    OBVIOUS
  <2> QED BY <2>1
<1>3. PICK t \in T : \A u \in T : ~(<<u, t>> \in R)
  BY <1>1, <1>2, WFMin
<1>4. PICK x \in S : t = n - x
  OBVIOUS
<1>5. ASSUME NEW y \in S PROVE x >= y
  <2>1. n - y \in T /\ n - y \in Nat /\ t \in Nat
    BY <1>2
  <2>2. ~(n - y < t)
    BY <1>3, <2>1
  <2> QED BY <2>2, <1>4
<1> QED BY <1>5

-----------------------------------------------------------------------------
(***************************************************************************)
(* The inductive invariant.                                                *)
(***************************************************************************)

\* What a session holds fits the statement it executes next: a row it came
\* from, a copy of it and an ordered request by the time it commits.
SessionFits(c) ==
    /\ session[c].row \in 0..Len(policies)
    /\ session[c].step = "idle" => session[c] = Idle
    /\ session[c].step \in {"refresh", "commit"} => session[c].row # 0
    /\ session[c].step = "commit" => session[c].held \in PolicyRow /\ session[c].want # None
    /\ session[c].want # None => c \in Admins /\ Valid(session[c].want)

\* ORDER BY updated_at DESC has a first row as soon as there is a row.
NewestExists ==
    policies # <<>> =>
       \E i \in DOMAIN policies : \A j \in DOMAIN policies : policies[j].stamp <= policies[i].stamp

TypeInv ==
    /\ policies \in Seq(PolicyRow)
    /\ audits \in Seq(AuditRow)
    /\ session \in [Clients -> Session]
    /\ updates \in 0..MaxUpdates
    /\ NewestExists
    /\ \A j \in DOMAIN audits : audits[j].row \in DOMAIN policies
    /\ \A c \in Clients : SessionFits(c)

\* The rows of the two tables are rows.
LEMMA RowsAreRows ==
    ASSUME TypeInv
    PROVE  /\ Len(policies) \in Nat /\ DOMAIN policies = 1..Len(policies)
           /\ \A i \in DOMAIN policies : policies[i] \in PolicyRow
           /\ Len(audits) \in Nat /\ DOMAIN audits = 1..Len(audits)
           /\ \A j \in DOMAIN audits : audits[j] \in AuditRow
<1>1. policies \in Seq(PolicyRow) /\ audits \in Seq(AuditRow)
  BY DEF TypeInv
<1> QED BY <1>1, LenProperties, ElementOfSeq

\* The stamp of a commit is a later time than that of every row.
LEMMA NowIsLatest ==
    ASSUME TypeInv
    PROVE  Now \in Nat /\ \A i \in DOMAIN policies : policies[i].stamp < Now
<1> DEFINE S == {0} \cup {policies[i].stamp : i \in DOMAIN policies}
<1>1. \A i \in DOMAIN policies : policies[i].stamp \in Nat
  BY RowsAreRows DEF PolicyRow
<1>2. \E x \in S : \A y \in S : x >= y
  <2>1. CASE policies = <<>>
    BY <2>1
  <2>2. CASE policies # <<>>
    <3>1. PICK i \in DOMAIN policies : \A j \in DOMAIN policies : policies[j].stamp <= policies[i].stamp
      BY <2>2 DEF TypeInv, NewestExists
    <3> WITNESS policies[i].stamp \in S
    <3> QED BY <1>1, <3>1
  <2> QED BY <2>1, <2>2
<1>3. Max(S) \in S /\ \A y \in S : Max(S) >= y
  BY <1>2 DEF Max
<1>4. Now = 1 + Max(S)
  BY DEF Now
<1>5. \A x \in S : x \in Nat
  BY <1>1
<1>6. \A i \in DOMAIN policies : policies[i].stamp \in S
  OBVIOUS
<1> HIDE DEF S
<1> QED BY <1>3, <1>4, <1>5, <1>6

\* The query of an active policy returns a row.
LEMMA NewestIsRow ==
    ASSUME TypeInv, policies # <<>>
    PROVE  Newest \in DOMAIN policies
BY DEF TypeInv, NewestExists, Newest

-----------------------------------------------------------------------------
(***************************************************************************)
(* The steps keep the types.                                               *)
(***************************************************************************)

\* A step that only changes what one session holds.
LEMMA SessionStep ==
    ASSUME TypeInv, NEW c \in Clients, NEW s \in Session,
           session' = [session EXCEPT ![c] = s], UNCHANGED <<policies, audits>>,
           updates' \in 0..MaxUpdates, SessionFits(c)'
    PROVE  TypeInv'
<1>1. session' \in [Clients -> Session]
  BY DEF TypeInv
<1>2. ASSUME NEW d \in Clients PROVE SessionFits(d)'
  <2>1. CASE d = c
    BY <2>1
  <2>2. CASE d # c
    <3>1. session'[d] = session[d]
      BY <2>2 DEF TypeInv
    <3> QED BY <3>1 DEF TypeInv, SessionFits
  <2> QED BY <2>1, <2>2
<1> QED BY <1>1, <1>2 DEF TypeInv, NewestExists

LEMMA StartReadKeepsTypes ==
    ASSUME TypeInv, NEW c \in Clients, StartRead(c)
    PROVE  TypeInv'
<1> DEFINE s == [session[c] EXCEPT !.step = "query"]
<1>1. session[c] = Idle /\ session[c] \in Session
  BY DEF TypeInv, SessionFits, StartRead
<1>2. s \in Session
  BY <1>1 DEF Session, Steps
<1>3. session' = [session EXCEPT ![c] = s]
  BY DEF StartRead
<1>4. SessionFits(c)'
  BY <1>1, <1>3, RowsAreRows DEF TypeInv, SessionFits, Idle, StartRead
<1>5. updates' \in 0..MaxUpdates /\ UNCHANGED <<policies, audits>>
  BY DEF TypeInv, StartRead
<1> HIDE DEF s
<1> QED BY <1>2, <1>3, <1>4, <1>5, SessionStep

LEMMA StartUpdateKeepsTypes ==
    ASSUME TypeInv, NEW c \in Admins, StartUpdate(c)
    PROVE  TypeInv'
<1>1. c \in Clients /\ session[c] = Idle /\ session[c] \in Session
  BY DEF Clients, TypeInv, SessionFits, StartUpdate
<1>2. PICK t \in Thresholds : Valid(t)
          /\ session' = [session EXCEPT ![c].step = "query", ![c].want = t]
  BY DEF StartUpdate
<1> DEFINE s == [session[c] EXCEPT !.step = "query", !.want = t]
<1>3. s \in Session
  BY <1>1 DEF Session, Steps
<1>4. session' = [session EXCEPT ![c] = s]
  BY <1>2
<1>5. SessionFits(c)'
  BY <1>1, <1>2, <1>4, RowsAreRows DEF TypeInv, SessionFits, Idle, StartUpdate
<1>6. updates' \in 0..MaxUpdates /\ UNCHANGED <<policies, audits>>
  BY PolicyAssumption DEF TypeInv, StartUpdate
<1> HIDE DEF s
<1> QED BY <1>1, <1>3, <1>4, <1>5, <1>6, SessionStep

\* A session that gets hold of a row is done or goes on to commit.
LEMMA HoldKeepsTypes ==
    ASSUME TypeInv, NEW c \in Clients, NEW i \in DOMAIN policies, Hold(c, i),
           UNCHANGED <<policies, audits, updates>>
    PROVE  TypeInv'
<1>1. session[c] \in Session /\ SessionFits(c)
  BY DEF TypeInv
<1>2. policies[i] \in PolicyRow /\ i \in 1..Len(policies) /\ Len(policies) \in Nat
  BY RowsAreRows
<1> DEFINE s == IF session[c].want = None THEN Idle
                ELSE [session[c] EXCEPT !.step = "commit", !.row = i, !.held = policies[i]]
<1>3. session' = [session EXCEPT ![c] = s]
  BY DEF Hold
<1>4. s \in Session
  <2>1. Idle \in Session
    BY DEF Idle, Session, Steps
  <2>2. [session[c] EXCEPT !.step = "commit", !.row = i, !.held = policies[i]] \in Session
    <3>1. i \in Nat /\ policies[i] \in PolicyRow \cup {None} /\ session[c] \in Session
      BY <1>1, <1>2
    <3> QED BY ONLY <3>1 DEF Session, Steps
  <2> QED BY <2>1, <2>2
<1>5. SessionFits(c)'
  <2>1. session'[c] = s
    BY <1>3 DEF TypeInv
  <2>2. CASE session[c].want = None
    BY <2>1, <2>2, <1>2 DEF SessionFits, Idle
  <2>3. CASE session[c].want # None
    <3>1. session'[c].step = "commit" /\ session'[c].row = i
          /\ session'[c].held = policies[i] /\ session'[c].want = session[c].want
      BY <2>1, <2>3, <1>1 DEF Session
    <3> QED BY <3>1, <2>3, <1>1, <1>2 DEF SessionFits
  <2> QED BY <2>2, <2>3
<1>6. updates' \in 0..MaxUpdates
  BY DEF TypeInv
<1> HIDE DEF s
<1> QED BY <1>3, <1>4, <1>5, <1>6, SessionStep

LEMMA QueryKeepsTypes ==
    ASSUME TypeInv, NEW c \in Clients, Query(c)
    PROVE  TypeInv'
<1>1. CASE policies # <<>>
  BY <1>1, NewestIsRow, HoldKeepsTypes DEF Query
<1>2. CASE policies = <<>>
  <2> DEFINE s == [session[c] EXCEPT !.step = "insert"]
  <2>1. s \in Session
    BY DEF TypeInv, Session, Steps
  <2>2. session' = [session EXCEPT ![c] = s]
    BY <1>2 DEF Query
  <2>3. SessionFits(c)'
    BY <2>1, <2>2 DEF Query, TypeInv, SessionFits, Session, Valid
  <2>4. updates' \in 0..MaxUpdates /\ UNCHANGED <<policies, audits>>
    BY DEF TypeInv, Query
  <2> HIDE DEF s
  <2> QED BY <2>1, <2>2, <2>3, <2>4, SessionStep
<1> QED BY <1>1, <1>2

LEMMA RefreshKeepsTypes ==
    ASSUME TypeInv, NEW c \in Clients, Refresh(c)
    PROVE  TypeInv'
<1>1. session[c].row \in DOMAIN policies
  BY RowsAreRows DEF TypeInv, SessionFits, Refresh
<1> QED BY <1>1, HoldKeepsTypes DEF Refresh

LEMMA FailKeepsTypes ==
    ASSUME TypeInv, NEW c \in Clients, Fail(c)
    PROVE  TypeInv'
<1>1. Idle \in Session
  BY DEF Idle, Session, Steps
<1>2. session' = [session EXCEPT ![c] = Idle] /\ UNCHANGED <<policies, audits>>
  BY DEF Fail
<1>3. SessionFits(c)'
  BY <1>2, RowsAreRows DEF TypeInv, SessionFits, Idle
<1>4. updates' \in 0..MaxUpdates
  BY DEF Fail, TypeInv
<1> QED BY <1>1, <1>2, <1>3, <1>4, SessionStep

\* The row that Insert commits: the defaults, with the latest stamp.
LEMMA InsertedRow ==
    ASSUME TypeInv, NEW c \in Clients, Insert(c)
    PROVE  /\ policies' \in Seq(PolicyRow)
           /\ Len(policies') = Len(policies) + 1
           /\ DOMAIN policies' = 1..Len(policies')
           /\ \A i \in DOMAIN policies : policies'[i] = policies[i]
           /\ policies'[Len(policies')] = Row(Default, None, Now)
<1>1. Row(Default, None, Now) \in PolicyRow
  BY NowIsLatest, PolicyAssumption DEF Row, PolicyRow
<1>2. policies \in Seq(PolicyRow) /\ policies' = Append(policies, Row(Default, None, Now))
  BY DEF TypeInv, Insert
<1>3. policies' \in Seq(PolicyRow)
  BY <1>1, <1>2, AppendProperties
<1> QED BY <1>1, <1>2, <1>3, AppendProperties, LenProperties, RowsAreRows

LEMMA InsertKeepsTypes ==
    ASSUME TypeInv, NEW c \in Clients, Insert(c)
    PROVE  TypeInv'
<1>1. Len(policies) \in Nat /\ Len(policies') \in Nat /\ DOMAIN policies \subseteq DOMAIN policies'
  BY InsertedRow, RowsAreRows
<1>2. session' \in [Clients -> Session]
  <2> PICK s : s = [session[c] EXCEPT !.step = "refresh", !.row = Len(policies')]
    OBVIOUS
  <2>1. session[c] \in Session
    BY DEF TypeInv
  <2>2. s \in Session
    BY ONLY <1>1, <2>1, s = [session[c] EXCEPT !.step = "refresh", !.row = Len(policies')] DEF Session, Steps
  <2>3. session' = [session EXCEPT ![c] = s]
    BY DEF Insert
  <2> QED BY <2>2, <2>3 DEF TypeInv
<1>3. ASSUME NEW d \in Clients PROVE SessionFits(d)'
  <2>1. SessionFits(d)
    BY DEF TypeInv
  <2>2. CASE d = c
    <3>1. session'[c] = [session[c] EXCEPT !.step = "refresh", !.row = Len(policies')]
      BY DEF Insert, TypeInv
    <3>2. session'[c].step = "refresh" /\ session'[c].row = Len(policies')
          /\ session'[c].want = session[c].want
      BY <3>1 DEF TypeInv, Session
    <3> QED BY <2>1, <2>2, <3>2, <1>1, InsertedRow DEF SessionFits, Valid
  <2>3. CASE d # c
    <3>1. session'[d] = session[d]
      BY <2>3 DEF Insert, TypeInv
    <3> QED BY <2>1, <3>1, <1>1, InsertedRow DEF SessionFits
  <2> QED BY <2>2, <2>3
<1>4. NewestExists'
  <2>1. \A j \in DOMAIN policies' : policies'[j].stamp <= policies'[Len(policies')].stamp
    <3>1. policies'[Len(policies')].stamp = Now
      BY InsertedRow DEF Row
    <3>2. \A j \in DOMAIN policies : policies'[j].stamp < Now
      BY InsertedRow, NowIsLatest
    <3>3. \A j \in DOMAIN policies' : j \in DOMAIN policies \/ j = Len(policies')
      BY InsertedRow, RowsAreRows
    <3>4. \A j \in DOMAIN policies : policies'[j].stamp \in Nat
      BY InsertedRow, RowsAreRows DEF PolicyRow
    <3> QED BY <3>1, <3>2, <3>3, <3>4, NowIsLatest
  <2>2. Len(policies') \in DOMAIN policies'
    BY <1>1, InsertedRow
  <2> QED BY <2>1, <2>2 DEF NewestExists
<1>5. policies' \in Seq(PolicyRow) /\ audits' = audits /\ updates' = updates
  BY InsertedRow DEF Insert
<1> QED BY <1>1, <1>2, <1>3, <1>4, <1>5 DEF TypeInv

\* What Commit does to the tables: one audit row, and the row it is about
\* becomes what the UPDATE leaves of it.
LEMMA CommittedRows ==
    ASSUME TypeInv, NEW c \in Admins, Commit(c)
    PROVE  /\ session[c].row \in DOMAIN policies /\ session[c].held \in PolicyRow
           /\ session[c].want \in Thresholds /\ Valid(session[c].want)
           /\ policies' \in Seq(PolicyRow) /\ Len(policies') = Len(policies)
           /\ DOMAIN policies' = DOMAIN policies
           /\ policies'[session[c].row] = Updated(c)
           /\ \A i \in DOMAIN policies : i # session[c].row => policies'[i] = policies[i]
           /\ Updated(c) = policies[session[c].row] \/ Updated(c).stamp = Now
           /\ audits' \in Seq(AuditRow) /\ Len(audits') = Len(audits) + 1
           /\ \A j \in DOMAIN audits : audits'[j] = audits[j]
           /\ audits'[Len(audits')] = Audit(c)
<1> DEFINE r == session[c].row
<1>1. SessionFits(c) /\ session[c] \in Session /\ session[c].step = "commit"
  BY DEF Commit, TypeInv, Clients
<1>2. r \in DOMAIN policies /\ r \in Nat /\ policies[r] \in PolicyRow /\ session[c].held \in PolicyRow
  BY <1>1, RowsAreRows DEF SessionFits
<1>3. session[c].want \in Thresholds /\ Valid(session[c].want)
  BY <1>1 DEF SessionFits, Session
<1>4. Audit(c) \in AuditRow
  BY <1>2, <1>3 DEF Audit, AuditRow, PolicyRow
<1>5. Updated(c) \in PolicyRow /\ (Updated(c) = policies[r] \/ Updated(c).stamp = Now)
  <2>1. CASE session[c].held.limits = session[c].want /\ session[c].held.by = c
    BY <1>2, <2>1 DEF Updated
  <2>2. CASE ~(session[c].held.limits = session[c].want /\ session[c].held.by = c)
    <3> DEFINE low == Column(policies[r].limits.low, session[c].held.limits.low, session[c].want.low)
               medium == Column(policies[r].limits.medium, session[c].held.limits.medium,
                                session[c].want.medium)
               by == Column(policies[r].by, session[c].held.by, c)
    <3>1. Updated(c) = [limits |-> [low |-> low, medium |-> medium], by |-> by, stamp |-> Now]
      BY <2>2 DEF Updated, Row
    <3>2. low \in 0..Scale /\ medium \in 0..Scale /\ by \in Admins \cup {None}
      BY <1>2, <1>3 DEF Column, PolicyRow, Thresholds
    <3> HIDE DEF low, medium, by
    <3> QED BY <3>1, <3>2, NowIsLatest DEF PolicyRow, Thresholds
  <2> QED BY <2>1, <2>2
<1>6. policies' \in Seq(PolicyRow) /\ Len(policies') = Len(policies)
      /\ \A j \in 1..Len(policies) : policies'[j] = IF j = r THEN Updated(c) ELSE policies[j]
  <2>1. policies' = [policies EXCEPT ![r] = Updated(c)] /\ policies \in Seq(PolicyRow)
    BY DEF Commit, TypeInv
  <2>2. r \in 1..Len(policies)
    BY <1>2, RowsAreRows
  <2> HIDE DEF r
  <2> QED BY <2>1, <2>2, <1>5, ExceptSeq
<1>7. audits' \in Seq(AuditRow) /\ Len(audits') = Len(audits) + 1
      /\ (\A j \in 1..Len(audits) : audits'[j] = audits[j]) /\ audits'[Len(audits) + 1] = Audit(c)
  <2>1. audits' = Append(audits, Audit(c)) /\ audits \in Seq(AuditRow)
    BY DEF Commit, TypeInv
  <2> QED BY <2>1, <1>4, AppendProperties
<1>8. DOMAIN policies' = DOMAIN policies
  BY <1>6, LenProperties, RowsAreRows
<1> HIDE DEF r
<1> QED BY <1>2, <1>3, <1>5, <1>6, <1>7, <1>8, RowsAreRows DEF r

LEMMA CommitKeepsTypes ==
    ASSUME TypeInv, NEW c \in Admins, Commit(c)
    PROVE  TypeInv'
<1>1. session' = [session EXCEPT ![c] = Idle] /\ updates' = updates
  BY DEF Commit
<1>2. session' \in [Clients -> Session]
  BY <1>1 DEF TypeInv, Idle, Session, Steps
<1>3. ASSUME NEW d \in Clients PROVE SessionFits(d)'
  <2>1. CASE d = c
    BY <2>1, <1>1, CommittedRows, RowsAreRows DEF TypeInv, SessionFits, Idle
  <2>2. CASE d # c
    <3>1. session'[d] = session[d]
      BY <2>2, <1>1 DEF TypeInv
    <3> QED BY <3>1, CommittedRows DEF TypeInv, SessionFits
  <2> QED BY <2>1, <2>2
<1>4. NewestExists'
  <2>1. PICK i \in DOMAIN policies : \A j \in DOMAIN policies : policies[j].stamp <= policies[i].stamp
    BY CommittedRows DEF TypeInv, NewestExists
  <2>2. CASE Updated(c) = policies[session[c].row]
    <3>1. DOMAIN policies' = DOMAIN policies /\ \A j \in DOMAIN policies : policies'[j] = policies[j]
      BY <2>2, CommittedRows
    <3> QED BY ONLY <2>1, <3>1 DEF NewestExists
  <2>3. CASE Updated(c).stamp = Now
    <3>1. \A j \in DOMAIN policies : j # session[c].row => policies'[j].stamp < Now
      BY CommittedRows, NowIsLatest
    <3>2. \A j \in DOMAIN policies : policies[j].stamp \in Nat
      BY RowsAreRows DEF PolicyRow
    <3>3. \A j \in DOMAIN policies' : policies'[j].stamp <= policies'[session[c].row].stamp
      BY <2>3, <3>1, <3>2, CommittedRows, NowIsLatest
    <3> QED BY <3>3, CommittedRows DEF NewestExists
  <2> QED BY <2>2, <2>3, CommittedRows
<1>5. \A j \in DOMAIN audits' : audits'[j].row \in DOMAIN policies'
  <2>1. DOMAIN audits' = 1..(Len(audits) + 1)
    BY CommittedRows, LenProperties
  <2>2. \A j \in DOMAIN audits' : j \in DOMAIN audits \/ j = Len(audits')
    BY <2>1, CommittedRows, RowsAreRows
  <2>3. audits'[Len(audits')].row = session[c].row
    <3>1. Audit(c).row = session[c].row
      BY DEF Audit
    <3> QED BY <3>1, CommittedRows
  <2> QED BY <2>2, <2>3, CommittedRows DEF TypeInv
<1> QED BY <1>1, <1>2, <1>3, <1>4, <1>5, CommittedRows DEF TypeInv

LEMMA InitTypes == Init => TypeInv
<1> SUFFICES ASSUME Init PROVE TypeInv
  OBVIOUS
<1>1. policies \in Seq(PolicyRow) /\ NewestExists
  <2>1. CASE Bootstrapped
    <3>1. Row(Default, None, 1) \in PolicyRow
      BY PolicyAssumption DEF Row, PolicyRow
    <3>2. policies = <<Row(Default, None, 1)>>
      BY <2>1 DEF Init
    <3>3. DOMAIN policies = {1} /\ policies[1].stamp = 1
      BY <3>2 DEF Row
    <3> QED BY <3>1, <3>2, <3>3 DEF NewestExists
  <2>2. CASE ~Bootstrapped
    BY <2>2 DEF Init, NewestExists
  <2> QED BY <2>1, <2>2
<1>2. audits \in Seq(AuditRow) /\ DOMAIN audits = {} /\ updates \in 0..MaxUpdates
  BY PolicyAssumption DEF Init
<1>3. session \in [Clients -> Session] /\ \A c \in Clients : session[c] = Idle
  BY DEF Init, Idle, Session, Steps
<1>4. Len(policies) \in Nat
  BY <1>1, LenProperties
<1> QED BY <1>1, <1>2, <1>3, <1>4 DEF TypeInv, SessionFits, Idle

LEMMA NextKeepsTypes == TypeInv /\ [Next]_vars => TypeInv'
<1> SUFFICES ASSUME TypeInv, [Next]_vars PROVE TypeInv'
  OBVIOUS
<1>1. ASSUME NEW c \in Readers, StartRead(c) PROVE TypeInv'
  <2>1. c \in Clients
    BY DEF Clients
  <2> QED BY <1>1, <2>1, StartReadKeepsTypes
<1>2. ASSUME NEW c \in Admins, StartUpdate(c) PROVE TypeInv'
  BY <1>2, StartUpdateKeepsTypes
<1>3. ASSUME NEW c \in Admins, Commit(c) PROVE TypeInv'
  BY <1>3, CommitKeepsTypes
<1>4. ASSUME NEW c \in Clients, Query(c) PROVE TypeInv'
  BY <1>4, QueryKeepsTypes
<1>5. ASSUME NEW c \in Clients, Insert(c) PROVE TypeInv'
  BY <1>5, InsertKeepsTypes
<1>6. ASSUME NEW c \in Clients, Refresh(c) PROVE TypeInv'
  BY <1>6, RefreshKeepsTypes
<1>7. ASSUME NEW c \in Clients, Fail(c) PROVE TypeInv'
  BY <1>7, FailKeepsTypes
<1>8. CASE UNCHANGED vars
  BY <1>8 DEF vars, TypeInv, NewestExists, SessionFits, Valid
<1> QED BY <1>1, <1>2, <1>3, <1>4, <1>5, <1>6, <1>7, <1>8 DEF Next

LEMMA TypesHold == Spec => []TypeInv
BY InitTypes, NextKeepsTypes, PTL DEF Spec

-----------------------------------------------------------------------------
(***************************************************************************)
(* The number of rows.                                                     *)
(***************************************************************************)

Inserting == {c \in Clients : session[c].step = "insert"}

\* RowsAreBounded is inductive with the fact that the policy of the startup
\* block stays.
RowInv ==
    /\ Bootstrapped => policies # <<>>
    /\ Len(policies) + Cardinality(Inserting) <= IF Bootstrapped THEN 1 ELSE Cardinality(Clients)

LEMMA InsertingIsFinite ==
    IsFiniteSet(Inserting) /\ Cardinality(Inserting) \in Nat /\ Cardinality(Inserting) <= Cardinality(Clients)
<1>1. Inserting \subseteq Clients
  BY DEF Inserting
<1> QED BY <1>1, PolicyAssumption, FS_Subset, FS_CardinalityType

\* A step that keeps the number of rows, and makes no session insert, keeps
\* the bound.
LEMMA FewerInserting ==
    ASSUME TypeInv, RowInv, Len(policies') = Len(policies), policies # <<>> => policies' # <<>>,
           Inserting' \subseteq Inserting
    PROVE  RowInv'
<1>1. Cardinality(Inserting') <= Cardinality(Inserting) /\ Cardinality(Inserting') \in Nat
  BY InsertingIsFinite, FS_Subset, FS_CardinalityType
<1> QED BY <1>1, InsertingIsFinite, RowsAreRows, PolicyAssumption, FS_CardinalityType DEF RowInv

\* A session that gets hold of a row is not going to insert one.
LEMMA HoldInsertsNothing ==
    ASSUME TypeInv, NEW c \in Clients, NEW i, Hold(c, i)
    PROVE  Inserting' \subseteq Inserting
<1>1. session'[c] = IF session[c].want = None THEN Idle
                    ELSE [session[c] EXCEPT !.step = "commit", !.row = i, !.held = policies[i]]
  BY DEF Hold, TypeInv
<1>2. session[c] \in Session
  BY DEF TypeInv
<1>3. session'[c].step \in {"idle", "commit"}
  BY <1>1, <1>2 DEF Session, Idle
<1>4. \A d \in Clients : d # c => session'[d] = session[d]
  BY DEF Hold, TypeInv
<1> QED BY <1>3, <1>4 DEF Inserting

LEMMA InitRows == Init => RowInv
<1> SUFFICES ASSUME Init PROVE RowInv
  OBVIOUS
<1>1. Inserting = {}
  BY DEF Init, Inserting, Idle
<1>2. Len(policies) = IF Bootstrapped THEN 1 ELSE 0
  BY PolicyAssumption DEF Init
<1>3. Bootstrapped => policies # <<>>
  BY DEF Init
<1> QED BY <1>1, <1>2, <1>3, FS_EmptySet, FS_CardinalityType, PolicyAssumption DEF RowInv

LEMMA NextKeepsRows == TypeInv /\ RowInv /\ [Next]_vars => RowInv'
<1> SUFFICES ASSUME TypeInv, RowInv, [Next]_vars PROVE RowInv'
  OBVIOUS
<1>1. ASSUME NEW c \in Clients, StartRead(c) \/ StartUpdate(c) \/ Fail(c)
      PROVE  RowInv'
  <2>1. policies' = policies
    BY <1>1 DEF StartRead, StartUpdate, Fail
  <2>2. session'[c].step # "insert" /\ \A d \in Clients : d # c => session'[d] = session[d]
    BY <1>1 DEF TypeInv, Session, Idle, StartRead, StartUpdate, Fail
  <2> QED BY <2>1, <2>2, FewerInserting DEF Inserting
<1>2. ASSUME NEW c \in Clients, Refresh(c) PROVE RowInv'
  <2>1. policies' = policies /\ Hold(c, session[c].row)
    BY <1>2 DEF Refresh
  <2> QED BY <2>1, HoldInsertsNothing, FewerInserting
<1>3. ASSUME NEW c \in Clients, Query(c) PROVE RowInv'
  <2>1. policies' = policies
    BY <1>3 DEF Query
  <2>2. CASE policies # <<>>
    BY <1>3, <2>1, <2>2, HoldInsertsNothing, FewerInserting DEF Query
  <2>3. CASE policies = <<>>
    <3>1. Len(policies') = 0 /\ ~Bootstrapped
      BY <2>1, <2>3 DEF RowInv
    <3>2. Cardinality(Inserting') \in Nat /\ Cardinality(Inserting') <= Cardinality(Clients)
      <4>1. Inserting' \subseteq Clients
        BY DEF Inserting
      <4> QED BY <4>1, PolicyAssumption, FS_Subset, FS_CardinalityType
    <3> QED BY <3>1, <3>2 DEF RowInv
  <2> QED BY <2>2, <2>3
<1>4. ASSUME NEW c \in Clients, Insert(c) PROVE RowInv'
  <2>1. c \in Inserting
    BY <1>4 DEF Insert, Inserting
  <2>2. Inserting' = Inserting \ {c}
    BY <1>4 DEF Insert, Inserting, TypeInv, Session
  <2>3. Cardinality(Inserting') = Cardinality(Inserting) - 1
    BY <2>1, <2>2, InsertingIsFinite, FS_RemoveElement
  <2>4. Len(policies') = Len(policies) + 1 /\ policies' # <<>>
    BY <1>4, InsertedRow, RowsAreRows
  <2> QED BY <2>3, <2>4, InsertingIsFinite, RowsAreRows, PolicyAssumption, FS_CardinalityType DEF RowInv
<1>5. ASSUME NEW c \in Admins, Commit(c) PROVE RowInv'
  <2>1. Len(policies') = Len(policies) /\ (policies # <<>> => policies' # <<>>)
    BY <1>5, CommittedRows, RowsAreRows, LenProperties, EmptySeq
  <2>2. Inserting' \subseteq Inserting
    BY <1>5 DEF Inserting, Commit, TypeInv, Idle, Clients
  <2> QED BY <2>1, <2>2, FewerInserting
<1>6. CASE UNCHANGED vars
  BY <1>6, FewerInserting DEF vars, Inserting
<1> QED BY <1>1, <1>3, <1>4, <1>5, <1>6, <1>2 DEF Next, Clients

LEMMA RowsHold == Spec => []RowInv
BY InitRows, NextKeepsRows, TypesHold, PTL DEF Spec

\* TypeOK: the tables and the sessions keep their types, no update is committed
\* without a row and a request, and sessions that find no policy together
\* insert at most one row each, none if the startup block already did.
THEOREM TypeCorrect == Spec => []TypeOK
<1>1. TypeInv /\ RowInv => TypeOK
  <2> SUFFICES ASSUME TypeInv, RowInv PROVE TypeOK
    OBVIOUS
  <2>1. RowsAreBounded
    BY DEF RowInv, RowsAreBounded, Inserting
  <2>2. ASSUME NEW c \in Clients
        PROVE  /\ session[c].step \in Steps /\ session[c].row \in 0..Len(policies)
               /\ session[c].want \in Thresholds \cup {None}
               /\ session[c].step = "commit" => session[c].row # 0 /\ session[c].want # None
    BY DEF TypeInv, SessionFits, Session
  <2> QED BY <2>1, <2>2 DEF TypeOK, TypeInv, PolicyRow, AuditRow, Steps
<1> QED BY <1>1, TypesHold, RowsHold, PTL

-----------------------------------------------------------------------------
(***************************************************************************)
(* The audit trail.  What one author commits depends on the copy of the    *)
(* row that the session holds, so the invariant also says that this copy   *)
(* is up to date: nobody but the author has committed since it was loaded. *)
(***************************************************************************)

OnlyAuthor(c) == \A j \in DOMAIN audits : audits[j].by = c

CopyIsFresh(c) ==
    session[c].step = "commit" /\ OnlyAuthor(c) => session[c].held = policies[session[c].row]

TrailInv ==
    /\ OneAuthorKeepsOrder
    /\ AuditTrailIsComplete
    /\ \A c \in Clients : CopyIsFresh(c)

\* The last audit row of a policy is what the trail says of it.
LEMMA LastAudit ==
    TypeInv /\ audits # <<>> =>
       Recorded(audits[Len(audits)].row, Len(audits) + 1) = audits[Len(audits)].new
<1> SUFFICES ASSUME TypeInv, audits # <<>>
             PROVE  Recorded(audits[Len(audits)].row, Len(audits) + 1) = audits[Len(audits)].new
  OBVIOUS
<1> DEFINE n == Len(audits)
           earlier == {k \in AuditsOf(audits[n].row) : k < n + 1}
<1>1. n \in DOMAIN audits /\ DOMAIN audits = 1..n /\ n \in Nat
  BY RowsAreRows, EmptySeq DEF TypeInv
<1>2. n \in earlier /\ \A k \in earlier : k \in Nat /\ k <= n
  BY <1>1 DEF AuditsOf
<1>3. Max(earlier) = n
  BY <1>1, <1>2 DEF Max
<1>4. Recorded(audits[n].row, n + 1) = audits[Max(earlier)].new
  BY <1>2 DEF Recorded
<1> QED BY <1>3, <1>4

\* What the trail said before is not changed by a later audit row.
LEMMA TrailIsKept ==
    ASSUME TypeInv, audits' \in Seq(AuditRow), Len(audits) <= Len(audits'),
           \A j \in DOMAIN audits : audits'[j] = audits[j],
           NEW i, NEW j \in 1..(Len(audits) + 1)
    PROVE  Recorded(i, j)' = Recorded(i, j)
<1> DEFINE earlier == {k \in AuditsOf(i) : k < j}
<1>1. DOMAIN audits = 1..Len(audits) /\ Len(audits) \in Nat
      /\ DOMAIN audits' = 1..Len(audits') /\ Len(audits') \in Nat
  BY RowsAreRows, LenProperties
<1>2. earlier' = earlier
  BY <1>1 DEF AuditsOf
<1>3. CASE earlier = {}
  BY <1>2, <1>3 DEF Recorded
<1>4. CASE earlier # {}
  <2>1. earlier \subseteq 1..(j - 1) /\ earlier \subseteq DOMAIN audits
    BY <1>1 DEF AuditsOf
  <2>2. PICK m \in earlier : \A k \in earlier : m >= k
    <3>1. earlier \subseteq 0..Len(audits)
      BY <1>1, <2>1
    <3> HIDE DEF earlier
    <3> QED BY <1>1, <1>4, <3>1, HasMaximum
  <2>3. Max(earlier) \in DOMAIN audits
    BY <2>1, <2>2 DEF Max
  <2>4. Max(earlier)' = Max(earlier)
    BY <1>2 DEF Max
  <2>5. Recorded(i, j) = audits[Max(earlier)].new
    BY <1>4 DEF Recorded
  <2>6. Recorded(i, j)' = audits'[Max(earlier)'].new
    BY <1>2, <1>4 DEF Recorded
  <2> QED BY <2>3, <2>4, <2>5, <2>6
<1> QED BY <1>3, <1>4

\* While there is one author, what the author commits is what was asked for: the
\* copy it loaded is the row, so no column is left at another value.
LEMMA OneAuthorCommits ==
    ASSUME TypeInv, TrailInv, NEW c \in Admins, Commit(c), OneAuthor'
    PROVE  /\ OneAuthor
           /\ session[c].held = policies[session[c].row]
           /\ Updated(c).limits = session[c].want
<1>1. \A j \in DOMAIN audits : j \in DOMAIN audits' /\ Len(audits') \in DOMAIN audits'
  BY CommittedRows, RowsAreRows, LenProperties
<1>2. audits'[Len(audits')].by = c
  <2>1. Audit(c).by = c
    BY DEF Audit
  <2> QED BY <2>1, CommittedRows
<1>3. OneAuthor /\ OnlyAuthor(c)
  BY <1>1, <1>2, CommittedRows DEF OneAuthor, OnlyAuthor
<1>4. session[c].held = policies[session[c].row]
  BY <1>3 DEF TrailInv, CopyIsFresh, Commit, Clients
<1>5. Updated(c).limits = session[c].want
  <2>1. session[c].want \in Thresholds /\ policies[session[c].row] \in PolicyRow
    BY CommittedRows, RowsAreRows
  <2>2. session[c].want = [low |-> session[c].want.low, medium |-> session[c].want.medium]
    BY <2>1 DEF Thresholds
  <2>3. CASE session[c].held.limits = session[c].want /\ session[c].held.by = c
    BY <2>3, <1>4 DEF Updated
  <2>4. CASE ~(session[c].held.limits = session[c].want /\ session[c].held.by = c)
    <3>1. Updated(c).limits =
             [low |-> Column(policies[session[c].row].limits.low,
                             session[c].held.limits.low, session[c].want.low),
              medium |-> Column(policies[session[c].row].limits.medium,
                                session[c].held.limits.medium, session[c].want.medium)]
      BY <2>4 DEF Updated, Row
    <3> QED BY <3>1, <2>2, <1>4 DEF Column
  <2> QED BY <2>3, <2>4
<1> QED BY <1>3, <1>4, <1>5

LEMMA InitTrail == Init => TrailInv
<1> SUFFICES ASSUME Init PROVE TrailInv
  OBVIOUS
<1>1. audits = <<>> /\ DOMAIN audits = {} /\ \A c \in Clients : session[c].step = "idle"
  BY DEF Init, Idle
<1>2. \A i \in DOMAIN policies : policies[i].limits = Default
  BY DEF Init, Row
<1>3. \A i : Recorded(i, Len(audits) + 1) = Default
  BY <1>1 DEF Recorded, AuditsOf
<1>4. OneAuthorKeepsOrder
  BY <1>2, PolicyAssumption DEF OneAuthorKeepsOrder, OrderedThresholds, Thresholds
<1>5. AuditTrailIsComplete
  BY <1>1, <1>2, <1>3 DEF AuditTrailIsComplete
<1> QED BY <1>1, <1>4, <1>5 DEF TrailInv, CopyIsFresh

\* A step that leaves the tables alone keeps the trail if the session that
\* moved holds a copy of the row itself.
LEMMA SessionsKeepTrail ==
    ASSUME TypeInv, TrailInv, UNCHANGED <<policies, audits>>, NEW c \in Clients,
           \A d \in Clients : d # c => session'[d] = session[d],
           session'[c].step = "commit" => session'[c].held = policies[session'[c].row]
    PROVE  TrailInv'
<1>1. OneAuthorKeepsOrder'
  BY DEF TrailInv, OneAuthorKeepsOrder, OneAuthor, OrderedThresholds
<1>2. AuditTrailIsComplete'
  <2>1. \A i, j : Recorded(i, j)' = Recorded(i, j)
    BY DEF Recorded, AuditsOf
  <2> QED BY <2>1 DEF TrailInv, AuditTrailIsComplete, OneAuthor
<1>3. ASSUME NEW d \in Clients PROVE CopyIsFresh(d)'
  BY DEF TrailInv, CopyIsFresh, OnlyAuthor
<1> QED BY <1>1, <1>2, <1>3 DEF TrailInv

\* The copy that a session holds when it gets hold of row i is row i.
LEMMA HoldKeepsTrail ==
    ASSUME TypeInv, TrailInv, NEW c \in Clients, NEW i, Hold(c, i), UNCHANGED <<policies, audits>>
    PROVE  TrailInv'
<1>1. session'[c] = IF session[c].want = None THEN Idle
                    ELSE [session[c] EXCEPT !.step = "commit", !.row = i, !.held = policies[i]]
  BY DEF Hold, TypeInv
<1>2. session[c] \in Session
  BY DEF TypeInv
<1>3. session'[c].step = "commit" => session'[c].held = policies[session'[c].row]
  BY <1>1, <1>2 DEF Session, Idle
<1>4. \A d \in Clients : d # c => session'[d] = session[d]
  BY DEF Hold, TypeInv
<1> QED BY <1>3, <1>4, SessionsKeepTrail

\* A row inserted with the defaults has no history yet.
LEMMA InsertKeepsTrail ==
    ASSUME TypeInv, TrailInv, NEW c \in Clients, Insert(c)
    PROVE  TrailInv'
<1>1. audits' = audits
  BY DEF Insert
<1>2. \A i \in DOMAIN policies' : i \in DOMAIN policies \/ (i = Len(policies') /\ i \notin DOMAIN policies)
  BY InsertedRow, RowsAreRows
<1>3. policies'[Len(policies')].limits = Default
  BY InsertedRow DEF Row
<1>4. OneAuthorKeepsOrder'
  BY <1>1, <1>2, <1>3, InsertedRow, PolicyAssumption
     DEF TrailInv, OneAuthorKeepsOrder, OneAuthor, OrderedThresholds, Thresholds
<1>5. ASSUME OneAuthor' PROVE \A i \in DOMAIN policies' : policies'[i].limits = Recorded(i, Len(audits) + 1)
  <2>1. CASE Len(policies') \in DOMAIN policies'
    <3>1. ASSUME NEW i, i \notin DOMAIN policies PROVE Recorded(i, Len(audits) + 1) = Default
      <4>1. AuditsOf(i) = {}
        BY <3>1 DEF TypeInv, AuditsOf
      <4> QED BY <4>1 DEF Recorded
    <3> QED BY <3>1, <1>1, <1>2, <1>3, <1>5, InsertedRow DEF TrailInv, AuditTrailIsComplete, OneAuthor
  <2> QED BY <2>1, InsertedRow, RowsAreRows
<1>6. AuditTrailIsComplete'
  <2>1. \A i, j : Recorded(i, j)' = Recorded(i, j)
    BY <1>1 DEF Recorded, AuditsOf
  <2> QED BY <2>1, <1>1, <1>5 DEF TrailInv, AuditTrailIsComplete, OneAuthor
<1>7. ASSUME NEW d \in Clients PROVE CopyIsFresh(d)'
  <2>1. CASE d = c
    <3>1. session'[c].step = "refresh"
      BY DEF Insert, TypeInv, Session
    <3> QED BY <3>1, <2>1 DEF CopyIsFresh
  <2>2. CASE d # c
    <3>1. session'[d] = session[d]
      BY <2>2 DEF Insert, TypeInv
    <3>2. session[d].step = "commit" => session[d].row \in DOMAIN policies
      BY RowsAreRows DEF TypeInv, SessionFits
    <3> QED BY <3>1, <3>2, <1>1, InsertedRow DEF TrailInv, CopyIsFresh, OnlyAuthor
  <2> QED BY <2>1, <2>2
<1> QED BY <1>4, <1>6, <1>7 DEF TrailInv

LEMMA CommitKeepsTrail ==
    ASSUME TypeInv, TrailInv, NEW c \in Admins, Commit(c)
    PROVE  TrailInv'
<1>0. PICK n, r : n = Len(audits) /\ r = session[c].row
  OBVIOUS
<1>1. r \in DOMAIN policies /\ n \in Nat /\ DOMAIN audits = 1..n /\ DOMAIN audits' = 1..(n + 1)
      /\ Len(audits') = n + 1 /\ audits' # <<>>
  BY <1>0, CommittedRows, RowsAreRows, LenProperties
<1>2. Audit(c) = [row |-> r, previous |-> session[c].held.limits, new |-> session[c].want, by |-> c]
  BY <1>0 DEF Audit
<1>3. audits'[n + 1] = Audit(c) /\ \A j \in 1..n : audits'[j] = audits[j]
  BY <1>1, CommittedRows
<1>4. TypeInv'
  BY CommitKeepsTypes
<1>5. Recorded(r, n + 2)' = session[c].want
  <2>1. (TypeInv /\ audits # <<>> =>
           Recorded(audits[Len(audits)].row, Len(audits) + 1) = audits[Len(audits)].new)'
    BY LastAudit, PTL
  <2>2. Len(audits') + 1 = n + 2 /\ audits'[Len(audits')].row = r
        /\ audits'[Len(audits')].new = session[c].want
    BY <1>1, <1>2, <1>3
  <2> QED BY <2>1, <2>2, <1>1, <1>4
<1>6. \A i : \A j \in 1..(n + 1) : Recorded(i, j)' = Recorded(i, j)
  <2>1. audits' \in Seq(AuditRow) /\ Len(audits) <= Len(audits')
    BY <1>0, <1>1, CommittedRows
  <2> QED BY <2>1, <1>0, <1>1, <1>3, TrailIsKept
<1>7. ASSUME NEW i, i # r PROVE Recorded(i, n + 2)' = Recorded(i, n + 1)
  <2>1. AuditsOf(i)' = AuditsOf(i)
    BY <1>1, <1>2, <1>3, <1>7 DEF AuditsOf
  <2>2. {k \in AuditsOf(i) : k < n + 2} = {k \in AuditsOf(i) : k < n + 1}
    BY <1>1 DEF AuditsOf
  <2>3. Recorded(i, n + 1)' = Recorded(i, n + 1)
    BY <1>1, <1>6
  <2>4. Recorded(i, n + 2)' = Recorded(i, n + 1)'
    BY <2>1, <2>2 DEF Recorded
  <2> QED BY <2>3, <2>4
<1>8. OneAuthorKeepsOrder'
  <2> SUFFICES ASSUME OneAuthor' PROVE OrderedThresholds'
    BY DEF OneAuthorKeepsOrder
  <2>1. OrderedThresholds
    BY OneAuthorCommits DEF TrailInv, OneAuthorKeepsOrder
  <2>2. policies'[r].limits = session[c].want /\ Valid(session[c].want)
    BY <1>0, OneAuthorCommits, CommittedRows
  <2> QED BY <2>1, <2>2, <1>0, CommittedRows DEF OrderedThresholds, Valid
<1>9. AuditTrailIsComplete'
  <2> SUFFICES ASSUME OneAuthor'
               PROVE  /\ \A j \in DOMAIN audits' : (audits[j].previous = Recorded(audits[j].row, j))'
                      /\ \A i \in DOMAIN policies' : policies'[i].limits = Recorded(i, n + 2)'
    <3>1. Len(audits') + 1 = n + 2
      BY <1>1
    <3> QED BY <3>1 DEF AuditTrailIsComplete
  <2>1. /\ \A j \in DOMAIN audits : audits[j].previous = Recorded(audits[j].row, j)
        /\ \A i \in DOMAIN policies : policies[i].limits = Recorded(i, n + 1)
    BY <1>0, OneAuthorCommits DEF TrailInv, AuditTrailIsComplete
  <2>2. session[c].held.limits = Recorded(r, n + 1) /\ policies'[r].limits = session[c].want
    BY <2>1, <1>0, <1>1, OneAuthorCommits, CommittedRows
  <2>3. ASSUME NEW j \in DOMAIN audits' PROVE (audits[j].previous = Recorded(audits[j].row, j))'
    <3>1. PICK q : q = audits'[j].row
      OBVIOUS
    <3>2. audits'[j].previous = Recorded(q, j)
      <4>1. CASE j = n + 1
        BY <4>1, <3>1, <2>2, <1>2, <1>3
      <4>2. CASE j \in 1..n
        BY <4>2, <3>1, <2>1, <1>1, <1>3
      <4> QED BY <4>1, <4>2, <1>1
    <3>3. Recorded(q, j)' = Recorded(q, j)
      BY <1>1, <1>6
    <3> QED BY <3>1, <3>2, <3>3
  <2>4. ASSUME NEW i \in DOMAIN policies' PROVE policies'[i].limits = Recorded(i, n + 2)'
    <3>1. CASE i = r
      BY <3>1, <2>2, <1>5
    <3>2. CASE i # r
      BY <3>2, <2>1, <1>0, <1>7, CommittedRows
    <3> QED BY <3>1, <3>2
  <2> QED BY <2>3, <2>4
<1>10. ASSUME NEW d \in Clients PROVE CopyIsFresh(d)'
  <2>1. CASE d = c
    <3>1. session'[c].step = "idle"
      BY DEF Commit, TypeInv, Clients, Idle
    <3> QED BY <3>1, <2>1 DEF CopyIsFresh
  <2>2. CASE d # c
    <3>1. ~OnlyAuthor(d)'
      BY <2>2, <1>1, <1>2, <1>3 DEF OnlyAuthor
    <3> QED BY <3>1 DEF CopyIsFresh
  <2> QED BY <2>1, <2>2
<1> QED BY <1>8, <1>9, <1>10 DEF TrailInv

LEMMA NextKeepsTrail == TypeInv /\ TrailInv /\ [Next]_vars => TrailInv'
<1> SUFFICES ASSUME TypeInv, TrailInv, [Next]_vars PROVE TrailInv'
  OBVIOUS
<1>1. ASSUME NEW c \in Clients, StartRead(c) \/ StartUpdate(c) \/ Fail(c) PROVE TrailInv'
  <2>1. UNCHANGED <<policies, audits>>
    BY <1>1 DEF StartRead, StartUpdate, Fail
  <2>2. session'[c].step # "commit" /\ \A d \in Clients : d # c => session'[d] = session[d]
    BY <1>1 DEF TypeInv, Session, Idle, StartRead, StartUpdate, Fail
  <2> QED BY <2>1, <2>2, SessionsKeepTrail
<1>2. ASSUME NEW c \in Clients, Refresh(c) PROVE TrailInv'
  BY <1>2, HoldKeepsTrail DEF Refresh
<1>3. ASSUME NEW c \in Clients, Query(c) PROVE TrailInv'
  <2>1. CASE policies # <<>>
    BY <1>3, <2>1, HoldKeepsTrail DEF Query
  <2>2. CASE policies = <<>>
    <3>1. UNCHANGED <<policies, audits>> /\ session'[c].step = "insert"
          /\ \A d \in Clients : d # c => session'[d] = session[d]
      BY <1>3, <2>2 DEF Query, TypeInv, Session
    <3> QED BY <3>1, SessionsKeepTrail
  <2> QED BY <2>1, <2>2
<1>4. ASSUME NEW c \in Clients, Insert(c) PROVE TrailInv'
  BY <1>4, InsertKeepsTrail
<1>5. ASSUME NEW c \in Admins, Commit(c) PROVE TrailInv'
  BY <1>5, CommitKeepsTrail
<1>6. CASE UNCHANGED vars
  <2>1. \A i, j : Recorded(i, j)' = Recorded(i, j)
    BY <1>6 DEF Recorded, AuditsOf, vars
  <2> QED BY <1>6, <2>1 DEF vars, TrailInv, OneAuthorKeepsOrder, OneAuthor, OrderedThresholds,
                            AuditTrailIsComplete, CopyIsFresh, OnlyAuthor
<1> QED BY <1>1, <1>2, <1>3, <1>4, <1>5, <1>6 DEF Next, Clients

LEMMA TrailHolds == Spec => []TrailInv
BY InitTrail, NextKeepsTrail, TypesHold, PTL DEF Spec

\* OneAuthorKeepsOrder: however many rows there are and however stale the copies
\* of others, updates committed by one admin leave every row ordered.
THEOREM OrderKept == Spec => []OneAuthorKeepsOrder
<1>1. TrailInv => OneAuthorKeepsOrder
  BY DEF TrailInv
<1> QED BY <1>1, TrailHolds, PTL

\* AuditTrailIsComplete: the audit rows of every policy form a chain from the
\* defaults to the limits in force.
THEOREM TrailComplete == Spec => []AuditTrailIsComplete
<1>1. TrailInv => AuditTrailIsComplete
  BY DEF TrailInv
<1> QED BY <1>1, TrailHolds, PTL

\* LastUpdateIsInForce: the only policy has the limits of the last audit row.
THEOREM LastUpdateWins == Spec => []LastUpdateIsInForce
<1>1. TypeInv /\ TrailInv => LastUpdateIsInForce
  <2> SUFFICES ASSUME TypeInv, TrailInv, OneAuthor, Len(policies) = 1, audits # <<>>
               PROVE  policies[Newest].limits = audits[Len(audits)].new
    BY DEF LastUpdateIsInForce
  <2>1. DOMAIN policies = {1} /\ Len(audits) \in DOMAIN audits
    BY RowsAreRows, EmptySeq DEF TypeInv
  <2>2. Newest = 1
    <3>1. policies # <<>>
      BY <2>1
    <3> QED BY <3>1, <2>1, NewestIsRow
  <2>3. audits[Len(audits)].row = 1
    BY <2>1 DEF TypeInv
  <2>4. policies[1].limits = Recorded(1, Len(audits) + 1)
    BY <2>1 DEF TrailInv, AuditTrailIsComplete
  <2> QED BY <2>2, <2>3, <2>4, LastAudit
<1> QED BY <1>1, TypesHold, TrailHolds, PTL

-----------------------------------------------------------------------------
(***************************************************************************)
(* What a step may do to the history.                                      *)
(***************************************************************************)

AuditedStep ==
    /\ IsPrefix(audits, audits')
    /\ \A i \in DOMAIN policies :
          policies'[i].limits # policies[i].limits =>
             /\ Len(audits') = Len(audits) + 1
             /\ Last(audits').row = i
             /\ policies'[i].limits.low \in {policies[i].limits.low, Last(audits').new.low}
             /\ policies'[i].limits.medium
                   \in {policies[i].limits.medium, Last(audits').new.medium}

LEMMA CommitIsAudited ==
    ASSUME TypeInv, NEW c \in Admins, Commit(c)
    PROVE  AuditedStep
<1> DEFINE r == session[c].row
           n == Len(audits)
<1>1. IsPrefix(audits, audits')
  <2>1. n \in Nat /\ Len(audits') = n + 1 /\ \A j \in 1..n : audits'[j] = audits[j]
    BY CommittedRows, RowsAreRows
  <2>2. \A j \in 1..n : audits[j] \in AuditRow /\ audits'[j] \in AuditRow
    BY <2>1, RowsAreRows
  <2>3. /\ SubSeq(audits, 1, n) \in Seq(AuditRow) /\ SubSeq(audits', 1, n) \in Seq(AuditRow)
        /\ Len(SubSeq(audits, 1, n)) = n /\ Len(SubSeq(audits', 1, n)) = n
        /\ \A j \in 1..n : SubSeq(audits, 1, n)[j] = SubSeq(audits', 1, n)[j]
    BY <2>1, <2>2, SubSeqProperties
  <2>4. SubSeq(audits, 1, n) = SubSeq(audits', 1, n)
    BY <2>3, SeqEqual
  <2> QED BY <2>1, <2>4 DEF IsPrefix
<1>2. Last(audits') = Audit(c) /\ Len(audits') = n + 1
  BY CommittedRows DEF Last
<1>3. Audit(c).row = r /\ Audit(c).new = session[c].want
  BY DEF Audit
<1>4. CASE Updated(c) = policies[r]
  BY <1>1, <1>4, CommittedRows DEF AuditedStep
<1>5. CASE Updated(c) # policies[r]
  <2>1. Updated(c).limits =
           [low |-> Column(policies[r].limits.low, session[c].held.limits.low, session[c].want.low),
            medium |-> Column(policies[r].limits.medium, session[c].held.limits.medium,
                              session[c].want.medium)]
    BY <1>5 DEF Updated, Row
  <2>2. /\ Updated(c).limits.low \in {policies[r].limits.low, session[c].want.low}
        /\ Updated(c).limits.medium \in {policies[r].limits.medium, session[c].want.medium}
    BY <2>1 DEF Column
  <2> QED BY <1>1, <1>2, <1>3, <2>2, CommittedRows DEF AuditedStep
<1> QED BY <1>4, <1>5

\* NoChangeWithoutAudit: audit rows are only appended, and a limit only moves to
\* a value requested by the audit row of the same commit.
THEOREM ChangesAreAudited == Spec => NoChangeWithoutAudit
<1>1. TypeInv /\ [Next]_vars => [AuditedStep]_vars
  <2> SUFFICES ASSUME TypeInv, Next PROVE AuditedStep
    BY DEF vars
  <2>1. ASSUME audits' = audits, \A i \in DOMAIN policies : policies'[i] = policies[i]
        PROVE  AuditedStep
    <3>1. IsPrefix(audits, audits')
      BY <2>1, RowsAreRows DEF IsPrefix
    <3> QED BY <2>1, <3>1 DEF AuditedStep
  <2>2. ASSUME NEW c \in Clients, StartRead(c) \/ StartUpdate(c) \/ Query(c) \/ Refresh(c) \/ Fail(c)
        PROVE  AuditedStep
    BY <2>1, <2>2 DEF StartRead, StartUpdate, Query, Refresh, Fail
  <2>3. ASSUME NEW c \in Clients, Insert(c) PROVE AuditedStep
    BY <2>1, <2>3, InsertedRow DEF Insert
  <2>4. ASSUME NEW c \in Admins, Commit(c) PROVE AuditedStep
    BY <2>4, CommitIsAudited
  <2> QED BY <2>2, <2>3, <2>4 DEF Next, Clients
<1>2. [][AuditedStep]_vars => NoChangeWithoutAudit
  BY PTL DEF NoChangeWithoutAudit, AuditedStep
<1> QED BY <1>1, <1>2, TypesHold, PTL DEF Spec
=============================================================================
