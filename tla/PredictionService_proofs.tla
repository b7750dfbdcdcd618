---------------------- MODULE PredictionService_proofs -----------------------
(***************************************************************************)
(* Theorems about PredictionService, for any finite set of requests and    *)
(* any number of promotions, outages and crashes.                          *)
(***************************************************************************)
EXTENDS PredictionService, FiniteSetTheorems, SequenceTheorems, TLAPS

RequestState == [step : Steps, scored : Versions, current : Versions, row : Nat]

-----------------------------------------------------------------------------
(***************************************************************************)
(* What a request holds, whatever other requests do.                       *)
(***************************************************************************)

\* Neither version a request has read is ahead of the champion, the second not
\* behind the first unless the registry could not be read; it rewrites a row only
\* with a version it has read.
RequestFits(q) ==
    /\ q.row <= Len(rows)
    /\ q.step = "idle" => q = Idle
    /\ q.step \in {"update", "store", "explain"} => q.row # 0
    /\ q.step = "current" => q.current = 0
    /\ q.step = "update" => q.current # 0
    /\ q.scored <= champion
    /\ q.current <= champion
    /\ q.current # 0 => q.scored <= q.current

TypeInv ==
    /\ champion \in Versions
    /\ readable \in BOOLEAN
    /\ crashes \in 0..MaxCrashes
    /\ overlapped \in BOOLEAN
    /\ rows \in Seq(Versions)
    /\ request \in [Requests -> RequestState]
    /\ \A r \in Requests : RequestFits(request[r])
    /\ \A i \in DOMAIN rows : rows[i] <= champion
    /\ RowsAreBounded

\* While requests follow each other, whoever has read the champion has read a
\* version that no row is ahead of, and once it has dealt with its row that row
\* says this version until the request is over.
OneAtATime ==
    /\ \A r, q \in Requests : r # q => request[r].step = "idle" \/ request[q].step = "idle"
    /\ \A r \in Requests : request[r].current # 0 =>
          /\ \A i \in DOMAIN rows : rows[i] <= request[r].current
          /\ request[r].step \in {"store", "explain"} => rows[request[r].row] = request[r].current

IInv == TypeInv /\ (~overlapped => OneAtATime)

Inserting == {r \in Requests : request[r].step = "insert"}

LEMMA IdleRequest ==
    /\ Idle \in RequestState /\ Idle.step = "idle" /\ Idle.current = 0 /\ Idle.scored = 0 /\ Idle.row = 0
    /\ \A n \in Nat : n \in Versions => n <= MaxVersion
BY PredictionAssumption DEF Idle, RequestState, Steps, Versions

LEMMA RowFacts ==
    ASSUME TypeInv
    PROVE  /\ Len(rows) \in Nat /\ DOMAIN rows = 1..Len(rows)
           /\ rows = <<>> <=> Len(rows) = 0
           /\ \A i \in DOMAIN rows : rows[i] \in Versions /\ rows[i] \in Nat
           /\ champion \in Nat /\ Versions \subseteq Nat /\ MaxVersion \in Nat
           /\ RegistryRead \in Versions /\ RegistryRead <= champion
           /\ RegistryRead # 0 => RegistryRead = champion
<1>1. rows \in Seq(Versions) /\ Versions \subseteq Nat /\ champion \in Nat /\ MaxVersion \in Nat
  BY PredictionAssumption DEF TypeInv, Versions
<1>2. RegistryRead \in Versions /\ RegistryRead <= champion /\ (RegistryRead # 0 => RegistryRead = champion)
  BY <1>1, PredictionAssumption DEF RegistryRead, TypeInv, Versions
<1>3. Len(rows) \in Nat /\ DOMAIN rows = 1..Len(rows) /\ (rows = <<>> <=> Len(rows) = 0)
  BY <1>1, LenProperties, EmptySeq
<1>4. \A i \in DOMAIN rows : rows[i] \in Versions /\ rows[i] \in Nat
  BY <1>1, <1>3, ElementOfSeq
<1> QED BY <1>1, <1>2, <1>3, <1>4

LEMMA InsertingIsFinite ==
    /\ IsFiniteSet(Requests) /\ IsFiniteSet(Inserting)
    /\ Cardinality(Inserting) \in Nat /\ Cardinality(Requests) \in Nat
    /\ Cardinality(Inserting) <= Cardinality(Requests)
<1>1. IsFiniteSet(Requests) /\ Inserting \subseteq Requests
  BY PredictionAssumption DEF Inserting
<1> QED BY <1>1, FS_Subset, FS_CardinalityType

-----------------------------------------------------------------------------
(***************************************************************************)
(* One request takes a step: its record becomes q, and the table stays as  *)
(* it is, or gets one more row by a request that was about to insert it.   *)
(***************************************************************************)
LEMMA StepKeepsBound ==
    ASSUME TypeInv, NEW r \in Requests, NEW q \in RequestState, request' = [request EXCEPT ![r] = q],
           rows' \in Seq(Versions), Len(rows') = Len(rows), q.step = "insert" => rows = <<>>
    PROVE  RowsAreBounded'
<1>1. Inserting' = {p \in Requests : request'[p].step = "insert"}
  BY DEF Inserting
<1>2. IsFiniteSet(Inserting') /\ Cardinality(Inserting') \in Nat /\ Cardinality(Inserting') <= Cardinality(Requests)
  <2>1. Inserting' \subseteq Requests
    BY <1>1
  <2> QED BY <2>1, InsertingIsFinite, FS_Subset, FS_CardinalityType
<1>3. CASE rows = <<>>
  BY <1>1, <1>2, <1>3, RowFacts, InsertingIsFinite DEF RowsAreBounded
<1>4. CASE rows # <<>>
  <2>1. Inserting' \subseteq Inserting
    BY <1>1, <1>4 DEF Inserting, TypeInv
  <2>2. Cardinality(Inserting') <= Cardinality(Inserting)
    BY <2>1, InsertingIsFinite, FS_Subset
  <2> QED BY <1>1, <1>2, <2>2, RowFacts, InsertingIsFinite DEF RowsAreBounded, Inserting, TypeInv
<1> QED BY <1>3, <1>4

LEMMA InsertKeepsBound ==
    ASSUME TypeInv, NEW r \in Requests, NEW q \in RequestState, request' = [request EXCEPT ![r] = q],
           Len(rows') = Len(rows) + 1, request[r].step = "insert", q.step # "insert"
    PROVE  RowsAreBounded'
<1>1. Inserting' = Inserting \ {r} /\ r \in Inserting
  BY DEF Inserting, TypeInv
<1>2. Cardinality(Inserting') = IF r \in Inserting THEN Cardinality(Inserting) - 1 ELSE Cardinality(Inserting)
  BY <1>1, InsertingIsFinite, FS_RemoveElement
<1>3. Cardinality(Inserting') = Cardinality(Inserting) - 1
  BY <1>1, <1>2
<1>4. Inserting' = {p \in Requests : request'[p].step = "insert"}
  BY DEF Inserting
<1> QED BY <1>3, <1>4, InsertingIsFinite, RowFacts DEF RowsAreBounded, Inserting, TypeInv

\* What the other invariants need of such a step.
LEMMA StepKeepsType ==
    ASSUME TypeInv, NEW r \in Requests, NEW q \in RequestState, request' = [request EXCEPT ![r] = q],
           rows' \in Seq(Versions), Len(rows') >= Len(rows), Len(rows') \in Nat,
           \A i \in DOMAIN rows' : rows'[i] <= champion,
           q.row <= Len(rows'), q.step = "idle" => q = Idle,
           q.step \in {"update", "store", "explain"} => q.row # 0,
           q.step = "current" => q.current = 0, q.step = "update" => q.current # 0,
           q.scored <= champion, q.current <= champion, q.current # 0 => q.scored <= q.current,
           crashes' \in 0..MaxCrashes, overlapped' \in BOOLEAN, UNCHANGED served, RowsAreBounded'
    PROVE  TypeInv'
<1>1. request' \in [Requests -> RequestState]
  BY DEF TypeInv
<1>2. champion' = champion /\ readable' = readable
  BY DEF served
<1>3. ASSUME NEW p \in Requests PROVE RequestFits(request[p])'
  <2>1. CASE p = r
    <3>1. request'[p] = q
      BY <2>1 DEF TypeInv
    <3> QED BY <3>1, <1>2 DEF RequestFits
  <2>2. CASE p # r
    <3>1. request'[p] = request[p] /\ RequestFits(request[p]) /\ request[p].row \in Nat
      BY <2>2 DEF TypeInv, RequestState
    <3>2. request[p].row <= Len(rows')
      BY <3>1, RowFacts DEF RequestFits
    <3> QED BY <3>1, <3>2, <1>2 DEF RequestFits
  <2> QED BY <2>1, <2>2
<1> QED BY <1>1, <1>2, <1>3 DEF TypeInv

\* A request that works alone keeps the promise of OneAtATime for itself; the
\* others are idle.
LEMMA StepKeepsOrder ==
    ASSUME TypeInv, OneAtATime, NEW r \in Requests, NEW q \in RequestState,
           request' = [request EXCEPT ![r] = q],
           request[r].step # "idle" \/ \A p \in Requests : request[p].step = "idle",
           q.current # 0 =>
              /\ \A i \in DOMAIN rows' : rows'[i] <= q.current
              /\ q.step \in {"store", "explain"} => rows'[q.row] = q.current
    PROVE  OneAtATime'
<1>1. request'[r] = q /\ \A p \in Requests : p # r => request'[p] = request[p]
  BY DEF TypeInv
<1>2. ASSUME NEW p \in Requests, p # r PROVE request'[p] = Idle
  <2>1. request[p].step = "idle"
    BY <1>2 DEF OneAtATime
  <2> QED BY <1>1, <1>2, <2>1 DEF TypeInv, RequestFits
<1>3. ASSUME NEW p \in Requests, NEW t \in Requests, p # t
      PROVE  request'[p].step = "idle" \/ request'[t].step = "idle"
  BY <1>2, <1>3, IdleRequest
<1>4. ASSUME NEW p \in Requests, request'[p].current # 0
      PROVE  /\ \A i \in DOMAIN rows' : rows'[i] <= request'[p].current
             /\ request'[p].step \in {"store", "explain"} => rows'[request'[p].row] = request'[p].current
  BY <1>1, <1>2, <1>4, IdleRequest
<1> QED BY <1>3, <1>4 DEF OneAtATime

-----------------------------------------------------------------------------
(***************************************************************************)
(* The actions of a request.                                               *)
(***************************************************************************)

\* The request of an action, as far as the steps below need to know it.
LEMMA Holds ==
    ASSUME IInv, NEW r \in Requests
    PROVE  /\ request[r] \in RequestState /\ RequestFits(request[r])
           /\ request[r].scored \in Nat /\ request[r].current \in Nat /\ request[r].row \in Nat
           /\ request[r].row # 0 => request[r].row \in DOMAIN rows
           /\ ~overlapped => OneAtATime
<1>1. request[r] \in RequestState /\ RequestFits(request[r]) /\ TypeInv
  BY DEF IInv, TypeInv
<1> QED BY <1>1, RowFacts DEF IInv, RequestState, RequestFits

\* A request leaves the table alone.
LEMMA ReadKeepsInv ==
    ASSUME IInv, NEW r \in Requests, NEW q \in RequestState, request' = [request EXCEPT ![r] = q],
           UNCHANGED <<served, rows>>, q.step = "insert" => rows = <<>>,
           q.row <= Len(rows), q.step = "idle" => q = Idle,
           q.step \in {"update", "store", "explain"} => q.row # 0,
           q.step = "current" => q.current = 0, q.step = "update" => q.current # 0,
           q.scored <= champion, q.current <= champion, q.current # 0 => q.scored <= q.current,
           crashes' \in 0..MaxCrashes, overlapped' \in BOOLEAN,
           ~overlapped' => ~overlapped /\
              (request[r].step # "idle" \/ \A p \in Requests : request[p].step = "idle"),
           ~overlapped => (q.current # 0 =>
              /\ \A i \in DOMAIN rows : rows[i] <= q.current
              /\ q.step \in {"store", "explain"} => rows[q.row] = q.current)
    PROVE  IInv'
<1>1. TypeInv /\ rows \in Seq(Versions) /\ rows' = rows /\ Len(rows) \in Nat /\ Len(rows') >= Len(rows)
  BY RowFacts DEF IInv, TypeInv
<1>2. RowsAreBounded'
  BY <1>1, StepKeepsBound
<1>3. \A i \in DOMAIN rows' : rows'[i] <= champion
  BY <1>1 DEF TypeInv
<1>4. TypeInv'
  BY <1>1, <1>2, <1>3, StepKeepsType
<1>5. ASSUME ~overlapped' PROVE OneAtATime'
  BY <1>1, <1>5, StepKeepsOrder DEF IInv
<1> QED BY <1>4, <1>5 DEF IInv

LEMMA ScoreKeepsInv ==
    ASSUME IInv, NEW r \in Requests, Score(r)
    PROVE  IInv'
<1> DEFINE q == [Idle EXCEPT !.step = "current", !.scored = RegistryRead]
<1>1. TypeInv /\ RegistryRead \in Versions /\ RegistryRead <= champion /\ champion \in Nat
  BY RowFacts DEF IInv
<1>2. /\ q \in RequestState /\ q.step = "current" /\ q.scored = RegistryRead
      /\ q.current = 0 /\ q.row = 0
  BY <1>1, IdleRequest DEF RequestState, Steps, Idle
<1>3. /\ request' = [request EXCEPT ![r] = q] /\ UNCHANGED <<served, rows, crashes>>
      /\ overlapped' = (overlapped \/ \E p \in Requests : request[p].step # "idle")
  BY DEF Score
<1> HIDE DEF q
<1>4. ~overlapped' => ~overlapped /\ \A p \in Requests : request[p].step = "idle"
  BY <1>3
<1>5. crashes' \in 0..MaxCrashes
  BY <1>1, <1>3 DEF TypeInv
<1>6. overlapped' \in BOOLEAN
  BY <1>3
<1>7. 0 <= Len(rows) /\ 0 <= champion
  BY <1>1, RowFacts
<1> QED BY <1>1, <1>2, <1>3, <1>4, <1>5, <1>6, <1>7, ReadKeepsInv

LEMMA GetCurrentKeepsInv ==
    ASSUME IInv, NEW r \in Requests, GetCurrent(r)
    PROVE  IInv'
<1> DEFINE q == [request[r] EXCEPT !.step = "query", !.current = RegistryRead]
<1>1. /\ TypeInv /\ RegistryRead \in Versions /\ RegistryRead <= champion /\ champion \in Nat
      /\ RegistryRead # 0 => RegistryRead = champion
  BY RowFacts DEF IInv
<1>2. /\ q \in RequestState /\ q.step = "query" /\ q.current = RegistryRead
      /\ q.scored = request[r].scored /\ q.row = request[r].row
  BY <1>1, Holds DEF RequestState, Steps
<1>3. request' = [request EXCEPT ![r] = q] /\ UNCHANGED <<served, rows, crashes, overlapped>>
  BY DEF GetCurrent, history
<1> HIDE DEF q
<1>4. q.row <= Len(rows) /\ q.scored <= champion /\ q.current <= champion /\ (q.current # 0 => q.scored <= q.current)
  BY <1>1, <1>2, Holds DEF RequestFits
<1>5. request[r].step # "idle"
  BY DEF GetCurrent
<1>6. q.current # 0 => \A i \in DOMAIN rows : rows[i] <= q.current
  BY <1>1, <1>2 DEF TypeInv
<1>7. crashes' \in 0..MaxCrashes /\ overlapped' \in BOOLEAN
  BY <1>1, <1>3 DEF TypeInv
<1> QED BY <1>2, <1>3, <1>4, <1>5, <1>6, <1>7, ReadKeepsInv

\* The steps that change only where the request is and its row.
LEMMA MoveKeepsInv ==
    ASSUME IInv, NEW r \in Requests, NEW step \in Steps, NEW row \in Nat,
           request' = [request EXCEPT ![r] = [request[r] EXCEPT !.step = step, !.row = row]],
           UNCHANGED <<served, rows, history>>, request[r].step \notin {"idle", "current"},
           step \in {"insert", "update", "store", "explain"}, row <= Len(rows),
           step = "insert" => rows = <<>>,
           step # "insert" => row # 0,
           step = "update" => request[r].current # 0,
           step \in {"store", "explain"} /\ request[r].current # 0 /\ OneAtATime
              => rows[row] = request[r].current
    PROVE  IInv'
<1> DEFINE q == [request[r] EXCEPT !.step = step, !.row = row]
<1>1. /\ q \in RequestState /\ q.step = step /\ q.row = row
      /\ q.current = request[r].current /\ q.scored = request[r].scored
  BY Holds DEF RequestState
<1>2. request' = [request EXCEPT ![r] = q]
  OBVIOUS
<1> HIDE DEF q
<1>3. crashes' \in 0..MaxCrashes /\ overlapped' \in BOOLEAN /\ overlapped' = overlapped
  BY DEF IInv, TypeInv, history
<1>4. /\ q.scored <= champion /\ q.current <= champion /\ (q.current # 0 => q.scored <= q.current)
      /\ q.step # "idle" /\ q.step # "current" /\ (q.step = "update" => q.current # 0)
      /\ q.row <= Len(rows) /\ (q.step \in {"update", "store", "explain"} => q.row # 0)
  BY <1>1, Holds DEF RequestFits
<1>5. ~overlapped => (q.current # 0 =>
         /\ \A i \in DOMAIN rows : rows[i] <= q.current
         /\ q.step \in {"store", "explain"} => rows[q.row] = q.current)
  BY <1>1, Holds DEF OneAtATime
<1> QED BY <1>1, <1>2, <1>3, <1>4, <1>5, ReadKeepsInv

LEMMA QueryRowKeepsInv ==
    ASSUME IInv, NEW r \in Requests, QueryRow(r)
    PROVE  IInv'
<1>1. /\ request[r] \in RequestState /\ request[r].step = "query" /\ request[r].row \in Nat
      /\ request[r].row <= Len(rows) /\ UNCHANGED <<served, rows, history>>
      /\ Len(rows) \in Nat /\ DOMAIN rows = 1..Len(rows)
  BY Holds, RowFacts DEF QueryRow, RequestFits, IInv
<1>2. CASE rows = <<>>
  <2> DEFINE q == [request[r] EXCEPT !.step = "insert"]
  <2>1. q = [request[r] EXCEPT !.step = "insert", !.row = request[r].row]
    BY <1>1 DEF RequestState
  <2>2. request' = [request EXCEPT ![r] = [request[r] EXCEPT !.step = "insert", !.row = request[r].row]]
    <3>1. request' = [request EXCEPT ![r] = q]
      BY <1>2 DEF QueryRow
    <3> QED BY <2>1, <3>1
  <2> HIDE DEF q
  <2> QED BY <1>1, <1>2, <2>2, MoveKeepsInv DEF Steps
<1>3. CASE rows # <<>>
  <2>1. PICK i \in DOMAIN rows :
           request' = [request EXCEPT ![r].step = IF Disagrees(r, rows[i]) THEN "update" ELSE "store",
                                      ![r].row = i]
    BY <1>3 DEF QueryRow
  <2> DEFINE step == IF Disagrees(r, rows[i]) THEN "update" ELSE "store"
  <2>2. request' = [request EXCEPT ![r] = [request[r] EXCEPT !.step = step, !.row = i]]
    BY <2>1 DEF IInv, TypeInv
  <2>3. step = "update" => request[r].current # 0
    BY DEF Disagrees
  <2>4. step = "store" /\ request[r].current # 0 => rows[i] = request[r].current
    BY DEF Disagrees
  <2>5. step \in {"update", "store"}
    OBVIOUS
  <2> HIDE DEF step
  <2>6. i \in Nat /\ i <= Len(rows) /\ i # 0
    BY <1>1
  <2> QED BY <1>1, <2>2, <2>3, <2>4, <2>5, <2>6, MoveKeepsInv DEF Steps
<1> QED BY <1>2, <1>3

LEMMA StoreKeepsInv ==
    ASSUME IInv, NEW r \in Requests, Store(r)
    PROVE  IInv'
<1>1. /\ request[r] \in RequestState /\ request[r].step = "store" /\ request[r].row \in Nat
      /\ request[r].row <= Len(rows) /\ request[r].row # 0 /\ UNCHANGED <<served, rows, history>>
  BY Holds DEF Store, RequestFits
<1>2. [request[r] EXCEPT !.step = "explain"] = [request[r] EXCEPT !.step = "explain", !.row = request[r].row]
  BY <1>1 DEF RequestState
<1>3. request' = [request EXCEPT ![r] = [request[r] EXCEPT !.step = "explain", !.row = request[r].row]]
  BY <1>2 DEF Store
<1>4. request[r].current # 0 /\ OneAtATime => rows[request[r].row] = request[r].current
  BY <1>1 DEF OneAtATime
<1> QED BY <1>1, <1>3, <1>4, MoveKeepsInv DEF Steps

\* The request is over, or gone.
LEMMA EndKeepsInv ==
    ASSUME IInv, NEW r \in Requests, request' = [request EXCEPT ![r] = Idle], request[r].step # "idle",
           UNCHANGED <<served, rows, overlapped>>, crashes' \in 0..MaxCrashes
    PROVE  IInv'
<1>1. overlapped' \in BOOLEAN /\ overlapped' = overlapped
  BY DEF IInv, TypeInv
<1>2. 0 <= Len(rows) /\ 0 <= champion
  BY RowFacts DEF IInv
<1>3. PICK q \in RequestState : q = Idle
  BY IdleRequest
<1>4. q.step = "idle" /\ q.current = 0 /\ q.scored = 0 /\ q.row = 0
  BY <1>3, IdleRequest
<1>5. request' = [request EXCEPT ![r] = q]
  BY <1>3
<1>6. ~overlapped' => ~overlapped
  BY <1>1
<1>7. UNCHANGED <<served, rows>>
  OBVIOUS
<1>8. /\ q.step \notin {"insert", "update", "store", "explain", "current"}
      /\ q.row <= Len(rows) /\ q.scored <= champion /\ q.current <= champion
  BY <1>2, <1>4
<1>9. q.step = "idle" => q = Idle
  BY <1>3
<1> HIDE DEF Idle
<1> QED BY <1>1, <1>4, <1>5, <1>6, <1>7, <1>8, <1>9, ReadKeepsInv

\* A row gets the version the request has read.
LEMMA UpdateRowKeepsInv ==
    ASSUME IInv, NEW r \in Requests, UpdateRow(r)
    PROVE  IInv'
<1> DEFINE q == [request[r] EXCEPT !.step = "store"]
           row == request[r].row  new == request[r].current
<1>1. /\ TypeInv /\ request[r] \in RequestState /\ RequestFits(request[r]) /\ request[r].step = "update"
      /\ new \in Versions /\ new \in Nat /\ row \in DOMAIN rows /\ rows \in Seq(Versions) /\ row # 0
      /\ DOMAIN rows = 1..Len(rows) /\ Len(rows) \in Nat
  BY Holds, RowFacts DEF UpdateRow, IInv, TypeInv, RequestState, RequestFits
<1>2. /\ q \in RequestState /\ q.step = "store" /\ q.row = row /\ q.current = new
      /\ q.scored = request[r].scored
  BY <1>1 DEF RequestState, Steps
<1>3. request' = [request EXCEPT ![r] = q] /\ UNCHANGED <<served, crashes, overlapped>>
  BY DEF UpdateRow, history
<1>4. /\ rows' \in Seq(Versions) /\ Len(rows') = Len(rows) /\ DOMAIN rows' = DOMAIN rows
      /\ \A i \in DOMAIN rows : rows'[i] = IF i = row THEN new ELSE rows[i]
  <2>1. rows' = [rows EXCEPT ![row] = new]
    BY DEF UpdateRow
  <2> QED BY <1>1, <2>1, ExceptSeq
<1> HIDE DEF q
<1>5. RowsAreBounded'
  BY <1>1, <1>2, <1>3, <1>4, StepKeepsBound
<1>6. \A i \in DOMAIN rows' : rows'[i] <= champion
  BY <1>1, <1>4 DEF TypeInv, RequestFits
<1>7. /\ q.row <= Len(rows') /\ q.scored <= champion /\ q.current <= champion
      /\ q.current # 0 => q.scored <= q.current
  BY <1>1, <1>2, <1>4 DEF RequestFits
<1>8. crashes' \in 0..MaxCrashes /\ overlapped' \in BOOLEAN
  BY <1>1, <1>3 DEF TypeInv
<1>9. TypeInv'
  <2>1. Len(rows') >= Len(rows) /\ Len(rows') \in Nat
    BY <1>1, <1>4
  <2> QED BY <1>1, <1>2, <1>3, <1>4, <1>5, <1>6, <1>7, <1>8, <2>1, StepKeepsType
<1>10. ASSUME ~overlapped' PROVE OneAtATime'
  <2>1. OneAtATime
    BY <1>3, <1>10 DEF IInv
  <2>2. \A i \in DOMAIN rows' : rows'[i] <= q.current
    BY <1>1, <1>2, <1>4, <2>1 DEF OneAtATime, RequestFits
  <2>3. rows'[q.row] = q.current
    BY <1>1, <1>2, <1>4
  <2> QED BY <1>1, <1>2, <1>3, <2>1, <2>2, <2>3, StepKeepsOrder
<1> QED BY <1>9, <1>10 DEF IInv

LEMMA InsertRowKeepsInv ==
    ASSUME IInv, NEW r \in Requests, InsertRow(r)
    PROVE  IInv'
<1> DEFINE q == [request[r] EXCEPT !.step = "store", !.row = Len(rows')]
           new == request[r].current
<1>1. /\ TypeInv /\ request[r] \in RequestState /\ RequestFits(request[r]) /\ request[r].step = "insert"
      /\ new \in Versions /\ new \in Nat /\ rows \in Seq(Versions)
      /\ DOMAIN rows = 1..Len(rows) /\ Len(rows) \in Nat
  BY Holds, RowFacts DEF InsertRow, IInv, TypeInv, RequestState
<1>2. /\ rows' \in Seq(Versions) /\ Len(rows') = Len(rows) + 1
      /\ rows'[Len(rows')] = new /\ \A i \in 1..Len(rows) : rows'[i] = rows[i]
  <2>1. rows' = Append(rows, new)
    BY DEF InsertRow
  <2> HIDE DEF new
  <2> QED BY <1>1, <2>1, AppendProperties
<1>3. Len(rows') \in Nat /\ DOMAIN rows' = 1..Len(rows') /\ Len(rows') # 0
  BY <1>1, <1>2, LenProperties
<1>4. /\ q \in RequestState /\ q.step = "store" /\ q.row = Len(rows') /\ q.current = new
      /\ q.scored = request[r].scored
  BY <1>1, <1>3 DEF RequestState, Steps
<1>5. request' = [request EXCEPT ![r] = q] /\ UNCHANGED <<served, crashes, overlapped>>
  BY DEF InsertRow, history, IInv, TypeInv
<1> HIDE DEF q
<1>6. RowsAreBounded'
  BY <1>1, <1>2, <1>4, <1>5, InsertKeepsBound
<1>7. \A i \in DOMAIN rows' : (i \in DOMAIN rows /\ rows'[i] = rows[i]) \/ (i = Len(rows') /\ rows'[i] = new)
  BY <1>1, <1>2, <1>3
<1>8. \A i \in DOMAIN rows' : rows'[i] <= champion
  BY <1>1, <1>7 DEF TypeInv, RequestFits
<1>9. /\ q.row <= Len(rows') /\ q.scored <= champion /\ q.current <= champion
      /\ q.current # 0 => q.scored <= q.current
  BY <1>1, <1>3, <1>4 DEF RequestFits
<1>10. crashes' \in 0..MaxCrashes /\ overlapped' \in BOOLEAN /\ Len(rows') >= Len(rows)
  BY <1>1, <1>2, <1>5 DEF TypeInv
<1>11. TypeInv'
  BY <1>1, <1>2, <1>3, <1>4, <1>5, <1>6, <1>8, <1>9, <1>10, StepKeepsType
<1>12. ASSUME ~overlapped' PROVE OneAtATime'
  <2>1. OneAtATime
    BY <1>5, <1>12 DEF IInv
  <2>2. q.current # 0 => \A i \in DOMAIN rows' : rows'[i] <= q.current
    BY <1>1, <1>4, <1>7, <2>1 DEF OneAtATime
  <2>3. rows'[q.row] = q.current
    BY <1>2, <1>4
  <2> QED BY <1>1, <1>4, <1>5, <2>1, <2>2, <2>3, StepKeepsOrder
<1> QED BY <1>11, <1>12 DEF IInv

-----------------------------------------------------------------------------
(***************************************************************************)
(* The theorems.                                                           *)
(***************************************************************************)
LEMMA InitIInv == Init => IInv
<1> SUFFICES ASSUME Init PROVE IInv
  OBVIOUS
<1>1. /\ champion = 0 /\ readable = TRUE /\ rows = <<>> /\ crashes = 0 /\ overlapped = FALSE
      /\ request = [r \in Requests |-> Idle] /\ rows \in Seq(Versions) /\ Len(rows) = 0 /\ DOMAIN rows = {}
  BY EmptySeq DEF Init
<1>2. RowsAreBounded
  <2>1. {r \in Requests : request[r].step = "insert"} = {}
    BY <1>1, IdleRequest
  <2>2. Cardinality({r \in Requests : request[r].step = "insert"}) = 0
    BY <2>1, FS_EmptySet
  <2> QED BY <1>1, <2>2, InsertingIsFinite DEF RowsAreBounded
<1>3. \A r \in Requests : RequestFits(request[r])
  BY <1>1, IdleRequest DEF RequestFits
<1>4. champion \in Versions /\ crashes \in 0..MaxCrashes
  BY <1>1, PredictionAssumption DEF Versions
<1>5. readable \in BOOLEAN /\ overlapped \in BOOLEAN
  BY <1>1
<1>6. TypeInv
  BY <1>1, <1>2, <1>3, <1>4, <1>5, IdleRequest DEF TypeInv
<1>7. OneAtATime
  BY <1>1, IdleRequest DEF OneAtATime
<1> QED BY <1>6, <1>7 DEF IInv

\* A promotion moves the champion ahead of everything that was read before, an
\* outage changes nothing of it.
LEMMA PromoteKeepsInv ==
    ASSUME IInv, UNCHANGED <<rows, request, history>>, champion' \in Versions, champion <= champion',
           readable' \in BOOLEAN
    PROVE  IInv'
<1>1. TypeInv /\ champion \in Nat /\ champion' \in Nat /\ crashes' = crashes /\ overlapped' = overlapped
  BY RowFacts DEF IInv, history
<1>2. ASSUME NEW r \in Requests PROVE RequestFits(request[r])'
  BY <1>1, Holds DEF RequestFits
<1>3. \A i \in DOMAIN rows : rows[i] <= champion'
  BY <1>1, RowFacts DEF TypeInv
<1>4. RowsAreBounded'
  BY <1>1 DEF TypeInv, RowsAreBounded
<1>5. TypeInv'
  BY <1>1, <1>2, <1>3, <1>4 DEF TypeInv
<1>6. OneAtATime => OneAtATime'
  BY DEF OneAtATime
<1> QED BY <1>1, <1>5, <1>6 DEF IInv

LEMMA IInvStep == IInv /\ [Next]_vars => IInv'
<1> SUFFICES ASSUME IInv, [Next]_vars PROVE IInv'
  OBVIOUS
<1>1. CASE Promote
  <2>1. champion' \in Versions /\ champion <= champion'
    BY <1>1, RowFacts DEF Promote, IInv, TypeInv, Versions
  <2> QED BY <1>1, <2>1, PromoteKeepsInv DEF Promote, IInv, TypeInv
<1>2. CASE ChangeReadable
  <2>1. champion' \in Versions /\ champion <= champion' /\ readable' \in BOOLEAN
    BY <1>2, RowFacts DEF ChangeReadable, IInv, TypeInv
  <2> QED BY <1>2, <2>1, PromoteKeepsInv DEF ChangeReadable
<1>3. ASSUME NEW r \in Requests, Score(r) PROVE IInv'
  BY <1>3, ScoreKeepsInv
<1>4. ASSUME NEW r \in Requests, Step(r) PROVE IInv'
  <2>1. CASE Explain(r)
    <3>1. crashes' \in 0..MaxCrashes
      BY <2>1 DEF Explain, history, IInv, TypeInv
    <3> QED BY <2>1, <3>1, EndKeepsInv DEF Explain, history
  <2> QED BY <1>4, <2>1, GetCurrentKeepsInv, QueryRowKeepsInv, UpdateRowKeepsInv, InsertRowKeepsInv,
             StoreKeepsInv DEF Step
<1>5. ASSUME NEW r \in Requests, Crash(r) PROVE IInv'
  <2>1. crashes' \in 0..MaxCrashes
    BY <1>5, PredictionAssumption DEF Crash, IInv, TypeInv
  <2> QED BY <1>5, <2>1, EndKeepsInv DEF Crash
<1>6. CASE UNCHANGED vars
  <2>1. champion' \in Versions /\ champion <= champion' /\ readable' \in BOOLEAN
    BY <1>6, RowFacts DEF vars, served, IInv, TypeInv
  <2> QED BY <1>6, <2>1, PromoteKeepsInv DEF vars, served
<1> QED BY <1>1, <1>2, <1>3, <1>4, <1>5, <1>6 DEF Next

LEMMA Invariance == Spec => []IInv
BY InitIInv, IInvStep, PTL DEF Spec

\* The table and the requests are always in one of the states they are meant to be
\* in; however many first requests meet, there are no more production rows than
\* requests.
THEOREM TypeCorrect == Spec => []TypeOK
<1>1. IInv => TypeOK
  <2> SUFFICES ASSUME IInv PROVE TypeOK
    OBVIOUS
  <2>1. request \in [Requests -> [step : Steps, scored : Versions, current : Versions, row : 0..Len(rows)]]
    <3>1. ASSUME NEW r \in Requests
          PROVE  request[r] \in [step : Steps, scored : Versions, current : Versions, row : 0..Len(rows)]
      BY Holds, RowFacts DEF IInv, RequestState, RequestFits
    <3> QED BY <3>1 DEF IInv, TypeInv
  <2>2. \A r \in Requests : request[r].step \in {"update", "store", "explain"}
                               => request[r].row \in DOMAIN rows
    BY Holds DEF RequestFits
  <2> QED BY <2>1, <2>2 DEF IInv, TypeInv, TypeOK
<1> QED BY <1>1, Invariance, PTL

\* A caller whose request read the registry twice is never told a version older
\* than the one that scored, unless two requests were at work at once: the row it
\* reads for its answer still says what it found or wrote there itself.
THEOREM AnswerNoOlder == Spec => []AnswerIsNoOlder
<1>1. IInv => AnswerIsNoOlder
  <2> SUFFICES ASSUME IInv, ~overlapped, NEW r \in Requests,
                      request[r].step = "explain", request[r].current # 0
               PROVE  Told(r) >= request[r].scored
    BY DEF AnswerIsNoOlder
  <2>1. rows[request[r].row] = request[r].current
    BY DEF IInv, OneAtATime
  <2>2. request[r].scored <= request[r].current
    BY Holds DEF RequestFits
  <2> QED BY <2>1, <2>2, Holds DEF Told
<1> QED BY <1>1, Invariance, PTL

\* No row of model_versions ever goes back to an older version while requests
\* follow each other, over any promotion, outage and crash.
THEOREM RowsMoveForward == Spec => RowMovesForward
<1>1. IInv /\ [Next]_vars => [~overlapped' => \A i \in DOMAIN rows : rows'[i] >= rows[i]]_vars
  <2> SUFFICES ASSUME IInv, Next, ~overlapped', NEW i \in DOMAIN rows PROVE rows'[i] >= rows[i]
    OBVIOUS
  <2>1. rows[i] \in Nat /\ DOMAIN rows = 1..Len(rows) /\ rows \in Seq(Versions)
    BY RowFacts DEF IInv, TypeInv
  <2>2. ASSUME UNCHANGED rows PROVE rows'[i] >= rows[i]
    BY <2>1, <2>2
  <2>3. ASSUME NEW r \in Requests, UpdateRow(r) PROVE rows'[i] >= rows[i]
    <3>1. ~overlapped /\ OneAtATime
      BY <2>3 DEF UpdateRow, history, IInv
    <3>2. request[r].current # 0 /\ rows[i] <= request[r].current /\ request[r].current \in Nat
      BY <2>3, <3>1, Holds DEF UpdateRow, OneAtATime, RequestFits
    <3>3. rows' = [rows EXCEPT ![request[r].row] = request[r].current]
      BY <2>3 DEF UpdateRow
    <3>4. rows'[i] = IF i = request[r].row THEN request[r].current ELSE rows[i]
      BY <2>1, <3>3
    <3> QED BY <2>1, <3>2, <3>4
  <2>4. ASSUME NEW r \in Requests, InsertRow(r) PROVE rows'[i] >= rows[i]
    <3>1. rows' = Append(rows, request[r].current) /\ request[r].current \in Versions
      BY <2>4, Holds DEF InsertRow, RequestState
    <3>2. rows'[i] = rows[i]
      BY <2>1, <3>1, AppendProperties
    <3> QED BY <2>1, <3>2
  <2> QED BY <2>2, <2>3, <2>4
          DEF Next, Promote, ChangeReadable, Score, Step, Crash, GetCurrent, QueryRow, Store, Explain
<1> QED BY <1>1, Invariance, PTL DEF Spec, RowMovesForward
=============================================================================
