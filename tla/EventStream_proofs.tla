------------------------- MODULE EventStream_proofs --------------------------
(***************************************************************************)
(* Theorems about EventStream and the switch it extends                    *)
(* (SimulationControl), for any finite set of sessions, any consumers, any *)
(* faults and any bounds.                                                  *)
(***************************************************************************)
EXTENDS EventStream, FiniteSetTheorems, SequenceTheorems, WellFoundedInduction, TLAPS

-----------------------------------------------------------------------------
(***************************************************************************)
(* Lists of offsets.                                                       *)
(***************************************************************************)

\* A list in the order of the hub that names nothing twice.
Rising(s) == \A i, j \in DOMAIN s : i < j => s[i] < s[j]

\* What an Append does.
LEMMA AppendedList ==
    ASSUME NEW S, NEW s \in Seq(S), NEW e \in S
    PROVE  /\ Append(s, e) \in Seq(S)
           /\ DOMAIN Append(s, e) = DOMAIN s \cup {Len(s) + 1}
           /\ Len(s) + 1 \notin DOMAIN s
           /\ \A i \in DOMAIN s : Append(s, e)[i] = s[i] /\ i < Len(s) + 1
           /\ Append(s, e)[Len(s) + 1] = e
           /\ ToSet(Append(s, e)) = ToSet(s) \cup {e}
<1>1. /\ Append(s, e) \in Seq(S) /\ Len(Append(s, e)) = Len(s) + 1
      /\ \A i \in 1..Len(s) : Append(s, e)[i] = s[i]
      /\ Append(s, e)[Len(s) + 1] = e
  BY AppendProperties
<1>2. Len(s) \in Nat /\ DOMAIN s = 1..Len(s) /\ DOMAIN Append(s, e) = 1..Len(Append(s, e))
  BY <1>1, LenProperties
<1>3. DOMAIN Append(s, e) = DOMAIN s \cup {Len(s) + 1} /\ Len(s) + 1 \notin DOMAIN s
  BY <1>1, <1>2
<1>4. ToSet(Append(s, e)) = ToSet(s) \cup {e}
  BY <1>1, <1>2, <1>3 DEF ToSet
<1> QED BY <1>1, <1>2, <1>3, <1>4

\* An event behind all the others may be appended.
LEMMA AppendRising ==
    ASSUME NEW s \in Seq(Nat), NEW e \in Nat, Rising(s), \A x \in ToSet(s) : x < e
    PROVE  Rising(Append(s, e))
<1>1. /\ DOMAIN Append(s, e) = DOMAIN s \cup {Len(s) + 1}
      /\ \A i \in DOMAIN s : Append(s, e)[i] = s[i] /\ i < Len(s) + 1
      /\ Append(s, e)[Len(s) + 1] = e
  BY AppendedList
<1>2. DOMAIN s = 1..Len(s) /\ Len(s) \in Nat /\ \A i \in DOMAIN s : s[i] \in Nat /\ s[i] < e
  BY LenProperties, ElementOfSeq DEF ToSet
<1>3. ASSUME NEW i \in DOMAIN Append(s, e), NEW j \in DOMAIN Append(s, e), i < j
      PROVE  Append(s, e)[i] < Append(s, e)[j]
  <2>1. CASE j \in DOMAIN s
    <3>1. i \in DOMAIN s
      BY <1>1, <1>2, <1>3, <2>1
    <3> QED BY <3>1, <2>1, <1>1, <1>3 DEF Rising
  <2>2. CASE j = Len(s) + 1
    <3>1. i \in DOMAIN s
      BY <1>1, <1>2, <1>3, <2>2
    <3> QED BY <3>1, <2>2, <1>1, <1>2
  <2> QED BY <2>1, <2>2, <1>1
<1> QED BY <1>3 DEF Rising

\* What is left of a batch.
LEMMA TailOfBatch ==
    ASSUME NEW s \in Seq(Nat), s # <<>>
    PROVE  /\ Tail(s) \in Seq(Nat)
           /\ Head(s) = s[1] /\ 1 \in DOMAIN s /\ Head(s) \in Nat
           /\ Len(Tail(s)) = Len(s) - 1 /\ Len(s) \in Nat \ {0}
           /\ \A i \in DOMAIN Tail(s) : i + 1 \in DOMAIN s /\ Tail(s)[i] = s[i + 1] /\ i \in Nat \ {0}
           /\ ToSet(s) = ToSet(Tail(s)) \cup {Head(s)}
           /\ Rising(s) => Rising(Tail(s)) /\ \A e \in ToSet(Tail(s)) : Head(s) < e
<1>1. /\ Head(s) \in Nat /\ Tail(s) \in Seq(Nat) /\ Len(Tail(s)) = Len(s) - 1
      /\ \A i \in 1..Len(Tail(s)) : Tail(s)[i] = s[i + 1]
  BY HeadTailProperties
<1>2. /\ Len(s) \in Nat \ {0} /\ DOMAIN s = 1..Len(s)
      /\ DOMAIN Tail(s) = 1..Len(Tail(s)) /\ Len(Tail(s)) \in Nat
  BY <1>1, LenProperties, EmptySeq
<1>3. Head(s) = s[1] /\ 1 \in DOMAIN s
  BY <1>2
<1>4. \A i \in DOMAIN Tail(s) : i + 1 \in DOMAIN s /\ Tail(s)[i] = s[i + 1] /\ i \in Nat \ {0}
  BY <1>1, <1>2
<1>5. ToSet(s) = ToSet(Tail(s)) \cup {Head(s)}
  <2>1. ASSUME NEW i \in DOMAIN s PROVE s[i] \in ToSet(Tail(s)) \cup {Head(s)}
    <3>1. CASE i = 1
      BY <3>1, <1>3
    <3>2. CASE i # 1
      <4>1. i - 1 \in DOMAIN Tail(s)
        BY <3>2, <1>1, <1>2
      <4>2. Tail(s)[i - 1] = s[i]
        BY <4>1, <1>2, <1>4
      <4> QED BY <4>1, <4>2 DEF ToSet
    <3> QED BY <3>1, <3>2
  <2> QED BY <2>1, <1>3, <1>4 DEF ToSet
<1>6. ASSUME Rising(s) PROVE Rising(Tail(s)) /\ \A e \in ToSet(Tail(s)) : Head(s) < e
  <2>1. \A i, j \in DOMAIN Tail(s) : i < j => Tail(s)[i] < Tail(s)[j]
    BY <1>4, <1>6 DEF Rising
  <2>2. \A i \in DOMAIN Tail(s) : Head(s) < Tail(s)[i]
    BY <1>3, <1>4, <1>6 DEF Rising
  <2> QED BY <2>1, <2>2 DEF Rising, ToSet
<1> QED BY <1>1, <1>2, <1>3, <1>4, <1>5, <1>6

-----------------------------------------------------------------------------
(***************************************************************************)
(* The loop over the events behind a position.                             *)
(***************************************************************************)

\* Sets of numbers have a least element.
LEMMA HasLeast ==
    ASSUME NEW S, S \subseteq Nat, S # {}
    PROVE  \E m \in S : \A k \in S : m <= k
<1> DEFINE R == {ss \in Nat \X Nat : ss[1] < ss[2]}
<1>1. IsWellFoundedOn(R, Nat)
  BY NatLessThanWellFounded DEF OpToRel
<1>2. PICK m \in S : \A k \in S : ~(<<k, m>> \in R)
  BY <1>1, WFMin
<1>3. ASSUME NEW k \in S PROVE m <= k
  <2>1. k \in Nat /\ m \in Nat /\ ~(k < m)
    BY <1>2
  <2> QED BY <2>1
<1> QED BY <1>3

Loop(f, from, n) ==
    f = [i \in 0..n |->
           IF i = 0 THEN <<>>
           ELSE IF Parses(hub[from + i]) THEN Append(f[i - 1], from + i)
           ELSE f[i - 1]]

LEMMA LoopExists ==
    ASSUME NEW from \in Nat, NEW n \in Nat
    PROVE  \E f : Loop(f, from, n)
<1> DEFINE Without == {k \in Nat : ~ \E f : Loop(f, from, k)}
<1>1. SUFFICES Without = {}
  OBVIOUS
<1>2. SUFFICES ASSUME Without # {} PROVE FALSE
  OBVIOUS
<1>3. PICK m \in Without : \A k \in Without : m <= k
  BY <1>2, HasLeast
<1>4. CASE m = 0
  <2>1. Loop([i \in 0..0 |-> <<>>], from, 0)
    BY DEF Loop
  <2> QED BY <2>1, <1>4
<1>5. CASE m # 0
  <2>1. m - 1 \in Nat /\ m - 1 \notin Without
    BY <1>3, <1>5
  <2>2. PICK g : Loop(g, from, m - 1)
    BY <2>1
  <2> DEFINE f == [i \in 0..m |->
                     IF i # m THEN g[i]
                     ELSE IF Parses(hub[from + m]) THEN Append(g[m - 1], from + m)
                     ELSE g[m - 1]]
  <2>3. ASSUME NEW i \in 0..m
        PROVE  f[i] = IF i = 0 THEN <<>>
                      ELSE IF Parses(hub[from + i]) THEN Append(f[i - 1], from + i)
                      ELSE f[i - 1]
    <3>1. CASE i = m
      <4>1. m - 1 \in 0..m /\ m - 1 # m
        BY <1>5
      <4>2. f[m - 1] = g[m - 1]
        BY <4>1
      <4> QED BY <4>2, <3>1, <1>5
    <3>2. CASE i # m
      <4>1. i \in 0..(m - 1)
        BY <3>2
      <4>2. g[i] = IF i = 0 THEN <<>>
                   ELSE IF Parses(hub[from + i]) THEN Append(g[i - 1], from + i)
                   ELSE g[i - 1]
        BY <2>2, <4>1 DEF Loop
      <4>3. f[i] = g[i]
        BY <3>2
      <4>4. i # 0 => f[i - 1] = g[i - 1]
        <5>1. i # 0 => i - 1 \in 0..m /\ i - 1 # m
          BY <4>1
        <5> QED BY <5>1
      <4> QED BY <4>2, <4>3, <4>4
    <3> QED BY <3>1, <3>2
  <2>4. Loop(f, from, m)
    BY <2>3 DEF Loop
  <2> QED BY <2>4
<1> QED BY <1>4, <1>5

\* What the loop has buffered after n events: some of them, in their order.
Buffered(s, from, n) ==
    /\ s \in Seq(Nat)
    /\ Len(s) <= n
    /\ Rising(s)
    /\ \A e \in ToSet(s) : from < e /\ e <= from + n

LEMMA LoopStep ==
    ASSUME NEW from \in Nat, NEW i \in Nat, NEW s, Buffered(s, from, i)
    PROVE  Buffered(s, from, i + 1) /\ Buffered(Append(s, from + (i + 1)), from, i + 1)
<1>1. s \in Seq(Nat) /\ Len(s) \in Nat /\ ToSet(s) \subseteq Nat
  BY LenProperties, ElementOfSeq DEF Buffered, ToSet
<1>2. Buffered(s, from, i + 1)
  BY <1>1 DEF Buffered
<1> DEFINE e == from + (i + 1)
<1>3. e \in Nat /\ from < e /\ \A x \in ToSet(s) : x < e /\ x <= e
  BY <1>1 DEF Buffered
<1> HIDE DEF e
<1>4. Append(s, e) \in Seq(Nat) /\ ToSet(Append(s, e)) = ToSet(s) \cup {e}
  BY <1>1, <1>3, AppendedList
<1>5. Len(Append(s, e)) = Len(s) + 1
  BY <1>1, <1>3, AppendProperties
<1>6. Len(Append(s, e)) <= i + 1
  BY <1>1, <1>5 DEF Buffered
<1>7. Rising(Append(s, e))
  BY <1>1, <1>3, AppendRising DEF Buffered
<1>8. \A x \in ToSet(Append(s, e)) : from < x /\ x <= e
  BY <1>3, <1>4 DEF Buffered
<1>9. Buffered(Append(s, e), from, i + 1)
  BY <1>4, <1>6, <1>7, <1>8 DEF Buffered, e
<1> QED BY <1>2, <1>9 DEF e

\* The batch that ReceiveBatch takes.
LEMMA ParsedIsBuffered ==
    ASSUME NEW from \in Nat, NEW n \in Nat
    PROVE  Buffered(Parsed(from, n), from, n)
<1> DEFINE f == CHOOSE g : Loop(g, from, n)
           Wrong == {k \in 0..n : ~ Buffered(f[k], from, k)}
<1>1. Loop(f, from, n)
  BY LoopExists
<1>2. Parsed(from, n) = f[n]
  BY DEF Parsed, Loop
<1> HIDE DEF f
<1>3. Wrong = {}
  <2>1. SUFFICES ASSUME Wrong # {} PROVE FALSE
    OBVIOUS
  <2>2. PICK m \in Wrong : \A k \in Wrong : m <= k
    <3>1. Wrong \subseteq Nat
      OBVIOUS
    <3> HIDE DEF Wrong
    <3> QED BY <2>1, <3>1, HasLeast
  <2>3. CASE m = 0
    <3>1. f[0] = <<>>
      BY <1>1 DEF Loop
    <3>2. Buffered(<<>>, from, 0)
      <4>1. <<>> \in Seq(Nat) /\ Len(<<>>) = 0 /\ DOMAIN <<>> = {}
        BY EmptySeq
      <4> QED BY <4>1 DEF Buffered, Rising, ToSet
    <3> QED BY <3>1, <3>2, <2>3
  <2>4. CASE m # 0
    <3>1. m - 1 \in 0..n /\ m - 1 \notin Wrong /\ m - 1 \in Nat /\ (m - 1) + 1 = m
      BY <2>2, <2>4
    <3>2. Buffered(f[m - 1], from, m - 1)
      BY <3>1
    <3>3. Buffered(f[m - 1], from, m) /\ Buffered(Append(f[m - 1], from + m), from, m)
      BY <3>1, <3>2, LoopStep
    <3>4. f[m] = IF Parses(hub[from + m]) THEN Append(f[m - 1], from + m) ELSE f[m - 1]
      BY <1>1, <2>4 DEF Loop
    <3> QED BY <3>3, <3>4
  <2> QED BY <2>3, <2>4
<1> QED BY <1>2, <1>3

-----------------------------------------------------------------------------
(***************************************************************************)
(* The switch: what its sessions hold.                                     *)
(***************************************************************************)
SessionState ==
    [step : {"idle", "query", "missing", "refresh", "loaded"}, wish : Wishes,
     row : Nat, seen : BOOLEAN]

\* The row that a session has in hand exists.
SessionFits(ses) ==
    /\ ses.row <= Len(rows)
    /\ ses.step = "idle" => ses = Idle
    /\ ses.step \in {"refresh", "loaded"} => ses.row # 0

\* The sessions that are about to insert a row.
Missing == {s \in Sessions : session[s].step = "missing"}

\* Who inserts had found the table empty, and finds a row ever after.
RowsAreFew == Len(rows) + Cardinality(Missing) <= Cardinality(Sessions)

ControlInv ==
    /\ rows \in Seq(BOOLEAN)
    /\ session \in [Sessions -> SessionState]
    /\ asked \in 0..MaxCommands
    /\ last \in {"none", "start", "stop"}
    /\ raced \in BOOLEAN
    /\ \A s \in Sessions : SessionFits(session[s])
    /\ RowsAreFew

\* Every action of EventStream is, for the switch, a statement of one session or
\* nothing at all.
Statement(s) ==
    \/ \E wish \in Wishes : (wish = "look" \/ asked < MaxCommands) /\ Open(s, wish)
    \/ Query(s)
    \/ Insert(s)
    \/ Refresh(s)
    \/ Command(s)
    \/ Answer(s)
    \/ SessionFails(s)

ControlNext == UNCHANGED controlVars \/ \E s \in Sessions : Statement(s)

LEMMA IdleState == Idle \in SessionState /\ Idle.step = "idle" /\ Idle.wish = "look" /\ Idle.row = 0
  BY DEF Idle, SessionState, Wishes

\* A step that leaves the number of rows alone and gives s a session that fits.
LEMMA TurnKeepsInv ==
    ASSUME ControlInv, NEW s \in Sessions, NEW ses \in SessionState,
           session' = [session EXCEPT ![s] = ses],
           rows' \in Seq(BOOLEAN), Len(rows') = Len(rows), SessionFits(ses),
           ses.step = "missing" => rows = <<>>,
           asked' \in 0..MaxCommands, last' \in {"none", "start", "stop"}, raced' \in BOOLEAN
    PROVE  ControlInv'
<1>1. session' \in [Sessions -> SessionState]
  BY DEF ControlInv
<1>2. ASSUME NEW t \in Sessions PROVE SessionFits(session[t])'
  BY DEF ControlInv, SessionFits
<1>3. RowsAreFew'
  <2>1. IsFiniteSet(Sessions) /\ Missing \subseteq Sessions /\ Missing' \subseteq Sessions
    BY SimulationControlAssumption DEF Missing
  <2>2. CASE rows = <<>>
    <3>1. Len(rows') = 0
      BY <2>2, EmptySeq
    <3>2. Cardinality(Missing') <= Cardinality(Sessions) /\ Cardinality(Missing') \in Nat
      BY <2>1, FS_Subset, FS_CardinalityType
    <3> QED BY <3>1, <3>2 DEF RowsAreFew
  <2>3. CASE rows # <<>>
    <3>1. Missing' \subseteq Missing
      BY <2>3 DEF Missing, ControlInv
    <3>2. IsFiniteSet(Missing)
      BY <2>1, FS_Subset
    <3>3. Cardinality(Missing') <= Cardinality(Missing)
      BY <3>1, <3>2, FS_Subset
    <3>4. /\ Cardinality(Missing') \in Nat /\ Cardinality(Missing) \in Nat
          /\ Cardinality(Sessions) \in Nat /\ Len(rows) \in Nat
      BY <3>1, <3>2, <2>1, FS_Subset, FS_CardinalityType, LenProperties DEF ControlInv
    <3> QED BY <3>3, <3>4 DEF RowsAreFew, ControlInv
  <2> QED BY <2>2, <2>3
<1> QED BY <1>1, <1>2, <1>3 DEF ControlInv

LEMMA InsertKeepsInv ==
    ASSUME ControlInv, NEW s \in Sessions, Insert(s)
    PROVE  ControlInv'
<1> DEFINE ses == [session[s] EXCEPT !.step = "refresh", !.row = Len(rows) + 1]
<1>1. /\ rows \in Seq(BOOLEAN) /\ Len(rows) \in Nat /\ session[s] \in SessionState
      /\ session[s].step = "missing" /\ rows' = Append(rows, FALSE)
      /\ session' = [session EXCEPT ![s] = ses]
  BY LenProperties DEF ControlInv, Insert, Turn
<1>2. rows' \in Seq(BOOLEAN) /\ Len(rows') = Len(rows) + 1
  BY <1>1, AppendProperties
<1>3. ses \in SessionState /\ ses.step = "refresh" /\ ses.row = Len(rows')
  <2>1. Len(rows) + 1 \in Nat /\ session[s] \in SessionState
    BY <1>1
  <2>2. ses \in SessionState /\ ses.step = "refresh" /\ ses.row = Len(rows) + 1
    BY ONLY <2>1 DEF SessionState
  <2> QED BY <2>2, <1>2
<1> HIDE DEF ses
<1>4. session' \in [Sessions -> SessionState]
  BY <1>1, <1>3 DEF ControlInv
<1>5. ASSUME NEW t \in Sessions PROVE SessionFits(session[t])'
  <2>1. CASE t = s
    BY <1>1, <1>2, <1>3, <2>1 DEF SessionFits, ControlInv
  <2>2. CASE t # s
    <3>1. session'[t] = session[t] /\ SessionFits(session[t]) /\ session[t].row \in Nat
      BY <1>1, <2>2 DEF ControlInv, SessionState
    <3> QED BY <3>1, <1>1, <1>2 DEF SessionFits
  <2> QED BY <2>1, <2>2
<1>6. RowsAreFew'
  <2>1. Missing' = Missing \ {s}
    BY <1>1, <1>3 DEF Missing, ControlInv
  <2>2. s \in Missing /\ IsFiniteSet(Sessions) /\ Missing \subseteq Sessions
    BY <1>1, SimulationControlAssumption DEF Missing
  <2>3. IsFiniteSet(Missing)
    BY <2>2, FS_Subset
  <2>4. Cardinality(Missing') = IF s \in Missing THEN Cardinality(Missing) - 1 ELSE Cardinality(Missing)
    BY <2>1, <2>3, FS_RemoveElement
  <2>5. Cardinality(Missing) \in Nat /\ Cardinality(Sessions) \in Nat
    BY <2>2, <2>3, FS_CardinalityType
  <2> QED BY <1>1, <1>2, <2>2, <2>4, <2>5 DEF RowsAreFew, ControlInv
<1> QED BY <1>2, <1>4, <1>5, <1>6 DEF ControlInv, Insert

LEMMA ControlInvStep ==
    ASSUME ControlInv, ControlNext
    PROVE  ControlInv'
<1>1. CASE UNCHANGED controlVars
  BY <1>1 DEF ControlInv, SessionFits, RowsAreFew, Missing, controlVars
<1>2. CASE \E s \in Sessions : Statement(s)
  <2> PICK s \in Sessions : Statement(s)
    BY <1>2
  <2>1. /\ session[s] \in SessionState /\ SessionFits(session[s])
        /\ rows \in Seq(BOOLEAN) /\ Len(rows) \in Nat /\ DOMAIN rows = 1..Len(rows)
        /\ \A r \in DOMAIN rows : rows[r] \in BOOLEAN
        /\ MaxCommands \in Nat
    BY LenProperties, ElementOfSeq, SimulationControlAssumption DEF ControlInv
  <2>2. ASSUME NEW wish \in Wishes, wish = "look" \/ asked < MaxCommands, Open(s, wish)
        PROVE  ControlInv'
    <3> DEFINE ses == [Idle EXCEPT !.step = "query", !.wish = wish]
    <3>1. ses \in SessionState /\ ses.step = "query" /\ ses.row = 0
      BY DEF Idle, SessionState
    <3>2. session' = [session EXCEPT ![s] = ses] /\ rows' = rows /\ last' = last
      BY <2>2 DEF Open, Turn
    <3>3. asked' \in 0..MaxCommands
      BY <2>1, <2>2 DEF Open, ControlInv
    <3>4. raced' \in BOOLEAN
      BY <2>2 DEF Open, ControlInv
    <3> HIDE DEF ses
    <3>5. SessionFits(ses)
      BY <2>1, <3>1 DEF SessionFits
    <3> QED BY <3>1, <3>2, <3>3, <3>4, <3>5, TurnKeepsInv DEF ControlInv
  <2>3. CASE Query(s)
    <3>1. raced' \in BOOLEAN /\ asked' = asked /\ last' = last /\ rows' = rows
      BY <2>3 DEF Query, ControlInv, Inserting
    <3>2. CASE rows = <<>> /\ Turn(s, [session[s] EXCEPT !.step = "missing"])
      <4> DEFINE ses == [session[s] EXCEPT !.step = "missing"]
      <4>1. ses \in SessionState /\ ses.step = "missing" /\ SessionFits(ses)
        BY <2>1 DEF SessionState, SessionFits
      <4>2. session' = [session EXCEPT ![s] = ses]
        BY <3>2 DEF Turn
      <4> HIDE DEF ses
      <4> QED BY <3>1, <3>2, <4>1, <4>2, TurnKeepsInv DEF ControlInv
    <3>3. ASSUME NEW r \in DOMAIN rows,
                 Turn(s, [session[s] EXCEPT !.step = "loaded", !.row = r, !.seen = rows[r]])
          PROVE  ControlInv'
      <4> DEFINE ses == [session[s] EXCEPT !.step = "loaded", !.row = r, !.seen = rows[r]]
      <4>1. ses \in SessionState /\ ses.step = "loaded" /\ ses.row = r
        <5>1. r \in Nat /\ rows[r] \in BOOLEAN
          BY <2>1
        <5> QED BY <5>1, <2>1 DEF SessionState
      <4>2. session' = [session EXCEPT ![s] = ses]
        BY <3>3 DEF Turn
      <4> HIDE DEF ses
      <4>3. SessionFits(ses)
        BY <2>1, <4>1 DEF SessionFits
      <4> QED BY <3>1, <4>1, <4>2, <4>3, TurnKeepsInv DEF ControlInv
    <3> QED BY <2>3, <3>2, <3>3 DEF Query
  <2>4. CASE Insert(s)
    BY <2>4, InsertKeepsInv
  <2>5. CASE Refresh(s)
    <3> DEFINE ses == [session[s] EXCEPT !.step = "loaded", !.seen = rows[session[s].row]]
    <3>1. session[s].step = "refresh" /\ session[s].row \in DOMAIN rows
      BY <2>1, <2>5 DEF Refresh, SessionState, SessionFits
    <3>2. ses \in SessionState /\ ses.step = "loaded" /\ ses.row = session[s].row
      BY <2>1, <3>1 DEF SessionState
    <3>3. session' = [session EXCEPT ![s] = ses] /\ UNCHANGED <<rows, asked, last, raced>>
      BY <2>5 DEF Turn, Refresh
    <3> HIDE DEF ses
    <3>4. SessionFits(ses)
      BY <2>1, <3>1, <3>2 DEF SessionFits
    <3> QED BY <3>2, <3>3, <3>4, TurnKeepsInv DEF ControlInv
  <2>6. CASE Command(s)
    <3>1. session[s].step = "loaded" /\ session[s].row \in 1..Len(rows)
      BY <2>1, <2>6 DEF Command, SessionState, SessionFits
    <3>2. Sent(s) \in BOOLEAN
      BY <2>1, <3>1 DEF Sent
    <3>3. rows' \in Seq(BOOLEAN) /\ Len(rows') = Len(rows)
      BY <2>1, <2>6, <3>1, <3>2, ExceptSeq DEF Command
    <3>4. SessionFits(Idle)
      BY <2>1 DEF SessionFits, Idle
    <3>5. last' \in {"none", "start", "stop"}
      BY <2>1, <2>6 DEF Command, SessionState, Wishes
    <3> QED BY <2>6, <3>3, <3>4, <3>5, IdleState, TurnKeepsInv DEF Command, Turn, ControlInv
  <2>7. CASE Answer(s) \/ SessionFails(s)
    <3>1. session' = [session EXCEPT ![s] = Idle] /\ UNCHANGED <<rows, asked, last, raced>>
      BY <2>7 DEF Answer, SessionFails, Turn
    <3>2. SessionFits(Idle)
      BY <2>1 DEF SessionFits, Idle
    <3> QED BY <3>1, <3>2, IdleState, TurnKeepsInv DEF ControlInv
  <2> QED BY <2>2, <2>3, <2>4, <2>5, <2>6, <2>7 DEF Statement
<1> QED BY <1>1, <1>2 DEF ControlNext

-----------------------------------------------------------------------------
(***************************************************************************)
(* Commands take effect.                                                   *)
(***************************************************************************)

\* While nothing raced: one command at most is under way and it has loaded what
\* the row still says, one session at most is about to insert and does so into
\* an empty table, and the row says what the last command asked for.
Unraced ==
    /\ \A s, t \in Sessions : s # t => session[s].wish = "look" \/ session[t].wish = "look"
    /\ \A s, t \in Sessions : s # t => session[s].step # "missing" \/ session[t].step # "missing"
    /\ \A s \in Sessions : session[s].step = "missing" => rows = <<>>
    /\ Len(rows) <= 1
    /\ \A s \in Sessions :
          session[s].step = "loaded" /\ session[s].wish # "look" => session[s].seen = rows[session[s].row]
    /\ last # "none" => Len(rows) = 1 /\ rows[1] = (last = "start")

CommandInv ==
    /\ rows = <<>> => last = "none"
    /\ ~raced => Unraced

LEMMA OneRow ==
    ASSUME ControlInv
    PROVE  /\ Len(rows) \in Nat /\ DOMAIN rows = 1..Len(rows)
           /\ rows = <<>> <=> Len(rows) = 0
           /\ \A r \in DOMAIN rows : rows[r] \in BOOLEAN
           /\ \A b \in BOOLEAN : Len(rows) = 1 /\ rows[1] = b => rows = <<b>>
<1>1. rows \in Seq(BOOLEAN)
  BY DEF ControlInv
<1>2. Len(rows) \in Nat /\ DOMAIN rows = 1..Len(rows) /\ (rows = <<>> <=> Len(rows) = 0)
  BY <1>1, LenProperties, EmptySeq
<1>3. \A r \in DOMAIN rows : rows[r] \in BOOLEAN
  BY <1>1, <1>2, ElementOfSeq
<1>4. ASSUME NEW b \in BOOLEAN, Len(rows) = 1, rows[1] = b PROVE rows = <<b>>
  <2>1. <<b>> \in Seq(BOOLEAN) /\ Len(<<b>>) = 1 /\ <<b>>[1] = b
    OBVIOUS
  <2> QED BY <1>1, <1>4, <2>1, SeqEqual
<1> QED BY <1>2, <1>3, <1>4

LEMMA UnracedSaysLast ==
    ASSUME ControlInv, CommandInv
    PROVE  CommandsTakeEffect
<1>1. ASSUME ~raced, last # "none" PROVE rows = <<last = "start">>
  BY <1>1, OneRow DEF CommandInv, Unraced
<1>2. ASSUME ~raced PROVE Len(rows) <= 1
  BY <1>2 DEF CommandInv, Unraced
<1> QED BY <1>1, <1>2 DEF CommandsTakeEffect

\* A session that only looks, or that stops looking, races with nobody.
LEMMA LookKeepsUnraced ==
    ASSUME ControlInv, Unraced, NEW s \in Sessions, NEW ses \in SessionState,
           session' = [session EXCEPT ![s] = ses], rows' = rows, last' = last,
           ses.wish # "look" => \A t \in Sessions \ {s} : session[t].wish = "look",
           ses.step = "missing" => rows = <<>> /\ \A t \in Sessions \ {s} : session[t].step # "missing",
           ses.step = "loaded" /\ ses.wish # "look" => ses.seen = rows[ses.row]
    PROVE  Unraced'
<1>1. session'[s] = ses /\ \A t \in Sessions : t # s => session'[t] = session[t]
  BY DEF ControlInv
<1>2. ASSUME NEW t \in Sessions, NEW u \in Sessions, t # u
      PROVE  session'[t].wish = "look" \/ session'[u].wish = "look"
  <2>1. CASE t # s /\ u # s
    BY <2>1, <1>1, <1>2 DEF Unraced
  <2>2. CASE t = s
    BY <2>2, <1>1, <1>2
  <2>3. CASE u = s
    BY <2>3, <1>1, <1>2
  <2> QED BY <2>1, <2>2, <2>3
<1>3. ASSUME NEW t \in Sessions, NEW u \in Sessions, t # u
      PROVE  session'[t].step # "missing" \/ session'[u].step # "missing"
  <2>1. CASE t # s /\ u # s
    BY <2>1, <1>1, <1>3 DEF Unraced
  <2>2. CASE t = s
    BY <2>2, <1>1, <1>3
  <2>3. CASE u = s
    BY <2>3, <1>1, <1>3
  <2> QED BY <2>1, <2>2, <2>3
<1>4. ASSUME NEW t \in Sessions
      PROVE  /\ session'[t].step = "missing" => rows' = <<>>
             /\ session'[t].step = "loaded" /\ session'[t].wish # "look"
                   => session'[t].seen = rows'[session'[t].row]
  <2>1. CASE t = s
    BY <2>1, <1>1
  <2>2. CASE t # s
    BY <2>2, <1>1 DEF Unraced
  <2> QED BY <2>1, <2>2
<1> QED BY <1>2, <1>3, <1>4 DEF Unraced

LEMMA OpenKeepsUnraced ==
    ASSUME ControlInv, CommandInv, NEW s \in Sessions, NEW wish \in Wishes, Open(s, wish)
    PROVE  CommandInv'
<1> DEFINE ses == [Idle EXCEPT !.step = "query", !.wish = wish]
<1>1. ses \in SessionState /\ ses.step = "query" /\ ses.wish = wish
  BY DEF Idle, SessionState
<1>2. session' = [session EXCEPT ![s] = ses] /\ rows' = rows /\ last' = last
  BY DEF Open, Turn
<1>3. ~raced' => ~raced /\ (wish # "look" => ~Commanding(s))
  BY DEF Open, ControlInv
<1> HIDE DEF ses
<1>4. ASSUME ~raced' PROVE Unraced'
  <2>1. ses.wish # "look" => \A t \in Sessions \ {s} : session[t].wish = "look"
    BY <1>1, <1>3, <1>4 DEF Commanding
  <2> QED BY <1>1, <1>2, <1>3, <1>4, <2>1, LookKeepsUnraced DEF CommandInv
<1> QED BY <1>2, <1>4 DEF CommandInv

LEMMA QueryKeepsUnraced ==
    ASSUME ControlInv, CommandInv, NEW s \in Sessions, Query(s)
    PROVE  CommandInv'
<1>1. rows' = rows /\ last' = last /\ session[s] \in SessionState
  BY DEF Query, ControlInv
<1>2. CASE rows = <<>> /\ Turn(s, [session[s] EXCEPT !.step = "missing"]) /\ raced' = (raced \/ Inserting(s))
  <2> DEFINE ses == [session[s] EXCEPT !.step = "missing"]
  <2>1. ses \in SessionState /\ ses.step = "missing" /\ ses.wish = session[s].wish
    BY <1>1 DEF SessionState
  <2>2. session' = [session EXCEPT ![s] = ses]
    BY <1>2 DEF Turn
  <2> HIDE DEF ses
  <2>3. ASSUME ~raced' PROVE Unraced'
    <3>1. Unraced /\ \A t \in Sessions \ {s} : session[t].step # "missing"
      BY <1>2, <2>3 DEF CommandInv, Inserting
    <3>2. ses.wish # "look" => \A t \in Sessions \ {s} : session[t].wish = "look"
      BY <2>1, <3>1 DEF Unraced
    <3> QED BY <1>1, <1>2, <2>1, <2>2, <3>1, <3>2, LookKeepsUnraced
  <2> QED BY <1>1, <2>3 DEF CommandInv
<1>3. ASSUME NEW r \in DOMAIN rows, raced' = raced,
             Turn(s, [session[s] EXCEPT !.step = "loaded", !.row = r, !.seen = rows[r]])
      PROVE  CommandInv'
  <2> DEFINE ses == [session[s] EXCEPT !.step = "loaded", !.row = r, !.seen = rows[r]]
  <2>1. r \in Nat /\ rows[r] \in BOOLEAN
    BY OneRow
  <2>2. /\ ses \in SessionState /\ ses.step = "loaded" /\ ses.wish = session[s].wish
        /\ ses.seen = rows[ses.row]
    BY <1>1, <2>1 DEF SessionState
  <2>3. session' = [session EXCEPT ![s] = ses]
    BY <1>3 DEF Turn
  <2> HIDE DEF ses
  <2>4. ASSUME ~raced' PROVE Unraced'
    <3>1. Unraced
      BY <1>3, <2>4 DEF CommandInv
    <3>2. ses.wish # "look" => \A t \in Sessions \ {s} : session[t].wish = "look"
      BY <2>2, <3>1 DEF Unraced
    <3> QED BY <1>1, <2>2, <2>3, <3>1, <3>2, LookKeepsUnraced
  <2> QED BY <1>1, <2>4 DEF CommandInv
<1> QED BY <1>2, <1>3 DEF Query

LEMMA InsertKeepsUnraced ==
    ASSUME ControlInv, CommandInv, NEW s \in Sessions, Insert(s)
    PROVE  CommandInv'
<1> DEFINE ses == [session[s] EXCEPT !.step = "refresh", !.row = Len(rows) + 1]
<1>1. /\ session[s] \in SessionState /\ session[s].step = "missing" /\ rows' = Append(rows, FALSE)
      /\ session' = [session EXCEPT ![s] = ses] /\ last' = last /\ raced' = raced
      /\ rows \in Seq(BOOLEAN)
  BY DEF ControlInv, Insert, Turn
<1>2. Len(rows') = Len(rows) + 1 /\ rows' # <<>>
  <2>1. rows' \in Seq(BOOLEAN) /\ Len(rows') = Len(rows) + 1
    BY <1>1, AppendProperties
  <2>2. Len(rows') # 0
    BY <2>1, OneRow
  <2> QED BY <2>1, <2>2, EmptySeq
<1>3. ses.step = "refresh" /\ ses.wish = session[s].wish
  BY <1>1 DEF SessionState
<1> HIDE DEF ses
<1>4. session'[s] = ses /\ \A t \in Sessions : t # s => session'[t] = session[t]
  BY <1>1 DEF ControlInv
<1>5. ASSUME ~raced' PROVE Unraced'
  <2>1. Unraced /\ rows = <<>> /\ last = "none" /\ Len(rows) = 0
    BY <1>1, <1>5, OneRow DEF CommandInv, Unraced
  <2>2. ASSUME NEW t \in Sessions PROVE session'[t].step # "missing"
    <3>1. CASE t = s
      BY <1>3, <1>4, <3>1
    <3>2. CASE t # s
      BY <1>1, <1>4, <2>1, <3>2 DEF Unraced
    <3> QED BY <3>1, <3>2
  <2>3. ASSUME NEW t \in Sessions, NEW u \in Sessions, t # u
        PROVE  session'[t].wish = "look" \/ session'[u].wish = "look"
    <3>1. session'[t].wish = session[t].wish /\ session'[u].wish = session[u].wish
      BY <1>3, <1>4
    <3> QED BY <3>1, <2>1, <2>3 DEF Unraced
  <2>4. ASSUME NEW t \in Sessions PROVE session'[t].step # "loaded"
    <3>1. CASE t = s
      BY <1>3, <1>4, <3>1
    <3>2. CASE t # s
      \* What is loaded has a row, and the table is empty.
      <4>1. session[t] \in SessionState /\ SessionFits(session[t])
        BY DEF ControlInv
      <4>2. session[t].step # "loaded"
        BY <2>1, <4>1 DEF SessionFits, SessionState
      <4> QED BY <4>2, <3>2, <1>4
    <3> QED BY <3>1, <3>2
  <2>5. Len(rows') <= 1
    BY <1>2, <2>1
  <2> QED BY <1>1, <2>1, <2>2, <2>3, <2>4, <2>5 DEF Unraced
<1> QED BY <1>2, <1>5 DEF CommandInv

LEMMA CommandKeepsUnraced ==
    ASSUME ControlInv, CommandInv, NEW s \in Sessions, Command(s)
    PROVE  CommandInv'
<1> DEFINE row == session[s].row
<1>1. /\ session[s] \in SessionState /\ session[s].step = "loaded" /\ session[s].wish \in {"start", "stop"}
      /\ rows \in Seq(BOOLEAN) /\ row \in 1..Len(rows)
      /\ rows' = [rows EXCEPT ![row] = Sent(s)]
      /\ session' = [session EXCEPT ![s] = Idle] /\ last' = session[s].wish /\ raced' = raced
  <2>1. session[s] \in SessionState /\ SessionFits(session[s]) /\ rows \in Seq(BOOLEAN)
    BY DEF ControlInv
  <2>2. session[s].wish \in {"start", "stop"} /\ session[s].step = "loaded"
    BY <2>1 DEF Command, SessionState, Wishes
  <2>3. row \in 1..Len(rows)
    BY <2>1, <2>2, LenProperties DEF SessionFits, SessionState
  <2> QED BY <2>1, <2>2, <2>3 DEF Command, Turn
<1>2. Sent(s) \in BOOLEAN
  BY <1>1, OneRow DEF Sent
<1>3. Len(rows') = Len(rows) /\ rows'[row] = Sent(s) /\ rows' \in Seq(BOOLEAN)
  BY <1>1, <1>2, ExceptSeq
<1>4. rows' # <<>> /\ Len(rows) # 0
  BY <1>1, <1>3, OneRow, EmptySeq
<1>5. session'[s] = Idle /\ \A t \in Sessions : t # s => session'[t] = session[t]
  BY <1>1 DEF ControlInv
<1>6. ASSUME ~raced' PROVE Unraced'
  <2>1. Unraced /\ Len(rows) = 1 /\ row = 1
    BY <1>1, <1>4, <1>6, OneRow DEF CommandInv, Unraced
  <2>2. Sent(s) = (session[s].wish = "start")
    <3>1. session[s].seen = rows[row]
      BY <1>1, <2>1 DEF Unraced
    <3>2. rows[row] \in BOOLEAN
      BY <1>1, OneRow
    <3> QED BY <3>1, <3>2 DEF Sent
  <2>3. ASSUME NEW t \in Sessions PROVE session'[t].wish = "look" /\ session'[t].step # "missing"
    <3>1. CASE t = s
      BY <1>5, <3>1, IdleState
    <3>2. CASE t # s
      BY <1>1, <1>4, <1>5, <2>1, <3>2, EmptySeq DEF Unraced
    <3> QED BY <3>1, <3>2
  <2>4. Len(rows') = 1 /\ rows'[1] = (last' = "start")
    BY <1>1, <1>3, <2>1, <2>2
  <2> QED BY <2>3, <2>4 DEF Unraced
<1> QED BY <1>4, <1>6 DEF CommandInv

LEMMA CommandInvStep ==
    ASSUME ControlInv, CommandInv, ControlNext
    PROVE  CommandInv'
<1>1. CASE UNCHANGED controlVars
  BY <1>1 DEF CommandInv, Unraced, controlVars
<1>2. CASE \E s \in Sessions : Statement(s)
  <2> PICK s \in Sessions : Statement(s)
    BY <1>2
  <2>1. ASSUME NEW wish \in Wishes, Open(s, wish) PROVE CommandInv'
    BY <2>1, OpenKeepsUnraced
  <2>2. CASE Query(s)
    BY <2>2, QueryKeepsUnraced
  <2>3. CASE Insert(s)
    BY <2>3, InsertKeepsUnraced
  <2>4. CASE Refresh(s)
    <3> DEFINE ses == [session[s] EXCEPT !.step = "loaded", !.seen = rows[session[s].row]]
    <3>1. session[s] \in SessionState /\ session[s].row \in DOMAIN rows
      BY <2>4, OneRow DEF ControlInv, SessionFits, SessionState, Refresh
    <3>2. rows[session[s].row] \in BOOLEAN
      BY <3>1, OneRow
    <3>3. /\ ses \in SessionState /\ ses.step = "loaded" /\ ses.wish = session[s].wish
          /\ ses.seen = rows[ses.row]
      BY <3>1, <3>2 DEF SessionState
    <3>4. session' = [session EXCEPT ![s] = ses] /\ UNCHANGED <<rows, last, raced>>
      BY <2>4 DEF Refresh, Turn
    <3> HIDE DEF ses
    <3>5. ASSUME ~raced' PROVE Unraced'
      <4>1. Unraced
        BY <3>4, <3>5 DEF CommandInv
      <4>2. ses.wish # "look" => \A t \in Sessions \ {s} : session[t].wish = "look"
        BY <3>3, <4>1 DEF Unraced
      <4> QED BY <3>3, <3>4, <4>1, <4>2, LookKeepsUnraced
    <3> QED BY <3>4, <3>5 DEF CommandInv
  <2>5. CASE Command(s)
    BY <2>5, CommandKeepsUnraced
  <2>6. CASE Answer(s) \/ SessionFails(s)
    <3>1. session' = [session EXCEPT ![s] = Idle] /\ UNCHANGED <<rows, last, raced>>
      BY <2>6 DEF Answer, SessionFails, Turn
    <3> QED BY <3>1, IdleState, LookKeepsUnraced DEF CommandInv
  <2> QED BY <2>1, <2>2, <2>3, <2>4, <2>5, <2>6 DEF Statement
<1> QED BY <1>1, <1>2 DEF ControlNext

-----------------------------------------------------------------------------
(***************************************************************************)
(* The consumers.  Nothing changes their records except that one consumer  *)
(* c gets a record job, a list st of stored events and a set rc of         *)
(* received events; what has to hold of these three is Held.               *)
(***************************************************************************)
Job ==
    [step : {"closed", "receiving", "ingesting", "down"}, position : Nat, batch : Seq(Nat),
     db : {"clean", "broken"}]

\* A consumer stores in the order of the hub: a new connection starts behind
\* everything it stored, and a batch lies behind it, in order.  A session whose
\* flush failed has no event left that could be stored.
Held(job, st, rc) ==
    /\ job \in Job
    /\ st \in Seq(Offsets)
    /\ rc \in SUBSET Offsets
    /\ job.position <= Len(hub)
    /\ \A e \in ToSet(job.batch) : e <= Len(hub)
    /\ \A e \in ToSet(st) : e <= Len(hub)
    /\ \A e \in rc : e <= Len(hub)
    /\ job.step = "ingesting" <=> job.batch # <<>>
    /\ Rising(job.batch)
    /\ Rising(st)
    /\ job.step = "receiving" => \A x \in ToSet(st) : x <= job.position
    /\ \A e \in ToSet(job.batch) : e = Own \/ \A x \in ToSet(st) : x < e
    /\ job.db = "broken" => rc \cap ToSet(job.batch) = {}

\* BatchIsIsolated, for one consumer.
Isolated(job, st, rc) ==
    \A e \in rc \ ToSet(job.batch) : Accepts(Kind(e)) => e \in ToSet(st)

StreamInv ==
    /\ source \in [Workers -> {"eventhub", "simulation"}]
    /\ hub \in Seq(Kinds)
    /\ Len(hub) <= MaxEvents
    /\ consumer \in [Consumers -> Job]
    /\ stored \in [Consumers -> Seq(Offsets)]
    /\ received \in [Consumers -> SUBSET Offsets]
    /\ \A c \in Consumers : Held(consumer[c], stored[c], received[c])
    /\ \A w \in Workers : Isolated(consumer[w], stored[w], received[w])

LEMMA HubIsBounded ==
    ASSUME StreamInv
    PROVE  /\ Len(hub) \in Nat /\ DOMAIN hub = 1..Len(hub) /\ MaxEvents \in Nat
           /\ \A e \in Nat : e <= Len(hub) /\ e # Own => e \in Offsets
BY LenProperties, EventStreamAssumption DEF StreamInv, Offsets, Own

\* The only change of a step of c.
Turned(c, job, st, rc) ==
    /\ consumer' = [consumer EXCEPT ![c] = job]
    /\ stored' = [stored EXCEPT ![c] = st]
    /\ received' = [received EXCEPT ![c] = rc]

LEMMA TurnKeepsStream ==
    ASSUME StreamInv, NEW c \in Consumers, NEW job, NEW st, NEW rc,
           Held(job, st, rc), c \in Workers => Isolated(job, st, rc),
           Turned(c, job, st, rc), UNCHANGED <<source, hub>>
    PROVE  StreamInv'
<1>1. job \in Job /\ st \in Seq(Offsets) /\ rc \in SUBSET Offsets
  BY DEF Held
<1>2. /\ consumer' \in [Consumers -> Job] /\ stored' \in [Consumers -> Seq(Offsets)]
      /\ received' \in [Consumers -> SUBSET Offsets]
  BY <1>1 DEF Turned, StreamInv
<1>3. ASSUME NEW d \in Consumers
      PROVE  /\ d = c => consumer'[d] = job /\ stored'[d] = st /\ received'[d] = rc
             /\ d # c => consumer'[d] = consumer[d] /\ stored'[d] = stored[d] /\ received'[d] = received[d]
  BY DEF Turned, StreamInv
<1>4. ASSUME NEW d \in Consumers PROVE Held(consumer[d], stored[d], received[d])'
  <2>1. Held(consumer'[d], stored'[d], received'[d])
    BY <1>3 DEF StreamInv
  <2> QED BY <2>1 DEF Held
<1>5. ASSUME NEW w \in Workers PROVE Isolated(consumer[w], stored[w], received[w])'
  <2>1. w \in Consumers
    BY DEF Consumers
  <2>2. Isolated(consumer'[w], stored'[w], received'[w])
    BY <1>3, <2>1 DEF StreamInv
  <2> QED BY <2>2 DEF Isolated, Kind
<1> QED BY <1>2, <1>4, <1>5 DEF StreamInv

\* The rest of a batch may be given up at any time, and the record of a consumer
\* that is through is one of these two.
Through == {Closed, [Closed EXCEPT !.step = "down"]}

LEMMA GiveUpHolds ==
    ASSUME StreamInv, NEW job, NEW st, NEW rc, NEW rest, Held(job, st, rc), rest \subseteq rc, NEW end \in Through
    PROVE  /\ Held(end, st, rest)
           /\ Isolated(job, st, rc) => Isolated(end, st, rc \ ToSet(job.batch))
<1>1. <<>> \in Seq(Nat) /\ DOMAIN <<>> = {}
  BY EmptySeq
<1>2. ToSet(<<>>) = {} /\ Rising(<<>>)
  BY <1>1 DEF ToSet, Rising
<1>3. end \in Job /\ end.position = 0 /\ end.batch = <<>> /\ end.step \in {"closed", "down"} /\ end.db = "clean"
  <2>1. CASE end = Closed
    BY <1>1, <2>1 DEF Closed, Job
  <2>2. CASE end = [Closed EXCEPT !.step = "down"]
    BY <1>1, <2>2 DEF Closed, Job
  <2> QED BY <2>1, <2>2 DEF Through
<1>4. end.position <= Len(hub)
  BY <1>3, HubIsBounded
<1>5. rest \in SUBSET Offsets /\ \A e \in rest : e <= Len(hub)
  BY DEF Held
<1>6. Held(end, st, rest)
  BY <1>2, <1>3, <1>4, <1>5 DEF Held
<1>7. ASSUME Isolated(job, st, rc) PROVE Isolated(end, st, rc \ ToSet(job.batch))
  BY <1>7 DEF Isolated
<1> QED BY <1>6, <1>7

\* What is left of job after the event at the head of its batch.
RestOf(job, db) ==
    IF Tail(job.batch) = <<>> THEN Closed ELSE [job EXCEPT !.batch = Tail(@), !.db = db]

LEMMA RestOfBatch ==
    ASSUME NEW job \in Job, job.step = "ingesting", job.batch # <<>>, NEW db \in {"clean", "broken"}
    PROVE  /\ RestOf(job, db) \in Job
           /\ RestOf(job, db).batch = Tail(job.batch)
           /\ RestOf(job, db).step = (IF Tail(job.batch) = <<>> THEN "closed" ELSE "ingesting")
           /\ RestOf(job, db).db \in {"clean", db}
           /\ RestOf(job, db).position \in {0, job.position}
<1>1. job.batch \in Seq(Nat) /\ Tail(job.batch) \in Seq(Nat) /\ <<>> \in Seq(Nat)
  BY TailOfBatch, EmptySeq DEF Job
<1>2. CASE Tail(job.batch) = <<>>
  BY <1>1, <1>2 DEF RestOf, Closed, Job
<1>3. CASE Tail(job.batch) # <<>>
  BY <1>1, <1>3 DEF RestOf, Job
<1> QED BY <1>2, <1>3

\* The event at the head is over: dropped, or stored if it is one of the hub.
LEMMA NextEventHolds ==
    ASSUME StreamInv, NEW job, NEW st, NEW rc, Held(job, st, rc), job.step = "ingesting",
           NEW rest, rest \subseteq rc, NEW db \in {"clean", "broken"},
           db = "broken" => rest \cap ToSet(job.batch) = {}
    PROVE  /\ Held(RestOf(job, db), st, rest)
           /\ Head(job.batch) # Own =>
                 /\ Append(st, Head(job.batch)) \in Seq(Offsets)
                 /\ Held(RestOf(job, db), Append(st, Head(job.batch)), rest)
<1> DEFINE e == Head(job.batch)  tail == Tail(job.batch)  next == RestOf(job, db)
<1>1. /\ job \in Job /\ job.batch \in Seq(Nat) /\ job.batch # <<>> /\ Rising(job.batch)
      /\ st \in Seq(Offsets) /\ Rising(st) /\ job.position \in Nat
  BY DEF Held, Job
<1>2. /\ e \in Nat /\ tail \in Seq(Nat) /\ ToSet(job.batch) = ToSet(tail) \cup {e}
      /\ Rising(tail) /\ \A x \in ToSet(tail) : e < x
  BY <1>1, TailOfBatch
<1>3. /\ next \in Job /\ next.batch = tail /\ next.step = (IF tail = <<>> THEN "closed" ELSE "ingesting")
      /\ next.db \in {"clean", db} /\ next.position \in {0, job.position}
  BY <1>1, RestOfBatch
<1> HIDE DEF e, tail, next
<1>4. next.position <= Len(hub)
  BY <1>1, <1>3, HubIsBounded DEF Held
<1>5. \A x \in ToSet(next.batch) : x <= Len(hub)
  BY <1>2, <1>3 DEF Held
<1>6. rest \in SUBSET Offsets /\ \A x \in rest : x <= Len(hub)
  BY DEF Held
<1>7. next.db = "broken" => rest \cap ToSet(next.batch) = {}
  BY <1>2, <1>3
<1>8. next.step = "ingesting" <=> next.batch # <<>>
  BY <1>3
<1>9. next.step # "receiving"
  BY <1>3
<1>10. Held(next, st, rest)
  <2>1. \A x \in ToSet(next.batch) : x = Own \/ \A y \in ToSet(st) : y < x
    BY <1>2, <1>3 DEF Held
  <2> QED BY <1>1, <1>2, <1>3, <1>4, <1>5, <1>6, <1>7, <1>8, <1>9, <2>1 DEF Held
<1>11. ASSUME e # Own
       PROVE  Append(st, e) \in Seq(Offsets) /\ Held(next, Append(st, e), rest)
  <2>1. e \in ToSet(job.batch) /\ e <= Len(hub) /\ e \in Offsets
    BY <1>2, <1>11, HubIsBounded DEF Held
  <2>2. \A x \in ToSet(st) : x < e
    BY <2>1, <1>11 DEF Held
  <2>3. Append(st, e) \in Seq(Offsets) /\ ToSet(Append(st, e)) = ToSet(st) \cup {e}
    BY <1>1, <2>1, AppendedList
  <2>4. Rising(Append(st, e))
    <3>1. st \in Seq(Nat)
      BY <1>1, EventStreamAssumption, SeqMonotonic DEF Offsets
    <3> QED BY <1>1, <1>2, <2>2, <3>1, AppendRising
  <2>5. \A x \in ToSet(next.batch) : x = Own \/ \A y \in ToSet(Append(st, e)) : y < x
    BY <1>2, <1>3, <2>3 DEF Held
  <2>6. \A x \in ToSet(Append(st, e)) : x <= Len(hub)
    BY <2>1, <2>3 DEF Held
  <2> QED BY <1>2, <1>3, <1>4, <1>5, <1>6, <1>7, <1>8, <1>9, <2>3, <2>4, <2>5, <2>6 DEF Held
<1> QED BY <1>10, <1>11 DEF e, next

-----------------------------------------------------------------------------
(***************************************************************************)
(* The invariant of the consumers is kept.                                 *)
(***************************************************************************)

\* A worker does not leave its gate before its session is closed, and has no
\* session while it is at its source.
GateInv == \A w \in Workers : session[w].step # "idle" => consumer[w].step = "closed"

LEMMA Unturned ==
    ASSUME StreamInv, NEW c \in Consumers
    PROVE  /\ stored = [stored EXCEPT ![c] = stored[c]]
           /\ received = [received EXCEPT ![c] = received[c]]
           /\ consumer[c] \in Job /\ Held(consumer[c], stored[c], received[c])
           /\ consumer[c].batch \in Seq(Nat) /\ consumer[c].position \in Nat
           /\ c \in Workers => Isolated(consumer[c], stored[c], received[c])
           /\ \A e \in received[c] : e # Own
BY EventStreamAssumption DEF StreamInv, Job, Offsets, Own

LEMMA EmptyBatch == ToSet(<<>>) = {} /\ Rising(<<>>) /\ Len(<<>>) = 0
<1>1. DOMAIN <<>> = {}
  BY EmptySeq
<1> QED BY <1>1 DEF ToSet, Rising

LEMMA PublishKeepsStream ==
    ASSUME StreamInv, NEW kind \in Kinds, Publish(kind)
    PROVE  StreamInv'
<1>1. /\ hub' \in Seq(Kinds) /\ Len(hub') = Len(hub) + 1 /\ Len(hub) \in Nat
      /\ \A e \in 1..Len(hub) : hub'[e] = hub[e]
  BY AppendProperties, HubIsBounded DEF StreamInv, Publish
<1>2. Len(hub') <= MaxEvents
  BY <1>1, HubIsBounded DEF Publish
<1>3. UNCHANGED <<source, consumer, stored, received>>
  BY DEF Publish
<1>4. ASSUME NEW c \in Consumers PROVE Held(consumer[c], stored[c], received[c])'
  <2> DEFINE job == consumer[c]  st == stored[c]  rc == received[c]
  <2>1. Held(job, st, rc) /\ job \in Job /\ job.batch \in Seq(Nat) /\ job.position \in Nat
    BY Unturned
  <2>2. \A n \in Nat : n <= Len(hub) => n <= Len(hub')
    BY <1>1
  <2>3. ToSet(job.batch) \subseteq Nat
    BY <2>1, LenProperties, ElementOfSeq DEF ToSet
  <2>4. ToSet(st) \subseteq Nat /\ rc \subseteq Nat
    BY <2>1, LenProperties, ElementOfSeq, EventStreamAssumption DEF ToSet, Held, Offsets
  <2>5. /\ job.position <= Len(hub')
        /\ \A e \in ToSet(job.batch) : e <= Len(hub')
        /\ \A e \in ToSet(st) : e <= Len(hub')
        /\ \A e \in rc : e <= Len(hub')
    BY <2>1, <2>2, <2>3, <2>4 DEF Held
  <2> QED BY <1>3, <2>1, <2>5 DEF Held
<1>5. ASSUME NEW w \in Workers PROVE Isolated(consumer[w], stored[w], received[w])'
  <2>1. w \in Consumers
    BY DEF Consumers
  <2>2. ASSUME NEW e \in received[w] PROVE hub'[e] = hub[e]
    <3>1. e \in Offsets /\ e <= Len(hub)
      BY <2>1, Unturned DEF Held
    <3>2. e \in 1..Len(hub)
      BY <3>1, HubIsBounded DEF Offsets
    <3> QED BY <3>2, <1>1
  <2> QED BY <2>1, <2>2, <1>3, Unturned DEF Isolated, Kind
<1> QED BY <1>1, <1>2, <1>3, <1>4, <1>5 DEF StreamInv

\* A worker that makes up an event, and a consumer that connects.
LEMMA BeginKeepsStream ==
    ASSUME StreamInv, NEW c \in Consumers, consumer[c].step = "closed",
           UNCHANGED <<source, hub, stored, received>>,
           \/ consumer' = [consumer EXCEPT ![c] = [Closed EXCEPT !.step = "ingesting", !.batch = <<Own>>]]
           \/ consumer' = [consumer EXCEPT ![c] =
                              [Closed EXCEPT !.step = "receiving", !.position = StartingPosition(c)]]
    PROVE  StreamInv'
<1> DEFINE st == stored[c]  rc == received[c]
<1>1. /\ Held(consumer[c], st, rc) /\ consumer[c].batch = <<>>
      /\ c \in Workers => Isolated(consumer[c], st, rc)
  BY Unturned DEF Held
<1>2. ASSUME NEW job \in Job, consumer' = [consumer EXCEPT ![c] = job],
             Held(job, st, rc), \A e \in ToSet(job.batch) : e = Own
      PROVE  StreamInv'
  <2>1. c \in Workers => Isolated(job, st, rc)
    BY <1>1, <1>2, EmptyBatch, Unturned DEF Isolated
  <2>2. Turned(c, job, st, rc)
    BY <1>2, Unturned DEF Turned
  <2> QED BY <1>2, <2>1, <2>2, TurnKeepsStream
<1>3. CASE consumer' = [consumer EXCEPT ![c] = [Closed EXCEPT !.step = "ingesting", !.batch = <<Own>>]]
  <2> DEFINE job == [Closed EXCEPT !.step = "ingesting", !.batch = <<Own>>]
  <2>1. <<Own>> \in Seq(Nat) /\ <<Own>> # <<>> /\ DOMAIN <<Own>> = {1} /\ <<Own>>[1] = Own /\ Own = 0
    BY DEF Own
  <2>2. ToSet(<<Own>>) = {Own} /\ Rising(<<Own>>)
    BY <2>1 DEF ToSet, Rising
  <2>3. /\ job \in Job /\ job.step = "ingesting" /\ job.batch = <<Own>> /\ job.position = 0
        /\ job.db = "clean"
    BY <2>1 DEF Closed, Job
  <2> HIDE DEF job
  <2>4. Held(job, st, rc)
    BY <1>1, <2>1, <2>2, <2>3, HubIsBounded DEF Held
  <2> QED BY <1>2, <1>3, <2>2, <2>3, <2>4 DEF job
<1>4. CASE consumer' = [consumer EXCEPT ![c] =
                           [Closed EXCEPT !.step = "receiving", !.position = StartingPosition(c)]]
  <2> DEFINE job == [Closed EXCEPT !.step = "receiving", !.position = StartingPosition(c)]
  <2>1. <<>> \in Seq(Nat) /\ Len(hub) \in Nat
    BY EmptySeq, HubIsBounded
  <2>2. /\ job \in Job /\ job.step = "receiving" /\ job.batch = <<>> /\ job.position = Len(hub)
        /\ job.db = "clean"
    BY <2>1 DEF Closed, Job, StartingPosition
  <2> HIDE DEF job
  <2>3. Held(job, st, rc)
    BY <1>1, <2>1, <2>2, EmptyBatch DEF Held
  <2> QED BY <1>2, <1>4, <2>2, <2>3, EmptyBatch DEF job
<1> QED BY <1>3, <1>4

LEMMA ReceiveKeepsStream ==
    ASSUME StreamInv, NEW c \in Consumers, ReceiveBatch(c)
    PROVE  StreamInv'
<1> DEFINE from == consumer[c].position  st == stored[c]  rc == received[c]
<1>1. /\ Held(consumer[c], st, rc) /\ consumer[c] \in Job /\ from \in Nat
      /\ consumer[c].step = "receiving" /\ consumer[c].batch = <<>>
      /\ c \in Workers => Isolated(consumer[c], st, rc)
  BY Unturned DEF Held, ReceiveBatch
<1>2. PICK n \in 1..MaxBatch :
         /\ from + n <= Len(hub)
         /\ consumer' = [consumer EXCEPT ![c] =
               IF Parsed(from, n) = <<>> THEN [@ EXCEPT !.position = from + n]
               ELSE [Closed EXCEPT !.step = "ingesting", !.batch = Parsed(from, n)]]
         /\ received' = [received EXCEPT ![c] = @ \cup ToSet(Parsed(from, n))]
  BY DEF ReceiveBatch
<1> DEFINE parsed == Parsed(from, n)
           job == IF parsed = <<>> THEN [consumer[c] EXCEPT !.position = from + n]
                  ELSE [Closed EXCEPT !.step = "ingesting", !.batch = parsed]
           taken == rc \cup ToSet(parsed)
<1>3. n \in Nat /\ Buffered(parsed, from, n)
  BY <1>1, EventStreamAssumption, ParsedIsBuffered
<1>4. /\ parsed \in Seq(Nat) /\ Rising(parsed) /\ ToSet(parsed) \subseteq Nat
      /\ \A e \in ToSet(parsed) : from < e /\ e <= Len(hub)
  <2>1. parsed \in Seq(Nat) /\ Rising(parsed) /\ \A e \in ToSet(parsed) : from < e /\ e <= from + n
    BY <1>3 DEF Buffered
  <2>2. ToSet(parsed) \subseteq Nat
    BY <2>1, LenProperties, ElementOfSeq DEF ToSet
  <2>3. \A e \in ToSet(parsed) : e <= Len(hub)
    BY <2>1, <2>2, <1>1, <1>2, <1>3, HubIsBounded
  <2> QED BY <2>1, <2>2, <2>3
<1>5. Turned(c, job, st, taken) /\ UNCHANGED <<source, hub>>
  BY <1>2, Unturned DEF Turned, ReceiveBatch
<1> HIDE DEF parsed
<1>6. /\ job \in Job /\ job.batch = parsed /\ job.db \in {"clean", consumer[c].db}
      /\ job.step = (IF parsed = <<>> THEN "receiving" ELSE "ingesting")
      /\ job.position \in {0, from + n}
      /\ parsed = <<>> => job.position = from + n
  <2>1. from + n \in Nat
    BY <1>1, <1>3
  <2>2. CASE parsed = <<>>
    BY <1>1, <2>1, <2>2 DEF Job
  <2>3. CASE parsed # <<>>
    BY <1>4, <2>3 DEF Closed, Job
  <2> QED BY <2>2, <2>3
<1> HIDE DEF job, taken
<1>7. job.db = "broken" => parsed = <<>>
  <2>1. CASE parsed = <<>>
    BY <2>1
  <2>2. CASE parsed # <<>>
    BY <2>2 DEF Closed, job
  <2> QED BY <2>1, <2>2
<1>8. taken \in SUBSET Offsets /\ \A e \in taken : e <= Len(hub)
  <2>1. \A e \in ToSet(parsed) : e # Own
    BY <1>1, <1>4 DEF Own
  <2> QED BY <1>1, <1>4, <2>1, HubIsBounded DEF Held, taken
<1>9. \A x \in ToSet(st) : x \in Nat /\ x <= from
  <2>1. \A x \in ToSet(st) : x \in Offsets
    BY <1>1, LenProperties, ElementOfSeq DEF Held, ToSet
  <2> QED BY <1>1, <2>1, EventStreamAssumption DEF Held, Offsets
<1>10. Held(job, st, taken)
  <2>1. job.position <= Len(hub)
    BY <1>2, <1>6, HubIsBounded
  <2>2. job.step = "receiving" => \A x \in ToSet(st) : x <= job.position
    BY <1>1, <1>3, <1>6, <1>9
  <2>3. \A e \in ToSet(job.batch) : e = Own \/ \A x \in ToSet(st) : x < e
    BY <1>1, <1>4, <1>6, <1>9
  <2>4. job.db = "broken" => taken \cap ToSet(job.batch) = {}
    BY <1>6, <1>7, EmptyBatch
  <2> QED BY <1>1, <1>4, <1>6, <1>8, <2>1, <2>2, <2>3, <2>4 DEF Held
<1>11. c \in Workers => Isolated(job, st, taken)
  BY <1>1, <1>6, EmptyBatch DEF Isolated, taken
<1> QED BY <1>5, <1>10, <1>11, TurnKeepsStream

\* The consumer gives up what it has in hand and closes or ends.
LEMMA GiveUpKeepsStream ==
    ASSUME StreamInv, NEW c \in Consumers, NEW end \in Through,
           consumer' = [consumer EXCEPT ![c] = end], UNCHANGED <<source, hub, stored>>,
           \/ Lost(c)
           \/ received' = received /\ (c \in Processors \/ consumer[c].batch = <<>>)
    PROVE  StreamInv'
<1> DEFINE job == consumer[c]  st == stored[c]  rc == received[c]
<1>1. Held(job, st, rc) /\ (c \in Workers => Isolated(job, st, rc))
  BY Unturned
<1>2. CASE Lost(c)
  <2> DEFINE kept == rc \ ToSet(job.batch)
  <2>1. Held(end, st, kept) /\ (c \in Workers => Isolated(end, st, kept))
    <3>1. kept \subseteq rc
      OBVIOUS
    <3>2. Held(end, st, kept)
      <4> HIDE DEF kept, job, st, rc
      <4> QED BY <1>1, <3>1, GiveUpHolds
    <3>3. c \in Workers => Isolated(end, st, kept)
      BY <1>1, GiveUpHolds
    <3> QED BY <3>2, <3>3
  <2>2. Turned(c, end, st, kept)
    BY <1>2, Unturned DEF Turned, Lost
  <2> QED BY <2>1, <2>2, TurnKeepsStream
<1>3. CASE received' = received /\ (c \in Processors \/ consumer[c].batch = <<>>)
  <2>1. Held(end, st, rc)
    <3>1. rc \subseteq rc
      OBVIOUS
    <3> HIDE DEF job, st, rc
    <3> QED BY <1>1, <3>1, GiveUpHolds
  <2>2. c \in Workers => Isolated(end, st, rc)
    <3>1. c \in Workers => rc \ ToSet(job.batch) = rc
      BY <1>3, EmptyBatch, SimulationControlAssumption, EventStreamAssumption DEF Sessions
    <3>2. rc \subseteq rc
      OBVIOUS
    <3>3. c \in Workers => Isolated(end, st, rc \ ToSet(job.batch))
      <4> HIDE DEF job, st, rc
      <4> QED BY <1>1, <3>2, GiveUpHolds
    <3> HIDE DEF job, st, rc
    <3> QED BY <3>1, <3>3
  <2>3. Turned(c, end, st, rc)
    BY <1>3, Unturned DEF Turned
  <2> QED BY <2>1, <2>2, <2>3, TurnKeepsStream
<1> QED BY <1>2, <1>3

LEMMA RestIsRestOf ==
    ASSUME NEW c \in Consumers, NEW db, Rest(c, db), StreamInv
    PROVE  consumer' = [consumer EXCEPT ![c] = RestOf(consumer[c], db)]
BY DEF Rest, RestOf, StreamInv

LEMMA StoreKeepsStream ==
    ASSUME StreamInv, NEW c \in Consumers, Store(c)
    PROVE  StreamInv'
<1> DEFINE job == consumer[c]  st == stored[c]  rc == received[c]
           e == Head(job.batch)  next == RestOf(job, "clean")
           new == IF e = Own THEN st ELSE Append(st, e)
<1>1. /\ Held(job, st, rc) /\ job.step = "ingesting" /\ job \in Job
      /\ job.batch \in Seq(Nat) /\ job.batch # <<>>
      /\ c \in Workers => Isolated(job, st, rc)
  BY Unturned DEF Store, Held
<1>2. Held(next, new, rc)
  BY <1>1, NextEventHolds
<1>3. c \in Workers => Isolated(next, new, rc)
  <2>1. ASSUME NEW x \in rc \ ToSet(next.batch), Accepts(Kind(x)), c \in Workers
        PROVE  x \in ToSet(new)
    <3>1. next.batch = Tail(job.batch) /\ ToSet(job.batch) = ToSet(Tail(job.batch)) \cup {e}
      BY <1>1, RestOfBatch, TailOfBatch
    <3>2. ToSet(st) \subseteq ToSet(new)
      <4>1. e # Own => e \in Offsets
        BY <1>1, <3>1, TailOfBatch, HubIsBounded DEF Held
      <4> QED BY <1>1, <4>1, AppendedList DEF Held
    <3>3. CASE x \in ToSet(job.batch)
      <4>1. x = e /\ x # Own /\ x \in Offsets
        BY <2>1, <3>1, <3>3, <1>1, Unturned DEF Held
      <4> QED BY <1>1, <4>1, AppendedList DEF Held
    <3>4. CASE x \notin ToSet(job.batch)
      BY <1>1, <2>1, <3>2, <3>4 DEF Isolated
    <3> QED BY <3>3, <3>4
  <2> QED BY <2>1 DEF Isolated
<1>4. Turned(c, next, new, rc) /\ UNCHANGED <<source, hub>>
  <2>1. consumer' = [consumer EXCEPT ![c] = next] /\ UNCHANGED <<source, hub, received>>
    BY RestIsRestOf DEF Store
  <2>2. stored' = [stored EXCEPT ![c] = new]
    BY Unturned DEF Store
  <2> QED BY <2>1, <2>2, Unturned DEF Turned
<1> HIDE DEF next, new, st, rc
<1> QED BY <1>2, <1>3, <1>4, TurnKeepsStream

\* A worker drops the event at the head of its batch.
LEMMA DropKeepsStream ==
    ASSUME StreamInv, NEW c \in Consumers, consumer[c].step = "ingesting", NEW db \in {"clean", "broken"},
           NEW kept, kept \subseteq received[c], received' = [received EXCEPT ![c] = kept],
           Rest(c, db), UNCHANGED <<source, hub, stored>>,
           db = "broken" => kept \cap ToSet(consumer[c].batch) = {},
           ~Accepts(Kind(Head(consumer[c].batch))) \/ kept \cap ToSet(consumer[c].batch) = {}
    PROVE  StreamInv'
<1> DEFINE job == consumer[c]  st == stored[c]  rc == received[c]  next == RestOf(job, db)
<1>1. /\ Held(job, st, rc) /\ job \in Job /\ job.batch \in Seq(Nat) /\ job.batch # <<>>
      /\ c \in Workers => Isolated(job, st, rc)
  BY Unturned DEF Held
<1>2. Held(next, st, kept)
  BY <1>1, NextEventHolds
<1>3. c \in Workers => Isolated(next, st, kept)
  <2>1. next.batch = Tail(job.batch) /\ ToSet(job.batch) = ToSet(Tail(job.batch)) \cup {Head(job.batch)}
    BY <1>1, RestOfBatch, TailOfBatch
  <2> HIDE DEF next
  <2>2. ASSUME NEW x \in kept \ ToSet(next.batch), Accepts(Kind(x)), c \in Workers
        PROVE  x \in ToSet(st)
    <3>1. x \in rc \ ToSet(job.batch)
      BY <2>1, <2>2
    <3> QED BY <1>1, <2>2, <3>1 DEF Isolated
  <2> QED BY <2>2 DEF Isolated
<1>4. Turned(c, next, st, kept)
  BY RestIsRestOf, Unturned DEF Turned
<1> HIDE DEF next, st
<1> QED BY <1>2, <1>3, <1>4, TurnKeepsStream

LEMMA RaisesKeepsStream ==
    ASSUME StreamInv, NEW c \in Consumers, consumer[c].step = "ingesting", NEW db \in {"clean", "broken"},
           Raises(c, db), UNCHANGED <<source, hub, stored>>,
           \/ db = consumer[c].db /\ received' = received /\ ~Accepts(Kind(Head(consumer[c].batch)))
           \/ consumer[c].db = "broken" /\ received' = received
           \/ Lost(c)
    PROVE  StreamInv'
<1>1. CASE c \in Workers
  <2>1. Rest(c, db)
    BY <1>1 DEF Raises
  <2>2. CASE received' = received
    <3>1. received' = [received EXCEPT ![c] = received[c]]
      BY <2>2, Unturned
    <3>2. consumer[c].db = "broken" => received[c] \cap ToSet(consumer[c].batch) = {}
      BY Unturned DEF Held
    <3>3. CASE Lost(c)
      <4>1. received[c] = received[c] \ ToSet(consumer[c].batch)
        BY <2>2, <3>3, Unturned DEF Lost, StreamInv
      <4> QED BY <2>1, <3>1, <4>1, DropKeepsStream
    <3> QED BY <2>1, <3>1, <3>2, <3>3, DropKeepsStream
  <2>3. CASE Lost(c)
    <3> DEFINE kept == received[c] \ ToSet(consumer[c].batch)
    <3>1. received' = [received EXCEPT ![c] = kept]
      BY <2>3 DEF Lost
    <3>2. kept \subseteq received[c] /\ kept \cap ToSet(consumer[c].batch) = {}
      OBVIOUS
    <3> HIDE DEF kept
    <3> QED BY <2>1, <3>1, <3>2, DropKeepsStream
  <2> QED BY <2>2, <2>3
<1>2. CASE c \notin Workers
  <2>1. consumer' = [consumer EXCEPT ![c] = [Closed EXCEPT !.step = "down"]] /\ c \in Processors
    BY <1>2 DEF Raises, Consumers
  <2> QED BY <2>1, GiveUpKeepsStream DEF Through
<1> QED BY <1>1, <1>2

LEMMA StreamInvStep ==
    ASSUME ControlInv, StreamInv, GateInv, Next
    PROVE  StreamInv'
<1>1. CASE GenerateStream \/ DeviceSends
  BY <1>1, PublishKeepsStream DEF GenerateStream, DeviceSends, Kinds
<1>2. ASSUME UNCHANGED <<source, hub, consumer, stored, received>> PROVE StreamInv'
  BY <1>2 DEF StreamInv, Held, Isolated, Kind
<1>3. ASSUME NEW a \in Admins, Control(a) PROVE StreamInv'
  BY <1>2, <1>3 DEF Control
<1>4. ASSUME NEW w \in Workers, GateFails(w) PROVE StreamInv'
  BY <1>2, <1>4 DEF GateFails, streamVars
<1>5. ASSUME NEW w \in Workers, Gate(w) PROVE StreamInv'
  <2>1. CASE Generate(w)
    <3>1. consumer[w].step = "closed" /\ w \in Consumers
      BY <2>1 DEF Generate, Admitted, GateInv, Consumers
    <3> QED BY <2>1, <3>1, BeginKeepsStream DEF Generate
  <2>2. CASE ~Generate(w)
    BY <1>2, <1>5, <2>2 DEF Gate, StartCycle, StayOut, streamVars
  <2> QED BY <2>1, <2>2
<1>6. ASSUME NEW c \in Consumers, Connect(c) PROVE StreamInv'
  <2>1. consumer[c].step = "closed"
    BY <1>6 DEF Connect, MayConnect, Admitted, GateInv
  <2> QED BY <1>6, <2>1, BeginKeepsStream DEF Connect
<1>7. ASSUME NEW c \in Consumers, ReceiveBatch(c) PROVE StreamInv'
  BY <1>7, ReceiveKeepsStream
<1>8. ASSUME NEW c \in Consumers, Store(c) PROVE StreamInv'
  BY <1>8, StoreKeepsStream
<1>9. ASSUME NEW c \in Consumers, Refuse(c) PROVE StreamInv'
  <2>1. consumer[c].db \in {"clean", "broken"}
    BY Unturned DEF Job
  <2> QED BY <1>9, <2>1, RaisesKeepsStream DEF Refuse
<1>10. ASSUME NEW c \in Consumers, DatabaseFails(c) PROVE StreamInv'
  <2>1. consumer[c].db \in {"clean", "broken"}
    BY Unturned DEF Job
  <2> DEFINE db == "broken"
  <2>2. /\ consumer[c].step = "ingesting" /\ Raises(c, db) /\ UNCHANGED <<source, hub, stored>>
        /\ (consumer[c].db = "broken" /\ received' = received) \/ Lost(c)
    BY <1>10, <2>1 DEF DatabaseFails
  <2>3. db \in {"clean", "broken"}
    OBVIOUS
  <2> HIDE DEF db
  <2> QED BY <2>2, <2>3, RaisesKeepsStream
<1>11. ASSUME NEW c \in Consumers, Restart(c) PROVE StreamInv'
  <2>1. consumer[c].batch = <<>>
    BY <1>11, Unturned DEF Restart, Held
  <2> QED BY <1>11, <2>1, GiveUpKeepsStream DEF Restart, Through
<1>12. ASSUME NEW c \in Consumers, ReceiveFails(c) PROVE StreamInv'
  <2>1. consumer[c].batch = <<>>
    BY <1>12, Unturned DEF ReceiveFails, Held
  <2>2. [Closed EXCEPT !.step = IF c \in Workers THEN "closed" ELSE "down"] \in Through
    BY DEF Through, Closed
  <2> QED BY <1>12, <2>1, <2>2, GiveUpKeepsStream DEF ReceiveFails
<1>13. ASSUME NEW c \in Consumers, Crash(c) PROVE StreamInv'
  BY <1>13, GiveUpKeepsStream DEF Crash, Through
<1> QED BY <1>1, <1>3, <1>4, <1>5, <1>6, <1>7, <1>8, <1>9, <1>10, <1>11, <1>12, <1>13
        DEF Next, Consume, Ingest

-----------------------------------------------------------------------------
(***************************************************************************)
(* The gate and the switch.                                                *)
(***************************************************************************)

\* While the switch is not off, nothing counts.  Once it is off, a worker that
\* was let through before has not stored anything yet, and one that has a batch
\* in hand has stored no more than what is missing of a full batch.
SinceInv ==
    /\ since \in [Workers -> Nat]
    /\ ~SwitchedOff => \A w \in Workers : since[w] = 0
    /\ \A w \in Workers :
          /\ since[w] + Len(consumer[w].batch) <= MaxBatch
          /\ consumer[w].step = "receiving" \/ Admitted(w) => since[w] = 0

WorkerInv == GateInv /\ SinceInv

\* Nothing that a worker does switches ingestion on.
StaysOff == SwitchedOff => SwitchedOff'

LEMMA SwitchUnchanged ==
    ASSUME UNCHANGED rows
    PROVE  SwitchedOff' <=> SwitchedOff
BY DEF SwitchedOff

LEMMA NoBatchIsTooLong ==
    ASSUME StreamInv, NEW w \in Workers
    PROVE  /\ w \in Consumers /\ consumer[w] \in Job /\ consumer[w].batch \in Seq(Nat)
           /\ Len(consumer[w].batch) \in Nat /\ MaxBatch \in Nat \ {0}
           /\ consumer[w].step # "ingesting" => Len(consumer[w].batch) = 0
<1>1. w \in Consumers
  BY DEF Consumers
<1>2. Held(consumer[w], stored[w], received[w]) /\ consumer[w] \in Job /\ consumer[w].batch \in Seq(Nat)
  BY <1>1, Unturned
<1>3. consumer[w].step # "ingesting" => Len(consumer[w].batch) = 0
  BY <1>2, EmptyBatch DEF Held
<1> QED BY <1>1, <1>2, <1>3, LenProperties, EventStreamAssumption

\* A step at the gate of a worker.
LEMMA GateKeepsWorkers ==
    ASSUME ControlInv, StreamInv, WorkerInv, NEW w \in Workers, NEW ses \in SessionState,
           session' = [session EXCEPT ![w] = ses], UNCHANGED <<consumer, since>>, StaysOff,
           ses.step = "idle" \/ consumer[w].step = "closed",
           ses.step = "loaded" /\ ses.seen => Admitted(w) \/ ~SwitchedOff
    PROVE  WorkerInv'
<1>1. session'[w] = ses /\ \A v \in Workers : v # w => session'[v] = session[v]
  BY DEF ControlInv, Sessions
<1>2. GateInv'
  BY <1>1 DEF GateInv, WorkerInv
<1>3. ASSUME NEW v \in Workers, Admitted(v)' PROVE since[v] = 0
  <2>1. CASE v = w
    BY <1>1, <1>3, <2>1 DEF Admitted, SinceInv, WorkerInv
  <2>2. CASE v # w
    BY <1>1, <1>3, <2>2 DEF Admitted, SinceInv, WorkerInv
  <2> QED BY <2>1, <2>2
<1>4. SinceInv'
  BY <1>3 DEF SinceInv, WorkerInv, StaysOff
<1> QED BY <1>2, <1>4 DEF WorkerInv

\* A step of a consumer at work: its session is closed, or the consumer is.
LEMMA WorkKeepsWorkers ==
    ASSUME ControlInv, StreamInv, WorkerInv, NEW c \in Consumers, NEW job \in Job,
           consumer' = [consumer EXCEPT ![c] = job], UNCHANGED <<rows, since>>,
           \A v \in Workers : session'[v] \in {session[v], Idle},
           c \in Workers => job.step = "closed" \/ session'[c].step = "idle",
           c \in Workers => /\ since[c] + Len(job.batch) <= MaxBatch
                            /\ job.step = "receiving" => since[c] = 0
    PROVE  WorkerInv'
<1>1. \A v \in Workers : v \in Consumers /\ consumer'[v] = IF v = c THEN job ELSE consumer[v]
  BY DEF StreamInv, Consumers
<1>2. GateInv'
  <2>1. ASSUME NEW v \in Workers, session'[v].step # "idle" PROVE consumer'[v].step = "closed"
    <3>1. session'[v] = session[v]
      BY <2>1, IdleState
    <3> QED BY <3>1, <2>1, <1>1 DEF GateInv, WorkerInv
  <2> QED BY <2>1 DEF GateInv
<1>3. \A v \in Workers : Admitted(v)' => Admitted(v)
  BY IdleState DEF Admitted
<1>4. SinceInv'
  <2>1. since' = since /\ (SwitchedOff' <=> SwitchedOff)
    BY SwitchUnchanged
  <2>2. ASSUME NEW v \in Workers
        PROVE  /\ since'[v] + Len(consumer'[v].batch) <= MaxBatch
               /\ consumer'[v].step = "receiving" \/ Admitted(v)' => since'[v] = 0
    BY <1>1, <1>3, <2>1 DEF SinceInv, WorkerInv
  <2> QED BY <2>1, <2>2 DEF SinceInv, WorkerInv
<1> QED BY <1>2, <1>4 DEF WorkerInv

\* A statement of another session than the workers'.
LEMMA ControlKeepsWorkers ==
    ASSUME ControlInv, StreamInv, WorkerInv, NEW a \in Admins, Control(a)
    PROVE  WorkerInv'
<1>1. ASSUME NEW v \in Workers PROVE session'[v] = session[v]
  <2>1. v \in Sessions /\ a \in Sessions /\ v # a
    BY SimulationControlAssumption DEF Sessions
  <2>2. Statement(a)
    BY DEF Control, Administer, Ask, GetOrCreate, Statement
  <2>3. \E ses : session' = [session EXCEPT ![a] = ses]
    BY <2>2 DEF Statement, Open, Query, Insert, Refresh, Command, Answer, SessionFails, Turn
  <2> QED BY <2>1, <2>3 DEF ControlInv
<1>2. consumer' = consumer /\ since' = (IF SwitchedOff' THEN since ELSE [w \in Workers |-> 0])
  BY DEF Control
<1>3. GateInv'
  BY <1>1, <1>2 DEF GateInv, WorkerInv
<1>4. CASE SwitchedOff'
  <2>1. \A v \in Workers : Admitted(v)' => Admitted(v)
    BY <1>1 DEF Admitted
  <2>2. SinceInv'
    BY <1>2, <1>4, <2>1 DEF SinceInv, WorkerInv
  <2> QED BY <1>3, <2>2 DEF WorkerInv
<1>5. CASE ~SwitchedOff'
  <2>1. since' = [w \in Workers |-> 0]
    BY <1>2, <1>5
  <2>2. ASSUME NEW v \in Workers PROVE Len(consumer'[v].batch) <= MaxBatch /\ Len(consumer'[v].batch) \in Nat
    <3>1. since[v] + Len(consumer[v].batch) <= MaxBatch /\ since[v] \in Nat
      BY DEF SinceInv, WorkerInv
    <3> QED BY <3>1, <1>2, NoBatchIsTooLong
  <2>3. SinceInv'
    BY <2>1, <2>2 DEF SinceInv
  <2> QED BY <1>3, <2>3 DEF WorkerInv
<1> QED BY <1>4, <1>5

\* Until it is let through, a worker at its gate only looks at the table.
LEMMA LookKeepsWorkers ==
    ASSUME ControlInv, StreamInv, WorkerInv, NEW w \in Workers, UNCHANGED <<consumer, since>>,
           \/ StartCycle(w)
           \/ GetOrCreate(w)
           \/ Answer(w)
           \/ SessionFails(w)
    PROVE  WorkerInv'
<1>1. session[w] \in SessionState /\ w \in Sessions /\ (session[w].step # "idle" => consumer[w].step = "closed")
  BY DEF ControlInv, Sessions, WorkerInv, GateInv
<1>2. UNCHANGED rows => StaysOff
  BY SwitchUnchanged DEF StaysOff
<1>3. CASE StartCycle(w)
  <2> DEFINE ses == [Idle EXCEPT !.step = "query", !.wish = "look"]
  <2>1. ses \in SessionState /\ ses.step = "query"
    BY DEF Idle, SessionState, Wishes
  <2>2. session' = [session EXCEPT ![w] = ses] /\ UNCHANGED rows /\ consumer[w].step = "closed"
    BY <1>3 DEF StartCycle, Open, Turn
  <2> HIDE DEF ses
  <2> QED BY <1>2, <2>1, <2>2, GateKeepsWorkers
<1>4. CASE Query(w)
  <2>1. UNCHANGED rows /\ consumer[w].step = "closed"
    BY <1>1, <1>4 DEF Query
  <2>2. CASE Turn(w, [session[w] EXCEPT !.step = "missing"])
    <3> DEFINE ses == [session[w] EXCEPT !.step = "missing"]
    <3>1. ses \in SessionState /\ ses.step = "missing" /\ session' = [session EXCEPT ![w] = ses]
      BY <1>1, <2>2 DEF SessionState, Turn
    <3> HIDE DEF ses
    <3> QED BY <1>2, <2>1, <3>1, GateKeepsWorkers
  <2>3. ASSUME NEW r \in DOMAIN rows,
               Turn(w, [session[w] EXCEPT !.step = "loaded", !.row = r, !.seen = rows[r]])
        PROVE  WorkerInv'
    <3> DEFINE ses == [session[w] EXCEPT !.step = "loaded", !.row = r, !.seen = rows[r]]
    <3>1. r \in Nat /\ rows[r] \in BOOLEAN
      BY OneRow
    <3>2. ses \in SessionState /\ ses.seen = rows[r] /\ session' = [session EXCEPT ![w] = ses]
      BY <1>1, <2>3, <3>1 DEF SessionState, Turn
    <3> HIDE DEF ses
    <3>3. ses.seen => ~SwitchedOff
      BY <3>1, <3>2 DEF SwitchedOff, ToSet
    <3> QED BY <1>2, <2>1, <3>2, <3>3, GateKeepsWorkers
  <2> QED BY <1>4, <2>2, <2>3 DEF Query
<1>5. CASE Insert(w)
  <2> DEFINE ses == [session[w] EXCEPT !.step = "refresh", !.row = Len(rows) + 1]
  <2>1. session' = [session EXCEPT ![w] = ses] /\ rows' = Append(rows, FALSE) /\ consumer[w].step = "closed"
    BY <1>1, <1>5 DEF Insert, Turn
  <2>2. Len(rows) + 1 \in Nat
    BY OneRow
  <2>3. ses \in SessionState /\ ses.step = "refresh"
    BY <1>1, <2>2 DEF SessionState
  <2> HIDE DEF ses
  \* A new row says "stopped".
  <2>4. StaysOff
    <3>1. rows \in Seq(BOOLEAN) /\ FALSE \in BOOLEAN
      BY DEF ControlInv
    <3>2. DOMAIN rows' = DOMAIN rows \cup {Len(rows) + 1} /\ ToSet(rows') = ToSet(rows) \cup {FALSE}
      BY <2>1, <3>1, AppendedList
    <3>3. rows' # <<>>
      BY <3>2, EmptySeq
    <3> QED BY <3>2, <3>3 DEF StaysOff, SwitchedOff
  <2> QED BY <2>1, <2>3, <2>4, GateKeepsWorkers
<1>6. CASE Refresh(w)
  <2> DEFINE ses == [session[w] EXCEPT !.step = "loaded", !.seen = rows[session[w].row]]
  <2>1. UNCHANGED rows /\ consumer[w].step = "closed" /\ session[w].row \in DOMAIN rows
    BY <1>1, <1>6, OneRow DEF Refresh, ControlInv, SessionFits, SessionState
  <2>2. rows[session[w].row] \in BOOLEAN
    BY <2>1, OneRow
  <2>3. ses \in SessionState /\ ses.seen = rows[session[w].row] /\ session' = [session EXCEPT ![w] = ses]
    BY <1>1, <1>6, <2>2 DEF SessionState, Turn, Refresh
  <2> HIDE DEF ses
  <2>4. ses.seen => ~SwitchedOff
    BY <2>1, <2>2, <2>3 DEF SwitchedOff, ToSet
  <2> QED BY <1>2, <2>1, <2>3, <2>4, GateKeepsWorkers
<1>7. CASE Answer(w) \/ SessionFails(w)
  <2>1. session' = [session EXCEPT ![w] = Idle] /\ UNCHANGED rows
    BY <1>7 DEF Answer, SessionFails, Turn
  <2> QED BY <1>2, <2>1, IdleState, GateKeepsWorkers
<1> QED BY <1>3, <1>4, <1>5, <1>6, <1>7 DEF GetOrCreate

\* A worker that was let through closes its session and begins.
LEMMA BeginKeepsWorkers ==
    ASSUME ControlInv, StreamInv, WorkerInv, NEW w \in Workers, Admitted(w), Answer(w), UNCHANGED since,
           NEW job \in Job, Len(job.batch) <= 1, consumer' = [consumer EXCEPT ![w] = job]
    PROVE  WorkerInv'
<1>1. w \in Consumers /\ MaxBatch \in Nat \ {0}
  BY NoBatchIsTooLong
<1>2. since[w] = 0
  BY DEF WorkerInv, SinceInv
<1>3. session' = [session EXCEPT ![w] = Idle] /\ UNCHANGED rows
  BY DEF Answer, Turn
<1>4. \A v \in Workers : session'[v] \in {session[v], Idle}
  BY <1>3 DEF ControlInv, Sessions
<1>5. session'[w].step = "idle"
  BY <1>3, IdleState DEF ControlInv, Sessions
<1>6. since[w] + Len(job.batch) <= MaxBatch
  <2>1. Len(job.batch) \in Nat
    BY LenProperties DEF Job
  <2> QED BY <1>1, <1>2, <2>1
<1> QED BY <1>1, <1>2, <1>3, <1>4, <1>5, <1>6, WorkKeepsWorkers

\* The session of a worker at its source is closed.
LEMMA NoSessionAtSource ==
    ASSUME ControlInv, WorkerInv, NEW c \in Consumers, consumer[c].step # "closed", UNCHANGED controlVars
    PROVE  /\ \A v \in Workers : session'[v] \in {session[v], Idle}
           /\ c \in Workers => session'[c].step = "idle"
           /\ UNCHANGED rows
BY DEF WorkerInv, GateInv, controlVars

LEMMA ReceiveKeepsWorkers ==
    ASSUME ControlInv, StreamInv, WorkerInv, NEW c \in Consumers, ReceiveBatch(c)
    PROVE  WorkerInv'
<1> DEFINE from == consumer[c].position
<1>1. consumer[c] \in Job /\ from \in Nat /\ consumer[c].step = "receiving" /\ consumer[c].batch = <<>>
  BY Unturned DEF Held, ReceiveBatch
<1>2. PICK n \in 1..MaxBatch :
         /\ from + n <= Len(hub)
         /\ consumer' = [consumer EXCEPT ![c] =
               IF Parsed(from, n) = <<>> THEN [@ EXCEPT !.position = from + n]
               ELSE [Closed EXCEPT !.step = "ingesting", !.batch = Parsed(from, n)]]
  BY DEF ReceiveBatch
<1> DEFINE parsed == Parsed(from, n)
           job == IF parsed = <<>> THEN [consumer[c] EXCEPT !.position = from + n]
                  ELSE [Closed EXCEPT !.step = "ingesting", !.batch = parsed]
<1>3. n \in Nat /\ n <= MaxBatch /\ Buffered(parsed, from, n) /\ MaxBatch \in Nat
  BY <1>1, EventStreamAssumption, ParsedIsBuffered
<1>4. parsed \in Seq(Nat) /\ Len(parsed) <= MaxBatch /\ Len(parsed) \in Nat
  BY <1>3, LenProperties DEF Buffered
<1>5. consumer' = [consumer EXCEPT ![c] = job]
  BY <1>2
<1> HIDE DEF parsed
<1>6. job \in Job /\ job.batch = parsed
  <2>1. from + n \in Nat
    BY <1>1, <1>3
  <2>2. CASE parsed = <<>>
    BY <1>1, <2>1, <2>2 DEF Job
  <2>3. CASE parsed # <<>>
    BY <1>4, <2>3 DEF Closed, Job
  <2> QED BY <2>2, <2>3
<1> HIDE DEF job
<1>7. c \in Workers => since[c] = 0
  BY <1>1 DEF WorkerInv, SinceInv
<1>8. c \in Workers => since[c] + Len(job.batch) <= MaxBatch
  BY <1>4, <1>6, <1>7, <1>3
<1>9. UNCHANGED controlVars /\ UNCHANGED since
  BY DEF ReceiveBatch
<1> QED BY <1>1, <1>5, <1>6, <1>7, <1>8, <1>9, NoSessionAtSource, WorkKeepsWorkers

\* A consumer gives up its batch, or the event at the head of it.
LEMMA DropKeepsWorkers ==
    ASSUME ControlInv, StreamInv, WorkerInv, NEW c \in Consumers, NEW job \in Job,
           consumer' = [consumer EXCEPT ![c] = job], UNCHANGED <<rows, since>>,
           Len(job.batch) <= Len(consumer[c].batch), job.step # "receiving",
           \A v \in Workers : session'[v] \in {session[v], Idle},
           c \in Workers => session'[c].step = "idle"
    PROVE  WorkerInv'
<1>1. ASSUME c \in Workers PROVE since[c] + Len(job.batch) <= MaxBatch
  <2>1. Len(job.batch) \in Nat
    BY LenProperties DEF Job
  <2>2. since[c] \in Nat /\ since[c] + Len(consumer[c].batch) <= MaxBatch
    BY <1>1 DEF SinceInv, WorkerInv
  <2> QED BY <1>1, <2>1, <2>2, NoBatchIsTooLong
<1> QED BY <1>1, WorkKeepsWorkers

LEMMA RestIsShorter ==
    ASSUME StreamInv, NEW c \in Consumers, consumer[c].step = "ingesting", NEW db \in {"clean", "broken"}
    PROVE  /\ RestOf(consumer[c], db) \in Job /\ RestOf(consumer[c], db).step # "receiving"
           /\ Len(RestOf(consumer[c], db).batch) = Len(consumer[c].batch) - 1
           /\ Len(consumer[c].batch) \in Nat \ {0}
<1>1. consumer[c] \in Job /\ consumer[c].batch \in Seq(Nat) /\ consumer[c].batch # <<>>
  BY Unturned DEF Held
<1>2. /\ RestOf(consumer[c], db) \in Job
      /\ RestOf(consumer[c], db).batch = Tail(consumer[c].batch)
      /\ RestOf(consumer[c], db).step # "receiving"
  BY <1>1, RestOfBatch
<1>3. Len(Tail(consumer[c].batch)) = Len(consumer[c].batch) - 1 /\ Len(consumer[c].batch) \in Nat \ {0}
  BY <1>1, TailOfBatch
<1> QED BY <1>2, <1>3

LEMMA EndIsShorter ==
    ASSUME StreamInv, NEW c \in Consumers, NEW end \in Through
    PROVE  end \in Job /\ end.step # "receiving" /\ Len(end.batch) <= Len(consumer[c].batch)
<1>1. end \in Job /\ end.batch = <<>> /\ end.step # "receiving"
  <2>1. <<>> \in Seq(Nat)
    BY EmptySeq
  <2>2. CASE end = Closed
    BY <2>1, <2>2 DEF Closed, Job
  <2>3. CASE end = [Closed EXCEPT !.step = "down"]
    BY <2>1, <2>3 DEF Closed, Job
  <2> QED BY <2>2, <2>3 DEF Through
<1>2. Len(consumer[c].batch) \in Nat
  BY Unturned, LenProperties
<1> QED BY <1>1, <1>2, EmptyBatch

LEMMA RaisesKeepsWorkers ==
    ASSUME ControlInv, StreamInv, WorkerInv, NEW c \in Consumers, consumer[c].step = "ingesting",
           NEW db \in {"clean", "broken"}, Raises(c, db), UNCHANGED <<controlVars, since>>
    PROVE  WorkerInv'
<1>1. CASE c \in Workers
  <2>1. consumer' = [consumer EXCEPT ![c] = RestOf(consumer[c], db)]
    BY <1>1, RestIsRestOf DEF Raises
  <2>2. Len(RestOf(consumer[c], db).batch) <= Len(consumer[c].batch)
    BY RestIsShorter
  <2> QED BY <2>1, <2>2, RestIsShorter, NoSessionAtSource, DropKeepsWorkers
<1>2. CASE c \notin Workers
  <2> DEFINE end == [Closed EXCEPT !.step = "down"]
  <2>1. consumer' = [consumer EXCEPT ![c] = end] /\ end \in Through
    BY <1>2 DEF Raises, Through
  <2> HIDE DEF end
  <2> QED BY <2>1, EndIsShorter, NoSessionAtSource, DropKeepsWorkers
<1> QED BY <1>1, <1>2

LEMMA CountOneMore ==
    ASSUME NEW n \in Nat, n + 1 <= MaxBatch
    PROVE  Min({n + 1, MaxBatch + 1}) = n + 1
<1> DEFINE S == {n + 1, MaxBatch + 1}
<1>1. n + 1 \in S /\ \A y \in S : n + 1 <= y
  BY EventStreamAssumption
<1>2. \A x \in S : (\A y \in S : x <= y) => x = n + 1
  BY EventStreamAssumption
<1> QED BY <1>1, <1>2 DEF Min

LEMMA StoreKeepsWorkers ==
    ASSUME ControlInv, StreamInv, WorkerInv, NEW c \in Consumers, Store(c)
    PROVE  WorkerInv'
<1> DEFINE job == RestOf(consumer[c], "clean")
<1>1. consumer[c].step = "ingesting" /\ UNCHANGED controlVars /\ consumer' = [consumer EXCEPT ![c] = job]
  BY RestIsRestOf DEF Store
<1>2. /\ job \in Job /\ job.step # "receiving"
      /\ Len(job.batch) = Len(consumer[c].batch) - 1 /\ Len(consumer[c].batch) \in Nat \ {0}
  BY <1>1, RestIsShorter
<1>3. CASE since' = since
  <2>1. Len(job.batch) <= Len(consumer[c].batch)
    BY <1>2
  <2> HIDE DEF job
  <2> QED BY <1>1, <1>2, <1>3, <2>1, NoSessionAtSource, DropKeepsWorkers
<1>4. CASE c \in Workers /\ SwitchedOff /\ since' = [since EXCEPT ![c] = Min({@ + 1, MaxBatch + 1})]
  <2>1. since \in [Workers -> Nat] /\ since[c] + Len(consumer[c].batch) <= MaxBatch
    BY <1>4 DEF WorkerInv, SinceInv
  <2>2. since[c] \in Nat /\ since[c] + 1 \in Nat /\ since[c] + 1 <= MaxBatch
    BY <1>2, <1>4, <2>1, EventStreamAssumption
  <2>3. since' = [since EXCEPT ![c] = since[c] + 1]
    BY <1>4, <2>2, CountOneMore
  <2> HIDE DEF job
  <2>4. \A v \in Workers : v \in Consumers /\ consumer'[v] = IF v = c THEN job ELSE consumer[v]
    BY <1>1 DEF StreamInv, Consumers
  <2>5. UNCHANGED <<rows, session>> /\ session[c].step = "idle"
    BY <1>1, <1>4 DEF controlVars, WorkerInv, GateInv
  <2>6. GateInv'
    BY <1>1, <2>4, <2>5 DEF GateInv, WorkerInv
  <2>7. SwitchedOff'
    BY <1>4, <2>5, SwitchUnchanged
  <2>8. ASSUME NEW v \in Workers
        PROVE  /\ since'[v] \in Nat
               /\ since'[v] + Len(consumer'[v].batch) <= MaxBatch
               /\ consumer'[v].step = "receiving" \/ Admitted(v)' => since'[v] = 0
    <3>1. CASE v = c
      <4>1. since'[v] = since[c] + 1
        BY <1>4, <2>1, <2>3, <3>1
      <4>2. consumer'[v] = job
        BY <2>4, <3>1
      <4>3. ~Admitted(v)'
        BY <2>5, <3>1 DEF Admitted
      <4> QED BY <1>2, <2>1, <2>2, <4>1, <4>2, <4>3, EventStreamAssumption
    <3>2. CASE v # c
      <4>1. since'[v] = since[v] /\ consumer'[v] = consumer[v] /\ (Admitted(v)' => Admitted(v))
        BY <2>1, <2>3, <2>4, <2>5, <3>2 DEF Admitted
      <4> QED BY <4>1 DEF WorkerInv, SinceInv
    <3> QED BY <3>1, <3>2
  <2>9. since' \in [Workers -> Nat]
    BY <2>1, <2>2, <2>3
  <2> QED BY <2>6, <2>7, <2>8, <2>9 DEF WorkerInv, SinceInv
<1> QED BY <1>3, <1>4 DEF Store

LEMMA WorkerInvStep ==
    ASSUME ControlInv, StreamInv, WorkerInv, Next
    PROVE  WorkerInv'
<1>1. CASE GenerateStream \/ DeviceSends
  <2>1. UNCHANGED <<rows, session, consumer, since>>
    BY <1>1 DEF GenerateStream, DeviceSends, Publish, controlVars
  <2> QED BY <2>1 DEF WorkerInv, GateInv, SinceInv, Admitted, SwitchedOff
<1>2. ASSUME NEW a \in Admins, Control(a) PROVE WorkerInv'
  BY <1>2, ControlKeepsWorkers
<1>3. ASSUME NEW w \in Workers, GateFails(w) PROVE WorkerInv'
  BY <1>3, LookKeepsWorkers DEF GateFails, streamVars
<1>4. ASSUME NEW w \in Workers, Gate(w) PROVE WorkerInv'
  <2>1. CASE Generate(w)
    <3> DEFINE job == [Closed EXCEPT !.step = "ingesting", !.batch = <<Own>>]
    <3>1. <<Own>> \in Seq(Nat) /\ Len(<<Own>>) = 1
      BY DEF Own
    <3>2. job \in Job /\ job.batch = <<Own>>
      BY <3>1 DEF Closed, Job
    <3>3. Admitted(w) /\ Answer(w) /\ UNCHANGED since /\ consumer' = [consumer EXCEPT ![w] = job]
      BY <2>1 DEF Generate
    <3> HIDE DEF job
    <3>4. Len(job.batch) <= 1
      BY <3>1, <3>2
    <3> QED BY <3>2, <3>3, <3>4, BeginKeepsWorkers
  <2>2. CASE StartCycle(w) \/ (GetOrCreate(w) /\ UNCHANGED streamVars) \/ StayOut(w)
    BY <2>2, LookKeepsWorkers DEF StartCycle, StayOut, streamVars
  <2>3. Generate(w) \/ (StartCycle(w) \/ (GetOrCreate(w) /\ UNCHANGED streamVars) \/ StayOut(w))
    BY <1>4 DEF Gate
  <2> QED BY <2>1, <2>2, <2>3
<1>5. ASSUME NEW c \in Consumers, Connect(c) PROVE WorkerInv'
  <2> DEFINE job == [Closed EXCEPT !.step = "receiving", !.position = StartingPosition(c)]
  <2>1. job \in Job /\ job.batch = <<>>
    <3>1. <<>> \in Seq(Nat) /\ Len(hub) \in Nat
      BY EmptySeq, HubIsBounded
    <3> QED BY <3>1 DEF Closed, Job, StartingPosition
  <2>2. consumer' = [consumer EXCEPT ![c] = job] /\ UNCHANGED since /\ MayConnect(c)
    BY <1>5 DEF Connect
  <2> HIDE DEF job
  <2>3. Len(job.batch) = 0 /\ Len(job.batch) <= 1
    BY <2>1, EmptyBatch
  <2>4. CASE c \in Workers
    <3>1. Admitted(c) /\ Answer(c)
      BY <2>2, <2>4 DEF MayConnect
    <3> QED BY <2>1, <2>2, <2>3, <2>4, <3>1, BeginKeepsWorkers
  <2>5. CASE c \notin Workers
    <3>1. UNCHANGED rows /\ \A v \in Workers : session'[v] \in {session[v], Idle}
      BY <2>2, <2>5 DEF MayConnect, controlVars
    <3> QED BY <2>1, <2>2, <2>5, <3>1, WorkKeepsWorkers
  <2> QED BY <2>4, <2>5
<1>6. ASSUME NEW c \in Consumers, ReceiveBatch(c) PROVE WorkerInv'
  BY <1>6, ReceiveKeepsWorkers
<1>7. ASSUME NEW c \in Consumers, Store(c) PROVE WorkerInv'
  BY <1>7, StoreKeepsWorkers
<1>8. ASSUME NEW c \in Consumers, Refuse(c) PROVE WorkerInv'
  <2>1. consumer[c].db \in {"clean", "broken"}
    BY Unturned DEF Job
  <2> QED BY <1>8, <2>1, RaisesKeepsWorkers DEF Refuse
<1>9. ASSUME NEW c \in Consumers, DatabaseFails(c) PROVE WorkerInv'
  <2>1. consumer[c].step = "ingesting" /\ Raises(c, "broken") /\ UNCHANGED <<controlVars, since>>
    BY <1>9 DEF DatabaseFails
  <2> QED BY <2>1, RaisesKeepsWorkers
<1>10. ASSUME NEW c \in Consumers, NEW end \in Through, consumer' = [consumer EXCEPT ![c] = end],
              UNCHANGED <<rows, since>>, \A v \in Workers : session'[v] \in {session[v], Idle},
              c \in Workers => session'[c].step = "idle"
       PROVE  WorkerInv'
  BY <1>10, EndIsShorter, DropKeepsWorkers
<1>11. ASSUME NEW c \in Consumers, Restart(c) PROVE WorkerInv'
  <2>1. /\ consumer[c].step # "closed" /\ Closed \in Through
        /\ consumer' = [consumer EXCEPT ![c] = Closed] /\ UNCHANGED <<controlVars, since>>
    BY <1>11 DEF Restart, Through
  <2> QED BY <2>1, <1>10, NoSessionAtSource
<1>12. ASSUME NEW c \in Consumers, ReceiveFails(c) PROVE WorkerInv'
  <2> DEFINE end == [Closed EXCEPT !.step = IF c \in Workers THEN "closed" ELSE "down"]
  <2>1. end \in Through
    BY DEF Through, Closed
  <2>2. consumer[c].step # "closed" /\ consumer' = [consumer EXCEPT ![c] = end] /\ UNCHANGED <<controlVars, since>>
    BY <1>12 DEF ReceiveFails
  <2> HIDE DEF end
  <2> QED BY <2>1, <2>2, <1>10, NoSessionAtSource
<1>13. ASSUME NEW c \in Consumers, Crash(c) PROVE WorkerInv'
  <2> DEFINE end == [Closed EXCEPT !.step = "down"]
  <2>1. /\ end \in Through /\ consumer' = [consumer EXCEPT ![c] = end] /\ UNCHANGED <<rows, since>>
        /\ session' = [s \in Sessions |-> IF s = c THEN Idle ELSE session[s]]
    BY <1>13 DEF Crash, Through
  <2>2. \A v \in Workers : session'[v] \in {session[v], Idle} /\ (v = c => session'[v].step = "idle")
    BY <2>1, IdleState DEF Sessions
  <2> HIDE DEF end
  <2> QED BY <2>1, <2>2, <1>10
<1> QED BY <1>1, <1>2, <1>3, <1>4, <1>5, <1>6, <1>7, <1>8, <1>9, <1>11, <1>12, <1>13
        DEF Next, Consume, Ingest

-----------------------------------------------------------------------------
(***************************************************************************)
(* The theorems.                                                           *)
(***************************************************************************)

\* Every step is, for the switch, a statement of one session or nothing: a crash
\* ends the session of the worker like an exception does.
LEMMA NextIsControlNext ==
    ASSUME ControlInv, Next
    PROVE  ControlNext
<1>1. ASSUME NEW a \in Admins, Control(a) PROVE ControlNext
  <2>1. Statement(a) /\ a \in Sessions
    BY <1>1 DEF Control, Administer, Ask, GetOrCreate, Statement, Sessions
  <2> QED BY <2>1 DEF ControlNext
<1>2. ASSUME NEW w \in Workers, StartCycle(w) \/ GetOrCreate(w) \/ Answer(w) \/ SessionFails(w)
      PROVE  ControlNext
  <2>1. Statement(w) /\ w \in Sessions
    BY <1>2 DEF StartCycle, GetOrCreate, Statement, Sessions, Wishes
  <2> QED BY <2>1 DEF ControlNext
<1>3. ASSUME NEW c \in Consumers, Crash(c) PROVE ControlNext
  <2>1. /\ UNCHANGED <<rows, asked, last, raced>>
        /\ session' = [s \in Sessions |-> IF s = c THEN Idle ELSE session[s]]
    BY <1>3 DEF Crash
  <2>2. CASE c \in Sessions /\ session[c].step # "idle"
    <3>1. session' = [session EXCEPT ![c] = Idle]
      BY <2>1, <2>2 DEF ControlInv
    <3>2. SessionFails(c)
      BY <2>1, <2>2, <3>1 DEF SessionFails, Turn
    <3> QED BY <2>2, <3>2 DEF ControlNext, Statement
  <2>3. CASE ~(c \in Sessions /\ session[c].step # "idle")
    <3>1. session' = session
      BY <2>1, <2>3 DEF ControlInv, SessionFits
    <3> QED BY <2>1, <3>1 DEF ControlNext, controlVars
  <2> QED BY <2>2, <2>3
<1>4. ASSUME UNCHANGED controlVars PROVE ControlNext
  BY <1>4 DEF ControlNext
<1>5. ASSUME NEW c \in Consumers, Connect(c) PROVE ControlNext
  BY <1>2, <1>4, <1>5 DEF Connect, MayConnect
<1>6. ASSUME NEW w \in Workers, Gate(w) PROVE ControlNext
  BY <1>2, <1>6 DEF Gate, StayOut, Generate
<1>7. ASSUME NEW c \in Consumers, ReceiveBatch(c) \/ Ingest(c) \/ Restart(c) \/ ReceiveFails(c) PROVE ControlNext
  BY <1>4, <1>7 DEF ReceiveBatch, Ingest, Store, Refuse, DatabaseFails, Restart, ReceiveFails
<1>8. CASE GenerateStream \/ DeviceSends
  BY <1>4, <1>8 DEF GenerateStream, DeviceSends, Publish
<1>9. ASSUME NEW w \in Workers, GateFails(w) PROVE ControlNext
  BY <1>2, <1>9 DEF GateFails
<1> QED BY <1>1, <1>3, <1>5, <1>6, <1>7, <1>8, <1>9 DEF Next, Consume

IInv == ControlInv /\ CommandInv /\ StreamInv /\ WorkerInv

LEMMA InitIInv == Init => IInv
<1> SUFFICES ASSUME Init PROVE IInv
  OBVIOUS
<1>1. /\ rows = <<>> /\ session = [s \in Sessions |-> Idle] /\ asked = 0 /\ last = "none" /\ raced = FALSE
      /\ rows \in Seq(BOOLEAN) /\ Len(rows) = 0
  BY EmptySeq DEF Init, ControlInit
<1>2. ControlInv
  <2>1. RowsAreFew
    <3>1. Missing = {} /\ IsFiniteSet(Sessions)
      BY <1>1, IdleState, SimulationControlAssumption DEF Missing
    <3>2. Cardinality(Missing) = 0 /\ Cardinality(Sessions) \in Nat
      BY <3>1, FS_EmptySet, FS_CardinalityType
    <3> QED BY <1>1, <3>2 DEF RowsAreFew
  <2>2. \A s \in Sessions : SessionFits(session[s])
    BY <1>1, IdleState DEF SessionFits
  <2>3. session \in [Sessions -> SessionState]
    BY <1>1, IdleState
  <2>4. asked \in 0..MaxCommands
    BY <1>1, SimulationControlAssumption
  <2>5. raced \in BOOLEAN /\ last \in {"none", "start", "stop"}
    BY <1>1
  <2> QED BY <1>1, <2>1, <2>2, <2>3, <2>4, <2>5 DEF ControlInv
<1>3. CommandInv
  BY <1>1, IdleState DEF CommandInv, Unraced
<1>4. /\ source \in [Workers -> {"eventhub", "simulation"}] /\ hub = <<>>
      /\ consumer = [c \in Consumers |-> Closed]
      /\ stored = [c \in Consumers |-> <<>>]
      /\ received = [c \in Consumers |-> {}]
      /\ since = [w \in Workers |-> 0]
  BY DEF Init
<1>5. /\ Closed \in Job /\ Closed.step = "closed" /\ Closed.batch = <<>> /\ Closed.position = 0
      /\ Closed.db = "clean" /\ <<>> \in Seq(Offsets) /\ hub \in Seq(Kinds) /\ Len(hub) = 0
  <2>1. <<>> \in Seq(Nat) /\ <<>> \in Seq(Offsets) /\ <<>> \in Seq(Kinds) /\ Len(<<>>) = 0
    BY EmptySeq
  <2> QED BY <1>4, <2>1 DEF Closed, Job
<1>6. StreamInv
  <2>1. Held(Closed, <<>>, {}) /\ Isolated(Closed, <<>>, {})
    BY <1>5, EmptyBatch DEF Held, Isolated
  <2>2. Workers \subseteq Consumers
    BY DEF Consumers
  <2>3. /\ consumer \in [Consumers -> Job] /\ stored \in [Consumers -> Seq(Offsets)]
        /\ received \in [Consumers -> SUBSET Offsets] /\ Len(hub) <= MaxEvents
    BY <1>4, <1>5, EventStreamAssumption
  <2> QED BY <1>4, <1>5, <2>1, <2>2, <2>3 DEF StreamInv
<1>7. WorkerInv
  <2>1. GateInv
    BY <1>4, <1>5 DEF GateInv, Consumers
  <2>2. SinceInv
    BY <1>4, <1>5, EmptyBatch, EventStreamAssumption DEF SinceInv, Consumers
  <2> QED BY <2>1, <2>2 DEF WorkerInv
<1> QED BY <1>2, <1>3, <1>6, <1>7 DEF IInv

LEMMA IInvStep == IInv /\ [Next]_vars => IInv'
<1> SUFFICES ASSUME IInv, [Next]_vars PROVE IInv'
  OBVIOUS
<1>1. CASE Next
  BY <1>1, NextIsControlNext, ControlInvStep, CommandInvStep, StreamInvStep, WorkerInvStep DEF IInv, WorkerInv
<1>2. CASE UNCHANGED vars
  <2>1. UNCHANGED controlVars /\ UNCHANGED <<rows, session, source, hub, consumer, stored, received, since>>
    BY <1>2 DEF vars, controlVars, streamVars
  <2>2. ControlInv' /\ CommandInv'
    BY <2>1, ControlInvStep, CommandInvStep DEF IInv, ControlNext
  <2>3. StreamInv'
    BY <2>1 DEF IInv, StreamInv, Held, Isolated, Kind
  <2>4. WorkerInv'
    BY <2>1 DEF IInv, WorkerInv, GateInv, SinceInv, Admitted, SwitchedOff
  <2> QED BY <2>2, <2>3, <2>4 DEF IInv
<1> QED BY <1>1, <1>2

LEMMA Invariance == Spec => []IInv
BY InitIInv, IInvStep, PTL DEF Spec

LEMMA IInvIsTyped == IInv => TypeOK
<1> SUFFICES ASSUME IInv PROVE TypeOK
  OBVIOUS
<1>1. ControlTypeOK
  <2>1. Len(rows) <= Cardinality(Sessions)
    <3>1. IsFiniteSet(Missing) /\ IsFiniteSet(Sessions)
      BY SimulationControlAssumption, FS_Subset DEF Missing
    <3>2. Cardinality(Missing) \in Nat /\ Cardinality(Sessions) \in Nat /\ Len(rows) \in Nat
      BY <3>1, FS_CardinalityType, OneRow DEF IInv
    <3> QED BY <3>2 DEF IInv, ControlInv, RowsAreFew
  <2>2. ASSUME NEW s \in Sessions
        PROVE  /\ session[s].step \in {"idle", "query", "missing", "refresh", "loaded"}
               /\ session[s].wish \in Wishes
               /\ session[s].row \in 0..Len(rows)
               /\ session[s].step \in {"refresh", "loaded"} => session[s].row # 0
               /\ session[s].seen \in BOOLEAN
    <3>1. session[s] \in SessionState /\ SessionFits(session[s])
      BY DEF IInv, ControlInv
    <3> QED BY <3>1, OneRow DEF IInv, SessionState, SessionFits
  <2> QED BY <2>1, <2>2 DEF ControlTypeOK, IInv, ControlInv
<1>2. since \in [Workers -> 0..MaxBatch + 1]
  <2>1. since \in [Workers -> Nat]
    BY DEF IInv, WorkerInv, SinceInv
  <2>2. ASSUME NEW w \in Workers PROVE since[w] \in 0..MaxBatch + 1
    <3>1. since[w] \in Nat /\ since[w] + Len(consumer[w].batch) <= MaxBatch
      BY <2>1 DEF IInv, WorkerInv, SinceInv
    <3> QED BY <3>1, NoBatchIsTooLong DEF IInv
  <2> QED BY <2>1, <2>2
<1>3. ASSUME NEW c \in Consumers
      PROVE  /\ consumer[c].step \in {"closed", "receiving", "ingesting", "down"}
             /\ consumer[c].position \in 0..Len(hub)
             /\ consumer[c].batch \in Seq({Own} \cup DOMAIN hub)
             /\ consumer[c].db \in {"clean", "broken"}
             /\ consumer[c].step = "ingesting" <=> consumer[c].batch # <<>>
  <2> DEFINE job == consumer[c]
  <2>1. job \in Job /\ Held(job, stored[c], received[c]) /\ job.batch \in Seq(Nat) /\ job.position \in Nat
    BY Unturned DEF IInv
  <2>2. Len(hub) \in Nat /\ DOMAIN hub = 1..Len(hub)
    BY HubIsBounded DEF IInv
  <2>3. job.batch \in Seq({Own} \cup DOMAIN hub)
    <3>1. job.batch \in [1..Len(job.batch) -> Nat] /\ Len(job.batch) \in Nat
          /\ DOMAIN job.batch = 1..Len(job.batch)
      BY <2>1, LenProperties
    <3>2. ASSUME NEW i \in 1..Len(job.batch) PROVE job.batch[i] \in {Own} \cup DOMAIN hub
      <4>1. job.batch[i] \in Nat /\ job.batch[i] <= Len(hub)
        BY <2>1, <3>1 DEF Held, ToSet
      <4> QED BY <4>1, <2>2 DEF Own
    <3>3. job.batch \in [1..Len(job.batch) -> {Own} \cup DOMAIN hub]
      BY <3>1, <3>2
    <3> QED BY <3>1, <3>3
  <2>4. job.position \in 0..Len(hub)
    BY <2>1, <2>2 DEF Held
  <2> QED BY <2>1, <2>3, <2>4 DEF Job, Held
<1>4. \A w \in Workers : session[w].step # "idle" => consumer[w].step = "closed"
  BY DEF IInv, WorkerInv, GateInv
<1> QED BY <1>1, <1>2, <1>3, <1>4 DEF TypeOK, IInv, StreamInv

\* The switch and the consumers are always in one of the states they are meant to
\* be in: there are no more rows in the control table than sessions, a batch is
\* made of events the hub has, and a worker at its source holds no session open.
THEOREM TypeCorrect == Spec => []TypeOK
BY Invariance, IInvIsTyped, PTL

\* Commands take effect: as long as no two commands are under way at once and no
\* two sessions insert at once, the control table has one row and it says what the
\* last command asked for, whatever else looks at the table, fails or crashes.
THEOREM CommandsObeyed == Spec => []CommandsTakeEffect
<1>1. IInv => CommandsTakeEffect
  BY UnracedSaysLast DEF IInv
<1> QED BY <1>1, Invariance, PTL

\* Events are stored in the order of the hub and none of them twice, over any
\* number of connections, failures, crashes and restarts, without a checkpoint.
THEOREM HubOrder == Spec => []StoredInHubOrder
<1>1. IInv => StoredInHubOrder
  BY DEF IInv, StreamInv, Held, Rising, StoredInHubOrder
<1> QED BY <1>1, Invariance, PTL

\* A bad event and a flush that failed in an earlier batch cost a worker no other
\* event: what it took, could accept and has not in hand any more is stored, unless
\* a crash or a failing flush took it away.
THEOREM Isolation == Spec => []BatchIsIsolated
<1>1. IInv => BatchIsIsolated
  BY DEF IInv, StreamInv, Isolated, BatchIsIsolated
<1> QED BY <1>1, Invariance, PTL

\* Once the switch is off, a worker stores no more than one batch until the switch
\* is on again.
THEOREM StopObeyed == Spec => []StopIsObeyed
<1>1. IInv => StopIsObeyed
  <2> SUFFICES ASSUME IInv, NEW w \in Workers PROVE since[w] <= MaxBatch
    BY DEF StopIsObeyed
  <2>1. since[w] \in Nat /\ since[w] + Len(consumer[w].batch) <= MaxBatch
    BY DEF IInv, WorkerInv, SinceInv
  <2> QED BY <2>1, NoBatchIsTooLong DEF IInv
<1> QED BY <1>1, Invariance, PTL
=============================================================================
