------------------------ MODULE LLMExplainer_proofs -------------------------
(***************************************************************************)
(* Theorems about LLMExplainer, for any number of threads and any settings *)
(* of the retries and of the circuit breaker.                              *)
(***************************************************************************)
EXTENDS LLMExplainer, TLAPS

(***************************************************************************)
(* The inductive invariant: a thread that calls is within its attempts,    *)
(* and one that concludes has used them all.  Without it the attempt could *)
(* grow beyond Attempts + 1.                                               *)
(***************************************************************************)
Place == [step : {"idle", "call", "conclude", "open"}, attempt : 0..(Attempts + 1),
          result : {"none", "text", "fallback", "error"}]

AttemptFits(t) ==
    /\ thread[t].step = "call" => thread[t].attempt \in 1..Attempts
    /\ thread[t].step \in {"conclude", "open"} => thread[t].attempt = Attempts + 1

TypeInv == TypeOK /\ \A t \in Threads : AttemptFits(t)

LEMMA TypeFacts ==
    ASSUME TypeInv
    PROVE  /\ llm \in Provider /\ failures \in 0..Threshold /\ open \in 0..Reset
           /\ thread \in [Threads -> Place]
           /\ \A t \in Threads : AttemptFits(t)
BY DEF TypeInv, TypeOK, Place

LEMMA IdleFacts ==
    /\ Idle \in Place /\ Idle.step = "idle"
    /\ \A r \in {"none", "text", "fallback", "error"} :
          LET p == [Idle EXCEPT !.result = r] IN p \in Place /\ p.step = "idle"
BY LLMAssumption DEF Idle, Place

\* Only one thread moves, to a place that fits.
LEMMA ThreadStep ==
    ASSUME TypeInv, NEW t \in Threads, NEW p \in Place, thread' = [thread EXCEPT ![t] = p],
           p.step = "call" => p.attempt \in 1..Attempts,
           p.step \in {"conclude", "open"} => p.attempt = Attempts + 1,
           llm' \in Provider, failures' \in 0..Threshold, open' \in 0..Reset
    PROVE  TypeInv'
<1>1. thread' \in [Threads -> Place] /\ thread'[t] = p /\ \A u \in Threads \ {t} : thread'[u] = thread[u]
  BY TypeFacts
<1>2. TypeOK'
  BY <1>1 DEF TypeOK, Place, Provider
<1>3. ASSUME NEW u \in Threads PROVE AttemptFits(u)'
  <2>1. CASE u = t
    BY <1>1, <2>1 DEF AttemptFits
  <2>2. CASE u # t
    <3>1. AttemptFits(u) /\ thread'[u] = thread[u]
      BY <1>1, <2>2, TypeFacts
    <3> QED BY ONLY <3>1 DEF AttemptFits
  <2> QED BY <2>1, <2>2
<1> QED BY <1>2, <1>3 DEF TypeInv

LEMMA EndsKeeps ==
    ASSUME TypeInv, NEW t \in Threads, NEW r \in {"none", "text", "fallback", "error"}, Ends(t, r),
           llm' \in Provider, failures' \in 0..Threshold, open' \in 0..Reset
    PROVE  TypeInv'
<1> PICK p : p = [Idle EXCEPT !.result = r]
  OBVIOUS
<1>1. p \in Place /\ p.step = "idle" /\ thread' = [thread EXCEPT ![t] = p]
  BY IdleFacts DEF Ends
<1> QED BY <1>1, ThreadStep

LEMMA EnterKeeps ==
    ASSUME TypeInv, NEW t \in Threads, Enter(t)
    PROVE  TypeInv'
<1>1. llm' \in Provider /\ failures' \in 0..Threshold /\ open' \in 0..Reset
  BY TypeFacts DEF Enter
<1>2. CASE Ends(t, "fallback")
  BY <1>1, <1>2, EndsKeeps
<1> PICK p : p = [step |-> "call", attempt |-> 1, result |-> "none"]
  OBVIOUS
<1>3. CASE thread' = [thread EXCEPT ![t] = p]
  <2>1. p \in Place /\ p.step = "call" /\ p.attempt \in 1..Attempts
    BY LLMAssumption DEF Place
  <2> QED BY <1>1, <1>3, <2>1, ThreadStep
<1> QED BY <1>2, <1>3 DEF Enter

LEMMA FailAttemptKeeps ==
    ASSUME TypeInv, NEW t \in Threads, FailAttempt(t)
    PROVE  TypeInv'
<1> PICK n : n = thread[t].attempt + 1
  OBVIOUS
<1> PICK s : s = IF n <= Attempts THEN "call" ELSE "conclude"
  OBVIOUS
<1> PICK p : p = [thread[t] EXCEPT !.step = s, !.attempt = n]
  OBVIOUS
<1>1. thread[t] \in Place /\ thread[t].attempt \in 1..Attempts
  BY TypeFacts DEF FailAttempt, AttemptFits
<1>2. thread' = [thread EXCEPT ![t] = p]
  BY TypeFacts DEF FailAttempt, NextAttempt
<1>3. n \in 1..(Attempts + 1) /\ (s = "call" => n \in 1..Attempts) /\ (s = "conclude" => n = Attempts + 1)
  BY <1>1, LLMAssumption
<1>4. p \in Place /\ p.step = s /\ p.attempt = n /\ s \in {"call", "conclude"}
  <2>1. n \in 0..(Attempts + 1) /\ s \in {"call", "conclude"}
    BY <1>3, LLMAssumption
  <2> QED BY ONLY <1>1, <2>1, p = [thread[t] EXCEPT !.step = s, !.attempt = n] DEF Place
<1>5. llm' \in Provider /\ failures' \in 0..Threshold /\ open' \in 0..Reset
  BY TypeFacts, LLMAssumption DEF FailAttempt
<1> QED BY <1>2, <1>3, <1>4, <1>5, ThreadStep

LEMMA ConcludeKeeps ==
    ASSUME TypeInv, NEW t \in Threads, Conclude(t)
    PROVE  TypeInv'
<1>1. llm' \in Provider /\ failures' \in 0..Threshold /\ open' \in 0..Reset
  BY TypeFacts DEF Conclude
<1>2. CASE Ends(t, "fallback")
  BY <1>1, <1>2, EndsKeeps
<1> PICK p : p = [thread[t] EXCEPT !.step = "open"]
  OBVIOUS
<1>3. CASE thread' = [thread EXCEPT ![t].step = "open"]
  <2>1. thread[t] \in Place /\ thread[t].attempt = Attempts + 1
    BY TypeFacts DEF Conclude, AttemptFits
  <2>2. p \in Place /\ p.step = "open" /\ p.attempt = Attempts + 1
    BY <2>1 DEF Place
  <2>3. thread' = [thread EXCEPT ![t] = p]
    BY <1>3, TypeFacts
  <2> QED BY <1>1, <2>2, <2>3, ThreadStep
<1> QED BY <1>2, <1>3 DEF Conclude

LEMMA NextKeeps ==
    ASSUME TypeInv, Next
    PROVE  TypeInv'
<1>1. CASE Change \/ Tick
  <2>1. thread' = thread /\ llm' \in Provider /\ failures' = failures
    BY <1>1, TypeFacts DEF Change, Tick
  <2>2. open' \in 0..Reset
    BY <1>1, TypeFacts, LLMAssumption DEF Change, Tick
  <2> QED BY <2>1, <2>2 DEF TypeInv, TypeOK, AttemptFits, Provider
<1>2. ASSUME NEW t \in Threads, Enter(t) \/ Work(t) PROVE TypeInv'
  <2>1. CASE Succeed(t)
    BY <2>1, EndsKeeps, TypeFacts, LLMAssumption DEF Succeed
  <2>2. CASE Escape(t)
    BY <2>2, EndsKeeps, TypeFacts DEF Escape
  <2>3. CASE Open(t)
    BY <2>3, EndsKeeps, TypeFacts, LLMAssumption DEF Open
  <2> QED BY <1>2, <2>1, <2>2, <2>3, EnterKeeps, FailAttemptKeeps, ConcludeKeeps DEF Work
<1> QED BY <1>1, <1>2 DEF Next

(***************************************************************************)
(* A request makes at most Attempts calls, and the circuit is never open   *)
(* for longer than Reset, however many threads open it at once.            *)
(***************************************************************************)
THEOREM TypeCorrect == Spec => []TypeOK
<1>1. Init => TypeInv
  <2> SUFFICES ASSUME Init PROVE TypeInv
    OBVIOUS
  <2>1. thread \in [Threads -> Place] /\ \A t \in Threads : thread[t].step = "idle"
    BY IdleFacts DEF Init
  <2> QED BY <2>1, LLMAssumption DEF Init, TypeInv, TypeOK, Place, AttemptFits, Provider
<1>2. TypeInv /\ [Next]_vars => TypeInv'
  <2>1. UNCHANGED vars /\ TypeInv => TypeInv'
    BY DEF vars, TypeInv, TypeOK, AttemptFits, Provider
  <2> QED BY <2>1, NextKeeps
<1>3. TypeInv => TypeOK
  BY DEF TypeInv
<1> QED BY <1>1, <1>2, <1>3, PTL DEF Spec
=============================================================================
