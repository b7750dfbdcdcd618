---------------------------- MODULE LLMExplainer ----------------------------
(***************************************************************************)
(* build_operations_explanation of app/services/llm_explainer_service.py:  *)
(* the call to the LLM with its retries, its fallback and the circuit      *)
(* breaker kept in two globals of the process, which the request threads   *)
(* and the ingestion worker share without a lock.                          *)
(*                                                                         *)
(* The image runs CPython 3.11, whose threads only change at a function    *)
(* call or at a loop's end: "_llm_failures += 1" and the pair of           *)
(* assignments after a success are one step, while time.time() lets other  *)
(* threads run between the test of _llm_failures and the assignment of     *)
(* _llm_circuit_open_until.                                                *)
(*                                                                         *)
(* Time is kept as what remains until _llm_circuit_open_until, so a state  *)
(* does not depend on the date.  _llm_failures is only ever compared with  *)
(* Threshold and is kept up to it.                                         *)
(***************************************************************************)
EXTENDS Integers

CONSTANTS
    Threads,     \* the threads that ask for explanations
    Attempts,    \* max(1, llm_retry_attempts)
    Threshold,   \* llm_circuit_breaker_failures
    Reset,       \* llm_circuit_breaker_reset_seconds
    Outages,     \* whether the LLM may fail
    Oddities     \* whether a reply may carry no text (content null)

ASSUME LLMAssumption ==
    /\ Attempts \in Nat \ {0}
    /\ Threshold \in Nat \ {0}
    /\ Reset \in Nat \ {0}
    /\ Outages \in BOOLEAN /\ Oddities \in BOOLEAN

VARIABLES
    llm,        \* the provider: "up", "down" or "odd"
    failures,   \* _llm_failures
    open,       \* what remains until _llm_circuit_open_until
    thread      \* where each thread is, and its current attempt

vars == <<llm, failures, open, thread>>

Idle == [step |-> "idle", attempt |-> 0, result |-> "none"]

Init ==
    /\ llm = "up"
    /\ failures = 0
    /\ open = 0
    /\ thread = [t \in Threads |-> Idle]

Provider == {"up"} \cup (IF Outages THEN {"down"} ELSE {}) \cup (IF Oddities THEN {"odd"} ELSE {})

-----------------------------------------------------------------------------
\* The provider fails or recovers.
Change ==
    /\ \E s \in Provider \ {llm} : llm' = s
    /\ UNCHANGED <<failures, open, thread>>

\* Time passes; nothing else depends on it.
Tick ==
    /\ open > 0
    /\ open' = open - 1
    /\ UNCHANGED <<llm, failures, thread>>

Ends(t, result) == thread' = [thread EXCEPT ![t] = [Idle EXCEPT !.result = result]]

\* Mutant: the failure count starts afresh with every request.
Enter_ResetsCount(t) ==
    /\ thread[t].step = "idle"
    /\ IF open > 0
       THEN Ends(t, "fallback") /\ UNCHANGED failures
       ELSE /\ thread' = [thread EXCEPT ![t] = [step |-> "call", attempt |-> 1, result |-> "none"]]
            /\ failures' = 0
    /\ UNCHANGED <<llm, open>>

\* Mutant: the circuit is closed by a success only, not by the clock.
Enter_NoExpiry(t) ==
    /\ thread[t].step = "idle"
    /\ IF failures >= Threshold
       THEN Ends(t, "fallback")
       ELSE thread' = [thread EXCEPT ![t] = [step |-> "call", attempt |-> 1, result |-> "none"]]
    /\ UNCHANGED <<llm, failures, open>>

\* An open circuit is only looked at here, before the first attempt.
Enter(t) ==
    /\ thread[t].step = "idle"
    /\ IF open > 0
       THEN Ends(t, "fallback")
       ELSE thread' = [thread EXCEPT ![t] = [step |-> "call", attempt |-> 1, result |-> "none"]]
    /\ UNCHANGED <<llm, failures, open>>

Succeed(t) ==
    /\ thread[t].step = "call"
    /\ llm = "up"
    /\ failures' = 0
    /\ open' = 0
    /\ Ends(t, "text")
    /\ UNCHANGED llm

NextAttempt(t) == thread[t].attempt + 1

\* A timeout, a refused connection, a status >= 400 or an unreadable reply.
FailAttempt(t) ==
    /\ thread[t].step = "call"
    /\ llm = "down"
    /\ failures' = IF failures < Threshold THEN failures + 1 ELSE failures
    /\ thread' = [thread EXCEPT
          ![t].step = IF NextAttempt(t) <= Attempts THEN "call" ELSE "conclude",
          ![t].attempt = NextAttempt(t)]
    /\ UNCHANGED <<llm, open>>

\* A reply whose content is null: .strip() raises AttributeError, which neither
\* generate_text nor build_operations_explanation catches.
Escape(t) ==
    /\ thread[t].step = "call"
    /\ llm = "odd"
    /\ Ends(t, "error")
    /\ UNCHANGED <<llm, failures, open>>

Trips == failures >= Threshold

Conclude(t) ==
    /\ thread[t].step = "conclude"
    /\ IF Trips
       THEN thread' = [thread EXCEPT ![t].step = "open"]
       ELSE Ends(t, "fallback")
    /\ UNCHANGED <<llm, failures, open>>

\* Mutant: the circuit stays open for llm_circuit_breaker_reset_seconds more.
Open_Extends(t) ==
    /\ thread[t].step = "open"
    /\ open' = open + Reset
    /\ Ends(t, "fallback")
    /\ UNCHANGED <<llm, failures>>

Open(t) ==
    /\ thread[t].step = "open"
    /\ open' = Reset
    /\ Ends(t, "fallback")
    /\ UNCHANGED <<llm, failures>>

Work(t) == Succeed(t) \/ FailAttempt(t) \/ Escape(t) \/ Conclude(t) \/ Open(t)

Next == Change \/ Tick \/ \E t \in Threads : Enter(t) \/ Work(t)

\* Time passes, a started request is executed (requests.post has a timeout and
\* the sleeps end) and explanations keep being asked for.
Fairness ==
    /\ WF_vars(Tick)
    /\ \A t \in Threads : WF_vars(Enter(t)) /\ WF_vars(Work(t))

Spec == Init /\ [][Next]_vars

FairSpec == Spec /\ Fairness

-----------------------------------------------------------------------------
TypeOK ==
    /\ llm \in Provider
    /\ failures \in 0..Threshold
    /\ open \in 0..Reset
    /\ thread \in [Threads ->
          [step : {"idle", "call", "conclude", "open"}, attempt : 0..(Attempts + 1),
           result : {"none", "text", "fallback", "error"}]]

\* A provider that stays down is left alone again and again, however many
\* threads ask: the circuit keeps opening.
KeepsOpening == <>[](llm = "down") => []<>(open > 0)

\* An outage is not remembered for ever: once the provider stays up, every
\* thread ends up getting the provider's texts and nothing else.
Recovers ==
    <>[](llm = "up") =>
       <>[](open = 0 /\ \A t \in Threads : thread[t].result \in {"none", "text"})
=============================================================================
