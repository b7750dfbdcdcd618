---------------------------- MODULE RequestGuards ----------------------------
(***************************************************************************)
(* The two guards in front of the endpoints: InMemoryRateLimiter           *)
(* (app/core/rate_limit.py), which admits at most Limit requests of a      *)
(* client per window, and LoginFailureGuard (app/core/auth_protection.py), *)
(* which refuses logins after MaxFailures failed ones; and POST            *)
(* /auth/login, which passes through both.                                 *)
(*                                                                         *)
(* One process and one client: each guard keeps one deque of time stamps,  *)
(* used by the threads of the thread pool without a lock.  A thread can    *)
(* lose the interpreter where CPython 3.11 looks for it: after a call and  *)
(* at the jump back of a loop.                                             *)
(*                                                                         *)
(* Time is kept as what has passed since an instant: the age of an entry,  *)
(* the lag of a thread since it called time().                             *)
(***************************************************************************)
EXTENDS Integers, FiniteSets, Sequences, SequencesExt

CONSTANTS
    Threads,        \* threads of the pool that serve the client
    PredictLimit,   \* requests per PredictWindow
    PredictWindow,
    LoginLimit,     \* login requests per LoginWindow
    LoginWindow,
    MaxFailures,    \* failed logins per FailureWindow
    FailureWindow,
    MaxLag          \* bound on the time that passes while a thread holds a clock

ASSUME RequestGuardsAssumption ==
    /\ IsFiniteSet(Threads)
    /\ PredictLimit \in Nat \ {0} /\ PredictWindow \in Nat
    /\ LoginLimit \in Nat \ {0} /\ LoginWindow \in Nat
    /\ MaxFailures \in Nat \ {0} /\ FailureWindow \in Nat
    /\ MaxLag \in Nat

VARIABLES
    scope,    \* the endpoint that the client calls
    deque,    \* the deques of time stamps, oldest first, as ages
    table,    \* the deque of the lock key in _attempts, 0 when there is none
    thread,   \* what each thread is doing
    \* History variables, read by no action.
    admitted, \* ages of the admissions by the limiter
    failed,   \* ages of the failed logins since the last successful one
    robbed    \* time since a purge took an entry that was not stale, or kept a
              \* failed login from being recorded

vars == <<scope, deque, table, thread, admitted, failed, robbed>>

\* Deque 0 is that of the limiter.
Hits == 0
Deques == 0..Cardinality(Threads) + 1

\* Ages beyond this one differ in nothing.
Old == Max({PredictWindow, LoginWindow, FailureWindow}) + MaxLag + 1

Limit == IF scope = "predict" THEN PredictLimit ELSE LoginLimit
LimitWindow == IF scope = "predict" THEN PredictWindow ELSE LoginWindow

\* call: the function the thread is in; step: where; lag: since its time();
\* q: the deque it holds.
Steps == {"idle", "enter", "scan", "rescan", "pop", "append", "verify"}
Calls == {"check", "ensure_allowed", "register_failure"}
Idle == [call |-> "check", step |-> "idle", lag |-> 0, q |-> 0]

Init ==
    /\ scope \in {"predict", "auth_login"}
    /\ deque = [d \in Deques |-> <<>>]
    /\ table = 0
    /\ thread = [t \in Threads |-> Idle]
    /\ admitted = <<>>
    /\ failed = <<>>
    /\ robbed = Old

-----------------------------------------------------------------------------
(***************************************************************************)
(* The purge loop, which both guards share.                                *)
(***************************************************************************)
\* Thread t goes on as th; a deque that nobody refers to any more is gone.
Become(t, th, tbl, content) ==
    /\ thread' = [thread EXCEPT ![t] = th]
    /\ table' = tbl
    /\ deque' = [d \in Deques |->
          IF d \in {Hits, tbl, th.q} \cup {thread[u].q : u \in Threads \ {t}}
          THEN content[d] ELSE <<>>]

Goto(t, step) == Become(t, [thread[t] EXCEPT !.step = step], table, deque)

Leave(t) == Become(t, Idle, table, deque)

\* Function call begins with now = time().
Call(t, call) == Become(t, [Idle EXCEPT !.call = call, !.step = "scan"], table, deque)

Window(t) == IF thread[t].call = "check" THEN LimitWindow ELSE FailureWindow

\* "queue and queue[0] < threshold"
Stale(t, q) ==
    /\ deque[q] # <<>>
    /\ Head(deque[q]) - thread[t].lag > Window(t)

\* Mutant: a request that is refused counts as a hit, too.
Decide_Records(t, q, tbl) ==
    LET held == [thread[t] EXCEPT !.q = q]
        n == Len(deque[q])
        recorded == [deque EXCEPT ![q] = Append(@, thread[t].lag)]
    IN  CASE thread[t].call = "check" ->
                IF n >= Limit THEN Become(t, Idle, tbl, recorded)
                ELSE Become(t, [held EXCEPT !.step = "append"], tbl, deque)
          [] thread[t].call = "ensure_allowed" ->
                IF n >= MaxFailures THEN Become(t, Idle, tbl, recorded)
                ELSE Become(t, [Idle EXCEPT !.step = "verify"], tbl, deque)
          [] thread[t].call = "register_failure" ->
                Become(t, [held EXCEPT !.step = "append", !.lag = 0], tbl, deque)

\* Mutant: the limits are exceeded before they are enforced.
Decide_OffByOne(t, q, tbl) ==
    LET held == [thread[t] EXCEPT !.q = q]
        n == Len(deque[q])
        next == CASE thread[t].call = "check" ->
                        IF n > Limit THEN Idle ELSE [held EXCEPT !.step = "append"]
                  [] thread[t].call = "ensure_allowed" ->
                        IF n > MaxFailures THEN Idle ELSE [Idle EXCEPT !.step = "verify"]
                  [] thread[t].call = "register_failure" ->
                        [held EXCEPT !.step = "append", !.lag = 0]
    IN  Become(t, next, tbl, deque)

\* What follows the loop.  check and ensure_allowed compare the length, and a
\* refused request leaves no trace; register_failure reads the clock again.
Decide(t, q, tbl) ==
    LET held == [thread[t] EXCEPT !.q = q]
        n == Len(deque[q])
        next == CASE thread[t].call = "check" ->
                        IF n >= Limit THEN Idle ELSE [held EXCEPT !.step = "append"]
                  [] thread[t].call = "ensure_allowed" ->
                        IF n >= MaxFailures THEN Idle ELSE [Idle EXCEPT !.step = "verify"]
                  [] thread[t].call = "register_failure" ->
                        [held EXCEPT !.step = "append", !.lag = 0]
    IN  Become(t, next, tbl, deque)

\* The defaultdict hands out the deque of the key, a new one if there is none.
Unused == CHOOSE d \in Deques : d # Hits /\ d # table /\ \A t \in Threads : thread[t].q # d

Lookup(t) ==
    IF thread[t].call = "check" THEN Hits ELSE IF table = 0 THEN Unused ELSE table

\* The deque is looked up, the first test made and, if it holds, the head popped.
Scan(t) ==
    LET q == Lookup(t)
        tbl == IF thread[t].call = "check" THEN table ELSE q
    IN  /\ thread[t].step = "scan"
        /\ IF Stale(t, q)
           THEN Become(t, [thread[t] EXCEPT !.step = "rescan", !.q = q], tbl,
                       [deque EXCEPT ![q] = Tail(@)])
           ELSE Decide(t, q, tbl)
        /\ UNCHANGED <<scope, admitted, failed, robbed>>

\* The test at the end of the loop; a thread may switch before the jump back.
Rescan(t) ==
    /\ thread[t].step = "rescan"
    /\ IF Stale(t, thread[t].q) THEN Goto(t, "pop") ELSE Decide(t, thread[t].q, table)
    /\ UNCHANGED <<scope, admitted, failed, robbed>>

\* popleft, whatever is the head by now; an empty deque raises IndexError.
Pop(t) ==
    LET q == thread[t].q
        robs == IF deque[q] = <<>> THEN thread[t].call = "register_failure" ELSE ~Stale(t, q)
    IN  /\ thread[t].step = "pop"
        /\ IF deque[q] = <<>> THEN Leave(t)
           ELSE Become(t, [thread[t] EXCEPT !.step = "rescan"], table, [deque EXCEPT ![q] = Tail(@)])
        /\ robbed' = IF robs THEN 0 ELSE robbed
        /\ UNCHANGED <<scope, admitted, failed>>

Purge(t) == Scan(t) \/ Rescan(t) \/ Pop(t)

-----------------------------------------------------------------------------
(***************************************************************************)
(* The endpoints.                                                          *)
(***************************************************************************)
\* A request reaches limit_by_ip, which calls check.
Arrive(t) ==
    /\ thread[t].step = "idle"
    /\ Call(t, "check")
    /\ UNCHANGED <<scope, admitted, failed, robbed>>

Appended(t) == [deque EXCEPT ![thread[t].q] = Append(@, thread[t].lag)]

\* check appends now; the login endpoint goes on in a thread of its own.
Admit(t) ==
    /\ thread[t].call = "check"
    /\ thread[t].step = "append"
    /\ Become(t, IF scope = "predict" THEN Idle ELSE [Idle EXCEPT !.step = "enter"], table, Appended(t))
    /\ admitted' = Append(admitted, 0)
    /\ UNCHANGED <<scope, failed, robbed>>

Enter(t) ==
    /\ thread[t].step = "enter"
    /\ Call(t, "ensure_allowed")
    /\ UNCHANGED <<scope, admitted, failed, robbed>>

\* The password is wrong.
Fail(t) ==
    /\ thread[t].step = "verify"
    /\ Call(t, "register_failure")
    /\ failed' = Append(failed, 0)
    /\ UNCHANGED <<scope, admitted, robbed>>

\* register_failure appends the time.
Register(t) ==
    /\ thread[t].call = "register_failure"
    /\ thread[t].step = "append"
    /\ Become(t, Idle, table, Appended(t))
    /\ UNCHANGED <<scope, admitted, failed, robbed>>

\* The password is right: register_success takes the deque out of the table.
Succeed(t) ==
    /\ thread[t].step = "verify"
    /\ Become(t, Idle, 0, deque)
    /\ failed' = <<>>
    /\ UNCHANGED <<scope, admitted, robbed>>

Work(t) ==
    Purge(t) \/ Admit(t) \/ Enter(t) \/ Fail(t) \/ Register(t) \/ Succeed(t)

(***************************************************************************)
(* Time.                                                                   *)
(***************************************************************************)
HoldsClock(t) == thread[t].step \in {"scan", "rescan", "pop", "append"}

Aged(ages) == [i \in DOMAIN ages |-> Min({ages[i] + 1, Old})]

\* The ages up to window, of ages that are listed oldest first.
Recent(ages, window) ==
    SubSeq(ages, Cardinality({i \in DOMAIN ages : ages[i] > window}) + 1, Len(ages))

Tick ==
    /\ \A t \in Threads : HoldsClock(t) => thread[t].lag < MaxLag
    /\ deque' = [d \in Deques |-> Aged(deque[d])]
    /\ thread' = [t \in Threads |->
          IF HoldsClock(t) THEN [thread[t] EXCEPT !.lag = @ + 1] ELSE thread[t]]
    /\ admitted' = Recent(Aged(admitted), LimitWindow)
    /\ failed' = Recent(Aged(failed), FailureWindow)
    /\ robbed' = Min({robbed + 1, Old})
    /\ UNCHANGED <<scope, table>>

Next ==
    \/ Tick
    \/ \E t \in Threads : Arrive(t) \/ Work(t)

Spec == Init /\ [][Next]_vars

\* Time passes, a thread goes on with its request, and the client keeps asking.
Fairness == WF_vars(Tick) /\ \A t \in Threads : WF_vars(Arrive(t) \/ Work(t))

FairSpec == Spec /\ Fairness

-----------------------------------------------------------------------------
TypeOK ==
    /\ scope \in {"predict", "auth_login"}
    /\ deque \in [Deques -> Seq(0..Old)]
    /\ table \in Deques
    /\ thread \in [Threads -> [call : Calls, step : Steps, lag : 0..MaxLag, q : Deques]]
    /\ admitted \in Seq(0..LimitWindow)
    /\ failed \in Seq(0..FailureWindow)
    /\ robbed \in 0..Old
    /\ Len(deque[Hits]) < Limit + Cardinality(Threads)

\* Requests of other threads that may be between the comparison and the append.
Others == Cardinality(Threads) - 1

\* Lately no purge took away what counted.
NotRobbed == robbed > Max({LimitWindow, FailureWindow})

\* The limiter admits at most Limit requests per window ("Rate limit exceeded",
\* rate_limit.py) and one more for each thread that counted before the others
\* appended; a window is shorter by what a thread's clock may lag.  Only a purge
\* that pops the head another thread left it can break this.
LimitIsKept == NotRobbed => Len(Recent(admitted, LimitWindow - MaxLag)) <= Limit + Others

\* After MaxFailures failed logins without a successful one in between, further
\* ones are refused (test_auth.py), but for those that were let through before.
FailuresAreBounded ==
    NotRobbed => Len(Recent(failed, FailureWindow - MaxLag)) <= MaxFailures + Others

\* A client that keeps asking is let in again and again, by the limiter and by
\* the login guard: both refusals end with their window.
Counted == \E t \in Threads : thread[t].call = "check" /\ thread[t].step = "append"
Verifying == \E t \in Threads : thread[t].step = "verify"

GuardsReopen ==
    /\ []<>Counted
    /\ scope = "auth_login" => []<>Verifying
=============================================================================
