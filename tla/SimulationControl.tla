-------------------------- MODULE SimulationControl --------------------------
(***************************************************************************)
(* The switch of the telemetry ingestion: the table                        *)
(* simulation_control_state and the sessions that use it                   *)
(* (get_or_create_simulation_state and set_simulation_running in           *)
(* app/services/streaming_service.py), opened by the admin endpoints of    *)
(* app/api/routes_admin.py and, in every cycle, by the worker thread of an *)
(* API replica.                                                            *)
(*                                                                         *)
(* The table is meant to have one row but nothing makes it so: whoever     *)
(* finds it empty inserts one.  A session reads the row once and writes it *)
(* in a later statement; SQLAlchemy then sends is_running only if it       *)
(* differs from the value the session has loaded.                          *)
(***************************************************************************)
EXTENDS Integers, FiniteSets, Sequences, SequencesExt

CONSTANTS
    Admins,      \* requests of admins
    Workers,     \* worker threads of the API replicas
    MaxCommands  \* bound on the number of requests to start or stop

Sessions == Admins \cup Workers

ASSUME SimulationControlAssumption ==
    /\ Admins \cap Workers = {}
    /\ IsFiniteSet(Sessions)
    /\ MaxCommands \in Nat

VARIABLES
    rows,     \* is_running of each row, in the order of insertion
    session,  \* what each session is doing and holds
    asked,    \* how many requests to start or stop were made
    \* History variables, read by no action.
    last,     \* what the last request that was carried out asked for
    raced     \* two commands were under way at once, or two sessions inserting

controlVars == <<rows, session, asked, last, raced>>

\* What a request asks for.  "look" leaves the row as it is: it is the question
\* of a worker, of GET /simulation/status and of the bootstrap in app/main.py.
Wishes == {"start", "stop", "look"}

\* step: where the session is; row, seen: the row it found and the value of
\* is_running it loaded.
Idle == [step |-> "idle", wish |-> "look", row |-> 0, seen |-> FALSE]

ControlInit ==
    /\ rows = <<>>
    /\ session = [s \in Sessions |-> Idle]
    /\ asked = 0
    /\ last = "none"
    /\ raced = FALSE

-----------------------------------------------------------------------------
(***************************************************************************)
(* The statements of a session.                                            *)
(***************************************************************************)
\* The session of s goes on as next.
Turn(s, next) == session' = [session EXCEPT ![s] = next]

\* Another session is about to write a row.
Commanding(s) == \E other \in Sessions \ {s} : session[other].wish # "look"

\* Another session is about to insert a row.
Inserting(s) == \E other \in Sessions \ {s} : session[other].step = "missing"

Open(s, wish) ==
    /\ session[s].step = "idle"
    /\ Turn(s, [Idle EXCEPT !.step = "query", !.wish = wish])
    /\ asked' = IF wish = "look" THEN asked ELSE asked + 1
    /\ raced' = (raced \/ (wish # "look" /\ Commanding(s)))
    /\ UNCHANGED <<rows, last>>

\* Mutant: only a row that says "running" counts as found.
Query_OnlyRunning(s) ==
    /\ session[s].step = "query"
    /\ \/ /\ TRUE \notin ToSet(rows)
          /\ Turn(s, [session[s] EXCEPT !.step = "missing"])
          /\ raced' = (raced \/ Inserting(s))
       \/ \E r \in DOMAIN rows :
             /\ rows[r]
             /\ Turn(s, [session[s] EXCEPT !.step = "loaded", !.row = r, !.seen = TRUE])
             /\ UNCHANGED raced
    /\ UNCHANGED <<rows, asked, last>>

\* query(...).first() without an order: any row, if there is one.
Query(s) ==
    /\ session[s].step = "query"
    /\ \/ /\ rows = <<>>
          /\ Turn(s, [session[s] EXCEPT !.step = "missing"])
          /\ raced' = (raced \/ Inserting(s))
       \/ \E r \in DOMAIN rows :
             /\ Turn(s, [session[s] EXCEPT !.step = "loaded", !.row = r, !.seen = rows[r]])
             /\ UNCHANGED raced
    /\ UNCHANGED <<rows, asked, last>>

\* Nothing stops a second session that also found the table empty.
Insert(s) ==
    /\ session[s].step = "missing"
    /\ rows' = Append(rows, FALSE)
    /\ Turn(s, [session[s] EXCEPT !.step = "refresh", !.row = Len(rows) + 1])
    /\ UNCHANGED <<asked, last, raced>>

\* db.refresh after the insert; other sessions see the row by now.
Refresh(s) ==
    /\ session[s].step = "refresh"
    /\ Turn(s, [session[s] EXCEPT !.step = "loaded", !.seen = rows[session[s].row]])
    /\ UNCHANGED <<rows, asked, last, raced>>

GetOrCreate(s) == Query(s) \/ Insert(s) \/ Refresh(s)

\* is_running of the row after the UPDATE of s, which carries the column only
\* if the new value differs from the loaded one.
Sent(s) ==
    LET wanted == session[s].wish = "start"
    IN  IF wanted # session[s].seen THEN wanted ELSE rows[session[s].row]

\* set_simulation_running writes, commits and answers.
Command(s) ==
    /\ session[s].step = "loaded"
    /\ session[s].wish # "look"
    /\ rows' = [rows EXCEPT ![session[s].row] = Sent(s)]
    /\ Turn(s, Idle)
    /\ last' = session[s].wish
    /\ UNCHANGED <<asked, raced>>

\* The session is closed after a look.
Answer(s) ==
    /\ session[s].step = "loaded"
    /\ session[s].wish = "look"
    /\ Turn(s, Idle)
    /\ UNCHANGED <<rows, asked, last, raced>>

\* A statement raises: the session ends and what it had not committed is gone.
SessionFails(s) ==
    /\ session[s].step # "idle"
    /\ Turn(s, Idle)
    /\ UNCHANGED <<rows, asked, last, raced>>

\* GET /simulation/status, POST /simulation/start and POST /simulation/stop.
Ask(a) == \E wish \in Wishes : (wish = "look" \/ asked < MaxCommands) /\ Open(a, wish)

Administer(a) == Ask(a) \/ GetOrCreate(a) \/ Command(a) \/ Answer(a)

-----------------------------------------------------------------------------
ControlTypeOK ==
    /\ rows \in Seq(BOOLEAN)
    /\ Len(rows) <= Cardinality(Sessions)
    /\ asked \in 0..MaxCommands
    /\ last \in {"none", "start", "stop"}
    /\ raced \in BOOLEAN
    /\ \A s \in Sessions :
          /\ session[s].step \in {"idle", "query", "missing", "refresh", "loaded"}
          /\ session[s].wish \in Wishes
          /\ session[s].row \in 0..Len(rows)
          /\ session[s].step \in {"refresh", "loaded"} => session[s].row # 0
          /\ session[s].seen \in BOOLEAN

\* As long as no two commands and no two insertions race, whatever else reads the
\* table or fails, there is one row and it says what the last command asked for:
\* "Setting simulation start enables ingestion loop", "stop pauses" it (docs/18).
CommandsTakeEffect ==
    ~raced =>
       /\ Len(rows) <= 1
       /\ (last # "none") => rows = <<last = "start">>
=============================================================================
