------------------------- MODULE PredictionService --------------------------
(***************************************************************************)
(* POST /predict: create_prediction of app/services/prediction_service.py. *)
(* A request scores the telemetry with the champion of the registry, reads *)
(* the registry a second time to find the name of the model it is going to *)
(* store, and keeps a copy of that name in the table model_versions, in    *)
(* one row that is rewritten whenever the champion changes.  Promotions    *)
(* (ModelRegistry) and other requests may happen between any two steps.    *)
(*                                                                         *)
(* Versions are numbered in the order in which they were promoted; 0 is    *)
(* "no model": the heuristic scores and the row is created with            *)
(* settings.default_model_version.                                         *)
(*                                                                         *)
(* The tables predictions and prediction_explanations are only written     *)
(* here: the steps "store" and "explain" stand for their two commits.      *)
(***************************************************************************)
EXTENDS Integers, FiniteSets, Sequences

CONSTANTS
    Requests,     \* concurrent requests; each one may predict again and again
    MaxVersion,   \* bound on the number of promotions
    MaxCrashes,   \* bound on the number of crashes
    Outages       \* whether the registry may become unreadable

ASSUME PredictionAssumption ==
    /\ IsFiniteSet(Requests)
    /\ MaxVersion \in Nat
    /\ MaxCrashes \in Nat
    /\ Outages \in BOOLEAN

Versions == 0..MaxVersion

VARIABLES
    champion,      \* the version that the registry serves
    readable,      \* whether the registry can be read
    rows,          \* model_versions: the version of each production row
    request,       \* what each request holds in memory
    crashes,       \* number of crashes so far
    overlapped     \* history: two requests were at work at once

served == <<champion, readable>>
history == <<crashes, overlapped>>

vars == <<served, rows, request, history>>

Idle == [step |-> "idle", scored |-> 0, current |-> 0, row |-> 0]

Init ==
    /\ champion = 0 /\ readable = TRUE
    /\ rows = <<>>
    /\ request = [r \in Requests |-> Idle]
    /\ crashes = 0 /\ overlapped = FALSE

\* What reading the registry gives: the champion, or nothing.
RegistryRead == IF readable THEN champion ELSE 0

-----------------------------------------------------------------------------
\* A new champion, promoted by an actor of ModelRegistry.
Promote ==
    /\ champion < MaxVersion
    /\ champion' = champion + 1
    /\ UNCHANGED <<readable, rows, request, history>>

\* The blob or the file becomes unreadable, or readable again.
ChangeReadable ==
    /\ Outages
    /\ readable' = ~readable
    /\ UNCHANGED <<champion, rows, request, history>>

\* predict_failure_risk: load_current_model, or the heuristic if that fails.
Score(r) ==
    /\ request[r].step = "idle"
    /\ request' = [request EXCEPT ![r] =
          [Idle EXCEPT !.step = "current", !.scored = RegistryRead]]
    /\ overlapped' = (overlapped \/ \E q \in Requests : request[q].step # "idle")
    /\ UNCHANGED <<served, rows, crashes>>

\* get_current_model, any exception swallowed.
GetCurrent(r) ==
    /\ request[r].step = "current"
    /\ request' = [request EXCEPT ![r].step = "query", ![r].current = RegistryRead]
    /\ UNCHANGED <<served, rows, history>>

\* Mutant: a champion that could not be read counts as a different one.
Disagrees_Unread(r, version) == version # request[r].current

\* Mutant: only a row that was created without a model is rewritten.
Disagrees_OnlyDefault(r, version) == request[r].current # 0 /\ version = 0

\* A row that disagrees with a champion that could be read will be rewritten.
Disagrees(r, version) == request[r].current # 0 /\ version # request[r].current

\* Mutant: the row is looked up by the champion's version.
QueryRow_ByVersion(r) ==
    /\ request[r].step = "query"
    /\ IF \A i \in DOMAIN rows : rows[i] # request[r].current
       THEN request' = [request EXCEPT ![r].step = "insert"]
       ELSE \E i \in DOMAIN rows :
               request' = [request EXCEPT ![r].step = "store", ![r].row = i]
    /\ UNCHANGED <<served, rows, history>>

\* first() without an ORDER BY: any production row of the default name.
QueryRow(r) ==
    /\ request[r].step = "query"
    /\ IF rows = <<>>
       THEN request' = [request EXCEPT ![r].step = "insert"]
       ELSE \E i \in DOMAIN rows :
               request' = [request EXCEPT
                   ![r].step = IF Disagrees(r, rows[i]) THEN "update" ELSE "store",
                   ![r].row = i]
    /\ UNCHANGED <<served, rows, history>>

UpdateRow(r) ==
    /\ request[r].step = "update"
    /\ rows' = [rows EXCEPT ![request[r].row] = request[r].current]
    /\ request' = [request EXCEPT ![r].step = "store"]
    /\ UNCHANGED <<served, history>>

InsertRow(r) ==
    /\ request[r].step = "insert"
    /\ rows' = Append(rows, request[r].current)
    /\ request' = [request EXCEPT ![r].step = "store", ![r].row = Len(rows')]
    /\ UNCHANGED <<served, history>>

\* After the explanation is built, the prediction is committed ...
Store(r) ==
    /\ request[r].step = "store"
    /\ request' = [request EXCEPT ![r].step = "explain"]
    /\ UNCHANGED <<served, rows, history>>

\* The version a request tells its caller: the row is read once more for the
\* answer, because the commit expired it.
Told(r) == rows[request[r].row]

\* ... and in a transaction of its own, the explanation.
Explain(r) ==
    /\ request[r].step = "explain"
    /\ request' = [request EXCEPT ![r] = Idle]
    /\ UNCHANGED <<served, rows, history>>

\* The replica ends or the database refuses: what was committed stays.
Crash(r) ==
    /\ crashes < MaxCrashes
    /\ crashes' = crashes + 1
    /\ request[r].step # "idle"
    /\ request' = [request EXCEPT ![r] = Idle]
    /\ UNCHANGED <<served, rows, overlapped>>

Step(r) ==
    GetCurrent(r) \/ QueryRow(r) \/ UpdateRow(r) \/ InsertRow(r) \/ Store(r) \/ Explain(r)

Next == Promote \/ ChangeReadable \/ \E r \in Requests : Score(r) \/ Step(r) \/ Crash(r)

\* A request that was started is executed; callers keep asking for predictions.
Fairness == \A r \in Requests : WF_vars(Score(r) \/ Step(r))

Spec == Init /\ [][Next]_vars

FairSpec == Spec /\ Fairness
-----------------------------------------------------------------------------
Steps == {"idle", "current", "query", "insert", "update", "store", "explain"}

\* Several first requests may each create the row, but never more of them than
\* there are requests, counting those about to insert.
RowsAreBounded ==
    Len(rows) + Cardinality({r \in Requests : request[r].step = "insert"})
       <= Cardinality(Requests)

TypeOK ==
    /\ champion \in Versions /\ readable \in BOOLEAN
    /\ crashes \in 0..MaxCrashes /\ overlapped \in BOOLEAN
    /\ rows \in Seq(Versions)
    /\ request \in [Requests -> [step : Steps, scored : Versions, current : Versions,
                                 row : 0..Len(rows)]]
    /\ RowsAreBounded
    /\ \A r \in Requests : request[r].step \in {"update", "store", "explain"}
                               => request[r].row \in DOMAIN rows

\* The caller is never told a version older than the one that scored, although
\* the registry is read twice and the name comes from a stored row, unless the
\* second read failed or another request wrote the row.
AnswerIsNoOlder ==
    ~overlapped =>
       \A r \in Requests :
          (request[r].step = "explain" /\ request[r].current # 0) => Told(r) >= request[r].scored

\* The copy of the champion in model_versions never goes back to an older
\* version while requests follow each other, over any outage and crash.
RowMovesForward ==
    [][~overlapped' => \A i \in DOMAIN rows : rows'[i] >= rows[i]]_vars

\* Once promotions and outages stop, a single row of model_versions ends up
\* naming the champion, although a slow request may still put an older version
\* back.
RowConverges ==
    <>[]readable => <>[](Len(rows) = 1 => rows[1] = champion)
=============================================================================
