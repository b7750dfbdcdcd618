---------------------------- MODULE ModelRegistry ----------------------------
(***************************************************************************)
(* The registry document under its concurrent clients: API threads and     *)
(* replicas, the training job and the drift CronJob (app/ml/registry.py,   *)
(* app/ml/train.py, app/services/ml_orchestrator.py).  Every operation of  *)
(* registry.py is an unlocked read-modify-write of the whole document: it  *)
(* loads a copy, edits the copy, perhaps moves the MLflow alias, and saves *)
(* the copy.  Steps of different clients interleave between any of these.  *)
(*                                                                         *)
(* A client runs one request.  task[c] is the operation it is in, step[c]  *)
(* where it is inside that operation, job[c] the training or report it is  *)
(* about and copy[c] the document it has loaded and edited.                *)
(***************************************************************************)
EXTENDS RegistryDocument

CONSTANTS
    Clients,   \* threads and processes that use the registry
    Backend,   \* MODEL_REGISTRY_BACKEND: "local" file or "blob"
    Faults     \* which of "crash", "read", "write" and "alias" may occur

ASSUME BackendKnown == Backend \in {"local", "blob"}
ASSUME FaultsKnown  == Faults \subseteq {"crash", "read", "write", "alias"}
ASSUME ReportsAreNoTrainings == Reports \cap Trainings = {} /\ None \notin Reports

VARIABLES
    store,     \* the last document that was saved
    file,      \* local backend only: what registry.json holds
    alias,     \* the training whose model version the MLflow alias names
    task, step, job, copy,
    plan,      \* per training: the request's flags and the f1 verdict
    started,   \* trainings that were requested, ids already drawn
    filed,     \* drift reports that were built, ids already drawn
    \* History variables, read by no action.
    registered, \* models whose register_model call has saved
    endorsed    \* models whose promotion an admin has asked for

vars == <<store, file, alias, task, step, job, copy, plan, started, filed,
          registered, endorsed>>

-----------------------------------------------------------------------------
(***************************************************************************)
(* Types                                                                   *)
(***************************************************************************)

\* Operations that load and save the document.
Operation == {"register_run", "register_model", "complete_run", "fail_run",
              "promote", "report"}

Task == Operation \cup {"idle", "fit"}

\* "load": nothing read yet.  "sync": copy edited, alias not yet moved.
\* "save": ready to save.  "write": registry.json is truncated, not written.
Step == {"load", "sync", "save", "write"}

Plan == [register : BOOLEAN,    \* payload.register_model
         promote  : BOOLEAN,    \* /models/train-and-promote, not /models/train
         good     : BOOLEAN]    \* f1_score >= auto_promote_min_f1_score

TypeOK ==
    /\ store \in Document
    /\ file \in {"whole", "empty", "mixed"}
    /\ alias \in Trainings \cup {None}
    /\ task \in [Clients -> Task]
    /\ step \in [Clients -> Step]
    /\ job \in [Clients -> Trainings \cup Reports \cup {None}]
    /\ copy \in [Clients -> Document]
    /\ plan \in [Trainings -> Plan]
    /\ started \subseteq Trainings
    /\ filed \subseteq Reports
    /\ registered \subseteq Trainings
    /\ endorsed \subseteq Trainings

Init ==
    /\ store = DefaultRegistry
    /\ file = "whole"
    /\ alias = None
    /\ task = [c \in Clients |-> "idle"]
    /\ step = [c \in Clients |-> "load"]
    /\ job = [c \in Clients |-> None]
    /\ copy = [c \in Clients |-> DefaultRegistry]
    /\ plan = [t \in Trainings |-> [register |-> FALSE, promote |-> FALSE, good |-> FALSE]]
    /\ started = {}
    /\ filed = {}
    /\ registered = {}
    /\ endorsed = {}

-----------------------------------------------------------------------------
(***************************************************************************)
(* One operation on the document                                           *)
(***************************************************************************)

\* Client c turns to the first step of operation t, or to "idle" or "fit".
Goto(c, t) ==
    /\ task' = [task EXCEPT ![c] = t]
    /\ step' = [step EXCEPT ![c] = "load"]
    /\ job' = IF t = "idle" THEN [job EXCEPT ![c] = None] ELSE job
    /\ copy' = [copy EXCEPT ![c] = DefaultRegistry]

\* What load_registry may return; empty when it raises.  read_json hides any
\* failure of the download as None, and load_registry then falls back to the
\* local registry, which no container has: the default document.
LoadResults ==
    IF Backend = "blob"
    THEN {store} \cup (IF "read" \in Faults THEN {DefaultRegistry} ELSE {})
    ELSE IF file = "whole" THEN {store} ELSE {}

\* Mutant: promote_model does not check that it has found the model.
Finds_AnyModel(c, doc) ==
    task[c] \in {"complete_run", "fail_run"} => HasRun(doc, job[c])

\* The lookup that an operation makes in the loaded document.
Finds(c, doc) ==
    CASE task[c] \in {"complete_run", "fail_run"} -> HasRun(doc, job[c])
      [] task[c] = "promote"                      -> HasModel(doc, job[c])
      [] OTHER                                    -> TRUE

\* Mutant: train_model registers every model in stage production.
Edited_NoThreshold(c, doc) ==
    CASE task[c] = "register_run"   -> WithRun(doc, job[c])
      [] task[c] = "register_model" -> WithModel(doc, job[c], "production")
      [] task[c] = "complete_run"   -> WithRunStatus(doc, job[c], "completed")
      [] task[c] = "fail_run"       -> WithRunStatus(doc, job[c], "failed")
      [] task[c] = "promote"        -> WithPromotion(doc, job[c])
      [] task[c] = "report"         -> WithReport(doc, job[c])

Edited(c, doc) ==
    CASE task[c] = "register_run"   -> WithRun(doc, job[c])
      [] task[c] = "register_model" ->
            WithModel(doc, job[c], IF plan[job[c]].good THEN "production" ELSE "candidate")
      [] task[c] = "complete_run"   -> WithRunStatus(doc, job[c], "completed")
      [] task[c] = "fail_run"       -> WithRunStatus(doc, job[c], "failed")
      [] task[c] = "promote"        -> WithPromotion(doc, job[c])
      [] task[c] = "report"         -> WithReport(doc, job[c])

\* Mutant: register_model does not move the alias.
MovesAlias_OnlyPromotion(c) == task[c] = "promote"

\* Operations that call _sync_mlflow_production_alias before they save.
MovesAlias(c) ==
    \/ task[c] = "promote"
    \/ task[c] = "register_model" /\ plan[job[c]].good

Load(c) ==
    /\ task[c] \in Operation
    /\ step[c] = "load"
    /\ \E doc \in LoadResults :
          /\ Finds(c, doc)
          /\ copy' = [copy EXCEPT ![c] = Edited(c, doc)]
    /\ step' = [step EXCEPT ![c] = IF MovesAlias(c) THEN "sync" ELSE "save"]
    /\ UNCHANGED <<store, file, alias, task, job, plan, started, filed,
                   registered, endorsed>>

\* Mutant: train_model has no exception handler.
Unwind_NoHandler(c) == Goto(c, "idle")

\* Mutant: the handler tries again when marking the run failed raises.
Unwind_Retries(c) ==
    Goto(c, IF task[c] \in {"fit", "register_model", "complete_run", "fail_run"}
            THEN "fail_run" ELSE "idle")

\* An exception leaves the operation.  Inside the try block of train_model it
\* leads to the handler, which marks the run failed and raises again.
Unwind(c) ==
    Goto(c, IF task[c] \in {"fit", "register_model", "complete_run"}
            THEN "fail_run" ELSE "idle")

\* The document is unreadable, or lacks the run or model that is looked up.
LoadRaises(c) ==
    /\ task[c] \in Operation
    /\ step[c] = "load"
    /\ LoadResults = {} \/ \E doc \in LoadResults : ~Finds(c, doc)
    /\ Unwind(c)
    /\ UNCHANGED <<store, file, alias, plan, started, filed, registered, endorsed>>

\* set_production_alias catches every exception and reports it as a status,
\* so the operation goes on whether or not the alias has moved.
SyncAlias(c) ==
    /\ step[c] = "sync"
    /\ alias' \in {job[c]} \cup (IF "alias" \in Faults THEN {alias} ELSE {})
    /\ step' = [step EXCEPT ![c] = "save"]
    /\ UNCHANGED <<store, file, task, job, copy, plan, started, filed,
                   registered, endorsed>>

\* Mutant: the orchestrator promotes without comparing the f1 score.
Continuation_NoThreshold(c) ==
    CASE task[c] = "register_run"   -> "fit"
      [] task[c] = "register_model" -> "complete_run"
      [] task[c] = "complete_run"   -> IF plan[job[c]].promote THEN "promote" ELSE "idle"
      [] OTHER                      -> "idle"

\* Where a client goes when its operation has saved.
Continuation(c) ==
    CASE task[c] = "register_run"   -> "fit"
      [] task[c] = "register_model" -> "complete_run"
      [] task[c] = "complete_run"   ->
            IF plan[job[c]].promote /\ plan[job[c]].good THEN "promote" ELSE "idle"
      [] OTHER                      -> "idle"

Saved(c) ==
    /\ store' = copy[c]
    /\ registered' = IF task[c] = "register_model" THEN registered \cup {job[c]}
                                                   ELSE registered
    /\ Goto(c, Continuation(c))

\* write_json replaces the blob in one upload.
SaveBlob(c) ==
    /\ Backend = "blob"
    /\ step[c] = "save"
    /\ Saved(c)
    /\ UNCHANGED <<file, alias, plan, started, filed, endorsed>>

\* The upload raises and leaves the blob as it was.
SaveBlobRaises(c) ==
    /\ Backend = "blob"
    /\ "write" \in Faults
    /\ step[c] = "save"
    /\ Unwind(c)
    /\ UNCHANGED <<store, file, alias, plan, started, filed, registered, endorsed>>

\* write_text opens registry.json for writing, which truncates it ...
SaveLocal(c) ==
    /\ Backend = "local"
    /\ step[c] = "save"
    /\ file' = "empty"
    /\ step' = [step EXCEPT ![c] = "write"]
    /\ UNCHANGED <<store, alias, task, job, copy, plan, started, filed,
                   registered, endorsed>>

\* ... and then writes from offset 0.  Over the text of another writer that
\* came in between, a shorter text leaves that one's tail behind: no JSON.
WriteLocal(c) ==
    /\ step[c] = "write"
    /\ file' \in IF file = "empty" THEN {"whole"} ELSE {"whole", "mixed"}
    /\ Saved(c)
    /\ UNCHANGED <<alias, plan, started, filed, endorsed>>

\* save_registry: the blob if one is configured, the file otherwise.
Save(c) ==
    IF Backend = "blob" THEN SaveBlob(c) \/ SaveBlobRaises(c)
                        ELSE SaveLocal(c) \/ WriteLocal(c)

-----------------------------------------------------------------------------
(***************************************************************************)
(* Requests                                                                *)
(***************************************************************************)

\* POST /models/train, /models/train-and-promote or the training job.
StartTraining(c, t, register, promote) ==
    /\ task[c] = "idle"
    /\ t \notin started
    /\ started' = started \cup {t}
    /\ plan' = [plan EXCEPT ![t].register = register, ![t].promote = promote]
    /\ task' = [task EXCEPT ![c] = "register_run"]
    /\ job' = [job EXCEPT ![c] = t]
    /\ UNCHANGED <<store, file, alias, step, copy, filed, registered, endorsed>>

\* Mutant: train_model_service drops the register_model flag.
Fit_DropsFlag(c, good) ==
    /\ task[c] = "fit"
    /\ plan' = [plan EXCEPT ![job[c]].good = good]
    /\ Goto(c, "complete_run")
    /\ UNCHANGED <<store, file, alias, started, filed, registered, endorsed>>

\* Load the data, fit, score, dump the artifact, log the run to MLflow.
Fit(c, good) ==
    /\ task[c] = "fit"
    /\ plan' = [plan EXCEPT ![job[c]].good = good]
    /\ Goto(c, IF plan[job[c]].register THEN "register_model" ELSE "complete_run")
    /\ UNCHANGED <<store, file, alias, started, filed, registered, endorsed>>

FitRaises(c) ==
    /\ task[c] = "fit"
    /\ Unwind(c)
    /\ UNCHANGED <<store, file, alias, plan, started, filed, registered, endorsed>>

\* POST /models/{model_id}/promote.  The id is whatever the admin typed.
StartPromotion(c, t) ==
    /\ task[c] = "idle"
    /\ task' = [task EXCEPT ![c] = "promote"]
    /\ job' = [job EXCEPT ![c] = t]
    /\ endorsed' = endorsed \cup {t}
    /\ UNCHANGED <<store, file, alias, step, copy, plan, started, filed, registered>>

\* evaluate_data_drift files its report (CronJob or POST /drift/evaluate).
StartReport(c, r) ==
    /\ task[c] = "idle"
    /\ r \notin filed
    /\ filed' = filed \cup {r}
    /\ task' = [task EXCEPT ![c] = "report"]
    /\ job' = [job EXCEPT ![c] = r]
    /\ UNCHANGED <<store, file, alias, step, copy, plan, started, registered, endorsed>>

\* Mutant: whoever restarts the process marks its run failed without looking
\* at how far it had come.
Crash_MarksFailed(c) ==
    /\ "crash" \in Faults
    /\ task[c] \in {"fit", "register_model", "complete_run"}
    /\ Goto(c, "fail_run")
    /\ UNCHANGED <<store, file, alias, plan, started, filed, registered, endorsed>>

\* The process of c dies between two steps; what it held is gone.
Crash(c) ==
    /\ "crash" \in Faults
    /\ task[c] # "idle"
    /\ Goto(c, "idle")
    /\ UNCHANGED <<store, file, alias, plan, started, filed, registered, endorsed>>

-----------------------------------------------------------------------------
Progress(c) ==
    \/ Load(c)
    \/ LoadRaises(c)
    \/ SyncAlias(c)
    \/ Save(c)
    \/ \E good \in BOOLEAN : Fit(c, good)
    \/ FitRaises(c)

Request(c) ==
    \/ \E t \in Trainings, register, promote \in BOOLEAN :
          StartTraining(c, t, register, promote)
    \/ \E t \in Trainings : StartPromotion(c, t)
    \/ \E r \in Reports : StartReport(c, r)

Next == \E c \in Clients : Progress(c) \/ Request(c) \/ Crash(c)

Spec == Init /\ [][Next]_vars

\* A thread that runs keeps running: no client waits for another, and nothing
\* obliges a user to send a request or a process to crash.
Fairness == \A c \in Clients : WF_vars(Progress(c))

FairSpec == Spec /\ Fairness
-----------------------------------------------------------------------------
(***************************************************************************)
(* Properties that hold whatever the clients' interleaving and the faults. *)
(***************************************************************************)

\* Once some model in the registry is in stage production or the pointer is
\* set, the model that get_current_model_metadata serves is in production: no
\* interleaving of registrations, promotions and lost updates leaves the
\* pointer on an archived model, a candidate or a model that is not listed.
ServedModelIsPromoted ==
    Champions(store) # {} \/ store.production # None
        => CurrentModel(store) \in Champions(store)

\* A model whose f1 score is below auto_promote_min_f1_score is never in
\* production, now or earlier, unless an admin asked for its promotion.
ThresholdGate ==
    \A t \in Trainings :
        store.stage[t] \in {"production", "archived"} => plan[t].good \/ t \in endorsed

\* Every client gets out of the operation it is in: the exception handlers of
\* train_model, which run an operation that can raise again, do not loop.
RequestsEnd == \A c \in Clients : task[c] # "idle" ~> task[c] = "idle"

-----------------------------------------------------------------------------
(***************************************************************************)
(* Properties that need clients that take turns.                           *)
(***************************************************************************)

\* A model whose registration has returned stays in the registry for as long as
\* registry.json can be read: "Lightweight model registry and training runs are
\* tracked in `models/registry.json`" (app/ml/README.md).
NoModelIsLost == file = "whole" => registered \subseteq Models(store)

\* A run that says "failed" left no model behind, and a run that says
\* "completed" and was asked to register its model has it in the registry.
RunsTellTheTruth ==
    \A t \in Trainings :
        /\ store.run[t] = "failed" => ~HasModel(store, t)
        /\ store.run[t] = "completed" /\ plan[t].register => HasModel(store, t)

\* Nobody starts an operation while another client is inside one.
TakeTurns == \A c, d \in Clients : task[c] # "idle" /\ task[d] # "idle" => c = d

\* A training that was requested ends with a run that says how it ended, as long
\* as clients take turns.
RunsSettle ==
    []TakeTurns =>
       \A t \in Trainings :
           t \in started ~> store.run[t] \in {"completed", "failed"}
=============================================================================
