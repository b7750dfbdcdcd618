--------------------------- MODULE RetrainingLoop ---------------------------
(***************************************************************************)
(* Drift evaluations, the trainings they launch and the rows that record   *)
(* launches: evaluate_data_drift (app/ml/drift.py) run by the CronJob      *)
(* (app/jobs/drift_monitor.py) and by API threads, trigger_training_job    *)
(* (app/integrations/databricks_client.py), the training container         *)
(* (training-job/train.py) and the training endpoints of                   *)
(* app/api/routes_models.py.                                               *)
(*                                                                         *)
(* An author is whatever may launch a training: a pod of the CronJob or an *)
(* API request.  It launches at most one, so the author names the training *)
(* job as well.  A call of registry.py is one step here; ModelRegistry     *)
(* takes those calls apart and shows what overlapping ones do.             *)
(***************************************************************************)
EXTENDS Naturals, FiniteSets

CONSTANTS
    Ticks,      \* scheduled runs of the CronJob
    Requests,   \* API requests
    Settings,   \* the deployments considered: see Setting
    MaxDeaths,  \* bound on the processes that die
    Legacy,     \* a champion registered before baselines were recorded
    None

BackoffLimit == 1    \* of the CronJob's job and of a training job

Pods == Ticks \X (1..BackoffLimit + 1)

Authors == Pods \cup Requests

\* <<a, n>> is the n-th time that the training of a is run.
Trainings == (Authors \X (1..BackoffLimit + 1)) \cup {Legacy}

INSTANCE RegistryDocument WITH Reports <- Authors

\* TRAINING_MODE, whether the image or the credentials it needs are set, and
\* whether the dataset can be loaded.
Setting == [runs_in : {"local", "k8s_job", "databricks"},
            ready   : BOOLEAN,
            data    : BOOLEAN]

ASSUME RetrainingLoopAssumption ==
    /\ Settings \subseteq Setting
    /\ MaxDeaths \in Nat
    /\ Ticks \cap Requests = {} /\ Pods \cap Requests = {}
    /\ None \notin Trainings /\ Legacy \notin Authors \X (1..BackoffLimit + 1)

VARIABLES
    mode,      \* the settings, which do not change
    registry,  \* the registry document
    tick,      \* the CronJob's view of each scheduled run
    at,        \* the step each author is at
    ask,       \* what each request asks for
    verdict,   \* the status in the drift report an author builds
    training,  \* the progress of the training each author launched
    tries,     \* pods of that training that have failed
    good,      \* trainings that reached the F1 threshold
    version,   \* model_version in the row that a request builds
    rows,      \* requests whose row of training_runs is committed
    deaths     \* processes that died so far

vars == <<mode, registry, tick, at, ask, verdict, training, tries, good,
          version, rows, deaths>>

Paths == {"evaluate", "train", "remote", "promote"}

\* "calm" stands for all other statuses of a report, which only differ in the
\* webhook: missing_baseline, insufficient_data, missing_features, ok, warning.
Verdict == {"none", "calm", "retrain_required"}

\* "call": about to trigger a training.  "train": training in the thread itself.
\* "file": about to store the report.  "row": about to commit the row.
Busy == {"evaluate", "call", "file", "exit", "train", "promote", "read", "row"}

TypeOK ==
    /\ mode \in Settings
    /\ registry \in Document
    /\ tick \in [Ticks -> {"due", "active", "done", "failed"}]
    /\ at \in [Authors -> Busy \cup {"idle", "done", "dead"}]
    /\ ask \in [Requests -> [path : Paths, flag : BOOLEAN]]
    /\ verdict \in [Authors -> Verdict]
    /\ training \in [Authors -> {"none", "external", "pending", "running",
                                 "fitted", "completed", "succeeded", "failed"}]
    /\ tries \in [Authors -> 0..BackoffLimit + 1]
    /\ good \subseteq Trainings
    /\ version \in [Requests -> Trainings \cup {None}]
    /\ rows \subseteq Requests
    /\ deaths \in 0..MaxDeaths

Init ==
    /\ mode \in Settings
    /\ registry \in {DefaultRegistry, WithModel(DefaultRegistry, Legacy, "production")}
    /\ tick = [k \in Ticks |-> "due"]
    /\ at = [a \in Authors |-> "idle"]
    /\ ask = [q \in Requests |-> [path |-> "evaluate", flag |-> FALSE]]
    /\ verdict = [a \in Authors |-> "none"]
    /\ training = [a \in Authors |-> "none"]
    /\ tries = [a \in Authors |-> 0]
    /\ good = {}
    /\ version = [q \in Requests |-> None]
    /\ rows = {}
    /\ deaths = 0

\* Authors that evaluate drift.
Evaluators == Pods \cup {q \in Requests : ask[q].path = "evaluate"}

Goto(a, s) == at' = [at EXCEPT ![a] = s]

\* Mutant: a scheduled run whose last pod failed is never marked failed.
Raise_StaysActive(a) == Goto(a, "dead") /\ UNCHANGED tick

\* The author ends without an answer.  The CronJob's job then starts another
\* pod, up to its backoffLimit.
Raise(a) ==
    \/ a \in Requests /\ Goto(a, "dead") /\ UNCHANGED tick
    \/ \E k \in Ticks, n \in 1..BackoffLimit :
          /\ a = <<k, n>>
          /\ at' = [at EXCEPT ![a] = "dead", ![<<k, n + 1>>] = "evaluate"]
          /\ UNCHANGED tick
    \/ \E k \in Ticks :
          /\ a = <<k, BackoffLimit + 1>>
          /\ Goto(a, "dead")
          /\ tick' = [tick EXCEPT ![k] = "failed"]

\* A crash, or an exception that nothing handles, between any two steps.
Dies(a) ==
    /\ deaths < MaxDeaths
    /\ deaths' = deaths + 1
    /\ at[a] \in Busy \ {"train"}
    /\ Raise(a)
    /\ UNCHANGED <<mode, registry, ask, verdict, training, tries, good,
                   version, rows>>

\* get_current_model_metadata finds no model, promote_model not this one.
Refused(a) ==
    /\ \/ at[a] \in {"evaluate", "read"} /\ CurrentModel(registry) = None
       \/ at[a] = "promote" /\ ~HasModel(registry, <<a, 1>>)
    /\ Raise(a)
    /\ UNCHANGED <<mode, registry, ask, verdict, training, tries, good,
                   version, rows, deaths>>

-----------------------------------------------------------------------------
(***************************************************************************)
(* Who starts.                                                             *)
(***************************************************************************)
\* concurrencyPolicy Forbid: no run is started while one is active.
StartTick(k) ==
    /\ tick[k] = "due"
    /\ \A other \in Ticks : tick[other] # "active"
    /\ tick' = [tick EXCEPT ![k] = "active"]
    /\ Goto(<<k, 1>>, "evaluate")
    /\ UNCHANGED <<mode, registry, ask, verdict, training, tries, good,
                   version, rows, deaths>>

\* train-and-promote trains in the thread under every TRAINING_MODE.
FirstStep(path) ==
    CASE path = "evaluate"                          -> "evaluate"
      [] path = "remote"                            -> "call"
      [] path = "train" /\ mode.runs_in # "local"   -> "call"
      [] path = "train" /\ mode.runs_in = "local"   -> "train"
      [] path = "promote"                           -> "train"

\* flag is trigger_retraining of an evaluation, register_model of a training.
Ask(q) ==
    /\ at[q] = "idle"
    /\ \E path \in Paths, flag \in BOOLEAN :
          /\ ask' = [ask EXCEPT ![q] = [path |-> path, flag |-> flag]]
          /\ Goto(q, FirstStep(path))
          /\ training' = [training EXCEPT ![q] =
                             IF FirstStep(path) = "train" THEN "pending" ELSE @]
    /\ UNCHANGED <<mode, registry, tick, verdict, tries, good, version, rows, deaths>>

-----------------------------------------------------------------------------
(***************************************************************************)
(* evaluate_data_drift.                                                    *)
(***************************************************************************)
\* The CronJob sets DRIFT_TRIGGER_RETRAINING; the endpoint's default is False.
MayTrigger(a) == a \in Pods \/ ask[a].flag

\* What the PSI of the window against the model's baseline can amount to.
Verdicts(model) ==
    IF model = Legacy THEN {"calm"} ELSE Verdict \ {"none"}

Triggers(a, v) == MayTrigger(a) /\ v = "retrain_required"

Evaluate(a) ==
    /\ at[a] = "evaluate"
    /\ CurrentModel(registry) # None
    /\ \E v \in Verdicts(CurrentModel(registry)) :
          /\ verdict' = [verdict EXCEPT ![a] = v]
          /\ Goto(a, IF Triggers(a, v) THEN "call" ELSE "file")
    /\ UNCHANGED <<mode, registry, tick, ask, training, tries, good,
                   version, rows, deaths>>

\* Mutant: only a report of drift is stored.
Report_OnlyDrift(a) ==
    IF verdict[a] = "retrain_required" THEN WithReport(registry, a) ELSE registry

Report(a) == WithReport(registry, a)

\* The webhook, whose failure is caught, then register_drift_report.
File(a) ==
    /\ at[a] = "file"
    /\ registry' = Report(a)
    /\ Goto(a, IF a \in Pods THEN "exit" ELSE "done")
    /\ UNCHANGED <<mode, tick, ask, verdict, training, tries, good,
                   version, rows, deaths>>

\* The monitor's main returns 0.
Exit(k, n) ==
    /\ at[<<k, n>>] = "exit"
    /\ Goto(<<k, n>>, "done")
    /\ tick' = [tick EXCEPT ![k] = "done"]
    /\ UNCHANGED <<mode, registry, ask, verdict, training, tries, good,
                   version, rows, deaths>>

-----------------------------------------------------------------------------
(***************************************************************************)
(* trigger_training_job.                                                   *)
(***************************************************************************)
K8s == mode.runs_in = "k8s_job"

\* Mutant: only drift keeps a record of what it launched.
AfterCall_NoRow(a) == IF a \in Evaluators THEN "file" ELSE "done"

AfterCall(a) ==
    IF a \in Evaluators THEN "file"
    ELSE IF ask[a].path = "train" THEN "row" ELSE "done"

\* A job of the cluster, or a run of Databricks, whose notebook is not ours.
Launched(a) ==
    training' = [training EXCEPT ![a] = IF K8s THEN "pending" ELSE "external"]

Launch(a) ==
    /\ at[a] = "call" /\ mode.ready
    /\ Launched(a)
    /\ Goto(a, AfterCall(a))
    /\ UNCHANGED <<mode, registry, tick, ask, verdict, tries, good, version, rows,
                   deaths>>

\* The run is created and the answer of Databricks is lost: run-now raises.  The
\* Kubernetes branch catches this and answers as it does for a stub.
LaunchUnheard(a) ==
    /\ at[a] = "call" /\ mode.ready /\ ~K8s
    /\ Launched(a)
    /\ Raise(a)
    /\ UNCHANGED <<mode, registry, ask, verdict, tries, good, version, rows, deaths>>

\* No image, no credentials, no kubernetes package, or the creation failed: the
\* answer says "submitted" all the same.
Stub(a) ==
    /\ at[a] = "call" /\ (K8s \/ ~mode.ready)
    /\ Goto(a, AfterCall(a))
    /\ UNCHANGED <<mode, registry, tick, ask, verdict, training, tries, good,
                   version, rows, deaths>>

-----------------------------------------------------------------------------
(***************************************************************************)
(* The training itself, in a container or in the thread of the request.    *)
(***************************************************************************)
Try(a) == <<a, tries[a] + 1>>

InThread(a) == at[a] = "train"

\* Mutant: the container reads REGISTER_MODEL without its comparison.
Registers_Always(a) == TRUE

\* The parameters of drift say register_model; those of train/remote leave it
\* out, and the container takes its absence for true.
Registers(a) ==
    a \in Requests /\ ask[a].path \in {"train", "promote"} => ask[a].flag

StartRun(a) ==
    /\ training[a] = "pending"
    /\ registry' = WithRun(registry, Try(a))
    /\ training' = [training EXCEPT ![a] = "running"]
    /\ UNCHANGED <<mode, tick, at, ask, verdict, tries, good, version, rows, deaths>>

Fit(a) ==
    /\ training[a] = "running" /\ mode.data
    /\ \E f1 \in BOOLEAN :
          LET stage == IF f1 THEN "production" ELSE "candidate"
          IN  /\ registry' = IF Registers(a) THEN WithModel(registry, Try(a), stage)
                                             ELSE registry
              /\ good' = IF f1 THEN good \cup {Try(a)} ELSE good
    /\ training' = [training EXCEPT ![a] = "fitted"]
    /\ UNCHANGED <<mode, tick, at, ask, verdict, tries, version, rows, deaths>>

\* A thread goes on with its request, a container with the reload call, which
\* cannot fail.
CompleteRun(a) ==
    /\ training[a] = "fitted"
    /\ registry' = WithRunStatus(registry, Try(a), "completed")
    /\ IF InThread(a)
       THEN /\ training' = [training EXCEPT ![a] = "succeeded"]
            /\ Goto(a, IF ask[a].path = "train" THEN "row"
                       ELSE IF Try(a) \in good THEN "promote" ELSE "read")
            /\ version' = [version EXCEPT ![a] = Try(a)]
       ELSE /\ training' = [training EXCEPT ![a] = "completed"]
            /\ UNCHANGED <<at, version>>
    /\ UNCHANGED <<mode, tick, ask, verdict, tries, good, rows, deaths>>

ContainerExits(a) ==
    /\ training[a] = "completed"
    /\ training' = [training EXCEPT ![a] = "succeeded"]
    /\ UNCHANGED <<mode, registry, tick, at, ask, verdict, tries, good,
                   version, rows, deaths>>

\* Mutant: the number of retries is not limited.
AfterFailure_NoLimit(a) == IF InThread(a) THEN "failed" ELSE "pending"

\* Mutant: main catches the exception of train_model.
AfterFailure_Swallows(a) == "succeeded"

\* restartPolicy Never, backoffLimit 1.
AfterFailure(a) ==
    IF InThread(a) \/ tries[a] = BackoffLimit THEN "failed" ELSE "pending"

\* The end of this try, whose run is or is not marked as failed.
Failed(a) ==
    /\ training' = [training EXCEPT ![a] = AfterFailure(a)]
    /\ tries' = [tries EXCEPT ![a] = @ + 1]
    /\ IF InThread(a) THEN Goto(a, "dead") ELSE UNCHANGED at
    /\ UNCHANGED <<mode, tick, ask, verdict, good, version, rows>>

MarkedFailed(a) == registry' = WithRunStatus(registry, Try(a), "failed")

\* load_sensor_data raises; the handler of train_model marks the run.
DataMissing(a) ==
    /\ training[a] = "running" /\ ~mode.data
    /\ MarkedFailed(a)
    /\ Failed(a)
    /\ UNCHANGED deaths

\* Any other exception, with the handler's mark, or the end of the process.
TrainingFails(a) ==
    /\ deaths < MaxDeaths
    /\ deaths' = deaths + 1
    /\ \/ training[a] \in {"pending", "running", "fitted", "completed"} /\ UNCHANGED registry
       \/ training[a] \in {"running", "fitted"} /\ MarkedFailed(a)
    /\ Failed(a)

-----------------------------------------------------------------------------
(***************************************************************************)
(* What train-and-promote does next, and the row of training_runs.         *)
(***************************************************************************)
PromoteModel(q) ==
    /\ at[q] = "promote" /\ HasModel(registry, <<q, 1>>)
    /\ registry' = WithPromotion(registry, <<q, 1>>)
    /\ Goto(q, "read")
    /\ UNCHANGED <<mode, tick, ask, verdict, training, tries, good,
                   version, rows, deaths>>

\* The row of train-and-promote gets the version of the champion, not that of
\* the model it names.
RowVersion == CurrentModel(registry)

ReadCurrent(q) ==
    /\ at[q] = "read" /\ CurrentModel(registry) # None
    /\ version' = [version EXCEPT ![q] = RowVersion]
    /\ Goto(q, "row")
    /\ UNCHANGED <<mode, registry, tick, ask, verdict, training, tries,
                   good, rows, deaths>>

CommitRow(q) ==
    /\ at[q] = "row"
    /\ rows' = rows \cup {q}
    /\ Goto(q, "done")
    /\ UNCHANGED <<mode, registry, tick, ask, verdict, training, tries,
                   good, version, deaths>>

-----------------------------------------------------------------------------
(***************************************************************************)
(* The specification.  Nobody is obliged to ask or to fail; the CronJob    *)
(* controller, the cluster and the threads go on with what they began.     *)
(***************************************************************************)
Evaluation(a) == Evaluate(a) \/ File(a) \/ Refused(a)

Call(a) == Launch(a) \/ LaunchUnheard(a) \/ Stub(a)

Train(a) ==
    StartRun(a) \/ Fit(a) \/ DataMissing(a) \/ CompleteRun(a) \/ ContainerExits(a)

Record(q) == PromoteModel(q) \/ ReadCurrent(q) \/ CommitRow(q)

Proceeds ==
    \/ \E a \in Authors : Evaluation(a) \/ Call(a) \/ Train(a)
    \/ \E q \in Requests : Record(q)
    \/ \E k \in Ticks, n \in 1..BackoffLimit + 1 : Exit(k, n)

Next ==
    \/ \E k \in Ticks : StartTick(k)
    \/ \E q \in Requests : Ask(q)
    \/ Proceeds
    \/ \E a \in Authors : Dies(a) \/ TrainingFails(a)

Spec == Init /\ [][Next]_vars

FairSpec ==
    /\ Spec
    /\ \A a \in Authors : WF_vars(Evaluation(a) \/ Call(a)) /\ WF_vars(Train(a))
    /\ \A q \in Requests : WF_vars(Record(q))
    /\ \A k \in Ticks, n \in 1..BackoffLimit + 1 : WF_vars(Exit(k, n))

-----------------------------------------------------------------------------
(***************************************************************************)
(* Properties                                                              *)
(***************************************************************************)

(***************************************************************************)
(* A training that was handed to the cluster or to Databricks can be       *)
(* traced: to a drift report that found drift beyond the retraining        *)
(* threshold, or to a row of training_runs, unless its author died between *)
(* the call and the record.  Only /models/train/remote keeps no record.    *)
(* evaluate_data_drift calls first and files last.                         *)
(***************************************************************************)
TrainingsAreTraceable ==
    \A a \in Authors :
        training[a] # "none" /\ ~(a \in Requests /\ FirstStep(ask[a].path) = "train") =>
            \/ at[a] = "dead"
            \/ /\ a \in Evaluators
               /\ verdict[a] = "retrain_required" /\ MayTrigger(a)
               /\ at[a] = "file" \/ a \in registry.reports
            \/ a \in Requests /\ ask[a].path = "train" /\ (at[a] = "row" \/ a \in rows)
            \/ a \in Requests /\ ask[a].path = "remote"

(***************************************************************************)
(* A scheduled run that Kubernetes counts as done has stored the report of *)
(* its last pod, whatever that pod found, and any other training or report *)
(* of the run is the work of a pod that died.                              *)
(***************************************************************************)
DoneRunIsReported ==
    \A k \in Ticks : tick[k] = "done" =>
        \E n \in 1..BackoffLimit + 1 :
            /\ <<k, n>> \in registry.reports
            /\ \A m \in (1..BackoffLimit + 1) \ {n} :
                  <<k, m>> \in registry.reports \/ training[<<k, m>>] # "none"
                      => at[<<k, m>>] = "dead"

(***************************************************************************)
(* A training that counts as succeeded has left a completed run, and a     *)
(* registered model exactly if its request wanted one: no other try of it  *)
(* registered a model against that wish.  A failing train_model must not   *)
(* look like a success to Kubernetes (training-job/train.py).              *)
(***************************************************************************)
SuccessLeavesModel ==
    \A a \in Authors : training[a] = "succeeded" =>
        /\ registry.run[Try(a)] = "completed"
        /\ IF a \in Requests /\ ask[a].path \in {"train", "promote"} /\ ~ask[a].flag
           THEN \A n \in 1..BackoffLimit + 1 : ~HasModel(registry, <<a, n>>)
           ELSE HasModel(registry, Try(a))

(***************************************************************************)
(* Whatever crashes: a scheduled run ends as done or failed, a request     *)
(* ends, and a training handed to the cluster ends as succeeded or failed, *)
(* although both controllers retry.                                        *)
(***************************************************************************)
WorkEnds ==
    /\ \A k \in Ticks : tick[k] = "active" ~> tick[k] \in {"done", "failed"}
    /\ \A q \in Requests : at[q] \in Busy ~> at[q] \in {"done", "dead"}
    /\ \A a \in Authors :
          training[a] = "pending" ~> training[a] \in {"succeeded", "failed"}
=============================================================================
