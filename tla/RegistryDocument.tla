-------------------------- MODULE RegistryDocument --------------------------
(***************************************************************************)
(* The registry document of app/ml/registry.py: one JSON object that holds *)
(* the models, the production pointer, the training runs and the drift     *)
(* reports.  This module has no state.  It gives the type of the document  *)
(* and, for every function of registry.py that edits it, the document      *)
(* which that function hands to save_registry.                             *)
(*                                                                         *)
(* The run_id and the model_id of a training are two fresh UUIDs that are  *)
(* drawn together and never reused, so one identifier, the training,       *)
(* stands for both.  Of the order of the list "models" the code only uses  *)
(* its last element, which is kept as "newest".                            *)
(***************************************************************************)

CONSTANTS
    Trainings,   \* the trainings, each with its run_id and model_id
    Reports,     \* the drift reports
    None         \* the null of production_model_id

ASSUME NoneIsNoTraining == None \notin Trainings

ModelStage == {"absent", "candidate", "production", "archived"}

RunStatus == {"absent", "running", "completed", "failed"}

Document ==
    [stage      : [Trainings -> ModelStage],     \* models[].stage
     newest     : Trainings \cup {None},         \* models[-1]
     production : Trainings \cup {None},         \* production_model_id
     run        : [Trainings -> RunStatus],      \* training_runs[].status
     reports    : SUBSET Reports]                \* drift_reports

DefaultRegistry ==
    [stage      |-> [t \in Trainings |-> "absent"],
     newest     |-> None,
     production |-> None,
     run        |-> [t \in Trainings |-> "absent"],
     reports    |-> {}]

Models(doc) == {t \in Trainings : doc.stage[t] # "absent"}

Champions(doc) == {t \in Trainings : doc.stage[t] = "production"}

(***************************************************************************)
(* The documents that the editing functions build.                         *)
(***************************************************************************)
\* Mutant: the vocabulary of the SQL table training_runs, "submitted", leaks
\* into the document.
WithRun_Submitted(doc, t) == [doc EXCEPT !.run[t] = "submitted"]

WithRun(doc, t) == [doc EXCEPT !.run[t] = "running"]

\* run_id is looked up first: HasRun is the condition under which
\* update_training_run does not raise.
HasRun(doc, t) == doc.run[t] # "absent"

WithRunStatus(doc, t, status) == [doc EXCEPT !.run[t] = status]

\* register_model appends the model and, for a production model, moves the
\* pointer.  It does not touch the stage of the other models.
WithModel(doc, t, stage) ==
    [doc EXCEPT !.stage[t]   = stage,
                !.newest     = t,
                !.production = IF stage = "production" THEN t ELSE @]

HasModel(doc, t) == doc.stage[t] # "absent"

\* Mutant: the archiving loop runs after the target has become production.
WithPromotion_ArchivesLast(doc, t) ==
    [doc EXCEPT !.stage = [m \in Trainings |->
                              IF m = t \/ m \in Champions(doc) THEN "archived"
                                                               ELSE doc.stage[m]],
                !.production = t]

\* promote_model archives every other production model.
WithPromotion(doc, t) ==
    [doc EXCEPT !.stage = [m \in Trainings |->
                              IF m = t THEN "production"
                              ELSE IF m \in Champions(doc) THEN "archived"
                              ELSE doc.stage[m]],
                !.production = t]

WithReport(doc, r) == [doc EXCEPT !.reports = @ \cup {r}]

\* get_current_model_metadata: the production model, else the last model of
\* the list whatever its stage, else None (the code raises FileNotFoundError).
CurrentModel(doc) ==
    IF doc.production # None /\ doc.production \in Models(doc)
    THEN doc.production
    ELSE doc.newest
=============================================================================
