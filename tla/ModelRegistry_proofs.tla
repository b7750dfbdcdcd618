------------------------ MODULE ModelRegistry_proofs ------------------------
(***************************************************************************)
(* Theorems about ModelRegistry, for every set of clients, trainings and   *)
(* reports, both backends and every combination of faults; and, in the     *)
(* last part, about clients that take turns.                               *)
(***************************************************************************)
EXTENDS MCRegistryTurns, TLAPS

-----------------------------------------------------------------------------
(***************************************************************************)
(* The editing functions return documents.                                 *)
(***************************************************************************)

\* The document of an empty registry is a document.
LEMMA DefaultIsDocument == DefaultRegistry \in Document
BY DEF DefaultRegistry, Document, ModelStage, RunStatus

\* Appending a run or setting its status (register_training_run,
\* update_training_run) yields a document.
LEMMA RunEditsAreDocuments ==
    ASSUME NEW doc \in Document, NEW t \in Trainings, NEW s \in RunStatus
    PROVE  /\ WithRun(doc, t) \in Document
           /\ WithRunStatus(doc, t, s) \in Document
BY DEF WithRun, WithRunStatus, Document, RunStatus

\* register_model yields a document.
LEMMA ModelEditIsDocument ==
    ASSUME NEW doc \in Document, NEW t \in Trainings, NEW s \in ModelStage
    PROVE  WithModel(doc, t, s) \in Document
BY DEF WithModel, Document

\* promote_model yields a document.
LEMMA PromotionIsDocument ==
    ASSUME NEW doc \in Document, NEW t \in Trainings
    PROVE  WithPromotion(doc, t) \in Document
BY DEF WithPromotion, Champions, Document, ModelStage

\* register_drift_report yields a document.
LEMMA ReportEditIsDocument ==
    ASSUME NEW doc \in Document, NEW r \in Reports
    PROVE  WithReport(doc, r) \in Document
BY DEF WithReport, Document

-----------------------------------------------------------------------------
(***************************************************************************)
(* Type correctness.  TypeOK is not inductive: what an operation edits     *)
(* depends on the training or report in job[c], and an alias may only be   *)
(* moved by an operation about a training.                                 *)
(***************************************************************************)

TrainTask == {"register_run", "fit", "register_model", "complete_run", "fail_run"}

JobFitsTask(c) ==
    /\ task[c] \in TrainTask \cup {"promote"} => job[c] \in Trainings
    /\ task[c] = "report" => job[c] \in Reports
    /\ task[c] \in {"idle", "fit"} => step[c] = "load"
    /\ step[c] = "sync" => task[c] \in {"register_model", "promote"}

TypeInv == TypeOK /\ \A c \in Clients : JobFitsTask(c)

\* Whatever an operation reads, what it has edited is a document.
LEMMA EditedIsDocument ==
    ASSUME TypeInv, NEW c \in Clients, NEW doc \in Document, task[c] \in Operation
    PROVE  Edited(c, doc) \in Document
<1>1. JobFitsTask(c)
  BY DEF TypeInv
<1>2. CASE task[c] = "register_run"
  <2>1. job[c] \in Trainings
    BY <1>1, <1>2 DEF JobFitsTask, TrainTask
  <2>2. Edited(c, doc) = WithRun(doc, job[c])
    BY <1>2 DEF Edited
  <2> QED BY <2>1, <2>2, RunEditsAreDocuments DEF RunStatus
<1>3. CASE task[c] = "register_model"
  <2>1. job[c] \in Trainings
    BY <1>1, <1>3 DEF JobFitsTask, TrainTask
  <2>2. Edited(c, doc) = WithModel(doc, job[c], IF plan[job[c]].good THEN "production" ELSE "candidate")
    BY <1>3 DEF Edited
  <2> QED BY <2>1, <2>2, ModelEditIsDocument DEF ModelStage
<1>4. CASE task[c] = "complete_run"
  <2>1. job[c] \in Trainings
    BY <1>1, <1>4 DEF JobFitsTask, TrainTask
  <2>2. Edited(c, doc) = WithRunStatus(doc, job[c], "completed")
    BY <1>4 DEF Edited
  <2> QED BY <2>1, <2>2, RunEditsAreDocuments DEF RunStatus
<1>5. CASE task[c] = "fail_run"
  <2>1. job[c] \in Trainings
    BY <1>1, <1>5 DEF JobFitsTask, TrainTask
  <2>2. Edited(c, doc) = WithRunStatus(doc, job[c], "failed")
    BY <1>5 DEF Edited
  <2> QED BY <2>1, <2>2, RunEditsAreDocuments DEF RunStatus
<1>6. CASE task[c] = "promote"
  <2>1. job[c] \in Trainings
    BY <1>1, <1>6 DEF JobFitsTask, TrainTask
  <2>2. Edited(c, doc) = WithPromotion(doc, job[c])
    BY <1>6 DEF Edited
  <2> QED BY <2>1, <2>2, PromotionIsDocument
<1>7. CASE task[c] = "report"
  <2>1. job[c] \in Reports
    BY <1>1, <1>7 DEF JobFitsTask
  <2>2. Edited(c, doc) = WithReport(doc, job[c])
    BY <1>7 DEF Edited
  <2> QED BY <2>1, <2>2, ReportEditIsDocument
<1> QED BY <1>2, <1>3, <1>4, <1>5, <1>6, <1>7 DEF Operation

\* After a save a client fits a model, completes a run, promotes or is done.
LEMMA ContinuationIsTask ==
    ASSUME NEW c \in Clients
    PROVE  /\ Continuation(c) \in {"fit", "complete_run", "promote", "idle"}
           /\ Continuation(c) # "idle" => task[c] \in TrainTask
<1>1. CASE task[c] = "register_run"
  BY <1>1 DEF Continuation, TrainTask
<1>2. CASE task[c] = "register_model"
  BY <1>2 DEF Continuation, TrainTask
<1>3. CASE task[c] = "complete_run"
  BY <1>3 DEF Continuation, TrainTask
<1>4. CASE task[c] \notin {"register_run", "register_model", "complete_run"}
  BY <1>4 DEF Continuation
<1> QED BY <1>1, <1>2, <1>3, <1>4

\* Turning to another operation keeps the types of what a client holds, when
\* that operation is about the training the client already works on.
LEMMA GotoKeepsTypes ==
    ASSUME TypeInv, NEW c \in Clients, NEW t \in Task, Goto(c, t),
           t # "idle" => t \in TrainTask \cup {"promote"} /\ job[c] \in Trainings
    PROVE  /\ task' \in [Clients -> Task]
           /\ step' \in [Clients -> Step]
           /\ job' \in [Clients -> Trainings \cup Reports \cup {None}]
           /\ copy' \in [Clients -> Document]
           /\ \A d \in Clients : JobFitsTask(d)'
<1> USE DefaultIsDocument DEF TypeInv, TypeOK, Goto
<1>1. task' \in [Clients -> Task] /\ step' \in [Clients -> Step]
  BY DEF Step
<1>2. job' \in [Clients -> Trainings \cup Reports \cup {None}]
  OBVIOUS
<1>3. copy' \in [Clients -> Document]
  OBVIOUS
<1>4. ASSUME NEW d \in Clients PROVE JobFitsTask(d)'
  <2>1. CASE d # c
    <3>1. task'[d] = task[d] /\ step'[d] = step[d] /\ job'[d] = job[d]
      BY <2>1
    <3> QED BY <3>1 DEF JobFitsTask
  <2>2. CASE d = c /\ t = "idle"
    BY <2>2 DEF JobFitsTask, TrainTask
  <2>3. CASE d = c /\ t # "idle"
    BY <2>3 DEF JobFitsTask, TrainTask
  <2> QED BY <2>1, <2>2, <2>3
<1> QED BY <1>1, <1>2, <1>3, <1>4

\* The exception paths lead to the handler only from the training they mark.
LEMMA UnwindKeepsTypes ==
    ASSUME TypeInv, NEW c \in Clients, Unwind(c)
    PROVE  /\ task' \in [Clients -> Task]
           /\ step' \in [Clients -> Step]
           /\ job' \in [Clients -> Trainings \cup Reports \cup {None}]
           /\ copy' \in [Clients -> Document]
           /\ \A d \in Clients : JobFitsTask(d)'
<1>1. CASE task[c] \in {"fit", "register_model", "complete_run"}
  <2>1. job[c] \in Trainings
    BY <1>1 DEF TypeInv, JobFitsTask, TrainTask
  <2>2. Goto(c, "fail_run")
    BY <1>1 DEF Unwind
  <2> QED BY <2>1, <2>2, GotoKeepsTypes DEF Task, Operation, TrainTask
<1>2. CASE task[c] \notin {"fit", "register_model", "complete_run"}
  <2>1. Goto(c, "idle")
    BY <1>2 DEF Unwind
  <2> QED BY <2>1, GotoKeepsTypes DEF Task
<1> QED BY <1>1, <1>2

\* A save keeps the types and leaves a well-typed store behind.
LEMMA SavedKeepsTypes ==
    ASSUME TypeInv, NEW c \in Clients, Saved(c)
    PROVE  /\ store' \in Document
           /\ registered' \subseteq Trainings
           /\ task' \in [Clients -> Task]
           /\ step' \in [Clients -> Step]
           /\ job' \in [Clients -> Trainings \cup Reports \cup {None}]
           /\ copy' \in [Clients -> Document]
           /\ \A d \in Clients : JobFitsTask(d)'
<1>1. store' \in Document
  BY DEF Saved, TypeInv, TypeOK
<1>2. registered' \subseteq Trainings
  BY DEF Saved, TypeInv, TypeOK, JobFitsTask, TrainTask
<1>3. Continuation(c) # "idle" => job[c] \in Trainings
  BY ContinuationIsTask DEF TypeInv, JobFitsTask
<1>4. Goto(c, Continuation(c))
  BY DEF Saved
<1>5. Continuation(c) \in Task /\ (Continuation(c) # "idle" => Continuation(c) \in TrainTask \cup {"promote"})
  BY ContinuationIsTask DEF Task, Operation, TrainTask
<1> QED BY <1>1, <1>2, <1>3, <1>4, <1>5, GotoKeepsTypes

\* Every step of every client keeps the types.
LEMMA StepKeepsTypes ==
    ASSUME TypeInv, NEW c \in Clients, Progress(c) \/ Request(c) \/ Crash(c)
    PROVE  TypeInv'
<1>1. ASSUME Load(c) PROVE TypeInv'
  <2>1. PICK doc \in LoadResults : copy' = [copy EXCEPT ![c] = Edited(c, doc)]
    BY <1>1 DEF Load
  <2>2. doc \in Document
    BY DefaultIsDocument, <2>1 DEF LoadResults, TypeInv, TypeOK
  <2>3. Edited(c, doc) \in Document
    BY <1>1, <2>2, EditedIsDocument DEF Load
  <2>4. TypeOK'
    BY <1>1, <2>1, <2>3 DEF Load, TypeInv, TypeOK, Step
  <2>5. ASSUME NEW d \in Clients PROVE JobFitsTask(d)'
    <3>1. JobFitsTask(d)
      BY DEF TypeInv
    <3>2. CASE d # c
      BY <1>1, <3>1, <3>2 DEF Load, JobFitsTask, TypeInv, TypeOK
    <3>3. CASE d = c
      BY <1>1, <3>1, <3>3 DEF Load, JobFitsTask, TypeInv, TypeOK, MovesAlias, Operation
    <3> QED BY <3>2, <3>3
  <2> QED BY <2>4, <2>5 DEF TypeInv
<1>2. ASSUME LoadRaises(c) PROVE TypeInv'
  BY <1>2, UnwindKeepsTypes DEF LoadRaises, TypeInv, TypeOK
<1>3. ASSUME SyncAlias(c) PROVE TypeInv'
  <2>1. job[c] \in Trainings
    BY <1>3 DEF SyncAlias, TypeInv, JobFitsTask, TrainTask
  <2>2. TypeOK'
    BY <1>3, <2>1 DEF SyncAlias, TypeInv, TypeOK, Step
  <2>3. ASSUME NEW d \in Clients PROVE JobFitsTask(d)'
    BY <1>3 DEF SyncAlias, TypeInv, TypeOK, JobFitsTask, TrainTask
  <2> QED BY <2>2, <2>3 DEF TypeInv
<1>4. ASSUME SaveBlob(c) PROVE TypeInv'
  BY <1>4, SavedKeepsTypes DEF SaveBlob, TypeInv, TypeOK
<1>5. ASSUME SaveBlobRaises(c) PROVE TypeInv'
  BY <1>5, UnwindKeepsTypes DEF SaveBlobRaises, TypeInv, TypeOK
<1>6. ASSUME SaveLocal(c) PROVE TypeInv'
  <2>1. TypeOK'
    BY <1>6 DEF SaveLocal, TypeInv, TypeOK, Step
  <2>2. ASSUME NEW d \in Clients PROVE JobFitsTask(d)'
    BY <1>6 DEF SaveLocal, TypeInv, TypeOK, JobFitsTask
  <2> QED BY <2>1, <2>2 DEF TypeInv
<1>7. ASSUME WriteLocal(c) PROVE TypeInv'
  <2>1. file' \in {"whole", "empty", "mixed"}
    BY <1>7 DEF WriteLocal
  <2> QED BY <1>7, <2>1, SavedKeepsTypes DEF WriteLocal, TypeInv, TypeOK
<1>8. ASSUME NEW good \in BOOLEAN, Fit(c, good) PROVE TypeInv'
  <2>1. job[c] \in Trainings
    BY <1>8 DEF Fit, TypeInv, JobFitsTask, TrainTask
  <2>2. plan' \in [Trainings -> Plan]
    BY <1>8, <2>1 DEF Fit, TypeInv, TypeOK, Plan
  <2>3. PICK t \in {"register_model", "complete_run"} : Goto(c, t)
    BY <1>8 DEF Fit
  <2>4. t \in Task /\ t \in TrainTask
    BY <2>3 DEF Task, Operation, TrainTask
  <2> HIDE DEF Goto
  <2>5. /\ task' \in [Clients -> Task]
        /\ step' \in [Clients -> Step]
        /\ job' \in [Clients -> Trainings \cup Reports \cup {None}]
        /\ copy' \in [Clients -> Document]
        /\ \A d \in Clients : JobFitsTask(d)'
    BY <2>1, <2>3, <2>4, GotoKeepsTypes
  <2> QED BY <1>8, <2>2, <2>5 DEF Fit, TypeInv, TypeOK
<1>9. ASSUME FitRaises(c) PROVE TypeInv'
  BY <1>9, UnwindKeepsTypes DEF FitRaises, TypeInv, TypeOK
<1>10. ASSUME NEW t \in Trainings, NEW r \in BOOLEAN, NEW p \in BOOLEAN, StartTraining(c, t, r, p)
       PROVE  TypeInv'
  <2>1. plan' \in [Trainings -> Plan]
    BY <1>10 DEF StartTraining, TypeInv, TypeOK, Plan
  <2>2. TypeOK'
    BY <1>10, <2>1 DEF StartTraining, TypeInv, TypeOK, Task, Operation
  <2>3. ASSUME NEW d \in Clients PROVE JobFitsTask(d)'
    BY <1>10 DEF StartTraining, TypeInv, TypeOK, JobFitsTask, TrainTask
  <2> QED BY <2>2, <2>3 DEF TypeInv
<1>11. ASSUME NEW t \in Trainings, StartPromotion(c, t) PROVE TypeInv'
  <2>1. TypeOK'
    BY <1>11 DEF StartPromotion, TypeInv, TypeOK, Task, Operation
  <2>2. ASSUME NEW d \in Clients PROVE JobFitsTask(d)'
    BY <1>11 DEF StartPromotion, TypeInv, TypeOK, JobFitsTask, TrainTask
  <2> QED BY <2>1, <2>2 DEF TypeInv
<1>12. ASSUME NEW r \in Reports, StartReport(c, r) PROVE TypeInv'
  <2>1. TypeOK'
    BY <1>12 DEF StartReport, TypeInv, TypeOK, Task, Operation
  <2>2. ASSUME NEW d \in Clients PROVE JobFitsTask(d)'
    BY <1>12 DEF StartReport, TypeInv, TypeOK, JobFitsTask, TrainTask
  <2> QED BY <2>1, <2>2 DEF TypeInv
<1>13. ASSUME Crash(c) PROVE TypeInv'
  <2>1. Goto(c, "idle") /\ "idle" \in Task
    BY <1>13 DEF Crash, Task
  <2> QED BY <1>13, <2>1, GotoKeepsTypes DEF Crash, TypeInv, TypeOK
<1> QED BY <1>1, <1>2, <1>3, <1>4, <1>5, <1>6, <1>7, <1>8, <1>9, <1>10, <1>11,
           <1>12, <1>13 DEF Progress, Save, Request

\* The strengthened type invariant holds of every registry.
LEMMA TypeInvariance == Spec => []TypeInv
<1>1. Init => TypeInv
  BY DefaultIsDocument DEF Init, TypeInv, TypeOK, JobFitsTask, Task, Step, Plan, TrainTask
<1>2. TypeInv /\ [Next]_vars => TypeInv'
  <2> SUFFICES ASSUME TypeInv, [Next]_vars PROVE TypeInv'
    OBVIOUS
  <2>1. CASE UNCHANGED vars
    BY <2>1 DEF vars, TypeInv, TypeOK, JobFitsTask
  <2>2. CASE Next
    BY <2>2, StepKeepsTypes DEF Next
  <2> QED BY <2>1, <2>2
<1> QED BY <1>1, <1>2, PTL DEF Spec

\* TypeOK, the type invariant that the run checks, holds of every registry:
\* whatever the interleaving and the faults, what is stored is a document.
THEOREM TypeCorrect == Spec => []TypeOK
<1>1. TypeInv => TypeOK
  BY DEF TypeInv
<1> QED BY <1>1, TypeInvariance, PTL

-----------------------------------------------------------------------------
(***************************************************************************)
(* The served model.  Every document that is saved has been edited from    *)
(* one that was loaded, so the argument is about the documents in          *)
(* circulation: the stored one, the copies the clients hold and the        *)
(* default one that a failing download yields.  A registration keeps them  *)
(* consistent only because the model it appends is in none of them: the    *)
(* id of a training that has not registered its model yet is fresh.        *)
(***************************************************************************)

Held == {store, DefaultRegistry} \cup {copy[c] : c \in Clients}

\* The pointer names a champion, and is null only if there is none.
Consistent(doc) ==
    IF doc.production = None THEN Champions(doc) = {}
                             ELSE doc.production \in Champions(doc)

\* Training t is not fitted yet.
Unfit(t) ==
    \/ t \notin started
    \/ \E c \in Clients : job[c] = t /\ task[c] \in {"register_run", "fit"}

\* Training t has not put its model into any document yet.
Fresh(t) ==
    \/ Unfit(t)
    \/ \E c \in Clients : job[c] = t /\ task[c] = "register_model" /\ step[c] = "load"

\* A training runs at one client, and only once it was requested.
OneOwner ==
    /\ \A c \in Clients : task[c] \in TrainTask => job[c] \in started
    /\ \A c, d \in Clients :
          task[c] \in TrainTask /\ task[d] \in TrainTask /\ job[c] = job[d] => c = d

HeldAreConsistent ==
    \A doc \in Held :
        /\ Consistent(doc)
        /\ \A t \in Trainings : Fresh(t) => ~HasModel(doc, t)

\* An admin has asked for the promotion of t, or its f1 score is high enough.
Permitted(t) == plan[t].good \/ t \in endorsed

HeldAreAllowed ==
    /\ \A t \in Trainings : Unfit(t) => ~plan[t].good
    /\ \A c \in Clients : task[c] = "promote" => Permitted(job[c])
    /\ \A doc \in Held, t \in Trainings :
          doc.stage[t] \in {"production", "archived"} => Permitted(t)

(***************************************************************************)
(* What a step of client c does to everything the invariants speak of.     *)
(***************************************************************************)
Unfitted == {"register_run", "fit"}

OthersUnchanged(c) ==
    \A d \in Clients \ {c} :
        task'[d] = task[d] /\ step'[d] = step[d] /\ job'[d] = job[d] /\ copy'[d] = copy[d]

\* A training enters with a request, and is followed by the same client.
Shape(c) ==
    /\ OthersUnchanged(c)
    /\ started \subseteq started'
    /\ started' \subseteq started \cup {job'[c]}
    /\ started' # started => task'[c] = "register_run"
    /\ task'[c] \in TrainTask => \/ task[c] \in TrainTask /\ job'[c] = job[c]
                                 \/ job'[c] \notin started /\ job'[c] \in started'
    /\ task'[c] \in Unfitted => \/ task[c] \in Unfitted /\ job'[c] = job[c]
                                \/ job'[c] \notin started
    /\ task'[c] = "register_model" /\ step'[c] = "load"
          => /\ job'[c] = job[c]
             /\ task[c] = "fit" \/ (task[c] = "register_model" /\ step[c] = "load")
    /\ endorsed \subseteq endorsed'
    /\ \A t \in Trainings :
          plan'[t].good # plan[t].good
             => t = job[c] /\ task[c] = "fit" /\ task'[c] \notin Unfitted
    /\ task'[c] = "promote" => \/ job'[c] \in endorsed'
                               \/ job'[c] = job[c] /\ task[c] = "promote"
                               \/ job'[c] = job[c] /\ plan[job[c]].good
                                    /\ task[c] = "complete_run"

\* Only a load brings a new document into circulation.
Circulates(c) ==
    \/ store' \in Held /\ copy'[c] \in Held
    \/ Load(c)

\* Unwinding from an operation never leads back to fitting or registering.
LEMMA UnwindShape ==
    ASSUME TypeInv, NEW c \in Clients, Unwind(c), UNCHANGED <<store, started, plan, endorsed>>
    PROVE  Shape(c) /\ Circulates(c)
<1>1. \/ task'[c] = "fail_run" /\ task[c] \in TrainTask /\ job'[c] = job[c]
      \/ task'[c] = "idle"
  BY DEF Unwind, Goto, TypeInv, TypeOK, TrainTask
<1>2. OthersUnchanged(c)
  BY DEF Unwind, Goto, TypeInv, TypeOK, OthersUnchanged
<1>3. copy'[c] = DefaultRegistry
  BY DEF Unwind, Goto, TypeInv, TypeOK
<1>4. Shape(c)
  BY <1>1, <1>2 DEF Shape, TrainTask, Unfitted
<1> QED BY <1>3, <1>4 DEF Circulates, Held

\* Where a client goes after a save.
LEMMA ContinuationIsNamed ==
    ASSUME NEW c \in Clients
    PROVE  /\ Continuation(c) = "fit" => task[c] = "register_run"
           /\ Continuation(c) = "complete_run" => task[c] = "register_model"
           /\ Continuation(c) = "promote" => task[c] = "complete_run" /\ plan[job[c]].good
<1>1. CASE task[c] = "register_run"
  BY <1>1 DEF Continuation
<1>2. CASE task[c] = "register_model"
  BY <1>2 DEF Continuation
<1>3. CASE task[c] = "complete_run"
  BY <1>3 DEF Continuation
<1>4. CASE task[c] \notin {"register_run", "register_model", "complete_run"}
  BY <1>4 DEF Continuation
<1> QED BY <1>1, <1>2, <1>3, <1>4

\* A save puts the client's copy into the store and moves on.
LEMMA SavedShape ==
    ASSUME TypeInv, NEW c \in Clients, Saved(c), UNCHANGED <<started, plan, endorsed>>
    PROVE  Shape(c) /\ Circulates(c)
<1>1. task'[c] = Continuation(c) /\ copy'[c] = DefaultRegistry /\ store' = copy[c]
  BY DEF Saved, Goto, TypeInv, TypeOK
<1>2. task'[c] # "idle" => job'[c] = job[c]
  BY <1>1 DEF Saved, Goto, TypeInv, TypeOK
<1>3. OthersUnchanged(c)
  BY DEF Saved, Goto, TypeInv, TypeOK, OthersUnchanged
<1>4. /\ task'[c] \in {"fit", "complete_run", "promote", "idle"}
      /\ task'[c] # "idle" => task[c] \in TrainTask
  BY <1>1, ContinuationIsTask
<1>5. /\ task'[c] = "fit" => task[c] = "register_run"
      /\ task'[c] = "promote" => task[c] = "complete_run" /\ plan[job[c]].good
  BY <1>1, ContinuationIsNamed
<1>6. Shape(c)
  BY <1>2, <1>3, <1>4, <1>5 DEF Shape, TrainTask, Unfitted
<1> QED BY <1>1, <1>6 DEF Circulates, Held

\* Every step of a client has the shape and circulates documents.
LEMMA StepShape ==
    ASSUME TypeInv, NEW c \in Clients, Progress(c) \/ Request(c) \/ Crash(c)
    PROVE  Shape(c) /\ Circulates(c)
<1>1. ASSUME Load(c) PROVE Shape(c) /\ Circulates(c)
  <2>1. PICK doc \in LoadResults : copy' = [copy EXCEPT ![c] = Edited(c, doc)]
    BY <1>1 DEF Load
  <2>2. OthersUnchanged(c)
    BY <1>1, <2>1 DEF Load, TypeInv, TypeOK, OthersUnchanged
  <2>3. step'[c] # "load" /\ task'[c] = task[c] /\ job'[c] = job[c]
    BY <1>1 DEF Load, TypeInv, TypeOK
  <2>4. UNCHANGED <<started, plan, endorsed>>
    BY <1>1 DEF Load
  <2>5. Shape(c)
    BY <2>2, <2>3, <2>4 DEF Shape, TrainTask, Unfitted
  <2> QED BY <1>1, <2>5 DEF Circulates
<1>2. ASSUME LoadRaises(c) PROVE Shape(c) /\ Circulates(c)
  BY <1>2, UnwindShape DEF LoadRaises
<1>3. ASSUME SyncAlias(c) PROVE Shape(c) /\ Circulates(c)
  <2>1. /\ OthersUnchanged(c)
        /\ UNCHANGED <<store, started, plan, endorsed, task, job, copy>>
        /\ step'[c] = "save"
    BY <1>3 DEF SyncAlias, TypeInv, TypeOK, OthersUnchanged
  <2> QED BY <2>1 DEF Shape, Circulates, Held, TrainTask, Unfitted
<1>4. ASSUME SaveBlob(c) PROVE Shape(c) /\ Circulates(c)
  BY <1>4, SavedShape DEF SaveBlob
<1>5. ASSUME SaveBlobRaises(c) PROVE Shape(c) /\ Circulates(c)
  BY <1>5, UnwindShape DEF SaveBlobRaises
<1>6. ASSUME SaveLocal(c) PROVE Shape(c) /\ Circulates(c)
  <2>1. /\ OthersUnchanged(c)
        /\ UNCHANGED <<store, started, plan, endorsed, task, job, copy>>
        /\ step'[c] = "write"
    BY <1>6 DEF SaveLocal, TypeInv, TypeOK, OthersUnchanged
  <2> QED BY <2>1 DEF Shape, Circulates, Held, TrainTask, Unfitted
<1>7. ASSUME WriteLocal(c) PROVE Shape(c) /\ Circulates(c)
  BY <1>7, SavedShape DEF WriteLocal
<1>8. ASSUME NEW good \in BOOLEAN, Fit(c, good) PROVE Shape(c) /\ Circulates(c)
  <2>1. /\ OthersUnchanged(c)
        /\ UNCHANGED <<store, started, endorsed>>
        /\ task'[c] \in {"register_model", "complete_run"}
        /\ job'[c] = job[c]
        /\ copy'[c] = DefaultRegistry
        /\ task[c] = "fit"
    BY <1>8 DEF Fit, Goto, TypeInv, TypeOK, OthersUnchanged
  <2>2. \A t \in Trainings : t # job[c] => plan'[t].good = plan[t].good
    BY <1>8 DEF Fit, TypeInv, TypeOK, Plan
  <2> QED BY <2>1, <2>2 DEF Shape, Circulates, Held, TrainTask, Unfitted
<1>9. ASSUME FitRaises(c) PROVE Shape(c) /\ Circulates(c)
  BY <1>9, UnwindShape DEF FitRaises
<1>10. ASSUME NEW t \in Trainings, NEW r \in BOOLEAN, NEW p \in BOOLEAN, StartTraining(c, t, r, p)
       PROVE  Shape(c) /\ Circulates(c)
  <2>1. /\ OthersUnchanged(c)
        /\ UNCHANGED <<store, copy, endorsed>>
        /\ started' = started \cup {t} /\ t \notin started
        /\ task'[c] = "register_run" /\ job'[c] = t
    BY <1>10 DEF StartTraining, TypeInv, TypeOK, OthersUnchanged
  <2>2. \A u \in Trainings : plan'[u].good = plan[u].good
    BY <1>10 DEF StartTraining, TypeInv, TypeOK, Plan
  <2> QED BY <2>1, <2>2 DEF Shape, Circulates, Held, TrainTask, Unfitted
<1>11. ASSUME NEW t \in Trainings, StartPromotion(c, t) PROVE Shape(c) /\ Circulates(c)
  <2>1. /\ OthersUnchanged(c)
        /\ UNCHANGED <<store, copy, started, plan>>
        /\ task'[c] = "promote" /\ job'[c] = t
        /\ endorsed' = endorsed \cup {t}
    BY <1>11 DEF StartPromotion, TypeInv, TypeOK, OthersUnchanged
  <2> QED BY <2>1 DEF Shape, Circulates, Held, TrainTask, Unfitted
<1>12. ASSUME NEW r \in Reports, StartReport(c, r) PROVE Shape(c) /\ Circulates(c)
  <2>1. /\ OthersUnchanged(c)
        /\ UNCHANGED <<store, copy, started, plan, endorsed>>
        /\ task'[c] = "report"
    BY <1>12 DEF StartReport, TypeInv, TypeOK, OthersUnchanged
  <2> QED BY <2>1 DEF Shape, Circulates, Held, TrainTask, Unfitted
<1>13. ASSUME Crash(c) PROVE Shape(c) /\ Circulates(c)
  <2>1. /\ OthersUnchanged(c)
        /\ UNCHANGED <<store, started, plan, endorsed>>
        /\ task'[c] = "idle" /\ copy'[c] = DefaultRegistry
    BY <1>13 DEF Crash, Goto, TypeInv, TypeOK, OthersUnchanged
  <2> QED BY <2>1 DEF Shape, Circulates, Held, TrainTask, Unfitted
<1> QED BY <1>1, <1>2, <1>3, <1>4, <1>5, <1>6, <1>7, <1>8, <1>9, <1>10, <1>11,
           <1>12, <1>13 DEF Progress, Save, Request

-----------------------------------------------------------------------------
\* A training stays with the client that requested it.
LEMMA OwnerStep ==
    ASSUME TypeInv, OneOwner, NEW c \in Clients, Shape(c)
    PROVE  OneOwner'
<1>1. ASSUME NEW d \in Clients, task'[d] \in TrainTask PROVE job'[d] \in started'
  BY <1>1 DEF OneOwner, Shape, OthersUnchanged
<1>2. ASSUME NEW d \in Clients \ {c}, task'[c] \in TrainTask, task'[d] \in TrainTask
      PROVE  job'[c] # job'[d]
  <2>1. task[d] \in TrainTask /\ job'[d] = job[d] /\ job[d] \in started
    BY <1>2 DEF OneOwner, Shape, OthersUnchanged
  <2>2. CASE job'[c] \notin started
    BY <2>1, <2>2
  <2>3. CASE task[c] \in TrainTask /\ job'[c] = job[c]
    BY <1>2, <2>1, <2>3 DEF OneOwner
  <2> QED BY <1>2, <2>2, <2>3 DEF Shape
<1>3. ASSUME NEW d \in Clients, NEW e \in Clients,
             task'[d] \in TrainTask, task'[e] \in TrainTask, job'[d] = job'[e]
      PROVE  d = e
  <2>1. CASE d = c \/ e = c
    BY <1>2, <1>3, <2>1
  <2>2. CASE d # c /\ e # c
    <3>1. task[d] \in TrainTask /\ task[e] \in TrainTask /\ job[d] = job[e]
      BY <1>3, <2>2 DEF Shape, OthersUnchanged
    <3> QED BY <3>1 DEF OneOwner
  <2> QED BY <2>1, <2>2
<1> QED BY <1>1, <1>3 DEF OneOwner

\* No step makes a training unfitted again.
LEMMA UnfitOnlyShrinks ==
    ASSUME NEW c \in Clients, Shape(c), NEW t \in Trainings, Unfit(t)'
    PROVE  Unfit(t)
<1>1. CASE t \notin started'
  BY <1>1 DEF Shape, Unfit
<1>2. CASE t \in started'
  <2>1. PICK d \in Clients : job'[d] = t /\ task'[d] \in Unfitted
    BY <1>2 DEF Unfit, Unfitted
  <2>2. CASE d = c
    BY <2>1, <2>2 DEF Shape, Unfit, Unfitted
  <2>3. CASE d # c
    BY <2>1, <2>3 DEF Shape, OthersUnchanged, Unfit, Unfitted
  <2> QED BY <2>2, <2>3
<1> QED BY <1>1, <1>2

\* No step makes a model fresh again, and a registration uses freshness up.
LEMMA FreshOnlyShrinks ==
    ASSUME NEW c \in Clients, Shape(c), NEW t \in Trainings, Fresh(t)'
    PROVE  Fresh(t)
<1>1. CASE Unfit(t)'
  BY <1>1, UnfitOnlyShrinks DEF Fresh
<1>2. CASE ~Unfit(t)'
  <2>1. PICK d \in Clients : job'[d] = t /\ task'[d] = "register_model" /\ step'[d] = "load"
    BY <1>2 DEF Fresh
  <2>2. CASE d = c
    BY <2>1, <2>2 DEF Shape, Fresh, Unfit
  <2>3. CASE d # c
    BY <2>1, <2>3 DEF Shape, OthersUnchanged, Fresh
  <2> QED BY <2>2, <2>3
<1> QED BY <1>1, <1>2

\* Once its registration has loaded the document, a training's id is used up.
LEMMA RegistrationUsesFreshness ==
    ASSUME TypeInv, OneOwner, NEW c \in Clients, Load(c), task[c] = "register_model",
           NEW t \in Trainings, t = job[c]
    PROVE  ~Fresh(t)'
<1>1. /\ UNCHANGED <<task, job, started>>
      /\ \A d \in Clients \ {c} : step'[d] = step[d]
      /\ step'[c] # "load"
  BY DEF Load, TypeInv, TypeOK
<1>2. job[c] \in started
  BY DEF OneOwner, TrainTask
<1>3. ASSUME NEW d \in Clients, job[d] = job[c], task[d] \in TrainTask PROVE d = c
  BY <1>3 DEF OneOwner, TrainTask
<1> QED BY <1>1, <1>2, <1>3 DEF Fresh, Unfit, TrainTask

\* The documents in circulation after a step were in circulation before it,
\* except for the one that a load has edited.
LEMMA HeldStep ==
    ASSUME TypeInv, NEW c \in Clients, Shape(c), Circulates(c)
    PROVE  \/ Held' \subseteq Held
           \/ \E doc \in Held : /\ Load(c) /\ doc \in Document /\ Finds(c, doc)
                               /\ Held' \subseteq Held \cup {Edited(c, doc)}
<1>0. \A d \in Clients \ {c} : copy'[d] = copy[d]
  BY DEF Shape, OthersUnchanged
<1>1. CASE store' \in Held /\ copy'[c] \in Held
  <2>1. \A d \in Clients : copy'[d] \in Held
    BY <1>0, <1>1 DEF Held
  <2>2. DefaultRegistry' = DefaultRegistry /\ DefaultRegistry \in Held
    BY DEF DefaultRegistry, Held
  <2> QED BY <1>1, <2>1, <2>2 DEF Held
<1>2. CASE Load(c)
  <2>1. PICK doc \in LoadResults :
           Finds(c, doc) /\ copy' = [copy EXCEPT ![c] = Edited(c, doc)]
    BY <1>2 DEF Load
  <2>2. doc \in Held /\ doc \in Document
    BY <2>1, DefaultIsDocument DEF LoadResults, Held, TypeInv, TypeOK
  <2>3. copy'[c] = Edited(c, doc) /\ store' = store
    BY <1>2, <2>1 DEF Load, TypeInv, TypeOK
  <2>4. Held' \subseteq Held \cup {Edited(c, doc)}
    BY <1>0, <2>3 DEF Held, DefaultRegistry
  <2> QED BY <1>2, <2>1, <2>2, <2>4
<1> QED BY <1>1, <1>2 DEF Circulates

\* An operation edits a consistent document into a consistent one, and only
\* register_model adds a model, its own.
LEMMA EditIsConsistent ==
    ASSUME TypeInv, NEW c \in Clients, NEW doc \in Document, task[c] \in Operation,
           Consistent(doc), Finds(c, doc),
           task[c] = "register_model" => ~HasModel(doc, job[c])
    PROVE  /\ Consistent(Edited(c, doc))
           /\ \A t \in Trainings :
                 HasModel(Edited(c, doc), t)
                    => HasModel(doc, t) \/ (task[c] = "register_model" /\ t = job[c])
<1>1. CASE task[c] \in {"register_run", "complete_run", "fail_run", "report"}
  <2>1. /\ Edited(c, doc).stage = doc.stage
        /\ Edited(c, doc).production = doc.production
    <3>1. CASE task[c] = "register_run"
      BY <3>1 DEF Edited, WithRun, Document
    <3>2. CASE task[c] = "complete_run"
      BY <3>2 DEF Edited, WithRunStatus, Document
    <3>3. CASE task[c] = "fail_run"
      BY <3>3 DEF Edited, WithRunStatus, Document
    <3>4. CASE task[c] = "report"
      BY <3>4 DEF Edited, WithReport, Document
    <3> QED BY <1>1, <3>1, <3>2, <3>3, <3>4
  <2> QED BY <2>1 DEF Consistent, Champions, HasModel
<1>2. CASE task[c] = "register_model"
  <2>1. job[c] \in Trainings
    BY <1>2 DEF TypeInv, JobFitsTask, TrainTask
  <2>2. PICK s \in {"production", "candidate"} : Edited(c, doc) = WithModel(doc, job[c], s)
    BY <1>2 DEF Edited
  <2>3. doc.stage[job[c]] = "absent"
    BY <1>2 DEF HasModel
  <2>4. /\ Edited(c, doc).stage = [doc.stage EXCEPT ![job[c]] = s]
        /\ Edited(c, doc).production = IF s = "production" THEN job[c] ELSE doc.production
    BY <2>1, <2>2 DEF WithModel, Document
  <2>5. CASE s = "production"
    BY <1>2, <2>1, <2>4, <2>5, NoneIsNoTraining DEF Consistent, Champions, HasModel, Document
  <2>6. CASE s = "candidate"
    BY <1>2, <2>1, <2>3, <2>4, <2>6 DEF Consistent, Champions, HasModel, Document
  <2> QED BY <2>5, <2>6
<1>3. CASE task[c] = "promote"
  <2>1. job[c] \in Trainings
    BY <1>3 DEF TypeInv, JobFitsTask, TrainTask
  <2>2. Edited(c, doc) = WithPromotion(doc, job[c])
    BY <1>3 DEF Edited
  <2>3. HasModel(doc, job[c])
    BY <1>3 DEF Finds
  <2>4. /\ Edited(c, doc).production = job[c]
        /\ Edited(c, doc).stage[job[c]] = "production"
    BY <2>1, <2>2 DEF WithPromotion, Document
  <2>5. Consistent(Edited(c, doc))
    BY <2>1, <2>4, NoneIsNoTraining DEF Consistent, Champions
  <2>6. ASSUME NEW t \in Trainings, HasModel(Edited(c, doc), t) PROVE HasModel(doc, t)
    BY <2>1, <2>2, <2>3, <2>6 DEF WithPromotion, HasModel, Champions, Document
  <2> QED BY <2>5, <2>6
<1> QED BY <1>1, <1>2, <1>3 DEF Operation

\* The documents in circulation stay consistent.
LEMMA ConsistencyStep ==
    ASSUME TypeInv, OneOwner, HeldAreConsistent, NEW c \in Clients,
           Shape(c), Circulates(c)
    PROVE  HeldAreConsistent'
<1>1. CASE Held' \subseteq Held
  <2> SUFFICES ASSUME NEW doc \in Held'
               PROVE  Consistent(doc) /\ \A t \in Trainings : Fresh(t)' => ~HasModel(doc, t)
    BY DEF HeldAreConsistent, Consistent, Champions, HasModel
  <2> QED BY <1>1, FreshOnlyShrinks DEF HeldAreConsistent
<1>2. ASSUME NEW doc \in Held, Load(c), doc \in Document, Finds(c, doc),
             Held' \subseteq Held \cup {Edited(c, doc)}
      PROVE  HeldAreConsistent'
  <2>1. Consistent(doc)
    BY DEF HeldAreConsistent
  <2>2. task[c] \in Operation /\ step[c] = "load"
    BY <1>2 DEF Load
  <2>3. task[c] = "register_model" => ~HasModel(doc, job[c])
    BY <2>2 DEF HeldAreConsistent, Fresh, TypeInv, JobFitsTask, TrainTask
  <2>4. /\ Consistent(Edited(c, doc))
        /\ \A t \in Trainings :
              HasModel(Edited(c, doc), t)
                 => HasModel(doc, t) \/ (task[c] = "register_model" /\ t = job[c])
    BY <1>2, <2>1, <2>2, <2>3, EditIsConsistent
  <2>5. ASSUME NEW e \in Held', NEW t \in Trainings, Fresh(t)' PROVE ~HasModel(e, t)
    <3>1. Fresh(t)
      BY <2>5, FreshOnlyShrinks
    <3>2. task[c] = "register_model" => t # job[c]
      BY <1>2, <2>5, RegistrationUsesFreshness
    <3> QED BY <1>2, <2>4, <3>1, <3>2 DEF HeldAreConsistent
  <2>6. ASSUME NEW e \in Held' PROVE Consistent(e)
    BY <1>2, <2>4 DEF HeldAreConsistent
  <2> QED BY <2>5, <2>6 DEF HeldAreConsistent, Consistent, Champions, HasModel
<1> QED BY <1>1, <1>2, HeldStep

\* The invariants of the served model are inductive.
LEMMA ConsistencyInvariance == Spec => [](TypeInv /\ OneOwner /\ HeldAreConsistent)
<1>1. Init => TypeInv /\ OneOwner /\ HeldAreConsistent
  <2> SUFFICES ASSUME Init PROVE OneOwner /\ HeldAreConsistent /\ TypeInv
    OBVIOUS
  <2>1. OneOwner
    BY DEF Init, OneOwner, TrainTask
  <2>2. Held = {DefaultRegistry}
    BY DEF Init, Held
  <2>3. HeldAreConsistent
    BY <2>2 DEF HeldAreConsistent, Consistent, Champions, HasModel, DefaultRegistry
  <2>4. TypeInv
    BY DefaultIsDocument DEF Init, TypeInv, TypeOK, JobFitsTask, Task, Step, Plan, TrainTask
  <2> QED BY <2>1, <2>3, <2>4
<1>2. TypeInv /\ OneOwner /\ HeldAreConsistent /\ [Next]_vars
         => (TypeInv /\ OneOwner /\ HeldAreConsistent)'
  <2> SUFFICES ASSUME TypeInv, OneOwner, HeldAreConsistent, [Next]_vars
               PROVE  (TypeInv /\ OneOwner /\ HeldAreConsistent)'
    OBVIOUS
  <2>1. CASE UNCHANGED vars
    <3>1. TypeInv' /\ OneOwner'
      BY <2>1 DEF vars, TypeInv, TypeOK, JobFitsTask, OneOwner
    <3>2. Held' = Held /\ \A t \in Trainings : Fresh(t)' = Fresh(t)
      BY <2>1 DEF vars, Held, Fresh, Unfit, DefaultRegistry
    <3> QED BY <3>1, <3>2 DEF HeldAreConsistent, Consistent, Champions, HasModel
  <2>2. ASSUME NEW c \in Clients, Progress(c) \/ Request(c) \/ Crash(c)
        PROVE  (TypeInv /\ OneOwner /\ HeldAreConsistent)'
    <3>1. Shape(c) /\ Circulates(c)
      BY <2>2, StepShape
    <3> QED BY <2>2, <3>1, StepKeepsTypes, OwnerStep, ConsistencyStep
  <2> QED BY <2>1, <2>2 DEF Next
<1> QED BY <1>1, <1>2, PTL DEF Spec

\* Whatever the clients' interleaving, the lost updates and the faults, the
\* model that get_current_model_metadata serves is in stage production as soon
\* as the registry has a production model or a production pointer.
THEOREM ServedModel == Spec => []ServedModelIsPromoted
<1>1. TypeInv /\ HeldAreConsistent => ServedModelIsPromoted
  <2> SUFFICES ASSUME TypeInv, HeldAreConsistent,
                      Champions(store) # {} \/ store.production # None
               PROVE  CurrentModel(store) \in Champions(store)
    BY DEF ServedModelIsPromoted
  <2>1. Consistent(store)
    BY DEF HeldAreConsistent, Held
  <2>2. store.production # None /\ store.production \in Champions(store)
    BY <2>1 DEF Consistent
  <2>3. CurrentModel(store) = store.production
    BY <2>2 DEF CurrentModel, Models, Champions
  <2> QED BY <2>2, <2>3
<1> QED BY <1>1, ConsistencyInvariance, PTL

-----------------------------------------------------------------------------
(***************************************************************************)
(* The threshold.  A permission, once given, is not taken back: the f1     *)
(* verdict of a training is fixed when it is fitted, which happens once.   *)
(* Everything in production in a document in circulation has a permission. *)
(***************************************************************************)

\* A step takes no permission back.
LEMMA AllowedIsStable ==
    ASSUME TypeInv, HeldAreAllowed, NEW c \in Clients, Shape(c),
           NEW t \in Trainings, Permitted(t)
    PROVE  Permitted(t)'
<1>1. CASE t \in endorsed
  BY <1>1 DEF Shape, Permitted
<1>2. CASE plan[t].good
  <2>1. ~Unfit(t)
    BY <1>2 DEF HeldAreAllowed
  <2>2. ~(t = job[c] /\ task[c] = "fit")
    BY <2>1 DEF Unfit
  <2>3. plan'[t].good = plan[t].good
    BY <2>2 DEF Shape
  <2> QED BY <1>2, <2>3 DEF Permitted
<1> QED BY <1>1, <1>2 DEF Permitted

\* An operation puts into production only what has a permission.
LEMMA EditIsAllowed ==
    ASSUME TypeInv, NEW c \in Clients, NEW doc \in Document, task[c] \in Operation,
           NEW t \in Trainings,
           Edited(c, doc).stage[t] \in {"production", "archived"},
           task[c] = "promote" => Permitted(job[c]),
           doc.stage[t] \in {"production", "archived"} => Permitted(t)
    PROVE  Permitted(t)
<1>1. CASE task[c] = "register_run"
  BY <1>1 DEF Edited, WithRun, Document
<1>2. CASE task[c] = "complete_run"
  BY <1>2 DEF Edited, WithRunStatus, Document
<1>3. CASE task[c] = "fail_run"
  BY <1>3 DEF Edited, WithRunStatus, Document
<1>4. CASE task[c] = "report"
  BY <1>4 DEF Edited, WithReport, Document
<1>5. CASE task[c] = "register_model"
  <2>1. job[c] \in Trainings
    BY <1>5 DEF TypeInv, JobFitsTask, TrainTask
  <2>2. Edited(c, doc) = WithModel(doc, job[c], IF plan[job[c]].good THEN "production" ELSE "candidate")
    BY <1>5 DEF Edited
  <2> QED BY <2>1, <2>2 DEF WithModel, Document, Permitted
<1>6. CASE task[c] = "promote"
  <2>1. job[c] \in Trainings
    BY <1>6 DEF TypeInv, JobFitsTask, TrainTask
  <2>2. Edited(c, doc) = WithPromotion(doc, job[c])
    BY <1>6 DEF Edited
  <2>3. t = job[c] \/ doc.stage[t] \in {"production", "archived"}
    BY <2>1, <2>2 DEF WithPromotion, Champions, Document
  <2> QED BY <1>6, <2>3
<1> QED BY <1>1, <1>2, <1>3, <1>4, <1>5, <1>6 DEF Operation

\* The permissions stay complete.
LEMMA AllowedStep ==
    ASSUME TypeInv, OneOwner, HeldAreAllowed, TypeInv', NEW c \in Clients,
           Shape(c), Circulates(c)
    PROVE  HeldAreAllowed'
<1>1. ASSUME NEW t \in Trainings, Unfit(t)' PROVE ~plan'[t].good
  <2>1. Unfit(t)
    BY <1>1, UnfitOnlyShrinks
  <2>2. ~plan[t].good
    BY <2>1 DEF HeldAreAllowed
  <2>3. CASE plan'[t].good = plan[t].good
    BY <2>2, <2>3
  <2>4. CASE plan'[t].good # plan[t].good
    <3>1. t = job[c] /\ task[c] = "fit" /\ task'[c] \notin Unfitted
      BY <2>4 DEF Shape
    <3>2. t \in started'
      BY <3>1 DEF OneOwner, TrainTask, Shape
    <3>3. PICK d \in Clients : job'[d] = t /\ task'[d] \in Unfitted
      BY <1>1, <3>2 DEF Unfit, Unfitted
    <3>4. d # c /\ job[d] = t /\ task[d] \in Unfitted
      BY <3>1, <3>3 DEF Shape, OthersUnchanged
    <3> QED BY <3>1, <3>4 DEF OneOwner, TrainTask, Unfitted
  <2> QED BY <2>3, <2>4
<1>2. ASSUME NEW d \in Clients, task'[d] = "promote" PROVE Permitted(job[d])'
  <2>1. job'[d] \in Trainings
    BY <1>2 DEF TypeInv, JobFitsTask
  <2>2. CASE d # c
    <3>1. task[d] = "promote" /\ job'[d] = job[d]
      BY <1>2, <2>2 DEF Shape, OthersUnchanged
    <3>2. Permitted(job[d])
      BY <3>1 DEF HeldAreAllowed
    <3>3. PICK t \in Trainings : t = job[d] /\ t = job'[d]
      BY <2>1, <3>1
    <3> QED BY <3>2, <3>3, AllowedIsStable DEF Permitted
  <2>3. CASE d = c /\ job'[c] \in endorsed'
    BY <2>3 DEF Permitted
  <2>4. CASE d = c /\ job'[c] = job[c] /\ (task[c] = "promote" \/ plan[job[c]].good)
    <3>1. Permitted(job[c])
      BY <2>4 DEF HeldAreAllowed, Permitted
    <3>2. PICK t \in Trainings : t = job[c] /\ t = job'[c]
      BY <2>1, <2>4
    <3> QED BY <2>4, <3>1, <3>2, AllowedIsStable DEF Permitted
  <2> QED BY <1>2, <2>2, <2>3, <2>4 DEF Shape
<1>3. ASSUME NEW e \in Held', NEW t \in Trainings, e.stage[t] \in {"production", "archived"}
      PROVE  Permitted(t)'
  <2>1. CASE e \in Held
    BY <1>3, <2>1, AllowedIsStable DEF HeldAreAllowed
  <2>2. ASSUME NEW doc \in Held, Load(c), doc \in Document, e = Edited(c, doc)
        PROVE  Permitted(t)'
    <3>1. task[c] \in Operation
      BY <2>2 DEF Load
    <3>2. task[c] = "promote" => Permitted(job[c])
      BY DEF HeldAreAllowed
    <3>3. doc.stage[t] \in {"production", "archived"} => Permitted(t)
      BY DEF HeldAreAllowed
    <3>4. Permitted(t)
      BY <1>3, <2>2, <3>1, <3>2, <3>3, EditIsAllowed
    <3> QED BY <3>4, AllowedIsStable
  <2> QED BY <2>1, <2>2, HeldStep
<1> QED BY <1>1, <1>2, <1>3 DEF HeldAreAllowed

\* No model is in production, or has been, without an f1 score that reaches
\* auto_promote_min_f1_score or an admin who asked for its promotion: neither
\* a lost update nor a crash nor a stale copy gets a model past the threshold.
THEOREM Threshold == Spec => []ThresholdGate
<1>1. Init => HeldAreAllowed
  <2> SUFFICES ASSUME Init PROVE HeldAreAllowed
    OBVIOUS
  <2>1. Held = {DefaultRegistry}
    BY DEF Init, Held
  <2> QED BY <2>1 DEF Init, HeldAreAllowed, DefaultRegistry
<1>2. TypeInv /\ TypeInv' /\ OneOwner /\ HeldAreAllowed /\ [Next]_vars => HeldAreAllowed'
  <2> SUFFICES ASSUME TypeInv, TypeInv', OneOwner, HeldAreAllowed, [Next]_vars
               PROVE  HeldAreAllowed'
    OBVIOUS
  <2>1. CASE UNCHANGED vars
    <3>1. Held' = Held /\ \A t \in Trainings : (Unfit(t)' = Unfit(t)) /\ (Permitted(t)' = Permitted(t))
      BY <2>1 DEF vars, Held, Unfit, Permitted, DefaultRegistry
    <3>2. \A c \in Clients : task'[c] = "promote" => Permitted(job[c])'
      BY <2>1 DEF vars, HeldAreAllowed, Permitted
    <3> QED BY <2>1, <3>1, <3>2 DEF HeldAreAllowed, vars
  <2>2. ASSUME NEW c \in Clients, Progress(c) \/ Request(c) \/ Crash(c)
        PROVE  HeldAreAllowed'
    <3>1. Shape(c) /\ Circulates(c)
      BY <2>2, StepShape
    <3> QED BY <3>1, AllowedStep
  <2> QED BY <2>1, <2>2 DEF Next
<1>3. HeldAreAllowed => ThresholdGate
  BY DEF HeldAreAllowed, ThresholdGate, Held, Permitted
<1> QED BY <1>1, <1>2, <1>3, ConsistencyInvariance, PTL DEF Spec

-----------------------------------------------------------------------------
(***************************************************************************)
(* Clients that take turns.  The document in the copy of the client whose  *)
(* turn it is, is then the stored one with one edit, so each save is one   *)
(* step of the contract; how far the document is when an operation starts  *)
(* follows from the operations that came before it, also when a client has *)
(* crashed among them: a training whose client crashed is never taken up   *)
(* again.  WriterInv(w) says so of a client w that has the registry for    *)
(* itself; between two requests it passes from any client to any other.    *)
(***************************************************************************)
\* A blob that can be read and written; the file needs no such assumption.
Reliable == Backend = "blob" => "read" \notin Faults /\ "write" \notin Faults

\* Nobody but w is inside an operation.
Alone(w) == \A d \in Clients \ {w} : task[d] = "idle"

\* The file is whole while a training is under way, but for the moment between
\* the truncation and the write.
FileFits(w) ==
    /\ file \in {"whole", "empty"}
    /\ Backend = "blob" => file = "whole"
    /\ step[w] = "write" => file = "empty" /\ Backend = "local"
    /\ task[w] \in {"fit", "register_model", "complete_run", "fail_run"} =>
          file = "whole" \/ step[w] = "write"
    /\ step[w] \in {"sync", "save"} => file = "whole"

\* The copy is the stored document with the operation's edit, and nothing else.
CopyFits(w) ==
    step[w] # "load" => Finds(w, store) /\ copy[w] = Edited(w, store)

\* A training that was not requested and a report that was not built are in no
\* document.
NewFits ==
    /\ \A t \in Trainings \ started : store.run[t] = "absent" /\ ~HasModel(store, t)
    /\ store.reports \subseteq filed

\* How far the document is when the operation starts.
StoreFits(w) ==
    LET t == job[w]
    IN  /\ task[w] \in TrainTask => t \in started
        /\ task[w] = "register_run" => store.run[t] = "absent" /\ ~HasModel(store, t)
        /\ task[w] \in {"fit", "register_model", "fail_run"} =>
              store.run[t] = "running" /\ ~HasModel(store, t)
        /\ task[w] = "complete_run" =>
              store.run[t] = "running" /\ (plan[t].register => HasModel(store, t))
        /\ task[w] = "report" => t \notin store.reports /\ t \in filed

WriterInv(w) ==
    /\ TypeInv
    /\ Alone(w)
    /\ FileFits(w) /\ CopyFits(w) /\ NewFits /\ StoreFits(w)
    /\ RunsTellTheTruth

\* What the editing functions do to runs, models and reports.
LEMMA RunEdit ==
    ASSUME NEW doc \in Document, NEW t \in Trainings, NEW s \in RunStatus
    PROVE  /\ WithRunStatus(doc, t, s).reports = doc.reports
           /\ \A u \in Trainings :
                /\ HasModel(WithRunStatus(doc, t, s), u) <=> HasModel(doc, u)
                /\ WithRunStatus(doc, t, s).run[u] = IF u = t THEN s ELSE doc.run[u]
BY DEF Document, WithRunStatus, HasModel

LEMMA NewRunEdit ==
    ASSUME NEW doc \in Document, NEW t \in Trainings
    PROVE  WithRun(doc, t) = WithRunStatus(doc, t, "running")
BY DEF WithRun, WithRunStatus

LEMMA ModelEdit ==
    ASSUME NEW doc \in Document, NEW t \in Trainings, NEW s \in {"candidate", "production"}
    PROVE  /\ WithModel(doc, t, s).reports = doc.reports
           /\ WithModel(doc, t, s).run = doc.run
           /\ \A u \in Trainings : HasModel(WithModel(doc, t, s), u) <=> u = t \/ HasModel(doc, u)
BY DEF Document, WithModel, HasModel

LEMMA PromotionEdit ==
    ASSUME NEW doc \in Document, NEW t \in Trainings, HasModel(doc, t)
    PROVE  /\ WithPromotion(doc, t).reports = doc.reports
           /\ WithPromotion(doc, t).run = doc.run
           /\ \A u \in Trainings : HasModel(WithPromotion(doc, t), u) <=> HasModel(doc, u)
BY DEF Document, WithPromotion, HasModel, Champions

LEMMA ReportEdit ==
    ASSUME NEW doc \in Document, NEW r \in Reports
    PROVE  /\ WithReport(doc, r).reports = doc.reports \cup {r}
           /\ WithReport(doc, r).run = doc.run
           /\ \A u \in Trainings : HasModel(WithReport(doc, r), u) <=> HasModel(doc, u)
BY DEF Document, WithReport, HasModel

\* What the contract allows, in terms of the registry's own editing functions.
LEMMA ContractOutcomes ==
    ASSUME NEW doc, NEW t \in Trainings
    PROVE  /\ ~HasRun(doc, t) => WithRun(doc, t) \in Contract!Outcomes(doc)
           /\ doc.run[t] = "running" /\ ~HasModel(doc, t) =>
                 /\ \A stage \in {"candidate", "production"} :
                       WithModel(doc, t, stage) \in Contract!Outcomes(doc)
                 /\ WithRunStatus(doc, t, "failed") \in Contract!Outcomes(doc)
           /\ doc.run[t] = "running" =>
                 WithRunStatus(doc, t, "completed") \in Contract!Outcomes(doc)
           /\ HasModel(doc, t) => WithPromotion(doc, t) \in Contract!Outcomes(doc)
<1>1. /\ Contract!WithRun(doc, t) = WithRun(doc, t)
      /\ \A s : Contract!WithRunStatus(doc, t, s) = WithRunStatus(doc, t, s)
      /\ \A s : Contract!WithModel(doc, t, s) = WithModel(doc, t, s)
      /\ Contract!WithPromotion(doc, t) = WithPromotion(doc, t)
      /\ Contract!HasRun(doc, t) <=> HasRun(doc, t)
      /\ Contract!HasModel(doc, t) <=> HasModel(doc, t)
      /\ t \in Contract!Models(doc) <=> HasModel(doc, t)
  BY DEF Contract!WithRun, WithRun, Contract!WithRunStatus, WithRunStatus, Contract!WithModel,
         WithModel, Contract!WithPromotion, WithPromotion, Contract!HasRun, HasRun,
         Contract!HasModel, HasModel, Contract!Champions, Champions, Contract!Models
<1>2. t \in Contract!UnderWay(doc) <=> doc.run[t] = "running"
  BY DEF Contract!UnderWay
<1>3. ~HasRun(doc, t) => WithRun(doc, t) \in Contract!RunRegistered(doc)
  BY <1>1 DEF Contract!RunRegistered
<1>4. ASSUME doc.run[t] = "running", ~HasModel(doc, t), NEW stage \in {"candidate", "production"}
      PROVE  WithModel(doc, t, stage) \in Contract!ModelRegistered(doc)
  BY <1>1, <1>2, <1>4 DEF Contract!ModelRegistered
<1>5. doc.run[t] = "running" /\ ~HasModel(doc, t) =>
         WithRunStatus(doc, t, "failed") \in Contract!RunFailed(doc)
  BY <1>1, <1>2 DEF Contract!RunFailed
<1>6. doc.run[t] = "running" =>
         WithRunStatus(doc, t, "completed") \in Contract!RunCompleted(doc)
  BY <1>1, <1>2 DEF Contract!RunCompleted
<1>7. HasModel(doc, t) => WithPromotion(doc, t) \in Contract!Promoted(doc)
  BY <1>1 DEF Contract!Promoted
<1> QED BY <1>3, <1>4, <1>5, <1>6, <1>7 DEF Contract!Outcomes

LEMMA ContractReports ==
    ASSUME NEW doc, NEW r \in Reports, r \notin doc.reports
    PROVE  WithReport(doc, r) \in Contract!Outcomes(doc)
<1>1. Contract!WithReport(doc, r) = WithReport(doc, r)
  BY DEF Contract!WithReport, WithReport
<1> QED BY <1>1 DEF Contract!Outcomes, Contract!ReportFiled

\* Where an operation of the writer is, and what it is about.
LEMMA WriterFacts ==
    ASSUME NEW w \in Clients, WriterInv(w)
    PROVE  /\ TypeOK /\ JobFitsTask(w) /\ store \in Document
           /\ plan \in [Trainings -> Plan]
           /\ task \in [Clients -> Task] /\ step \in [Clients -> Step]
           /\ job \in [Clients -> Trainings \cup Reports \cup {None}]
           /\ copy \in [Clients -> Document]
           /\ task[w] \in TrainTask \cup {"promote"} => job[w] \in Trainings
           /\ task[w] = "report" => job[w] \in Reports
           /\ step[w] # "load" => task[w] \in Operation
<1>1. TypeOK /\ JobFitsTask(w)
  BY DEF WriterInv, TypeInv
<1> QED BY <1>1 DEF JobFitsTask, TypeOK, Task

\* The edit of an operation that has found its run or model is one the contract
\* allows.
LEMMA EditIsOutcome ==
    ASSUME NEW w \in Clients, WriterInv(w), step[w] # "load"
    PROVE  Edited(w, store) \in Contract!Outcomes(store)
<1>1. StoreFits(w) /\ Finds(w, store) /\ task[w] \in Operation
  BY WriterFacts DEF WriterInv, CopyFits
<1> PICK t : t = job[w]
  OBVIOUS
<1>2. CASE task[w] = "register_run"
  <2>1. t \in Trainings /\ Edited(w, store) = WithRun(store, t) /\ ~HasRun(store, t)
    BY <1>1, <1>2, WriterFacts DEF StoreFits, Edited, HasRun, TrainTask
  <2> QED BY <2>1, ContractOutcomes
<1>3. CASE task[w] = "register_model"
  <2>1. PICK s \in {"candidate", "production"} : Edited(w, store) = WithModel(store, t, s)
    BY <1>3 DEF Edited
  <2>2. t \in Trainings /\ store.run[t] = "running" /\ ~HasModel(store, t)
    BY <1>1, <1>3, WriterFacts DEF StoreFits, TrainTask
  <2> QED BY <2>1, <2>2, ContractOutcomes
<1>4. CASE task[w] = "complete_run"
  <2>1. /\ t \in Trainings /\ Edited(w, store) = WithRunStatus(store, t, "completed")
        /\ store.run[t] = "running"
    BY <1>1, <1>4, WriterFacts DEF StoreFits, Edited, TrainTask
  <2> QED BY <2>1, ContractOutcomes
<1>5. CASE task[w] = "fail_run"
  <2>1. /\ t \in Trainings /\ Edited(w, store) = WithRunStatus(store, t, "failed")
        /\ store.run[t] = "running" /\ ~HasModel(store, t)
    BY <1>1, <1>5, WriterFacts DEF StoreFits, Edited, TrainTask
  <2> QED BY <2>1, ContractOutcomes
<1>6. CASE task[w] = "promote"
  <2>1. t \in Trainings /\ Edited(w, store) = WithPromotion(store, t) /\ HasModel(store, t)
    BY <1>1, <1>6, WriterFacts DEF Finds, Edited
  <2> QED BY <2>1, ContractOutcomes
<1>7. CASE task[w] = "report"
  <2>1. t \in Reports /\ Edited(w, store) = WithReport(store, t) /\ t \notin store.reports
    BY <1>1, <1>7, WriterFacts DEF StoreFits, Edited
  <2> QED BY <2>1, ContractReports
<1> QED BY <1>1, <1>2, <1>3, <1>4, <1>5, <1>6, <1>7 DEF Operation

\* What a step must keep besides the types.
WriterFits(w) == FileFits(w) /\ CopyFits(w) /\ NewFits /\ StoreFits(w) /\ RunsTellTheTruth

LEMMA GotoFacts ==
    ASSUME NEW w \in Clients, WriterInv(w), NEW t \in Task, Goto(w, t)
    PROVE  /\ task'[w] = t /\ step'[w] = "load"
           /\ t # "idle" => job'[w] = job[w]
BY WriterFacts DEF Goto

\* Giving up leaves the document as it is.
LEMMA IdleKeepsWriter ==
    ASSUME NEW w \in Clients, WriterInv(w), Goto(w, "idle"), UNCHANGED <<store, file, plan, started, filed>>
    PROVE  WriterFits(w)'
<1>1. task'[w] = "idle" /\ step'[w] = "load"
  BY GotoFacts DEF Task
<1>2. FileFits(w) /\ NewFits /\ RunsTellTheTruth
  BY DEF WriterInv
<1>3. FileFits(w)' /\ CopyFits(w)' /\ StoreFits(w)'
  BY <1>1, <1>2 DEF FileFits, CopyFits, StoreFits, TrainTask
<1>4. NewFits' /\ RunsTellTheTruth'
  BY <1>2 DEF NewFits, RunsTellTheTruth, HasModel
<1> QED BY <1>3, <1>4 DEF WriterFits

\* A step inside an operation, which leaves the document and the operation.
LEMMA InsideKeepsWriter ==
    ASSUME NEW w \in Clients, WriterInv(w), UNCHANGED <<store, plan, started, filed, task, job>>,
           FileFits(w)', CopyFits(w)'
    PROVE  WriterFits(w)'
<1>1. NewFits /\ StoreFits(w) /\ RunsTellTheTruth
  BY DEF WriterInv
<1>2. NewFits' /\ RunsTellTheTruth'
  BY <1>1 DEF NewFits, RunsTellTheTruth, HasModel
<1>3. StoreFits(w)'
  BY <1>1 DEF StoreFits, HasModel
<1> QED BY <1>2, <1>3 DEF WriterFits

\* One writer reads what is stored.
LEMMA ReadsTheStore ==
    ASSUME NEW w \in Clients, WriterInv(w), Reliable
    PROVE  /\ LoadResults \subseteq {store}
           /\ file = "whole" => LoadResults = {store}
<1>1. CASE Backend = "blob"
  BY <1>1 DEF LoadResults, Reliable
<1>2. CASE Backend = "local"
  BY <1>2 DEF LoadResults
<1> QED BY <1>1, <1>2, BackendKnown

LEMMA LoadKeepsWriter ==
    ASSUME NEW w \in Clients, WriterInv(w), Reliable, Load(w)
    PROVE  WriterFits(w)'
<1>1. PICK doc \in LoadResults :
         Finds(w, doc) /\ copy' = [copy EXCEPT ![w] = Edited(w, doc)]
  BY DEF Load
<1>2. doc = store
  BY <1>1, ReadsTheStore
<1>3. /\ UNCHANGED <<store, file, plan, started, filed, task, job>>
      /\ step'[w] \in {"sync", "save"}
      /\ copy'[w] = Edited(w, store)
  BY <1>1, <1>2, WriterFacts DEF Load
<1>4. FileFits(w)'
  <2>1. file = "whole"
    BY <1>1, BackendKnown DEF LoadResults, WriterInv, FileFits
  <2> QED BY <1>3, <2>1, BackendKnown DEF WriterInv, FileFits
<1>5. CopyFits(w)'
  <2>1. Finds(w, store)' <=> Finds(w, store)
    BY <1>3 DEF Finds, HasRun, HasModel
  <2>2. Edited(w, store)' = Edited(w, store)
    BY <1>3 DEF Edited, WithRun, WithModel, WithRunStatus, WithPromotion, WithReport, Champions
  <2> QED BY <1>1, <1>2, <1>3, <2>1, <2>2 DEF CopyFits
<1> QED BY <1>3, <1>4, <1>5, InsideKeepsWriter

\* The lookup of the writer's own run always succeeds, and the file is there.
LEMMA LoadRaisesKeepsWriter ==
    ASSUME NEW w \in Clients, WriterInv(w), Reliable, LoadRaises(w)
    PROVE  WriterFits(w)'
<1>1. /\ task[w] \in Operation /\ step[w] = "load"
      /\ LoadResults = {} \/ \E doc \in LoadResults : ~Finds(w, doc)
      /\ Unwind(w)
      /\ UNCHANGED <<store, file, plan, started, filed>>
  BY DEF LoadRaises
<1>2. ASSUME task[w] \in {"register_model", "complete_run"} PROVE FALSE
  <2>1. file = "whole"
    BY <1>1, <1>2 DEF WriterInv, FileFits
  <2>2. ~Finds(w, store)
    BY <1>1, <2>1, ReadsTheStore
  <2>3. store.run[job[w]] = "running"
    BY <1>2 DEF WriterInv, StoreFits
  <2> QED BY <1>2, <2>2, <2>3 DEF Finds, HasRun
<1>3. Goto(w, "idle")
  BY <1>1, <1>2 DEF Unwind, Operation
<1> QED BY <1>1, <1>3, IdleKeepsWriter

LEMMA SyncKeepsWriter ==
    ASSUME NEW w \in Clients, WriterInv(w), SyncAlias(w) \/ SaveLocal(w)
    PROVE  WriterFits(w)'
<1>1. /\ UNCHANGED <<store, plan, started, filed, task, job, copy>>
      /\ step[w] # "load"
  BY DEF SyncAlias, SaveLocal
<1>2. FileFits(w)'
  <2>1. CASE SyncAlias(w)
    BY <2>1, WriterFacts DEF SyncAlias, WriterInv, FileFits
  <2>2. CASE SaveLocal(w)
    BY <2>2, WriterFacts DEF SaveLocal, FileFits
  <2> QED BY <2>1, <2>2
<1>3. CopyFits(w)'
  <2>1. Finds(w, store)' <=> Finds(w, store)
    BY <1>1 DEF Finds, HasRun, HasModel
  <2>2. Edited(w, store)' = Edited(w, store)
    BY <1>1 DEF Edited, WithRun, WithModel, WithRunStatus, WithPromotion, WithReport, Champions
  <2> QED BY <1>1, <2>1, <2>2 DEF WriterInv, CopyFits
<1> QED BY <1>1, <1>2, <1>3, InsideKeepsWriter

\* A save carries the document to where the next operation of the training
\* starts.
LEMMA SavedKeepsWriter ==
    ASSUME NEW w \in Clients, WriterInv(w), step[w] # "load", Saved(w), UNCHANGED <<plan, started, filed>>,
           file' = "whole"
    PROVE  WriterFits(w)'
<1>1. /\ store' = Edited(w, store) /\ Finds(w, store)
      /\ NewFits /\ StoreFits(w) /\ RunsTellTheTruth
      /\ Goto(w, Continuation(w))
  BY DEF Saved, WriterInv, CopyFits
<1>3. Continuation(w) \in Task /\ store \in Document /\ plan \in [Trainings -> Plan]
      /\ task[w] \in Operation
  BY WriterFacts, ContinuationIsTask DEF Task, Operation
<1> PICK t : t = job[w]
  OBVIOUS
<1>4. /\ task'[w] = Continuation(w) /\ step'[w] = "load"
      /\ task'[w] # "idle" => job'[w] = t
  BY <1>1, <1>3, GotoFacts
<1>5. FileFits(w)' /\ CopyFits(w)'
  BY <1>4 DEF FileFits, CopyFits
<1>6. ASSUME t \in Trainings, t \in started,
             \E s \in RunStatus \ {"absent"} :
                /\ store' = WithRunStatus(store, t, s)
                /\ s = "failed" => ~HasModel(store, t)
                /\ s = "completed" /\ plan[t].register => HasModel(store, t)
      PROVE  NewFits' /\ RunsTellTheTruth'
  <2>1. PICK s \in RunStatus :
           /\ s # "absent"
           /\ store' = WithRunStatus(store, t, s)
           /\ s = "failed" => ~HasModel(store, t)
           /\ s = "completed" /\ plan[t].register => HasModel(store, t)
    BY <1>6
  <2>2. /\ store'.reports = store.reports
        /\ \A u \in Trainings :
             /\ HasModel(store', u) <=> HasModel(store, u)
             /\ store'.run[u] = IF u = t THEN s ELSE store.run[u]
    BY <1>3, <1>6, <2>1, RunEdit
  <2>3. NewFits'
    BY <1>1, <1>6, <2>2 DEF NewFits
  <2>4. RunsTellTheTruth'
    BY <1>1, <2>1, <2>2 DEF RunsTellTheTruth
  <2> QED BY <2>3, <2>4
<1>7. CASE task[w] = "register_run"
  <2>1. /\ t \in Trainings /\ t \in started /\ store' = WithRunStatus(store, t, "running")
        /\ ~HasModel(store, t)
    BY <1>1, <1>3, <1>7, WriterFacts, NewRunEdit DEF StoreFits, Edited, TrainTask
  <2>2. NewFits' /\ RunsTellTheTruth'
    BY <1>6, <2>1 DEF RunStatus
  <2>3. store'.run[t] = "running" /\ ~HasModel(store', t)
    BY <1>3, <2>1, RunEdit DEF RunStatus
  <2>4. task'[w] = "fit"
    BY <1>4, <1>7 DEF Continuation
  <2>5. StoreFits(w)'
    BY <1>4, <2>1, <2>3, <2>4 DEF StoreFits
  <2> QED BY <1>5, <2>2, <2>5 DEF WriterFits
<1>8. CASE task[w] = "register_model"
  <2>1. /\ t \in Trainings /\ t \in started /\ store.run[t] = "running"
        /\ \E s \in {"candidate", "production"} : store' = WithModel(store, t, s)
    BY <1>1, <1>8, WriterFacts DEF StoreFits, Edited, TrainTask
  <2>2. /\ store'.reports = store.reports /\ store'.run = store.run
        /\ \A u \in Trainings : HasModel(store', u) <=> u = t \/ HasModel(store, u)
    BY <1>3, <2>1, ModelEdit
  <2>3. NewFits'
    BY <1>1, <2>1, <2>2 DEF NewFits
  <2>4. RunsTellTheTruth'
    BY <1>1, <2>1, <2>2 DEF RunsTellTheTruth
  <2>5. task'[w] = "complete_run"
    BY <1>4, <1>8 DEF Continuation
  <2>6. StoreFits(w)'
    BY <1>4, <2>1, <2>2, <2>5 DEF StoreFits
  <2> QED BY <1>5, <2>3, <2>4, <2>6 DEF WriterFits
<1>9. CASE task[w] = "complete_run"
  <2>1. /\ t \in Trainings /\ t \in started /\ store' = WithRunStatus(store, t, "completed")
        /\ plan[t].register => HasModel(store, t)
    BY <1>1, <1>9, WriterFacts DEF StoreFits, Edited, TrainTask
  <2>2. NewFits' /\ RunsTellTheTruth'
    BY <1>6, <2>1 DEF RunStatus
  <2>3. task'[w] \in {"promote", "idle"}
    BY <1>4, <1>9 DEF Continuation
  <2>4. StoreFits(w)'
    BY <2>3 DEF StoreFits, TrainTask
  <2> QED BY <1>5, <2>2, <2>4 DEF WriterFits
<1>10. CASE task[w] = "fail_run"
  <2>1. /\ t \in Trainings /\ t \in started /\ store' = WithRunStatus(store, t, "failed")
        /\ ~HasModel(store, t)
    BY <1>1, <1>10, WriterFacts DEF StoreFits, Edited, TrainTask
  <2>2. NewFits' /\ RunsTellTheTruth'
    BY <1>6, <2>1 DEF RunStatus
  <2>3. task'[w] = "idle"
    BY <1>4, <1>10 DEF Continuation
  <2>4. StoreFits(w)'
    BY <2>3 DEF StoreFits, TrainTask
  <2> QED BY <1>5, <2>2, <2>4 DEF WriterFits
<1>11. CASE task[w] = "promote"
  <2>1. t \in Trainings /\ HasModel(store, t) /\ store' = WithPromotion(store, t)
    BY <1>1, <1>11, WriterFacts DEF Finds, Edited
  <2>2. /\ store'.reports = store.reports /\ store'.run = store.run
        /\ \A u \in Trainings : HasModel(store', u) <=> HasModel(store, u)
    BY <1>3, <2>1, PromotionEdit
  <2>3. NewFits' /\ RunsTellTheTruth'
    BY <1>1, <2>2 DEF NewFits, RunsTellTheTruth
  <2>4. task'[w] = "idle"
    BY <1>4, <1>11 DEF Continuation
  <2>5. StoreFits(w)'
    BY <2>4 DEF StoreFits, TrainTask
  <2> QED BY <1>5, <2>3, <2>5 DEF WriterFits
<1>12. CASE task[w] = "report"
  <2>1. t \in Reports /\ t \in filed /\ store' = WithReport(store, t)
    BY <1>1, <1>12, WriterFacts DEF StoreFits, Edited
  <2>2. /\ store'.reports = store.reports \cup {t} /\ store'.run = store.run
        /\ \A u \in Trainings : HasModel(store', u) <=> HasModel(store, u)
    BY <1>3, <2>1, ReportEdit
  <2>3. NewFits' /\ RunsTellTheTruth'
    BY <1>1, <2>1, <2>2 DEF NewFits, RunsTellTheTruth
  <2>4. task'[w] = "idle"
    BY <1>4, <1>12 DEF Continuation
  <2>5. StoreFits(w)'
    BY <2>4 DEF StoreFits, TrainTask
  <2> QED BY <1>5, <2>3, <2>5 DEF WriterFits
<1> QED BY <1>3, <1>7, <1>8, <1>9, <1>10, <1>11, <1>12 DEF Operation

\* Only SaveLocal leaves a file that is not whole, until WriteLocal.
LEMMA SaveKeepsWriter ==
    ASSUME NEW w \in Clients, WriterInv(w), Reliable, Save(w)
    PROVE  WriterFits(w)'
<1>1. CASE SaveBlob(w)
  <2>1. /\ Saved(w) /\ step[w] # "load" /\ UNCHANGED <<plan, started, filed>>
        /\ file' = "whole"
    BY <1>1 DEF SaveBlob, WriterInv, FileFits
  <2> QED BY <2>1, SavedKeepsWriter
<1>2. CASE SaveBlobRaises(w)
  BY <1>2 DEF SaveBlobRaises, Reliable
<1>3. CASE SaveLocal(w)
  BY <1>3, SyncKeepsWriter
<1>4. CASE WriteLocal(w)
  <2>1. /\ Saved(w) /\ step[w] # "load" /\ UNCHANGED <<plan, started, filed>>
        /\ file' = "whole"
    BY <1>4 DEF WriteLocal, WriterInv, FileFits
  <2> QED BY <2>1, SavedKeepsWriter
<1> QED BY <1>1, <1>2, <1>3, <1>4 DEF Save

\* The verdict of the f1 score changes nothing that is stored.
LEMMA FitKeepsWriter ==
    ASSUME NEW w \in Clients, WriterInv(w), NEW good \in BOOLEAN, Fit(w, good)
    PROVE  WriterFits(w)'
<1> PICK t : t = job[w]
  OBVIOUS
<1> PICK o : o = IF plan[t].register THEN "register_model" ELSE "complete_run"
  OBVIOUS
<1>1. /\ task[w] = "fit" /\ plan' = [plan EXCEPT ![t].good = good] /\ Goto(w, o)
      /\ UNCHANGED <<store, file, started, filed>>
  BY DEF Fit
<1>2. /\ FileFits(w) /\ NewFits /\ StoreFits(w) /\ RunsTellTheTruth
      /\ t \in Trainings /\ plan \in [Trainings -> Plan] /\ step[w] = "load"
  BY <1>1, WriterFacts DEF WriterInv, TrainTask, JobFitsTask
<1>3. /\ task'[w] = o /\ step'[w] = "load" /\ job'[w] = t
      /\ o = "register_model" \/ (o = "complete_run" /\ ~plan[t].register)
  <2>1. o \in Task /\ o # "idle"
    BY DEF Task, Operation
  <2> QED BY <1>1, <2>1, GotoFacts
<1>4. \A u \in Trainings : plan'[u].register = plan[u].register
  BY <1>1, <1>2 DEF Plan
<1>5. FileFits(w)' /\ CopyFits(w)'
  BY <1>1, <1>2, <1>3 DEF FileFits, CopyFits
<1>6. NewFits' /\ RunsTellTheTruth'
  BY <1>1, <1>2, <1>4 DEF NewFits, RunsTellTheTruth, HasModel
<1>7. StoreFits(w)'
  BY <1>1, <1>2, <1>3, <1>4 DEF StoreFits, HasModel, TrainTask
<1> QED BY <1>5, <1>6, <1>7 DEF WriterFits

\* The handler of train_model finds the run under way and no model.
LEMMA FitRaisesKeepsWriter ==
    ASSUME NEW w \in Clients, WriterInv(w), FitRaises(w)
    PROVE  WriterFits(w)'
<1>1. /\ task[w] = "fit" /\ Goto(w, "fail_run")
      /\ UNCHANGED <<store, file, plan, started, filed>>
  BY DEF FitRaises, Unwind
<1>2. /\ FileFits(w) /\ NewFits /\ StoreFits(w) /\ RunsTellTheTruth
      /\ step[w] = "load"
  BY <1>1, WriterFacts DEF WriterInv, JobFitsTask
<1>3. task'[w] = "fail_run" /\ step'[w] = "load" /\ job'[w] = job[w]
  BY <1>1, GotoFacts DEF Task, Operation
<1>4. FileFits(w)' /\ CopyFits(w)'
  BY <1>1, <1>2, <1>3 DEF FileFits, CopyFits
<1>5. NewFits' /\ RunsTellTheTruth'
  BY <1>1, <1>2 DEF NewFits, RunsTellTheTruth, HasModel
<1>6. StoreFits(w)'
  BY <1>1, <1>2, <1>3 DEF StoreFits, HasModel, TrainTask
<1> QED BY <1>4, <1>5, <1>6 DEF WriterFits

\* Fresh ids name nothing that is stored.
LEMMA RequestKeepsWriter ==
    ASSUME NEW w \in Clients, WriterInv(w), Request(w)
    PROVE  WriterFits(w)'
<1>1. /\ task[w] = "idle"
      /\ UNCHANGED <<store, file, step>>
  BY DEF Request, StartTraining, StartPromotion, StartReport
<1>2. /\ FileFits(w) /\ NewFits /\ StoreFits(w) /\ RunsTellTheTruth
      /\ plan \in [Trainings -> Plan] /\ step[w] = "load"
      /\ w \in Clients
      /\ task \in [Clients -> Task] /\ job \in [Clients -> Trainings \cup Reports \cup {None}]
  BY <1>1, WriterFacts DEF WriterInv, JobFitsTask
<1>3. CASE \E t \in Trainings, register, promote \in BOOLEAN :
              StartTraining(w, t, register, promote)
  <2>1. PICK t \in Trainings, register \in BOOLEAN, promote \in BOOLEAN :
           StartTraining(w, t, register, promote)
    BY <1>3
  <2>2. /\ t \notin started /\ started' = started \cup {t} /\ filed' = filed
        /\ task'[w] = "register_run" /\ job'[w] = t
        /\ \A u \in Trainings \ {t} : plan'[u] = plan[u]
    BY <1>2, <2>1 DEF StartTraining
  <2>3. store.run[t] = "absent" /\ ~HasModel(store, t)
    BY <1>2, <2>2 DEF NewFits
  <2>4. FileFits(w)' /\ CopyFits(w)'
    BY <1>1, <1>2, <2>2 DEF FileFits, CopyFits
  <2>5. NewFits'
    BY <1>1, <1>2, <2>2 DEF NewFits, HasModel
  <2>6. RunsTellTheTruth'
    BY <1>1, <1>2, <2>2, <2>3 DEF RunsTellTheTruth, HasModel
  <2>7. StoreFits(w)'
    BY <1>1, <2>2, <2>3 DEF StoreFits, HasModel
  <2> QED BY <2>4, <2>5, <2>6, <2>7 DEF WriterFits
<1>4. CASE \E t \in Trainings : StartPromotion(w, t)
  <2>1. task'[w] = "promote" /\ UNCHANGED <<plan, started, filed>>
    BY <1>2, <1>4 DEF StartPromotion
  <2>2. FileFits(w)' /\ CopyFits(w)' /\ StoreFits(w)'
    BY <1>1, <1>2, <2>1 DEF FileFits, CopyFits, StoreFits, TrainTask
  <2>3. NewFits' /\ RunsTellTheTruth'
    BY <1>1, <1>2, <2>1 DEF NewFits, RunsTellTheTruth, HasModel
  <2> QED BY <2>2, <2>3 DEF WriterFits
<1>5. CASE \E r \in Reports : StartReport(w, r)
  <2>1. PICK r \in Reports : StartReport(w, r)
    BY <1>5
  <2>2. /\ r \notin filed /\ filed' = filed \cup {r} /\ UNCHANGED <<plan, started>>
        /\ task'[w] = "report" /\ job'[w] = r
    BY <1>2, <2>1 DEF StartReport
  <2>3. r \notin store.reports
    BY <1>2, <2>2 DEF NewFits
  <2>4. FileFits(w)' /\ CopyFits(w)'
    BY <1>1, <1>2, <2>2 DEF FileFits, CopyFits
  <2>5. NewFits' /\ RunsTellTheTruth'
    BY <1>1, <1>2, <2>2 DEF NewFits, RunsTellTheTruth, HasModel
  <2>6. StoreFits(w)'
    BY <1>1, <2>2, <2>3 DEF StoreFits, TrainTask
  <2> QED BY <2>4, <2>5, <2>6 DEF WriterFits
<1> QED BY <1>3, <1>4, <1>5 DEF Request

\* A step of a client that has the registry for itself keeps its invariant.
LEMMA WriterStep ==
    ASSUME NEW w \in Clients, WriterInv(w), Reliable, Progress(w) \/ Request(w) \/ Crash(w)
    PROVE  WriterInv(w)'
<1>1. WriterFits(w)'
  <2>1. CASE Load(w)
    BY <2>1, LoadKeepsWriter
  <2>2. CASE LoadRaises(w)
    BY <2>2, LoadRaisesKeepsWriter
  <2>3. CASE SyncAlias(w)
    BY <2>3, SyncKeepsWriter
  <2>4. CASE Save(w)
    BY <2>4, SaveKeepsWriter
  <2>5. CASE \E good \in BOOLEAN : Fit(w, good)
    BY <2>5, FitKeepsWriter
  <2>6. CASE FitRaises(w)
    BY <2>6, FitRaisesKeepsWriter
  <2>7. CASE Request(w)
    BY <2>7, RequestKeepsWriter
  <2>8. CASE Crash(w)
    BY <2>8, IdleKeepsWriter DEF Crash
  <2> QED BY <2>1, <2>2, <2>3, <2>4, <2>5, <2>6, <2>7, <2>8 DEF Progress
<1>2. TypeInv' /\ Shape(w)
  BY StepKeepsTypes, StepShape DEF WriterInv
<1>3. Alone(w)'
  BY <1>2 DEF Shape, OthersUnchanged, WriterInv, Alone
<1> QED BY <1>1, <1>2, <1>3 DEF WriterInv, WriterFits

LEMMA WriterStutter ==
    ASSUME NEW w \in Clients, WriterInv(w), UNCHANGED vars
    PROVE  WriterInv(w)'
<1>1. TypeInv' /\ Alone(w)'
  BY DEF vars, WriterInv, TypeInv, TypeOK, JobFitsTask, Alone
<1>2. Finds(w, store)' <=> Finds(w, store)
  BY DEF vars, Finds, HasRun, HasModel
<1>3. Edited(w, store)' = Edited(w, store)
  BY DEF vars, Edited, WithRun, WithModel, WithRunStatus, WithPromotion, WithReport, Champions
<1>4. CopyFits(w)'
  BY <1>2, <1>3 DEF vars, WriterInv, CopyFits
<1>5. FileFits(w)'
  BY DEF vars, WriterInv, FileFits
<1> QED BY <1>1, <1>4, <1>5, InsideKeepsWriter DEF vars, WriterInv, WriterFits

\* Between two requests the registry passes from one client to any other.
LEMMA WriterPassesOn ==
    ASSUME NEW w \in Clients, NEW v \in Clients, WriterInv(w), task[w] = "idle"
    PROVE  WriterInv(v)
<1>1. /\ TypeInv /\ Alone(w) /\ FileFits(w) /\ NewFits /\ RunsTellTheTruth
      /\ JobFitsTask(w) /\ JobFitsTask(v)
  BY DEF WriterInv, TypeInv
<1>2. Alone(v) /\ task[v] = "idle"
  BY <1>1 DEF Alone
<1>3. step[v] = "load" /\ step[w] = "load"
  BY <1>1, <1>2 DEF JobFitsTask
<1>4. FileFits(v) /\ CopyFits(v) /\ StoreFits(v)
  BY <1>1, <1>2, <1>3 DEF FileFits, CopyFits, StoreFits, TrainTask
<1> QED BY <1>1, <1>2, <1>4 DEF WriterInv

-----------------------------------------------------------------------------
(***************************************************************************)
(* Each step of a client that has the registry for itself is a step of the *)
(* contract on the text of registry.json, or leaves the text as it is.     *)
(***************************************************************************)
LEMMA ContractStep ==
    ASSUME NEW w \in Clients, WriterInv(w), Reliable, Progress(w) \/ Request(w) \/ Crash(w)
    PROVE  Contract!Next \/ UNCHANGED (Contract!vars)
<1>1. /\ FileFits(w) /\ step \in [Clients -> Step] /\ copy \in [Clients -> Document]
      /\ \A d \in Clients \ {w} : step[d] = "load" /\ step'[d] = "load"
  <2>1. Shape(w)
    BY StepShape DEF WriterInv
  <2>2. \A d \in Clients \ {w} : step[d] = "load"
    BY DEF WriterInv, Alone, TypeInv, JobFitsTask
  <2> QED BY <2>1, <2>2, WriterFacts DEF WriterInv, Shape, OthersUnchanged
<1>2. /\ Saving = IF step[w] = "write" THEN {copy[w]} ELSE {}
      /\ Saving' = IF step'[w] = "write" THEN {copy'[w]} ELSE {}
  BY <1>1 DEF Saving
<1>3. ASSUME step[w] # "write", step'[w] # "write", UNCHANGED <<store, file>>
      PROVE  UNCHANGED (Contract!vars)
  BY <1>2, <1>3 DEF Contract!vars, Content
<1>4. step[w] # "load" => copy[w] \in Contract!Outcomes(store)
  BY EditIsOutcome DEF WriterInv, CopyFits
<1>5. CASE SaveBlob(w)
  <2>1. /\ step[w] = "save" /\ step'[w] = "load" /\ store' = copy[w]
        /\ file = "whole" /\ file' = "whole"
    BY <1>1, <1>5 DEF SaveBlob, Saved, Goto, FileFits
  <2>2. Content = {store} /\ Content' = {copy[w]} /\ Saving' = Saving
    BY <1>2, <2>1 DEF Content
  <2>3. Contract!Replace
    BY <1>4, <2>1, <2>2 DEF Contract!Replace
  <2> QED BY <2>3 DEF Contract!Next
<1>6. CASE SaveLocal(w)
  <2>1. /\ step[w] = "save" /\ step'[w] = "write" /\ copy'[w] = copy[w]
        /\ file = "whole" /\ file' = "empty"
    BY <1>1, <1>6 DEF SaveLocal, FileFits
  <2>2. Content = {store} /\ Content' = {} /\ Saving = {} /\ Saving' = {copy[w]}
    BY <1>2, <2>1 DEF Content
  <2>3. Contract!Empty
    BY <1>4, <2>1, <2>2 DEF Contract!Empty
  <2> QED BY <2>3 DEF Contract!Next
<1>7. CASE WriteLocal(w)
  <2>1. /\ step[w] = "write" /\ step'[w] = "load" /\ store' = copy[w]
        /\ file = "empty" /\ file' = "whole"
    BY <1>1, <1>7 DEF WriteLocal, Saved, Goto, FileFits
  <2>2. Content' = {copy[w]} /\ Saving = {copy[w]} /\ Saving' = {}
    BY <1>2, <2>1 DEF Content
  <2>3. Contract!Write
    BY <2>2 DEF Contract!Write
  <2> QED BY <2>3 DEF Contract!Next
<1>8. CASE Crash(w)
  <2>1. UNCHANGED <<store, file>> /\ step'[w] = "load"
    BY <1>1, <1>8 DEF Crash, Goto
  <2>2. CASE step[w] = "write"
    <3>1. Content' = Content /\ Saving = {copy[w]} /\ Saving' = {}
      BY <1>2, <2>1, <2>2 DEF Content
    <3>2. Contract!BreakOff
      BY <3>1 DEF Contract!BreakOff
    <3> QED BY <3>2 DEF Contract!Next
  <2> QED BY <1>3, <2>1, <2>2
<1>9. CASE Load(w) \/ SyncAlias(w)
  <2>1. UNCHANGED <<store, file>> /\ step[w] # "write" /\ step'[w] # "write"
    BY <1>1, <1>9 DEF Load, SyncAlias
  <2> QED BY <1>3, <2>1
<1>10. CASE LoadRaises(w) \/ (\E good \in BOOLEAN : Fit(w, good)) \/ FitRaises(w)
  <2>1. UNCHANGED <<store, file>> /\ step[w] # "write" /\ step'[w] = "load"
    BY <1>1, <1>10, WriterFacts
       DEF LoadRaises, Fit, FitRaises, Unwind, Goto, JobFitsTask
  <2> QED BY <1>3, <2>1
<1>11. CASE Request(w)
  <2>1. UNCHANGED <<store, file, step>> /\ task[w] = "idle"
    BY <1>11 DEF Request, StartTraining, StartPromotion, StartReport
  <2>2. step[w] = "load"
    BY <2>1, WriterFacts DEF JobFitsTask
  <2> QED BY <1>3, <2>1, <2>2
<1>12. ~SaveBlobRaises(w)
  BY DEF SaveBlobRaises, Reliable
<1> QED BY <1>5, <1>6, <1>7, <1>8, <1>9, <1>10, <1>11, <1>12 DEF Progress, Save

\* A model whose registration has returned is in every document saved after it.
LEMMA ModelsStay ==
    ASSUME NEW w \in Clients, WriterInv(w), Reliable, Progress(w) \/ Request(w) \/ Crash(w),
           registered \subseteq Models(store)
    PROVE  registered' \subseteq Models(store')
<1> PICK t : t = job[w]
  OBVIOUS
<1>1. CASE UNCHANGED <<store, registered>>
  BY <1>1 DEF Models
<1>2. CASE Saved(w) /\ step[w] # "load"
  <2>1. /\ store' = Edited(w, store) /\ Finds(w, store) /\ store \in Document
        /\ task[w] \in Operation
        /\ registered' = IF task[w] = "register_model" THEN registered \cup {t} ELSE registered
    BY <1>2, WriterFacts DEF Saved, WriterInv, CopyFits
  <2>2. ASSUME NEW u \in Trainings, HasModel(store, u)
        PROVE  HasModel(store', u)
    <3>1. CASE task[w] \in {"register_run", "complete_run", "fail_run"}
      <4>1. t \in Trainings
        BY <3>1, WriterFacts DEF TrainTask
      <4>2. PICK s \in RunStatus : store' = WithRunStatus(store, t, s)
        BY <2>1, <3>1, <4>1, NewRunEdit DEF Edited, RunStatus
      <4> QED BY <2>1, <2>2, <4>1, <4>2, RunEdit
    <3>2. CASE task[w] = "register_model"
      <4>1. t \in Trainings /\ \E s \in {"candidate", "production"} : store' = WithModel(store, t, s)
        BY <2>1, <3>2, WriterFacts DEF Edited, TrainTask
      <4> QED BY <2>1, <2>2, <4>1, ModelEdit
    <3>3. CASE task[w] = "promote"
      <4>1. t \in Trainings /\ store' = WithPromotion(store, t) /\ HasModel(store, t)
        BY <2>1, <3>3, WriterFacts DEF Edited, Finds
      <4> QED BY <2>1, <2>2, <4>1, PromotionEdit
    <3>4. CASE task[w] = "report"
      <4>1. t \in Reports /\ store' = WithReport(store, t)
        BY <2>1, <3>4, WriterFacts DEF Edited
      <4> QED BY <2>1, <2>2, <4>1, ReportEdit
    <3> QED BY <2>1, <3>1, <3>2, <3>3, <3>4 DEF Operation
  <2>3. task[w] = "register_model" => t \in Trainings /\ HasModel(store', t)
    <3> SUFFICES ASSUME task[w] = "register_model" PROVE t \in Trainings /\ HasModel(store', t)
      OBVIOUS
    <3>1. t \in Trainings /\ \E s \in {"candidate", "production"} : store' = WithModel(store, t, s)
      BY <2>1, WriterFacts DEF Edited, TrainTask
    <3> QED BY <2>1, <3>1, ModelEdit
  <2>4. \A u \in Trainings : u \in Models(store) <=> HasModel(store, u)
    BY DEF Models, HasModel
  <2>5. \A u \in Trainings : u \in Models(store') <=> HasModel(store', u)
    BY DEF Models, HasModel
  <2>6. Models(store) \subseteq Trainings
    BY DEF Models
  <2> QED BY <2>1, <2>2, <2>3, <2>4, <2>5, <2>6
<1>3. UNCHANGED <<store, registered>> \/ (Saved(w) /\ step[w] # "load")
  BY DEF Progress, Request, Crash, Load, LoadRaises, SyncAlias, Save, SaveBlob, SaveBlobRaises,
         SaveLocal, WriteLocal, Fit, FitRaises, StartTraining, StartPromotion, StartReport
<1> QED BY <1>1, <1>2, <1>3

-----------------------------------------------------------------------------
(***************************************************************************)
(* The invariant of clients that take turns.                               *)
(***************************************************************************)
Turns ==
    /\ TypeInv
    /\ TakeTurns
    /\ Clients # {} => \E w \in Clients : WriterInv(w)
    /\ RunsTellTheTruth
    /\ registered \subseteq Models(store)

LEMMA TurnsInitially ==
    ASSUME Init
    PROVE  Turns /\ Contract!Init
<1>1. TypeInv
  BY DefaultIsDocument DEF Init, TypeInv, TypeOK, JobFitsTask, Task, Step, Plan, TrainTask
<1>2. \A d \in Clients : task[d] = "idle" /\ step[d] = "load"
  BY DEF Init
<1>3. /\ store = DefaultRegistry /\ DefaultRegistry.reports = {}
      /\ \A t \in Trainings : DefaultRegistry.run[t] = "absent" /\ ~HasModel(DefaultRegistry, t)
  BY DEF Init, DefaultRegistry, HasModel
<1>4. NewFits /\ RunsTellTheTruth
  BY <1>3 DEF NewFits, RunsTellTheTruth
<1>5. ASSUME NEW w \in Clients PROVE WriterInv(w)
  <2>1. FileFits(w) /\ CopyFits(w)
    BY <1>2 DEF FileFits, CopyFits, Init
  <2>2. StoreFits(w) /\ Alone(w)
    BY <1>2 DEF StoreFits, TrainTask, Alone
  <2> QED BY <1>1, <1>4, <2>1, <2>2 DEF WriterInv
<1>6. Content = {DefaultRegistry} /\ Saving = {}
  BY <1>2, <1>3 DEF Content, Saving, Init
<1>7. Contract!Init
  BY <1>6 DEF Contract!Init, Contract!DefaultRegistry, DefaultRegistry
<1>8. TakeTurns /\ registered \subseteq Models(store)
  BY <1>2 DEF TakeTurns, Init
<1> QED BY <1>1, <1>4, <1>5, <1>7, <1>8 DEF Turns

LEMMA TurnsStutter ==
    ASSUME Turns, UNCHANGED vars
    PROVE  Turns' /\ UNCHANGED (Contract!vars)
<1>1. TypeInv' /\ TakeTurns' /\ RunsTellTheTruth' /\ registered' \subseteq Models(store')
  BY DEF vars, Turns, TypeInv, TypeOK, JobFitsTask, TakeTurns, RunsTellTheTruth, HasModel, Models
<1>2. ASSUME NEW w \in Clients, WriterInv(w) PROVE WriterInv(w)'
  BY <1>2, WriterStutter
<1>3. UNCHANGED (Contract!vars)
  BY DEF vars, Contract!vars, Content, Saving
<1> QED BY <1>1, <1>2, <1>3 DEF Turns

\* Whoever is alone has the registry for itself.
LEMMA TurnOf ==
    ASSUME Turns, NEW w \in Clients, Alone(w)
    PROVE  WriterInv(w)
<1>1. PICK v \in Clients : WriterInv(v)
  BY DEF Turns
<1>2. CASE v # w
  <2>1. task[v] = "idle"
    BY <1>2 DEF Alone
  <2> QED BY <1>1, <2>1, WriterPassesOn
<1> QED BY <1>1, <1>2

\* The client whose turn it is takes a step.
LEMMA TurnsStep ==
    ASSUME Turns, Reliable, NEW w \in Clients, Alone(w), Progress(w) \/ Request(w) \/ Crash(w)
    PROVE  Turns' /\ (Contract!Next \/ UNCHANGED (Contract!vars))
<1>1. WriterInv(w)
  BY TurnOf
<1>2. WriterInv(w)'
  BY <1>1, WriterStep
<1>4. TypeInv' /\ RunsTellTheTruth' /\ Alone(w)'
  BY <1>2 DEF WriterInv
<1>5. TakeTurns'
  BY <1>4 DEF Alone, TakeTurns
<1>6. registered' \subseteq Models(store')
  BY <1>1, ModelsStay DEF Turns
<1> QED BY <1>1, <1>2, <1>4, <1>5, <1>6, ContractStep DEF Turns

\* As long as clients take turns, whoever takes a step has the registry for itself.
LEMMA StepsAlone ==
    ASSUME TypeInv, TakeTurns, TakeTurns',
           NEW c \in Clients, Progress(c) \/ Request(c) \/ Crash(c)
    PROVE  Alone(c)
<1>1. CASE task[c] # "idle"
  BY <1>1 DEF TakeTurns, Alone
<1>2. CASE task[c] = "idle"
  <2>1. /\ JobFitsTask(c) /\ task \in [Clients -> Task] /\ OthersUnchanged(c)
    BY StepShape DEF TypeInv, TypeOK, Shape
  <2>2. Request(c)
    BY <1>2, <2>1 DEF JobFitsTask, Progress, Load, LoadRaises, SyncAlias, Save, SaveBlob,
       SaveBlobRaises, SaveLocal, WriteLocal, Fit, FitRaises, Crash, Operation
  <2>3. task'[c] # "idle"
    BY <2>1, <2>2 DEF Request, StartTraining, StartPromotion, StartReport
  <2> QED BY <2>1, <2>3 DEF TakeTurns, Alone, OthersUnchanged
<1> QED BY <1>1, <1>2

LEMMA NextKeepsTurns ==
    ASSUME Reliable, Turns, TakeTurns', [Next]_vars
    PROVE  Turns' /\ [Contract!Next]_(Contract!vars)
<1>1. CASE UNCHANGED vars
  BY <1>1, TurnsStutter
<1>2. CASE Next
  <2>1. PICK c \in Clients : Progress(c) \/ Request(c) \/ Crash(c)
    BY <1>2 DEF Next
  <2>2. Alone(c)
    BY <2>1, StepsAlone DEF Turns
  <2> QED BY <2>1, <2>2, TurnsStep
<1> QED BY <1>1, <1>2

(***************************************************************************)
(* As long as clients take turns, over a file or over a blob that can be   *)
(* read and written, registry.json implements its contract whatever        *)
(* crashes: each text that can be read is the one before it with one whole *)
(* operation added, and a text that is lost between truncation and write   *)
(* is lost for good.  What its runs say is true.                           *)
(***************************************************************************)
THEOREM TurnsKeepTheContract ==
    Reliable => (Spec /\ []TakeTurns => Contract!Spec /\ []RunsTellTheTruth)
<1> SUFFICES ASSUME Reliable
             PROVE  Spec /\ []TakeTurns => Contract!Spec /\ []RunsTellTheTruth
  OBVIOUS
<1>1. Init => Turns /\ Contract!Init
  BY TurnsInitially
<1>2. Turns /\ TakeTurns' /\ [Next]_vars => Turns' /\ [Contract!Next]_(Contract!vars)
  BY NextKeepsTurns
<1>3. Turns => RunsTellTheTruth
  BY DEF Turns
<1> QED BY <1>1, <1>2, <1>3, PTL DEF Spec, Contract!Spec

(***************************************************************************)
(* Under the same conditions no model is lost from a registry.json that    *)
(* can be read.                                                            *)
(***************************************************************************)
THEOREM TurnsLoseNoModel ==
    Reliable => (Spec /\ []TakeTurns => []NoModelIsLost)
<1> SUFFICES ASSUME Reliable PROVE Spec /\ []TakeTurns => []NoModelIsLost
  OBVIOUS
<1>1. Init => Turns
  BY TurnsInitially
<1>2. Turns /\ TakeTurns' /\ [Next]_vars => Turns'
  BY NextKeepsTurns
<1>3. Turns => NoModelIsLost
  BY DEF Turns, NoModelIsLost
<1> QED BY <1>1, <1>2, <1>3, PTL DEF Spec

-----------------------------------------------------------------------------
(***************************************************************************)
(* The MLflow alias.  An operation moves it between its edit and its save; *)
(* until then, and if the save does not come, alias and document disagree. *)
(***************************************************************************)
AliasInv ==
    /\ \A c \in Clients : step[c] = "sync" => MovesAlias(c)
    /\ ~astray => \/ alias = store.production
                  \/ \E c \in Clients : step[c] \in {"save", "write"} /\ MovesAlias(c)

\* An operation that moves the alias points to its model, the others leave the
\* pointer alone.
LEMMA EditedPointer ==
    ASSUME TypeInv, NEW c \in Clients, NEW doc \in Document, task[c] \in Operation
    PROVE  Edited(c, doc).production = IF MovesAlias(c) THEN job[c] ELSE doc.production
<1>1. CASE task[c] = "register_run"
  BY <1>1 DEF Edited, WithRun, MovesAlias, Document
<1>2. CASE task[c] = "register_model"
  <2> PICK s : s = IF plan[job[c]].good THEN "production" ELSE "candidate"
    OBVIOUS
  <2>1. Edited(c, doc) = WithModel(doc, job[c], s)
    BY <1>2 DEF Edited
  <2>2. MovesAlias(c) <=> s = "production"
    BY <1>2 DEF MovesAlias
  <2> QED BY <2>1, <2>2 DEF WithModel, Document
<1>3. CASE task[c] = "complete_run"
  BY <1>3 DEF Edited, WithRunStatus, MovesAlias, Document
<1>4. CASE task[c] = "fail_run"
  BY <1>4 DEF Edited, WithRunStatus, MovesAlias, Document
<1>5. CASE task[c] = "promote"
  BY <1>5 DEF Edited, WithPromotion, MovesAlias, Document
<1>6. CASE task[c] = "report"
  BY <1>6 DEF Edited, WithReport, MovesAlias, Document
<1> QED BY <1>1, <1>2, <1>3, <1>4, <1>5, <1>6 DEF Operation

\* Away from the save and from the alias call, nothing that AliasInv is about moves.
LEMMA AliasAside ==
    ASSUME AliasInv, NEW w \in Clients, \A d \in Clients \ {w} : step[d] = "load" /\ step'[d] = "load",
           step[w] \notin {"save", "write"}, UNCHANGED <<store, alias, astray>>,
           step'[w] = "sync" => MovesAlias(w)'
    PROVE  AliasInv'
<1>1. ~astray => alias = store.production
  BY DEF AliasInv
<1> QED BY <1>1 DEF AliasInv

LEMMA AliasStep ==
    ASSUME Turns, AliasInv, Reliable, NEW w \in Clients, Alone(w), Allowed(w),
           Progress(w) \/ Request(w) \/ Crash(w)
    PROVE  AliasInv'
<1>1. WriterInv(w)
  BY TurnOf
<1>2. /\ TypeInv /\ JobFitsTask(w) /\ store \in Document
      /\ task \in [Clients -> Task] /\ step \in [Clients -> Step]
  BY <1>1, WriterFacts DEF WriterInv
<1>3. \A d \in Clients \ {w} : step[d] = "load" /\ step'[d] = "load"
  <2>1. Shape(w)
    BY <1>2, StepShape
  <2>2. \A d \in Clients \ {w} : step[d] = "load"
    BY <1>2 DEF Alone, TypeInv, JobFitsTask
  <2> QED BY <2>1, <2>2 DEF Shape, OthersUnchanged
<1>4. astray' = IF LeavesAlias(w) THEN alias # job[w] \/ store' # copy[w] ELSE astray
  BY DEF Allowed
<1>5. step[w] # "load" =>
         /\ copy[w] = Edited(w, store)
         /\ copy[w].production = IF MovesAlias(w) THEN job[w] ELSE store.production
  BY <1>1, <1>2, WriterFacts, EditedPointer DEF WriterInv, CopyFits
<1>6. ~astray /\ ~(step[w] \in {"save", "write"} /\ MovesAlias(w)) => alias = store.production
  BY <1>3 DEF AliasInv
<1>7. CASE Load(w)
  <2>1. /\ step[w] = "load" /\ UNCHANGED <<store, alias, task, job, plan>>
        /\ step'[w] = IF MovesAlias(w) THEN "sync" ELSE "save"
    BY <1>2, <1>7 DEF Load
  <2>2. MovesAlias(w)' <=> MovesAlias(w)
    BY <2>1 DEF MovesAlias
  <2>3. astray' = astray
    BY <1>4, <2>1 DEF LeavesAlias
  <2> QED BY <1>3, <2>1, <2>2, <2>3, AliasAside
<1>8. CASE LoadRaises(w) \/ (\E good \in BOOLEAN : Fit(w, good)) \/ FitRaises(w)
  <2>1. UNCHANGED <<store, alias>> /\ step[w] = "load" /\ step'[w] = "load"
    BY <1>2, <1>8 DEF LoadRaises, Fit, FitRaises, Unwind, Goto, JobFitsTask
  <2>2. astray' = astray
    BY <1>4, <2>1 DEF LeavesAlias
  <2> QED BY <1>3, <2>1, <2>2, AliasAside
<1>9. CASE Request(w)
  <2>1. UNCHANGED <<store, alias, step>> /\ task[w] = "idle"
    BY <1>9 DEF Request, StartTraining, StartPromotion, StartReport
  <2>2. step[w] = "load" /\ step'[w] = "load"
    BY <1>2, <2>1 DEF JobFitsTask
  <2>3. astray' = astray
    BY <1>4, <2>2 DEF LeavesAlias
  <2> QED BY <1>3, <2>1, <2>2, <2>3, AliasAside
<1>10. CASE SyncAlias(w) \/ SaveLocal(w)
  <2>1. /\ UNCHANGED <<store, task, job, plan>>
        /\ step[w] \in {"sync", "save"} /\ step'[w] \in {"save", "write"}
        /\ SaveLocal(w) => UNCHANGED alias /\ step[w] = "save"
        /\ SyncAlias(w) => step[w] = "sync"
    BY <1>2, <1>10 DEF SyncAlias, SaveLocal
  <2>2. MovesAlias(w)' <=> MovesAlias(w)
    BY <2>1 DEF MovesAlias
  <2>3. astray' = astray
    BY <1>4, <2>1 DEF LeavesAlias
  <2>4. \A c \in Clients : step'[c] # "sync"
    BY <1>3, <2>1
  <2>5. CASE MovesAlias(w)
    BY <2>1, <2>2, <2>4, <2>5 DEF AliasInv
  <2>6. CASE ~MovesAlias(w)
    <3>1. SaveLocal(w)
      BY <1>10, <2>1, <2>6 DEF AliasInv
    <3>2. UNCHANGED <<store, alias, astray>>
      BY <2>1, <2>3, <3>1
    <3> QED BY <1>6, <2>4, <2>6, <3>2 DEF AliasInv
  <2> QED BY <2>5, <2>6
<1>11. CASE SaveBlob(w) \/ WriteLocal(w)
  <2>1. /\ step[w] \in {"save", "write"} /\ step'[w] = "load" /\ store' = copy[w]
        /\ alias' = alias
    BY <1>2, <1>11 DEF SaveBlob, WriteLocal, Saved, Goto
  <2>2. astray' = IF MovesAlias(w) THEN alias # job[w] ELSE astray
    BY <1>4, <2>1 DEF LeavesAlias
  <2>3. ~astray' => alias' = store'.production
    BY <1>5, <1>6, <2>1, <2>2
  <2>4. \A c \in Clients : step'[c] # "sync"
    BY <1>3, <2>1
  <2> QED BY <2>3, <2>4 DEF AliasInv
<1>12. CASE Crash(w)
  <2>1. UNCHANGED <<store, alias>> /\ step'[w] = "load"
    BY <1>2, <1>12 DEF Crash, Goto
  <2>2. CASE step[w] \in {"save", "write"}
    <3>1. astray' = IF MovesAlias(w) THEN alias # job[w] \/ store # copy[w] ELSE astray
      BY <1>4, <2>1, <2>2 DEF LeavesAlias
    <3>2. ~astray' => alias' = store'.production
      BY <1>5, <1>6, <2>1, <2>2, <3>1
    <3>3. \A c \in Clients : step'[c] # "sync"
      BY <1>3, <2>1
    <3> QED BY <3>2, <3>3 DEF AliasInv
  <2>3. CASE step[w] \notin {"save", "write"}
    <3>1. astray' = astray
      BY <1>4, <2>3 DEF LeavesAlias
    <3> QED BY <1>3, <2>1, <2>3, <3>1, AliasAside
  <2> QED BY <2>2, <2>3
<1>13. ~SaveBlobRaises(w)
  BY DEF SaveBlobRaises, Reliable
<1> QED BY <1>7, <1>8, <1>9, <1>10, <1>11, <1>12, <1>13 DEF Progress, Save

-----------------------------------------------------------------------------
(***************************************************************************)
(* The instance that the run registry_turns checks, where taking turns is  *)
(* a setting chosen at the start.                                          *)
(***************************************************************************)
TurnsInv == setting = "turns" => Turns /\ AliasInv

LEMMA SettingStep ==
    ASSUME Reliable, TurnsInv, [TurnsNext]_turnsVars
    PROVE  TurnsInv' /\ [setting = "turns" => Contract!Next]_(Contract!vars)
<1>1. CASE UNCHANGED turnsVars
  <2>1. UNCHANGED <<vars, setting, astray>>
    BY <1>1 DEF turnsVars
  <2>2. AliasInv => AliasInv'
    BY <2>1 DEF vars, AliasInv, MovesAlias
  <2>3. UNCHANGED (Contract!vars)
    BY <2>1 DEF vars, Contract!vars, Content, Saving
  <2> QED BY <2>1, <2>2, <2>3, TurnsStutter DEF TurnsInv
<1>2. CASE TurnsNext
  <2>1. PICK c \in Clients : Allowed(c) /\ (Progress(c) \/ Request(c) \/ Crash(c))
    BY <1>2 DEF TurnsNext, Progress
  <2>2. setting' = setting
    BY <2>1 DEF Allowed
  <2>3. CASE setting = "turns"
    <3>1. Turns /\ AliasInv
      BY <2>3 DEF TurnsInv
    <3>2. Alone(c)
      BY <2>1, <2>3, <3>1 DEF Allowed, Turns, TakeTurns, Alone
    <3>3. AliasInv'
      BY <2>1, <3>1, <3>2, AliasStep
    <3> QED BY <2>1, <2>2, <2>3, <3>1, <3>2, <3>3, TurnsStep DEF TurnsInv
  <2> QED BY <2>2, <2>3 DEF TurnsInv
<1> QED BY <1>1, <1>2

LEMMA SettingInitially ==
    ASSUME TurnsInit
    PROVE  TurnsInv /\ Contract!Init
<1>1. Turns /\ Contract!Init
  BY TurnsInitially DEF TurnsInit
<1>2. AliasInv
  BY DEF TurnsInit, Init, AliasInv, DefaultRegistry
<1> QED BY <1>1, <1>2 DEF TurnsInv

LEMMA TurnsInvariance ==
    Reliable => (TurnsSpec => []TurnsInv)
<1> SUFFICES ASSUME Reliable PROVE TurnsSpec => []TurnsInv
  OBVIOUS
<1>1. TurnsInit => TurnsInv
  BY SettingInitially
<1>2. TurnsInv /\ [TurnsNext]_turnsVars => TurnsInv'
  BY SettingStep
<1> QED BY <1>1, <1>2, PTL DEF TurnsSpec

(***************************************************************************)
(* While clients take turns a run that says "failed" has left no model     *)
(* behind, and one that says "completed" the model it was asked for.       *)
(***************************************************************************)
THEOREM RunsTrue == Reliable => (TurnsSpec => []RunsAreTrue)
<1>1. TurnsInv => RunsAreTrue
  BY DEF TurnsInv, Turns, RunsAreTrue
<1> QED BY <1>1, TurnsInvariance, PTL

(***************************************************************************)
(* While clients take turns each change of the text of registry.json is a  *)
(* step of the contract.                                                   *)
(***************************************************************************)
THEOREM Contracted == Reliable => (TurnsSpec => ImplementsContract)
<1> SUFFICES ASSUME Reliable PROVE TurnsSpec => ImplementsContract
  OBVIOUS
<1>1. TurnsInit => Contract!Init
  BY SettingInitially
<1>2. TurnsInv /\ [TurnsNext]_turnsVars =>
         [setting = "turns" => Contract!Next]_(Contract!vars)
  BY SettingStep
<1>3. TurnsSpec => []TurnsInv
  BY TurnsInvariance
<1> QED BY <1>1, <1>2, <1>3, PTL DEF TurnsSpec, ImplementsContract

(***************************************************************************)
(* While clients take turns, over any sequence of champions, the alias     *)
(* names the production model whenever no operation is under way; only a   *)
(* failing alias call, or a crash between that call and the end of the     *)
(* save, leads it astray, until the next promotion that comes to its end.  *)
(***************************************************************************)
THEOREM AliasKept == Reliable => (TurnsSpec => []AliasAgrees)
<1>1. TurnsInv => AliasAgrees
  <2> SUFFICES ASSUME Turns, AliasInv, ~astray, \A c \in Clients : task[c] = "idle"
               PROVE  alias = store.production
    BY DEF TurnsInv, AliasAgrees
  <2>1. \A c \in Clients : step[c] = "load"
    BY DEF Turns, TypeInv, JobFitsTask
  <2> QED BY <2>1 DEF AliasInv
<1> QED BY <1>1, TurnsInvariance, PTL
=============================================================================
