# EnergyPredict MLOps: verification project

TLA+ models of the EnergyPredict backend (`src/app`, `src/data-processor`,
`src/training-job`), TLC configurations that check them on small instances, and
TLAPS proofs of what they promise for every value of their constants. Paths
below are relative to the repository.

## 1. The system

FastAPI replicas (two to six in Kubernetes), a CronJob that evaluates drift, a
training job and a `data-processor` deployment share an SQL database, one JSON
document that serves as model registry, an Event Hub and an LLM endpoint. There
is no lock, no unique constraint and no optimistic version check anywhere in the
code; what holds, holds because of the order of statements, of what SQLAlchemy
sends and of what is read again.

| component | state | operations | talks to |
|---|---|---|---|
| model registry (`app/ml/registry.py`, `app/integrations/blob_storage.py`) | `registry.json`: models with a stage, production pointer, training runs, drift reports | load, save, register run / model / report, update run, promote, get current model | blob or file, MLflow alias |
| training (`app/ml/train.py`, `app/services/ml_orchestrator.py`, `app/api/routes_models.py`) | the request's position in the sequence register, fit, register, complete, promote | train, train-and-promote, promote, exception handler | registry, MLflow, `training_runs` |
| risk thresholds (`app/services/risk_policy_service.py`) | `risk_threshold_policies`, `risk_threshold_audits` | lazy creation, read, update with audit | admin API, every prediction |
| streaming ingestion (`app/services/streaming_service.py`) | `sensor_events`, `alerts`, the gauge of each process | ingest an event, raise / update / resolve an alert | thresholds, prediction, LLM, metrics |
| stream consumers (`app/integrations/eventhub_consumer.py`, `app/workers/simulation_worker.py`, `data-processor/processor.py`) | connection, batch, database session | ask the switch, make up an event or connect, receive a batch, ingest it | simulation control, Event Hub, ingestion |
| online prediction (`app/services/prediction_service.py`, `app/ml/predict.py`) | `model_versions`, `predictions`, `prediction_explanations` | score, mirror the champion, store, explain | registry, LLM |
| LLM explanations (`app/services/llm_explainer_service.py`) | failure count and deadline of the circuit breaker, per process | explain with retries and fallback | LLM endpoint |
| drift monitor (`app/ml/drift.py`, `app/jobs/drift_monitor.py`) | drift reports | evaluate, trigger a retraining | registry, training |
| remote training (`app/integrations/databricks_client.py`, `training-job/train.py`) | `training_runs` rows, Kubernetes jobs | submit, run, report | registry |
| simulation control (`app/services/streaming_service.py`, `app/api/routes_admin.py`) | `simulation_control_state` | lazy creation, start, stop, look | admin API, the gate of each worker |
| guards (`app/core/rate_limit.py`, `app/core/auth_protection.py`, `app/api/routes_auth.py`) | one deque of time stamps per client, one per login | purge, count, admit or refuse, record, reset | login and prediction routes |
| portal (`frontend/simulator-portal`) | rows on display | poll, start, stop | API |

`PROJECT.json` lists all of them, and the stateless or purely technical parts
(token signing, feature engineering, schemas, infrastructure), with what is
modelled and why the rest is not.

### What is hard, and what would make each part correct

* **Registry.** Every operation is an unguarded read-modify-write of the whole
  document. Two clients overwrite each other, the file backend has a moment in
  which the file is truncated (a crash there empties the registry for good), a failing blob download looks like an empty
  registry, the alias moves before the save. Correct would mean: the served
  model was promoted, no model below the threshold enters production by itself,
  nothing registered disappears, the pointer moves by decisions only, runs end
  with the right status.
* **Thresholds.** Sessions read, wait and write; SQLAlchemy sends only the
  columns that differ from what the session loaded. Correct: ordered thresholds,
  an unbroken audit trail, the last update in force, one policy.
* **Alerts.** Look-up and write of an alert are separate, the row is written
  column by column. Correct: one active alert per asset at risk, none for the
  others, the severity of the event it points at, resolved stays resolved.
* **Consumers.** Each batch is a new connection at `@latest` without
  checkpoint; an exception means "next event" in one loop and "end of the
  process" in the other; a failed flush breaks the session; the worker looks at
  its switch once per cycle, before a wait that may be long. Correct: order, no
  duplicates, no event lost because of another one, nothing ingested after a
  stop but the batch under way, always back at the source.
* **Switch.** A row that anybody creates who does not find it, read in one
  statement and written in another, and only if the value differs from the one
  loaded. Correct: one row, and it says what the last command asked for.
* **Guards.** The deques are shared by the threads of the pool; comparing,
  popping and appending are separate steps, and each thread compares with a time
  it read earlier. Correct: a limit is exceeded at most by what runs at the
  same time, and a refusal ends with its window.
* **Prediction.** The registry is read twice per request and its content copied
  to a row that other requests read and rewrite; prediction and explanation are
  two transactions. Correct: the version told and stored is the one that
  scored, the copy follows the champion.
* **Breaker.** Threads share two globals. Correct: requests end, a dead provider
  is left alone, a healthy one is used again.

The line-by-line list is `hazards` in `PROJECT.json`.

## 2. The modules

| module | models | state ↔ code |
|---|---|---|
| `RegistryDocument` | the document and the edit each function of `registry.py` makes | `stage`, `newest`, `production`, `run`, `reports` are the keys of the JSON object |
| `ModelRegistry` | the clients of the document | `store`/`file` the saved document and the state of the file; `copy[c]` the document client c loaded and edited; `task`, `step` where its thread is; `alias` the MLflow alias |
| `RegistryContract` | abstract: a text of `registry.json` that changes by whole operations | `content` the document in the text, if it holds one; `saving` the one that follows on a truncated text |
| `RiskPolicy` | `risk_policy_service.py` | `policies`, `audits` the tables; `session[c]` what a session holds |
| `AlertStreaming` | `ingest_telemetry_event` | `events`, `alerts` the tables; `ingester[p]`; `gauge[p]` per process |
| `AlertContract` | abstract: one lamp per asset, switched in the step that stores the event | `log`, `board` |
| `PredictionService` | `create_prediction` | `rows` is `model_versions`; `request[r]` |
| `LLMExplainer` | `build_operations_explanation` | `failures`, `open` the two globals, the deadline kept as what remains of it |
| `SimulationControl` | `get_or_create_simulation_state`, `set_simulation_running`, the admin endpoints | `rows` is `is_running` of the table's rows; `session[s]` what an admin's request or a worker's question holds |
| `EventStream` | `SimulationControl`, with the worker's gate and source, the reader and both consumer loops | `hub` one partition; `source[w]` what a worker ingests; `consumer[c]` connection, batch and session; `stored[c]` |
| `RequestGuards` | `InMemoryRateLimiter`, `LoginFailureGuard`, `login` | `deque` the time stamps, as ages; `table` the deque that `_attempts` holds for the login; `thread[t]` the function, the place in it and the clock a thread of the pool holds |
| `RetrainingLoop` | `evaluate_data_drift`, the CronJob, `trigger_training_job`, the training container, the training endpoints and their rows | `at[a]` the step of a CronJob pod or request; `training[a]`, `tries[a]` the job it launched; `registry` a `RegistryDocument`; `rows`, `version` the table `training_runs`; `tick[k]` what Kubernetes thinks of a scheduled run |
| `MC…` | instances for TLC | |
| `…_proofs` | the theorems about the module of that name, and their lemmas; `ModelRegistry_proofs` also those about `MCRegistryTurns`, `EventStream_proofs` those about `SimulationControl` | |

`MCRegistryTurns` and `MCEventStream` check two instances of one module in one
run. Their variable `setting` is chosen at the start, never changes, and
restricts who acts and which faults occur; within a setting the actions are
those of the module, unchanged. In `MCRegistryTurns` the setting "turns" lets a
client start when no other operation is under way, with every crash and fault;
"overlap" lets two clients interleave as they like, for one training.

How they fit: the champion that `PredictionService` reads is what
`ModelRegistry` serves; `EventStream` EXTENDS `SimulationControl`, so that a
worker's cycle is a session of the control table among those of the admins; it
hands events to `AlertStreaming`, one at a time per process; the thresholds of
`RiskPolicy` and the texts of `LLMExplainer` enter ingestion and prediction as
values. `RetrainingLoop` works on the same document (it instantiates
`RegistryDocument`) with one step per registry call, and adds who calls. They
are checked separately, because each shares only such a value with the next one:
`AlertStreaming` lets every level occur, `PredictionService` lets the champion
change and become unreadable at any moment, `EventStream` lets any event be
refused or fail.

**Grain of atomicity.** One action per statement that reads or writes shared
state. A database commit is one step, at READ COMMITTED, so a session may hold
rows that others have replaced. An UPDATE carries the columns that differ from
the loaded values (SQLAlchemy's unit of work). A blob upload is one step, a file
write two. In `LLMExplainer` and `RequestGuards` threads switch where CPython
3.11 (the image) switches them, at calls and loop ends. "Mutant" definitions
beside the real ones are plausible slips in the same code; each property of each
passing run is shown to fail under one of them.

**History variables** (read by no action): `registered`, `endorsed`
(`ModelRegistry`), `astray` (`MCRegistryTurns`), `authors`, `skipped` (`AlertStreaming`), `overlapped`
(`PredictionService`), `last`, `raced` (`SimulationControl`), `received`,
`since` (`EventStream`), `admitted`, `failed`, `robbed` (`RequestGuards`). Some
let one run check concurrent deployments and still say what holds as long as
only one admin, ingester or request was at work; the others remember what a
property relates the state to: what a command asked for, which events arrived,
which requests were admitted.

## 3. The runs

Passing runs:

| run | question | bounds, and why they are enough |
|---|---|---|
| `registry_shared` | Two clients on the blob backend with crashes, failing downloads, uploads and alias calls: `TypeOK`, `ServedModelIsPromoted`, `ThresholdGate` | 2 clients, 2 trainings (symmetric): every pair of operations interleaves, a second model competes for production. For all sizes: the theorems |
| `registry_turns` | The file backend. Two clients that take turns, crash at any step and meet failing alias calls: the text of `registry.json` implements `RegistryContract` (`ImplementsContract`: a text that can be read is the one before it with one whole operation added, never an older document or an empty registry; a crash between truncation and write loses everything, for good), runs tell the truth (`RunsAreTrue`), and the alias follows the champion from model to model, except after an operation that moved one and not the other (`AliasAgrees`). Two clients that overlap, torn and unreadable files included: `RequestsEnd` and, for those that happen not to meet, `TrainingsSettle` | taking turns: 2 trainings and 1 report, so that the champion changes from one model to another, a client goes on after another one crashed, and the alias goes astray and comes back; overlapping: 1 training, 1 report; two are enough to tear the file |
| `policy_shared` | Two admins, a reader, failing connections, from an empty table: what one author's updates guarantee (order, audit trail, last update in force) and what survives two (bounded rows, part of `TypeOK`; no change without audit, hence no limit that nobody asked for) | 3 updates, thresholds 0..3: two updates may mix, a third one builds on them |
| `alert_shared` | Two ingesters, two assets, failures, restarts: with one author the alert board (`ImplementsContract`: event and severity agree), the gauge is current; with both, bounded duplicates, the status of a resolved alert is final (its severity and event are not, see `alert_missing`) | 4 events: raise, update, resolve, raise again, across both |
| `prediction_shared` | Two requests from an empty table, promotions, outages, a crash: requests that follow each other, and whose second look at the registry does not fail, never tell a version older than the one that scored (`AnswerIsNoOlder`) nor move the row back (`RowMovesForward`); in the end it names the champion (`RowConverges`) | 2 promotions: one that a slow request misses and one more; 1 crash |
| `llm_shared` | Two threads, a provider that is up, down or odd: `KeepsOpening`, `Recovers` | 2 attempts, threshold 3: the circuit opens in the middle of a request's attempts; reset 2 ticks |
| `stream_control` | With the switch on: a worker and a data-processor on one hub, plain, annotated and garbled events, hub and database errors, crashes (`StoredInHubOrder`, `BatchIsIsolated`, `ConsumersKeepReceiving`). With an empty control table: two admins and a worker on either source, failing sessions (`CommandsTakeEffect`, `StopIsObeyed`, `ConsumersKeepReceiving`) | 3 events, batches of 2: events before, during and after a batch; 2 commands: they may race, or follow each other around an insertion |
| `login_guard` | Two threads serve one client of `/predict` or of `/auth/login`: `LimitIsKept`, `FailuresAreBounded`, `GuardsReopen` | limit 2 in 2 ticks, where a purge may have two entries to pop, and 1 in 1; 1 failure in 2 ticks; a thread holds a clock reading for `MaxLag` 1 tick at most (a longer wait only shortens the window the property speaks of) |
| `retraining_shared` | A scheduled evaluation beside a request of any kind: launched trainings can be traced (`TrainingsAreTraceable`), a run that counts as done is reported (`DoneRunIsReported`), a training that counts as succeeded left what was asked (`SuccessLeavesModel`), everything ends (`WorkEnds`) | 1 scheduled run with its 2 pods, 1 request, up to 3 trainings of 2 tries; `MaxDeaths` 1 on top of the failures that the data force (no model, no dataset), which fail both tries by themselves; Kubernetes, Databricks and local settings |

Runs that end in a violation, each a disagreement between the code and its
documents or tests (see `findings`):

* `registry_lost_model`: of two concurrent trainings the later save drops the
  model of the earlier one, although "lightweight model registry and training
  runs are tracked in `models/registry.json`" (app/ml/README.md).
* `policy_mixed_update`: two valid concurrent updates leave `low_max >= medium_max`.
* `alert_missing`: an alert is resolved under the hands of an ingester that
  updates it; the asset is at risk and has no active alert.

Other disagreements and losses seen while modelling, without a run of their own:

* Registry and training. A save that only meant to record a run can put an older
  champion back (the same race as `registry_lost_model`). `register_model` does
  not archive the previous production model although docs/03 allows one only.
  The manual promotion does not look at the threshold although docs/03 demands
  it. A failing save of `completed` turns a run into `failed` although its model
  is registered. A version is a time to the second, so trainings of the same
  second share it and their artifact (the models take versions to be distinct).
* Endpoints. `train-and-promote` stores the version of whatever model is champion
  afterwards beside the id of its own model; below the threshold it is another
  one, otherwise it may be. `POST /models/train` leaves its row at "submitted" in
  the remote modes, since the container settles a run of its own.
  `/models/train/remote` does not pass `register_model` on, so the model is
  registered anyway.
* Drift. The monitor launches before it files the report, the reverse of the
  order in docs/06.
* Prediction. A promotion rewrites the `model_versions` row that earlier
  predictions refer to, although docs/03 says that a prediction keeps the exact
  version. Prediction and explanation are two commits, and nothing completes the
  second one after a crash.
* Consumers. Every event published between two connections is lost. An event with
  the optional metadata of docs/06 is refused by the schema; the generator of the
  notebooks announces payloads that the schema accepts (its lines 11-26) but adds
  that metadata to every event, so all of its events are refused. After a failed
  flush the worker goes on with a session that nobody rolled back.
* Switch. A stop that loaded "stopped" while a start was under way sends no column
  and is lost. Sessions that find the control table empty together leave several
  rows, of which a command reaches any one (`raced` excludes both in
  `CommandsTakeEffect`). A worker that waits for a batch ingests it although a
  stop came first.
* Guards. A thread that purges a deque another one emptied raises IndexError and
  the client gets a 500, or it pops an entry that still counted (`robbed`).
* Breaker. A reply of the LLM without text escapes the fallback (`Escape`).

**Deadlock** is checked in every run but `retraining_shared`, whose finite set of
scheduled runs and requests may all have ended.

**Fairness.** `registry_turns`: a client inside an operation goes on
(`Progress`); requests and crashes are never obliged, and a crashed client owes
nothing. `prediction_shared`: a started request is executed and callers keep
asking, since the row only follows the champion when somebody predicts;
`RowConverges` assumes that outages end. `llm_shared`: time passes, started
requests proceed (calls have a timeout, sleeps end), explanations are asked for.
`retraining_shared`: a thread, a pod and the CronJob controller go on with what
they began; nobody is obliged to ask or to fail. `stream_control`: the loops run
and Kubernetes restarts what crashed; no event, admin or fault is obliged.
`login_guard`: time passes, threads go on, the client keeps asking. No fairness
is needed between threads, since none waits for another.

## 4. What is proved

Every safety invariant and action property that a passing run checks, and both
refinements, for every value of the constants. The theorems of a module speak of
its `Spec`; a run's instance only adds values, fairness or the choice of a
`setting`, so what it checks is a case of the theorem. Each proof has the same
three steps: the initial states satisfy an inductive invariant, each action
keeps it, it implies the property; the temporal step is left to `PTL`.

| module | theorems (property) |
|---|---|
| `ModelRegistry_proofs` | `TypeCorrect` (`TypeOK`), `ServedModel` (`ServedModelIsPromoted`), `Threshold` (`ThresholdGate`); for clients that take turns `TurnsKeepTheContract`, `TurnsLoseNoModel` (`NoModelIsLost`, which the clients of `registry_lost_model` break), `Contracted` (`ImplementsContract`), `RunsTrue` (`RunsAreTrue`), `AliasKept` (`AliasAgrees`) |
| `RiskPolicy_proofs` | `TypeCorrect` (`TypeOK`, with the bound on the rows), `OrderKept` (`OneAuthorKeepsOrder`), `TrailComplete` (`AuditTrailIsComplete`), `LastUpdateWins` (`LastUpdateIsInForce`), `ChangesAreAudited` (`NoChangeWithoutAudit`) |
| `AlertStreaming_proofs` | `TypeCorrect` (`TypeOK`), `ResolvedStays` (`ResolvedIsFinal`), `DuplicatesBounded` (`DuplicatesAreBounded`), `GaugeCurrent` (`GaugeIsCurrent`), `Refinement` (`ImplementsContract`) |
| `EventStream_proofs` | `TypeCorrect` (`TypeOK`), `CommandsObeyed` (`CommandsTakeEffect`), `HubOrder` (`StoredInHubOrder`), `Isolation` (`BatchIsIsolated`), `StopObeyed` (`StopIsObeyed`) |
| `PredictionService_proofs` | `TypeCorrect` (`TypeOK`, with the bound on the rows), `AnswerNoOlder` (`AnswerIsNoOlder`), `RowsMoveForward` (`RowMovesForward`) |
| `RequestGuards_proofs` | `TypeCorrect` (`TypeOK`), `LimitKept` (`LimitIsKept`), `FailuresBounded` (`FailuresAreBounded`) |
| `RetrainingLoop_proofs` | `TypeCorrect` (`TypeOK`), `Traceable` (`TrainingsAreTraceable`), `DoneReported` (`DoneRunIsReported`), `SuccessKept` (`SuccessLeavesModel`) |
| `LLMExplainer_proofs` | `TypeCorrect` (`TypeOK`); its other properties are liveness |

### From which assumptions

The bounds are natural numbers, limits, retries and batches positive ones, the
sets of faults contain known faults, identifiers of different kinds differ
(a document's `None` is no training, `RetrainingLoop`'s `Legacy` no training of an
author). Wherever a property counts actors, the set of actors is finite
(`Clients` in `RiskPolicy`, `Ingesters`, `Sessions`, `Requests` in
`PredictionService`, `Threads`): processes and pools are. Nothing is assumed about
fairness or about the values inside a setting.

One theorem group has a hypothesis, `Reliable`: a blob that does not fail. It says
nothing about the file backend, which `registry_turns` checks. Without it the
contract is false, for two reasons named above among the hazards and losses: a
failing download yields the default document, the next save erases the registry
with it; a failing upload of `completed` makes a failed run of a training that has
its model. What survives these failures are the theorems before it.

### Along which argument

**Registry, any clients.** `ServedModelIsPromoted` is not inductive: what is saved
was loaded long ago. The invariants therefore speak of every document in
circulation (`Held`: the store, the default document and every client's copy),
because a step only ever puts into circulation a document that was there, or the
edit of one (`HeldStep`). Each circulating document is consistent (its pointer
names a production model, and a document with production models has a pointer).
The one edit that could break this is `register_model`, if the model were already
in the document under another stage; hence the strengthening: a training belongs
to one client (`OneOwner`), and until that client has loaded the document for
registration no document in circulation has the model (freshness). The threshold
follows in the same way from "what circulates was allowed". `StepShape` states
once what any step does to these parts of the state; the preservation lemmas are
proved from the shape and not action by action.

**Registry, clients that take turns.** `Turns`: nobody is inside an operation, or
exactly one client w, and then `WriterInv(w)`. Its copy is the stored document with
one edit and nothing else (`CopyFits`), so that a save is one step of
`RegistryContract`. That this step is one the contract allows (a run is settled
once, a failed run has no model) needs to know how far the document was when the
operation began: `StoreFits` says it for each operation, `NewFits` that trainings
and reports not yet begun are in no document. It holds over crashes because nobody
takes up a training whose client crashed. `FileFits`: a torn file stops all that
would follow, it never looks like an empty registry. `TurnsLoseNoModel` reads the
same invariant for the models: as long as the file can be read, all that was
registered is in it.

**Alias.** `AliasInv`, beside `Turns`. The alias moves between the edit and the
save, so it names the production model except inside a save that will bring the
document there, or while `astray` holds, which says that the last operation that
was to move it ended with only one of the two in place, by a failing alias call, a
failing upload or a crash.

**Thresholds.** What an author commits depends on the copy in its session, so
`TrailInv` adds to the properties that the copy is the row as long as nobody but
this author has committed (`CopyIsFresh`): the columns that are not sent are then
those of the copy, and order and trail go on from there. `RowInv` counts rows and
sessions about to insert together. `ChangesAreAudited` needs none of this, only
the types.

**Alerts.** The same idea: what an ingester looked up still holds when it commits,
unless somebody else has committed (`LookupIsFresh`), hence one active row per
asset (`OneActive`), which makes a commit one switch of the lamp and the choice of
an active row in `Board` irrelevant. `DuplicatesAreBounded` is inductive beside
the types: an ingester counts either for the row it inserts or for being about to.
`GaugeInv` extends `GaugeIsCurrent` to all steps between refreshes.

**Switch and consumers.** `Unraced` says what has to be true of the sessions for
the row to follow the commands: one command at most under way, holding what the
row still says, one insertion at most, into an empty table. For order, `Held`
relates connection, batch and stored events: all that is stored lies before the
position and before the batch, the batch rises. For `BatchIsIsolated` it also says
that a broken session has nothing left that could be stored. For the stop, a
worker that may store has what it stored since and what it has in hand within one
batch (`SinceInv`), and holds its session only while it is not at its source
(`GateInv`).

**Prediction.** While requests follow each other no row is ahead of what the
request has read, and its row says exactly that once it is written (`OneAtATime`);
no version is ahead of the champion whatever overlaps.

**Guards.** `CountInv`: what is in a deque, together with the threads that have
passed the test and not yet appended (`Counters`, `Committed`), stays within the
limit and the other threads. `CoverInv`: as long as nothing was popped that
counted, what was admitted and is young is still in the deque, or on its way into
it; ages are compared with `MaxLag`, since each thread compares with the clock it
read. Both are about numbers of young entries (`Young`), and most of the lemmas
say what aging, popping and appending do to those.

**Retraining.** Per author: a training exists only if its author got to its call
and is within its retries (`TrainingFits`), the author decided what its step says
(`AuthorFits`), the document has the model and the run that the training's state
says (`DocumentFits`). Per scheduled run: the second pod starts over a dead first
one (`TickFits`), which is why "done" names one report.

**Breaker.** A thread that calls is within its attempts, one that concludes has
used them up (`AttemptFits`).

The strengthened invariants were checked with TLC on the instances of the runs
before they were proved. For the sake of the proofs two definitions filter a
sequence without `SelectSeq`, whose result the provers know nothing about:
`Parsed` (`EventStream`) is a recursive function over the offsets, `Recent`
(`RequestGuards`) drops a prefix, which is the same for the two histories it is
applied to: their ages descend, which those of a deque need not.

### What is only model-checked

Liveness: `RequestsEnd`, `TrainingsSettle`, `KeepsOpening`, `Recovers`,
`RowConverges`, `ConsumersKeepReceiving`, `GuardsReopen`, `WorkEnds`. They rest on
fairness, which is beyond the prover. The three runs that end in a violation are
counterexamples and need no proof.

## 5. What is not modelled, and the plan

Left out for good: the numbers (features, heuristics, PSI, scores, the comparison
of a probability with the thresholds), texts and prompts, token signing, HTTP,
declarative infrastructure, whose replica counts and restart policies appear as
assumptions, and the remote runs and the local log of the MLflow client, whose
entries the system only counts for a status page. The portal is a display: its commands are the
sessions of `SimulationControl` and `RiskPolicy`, and an answer of an overlapping
poll that arrives late is overwritten by the next one.

What the models assume: a commit is one step; the hub is one partition; versions
of models are distinct; registrations of users and their uniqueness are the
database's; the guards are looked at for one client of one process, since their
tables are kept per client and per process.

The file backend needs one remark. A crash between the truncation and the write
leaves a file that no load can parse: all models are lost, and every operation
from then on raises. No property excludes this, because the code does not.
`ImplementsContract` says what is left: the contract's `content` is empty then and
stays so (`BreakOff`), and no such text is ever taken for a registry.

What remains to be done:

1. Theorems that hold over several modules: a training of `RetrainingLoop` as
   operations of `RegistryContract`; bounds that say what is left of a property
   when its premise fails (two authors of thresholds, overlapping requests).
2. The alias when clients overlap: which champions it may name then.
