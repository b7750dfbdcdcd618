------------------------ MODULE RetrainingLoop_proofs ------------------------
(***************************************************************************)
(* Theorems about RetrainingLoop, for any schedule, any set of requests,   *)
(* any deployments and any number of processes that die.                   *)
(***************************************************************************)
EXTENDS RetrainingLoop, TLAPS

-----------------------------------------------------------------------------
(***************************************************************************)
(* The inductive invariant.                                                *)
(***************************************************************************)
Tries == 1..BackoffLimit + 1

\* The request trains in its own thread.
InRequest(a) == a \in Requests /\ FirstStep(ask[a].path) = "train"

\* A training happens only for an author that got to its call, or in the thread
\* of its request, and is still within its retries.
TrainingFits(a) ==
    /\ at[a] \in {"idle", "evaluate", "call"} => training[a] = "none"
    /\ training[a] = "none" => tries[a] = 0
    /\ training[a] \in {"pending", "running", "fitted", "completed", "succeeded"} =>
          tries[a] <= BackoffLimit
    /\ at[a] = "train" => training[a] \in {"pending", "running", "fitted"}
    /\ at[a] \in {"train", "promote", "read"} => InRequest(a)

\* What an author has decided when it calls, and what a pod has filed.
AuthorFits(a) ==
    /\ at[a] = "call" =>
          IF a \in Evaluators THEN verdict[a] = "retrain_required" /\ MayTrigger(a)
          ELSE a \in Requests /\ ask[a].path \in {"train", "remote"}
    /\ at[a] \in {"evaluate", "file"} => a \in Evaluators
    /\ a \in Pods /\ at[a] = "idle" => a \notin registry.reports
    /\ a \in Pods /\ at[a] \in {"exit", "done"} => a \in registry.reports

\* What the document says of an author's training.
DocumentFits(a) ==
    /\ \A n \in Tries : HasModel(registry, <<a, n>>) => training[a] # "none" /\ Registers(a)
    /\ training[a] \in {"fitted", "completed", "succeeded"} /\ Registers(a) => HasModel(registry, Try(a))
    /\ training[a] \in {"completed", "succeeded"} => registry.run[Try(a)] = "completed"

Traced(a) ==
    training[a] # "none" /\ ~InRequest(a) =>
            \/ at[a] = "dead"
            \/ /\ a \in Evaluators
               /\ verdict[a] = "retrain_required" /\ MayTrigger(a)
               /\ at[a] = "file" \/ a \in registry.reports
            \/ a \in Requests /\ ask[a].path = "train" /\ (at[a] = "row" \/ a \in rows)
            \/ a \in Requests /\ ask[a].path = "remote"

\* The second pod of a scheduled run starts when the first one is dead.
TickFits(k) ==
    /\ tick[k] = "due" => at[<<k, 1>>] = "idle"
    /\ at[<<k, 2>>] # "idle" => at[<<k, 1>>] = "dead"
    /\ tick[k] = "done" => at[<<k, 1>>] = "done" \/ at[<<k, 2>>] = "done"

IInv ==
    /\ TypeOK
    /\ \A a \in Authors : TrainingFits(a) /\ AuthorFits(a) /\ DocumentFits(a) /\ Traced(a)
    /\ \A k \in Ticks : TickFits(k)

-----------------------------------------------------------------------------
(***************************************************************************)
(* The document and its editing functions.                                 *)
(***************************************************************************)
Stages == {"candidate", "production"}

LEMMA DocumentFacts ==
    ASSUME NEW doc \in Document
    PROVE  /\ doc.stage \in [Trainings -> ModelStage] /\ doc.run \in [Trainings -> RunStatus]
           /\ doc.newest \in Trainings \cup {None} /\ doc.production \in Trainings \cup {None}
           /\ doc.reports \subseteq Authors
           /\ CurrentModel(doc) \in Trainings \cup {None}
BY DEF Document, CurrentModel

LEMMA DefaultFacts ==
    /\ DefaultRegistry \in Document /\ DefaultRegistry.reports = {}
    /\ \A t \in Trainings : ~HasModel(DefaultRegistry, t)
BY DEF DefaultRegistry, Document, HasModel, ModelStage, RunStatus

LEMMA RunFacts ==
    ASSUME NEW doc \in Document, NEW t \in Trainings, NEW status \in RunStatus
    PROVE  /\ WithRunStatus(doc, t, status) \in Document
           /\ WithRunStatus(doc, t, status).reports = doc.reports
           /\ \A u \in Trainings :
                /\ HasModel(WithRunStatus(doc, t, status), u) <=> HasModel(doc, u)
                /\ WithRunStatus(doc, t, status).run[u] = IF u = t THEN status ELSE doc.run[u]
BY DEF Document, WithRunStatus, HasModel

LEMMA NewRunFacts ==
    ASSUME NEW doc \in Document, NEW t \in Trainings
    PROVE  WithRun(doc, t) = WithRunStatus(doc, t, "running")
BY DEF WithRun, WithRunStatus

LEMMA ModelFacts ==
    ASSUME NEW doc \in Document, NEW t \in Trainings, NEW stage \in Stages
    PROVE  /\ WithModel(doc, t, stage) \in Document
           /\ WithModel(doc, t, stage).reports = doc.reports
           /\ WithModel(doc, t, stage).run = doc.run
           /\ \A u \in Trainings : HasModel(WithModel(doc, t, stage), u) <=> u = t \/ HasModel(doc, u)
BY DEF Document, WithModel, HasModel, ModelStage, Stages

LEMMA PromotionFacts ==
    ASSUME NEW doc \in Document, NEW t \in Trainings, HasModel(doc, t)
    PROVE  /\ WithPromotion(doc, t) \in Document
           /\ WithPromotion(doc, t).reports = doc.reports
           /\ WithPromotion(doc, t).run = doc.run
           /\ \A u \in Trainings : HasModel(WithPromotion(doc, t), u) <=> HasModel(doc, u)
BY DEF Document, WithPromotion, HasModel, ModelStage, Champions

LEMMA ReportFacts ==
    ASSUME NEW doc \in Document, NEW r \in Authors
    PROVE  /\ WithReport(doc, r) \in Document
           /\ WithReport(doc, r).reports = doc.reports \cup {r}
           /\ WithReport(doc, r).run = doc.run
           /\ \A u \in Trainings : HasModel(WithReport(doc, r), u) <=> HasModel(doc, u)
BY DEF Document, WithReport, HasModel

-----------------------------------------------------------------------------
(***************************************************************************)
(* What a step leaves alone.                                               *)
(***************************************************************************)
LEMMA TypeFacts ==
    ASSUME TypeOK
    PROVE  /\ mode \in Settings /\ registry \in Document
           /\ tick \in [Ticks -> {"due", "active", "done", "failed"}]
           /\ at \in [Authors -> Busy \cup {"idle", "done", "dead"}]
           /\ ask \in [Requests -> [path : Paths, flag : BOOLEAN]]
           /\ verdict \in [Authors -> Verdict]
           /\ training \in [Authors -> {"none", "external", "pending", "running",
                                        "fitted", "completed", "succeeded", "failed"}]
           /\ tries \in [Authors -> 0..BackoffLimit + 1]
           /\ good \subseteq Trainings /\ version \in [Requests -> Trainings \cup {None}]
           /\ rows \subseteq Requests /\ deaths \in 0..MaxDeaths
BY DEF TypeOK

LEMMA AuthorFacts ==
    /\ Authors = Pods \cup Requests
    /\ \A a \in Authors : a \in Pods <=> a \notin Requests
    /\ \A k \in Ticks, n \in 1..2 : <<k, n>> \in Pods /\ <<k, n>> \in Authors
    /\ \A a \in Authors, n \in Tries : <<a, n>> \in Trainings /\ <<a, n>> # Legacy
    /\ Tries = 1..2 /\ 1 \in Tries
BY RetrainingLoopAssumption DEF Authors, Pods, Trainings, Tries, BackoffLimit

\* Nothing that belongs to another author than a changes, but for a pod that is
\* started.
Apart(a) ==
    \A b \in Authors \ {a} :
        /\ at'[b] = at[b] \/ (b \in Pods /\ at[b] = "idle" /\ at'[b] = "evaluate")
        /\ training'[b] = training[b] /\ tries'[b] = tries[b] /\ verdict'[b] = verdict[b]
        /\ b \in Requests => ask'[b] = ask[b]
        /\ b \in registry'.reports <=> b \in registry.reports
        /\ b \in rows => b \in rows'
        /\ \A n \in Tries :
             /\ HasModel(registry', <<b, n>>) <=> HasModel(registry, <<b, n>>)
             /\ registry'.run[<<b, n>>] = registry.run[<<b, n>>]

Fits(a) == TrainingFits(a) /\ AuthorFits(a) /\ DocumentFits(a) /\ Traced(a)

LEMMA OthersFit ==
    ASSUME IInv, TypeOK', mode' = mode, NEW a \in Authors, Apart(a), NEW b \in Authors \ {a}
    PROVE  Fits(b)'
<1>1. /\ at'[b] = at[b] \/ (b \in Pods /\ at[b] = "idle" /\ at'[b] = "evaluate")
      /\ training'[b] = training[b] /\ tries'[b] = tries[b] /\ verdict'[b] = verdict[b]
      /\ b \in Requests => ask'[b] = ask[b]
      /\ b \in registry'.reports <=> b \in registry.reports
      /\ b \in rows => b \in rows'
      /\ \A n \in Tries :
           /\ HasModel(registry', <<b, n>>) <=> HasModel(registry, <<b, n>>)
           /\ registry'.run[<<b, n>>] = registry.run[<<b, n>>]
  BY DEF Apart
<1>2. TrainingFits(b) /\ AuthorFits(b) /\ DocumentFits(b) /\ Traced(b)
  BY DEF IInv
<1>3. /\ InRequest(b)' <=> InRequest(b)
      /\ (b \in Evaluators)' <=> b \in Evaluators
      /\ MayTrigger(b)' <=> MayTrigger(b)
      /\ Registers(b)' <=> Registers(b)
  <2>1. CASE b \in Requests
    <3>1. ask'[b] = ask[b] /\ b \notin Pods
      BY <1>1, <2>1, AuthorFacts
    <3> QED BY <2>1, <3>1 DEF InRequest, FirstStep, Evaluators, MayTrigger, Registers
  <2>2. CASE b \notin Requests
    BY <2>2, AuthorFacts DEF InRequest, Evaluators, MayTrigger, Registers
  <2> QED BY <2>1, <2>2
<1>4. TrainingFits(b)'
  BY <1>1, <1>2, <1>3 DEF TrainingFits
<1>5. AuthorFits(b)'
  <2>1. b \in Pods => b \in Evaluators
    BY DEF Evaluators
  <2> QED BY <1>1, <1>2, <1>3, <2>1 DEF AuthorFits
<1>6. DocumentFits(b)'
  <2>1. Try(b)' = Try(b)
    BY <1>1 DEF Try
  <2>2. training[b] \in {"fitted", "completed", "succeeded"} => \E n \in Tries : Try(b) = <<b, n>>
    BY <1>2, TypeFacts DEF IInv, TrainingFits, Try, Tries, BackoffLimit
  <2> QED BY <1>1, <1>2, <1>3, <2>1, <2>2 DEF DocumentFits
<1>7. Traced(b)'
  BY <1>1, <1>2, <1>3 DEF Traced, TrainingFits
<1> QED BY <1>4, <1>5, <1>6, <1>7 DEF Fits

LEMMA StepKeeps ==
    ASSUME IInv, TypeOK', mode' = mode, NEW a \in Authors, Apart(a), Fits(a)',
           \A k \in Ticks : TickFits(k)'
    PROVE  IInv'
<1>1. \A b \in Authors : Fits(b)'
  BY OthersFit
<1> QED BY <1>1 DEF IInv, Fits

\* An author that is at work goes on, and no pod is started.
LEMMA TicksFit ==
    ASSUME IInv, tick' = tick,
           \A p \in Pods : at'[p] = at[p] \/ (at[p] \in Busy /\ at'[p] # "idle")
    PROVE  \A k \in Ticks : TickFits(k)'
<1> SUFFICES ASSUME NEW k \in Ticks PROVE TickFits(k)'
  OBVIOUS
<1>1. TickFits(k) /\ <<k, 1>> \in Pods /\ <<k, 2>> \in Pods
  BY AuthorFacts DEF IInv
<1> QED BY <1>1 DEF TickFits, Busy

\* A step of a that moves no other author, and edits the document for a alone.
LEMMA AloneApart ==
    ASSUME IInv, NEW a \in Authors,
           \A b \in Authors \ {a} : at'[b] = at[b] /\ training'[b] = training[b]
                                    /\ tries'[b] = tries[b] /\ verdict'[b] = verdict[b],
           \A b \in Requests \ {a} : ask'[b] = ask[b],
           rows \subseteq rows',
           \A b \in Authors \ {a} : b \in registry'.reports <=> b \in registry.reports,
           \A b \in Authors \ {a}, n \in Tries :
             /\ HasModel(registry', <<b, n>>) <=> HasModel(registry, <<b, n>>)
             /\ registry'.run[<<b, n>>] = registry.run[<<b, n>>]
    PROVE  Apart(a)
BY DEF Apart

\* The author ends; if it is a pod its run starts the other pod or has failed.
LEMMA RaiseFacts ==
    ASSUME IInv, NEW a \in Authors, at[a] \in Busy, Raise(a)
    PROVE  /\ at' \in [Authors -> Busy \cup {"idle", "done", "dead"}]
           /\ tick' \in [Ticks -> {"due", "active", "done", "failed"}]
           /\ at'[a] = "dead"
           /\ \A b \in Authors \ {a} : at'[b] = at[b] \/ (b \in Pods /\ at[b] = "idle" /\ at'[b] = "evaluate")
           /\ \A k \in Ticks : TickFits(k)'
<1>1. /\ at \in [Authors -> Busy \cup {"idle", "done", "dead"}]
      /\ tick \in [Ticks -> {"due", "active", "done", "failed"}]
      /\ \A k \in Ticks : TickFits(k)
  BY TypeFacts DEF IInv
<1>2. CASE a \in Requests /\ Goto(a, "dead") /\ UNCHANGED tick
  <2>1. at' = [at EXCEPT ![a] = "dead"] /\ tick' = tick
    BY <1>2 DEF Goto
  <2>2. \A p \in Pods : at'[p] = at[p] \/ (at[p] \in Busy /\ at'[p] # "idle")
    BY <1>1, <1>2, <2>1, AuthorFacts
  <2>3. \A k \in Ticks : TickFits(k)'
    BY <2>1, <2>2, TicksFit
  <2> QED BY <1>1, <2>1, <2>3
<1>3. ASSUME NEW k \in Ticks, a = <<k, 1>>,
             at' = [at EXCEPT ![a] = "dead", ![<<k, 2>>] = "evaluate"], tick' = tick
      PROVE  /\ at' \in [Authors -> Busy \cup {"idle", "done", "dead"}]
             /\ at'[a] = "dead"
             /\ \A b \in Authors \ {a} : at'[b] = at[b] \/ (b \in Pods /\ at[b] = "idle" /\ at'[b] = "evaluate")
             /\ \A j \in Ticks : TickFits(j)'
  <2>1. <<k, 2>> \in Authors /\ <<k, 2>> \in Pods /\ <<k, 2>> # <<k, 1>>
    <3>1. 2 \in 1..2 /\ 2 # 1
      OBVIOUS
    <3> QED BY <3>1, AuthorFacts
  <2>2. /\ at'[a] = "dead" /\ at'[<<k, 2>>] = "evaluate"
        /\ \A b \in Authors : b # a /\ b # <<k, 2>> => at'[b] = at[b]
    BY <1>1, <1>3, <2>1
  <2>3. at[a] # "dead" /\ at[a] # "done" /\ at[a] # "idle"
    BY DEF Busy
  <2>4. at[<<k, 2>>] = "idle" /\ tick[k] # "due" /\ tick[k] # "done"
    BY <1>1, <1>3, <2>3 DEF TickFits
  <2>5. at' \in [Authors -> Busy \cup {"idle", "done", "dead"}]
    BY <1>1, <1>3 DEF Busy
  <2>6. ASSUME NEW j \in Ticks PROVE TickFits(j)'
    <3>1. CASE j = k
      BY <1>3, <2>2, <2>4, <3>1 DEF TickFits
    <3>2. CASE j # k
      <4>1. /\ <<j, 1>> \in Authors /\ <<j, 2>> \in Authors
            /\ <<j, 1>> # a /\ <<j, 1>> # <<k, 2>> /\ <<j, 2>> # a /\ <<j, 2>> # <<k, 2>>
        BY <1>3, <3>2, AuthorFacts
      <4> QED BY <1>1, <1>3, <2>2, <4>1 DEF TickFits
    <3> QED BY <3>1, <3>2
  <2> QED BY <2>1, <2>2, <2>4, <2>5, <2>6
<1>4. ASSUME NEW k \in Ticks, a = <<k, 2>>, Goto(a, "dead"), tick' = [tick EXCEPT ![k] = "failed"]
      PROVE  \A j \in Ticks : TickFits(j)'
  <2>1. at' = [at EXCEPT ![a] = "dead"]
    BY <1>4 DEF Goto
  <2>2. ASSUME NEW j \in Ticks PROVE TickFits(j)'
    <3>1. <<j, 1>> \in Authors /\ <<j, 2>> \in Authors /\ <<j, 1>> # a /\ TickFits(j)
      BY <1>1, <1>4, AuthorFacts
    <3>2. at'[<<j, 1>>] = at[<<j, 1>>]
      BY <1>1, <2>1, <3>1
    <3>3. CASE j = k
      <4>1. tick'[j] = "failed" /\ at[<<j, 2>>] # "idle"
        BY <1>1, <1>4, <3>3 DEF Busy
      <4> QED BY <3>1, <3>2, <4>1 DEF TickFits
    <3>4. CASE j # k
      <4>1. tick'[j] = tick[j] /\ at'[<<j, 2>>] = at[<<j, 2>>]
        BY <1>1, <1>4, <2>1, <3>1, <3>4
      <4> QED BY <3>1, <3>2, <4>1 DEF TickFits
    <3> QED BY <3>3, <3>4
  <2> QED BY <2>2
<1>5. ASSUME NEW k \in Ticks, a = <<k, 2>>, Goto(a, "dead"), tick' = [tick EXCEPT ![k] = "failed"]
      PROVE  /\ at' \in [Authors -> Busy \cup {"idle", "done", "dead"}]
             /\ tick' \in [Ticks -> {"due", "active", "done", "failed"}]
             /\ at'[a] = "dead"
             /\ \A b \in Authors \ {a} : at'[b] = at[b]
  BY <1>1, <1>5 DEF Goto
<1>6. \/ a \in Requests /\ Goto(a, "dead") /\ UNCHANGED tick
      \/ \E k \in Ticks : /\ a = <<k, 1>>
                          /\ at' = [at EXCEPT ![a] = "dead", ![<<k, 2>>] = "evaluate"] /\ tick' = tick
      \/ \E k \in Ticks : a = <<k, 2>> /\ Goto(a, "dead") /\ tick' = [tick EXCEPT ![k] = "failed"]
  <2>1. 1..BackoffLimit = {1} /\ BackoffLimit + 1 = 2
    BY DEF BackoffLimit
  <2>2. \/ a \in Requests /\ Goto(a, "dead") /\ UNCHANGED tick
        \/ \E k \in Ticks, n \in 1..BackoffLimit :
              /\ a = <<k, n>>
              /\ at' = [at EXCEPT ![a] = "dead", ![<<k, n + 1>>] = "evaluate"]
              /\ UNCHANGED tick
        \/ \E k \in Ticks :
              /\ a = <<k, BackoffLimit + 1>>
              /\ Goto(a, "dead")
              /\ tick' = [tick EXCEPT ![k] = "failed"]
    BY DEF Raise
  <2>3. ASSUME NEW k \in Ticks, NEW n \in 1..BackoffLimit, a = <<k, n>>,
               at' = [at EXCEPT ![a] = "dead", ![<<k, n + 1>>] = "evaluate"], UNCHANGED tick
        PROVE  a = <<k, 1>> /\ at' = [at EXCEPT ![a] = "dead", ![<<k, 2>>] = "evaluate"] /\ tick' = tick
    <3>1. n = 1 /\ n + 1 = 2
      BY <2>1
    <3> QED BY <2>3, <3>1
  <2>4. ASSUME NEW k \in Ticks, a = <<k, BackoffLimit + 1>>, Goto(a, "dead"), tick' = [tick EXCEPT ![k] = "failed"]
        PROVE  a = <<k, 2>>
    BY <2>1, <2>4
  <2> QED BY <2>2, <2>3, <2>4
<1> QED BY <1>1, <1>2, <1>3, <1>4, <1>5, <1>6

\* An author that ends keeps its books.
LEMMA DeadFits ==
    ASSUME IInv, NEW a \in Authors, at'[a] = "dead", mode' = mode,
           ask' = ask, registry' = registry, tries' = tries, training'[a] = training[a]
    PROVE  Fits(a)'
<1>1. TrainingFits(a) /\ AuthorFits(a) /\ DocumentFits(a) /\ Traced(a)
  BY DEF IInv
<1>2. Registers(a)' <=> Registers(a)
  BY DEF Registers
<1>3. Try(a)' = Try(a)
  BY DEF Try
<1>4. TrainingFits(a)' /\ AuthorFits(a)' /\ Traced(a)'
  BY <1>1 DEF TrainingFits, AuthorFits, Traced
<1>5. DocumentFits(a)'
  BY <1>1, <1>2, <1>3 DEF DocumentFits
<1> QED BY <1>4, <1>5 DEF Fits

LEMMA DiesKeeps ==
    ASSUME IInv, NEW a \in Authors, Dies(a) \/ Refused(a)
    PROVE  IInv'
<1>1. /\ at[a] \in Busy /\ Raise(a)
      /\ UNCHANGED <<mode, registry, ask, verdict, training, tries, good, version, rows>>
      /\ deaths' = deaths \/ (deaths < MaxDeaths /\ deaths' = deaths + 1)
  BY DEF Dies, Refused, Busy
<1>2. /\ at' \in [Authors -> Busy \cup {"idle", "done", "dead"}]
      /\ tick' \in [Ticks -> {"due", "active", "done", "failed"}]
      /\ at'[a] = "dead"
      /\ \A b \in Authors \ {a} : at'[b] = at[b] \/ (b \in Pods /\ at[b] = "idle" /\ at'[b] = "evaluate")
      /\ \A k \in Ticks : TickFits(k)'
  BY <1>1, RaiseFacts
<1>3. TypeOK'
  <2>1. deaths' \in 0..MaxDeaths
    BY <1>1, TypeFacts, RetrainingLoopAssumption DEF IInv
  <2> QED BY <1>1, <1>2, <2>1, TypeFacts DEF IInv, TypeOK
<1>4. Apart(a)
  BY <1>1, <1>2 DEF Apart
<1>5. Fits(a)'
  BY <1>1, <1>2, DeadFits
<1> QED BY <1>1, <1>2, <1>3, <1>4, <1>5, StepKeeps

-----------------------------------------------------------------------------
(***************************************************************************)
(* The evaluation and the call.                                            *)
(***************************************************************************)

\* What the invariant says of one author.
LEMMA OwnFacts ==
    ASSUME IInv, NEW a \in Authors
    PROVE  /\ TypeOK /\ TrainingFits(a) /\ AuthorFits(a) /\ DocumentFits(a) /\ Traced(a)
           /\ at \in [Authors -> Busy \cup {"idle", "done", "dead"}]
           /\ registry \in Document
           /\ \A n \in Tries : <<a, n>> \in Trainings
           /\ a \in Pods <=> a \notin Requests
BY AuthorFacts, TypeFacts DEF IInv

\* The author takes its next step; the document, the trainings and the rows stay.
LEMMA OnlyMoves ==
    ASSUME IInv, NEW a \in Authors, at[a] \in Busy,
           NEW s \in Busy \cup {"done"}, at' = [at EXCEPT ![a] = s],
           UNCHANGED <<mode, registry, ask, tries>>, rows \subseteq rows',
           \A b \in Authors \ {a} : training'[b] = training[b] /\ verdict'[b] = verdict[b]
    PROVE  /\ at' \in [Authors -> Busy \cup {"idle", "done", "dead"}] /\ at'[a] = s
           /\ Apart(a)
           /\ tick' = tick => \A k \in Ticks : TickFits(k)'
<1>1. at \in [Authors -> Busy \cup {"idle", "done", "dead"}]
  BY OwnFacts
<1>2. /\ at' \in [Authors -> Busy \cup {"idle", "done", "dead"}] /\ at'[a] = s
      /\ \A b \in Authors \ {a} : at'[b] = at[b]
  BY <1>1
<1>3. Apart(a)
  BY <1>2 DEF Apart
<1>4. ASSUME tick' = tick PROVE \A k \in Ticks : TickFits(k)'
  <2>1. \A p \in Pods : at'[p] = at[p] \/ (at[p] \in Busy /\ at'[p] # "idle")
    BY <1>2, AuthorFacts DEF Busy
  <2> QED BY <1>4, <2>1, TicksFit
<1> QED BY <1>2, <1>3, <1>4

LEMMA EvaluateKeeps ==
    ASSUME IInv, NEW a \in Authors, Evaluate(a)
    PROVE  IInv'
<1>1. /\ at[a] = "evaluate"
      /\ UNCHANGED <<mode, registry, tick, ask, training, tries, good, version, rows, deaths>>
  BY DEF Evaluate
<1>2. PICK v \in Verdicts(CurrentModel(registry)) :
         /\ verdict' = [verdict EXCEPT ![a] = v]
         /\ Goto(a, IF Triggers(a, v) THEN "call" ELSE "file")
  BY DEF Evaluate
<1> PICK s : s = IF Triggers(a, v) THEN "call" ELSE "file"
  OBVIOUS
<1>3. at' = [at EXCEPT ![a] = s] /\ s \in {"call", "file"} /\ v \in Verdict
  BY <1>2 DEF Goto, Verdicts, Verdict
<1>4. verdict \in [Authors -> Verdict] /\ TypeOK /\ TrainingFits(a) /\ AuthorFits(a) /\ DocumentFits(a)
  BY OwnFacts, TypeFacts
<1>5. verdict' \in [Authors -> Verdict] /\ verdict'[a] = v /\ \A b \in Authors \ {a} : verdict'[b] = verdict[b]
  BY <1>2, <1>3, <1>4
<1>6. /\ at' \in [Authors -> Busy \cup {"idle", "done", "dead"}] /\ at'[a] = s
      /\ Apart(a)
      /\ \A k \in Ticks : TickFits(k)'
  <2>1. at[a] \in Busy /\ s \in Busy \cup {"done"}
    BY <1>1, <1>3 DEF Busy
  <2> QED BY <1>1, <1>3, <1>5, <2>1, OnlyMoves
<1>7. TypeOK'
  BY <1>1, <1>4, <1>5, <1>6 DEF TypeOK
<1>8. training[a] = "none" /\ training' = training
  BY <1>1, <1>4 DEF TrainingFits
<1>9. TrainingFits(a)'
  BY <1>1, <1>3, <1>4, <1>6, <1>8 DEF TrainingFits
<1>10. AuthorFits(a)'
  <2>1. s = "call" => MayTrigger(a) /\ v = "retrain_required"
    BY DEF Triggers
  <2>2. MayTrigger(a)' <=> MayTrigger(a)
    BY <1>1 DEF MayTrigger
  <2>3. (a \in Evaluators)'
    <3>1. a \in Evaluators
      BY <1>1, <1>4 DEF AuthorFits
    <3> QED BY <1>1, <3>1 DEF Evaluators
  <2> QED BY <1>3, <1>5, <1>6, <2>1, <2>2, <2>3 DEF AuthorFits
<1>11. DocumentFits(a)' /\ Traced(a)'
  BY <1>1, <1>4, <1>8 DEF DocumentFits, Traced
<1> QED BY <1>1, <1>6, <1>7, <1>9, <1>10, <1>11, StepKeeps DEF Fits

\* The report of a pod is in the document before the pod exits.
LEMMA FileKeeps ==
    ASSUME IInv, NEW a \in Authors, File(a)
    PROVE  IInv'
<1>1. /\ at[a] = "file" /\ registry' = WithReport(registry, a)
      /\ UNCHANGED <<mode, tick, ask, verdict, training, tries, good, version, rows, deaths>>
  BY DEF File, Report
<1> PICK s : s = IF a \in Pods THEN "exit" ELSE "done"
  OBVIOUS
<1>2. at' = [at EXCEPT ![a] = s] /\ s \in {"exit", "done"} /\ (a \in Pods => s = "exit")
  BY DEF File, Goto
<1>3. TypeOK /\ TrainingFits(a) /\ AuthorFits(a) /\ DocumentFits(a) /\ Traced(a)
      /\ at \in [Authors -> Busy \cup {"idle", "done", "dead"}]
      /\ registry \in Document
  BY OwnFacts
<1>4. at' \in [Authors -> Busy \cup {"idle", "done", "dead"}] /\ at'[a] = s
      /\ \A b \in Authors \ {a} : at'[b] = at[b]
  BY <1>2, <1>3 DEF Busy
<1>5. /\ registry' \in Document /\ registry'.reports = registry.reports \cup {a}
      /\ registry'.run = registry.run
      /\ \A u \in Trainings : HasModel(registry', u) <=> HasModel(registry, u)
  BY <1>1, <1>3, ReportFacts
<1>6. \A b \in Authors, n \in Tries :
         /\ HasModel(registry', <<b, n>>) <=> HasModel(registry, <<b, n>>)
         /\ registry'.run[<<b, n>>] = registry.run[<<b, n>>]
  BY <1>5, AuthorFacts
<1>7. Apart(a)
  BY <1>1, <1>4, <1>5, <1>6, AloneApart
<1>8. \A k \in Ticks : TickFits(k)'
  <2>1. \A p \in Pods : at'[p] = at[p] \/ (at[p] \in Busy /\ at'[p] # "idle")
    BY <1>1, <1>2, <1>4, AuthorFacts DEF Busy
  <2> QED BY <1>1, <2>1, TicksFit
<1>9. TypeOK'
  BY <1>1, <1>3, <1>4, <1>5 DEF TypeOK
<1>10. TrainingFits(a)'
  BY <1>1, <1>2, <1>3, <1>4 DEF TrainingFits
<1>11. AuthorFits(a)'
  BY <1>1, <1>2, <1>3, <1>4, <1>5 DEF AuthorFits
<1>12. DocumentFits(a)'
  <2>1. Try(a)' = Try(a) /\ (Registers(a)' <=> Registers(a))
    BY <1>1 DEF Try, Registers
  <2>2. training[a] \in {"fitted", "completed", "succeeded"} => \E n \in Tries : Try(a) = <<a, n>>
    BY <1>3, TypeFacts DEF TrainingFits, Try, Tries, BackoffLimit
  <2> QED BY <1>1, <1>3, <1>5, <1>6, <2>1, <2>2 DEF DocumentFits
<1>13. Traced(a)'
  <2>1. a \in Evaluators /\ (a \in Evaluators)' /\ a \in registry'.reports
    BY <1>1, <1>3, <1>5 DEF AuthorFits, Evaluators
  <2> QED BY <1>1, <1>3, <2>1 DEF Traced, InRequest, FirstStep, MayTrigger, Evaluators
<1> QED BY <1>1, <1>7, <1>8, <1>9, <1>10, <1>11, <1>12, <1>13, StepKeeps DEF Fits

\* A call leaves a training, or none, and an author that records it or may not.
LEMMA CalledFits ==
    ASSUME IInv, TypeOK', NEW a \in Authors, at[a] = "call", at'[a] = AfterCall(a),
           training'[a] \in {"none", "pending", "external"},
           UNCHANGED <<mode, registry, ask, tries, verdict, rows>>
    PROVE  Fits(a)'
<1>1. TypeOK /\ TrainingFits(a) /\ AuthorFits(a) /\ DocumentFits(a) /\ Traced(a)
  BY OwnFacts
<1>2. training[a] = "none" /\ tries[a] = 0
  BY <1>1 DEF TrainingFits
<1>3. /\ (a \in Evaluators)' <=> a \in Evaluators
      /\ MayTrigger(a)' <=> MayTrigger(a)
      /\ Registers(a)' <=> Registers(a)
      /\ InRequest(a)' <=> InRequest(a)
  BY DEF Evaluators, MayTrigger, Registers, InRequest, FirstStep
<1>4. IF a \in Evaluators THEN verdict[a] = "retrain_required" /\ MayTrigger(a)
      ELSE a \in Requests /\ ask[a].path \in {"train", "remote"}
  BY <1>1 DEF AuthorFits
<1>5. at'[a] \in {"file", "row", "done"}
      /\ (at'[a] = "file" <=> a \in Evaluators)
      /\ (at'[a] = "row" <=> a \notin Evaluators /\ ask[a].path = "train")
  BY <1>4 DEF AfterCall
<1>6. a \in Pods => a \in Evaluators
  BY DEF Evaluators
<1>7. TrainingFits(a)'
  BY <1>2, <1>5 DEF TrainingFits, BackoffLimit
<1>8. AuthorFits(a)'
  BY <1>3, <1>5, <1>6 DEF AuthorFits
<1>9. DocumentFits(a)'
  BY <1>1, <1>2, <1>3 DEF DocumentFits
<1>10. Traced(a)'
  BY <1>3, <1>4, <1>5 DEF Traced
<1> QED BY <1>7, <1>8, <1>9, <1>10 DEF Fits

LEMMA CallKeeps ==
    ASSUME IInv, NEW a \in Authors, Launch(a) \/ Stub(a)
    PROVE  IInv'
<1>1. /\ at[a] = "call" /\ Goto(a, AfterCall(a))
      /\ UNCHANGED <<mode, registry, tick, ask, verdict, tries, good, version, rows, deaths>>
      /\ training' = training \/ \E p \in {"pending", "external"} : training' = [training EXCEPT ![a] = p]
  BY DEF Launch, Stub, Launched
<1> PICK s : s = AfterCall(a)
  OBVIOUS
<1>2. at' = [at EXCEPT ![a] = s] /\ s \in {"file", "row", "done"}
  BY <1>1 DEF Goto, AfterCall
<1>3. TypeOK /\ TrainingFits(a)
  BY OwnFacts
<1>4. /\ training' \in [Authors -> {"none", "external", "pending", "running",
                                    "fitted", "completed", "succeeded", "failed"}]
      /\ training'[a] \in {"none", "pending", "external"}
      /\ \A b \in Authors \ {a} : training'[b] = training[b]
  BY <1>1, <1>3, TypeFacts DEF TrainingFits
<1>5. /\ at' \in [Authors -> Busy \cup {"idle", "done", "dead"}] /\ at'[a] = s
      /\ Apart(a)
      /\ \A k \in Ticks : TickFits(k)'
  <2>1. at[a] \in Busy /\ s \in Busy \cup {"done"}
    BY <1>1, <1>2 DEF Busy
  <2> QED BY <1>1, <1>2, <1>4, <2>1, OnlyMoves
<1>6. TypeOK'
  BY <1>1, <1>3, <1>4, <1>5 DEF TypeOK
<1>7. Fits(a)'
  BY <1>1, <1>4, <1>5, <1>6, CalledFits
<1> QED BY <1>1, <1>5, <1>6, <1>7, StepKeeps

\* The training is there and the author is dead.
LEMMA LaunchUnheardKeeps ==
    ASSUME IInv, NEW a \in Authors, LaunchUnheard(a)
    PROVE  IInv'
<1>1. /\ at[a] = "call" /\ Raise(a) /\ training' = [training EXCEPT ![a] = "external"]
      /\ UNCHANGED <<mode, registry, ask, verdict, tries, good, version, rows, deaths>>
  BY DEF LaunchUnheard, Launched
<1>2. /\ at' \in [Authors -> Busy \cup {"idle", "done", "dead"}]
      /\ tick' \in [Ticks -> {"due", "active", "done", "failed"}]
      /\ at'[a] = "dead"
      /\ \A b \in Authors \ {a} : at'[b] = at[b] \/ (b \in Pods /\ at[b] = "idle" /\ at'[b] = "evaluate")
      /\ \A k \in Ticks : TickFits(k)'
  <2>1. at[a] \in Busy
    BY <1>1 DEF Busy
  <2> QED BY <1>1, <2>1, RaiseFacts
<1>3. TypeOK /\ TrainingFits(a) /\ AuthorFits(a) /\ DocumentFits(a) /\ Traced(a)
  BY OwnFacts
<1>4. /\ training' \in [Authors -> {"none", "external", "pending", "running",
                                    "fitted", "completed", "succeeded", "failed"}]
      /\ training'[a] = "external"
      /\ \A b \in Authors \ {a} : training'[b] = training[b]
  BY <1>1, <1>3, TypeFacts
<1>5. TypeOK'
  BY <1>1, <1>2, <1>3, <1>4 DEF TypeOK
<1>6. Apart(a)
  BY <1>1, <1>2, <1>4 DEF Apart
<1>7. training[a] = "none"
  BY <1>1, <1>3 DEF TrainingFits
<1>8. Registers(a)' <=> Registers(a)
  BY <1>1 DEF Registers
<1>9. TrainingFits(a)' /\ AuthorFits(a)' /\ Traced(a)'
  BY <1>1, <1>2, <1>3, <1>4 DEF TrainingFits, AuthorFits, Traced
<1>10. DocumentFits(a)'
  BY <1>1, <1>3, <1>4, <1>7, <1>8 DEF DocumentFits
<1> QED BY <1>1, <1>2, <1>5, <1>6, <1>9, <1>10, StepKeeps DEF Fits

-----------------------------------------------------------------------------
(***************************************************************************)
(* The training.                                                           *)
(***************************************************************************)
Active == {"pending", "running", "fitted", "completed"}

\* The try at work is one of the author's, and nobody else's.
LEMMA TryFacts ==
    ASSUME IInv, NEW a \in Authors, training[a] \in Active \cup {"succeeded"}
    PROVE  /\ tries[a] \in 0..BackoffLimit /\ \E m \in Tries : m = tries[a] + 1 /\ Try(a) = <<a, m>>
           /\ Try(a) \in Trainings
           /\ \A b \in Authors \ {a}, n \in Tries : <<b, n>> # Try(a)
<1>1. TypeOK /\ TrainingFits(a)
  BY OwnFacts
<1>2. tries[a] \in 0..1
  BY <1>1, TypeFacts DEF TrainingFits, Active, BackoffLimit
<1>3. PICK m \in Tries : m = tries[a] + 1
  BY <1>2, AuthorFacts
<1>4. Try(a) = <<a, m>> /\ <<a, m>> \in Trainings
  BY <1>3, AuthorFacts DEF Try
<1> QED BY <1>2, <1>3, <1>4 DEF BackoffLimit

\* What a step of the training of a says of the document, for the others.
EditsOwn(a) ==
    /\ registry' \in Document /\ registry'.reports = registry.reports
    /\ \A b \in Authors \ {a}, n \in Tries :
         /\ HasModel(registry', <<b, n>>) <=> HasModel(registry, <<b, n>>)
         /\ registry'.run[<<b, n>>] = registry.run[<<b, n>>]

LEMMA RunEditsOwn ==
    ASSUME IInv, NEW a \in Authors, training[a] \in Active,
           NEW status \in RunStatus, registry' = WithRunStatus(registry, Try(a), status)
    PROVE  /\ EditsOwn(a)
           /\ \A n \in Tries : HasModel(registry', <<a, n>>) <=> HasModel(registry, <<a, n>>)
           /\ registry'.run[Try(a)] = status
<1>1. /\ Try(a) \in Trainings /\ \A b \in Authors \ {a}, n \in Tries : <<b, n>> # Try(a)
      /\ registry \in Document
  BY TryFacts, OwnFacts
<1>2. /\ registry' \in Document /\ registry'.reports = registry.reports
      /\ \A u \in Trainings :
           /\ HasModel(registry', u) <=> HasModel(registry, u)
           /\ registry'.run[u] = IF u = Try(a) THEN status ELSE registry.run[u]
  BY <1>1, RunFacts
<1> QED BY <1>1, <1>2, AuthorFacts DEF EditsOwn

LEMMA SameEditsOwn ==
    ASSUME IInv, NEW a \in Authors, registry' = registry
    PROVE  EditsOwn(a)
BY OwnFacts DEF EditsOwn

LEMMA ModelEditsOwn ==
    ASSUME IInv, NEW a \in Authors, training[a] \in Active,
           NEW stage \in Stages, registry' = WithModel(registry, Try(a), stage)
    PROVE  EditsOwn(a) /\ HasModel(registry', Try(a))
<1>1. /\ Try(a) \in Trainings /\ \A b \in Authors \ {a}, n \in Tries : <<b, n>> # Try(a)
      /\ registry \in Document
  BY TryFacts, OwnFacts
<1>2. /\ registry' \in Document /\ registry'.reports = registry.reports
      /\ registry'.run = registry.run
      /\ \A u \in Trainings : HasModel(registry', u) <=> u = Try(a) \/ HasModel(registry, u)
  BY <1>1, ModelFacts
<1> QED BY <1>1, <1>2, AuthorFacts DEF EditsOwn

\* A step of a training that is at work, in a container or in its thread.
LEMMA TrainingStep ==
    ASSUME IInv, NEW a \in Authors, training[a] \in Active,
           NEW p \in Active \cup {"succeeded", "failed"}, training' = [training EXCEPT ![a] = p],
           tries' \in [Authors -> 0..BackoffLimit + 1],
           \A b \in Authors \ {a} : tries'[b] = tries[b],
           p \in Active \cup {"succeeded"} => tries'[a] <= BackoffLimit,
           NEW s, at' = [at EXCEPT ![a] = s],
           \/ s = at[a] /\ (s = "train" => p \in {"pending", "running", "fitted"})
           \/ at[a] = "train" /\ s \in {"row", "promote", "read", "dead"},
           UNCHANGED <<mode, tick, ask, verdict, rows>>,
           good' \subseteq Trainings, version' \in [Requests -> Trainings \cup {None}],
           deaths' \in 0..MaxDeaths,
           EditsOwn(a), DocumentFits(a)'
    PROVE  IInv'
<1>1. /\ TypeOK /\ TrainingFits(a) /\ AuthorFits(a) /\ Traced(a)
      /\ at \in [Authors -> Busy \cup {"idle", "done", "dead"}]
      /\ training[a] # "none"
  BY OwnFacts DEF Active
<1>2. /\ at' \in [Authors -> Busy \cup {"idle", "done", "dead"}] /\ at'[a] = s
      /\ \A b \in Authors \ {a} : at'[b] = at[b]
  BY <1>1 DEF Busy
<1>3. /\ training' \in [Authors -> {"none", "external", "pending", "running",
                                    "fitted", "completed", "succeeded", "failed"}]
      /\ training'[a] = p
      /\ \A b \in Authors \ {a} : training'[b] = training[b]
  BY <1>1, TypeFacts DEF Active
<1>4. TypeOK'
  BY <1>1, <1>2, <1>3 DEF TypeOK, EditsOwn
<1>5. Apart(a)
  BY <1>2, <1>3, AloneApart DEF EditsOwn
<1>6. \A k \in Ticks : TickFits(k)'
  <2>1. \A q \in Pods : at'[q] = at[q] \/ (at[q] \in Busy /\ at'[q] # "idle")
    BY <1>2, AuthorFacts DEF Busy
  <2> QED BY <2>1, TicksFit
<1>7. InRequest(a)' <=> InRequest(a)
  BY DEF InRequest, FirstStep
<1>8. at[a] = "train" => InRequest(a)
  BY <1>1 DEF TrainingFits
<1>9. TrainingFits(a)'
  BY <1>1, <1>2, <1>3, <1>7, <1>8 DEF TrainingFits, Active
<1>10. AuthorFits(a)'
  <2>1. registry'.reports = registry.reports
    BY DEF EditsOwn
  <2>2. (a \in Evaluators)' <=> a \in Evaluators
    BY DEF Evaluators
  <2> QED BY <1>1, <1>2, <2>1, <2>2 DEF AuthorFits, MayTrigger
<1>11. Traced(a)'
  <2>1. registry'.reports = registry.reports
    BY DEF EditsOwn
  <2>2. (a \in Evaluators)' <=> a \in Evaluators
    BY DEF Evaluators
  <2> QED BY <1>1, <1>2, <1>7, <1>8, <2>1, <2>2 DEF Traced, MayTrigger
<1> QED BY <1>4, <1>5, <1>6, <1>9, <1>10, <1>11, StepKeeps DEF Fits

\* The facts that every such step starts from.
LEMMA WorkFacts ==
    ASSUME IInv, NEW a \in Authors
    PROVE  /\ good \subseteq Trainings /\ version \in [Requests -> Trainings \cup {None}]
           /\ deaths \in 0..MaxDeaths /\ tries \in [Authors -> 0..BackoffLimit + 1]
           /\ at = [at EXCEPT ![a] = at[a]]
BY OwnFacts, TypeFacts

LEMMA StartRunKeeps ==
    ASSUME IInv, NEW a \in Authors, StartRun(a)
    PROVE  IInv'
<1>1. /\ training[a] = "pending" /\ training' = [training EXCEPT ![a] = "running"]
      /\ registry' = WithRun(registry, Try(a))
      /\ UNCHANGED <<mode, tick, at, ask, verdict, tries, good, version, rows, deaths>>
  BY DEF StartRun
<1>2. /\ training[a] \in Active /\ Try(a) \in Trainings /\ tries[a] \in 0..BackoffLimit
      /\ DocumentFits(a) /\ registry \in Document /\ training'[a] = "running"
  BY <1>1, TryFacts, OwnFacts, TypeFacts DEF Active
<1>3. registry' = WithRunStatus(registry, Try(a), "running") /\ "running" \in RunStatus
  BY <1>1, <1>2, NewRunFacts DEF RunStatus
<1>4. EditsOwn(a) /\ \A n \in Tries : HasModel(registry', <<a, n>>) <=> HasModel(registry, <<a, n>>)
  BY <1>2, <1>3, RunEditsOwn
<1>5. DocumentFits(a)'
  <2>1. Registers(a)' <=> Registers(a)
    BY <1>1 DEF Registers
  <2> QED BY <1>1, <1>2, <1>4, <2>1 DEF DocumentFits
<1>6. /\ good' \subseteq Trainings /\ version' \in [Requests -> Trainings \cup {None}]
      /\ deaths' \in 0..MaxDeaths /\ tries' \in [Authors -> 0..BackoffLimit + 1]
      /\ at' = [at EXCEPT ![a] = at[a]] /\ tries'[a] <= BackoffLimit
  BY <1>1, <1>2, WorkFacts DEF BackoffLimit
<1> DEFINE p == "running"
<1>7. p \in Active \cup {"succeeded", "failed"} /\ p \in {"pending", "running", "fitted"}
  BY DEF Active
<1> QED BY <1>1, <1>2, <1>4, <1>5, <1>6, <1>7, TrainingStep

\* The model is registered when its request wants one.
LEMMA FitKeeps ==
    ASSUME IInv, NEW a \in Authors, Fit(a)
    PROVE  IInv'
<1>1. /\ training[a] = "running" /\ training' = [training EXCEPT ![a] = "fitted"]
      /\ UNCHANGED <<mode, tick, at, ask, verdict, tries, version, rows, deaths>>
  BY DEF Fit
<1>2. PICK f1 \in BOOLEAN :
         /\ registry' = IF Registers(a)
                        THEN WithModel(registry, Try(a), IF f1 THEN "production" ELSE "candidate")
                        ELSE registry
         /\ good' = IF f1 THEN good \cup {Try(a)} ELSE good
  BY DEF Fit
<1> PICK stage \in Stages : stage = IF f1 THEN "production" ELSE "candidate"
  BY DEF Stages
<1>3. /\ training[a] \in Active /\ Try(a) \in Trainings /\ tries[a] \in 0..BackoffLimit
      /\ DocumentFits(a) /\ registry \in Document /\ training'[a] = "fitted"
  BY <1>1, TryFacts, OwnFacts, TypeFacts DEF Active
<1>4. (Registers(a)' <=> Registers(a)) /\ Try(a)' = Try(a)
  BY <1>1 DEF Registers, Try
<1>5. EditsOwn(a) /\ DocumentFits(a)'
  <2>1. CASE Registers(a)
    <3>1. EditsOwn(a) /\ HasModel(registry', Try(a))
      BY <1>2, <1>3, <2>1, ModelEditsOwn
    <3> QED BY <1>3, <1>4, <2>1, <3>1 DEF DocumentFits
  <2>2. CASE ~Registers(a)
    <3>1. registry' = registry
      BY <1>2, <2>2
    <3> QED BY <1>3, <1>4, <2>2, <3>1, SameEditsOwn DEF DocumentFits
  <2> QED BY <2>1, <2>2
<1>6. /\ good' \subseteq Trainings /\ version' \in [Requests -> Trainings \cup {None}]
      /\ deaths' \in 0..MaxDeaths /\ tries' \in [Authors -> 0..BackoffLimit + 1]
      /\ at' = [at EXCEPT ![a] = at[a]] /\ tries'[a] <= BackoffLimit
  BY <1>1, <1>2, <1>3, WorkFacts DEF BackoffLimit
<1> DEFINE p == "fitted"
<1>7. p \in Active \cup {"succeeded", "failed"} /\ p \in {"pending", "running", "fitted"}
  BY DEF Active
<1> QED BY <1>1, <1>3, <1>5, <1>6, <1>7, TrainingStep

\* The run is completed; a request goes on in its thread.
LEMMA CompleteRunKeeps ==
    ASSUME IInv, NEW a \in Authors, CompleteRun(a)
    PROVE  IInv'
<1>1. /\ training[a] = "fitted"
      /\ registry' = WithRunStatus(registry, Try(a), "completed")
      /\ UNCHANGED <<mode, tick, ask, verdict, tries, good, rows, deaths>>
  BY DEF CompleteRun
<1>2. /\ training[a] \in Active /\ Try(a) \in Trainings /\ tries[a] \in 0..BackoffLimit
      /\ DocumentFits(a) /\ TrainingFits(a) /\ registry \in Document
  BY <1>1, TryFacts, OwnFacts DEF Active
<1>3. /\ EditsOwn(a) /\ \A n \in Tries : HasModel(registry', <<a, n>>) <=> HasModel(registry, <<a, n>>)
      /\ registry'.run[Try(a)] = "completed"
  BY <1>1, <1>2, RunEditsOwn DEF RunStatus
<1>4. (Registers(a)' <=> Registers(a)) /\ Try(a)' = Try(a) /\ \E m \in Tries : Try(a) = <<a, m>>
  BY <1>1, <1>2, TryFacts DEF Registers, Try
<1>5. DocumentFits(a)'
  <2>1. training'[a] \in {"completed", "succeeded"}
    BY <1>1, TypeFacts, OwnFacts DEF CompleteRun
  <2> QED BY <1>1, <1>2, <1>3, <1>4, <2>1 DEF DocumentFits
<1>6. /\ good' \subseteq Trainings
      /\ deaths' \in 0..MaxDeaths /\ tries' \in [Authors -> 0..BackoffLimit + 1]
      /\ tries'[a] <= BackoffLimit
  BY <1>1, <1>2, WorkFacts DEF BackoffLimit
<1>7. CASE InThread(a)
  <2> PICK s : s = IF ask[a].path = "train" THEN "row"
                   ELSE IF Try(a) \in good THEN "promote" ELSE "read"
    OBVIOUS
  <2> DEFINE p == "succeeded"
  <2>1. /\ training' = [training EXCEPT ![a] = p] /\ at' = [at EXCEPT ![a] = s]
        /\ version' = [version EXCEPT ![a] = Try(a)]
        /\ at[a] = "train" /\ s \in {"row", "promote", "read"}
    BY <1>7 DEF CompleteRun, Goto, InThread
  <2>2. version' \in [Requests -> Trainings \cup {None}]
    BY <1>2, <2>1, WorkFacts
  <2>3. p \in Active \cup {"succeeded", "failed"}
    OBVIOUS
  <2> QED BY <1>1, <1>2, <1>3, <1>5, <1>6, <2>1, <2>2, <2>3, TrainingStep
<1>8. CASE ~InThread(a)
  <2> DEFINE p == "completed"
  <2>1. /\ training' = [training EXCEPT ![a] = p] /\ at' = [at EXCEPT ![a] = at[a]]
        /\ version' \in [Requests -> Trainings \cup {None}] /\ at[a] # "train"
    BY <1>8, WorkFacts DEF CompleteRun, InThread
  <2>2. p \in Active \cup {"succeeded", "failed"}
    BY DEF Active
  <2> QED BY <1>1, <1>2, <1>3, <1>5, <1>6, <2>1, <2>2, TrainingStep
<1> QED BY <1>7, <1>8

LEMMA ContainerExitsKeeps ==
    ASSUME IInv, NEW a \in Authors, ContainerExits(a)
    PROVE  IInv'
<1> DEFINE p == "succeeded"
<1>1. /\ training[a] = "completed" /\ training' = [training EXCEPT ![a] = p]
      /\ UNCHANGED <<mode, registry, tick, at, ask, verdict, tries, good, version, rows, deaths>>
  BY DEF ContainerExits
<1>2. /\ training[a] \in Active /\ tries[a] \in 0..BackoffLimit
      /\ DocumentFits(a) /\ TrainingFits(a) /\ training'[a] = "succeeded"
  BY <1>1, TryFacts, OwnFacts, TypeFacts DEF Active
<1>3. DocumentFits(a)'
  BY <1>1, <1>2 DEF DocumentFits, Registers, Try
<1>4. /\ good' \subseteq Trainings /\ version' \in [Requests -> Trainings \cup {None}]
      /\ deaths' \in 0..MaxDeaths /\ tries' \in [Authors -> 0..BackoffLimit + 1]
      /\ at' = [at EXCEPT ![a] = at[a]] /\ tries'[a] <= BackoffLimit
  BY <1>1, <1>2, WorkFacts DEF BackoffLimit
<1>5. at[a] # "train" /\ p \in Active \cup {"succeeded", "failed"}
  BY <1>1, <1>2 DEF TrainingFits
<1> QED BY <1>1, <1>2, <1>3, <1>4, <1>5, SameEditsOwn, TrainingStep

\* A try ends; the next one, if there is one, is the last.
LEMMA FailureKeeps ==
    ASSUME IInv, NEW a \in Authors, DataMissing(a) \/ TrainingFails(a)
    PROVE  IInv'
<1>1. /\ training[a] \in Active /\ Failed(a) /\ deaths' \in 0..MaxDeaths
      /\ registry' = registry \/ MarkedFailed(a)
  <2>1. CASE DataMissing(a)
    BY <2>1, WorkFacts DEF DataMissing, Active
  <2>2. CASE TrainingFails(a)
    <3>1. deaths' \in 0..MaxDeaths
      BY <2>2, WorkFacts, RetrainingLoopAssumption DEF TrainingFails
    <3> QED BY <2>2, <3>1 DEF TrainingFails, Active
  <2> QED BY <2>1, <2>2
<1> PICK p : p = AfterFailure(a)
  OBVIOUS
<1> PICK s : s = IF InThread(a) THEN "dead" ELSE at[a]
  OBVIOUS
<1>2. /\ tries[a] \in 0..BackoffLimit
      /\ DocumentFits(a) /\ TrainingFits(a) /\ \E m \in Tries : Try(a) = <<a, m>>
  BY <1>1, TryFacts, OwnFacts
<1>3. /\ EditsOwn(a)
      /\ \A n \in Tries : HasModel(registry', <<a, n>>) <=> HasModel(registry, <<a, n>>)
  <2>1. CASE registry' = registry
    BY <2>1, SameEditsOwn
  <2>2. CASE MarkedFailed(a)
    BY <1>1, <2>2, RunEditsOwn DEF MarkedFailed, RunStatus
  <2> QED BY <1>1, <2>1, <2>2
<1>4. /\ training' = [training EXCEPT ![a] = p] /\ tries' = [tries EXCEPT ![a] = @ + 1]
      /\ at' = [at EXCEPT ![a] = s]
      /\ UNCHANGED <<mode, tick, ask, verdict, good, version, rows>>
  BY <1>1, WorkFacts DEF Failed, Goto
<1>5. /\ p \in {"pending", "failed"} /\ (p = "pending" => tries[a] = 0)
      /\ \/ s = at[a] /\ s # "train"
         \/ at[a] = "train" /\ s = "dead"
  BY <1>2 DEF AfterFailure, InThread, BackoffLimit
<1>6. /\ tries' \in [Authors -> 0..BackoffLimit + 1] /\ tries'[a] = tries[a] + 1
      /\ \A b \in Authors \ {a} : tries'[b] = tries[b]
      /\ p \in Active \cup {"succeeded"} => tries'[a] <= BackoffLimit
  BY <1>2, <1>4, <1>5, WorkFacts DEF BackoffLimit, Active
<1>7. DocumentFits(a)'
  <2>1. training'[a] = p
    BY <1>4, OwnFacts, TypeFacts
  <2>2. Registers(a)' <=> Registers(a)
    BY <1>4 DEF Registers
  <2>3. training[a] # "none"
    BY <1>1 DEF Active
  <2> QED BY <1>2, <1>3, <1>5, <2>1, <2>2, <2>3 DEF DocumentFits
<1>8. good' \subseteq Trainings /\ version' \in [Requests -> Trainings \cup {None}]
  BY <1>4, WorkFacts
<1>9. p \in Active \cup {"succeeded", "failed"}
  BY <1>5 DEF Active
<1> QED BY <1>1, <1>3, <1>4, <1>5, <1>6, <1>7, <1>8, <1>9, TrainingStep

-----------------------------------------------------------------------------
(***************************************************************************)
(* The promotion, the row and the schedule.                                *)
(***************************************************************************)
LEMMA RecordKeeps ==
    ASSUME IInv, NEW q \in Requests, Record(q)
    PROVE  IInv'
<1> q \in Authors /\ q \notin Pods
  BY AuthorFacts
<1>1. /\ UNCHANGED <<mode, tick, ask, verdict, training, tries, good, deaths>>
      /\ \/ at[q] = "promote" /\ Goto(q, "read")
         \/ at[q] = "read" /\ Goto(q, "row")
         \/ at[q] = "row" /\ Goto(q, "done") /\ rows' = rows \cup {q}
      /\ rows' = rows \/ rows' = rows \cup {q}
      /\ registry' = registry \/ (HasModel(registry, <<q, 1>>) /\ registry' = WithPromotion(registry, <<q, 1>>))
      /\ version' = version \/ version' = [version EXCEPT ![q] = CurrentModel(registry)]
  BY DEF Record, PromoteModel, ReadCurrent, CommitRow, RowVersion
<1>2. /\ TypeOK /\ TrainingFits(q) /\ AuthorFits(q) /\ DocumentFits(q) /\ Traced(q)
      /\ at \in [Authors -> Busy \cup {"idle", "done", "dead"}]
      /\ registry \in Document
  BY OwnFacts
<1> PICK s : s = at'[q]
  OBVIOUS
<1>3. /\ at' = [at EXCEPT ![q] = s] /\ s \in {"read", "row", "done"} /\ at[q] \in Busy
      /\ (s = "read" => at[q] = "promote")
      /\ (s = "done" => at[q] = "row" /\ q \in rows') /\ (at[q] = "row" => s = "done")
  BY <1>1, <1>2 DEF Goto, Busy
<1>4. /\ at' \in [Authors -> Busy \cup {"idle", "done", "dead"}] /\ at'[q] = s
      /\ \A b \in Authors \ {q} : at'[b] = at[b]
  BY <1>2, <1>3 DEF Busy
<1>5. /\ registry' \in Document /\ registry'.reports = registry.reports
      /\ registry'.run = registry.run
      /\ \A u \in Trainings : HasModel(registry', u) <=> HasModel(registry, u)
  <2>1. CASE registry' = registry
    BY <1>2, <2>1
  <2>2. CASE HasModel(registry, <<q, 1>>) /\ registry' = WithPromotion(registry, <<q, 1>>)
    <3>1. 1 \in Tries /\ <<q, 1>> \in Trainings
      BY AuthorFacts
    <3> QED BY <1>2, <2>2, <3>1, PromotionFacts
  <2> QED BY <1>1, <2>1, <2>2
<1>6. \A b \in Authors, n \in Tries :
         /\ HasModel(registry', <<b, n>>) <=> HasModel(registry, <<b, n>>)
         /\ registry'.run[<<b, n>>] = registry.run[<<b, n>>]
  BY <1>5, AuthorFacts
<1>7. version' \in [Requests -> Trainings \cup {None}] /\ rows' \subseteq Requests /\ rows \subseteq rows'
  BY <1>1, <1>2, TypeFacts, DocumentFacts
<1>8. TypeOK'
  BY <1>1, <1>2, <1>4, <1>5, <1>7 DEF TypeOK
<1>9. Apart(q)
  BY <1>1, <1>4, <1>5, <1>6, <1>7, AloneApart
<1>10. \A k \in Ticks : TickFits(k)'
  <2>1. \A p \in Pods : at'[p] = at[p] \/ (at[p] \in Busy /\ at'[p] # "idle")
    BY <1>4, AuthorFacts
  <2> QED BY <1>1, <2>1, TicksFit
<1>11. /\ (q \in Evaluators)' <=> q \in Evaluators
       /\ InRequest(q)' <=> InRequest(q)
       /\ Registers(q)' <=> Registers(q)
       /\ Try(q)' = Try(q)
  BY <1>1 DEF Evaluators, InRequest, FirstStep, Registers, Try
<1>12. TrainingFits(q)'
  BY <1>1, <1>2, <1>3, <1>4, <1>11 DEF TrainingFits
<1>13. AuthorFits(q)'
  BY <1>2, <1>3, <1>4, <1>5 DEF AuthorFits
<1>14. DocumentFits(q)'
  <2>1. training[q] \in {"fitted", "completed", "succeeded"} => \E n \in Tries : Try(q) = <<q, n>>
    BY TryFacts DEF Active
  <2> QED BY <1>1, <1>2, <1>5, <1>6, <1>11, <2>1 DEF DocumentFits
<1>15. Traced(q)'
  <2>1. at[q] = "row" \/ InRequest(q)
    BY <1>1, <1>2 DEF TrainingFits
  <2> QED BY <1>1, <1>2, <1>3, <1>4, <1>5, <1>7, <1>11, <2>1 DEF Traced, MayTrigger
<1> QED BY <1>1, <1>8, <1>9, <1>10, <1>12, <1>13, <1>14, <1>15, StepKeeps DEF Fits

\* The pod that exits has filed its report.
LEMMA ExitKeeps ==
    ASSUME IInv, NEW k \in Ticks, NEW n \in Tries, Exit(k, n)
    PROVE  IInv'
<1> PICK a \in Authors : a = <<k, n>>
  BY AuthorFacts
<1> DEFINE s == "done"
<1>1. /\ at[a] = "exit" /\ at' = [at EXCEPT ![a] = s] /\ tick' = [tick EXCEPT ![k] = "done"]
      /\ UNCHANGED <<mode, registry, ask, verdict, training, tries, good, version, rows, deaths>>
  BY DEF Exit, Goto
<1>2. /\ TypeOK /\ TrainingFits(a) /\ AuthorFits(a) /\ DocumentFits(a) /\ Traced(a)
      /\ at \in [Authors -> Busy \cup {"idle", "done", "dead"}]
      /\ tick \in [Ticks -> {"due", "active", "done", "failed"}]
      /\ \A j \in Ticks : TickFits(j)
  BY OwnFacts, TypeFacts DEF IInv
<1>0. (n = 1 \/ n = 2) /\ a \in Pods
  <2>1. n \in 1..2
    BY AuthorFacts
  <2>2. <<k, n>> \in Pods
    BY <2>1, AuthorFacts
  <2> QED BY ONLY <2>1, <2>2, a = <<k, n>>
<1>3. at' \in [Authors -> Busy \cup {"idle", "done", "dead"}] /\ at'[a] = s /\ Apart(a)
  <2>1. at[a] \in Busy /\ s \in Busy \cup {"done"}
    BY <1>1 DEF Busy
  <2> QED BY <1>1, <2>1, OnlyMoves
<1>4. ASSUME NEW j \in Ticks PROVE TickFits(j)'
  <2>1. <<j, 1>> \in Authors /\ <<j, 2>> \in Authors /\ TickFits(j)
    BY <1>2, AuthorFacts
  <2>2. CASE j = k
    <3>1. tick'[j] = "done" /\ (at'[<<j, 1>>] = "done" \/ at'[<<j, 2>>] = "done")
      BY <1>0, <1>1, <1>2, <1>3, <2>2
    <3>2. at'[<<j, 2>>] # "idle" => at'[<<j, 1>>] = "dead"
      BY <1>0, <1>1, <1>2, <2>1, <2>2 DEF TickFits
    <3> QED BY <3>1, <3>2 DEF TickFits
  <2>3. CASE j # k
    <3>1. tick'[j] = tick[j] /\ at'[<<j, 1>>] = at[<<j, 1>>] /\ at'[<<j, 2>>] = at[<<j, 2>>]
      BY <1>1, <1>2, <2>1, <2>3
    <3> QED BY <2>1, <3>1 DEF TickFits
  <2> QED BY <2>2, <2>3
<1>5. TypeOK'
  <2>1. tick' \in [Ticks -> {"due", "active", "done", "failed"}]
    BY <1>1, <1>2
  <2> QED BY <1>1, <1>2, <1>3, <2>1 DEF TypeOK
<1>6. TrainingFits(a)'
  BY <1>1, <1>2, <1>3 DEF TrainingFits, InRequest, FirstStep
<1>7. AuthorFits(a)'
  BY <1>0, <1>1, <1>2, <1>3 DEF AuthorFits
<1>8. DocumentFits(a)'
  BY <1>1, <1>2 DEF DocumentFits, Registers, Try
<1>9. Traced(a)'
  BY <1>1, <1>2, <1>3 DEF Traced, InRequest, FirstStep, Evaluators, MayTrigger
<1> QED BY <1>1, <1>3, <1>4, <1>5, <1>6, <1>7, <1>8, <1>9, StepKeeps DEF Fits

\* No pod of a run that is due has started.
LEMMA StartTickKeeps ==
    ASSUME IInv, NEW k \in Ticks, StartTick(k)
    PROVE  IInv'
<1>0. <<k, 1>> \in Authors /\ <<k, 1>> \in Pods
  BY AuthorFacts
<1> PICK a \in Authors : a = <<k, 1>>
  BY <1>0
<1> DEFINE s == "evaluate"
<1>1. /\ tick[k] = "due" /\ at' = [at EXCEPT ![a] = s] /\ tick' = [tick EXCEPT ![k] = "active"]
      /\ UNCHANGED <<mode, registry, ask, verdict, training, tries, good, version, rows, deaths>>
  BY DEF StartTick, Goto
<1>2. /\ TypeOK /\ TrainingFits(a) /\ AuthorFits(a) /\ DocumentFits(a) /\ Traced(a)
      /\ at \in [Authors -> Busy \cup {"idle", "done", "dead"}]
      /\ tick \in [Ticks -> {"due", "active", "done", "failed"}]
      /\ \A j \in Ticks : TickFits(j)
      /\ a \in Pods
  BY <1>0, OwnFacts, TypeFacts DEF IInv
<1>3. /\ at' \in [Authors -> Busy \cup {"idle", "done", "dead"}] /\ at'[a] = s
      /\ \A b \in Authors \ {a} : at'[b] = at[b]
      /\ at[a] = "idle"
  BY <1>1, <1>2 DEF Busy, TickFits
<1>4. Apart(a)
  BY <1>1, <1>3 DEF Apart
<1>5. ASSUME NEW j \in Ticks PROVE TickFits(j)'
  <2>1. <<j, 1>> \in Authors /\ <<j, 2>> \in Authors /\ TickFits(j) /\ <<j, 2>> # a
    BY <1>2, AuthorFacts
  <2>2. at'[<<j, 2>>] = at[<<j, 2>>]
    BY <1>3, <2>1
  <2>3. CASE j = k
    <3>1. tick'[j] = "active" /\ at[<<j, 2>>] = "idle"
      BY <1>1, <1>2, <1>3, <2>1, <2>3 DEF TickFits
    <3> QED BY <2>2, <3>1 DEF TickFits
  <2>4. CASE j # k
    <3>1. tick'[j] = tick[j] /\ at'[<<j, 1>>] = at[<<j, 1>>]
      BY <1>1, <1>2, <1>3, <2>1, <2>4
    <3> QED BY <2>1, <2>2, <3>1 DEF TickFits
  <2> QED BY <2>3, <2>4
<1>6. TypeOK'
  <2>1. tick' \in [Ticks -> {"due", "active", "done", "failed"}]
    BY <1>1, <1>2
  <2> QED BY <1>1, <1>2, <1>3, <2>1 DEF TypeOK
<1>7. training[a] = "none"
  BY <1>2, <1>3 DEF TrainingFits
<1>8. TrainingFits(a)'
  BY <1>1, <1>2, <1>3, <1>7 DEF TrainingFits
<1>9. AuthorFits(a)'
  BY <1>1, <1>2, <1>3 DEF AuthorFits, Evaluators
<1>10. DocumentFits(a)' /\ Traced(a)'
  BY <1>1, <1>2, <1>7 DEF DocumentFits, Registers, Try, Traced
<1> QED BY <1>1, <1>4, <1>5, <1>6, <1>8, <1>9, <1>10, StepKeeps DEF Fits

\* A request that has not begun has left no trace.
LEMMA AskKeeps ==
    ASSUME IInv, NEW q \in Requests, Ask(q)
    PROVE  IInv'
<1> q \in Authors /\ q \notin Pods
  BY AuthorFacts
<1>1. /\ at[q] = "idle"
      /\ UNCHANGED <<mode, registry, tick, verdict, tries, good, version, rows, deaths>>
  BY DEF Ask
<1>2. PICK path \in Paths, flag \in BOOLEAN :
         /\ ask' = [ask EXCEPT ![q] = [path |-> path, flag |-> flag]]
         /\ Goto(q, FirstStep(path))
         /\ training' = [training EXCEPT ![q] = IF FirstStep(path) = "train" THEN "pending" ELSE @]
  BY DEF Ask
<1>3. /\ TypeOK /\ TrainingFits(q) /\ AuthorFits(q) /\ DocumentFits(q) /\ Traced(q)
      /\ at \in [Authors -> Busy \cup {"idle", "done", "dead"}]
      /\ ask \in [Requests -> [path : Paths, flag : BOOLEAN]]
      /\ mode \in Setting
  BY OwnFacts, TypeFacts, RetrainingLoopAssumption
<1> PICK s : s = FirstStep(path)
  OBVIOUS
<1>4. /\ s \in {"evaluate", "call", "train"}
      /\ s = "evaluate" <=> path = "evaluate"
      /\ s = "call" => path \in {"train", "remote"}
  BY <1>3 DEF FirstStep, Paths, Setting
<1>5. training[q] = "none" /\ tries[q] = 0
  BY <1>1, <1>3 DEF TrainingFits
<1> PICK p : p = IF s = "train" THEN "pending" ELSE "none"
  OBVIOUS
<1>6. /\ at' = [at EXCEPT ![q] = s] /\ training' = [training EXCEPT ![q] = p]
  BY <1>2, <1>5 DEF Goto
<1>7. /\ at' \in [Authors -> Busy \cup {"idle", "done", "dead"}] /\ at'[q] = s
      /\ \A b \in Authors \ {q} : at'[b] = at[b]
  BY <1>3, <1>4, <1>6 DEF Busy
<1>8. /\ training' \in [Authors -> {"none", "external", "pending", "running",
                                    "fitted", "completed", "succeeded", "failed"}]
      /\ training'[q] = p /\ \A b \in Authors \ {q} : training'[b] = training[b]
  BY <1>3, <1>6, TypeFacts
<1>9. /\ ask' \in [Requests -> [path : Paths, flag : BOOLEAN]]
      /\ ask'[q].path = path /\ \A b \in Requests \ {q} : ask'[b] = ask[b]
  BY <1>2, <1>3
<1>10. TypeOK'
  BY <1>1, <1>3, <1>7, <1>8, <1>9 DEF TypeOK
<1>11. Apart(q)
  BY <1>1, <1>7, <1>8, <1>9 DEF Apart
<1>12. \A k \in Ticks : TickFits(k)'
  <2>1. \A r \in Pods : at'[r] = at[r] \/ (at[r] \in Busy /\ at'[r] # "idle")
    BY <1>7, AuthorFacts
  <2> QED BY <1>1, <2>1, TicksFit
<1>13. /\ (q \in Evaluators)' <=> path = "evaluate"
       /\ InRequest(q)' <=> s = "train"
  BY <1>1, <1>9 DEF Evaluators, InRequest, FirstStep
<1>14. TrainingFits(q)'
  BY <1>1, <1>4, <1>5, <1>7, <1>8, <1>13 DEF TrainingFits, BackoffLimit
<1>15. AuthorFits(q)'
  BY <1>4, <1>7, <1>9, <1>13 DEF AuthorFits
<1>16. DocumentFits(q)'
  BY <1>1, <1>3, <1>5, <1>8 DEF DocumentFits
<1>17. Traced(q)'
  BY <1>8, <1>13 DEF Traced
<1> QED BY <1>1, <1>10, <1>11, <1>12, <1>14, <1>15, <1>16, <1>17, StepKeeps DEF Fits

-----------------------------------------------------------------------------
(***************************************************************************)
(* The theorems.                                                           *)
(***************************************************************************)
LEMMA Initially ==
    ASSUME Init
    PROVE  IInv
<1>1. /\ mode \in Settings /\ tick = [k \in Ticks |-> "due"]
      /\ at = [a \in Authors |-> "idle"]
      /\ ask = [q \in Requests |-> [path |-> "evaluate", flag |-> FALSE]]
      /\ verdict = [a \in Authors |-> "none"] /\ training = [a \in Authors |-> "none"]
      /\ tries = [a \in Authors |-> 0] /\ good = {}
      /\ version = [q \in Requests |-> None] /\ rows = {} /\ deaths = 0
  BY DEF Init
<1>2. /\ registry \in Document /\ registry.reports = {}
      /\ \A a \in Authors, n \in Tries : ~HasModel(registry, <<a, n>>)
  <2>1. CASE registry = DefaultRegistry
    BY <2>1, DefaultFacts, AuthorFacts
  <2>2. CASE registry = WithModel(DefaultRegistry, Legacy, "production")
    <3>1. Legacy \in Trainings /\ "production" \in Stages /\ DefaultRegistry \in Document
      BY DefaultFacts DEF Trainings, Stages
    <3>2. /\ registry \in Document /\ registry.reports = DefaultRegistry.reports
          /\ \A u \in Trainings : HasModel(registry, u) <=> u = Legacy \/ HasModel(DefaultRegistry, u)
      BY <2>2, <3>1, ModelFacts
    <3> QED BY <3>2, DefaultFacts, AuthorFacts
  <2> QED BY <2>1, <2>2 DEF Init
<1>3. TypeOK
  <2>1. /\ "idle" \in Busy \cup {"idle", "done", "dead"} /\ "none" \in Verdict
        /\ 0 \in 0..BackoffLimit + 1 /\ 0 \in 0..MaxDeaths
        /\ [path |-> "evaluate", flag |-> FALSE] \in [path : Paths, flag : BOOLEAN]
    BY RetrainingLoopAssumption DEF Verdict, BackoffLimit, Paths
  <2> QED BY <1>1, <1>2, <2>1 DEF TypeOK
<1>4. ASSUME NEW a \in Authors PROVE Fits(a)
  <2>1. at[a] = "idle" /\ training[a] = "none" /\ tries[a] = 0
    BY <1>1
  <2> QED BY <1>2, <2>1 DEF Fits, TrainingFits, AuthorFits, DocumentFits, Traced
<1>5. ASSUME NEW k \in Ticks PROVE TickFits(k)
  <2>1. <<k, 1>> \in Authors /\ <<k, 2>> \in Authors
    BY AuthorFacts
  <2> QED BY <1>1, <2>1 DEF TickFits
<1> QED BY <1>3, <1>4, <1>5 DEF IInv, Fits

LEMMA NextKeeps ==
    ASSUME IInv, Next
    PROVE  IInv'
<1>1. CASE \E k \in Ticks : StartTick(k)
  BY <1>1, StartTickKeeps
<1>2. CASE \E q \in Requests : Ask(q)
  BY <1>2, AskKeeps
<1>3. CASE Proceeds
  <2>1. CASE \E a \in Authors : Evaluation(a)
    BY <2>1, EvaluateKeeps, FileKeeps, DiesKeeps DEF Evaluation
  <2>2. CASE \E a \in Authors : Call(a)
    BY <2>2, CallKeeps, LaunchUnheardKeeps DEF Call
  <2>3. CASE \E a \in Authors : Train(a)
    BY <2>3, StartRunKeeps, FitKeeps, FailureKeeps, CompleteRunKeeps, ContainerExitsKeeps DEF Train
  <2>4. CASE \E q \in Requests : Record(q)
    BY <2>4, RecordKeeps
  <2>5. CASE \E k \in Ticks, n \in 1..BackoffLimit + 1 : Exit(k, n)
    BY <2>5, ExitKeeps DEF Tries
  <2> QED BY <1>3, <2>1, <2>2, <2>3, <2>4, <2>5 DEF Proceeds
<1>4. CASE \E a \in Authors : Dies(a) \/ TrainingFails(a)
  BY <1>4, DiesKeeps, FailureKeeps
<1> QED BY <1>1, <1>2, <1>3, <1>4 DEF Next

LEMMA Stutter ==
    ASSUME IInv, UNCHANGED vars
    PROVE  IInv'
<1>1. TypeOK'
  BY DEF vars, IInv, TypeOK
<1>2. ASSUME NEW a \in Authors PROVE Fits(a)'
  <2>1. TrainingFits(a) /\ AuthorFits(a) /\ DocumentFits(a) /\ Traced(a)
    BY DEF IInv
  <2>2. UNCHANGED <<mode, registry, at, ask, verdict, training, tries, rows>>
    BY DEF vars
  <2>3. /\ InRequest(a)' <=> InRequest(a)
        /\ (a \in Evaluators)' <=> a \in Evaluators
        /\ MayTrigger(a)' <=> MayTrigger(a)
        /\ Registers(a)' <=> Registers(a)
        /\ Try(a)' = Try(a)
    BY <2>2 DEF InRequest, FirstStep, Evaluators, MayTrigger, Registers, Try
  <2>4. TrainingFits(a)' /\ AuthorFits(a)'
    BY <2>1, <2>2, <2>3 DEF TrainingFits, AuthorFits
  <2>5. DocumentFits(a)' /\ Traced(a)'
    BY <2>1, <2>2, <2>3 DEF DocumentFits, Traced
  <2> QED BY <2>4, <2>5 DEF Fits
<1>3. \A k \in Ticks : TickFits(k)'
  BY DEF vars, IInv, TickFits
<1> QED BY <1>1, <1>2, <1>3 DEF IInv, Fits

LEMMA InductiveInvariant == Spec => []IInv
<1>1. Init => IInv
  BY Initially
<1>2. IInv /\ [Next]_vars => IInv'
  BY NextKeeps, Stutter
<1> QED BY <1>1, <1>2, PTL DEF Spec

(***************************************************************************)
(* Every variable keeps its type, whoever dies.                            *)
(***************************************************************************)
THEOREM TypeCorrect == Spec => []TypeOK
<1>1. IInv => TypeOK
  BY DEF IInv
<1> QED BY <1>1, InductiveInvariant, PTL

(***************************************************************************)
(* A training that was handed over can be traced to a drift report, to a   *)
(* row of training_runs or to an author that died, except those of         *)
(* /models/train/remote.                                                   *)
(***************************************************************************)
THEOREM Traceable == Spec => []TrainingsAreTraceable
<1>1. IInv => TrainingsAreTraceable
  BY DEF IInv, TrainingsAreTraceable, Traced, InRequest
<1> QED BY <1>1, InductiveInvariant, PTL

(***************************************************************************)
(* A scheduled run that counts as done has stored the report of its last   *)
(* pod; the other pod has died if it left anything.                        *)
(***************************************************************************)
THEOREM DoneReported == Spec => []DoneRunIsReported
<1>1. ASSUME IInv, NEW k \in Ticks, tick[k] = "done"
      PROVE  \E n \in 1..BackoffLimit + 1 :
                /\ <<k, n>> \in registry.reports
                /\ \A m \in (1..BackoffLimit + 1) \ {n} :
                      <<k, m>> \in registry.reports \/ training[<<k, m>>] # "none"
                          => at[<<k, m>>] = "dead"
  <2>1. TickFits(k) /\ <<k, 1>> \in Pods /\ <<k, 2>> \in Pods /\ <<k, 1>> \in Authors /\ <<k, 2>> \in Authors
    BY <1>1, AuthorFacts DEF IInv
  <2>2. /\ AuthorFits(<<k, 1>>) /\ AuthorFits(<<k, 2>>)
        /\ TrainingFits(<<k, 2>>)
    BY <1>1, <2>1, OwnFacts
  <2>3. 1..BackoffLimit + 1 = {1, 2}
    BY DEF BackoffLimit
  <2>4. CASE at[<<k, 1>>] = "done"
    <3>1. <<k, 1>> \in registry.reports
      BY <2>1, <2>2, <2>4 DEF AuthorFits
    <3>2. at[<<k, 2>>] = "idle"
      BY <2>1, <2>4 DEF TickFits
    <3>3. <<k, 2>> \notin registry.reports /\ training[<<k, 2>>] = "none"
      BY <2>1, <2>2, <3>2 DEF AuthorFits, TrainingFits
    <3> QED BY <2>3, <3>1, <3>3
  <2>5. CASE at[<<k, 2>>] = "done"
    <3>1. <<k, 2>> \in registry.reports
      BY <2>1, <2>2, <2>5 DEF AuthorFits
    <3>2. at[<<k, 1>>] = "dead"
      BY <2>1, <2>5 DEF TickFits
    <3> QED BY <2>3, <3>1, <3>2
  <2> QED BY <1>1, <2>1, <2>4, <2>5 DEF TickFits
<1>2. IInv => DoneRunIsReported
  BY <1>1 DEF DoneRunIsReported
<1> QED BY <1>2, InductiveInvariant, PTL

(***************************************************************************)
(* A training that counts as succeeded has left a completed run, and a     *)
(* model exactly if its request wanted one.                                *)
(***************************************************************************)
THEOREM SuccessKept == Spec => []SuccessLeavesModel
<1>1. ASSUME IInv, NEW a \in Authors, training[a] = "succeeded"
      PROVE  /\ registry.run[Try(a)] = "completed"
             /\ IF a \in Requests /\ ask[a].path \in {"train", "promote"} /\ ~ask[a].flag
                THEN \A n \in 1..BackoffLimit + 1 : ~HasModel(registry, <<a, n>>)
                ELSE HasModel(registry, Try(a))
  <2>1. DocumentFits(a)
    BY <1>1, OwnFacts
  <2>2. Registers(a) <=> ~(a \in Requests /\ ask[a].path \in {"train", "promote"} /\ ~ask[a].flag)
    BY DEF Registers
  <2> QED BY <1>1, <2>1, <2>2 DEF DocumentFits, Tries
<1>2. IInv => SuccessLeavesModel
  BY <1>1 DEF SuccessLeavesModel
<1> QED BY <1>2, InductiveInvariant, PTL
=============================================================================
