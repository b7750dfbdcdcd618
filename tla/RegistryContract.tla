-------------------------- MODULE RegistryContract --------------------------
(***************************************************************************)
(* What the registry promises to its users about the text of registry.json *)
(* itself: it changes by one whole operation at a time.  A run is          *)
(* registered once, settles once and says the truth about its model; a     *)
(* model is registered once, by a run that is under way, and then stays;   *)
(* the production pointer moves only by a promotion or by the registration *)
(* of a model that enters in production.                                   *)
(*                                                                         *)
(* A save puts the new document in place of the old one at once, or it     *)
(* empties the text first and writes the document then.  A save that is    *)
(* broken off in between leaves no text, and for good: the contract has no *)
(* step that makes a document out of nothing.                              *)
(***************************************************************************)
EXTENDS RegistryDocument

VARIABLES
    content,   \* {the document in the text}; {} while the text holds none
    saving     \* {the document that will follow on the emptied text}, or {}

vars == <<content, saving>>

Init == content = {DefaultRegistry} /\ saving = {}

-----------------------------------------------------------------------------
\* The documents that one operation may make of doc.
RunRegistered(doc) == {WithRun(doc, t) : t \in {u \in Trainings : ~HasRun(doc, u)}}

\* The runs that have not settled yet.
UnderWay(doc) == {t \in Trainings : doc.run[t] = "running"}

ModelRegistered(doc) ==
    {WithModel(doc, t, stage) : t \in {u \in UnderWay(doc) : ~HasModel(doc, u)},
                                stage \in {"candidate", "production"}}

RunCompleted(doc) == {WithRunStatus(doc, t, "completed") : t \in UnderWay(doc)}

RunFailed(doc) ==
    {WithRunStatus(doc, t, "failed") : t \in {u \in UnderWay(doc) : ~HasModel(doc, u)}}

Promoted(doc) == {WithPromotion(doc, t) : t \in Models(doc)}

ReportFiled(doc) == {WithReport(doc, r) : r \in Reports \ doc.reports}

Outcomes(doc) ==
    RunRegistered(doc) \cup ModelRegistered(doc) \cup RunCompleted(doc)
       \cup RunFailed(doc) \cup Promoted(doc) \cup ReportFiled(doc)

-----------------------------------------------------------------------------
Replace ==
    /\ \E doc \in content : \E new \in Outcomes(doc) : content' = {new}
    /\ UNCHANGED saving

Empty ==
    /\ saving = {}
    /\ \E doc \in content : \E new \in Outcomes(doc) : saving' = {new}
    /\ content' = {}

Write ==
    /\ saving # {}
    /\ content' = saving
    /\ saving' = {}

BreakOff ==
    /\ saving # {}
    /\ saving' = {}
    /\ UNCHANGED content

Next == Replace \/ Empty \/ Write \/ BreakOff

Spec == Init /\ [][Next]_vars
=============================================================================
