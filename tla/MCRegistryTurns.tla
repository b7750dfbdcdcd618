--------------------------- MODULE MCRegistryTurns ---------------------------
(***************************************************************************)
(* Two instances of ModelRegistry, checked in one run.  The variable       *)
(* setting says which one a behavior is about; it is chosen at the start   *)
(* and never changes.                                                      *)
(*                                                                         *)
(*   "turns"    A request starts when no other one is under way.  Any      *)
(*              client, any number of trainings and promotions; clients    *)
(*              crash at any step and the faults of Faults occur.          *)
(*   "overlap"  Requests start at any time, for one training; nobody       *)
(*              crashes and the alias always moves.                        *)
(***************************************************************************)
EXTENDS ModelRegistry

CONSTANT First   \* the training of the setting "overlap"

ASSUME FirstIsTraining == First \in Trainings

VARIABLES
    setting,
    astray     \* history: the last operation that was to move the alias ended
               \* without both the alias and the document in place

turnsVars == <<vars, setting, astray>>

TurnsInit ==
    /\ Init
    /\ setting \in {"turns", "overlap"}
    /\ astray = FALSE

\* Client c leaves an operation that has called set_production_alias, by its
\* save, by a failing upload or by a crash.
LeavesAlias(c) ==
    /\ step[c] \in {"save", "write"}
    /\ step'[c] = "load"
    /\ MovesAlias(c)

\* What a step of client c may be in the setting of the behavior.
Allowed(c) ==
    /\ setting = "turns" /\ task[c] = "idle" => \A d \in Clients : task[d] = "idle"
    /\ setting = "overlap" =>
          /\ step[c] = "sync" => alias' = job[c]
          /\ started' \cup endorsed' \subseteq {First}
    /\ astray' = IF LeavesAlias(c) THEN alias # job[c] \/ store' # copy[c] ELSE astray
    /\ UNCHANGED setting

TurnsNext == \E c \in Clients :
    \/ Load(c) /\ Allowed(c)
    \/ LoadRaises(c) /\ Allowed(c)
    \/ SyncAlias(c) /\ Allowed(c)
    \/ Save(c) /\ Allowed(c)
    \/ (\E good \in BOOLEAN : Fit(c, good)) /\ Allowed(c)
    \/ FitRaises(c) /\ Allowed(c)
    \/ Request(c) /\ Allowed(c)
    \/ Crash(c) /\ setting = "turns" /\ Allowed(c)

TurnsFairness == \A c \in Clients : WF_turnsVars(Progress(c) /\ Allowed(c))

TurnsSpec == TurnsInit /\ [][TurnsNext]_turnsVars /\ TurnsFairness

-----------------------------------------------------------------------------
\* What registry.json holds: a document, or a text that is empty or torn.
Content == IF file = "whole" THEN {store} ELSE {}

\* What the clients that have emptied the file will write.
Saving == {copy[c] : c \in {d \in Clients : step[d] = "write"}}

Contract == INSTANCE RegistryContract WITH content <- Content, saving <- Saving

\* As long as clients take turns registry.json implements its contract, whatever
\* crashes: every text that can be read is the one before it with one whole
\* operation added.  No half operation, no older document and no empty registry
\* is ever found in it.  A crash between truncation and write leaves no text and
\* loses every model; then nothing is found in it ever again.
ImplementsContract ==
    Contract!Init /\ [][setting = "turns" => Contract!Next]_(Contract!vars)

\* What a run says about its model is true as long as clients take turns.
RunsAreTrue == setting = "turns" => RunsTellTheTruth

\* When no operation is under way the alias in MLflow names the production
\* model of the registry ("esa promocion tambien mueve el alias", docs/06), as
\* long as clients take turns: over any sequence of champions the alias goes
\* astray only by a failing alias call, or by a crash or a failing upload after
\* it, and the next promotion that comes to its end brings it back.
AliasAgrees ==
    setting = "turns" /\ file = "whole" /\ ~astray =>
       ((\A c \in Clients : task[c] = "idle") => alias = store.production)

\* Of clients that do not meet, each training ends with a settled run.
TrainingsSettle == (setting = "overlap") => RunsSettle
=============================================================================
