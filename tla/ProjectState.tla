----------------------------- MODULE ProjectState -----------------------------
(***************************************************************************)
(* internal/v2/agent/project_state_update.go: after every completed turn of*)
(* a session without a role, a goroutine may ask the model to work the turn*)
(* into the workspace's one summary.  The goroutines take turns on a mutex,*)
(* in any order; a client may replace the summary at any time (PUT         *)
(* /v2/project_state) and switch the updates off (PUT                      *)
(* /v2/settings/project_state_auto).                                       *)
(*                                                                         *)
(* A summary is the set of turns that were worked into it and the turn that*)
(* it names as its source.  What the model makes of a transcript is not    *)
(* modelled.                                                               *)
(***************************************************************************)
EXTENDS Naturals, FiniteSets, Functions

CONSTANTS
  LastTurn,      \* turns of the session, numbered in the order they complete
  TurnSizes,     \* tokens of a turn
  EarlierTokens,       \* tokens of the history before turn 1
  SummaryTroubles \* bound on failed calls, restarts and client edits

ASSUME SummaryParameters == LastTurn \in Nat /\ SummaryTroubles \in Nat /\ EarlierTokens \in Nat

VARIABLES
  size,          \* tokens of the turns that have completed
  summary,       \* the row: the turns in it and its source; Blank if there is none
  update,        \* where the goroutine of a turn is, and the summary it has read
  mutex,         \* projectStateMu: the turn whose goroutine holds it, or 0
  auto,          \* projectStateAuto: the agent's flag and the stored setting
  summaryTroubles

summaryVars == <<size, summary, update, mutex, auto, summaryTroubles>>

SummaryTurns == 1 .. LastTurn
Blank == [turns |-> {}, source |-> 0, text |-> FALSE]
NoUpdate == [at |-> "none", read |-> Blank]

SummaryTrouble == summaryTroubles < SummaryTroubles /\ summaryTroubles' = summaryTroubles + 1

SummaryInit ==
  /\ size = [t \in {} |-> 0]
  /\ summary = Blank
  /\ update = [t \in SummaryTurns |-> NoUpdate]
  /\ mutex = 0
  /\ auto = [flag |-> TRUE, setting |-> TRUE]
  /\ summaryTroubles = 0

-----------------------------------------------------------------------------

SizeOf(turns) == FoldFunctionOnSet(LAMBDA x, y : x + y, 0, size, turns)

\* projectStateDeltaTokensSinceTurn
DeltaSince(t, source) ==
  IF source \in DOMAIN size THEN SizeOf({u \in 1 .. t : u > source}) ELSE EarlierTokens + SizeOf(1 .. t)

\* shouldUpdateProjectState, with the thresholds of context_budget.go
ShouldUpdate(t, current) ==
  \/ ~ current.text
  \/ size[t] >= 1200
  \/ EarlierTokens + SizeOf(1 .. t) >= 10000 /\ DeltaSince(t, current.source) >= 5000

\* A main turn completes; scheduleProjectStateUpdate starts its goroutine.
TurnCompletes ==
  LET t == 1 + Cardinality(DOMAIN size) IN
    /\ t \in SummaryTurns
    /\ \E n \in TurnSizes : size' = [u \in 1 .. t |-> IF u = t THEN n ELSE size[u]]
    /\ update' = IF auto.flag THEN [update EXCEPT ![t].at = "lock"] ELSE update
    /\ UNCHANGED <<summary, mutex, auto, summaryTroubles>>

Lock(t) ==
  /\ update[t].at = "lock"
  /\ mutex = 0
  /\ mutex' = t
  /\ update' = [update EXCEPT ![t].at = "read"]
  /\ UNCHANGED <<size, summary, auto, summaryTroubles>>

Unlock(t) == mutex' = 0 /\ update' = [update EXCEPT ![t] = NoUpdate]

\* Mutant: the lock only protects the read.
ReadAndUnlock(t) ==
  /\ update[t].at = "read"
  /\ mutex' = 0
  /\ update' = [update EXCEPT ![t] = IF ShouldUpdate(t, summary) THEN [at |-> "model", read |-> summary]
                                     ELSE NoUpdate]
  /\ UNCHANGED <<size, summary, auto, summaryTroubles>>

\* Get and shouldUpdateProjectState: the transcript goes to the model.
ReadSummary(t) ==
  /\ update[t].at = "read"
  /\ IF ShouldUpdate(t, summary)
     THEN update' = [update EXCEPT ![t] = [at |-> "model", read |-> summary]] /\ UNCHANGED mutex
     ELSE Unlock(t)
  /\ UNCHANGED <<size, summary, auto, summaryTroubles>>

\* writeProjectStateUpdate: what the model returned replaces the row.
WriteSummary(t) ==
  /\ update[t].at = "model"
  /\ summary' = [turns |-> update[t].read.turns \cup {t}, source |-> t, text |-> TRUE]
  /\ Unlock(t)
  /\ UNCHANGED <<size, auto, summaryTroubles>>

\* The store or the model fails, the model says nothing, or 45 seconds are over,
\* those spent on waiting for the mutex included.
UpdateFails(t) ==
  /\ update[t].at \in {"read", "model"}
  /\ SummaryTrouble
  /\ Unlock(t)
  /\ UNCHANGED <<size, summary, auto>>

\* handlePutProjectState: any text, the empty one too, with any source or none.
PutProjectState ==
  /\ SummaryTrouble
  /\ \E s \in DOMAIN size \cup {0}, text \in BOOLEAN : summary' = [turns |-> {}, source |-> s, text |-> text]
  /\ UNCHANGED <<size, update, mutex, auto>>

\* handlePutSetting stores the setting, ...
PutSetting ==
  /\ SummaryTrouble
  /\ \E on \in BOOLEAN : on # auto.setting /\ auto' = [auto EXCEPT !.setting = on]
  /\ UNCHANGED <<size, summary, update, mutex>>

\* ... then tells the agent.
SetAutoUpdate ==
  /\ auto.flag # auto.setting
  /\ auto' = [auto EXCEPT !.flag = auto.setting]
  /\ UNCHANGED <<size, summary, update, mutex, summaryTroubles>>

\* The daemon dies: its goroutines are gone, the flag is read from the store.
SummaryRestart ==
  /\ SummaryTrouble
  /\ update' = [t \in SummaryTurns |-> NoUpdate]
  /\ mutex' = 0
  /\ auto' = [auto EXCEPT !.flag = auto.setting]
  /\ UNCHANGED <<size, summary>>

SummaryNext ==
  \/ TurnCompletes
  \/ \E t \in SummaryTurns : Lock(t) \/ ReadSummary(t) \/ WriteSummary(t) \/ UpdateFails(t)
  \/ PutProjectState \/ PutSetting \/ SetAutoUpdate \/ SummaryRestart

SummarySpec == SummaryInit /\ [][SummaryNext]_summaryVars

-----------------------------------------------------------------------------

\* What one update has worked into the summary is still there after the next one,
\* in whatever order the goroutines of several turns run: only a client takes it
\* out.  Each update rewrites the whole row from the copy it has read
\* (project_state_update.go:33), so this is what the mutex is for.
SummaryNeverForgets ==
  [][ summaryTroubles' = summaryTroubles => summary.turns \subseteq summary'.turns ]_summaryVars

=============================================================================
