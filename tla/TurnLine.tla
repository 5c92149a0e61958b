------------------------------ MODULE TurnLine ------------------------------
(***************************************************************************)
(* What a session promises to whoever submits turns to it, with no         *)
(* goroutines, contexts or counters: one turn at a time is live, the       *)
(* others stand in line, and whenever the live turn ends the first of the  *)
(* line takes its place in the same step, so that nobody waits behind an   *)
(* idle session.  SessionManager implements this specification.            *)
(***************************************************************************)
EXTENDS Sequences, SequencesExt

CONSTANTS Sessions, UserTurns, BatchTurns, NoTurn

VARIABLES
  live,   \* live[s]: the turn that owns session s, or NoTurn
  line,   \* line[s]: the turns waiting for session s, oldest first
  spent   \* the turns that were accepted and have left live and line

vars == <<live, line, spent>>

Turns == UserTurns \cup BatchTurns

InUse == spent \cup {live[s] : s \in Sessions} \cup UNION {ToSet(line[s]) : s \in Sessions}

Init ==
  /\ live = [s \in Sessions |-> NoTurn]
  /\ line = [s \in Sessions |-> <<>>]
  /\ spent = {}

\* An idle session takes the turn at once.
Begin(s, t) ==
  /\ t \notin InUse
  /\ live[s] = NoTurn
  /\ live' = [live EXCEPT ![s] = t]
  /\ UNCHANGED <<line, spent>>

\* A busy session lets the turn stand in line.
Join(s, t) ==
  /\ t \notin InUse
  /\ live[s] # NoTurn
  /\ ~ (live[s] \in BatchTurns /\ t \in UserTurns)
  /\ ~ (t \in BatchTurns /\ ToSet(line[s]) \cap BatchTurns # {})
  /\ line' = [line EXCEPT ![s] = Append(@, t)]
  /\ UNCHANGED <<live, spent>>

\* A report batch is merged into the one that already waits.
Merge(s, t) ==
  /\ t \in BatchTurns \ InUse
  /\ ToSet(line[s]) \cap BatchTurns # {}
  /\ spent' = spent \cup {t}
  /\ UNCHANGED <<live, line>>

\* A user message takes the session over from a report batch.
TakeOver(s, t) ==
  /\ t \in UserTurns \ InUse
  /\ live[s] \in BatchTurns
  /\ spent' = spent \cup {live[s]}
  /\ live' = [live EXCEPT ![s] = t]
  /\ UNCHANGED line

\* A waiting turn is withdrawn.
Withdraw(s, i) ==
  /\ i \in DOMAIN line[s]
  /\ spent' = spent \cup {line[s][i]}
  /\ line' = [line EXCEPT ![s] = RemoveAt(@, i)]
  /\ UNCHANGED live

\* The live turn ends, finished or cancelled, and the first in line goes live.
PassOn(s) ==
  /\ live[s] # NoTurn
  /\ spent' = spent \cup {live[s]}
  /\ IF line[s] = <<>>
     THEN live' = [live EXCEPT ![s] = NoTurn] /\ UNCHANGED line
     ELSE /\ live' = [live EXCEPT ![s] = Head(line[s])]
          /\ line' = [line EXCEPT ![s] = Tail(@)]

Next == \E s \in Sessions :
  \/ \E t \in Turns : Begin(s, t) \/ Join(s, t) \/ Merge(s, t) \/ TakeOver(s, t)
  \/ \E i \in DOMAIN line[s] : Withdraw(s, i)
  \/ PassOn(s)

\* A turn that owns a session ends some day: PassOn is the only step owed.
Spec == Init /\ [][Next]_vars /\ \A s \in Sessions : WF_vars(PassOn(s))
=============================================================================
