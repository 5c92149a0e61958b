-------------------------- MODULE TaskManagerProofs --------------------------
(***************************************************************************)
(* For any number of tasks, store errors and restarts: a row that says     *)
(* running has a goroutine, memory and row agree, sleepers are woken, a    *)
(* stored end is final and a stored answer kept, and a report says what    *)
(* the row says.                                                           *)
(***************************************************************************)
EXTENDS TaskManager, TLAPS, SequenceTheorems

TaskTypes ==
  /\ row \in [Tasks -> Value \cup {None}]
  /\ mem \in [Tasks -> Value \cup {None}]
  /\ copy \in [Tasks -> Value \cup {None}]
  /\ running \subseteq Tasks
  /\ unsaved \subseteq Tasks
  /\ waiter \in [Tasks -> {"none", "open", "closed"}]
  /\ settling \in [task : Tasks, value : Value, retry : BOOLEAN] \cup {None}
  /\ run \in [Tasks -> Alive \cup {"none"}]
  /\ caller \in [Tasks -> CallerAt]

\* The row and the two copies of a task whose goroutine is alive all say running,
\* and nobody else is ending it.
LiveIsRunning(t) ==
  run[t] \in Alive =>
    /\ t \in running /\ ~ Settling(t)
    /\ row[t] # None /\ row[t].state = "running"
    /\ mem[t] # None /\ mem[t].state = "running"
    /\ copy[t] # None /\ copy[t].state = "running"

\* Nothing else is in m.running, and no other row says so.
RunningIsLive(t) ==
  /\ t \in running => run[t] \in Alive \/ Settling(t)
  /\ row[t] # None /\ row[t].state = "running" => run[t] \in Alive \/ t \in unsaved

\* Between the two store writes, the row has ended and memory has not.
SettlingIsHalfWay(t) ==
  Settling(t) =>
    /\ IsTerminal(settling.value)
    /\ mem[t] # None /\ ~ IsTerminal(mem[t])
    /\ row[t] # None
    /\ t \in unsaved \/ row[t] = settling.value

\* At any other time memory, if it knows the task, says what the row says; the
\* end of a task that could not be stored is in memory, and after a restart the
\* row has one.
MemoryAgrees(t) ==
  /\ mem[t] # None => row[t] # None
  /\ mem[t] # None /\ ~ Settling(t) =>
       IF t \in unsaved THEN IsTerminal(mem[t]) ELSE mem[t].state = row[t].state
  /\ t \in unsaved => row[t] # None /\ (row[t].state = "running" \/ IsTerminal(row[t]))
  /\ t \in unsaved /\ mem[t] = None => IsTerminal(row[t])

\* A waiter channel is closed when the copy in memory ends.
WaiterFits(t) ==
  /\ waiter[t] = "open" => mem[t] # None /\ ~ IsTerminal(mem[t])
  /\ waiter[t] = "closed" => mem[t] # None /\ IsTerminal(mem[t])

\* A task does not exist before its creation, and does not run before its start.
CallerFits(t) ==
  /\ caller[t] = "idle" => row[t] = None /\ mem[t] = None /\ run[t] = "none" /\ t \notin unsaved
  /\ caller[t] \in {"created", "fail"} => mem[t] # None /\ run[t] = "none" /\ t \notin running

TaskFits(t) ==
  /\ LiveIsRunning(t) /\ RunningIsLive(t) /\ SettlingIsHalfWay(t)
  /\ MemoryAgrees(t) /\ WaiterFits(t) /\ CallerFits(t)

TaskInv == TaskTypes /\ \A t \in Tasks : TaskFits(t)

-----------------------------------------------------------------------------

\* No row, no copy, no goroutine.
LEMMA TaskInitially == Init => TaskInv
  BY NoneIsNothing DEF Init, TaskInv, TaskTypes, TaskFits, LiveIsRunning, RunningIsLive,
     SettlingIsHalfWay, MemoryAgrees, WaiterFits, CallerFits, Settling, Alive, CallerAt, Terminal

\* What the operations do to a task's value.
LEMMA Updates ==
  ASSUME NEW v \in Value
  PROVE  /\ v # None
         /\ \A s \in State :
              /\ [v EXCEPT !.state = s] \in Value
              /\ [v EXCEPT !.state = s].state = s
              /\ [v EXCEPT !.state = s, !.text = "default"] \in Value
              /\ [v EXCEPT !.state = s, !.text = "default"].state = s
              /\ Ended(v, s) \in Value /\ Ended(v, s).state = s
         /\ [v EXCEPT !.linked = TRUE] \in Value
         /\ [v EXCEPT !.linked = TRUE].state = v.state
         /\ \A x \in {"empty", "answer"} :
              /\ [v EXCEPT !.linked = TRUE, !.text = x] \in Value
              /\ [v EXCEPT !.linked = TRUE, !.text = x].state = v.state
  BY NoneIsNothing DEF Value, Ended, State

\* How it ends.
LEMMA Endings ==
  ASSUME NEW v \in Value, NEW s \in Terminal
  PROVE  /\ [v EXCEPT !.state = s, !.text = "default"] \in Value
         /\ [v EXCEPT !.state = s, !.text = "default"] # None
         /\ [v EXCEPT !.state = s, !.text = "default"].state = s
         /\ Ended(v, s) \in Value /\ Ended(v, s) # None /\ Ended(v, s).state = s
  <1>1. s \in State
    BY DEF State
  <1>2. /\ [v EXCEPT !.state = s, !.text = "default"] \in Value
        /\ [v EXCEPT !.state = s, !.text = "default"].state = s
        /\ Ended(v, s) \in Value /\ Ended(v, s).state = s
    BY <1>1, Updates
  <1> QED
    BY <1>2, NoneIsNothing

LEMMA EndsAreTerminal == "failed" \in Terminal /\ "cancelled" \in Terminal
  BY DEF Terminal

\* What holds the lock between two writes.
LEMMA Operations ==
  ASSUME NEW t \in Tasks, NEW v \in Value, NEW b \in BOOLEAN
  PROVE  LET o == [task |-> t, value |-> v, retry |-> b]
         IN  /\ o \in [task : Tasks, value : Value, retry : BOOLEAN]
             /\ o # None /\ o.task = t /\ o.value = v
  BY NoneIsNothing

\* The first store write of Fail and Cancel, spelled out.
LEMMA EndWithMeans ==
  ASSUME NEW t \in Tasks, NEW v \in Value, EndWith(t, v)
  PROVE  /\ row' = [row EXCEPT ![t] = v]
         /\ settling' # None /\ settling' \in [task : Tasks, value : Value, retry : BOOLEAN]
         /\ settling'.task = t /\ settling'.value = v
  <1>1. settling' = [task |-> t, value |-> v, retry |-> FALSE]
    BY DEF EndWith
  <1>2. settling' \in [task : Tasks, value : Value, retry : BOOLEAN]
    BY <1>1
  <1>3. settling' # None
    BY <1>2, NoneIsNothing
  <1>4. settling'.task = t /\ settling'.value = v
    BY <1>1
  <1>5. row' = [row EXCEPT ![t] = v]
    BY DEF EndWith
  <1> QED
    BY <1>2, <1>3, <1>4, <1>5

\* What a step does to one task leaves the others as they are.
LEMMA OthersFit ==
  ASSUME NEW u \in Tasks, TaskFits(u),
         row'[u] = row[u], mem'[u] = mem[u], copy'[u] = copy[u], run'[u] = run[u],
         waiter'[u] = waiter[u], caller'[u] = caller[u],
         u \in running' <=> u \in running, u \in unsaved' <=> u \in unsaved,
         Settling(u)' <=> Settling(u), Settling(u) => settling'.value = settling.value
  PROVE  TaskFits(u)'
  BY DEF TaskFits, LiveIsRunning, RunningIsLive, SettlingIsHalfWay, MemoryAgrees, WaiterFits,
         CallerFits, IsTerminal

\* The new task is pending in both places.
LEMMA CreateKeeps ==
  ASSUME TaskInv, NEW t \in Tasks, NEW k \in Kind, NEW c \in Caller, Create(t, k, c) PROVE TaskInv'
  <1>0. PICK v \in Value :
           /\ v.state = "pending" /\ settling = None /\ caller[t] = "idle"
           /\ row' = [row EXCEPT ![t] = v] /\ mem' = [mem EXCEPT ![t] = v]
           /\ waiter' = [waiter EXCEPT ![t] = "open"] /\ caller' = [caller EXCEPT ![t] = "created"]
           /\ UNCHANGED <<running, settling, run, copy, unsaved>>
    BY Updates DEF Create, Fresh, Unlocked, goroutine, history, Value, State
  <1>1. TaskTypes'
    BY <1>0, NoneIsNothing DEF TaskInv, TaskTypes, Alive, Terminal, CallerAt
  <1>2. ASSUME NEW u \in Tasks, u # t PROVE TaskFits(u)'
    BY <1>0, <1>2, OthersFit DEF TaskInv, TaskTypes, Settling
  <1>3. TaskFits(t)'
    BY <1>0, <1>1, NoneIsNothing DEF TaskInv, TaskTypes, TaskFits, LiveIsRunning, RunningIsLive,
       SettlingIsHalfWay, MemoryAgrees, WaiterFits, CallerFits, Settling, IsTerminal, State, Terminal,
       Alive
  <1> QED
    BY <1>1, <1>2, <1>3 DEF TaskInv

\* The task is running in both places, and in the goroutine's copy.
LEMMA StartKeeps ==
  ASSUME TaskInv, NEW t \in Tasks, Start(t) PROVE TaskInv'
  <1> DEFINE v == [mem[t] EXCEPT !.state = "running"]
  <1>1. /\ mem[t] \in Value /\ settling = None /\ caller[t] = "created"
        /\ mem[t].state = "pending"
    BY DEF Start, Unlocked, TaskInv, TaskTypes, TaskFits, CallerFits
  <1>2. v \in Value /\ v # None /\ v.state = "running"
    BY <1>1, Updates DEF State
  <1>3. /\ row' = [row EXCEPT ![t] = v] /\ mem' = [mem EXCEPT ![t] = v]
        /\ copy' = [copy EXCEPT ![t] = v] /\ run' = [run EXCEPT ![t] = "spawned"]
        /\ running' = running \cup {t}
        /\ \E next \in {"wait", "done"} : caller' = [caller EXCEPT ![t] = next]
        /\ UNCHANGED <<waiter, settling, unsaved>>
    BY <1>1 DEF Start, history
  <1> HIDE DEF v
  <1>4. TaskTypes'
    BY <1>2, <1>3 DEF TaskInv, TaskTypes, Alive, Terminal, CallerAt
  <1>5. ASSUME NEW u \in Tasks, u # t PROVE TaskFits(u)'
    BY <1>1, <1>3, <1>5, OthersFit DEF TaskInv, TaskTypes, Settling
  <1>6. TaskFits(t)'
    BY <1>1, <1>2, <1>3, NoneIsNothing DEF TaskInv, TaskTypes, TaskFits, LiveIsRunning, RunningIsLive,
       SettlingIsHalfWay, MemoryAgrees, WaiterFits, CallerFits, Settling, IsTerminal, State, Terminal,
       Alive
  <1> QED
    BY <1>4, <1>5, <1>6 DEF TaskInv

\* The runner's first write stores a copy that says running.
LEMMA RunnerStartsKeeps ==
  ASSUME TaskInv, NEW t \in Tasks, RunnerStarts(t) PROVE TaskInv'
  <1> DEFINE v == [copy[t] EXCEPT !.linked = TRUE]
  <1>1. copy[t] \in Value /\ copy[t].state = "running" /\ run[t] = "spawned"
    BY DEF RunnerStarts, TaskInv, TaskTypes, TaskFits, LiveIsRunning, Alive
  <1>2. v \in Value /\ v # None /\ v.state = "running"
    BY <1>1, Updates
  <1>3. /\ run' = [run EXCEPT ![t] = "working"]
        /\ \/ UNCHANGED <<row, copy>>
           \/ row' = [row EXCEPT ![t] = v] /\ copy' = [copy EXCEPT ![t] = v]
        /\ UNCHANGED <<mem, running, waiter, settling, caller, unsaved>>
    BY <1>1 DEF RunnerStarts, memory, history, TaskInv, TaskTypes
  <1> HIDE DEF v
  <1>4. TaskTypes'
    BY <1>2, <1>3 DEF TaskInv, TaskTypes, Alive, Terminal, CallerAt
  <1>5. ASSUME NEW u \in Tasks, u # t PROVE TaskFits(u)'
    BY <1>1, <1>3, <1>5, OthersFit DEF TaskInv, TaskTypes, Settling
  <1>6. TaskFits(t)'
    BY <1>1, <1>2, <1>3, NoneIsNothing DEF TaskInv, TaskTypes, TaskFits, LiveIsRunning, RunningIsLive,
       SettlingIsHalfWay, MemoryAgrees, WaiterFits, CallerFits, Settling, IsTerminal, State, Terminal,
       Alive
  <1> QED
    BY <1>4, <1>5, <1>6 DEF TaskInv

\* What persistFinalText reads says running.
LEMMA ReadRowKeeps ==
  ASSUME TaskInv, NEW t \in Tasks, ReadRow(t) PROVE TaskInv'
  <1>1. TaskTypes'
    BY NoneIsNothing DEF TaskInv, TaskTypes, TaskFits, Value, State, Terminal, Alive, CallerAt,
       ReadRow, memory, history
  <1>2. ASSUME NEW u \in Tasks, u # t PROVE TaskFits(u)'
    BY <1>2, OthersFit DEF TaskInv, TaskTypes, Settling, ReadRow, memory, history
  <1>3. TaskFits(t)'
    BY <1>1, NoneIsNothing DEF TaskInv, TaskTypes, TaskFits, LiveIsRunning, RunningIsLive,
       SettlingIsHalfWay, MemoryAgrees, WaiterFits, CallerFits, Settling, IsTerminal, State, Terminal,
       Alive, ReadRow, memory, history
  <1> QED
    BY <1>1, <1>2, <1>3 DEF TaskInv

\* What it writes says running, too.
LEMMA WriteRowKeeps ==
  ASSUME TaskInv, NEW t \in Tasks, WriteRow(t) PROVE TaskInv'
  <1>0. PICK text \in {"empty", "answer"} :
          \/ row' = [row EXCEPT ![t] = [copy[t] EXCEPT !.linked = TRUE, !.text = text]]
          \/ UNCHANGED row
    BY DEF WriteRow
  <1> DEFINE v == [copy[t] EXCEPT !.linked = TRUE, !.text = text]
  <1>1. copy[t] \in Value /\ copy[t].state = "running" /\ run[t] = "writing"
    BY DEF WriteRow, TaskInv, TaskTypes, TaskFits, LiveIsRunning, Alive
  <1>2. v \in Value /\ v # None /\ v.state = "running"
    BY <1>1, Updates
  <1>3. /\ \E end \in Terminal : run' = [run EXCEPT ![t] = end]
        /\ row' = [row EXCEPT ![t] = v] \/ UNCHANGED row
        /\ UNCHANGED <<mem, running, waiter, settling, copy, caller, unsaved>>
    BY <1>0 DEF WriteRow, Verdict, Terminal, memory, history
  <1> HIDE DEF v
  <1>4. TaskTypes'
    BY <1>2, <1>3 DEF TaskInv, TaskTypes, Alive, Terminal, CallerAt
  <1>5. ASSUME NEW u \in Tasks, u # t PROVE TaskFits(u)'
    BY <1>1, <1>3, <1>5, OthersFit DEF TaskInv, TaskTypes, Settling
  <1>6. TaskFits(t)'
    BY <1>1, <1>2, <1>3, NoneIsNothing DEF TaskInv, TaskTypes, TaskFits, LiveIsRunning, RunningIsLive,
       SettlingIsHalfWay, MemoryAgrees, WaiterFits, CallerFits, Settling, IsTerminal, State, Terminal,
       Alive
  <1> QED
    BY <1>4, <1>5, <1>6 DEF TaskInv

\* The runner's verdict is in the goroutine only.
LEMMA RunnerReturnsKeeps ==
  ASSUME TaskInv, NEW t \in Tasks, RunnerReturns(t) PROVE TaskInv'
  <1>1. TaskTypes'
    BY NoneIsNothing DEF TaskInv, TaskTypes, TaskFits, Value, State, Terminal, Alive, CallerAt,
       RunnerReturns, Verdict, memory, history
  <1>2. ASSUME NEW u \in Tasks, u # t PROVE TaskFits(u)'
    BY <1>2, OthersFit DEF TaskInv, TaskTypes, Settling, RunnerReturns, Verdict, memory, history
  <1>3. TaskFits(t)'
    BY <1>1, NoneIsNothing DEF TaskInv, TaskTypes, TaskFits, LiveIsRunning, RunningIsLive,
       SettlingIsHalfWay, MemoryAgrees, WaiterFits, CallerFits, Settling, IsTerminal, State, Terminal,
       Alive, RunnerReturns, Verdict, memory, history
  <1> QED
    BY <1>1, <1>2, <1>3 DEF TaskInv

\* The row ends, or the end is lost, and memory follows.
LEMMA FinishRunKeeps ==
  ASSUME TaskInv, NEW t \in Tasks, FinishRun(t) PROVE TaskInv'
  <1>0. PICK seen \in {row[t], mem[t]}, saved \in BOOLEAN :
          /\ row' = IF saved THEN [row EXCEPT ![t] = Ended(seen, run[t])] ELSE row
          /\ unsaved' = IF saved THEN unsaved ELSE unsaved \cup {t}
          /\ settling' = [task |-> t, value |-> Ended(seen, run[t]), retry |-> TRUE]
          /\ run' = [run EXCEPT ![t] = "none"]
          /\ UNCHANGED <<mem, running, waiter, copy, caller>>
    BY DEF FinishRun
  <1> DEFINE v == Ended(seen, run[t])
  <1>1. seen \in Value /\ settling = None /\ run[t] \in Terminal
    BY DEF FinishRun, Unlocked, TaskInv, TaskTypes, TaskFits, LiveIsRunning, Alive
  <1>2. v \in Value /\ v # None /\ v.state \in Terminal
    BY <1>1, Updates DEF State
  <1>3. /\ \/ row' = [row EXCEPT ![t] = v] /\ UNCHANGED unsaved
           \/ UNCHANGED row /\ unsaved' = unsaved \cup {t}
        /\ settling' # None /\ settling' \in [task : Tasks, value : Value, retry : BOOLEAN]
        /\ settling'.task = t /\ settling'.value = v
        /\ run' = [run EXCEPT ![t] = "none"]
        /\ UNCHANGED <<mem, running, waiter, copy, caller>>
    <2> HIDE DEF v
    <2>1. settling' = [task |-> t, value |-> v, retry |-> TRUE]
      BY <1>0 DEF v
    <2>2. settling' \in [task : Tasks, value : Value, retry : BOOLEAN]
      BY <1>2, <2>1
    <2>3. settling' # None /\ settling'.task = t /\ settling'.value = v
      BY <2>1, <2>2, Operations
    <2>4. \/ row' = [row EXCEPT ![t] = v] /\ UNCHANGED unsaved
          \/ UNCHANGED row /\ unsaved' = unsaved \cup {t}
      BY <1>0 DEF v
    <2> QED
      BY <1>0, <2>2, <2>3, <2>4
  <1> HIDE DEF v
  <1>4. TaskTypes'
    BY <1>2, <1>3 DEF TaskInv, TaskTypes, Alive, Terminal, CallerAt
  <1>5. ASSUME NEW u \in Tasks, u # t PROVE TaskFits(u)'
    BY <1>1, <1>3, <1>5, OthersFit DEF TaskInv, TaskTypes, Settling
  <1>6. TaskFits(t)'
    BY <1>1, <1>2, <1>3, NoneIsNothing DEF TaskInv, TaskTypes, TaskFits, LiveIsRunning, RunningIsLive,
       SettlingIsHalfWay, MemoryAgrees, WaiterFits, CallerFits, Settling, IsTerminal, State, Terminal,
       Alive
  <1> QED
    BY <1>4, <1>5, <1>6 DEF TaskInv

\* Fail ends a task that was never started.
LEMMA FailKeeps ==
  ASSUME TaskInv, NEW t \in Tasks, Fail(t) PROVE TaskInv'
  <1> DEFINE v == [mem[t] EXCEPT !.state = "failed", !.text = "default"]
  <1>1. mem[t] \in Value /\ settling = None /\ caller[t] = "fail" /\ t \notin running
    BY DEF Fail, Unlocked, TaskInv, TaskTypes, TaskFits, CallerFits
  <1>2. v \in Value /\ v # None /\ v.state = "failed"
    BY <1>1, Endings, EndsAreTerminal
  <1>a. running \ {t} = running
    BY <1>1
  <1>b. UNCHANGED <<row, settling>> \/ (~ IsTerminal(mem[t]) /\ EndWith(t, v))
    BY DEF Fail
  <1>3. /\ caller' = [caller EXCEPT ![t] = "done"]
        /\ UNCHANGED <<mem, running, waiter, run, copy, unsaved>>
        /\ \/ UNCHANGED <<row, settling>>
           \/ /\ ~ IsTerminal(mem[t]) /\ row' = [row EXCEPT ![t] = v]
              /\ settling' # None /\ settling' \in [task : Tasks, value : Value, retry : BOOLEAN]
              /\ settling'.task = t /\ settling'.value = v
    BY <1>1, <1>2, <1>a, <1>b, EndWithMeans DEF Fail, goroutine, history
  <1> HIDE DEF v
  <1>4. TaskTypes'
    BY <1>2, <1>3 DEF TaskInv, TaskTypes, Alive, Terminal, CallerAt
  <1>5. ASSUME NEW u \in Tasks, u # t PROVE TaskFits(u)'
    BY <1>1, <1>3, <1>5, OthersFit DEF TaskInv, TaskTypes, Settling
  <1>6. TaskFits(t)'
    BY <1>1, <1>2, <1>3, NoneIsNothing DEF TaskInv, TaskTypes, TaskFits, LiveIsRunning, RunningIsLive,
       SettlingIsHalfWay, MemoryAgrees, WaiterFits, CallerFits, Settling, IsTerminal, State, Terminal,
       Alive
  <1> QED
    BY <1>4, <1>5, <1>6 DEF TaskInv

\* Cancel ends what has no runner, and tells memory of the row it has found.
LEMMA CancelKeeps ==
  ASSUME TaskInv, NEW t \in Tasks, Cancel(t),
         UNCHANGED caller \/ (caller[t] = "cancel" /\ caller' = [caller EXCEPT ![t] = "done"]) PROVE TaskInv'
  <1> DEFINE v == [Known(t) EXCEPT !.state = "cancelled", !.text = "default"]
  <1>1. Known(t) \in Value /\ settling = None /\ row[t] # None
    BY DEF Cancel, Known, Unlocked, TaskInv, TaskTypes
  <1>2. v \in Value /\ v # None /\ v.state = "cancelled"
    BY <1>1, Endings, EndsAreTerminal
  <1>b. UNCHANGED <<row, settling>> \/ (~ IsTerminal(Known(t)) /\ t \notin running /\ EndWith(t, v))
    BY DEF Cancel
  <1>3. /\ mem' = [mem EXCEPT ![t] = Known(t)]
        /\ UNCHANGED <<running, waiter, run, copy, unsaved>>
        /\ \/ UNCHANGED <<row, settling>>
           \/ /\ ~ IsTerminal(Known(t)) /\ t \notin running /\ row' = [row EXCEPT ![t] = v]
              /\ settling' # None /\ settling' \in [task : Tasks, value : Value, retry : BOOLEAN]
              /\ settling'.task = t /\ settling'.value = v
    BY <1>2, <1>b, EndWithMeans DEF Cancel, goroutine, history
  <1> HIDE DEF v
  <1>4. TaskTypes'
    BY <1>1, <1>2, <1>3 DEF TaskInv, TaskTypes, Alive, Terminal, CallerAt
  <1>5. ASSUME NEW u \in Tasks, u # t PROVE TaskFits(u)'
    BY <1>1, <1>3, <1>5, OthersFit DEF TaskInv, TaskTypes, Settling
  <1>6. TaskFits(t)'
    BY <1>1, <1>2, <1>3, NoneIsNothing DEF Known, TaskInv, TaskTypes, TaskFits, LiveIsRunning, RunningIsLive,
       SettlingIsHalfWay, MemoryAgrees, WaiterFits, CallerFits, Settling, IsTerminal, State, Terminal,
       Alive
  <1> QED
    BY <1>4, <1>5, <1>6 DEF TaskInv

\* The step that ends a task in memory too.
LEMMA CloseKeeps ==
  ASSUME TaskInv, settling # None, Close, UNCHANGED <<row, run, copy, caller, unsaved>>
  PROVE  TaskInv'
  <1>1. PICK t \in Tasks, v \in Value : t = settling.task /\ v = settling.value
    BY DEF TaskInv, TaskTypes
  <1>2. Settling(t) /\ IsTerminal(v) /\ \A u \in Tasks : Settling(u) => u = t
    BY <1>1 DEF Settling, TaskInv, TaskFits, SettlingIsHalfWay
  <1>3. /\ running' = running \ {t} /\ mem' = [mem EXCEPT ![t] = v]
        /\ waiter' = [waiter EXCEPT ![t] = "closed"] /\ settling' = None
    BY <1>1 DEF Close
  <1>4. TaskTypes'
    BY <1>1, <1>3 DEF TaskInv, TaskTypes
  <1>5. ASSUME NEW u \in Tasks, u # t PROVE TaskFits(u)'
    BY <1>1, <1>2, <1>3, <1>5, OthersFit DEF TaskInv, TaskTypes, Settling
  <1>6. TaskFits(t)'
    <2>1. row[t] # None /\ row[t] \in Value /\ (t \in unsaved \/ row[t] = v)
      BY <1>1, <1>2 DEF TaskInv, TaskTypes, TaskFits, SettlingIsHalfWay
    <2>2. /\ mem'[t] = v /\ v # None /\ t \notin running' /\ waiter'[t] = "closed"
          /\ ~ Settling(t)'
      BY <1>1, <1>3, NoneIsNothing DEF TaskInv, TaskTypes, Settling
    <2>3. run[t] \notin Alive /\ caller[t] # "idle" /\ TaskFits(t)
      BY <1>1, <1>2 DEF TaskInv, TaskFits, LiveIsRunning, SettlingIsHalfWay, CallerFits
    <2> QED
      BY <1>2, <2>1, <2>2, <2>3 DEF TaskFits, LiveIsRunning, RunningIsLive, SettlingIsHalfWay,
         MemoryAgrees, WaiterFits, CallerFits, IsTerminal, Terminal
  <1> QED
    BY <1>1, <1>4, <1>5, <1>6 DEF TaskInv

\* Those who wait, and those who do not, change where they are.
LEMMA CallersKeep ==
  ASSUME TaskInv, NEW t \in Tasks, LeavePending(t) \/ StartFails(t) \/ Wait(t) \/ Wake(t) \/ WaitAborts(t)
  PROVE  TaskInv'
  <1>1. /\ UNCHANGED <<row, mem, running, waiter, settling, run, copy, unsaved>>
        /\ \/ /\ caller[t] = "created" /\ caller' = [caller EXCEPT ![t] = "fail"]
           \/ \E next \in {"done", "blocked", "cancel", "wait"} : caller' = [caller EXCEPT ![t] = next]
    BY DEF LeavePending, StartFails, Wait, Wake, WaitAborts, memory, goroutine, history
  <1>2. TaskTypes'
    BY <1>1 DEF TaskInv, TaskTypes, CallerAt
  <1>3. ASSUME NEW u \in Tasks, u # t PROVE TaskFits(u)'
    BY <1>1, <1>3, OthersFit DEF TaskInv, TaskTypes, Settling
  <1>4. TaskFits(t)'
    BY <1>1 DEF TaskInv, TaskTypes, TaskFits, LiveIsRunning, RunningIsLive,
       SettlingIsHalfWay, MemoryAgrees, WaiterFits, CallerFits, Settling, IsTerminal, State, Terminal,
       Alive
  <1> QED
    BY <1>2, <1>3, <1>4 DEF TaskInv

\* After a restart no row says running and memory knows nothing.
LEMMA RestartKeeps == ASSUME TaskInv, Restart PROVE TaskInv'
  <1>1. ASSUME NEW t \in Tasks
        PROVE  /\ row'[t] = None <=> row[t] = None
               /\ row'[t] \in Value \cup {None}
               /\ row'[t] # None => row'[t].state # "running"
               /\ row[t] # None /\ (IsTerminal(row[t]) \/ row[t].state = "running") => IsTerminal(row'[t])
               /\ row[t] # None /\ IsTerminal(row[t]) => row'[t] = row[t]
    <2>1. CASE row[t] # None /\ row[t].state = "running"
      <3>1. row[t] \in Value /\ row'[t] = Ended(row[t], "failed")
        BY <2>1 DEF TaskInv, TaskTypes, Restart
      <3> DEFINE v == Ended(row[t], "failed")
      <3>2. v \in Value /\ v.state = "failed" /\ v # None
        BY <3>1, Endings, EndsAreTerminal
      <3> HIDE DEF v
      <3> QED
        BY <2>1, <3>1, <3>2 DEF IsTerminal, Terminal, v
    <2>2. CASE ~ (row[t] # None /\ row[t].state = "running")
      BY <2>2 DEF TaskInv, TaskTypes, Restart
    <2> QED
      BY <2>1, <2>2
  <1>2. TaskTypes'
    <2>1. row' \in [Tasks -> Value \cup {None}]
      <3>1. DOMAIN row' = Tasks /\ row' = [t \in Tasks |-> row'[t]]
        BY DEF Restart
      <3> QED
        BY <1>1, <3>1
    <2> QED
      BY <2>1 DEF TaskInv, TaskTypes, Restart, CallerAt, history
  <1>3. ASSUME NEW t \in Tasks PROVE TaskFits(t)'
    <2>1. t \in unsaved => row[t] # None /\ (IsTerminal(row[t]) \/ row[t].state = "running")
      BY DEF TaskInv, TaskFits, MemoryAgrees
    <2> QED
      BY <1>1, <2>1 DEF TaskInv, Restart, history, TaskFits, LiveIsRunning, RunningIsLive,
       SettlingIsHalfWay, MemoryAgrees, WaiterFits, CallerFits, Settling, IsTerminal, State, Terminal,
       Alive
  <1> QED
    BY <1>2, <1>3 DEF TaskInv

\* A step that changes nothing of all this.
LEMMA NothingKeeps ==
  ASSUME TaskInv, UNCHANGED <<row, mem, running, waiter, settling, run, copy, caller, unsaved>>
  PROVE  TaskInv'
  <1>1. TaskTypes'
    BY DEF TaskInv, TaskTypes
  <1>2. ASSUME NEW u \in Tasks PROVE TaskFits(u)'
    BY OthersFit DEF TaskInv, Settling
  <1> QED
    BY <1>1, <1>2 DEF TaskInv

\* Every step keeps the invariant.
LEMMA TaskStep == TaskInv /\ [Next]_vars => TaskInv'
  <1> SUFFICES ASSUME TaskInv, [Next]_vars PROVE TaskInv'
    OBVIOUS
  <1>1. ASSUME NEW t \in Tasks, NEW k \in Kind, NEW c \in Caller, Create(t, k, c) PROVE TaskInv'
    BY <1>1, CreateKeeps
  <1>2. ASSUME NEW t \in Tasks,
               LeavePending(t) \/ StartFails(t) \/ Wait(t) \/ Wake(t) \/ WaitAborts(t)
        PROVE  TaskInv'
    BY <1>2, CallersKeep
  <1>3. ASSUME NEW t \in Tasks, Start(t) PROVE TaskInv'
    BY <1>3, StartKeeps
  <1>4. ASSUME NEW t \in Tasks, ClientCancels(t) \/ StepCancels(t) PROVE TaskInv'
    BY <1>4, CancelKeeps DEF ClientCancels, StepCancels
  <1>5. ASSUME NEW t \in Tasks, Fail(t) PROVE TaskInv'
    BY <1>5, FailKeeps
  <1>6. ASSUME NEW t \in Tasks, GoroutineSteps(t) PROVE TaskInv'
    BY <1>6, RunnerStartsKeeps, ReadRowKeeps, WriteRowKeeps, RunnerReturnsKeeps, FinishRunKeeps
       DEF GoroutineSteps
  <1>7. CASE Report
    BY <1>7, CloseKeeps DEF Report, goroutine
  <1>8. CASE ReportFails
    BY <1>8, CloseKeeps, NothingKeeps DEF ReportFails, goroutine, memory
  <1>9. CASE Restart
    BY <1>9, RestartKeeps
  <1>10. CASE UNCHANGED vars
    BY <1>10, NothingKeeps DEF vars
  <1> QED
    BY <1>1, <1>2, <1>3, <1>4, <1>5, <1>6, <1>7, <1>8, <1>9, <1>10 DEF Next, CallerSteps

\* A row that has ended is written by nobody: who could write it finds memory or
\* its own copy saying otherwise.
LEMMA EndedRowsStay ==
  ASSUME TaskInv, Next, NEW t \in Tasks, row[t] # None, IsTerminal(row[t])
  PROVE  row'[t] = row[t]
  <1> USE DEF TaskInv, TaskTypes, IsTerminal, Terminal
  <1>1. TaskFits(t) /\ row[t].state # "running" /\ row[t].state # "pending"
    OBVIOUS
  <1>2. ASSUME NEW u \in Tasks, NEW k \in Kind, NEW c \in Caller, Create(u, k, c)
        PROVE  row'[t] = row[t]
    BY <1>1, <1>2 DEF Create, TaskFits, CallerFits
  <1>3. ASSUME NEW u \in Tasks, Start(u) PROVE row'[t] = row[t]
    <2>1. CASE u # t
      BY <1>3, <2>1 DEF Start
    <2>2. CASE u = t
      BY <1>1, <1>3, <2>2 DEF Start, Unlocked, Settling, TaskFits, MemoryAgrees, CallerFits
    <2> QED
      BY <2>1, <2>2
  <1>4. ASSUME NEW u \in Tasks, Cancel(u) PROVE row'[t] = row[t]
    <2>1. CASE u # t
      BY <1>4, <2>1 DEF Cancel, EndWith
    <2>2. CASE u = t
      BY <1>1, <1>4, <2>2 DEF Cancel, Known, Unlocked, Settling, TaskFits, MemoryAgrees
    <2> QED
      BY <2>1, <2>2
  <1>5. ASSUME NEW u \in Tasks, Fail(u) PROVE row'[t] = row[t]
    <2>1. CASE u # t
      BY <1>5, <2>1 DEF Fail, EndWith
    <2>2. CASE u = t
      BY <1>1, <1>5, <2>2 DEF Fail, Unlocked, Settling, TaskFits, MemoryAgrees, CallerFits
    <2> QED
      BY <2>1, <2>2
  <1>6. ASSUME NEW u \in Tasks, GoroutineSteps(u) PROVE row'[t] = row[t]
    <2>1. u # t
      BY <1>1, <1>6 DEF GoroutineSteps, RunnerStarts, ReadRow, WriteRow, RunnerReturns, FinishRun,
                        TaskFits, LiveIsRunning, Alive
    <2> QED
      BY <1>6, <2>1 DEF GoroutineSteps, RunnerStarts, ReadRow, WriteRow, RunnerReturns, FinishRun
  <1>7. CASE Restart
    BY <1>1, <1>7 DEF Restart
  <1>8. ASSUME UNCHANGED row PROVE row'[t] = row[t]
    BY <1>8
  <1> QED
    BY <1>2, <1>3, <1>4, <1>5, <1>6, <1>7, <1>8
       DEF Next, CallerSteps, ClientCancels, StepCancels, LeavePending, StartFails, Wait, Wake,
           WaitAborts, Report, ReportFails

-----------------------------------------------------------------------------

\* In every reachable state, and over any number of store errors and restarts,
\* row, memory, goroutine and waiter channel of a task fit together
\* (tasks/manager.go).
THEOREM TaskInvariant == Spec => []TaskInv
  BY TaskInitially, TaskStep, PTL DEF Spec

\* A row says running only while a goroutine will end it, unless its final write
\* was lost, and every goroutine can be cancelled (manager.go:294, 304).
THEOREM RowsThatRunAreAlive == Spec => []RunningIsAlive
  <1>1. TaskInv => RunningIsAlive
    BY DEF TaskInv, TaskFits, LiveIsRunning, RunningIsLive, RunningIsAlive, HasRunner
  <1> QED
    BY <1>1, TaskInvariant, PTL

\* Whenever m.mu is free, the manager answers from memory what is in the store,
\* but for a final write that failed (Get and Wait, finishRun, manager.go:267, 304).
THEOREM MemoryTellsTheRow == Spec => []MemoryMatchesRow
  <1>1. TaskInv => MemoryMatchesRow
    BY DEF TaskInv, TaskFits, MemoryAgrees, MemoryMatchesRow, Unlocked, Settling
  <1> QED
    BY <1>1, TaskInvariant, PTL

\* Nobody sleeps on the channel of a task that has ended (Wait, manager.go:267).
THEOREM SleepersAreWoken == Spec => []NoMissedWakeup
  <1>1. TaskInv => NoMissedWakeup
    BY DEF TaskInv, TaskFits, WaiterFits, NoMissedWakeup
  <1> QED
    BY <1>1, TaskInvariant, PTL

\* No cancel, late runner or restart writes over the stored end of a task
\* (manager.go:231, 304 and the restart, app/daemon.go:199).
THEOREM StoredEndsAreFinal == Spec => EndIsFinal
  <1>1. TaskInv /\ [Next]_vars =>
          [\A t \in Tasks : row[t] # None /\ IsTerminal(row[t]) => row'[t] = row[t]]_vars
    BY EndedRowsStay
  <1> QED
    BY <1>1, TaskInvariant, PTL DEF Spec, EndIsFinal

-----------------------------------------------------------------------------
(* The texts of a task, and its reports *)

\* What a report row says.
Told == [status : Terminal, text : {"answer", "default"}]

\* The types of what TaskInv does not mention.
OtherTypes ==
  /\ kind \in [Tasks -> Kind] /\ by \in [Tasks -> Caller] /\ dead \subseteq Tasks
  /\ reports \in [Tasks -> Seq(Told)]
  /\ faults \in 0 .. MaxFaults /\ crashes \in 0 .. MaxCrashes

IsFresh(v) == v.text = "empty" /\ ~ v.linked

\* A pending task has no turn and no text, in the store as in memory; a goroutine
\* has not stored an answer before it writes the row for the last time; and the
\* value with which a task ends always has a text.
TextFits(t) ==
  /\ row[t] # None /\ row[t].state = "pending" => IsFresh(row[t])
  /\ mem[t] # None /\ mem[t].state = "pending" => IsFresh(mem[t])
  /\ run[t] \in {"spawned", "working", "writing"} =>
       row[t].text # "answer" /\ copy[t].text # "answer"
  /\ Settling(t) => settling.value.text # "empty"

\* Every report row repeats the final row, so there is none before that; as long
\* as nothing has failed no final row is lost, and the report is made exactly when
\* the lock is released.
ReportFits(t) ==
  /\ t \notin unsaved /\ reports[t] # <<>> => row[t] # None /\ IsTerminal(row[t])
  /\ t \notin unsaved => \A i \in 1 .. Len(reports[t]) :
       reports[t][i] = [status |-> row[t].state, text |-> row[t].text]
  /\ faults = 0 =>
       /\ t \notin unsaved
       /\ Settling(t) => reports[t] = <<>>
       /\ Len(reports[t]) <= 1
       /\ crashes = 0 /\ row[t] # None /\ IsTerminal(row[t]) /\ ~ Settling(t) =>
            reports[t] # <<>>

HistoryInv ==
  /\ TaskInv
  /\ OtherTypes
  /\ \A t \in Tasks : TextFits(t) /\ ReportFits(t)


\* Nothing has a text, and nothing has been reported.
LEMMA HistoryInitially == Init => HistoryInv
  <1> SUFFICES ASSUME Init PROVE HistoryInv
    OBVIOUS
  <1>1. OtherTypes
    BY Bounds DEF Init, OtherTypes, Kind, Caller
  <1>2. ASSUME NEW t \in Tasks PROVE TextFits(t) /\ ReportFits(t)
    BY DEF Init, TextFits, ReportFits, Settling
  <1> QED
    BY <1>1, <1>2, TaskInitially DEF HistoryInv

\* What the operations do to a task's text and to its link.
LEMMA TextUpdates ==
  ASSUME NEW v \in Value
  PROVE  /\ \A s \in State :
              /\ [v EXCEPT !.state = s].text = v.text
              /\ [v EXCEPT !.state = s, !.text = "default"].text = "default"
              /\ Ended(v, s).text \in {"answer", "default"}
              /\ Ended(v, s).linked = v.linked
              /\ v.text = "answer" => Ended(v, s).text = "answer"
         /\ [v EXCEPT !.linked = TRUE].text = v.text
         /\ [v EXCEPT !.linked = TRUE].linked
         /\ \A x \in {"empty", "answer"} : [v EXCEPT !.linked = TRUE, !.text = x].linked
  BY DEF Value, Ended, State

\* Whose row, copies and goroutine stay, keeps its text.
LEMMA TextStays ==
  ASSUME NEW u \in Tasks, TextFits(u),
         row'[u] = row[u], mem'[u] = mem[u], copy'[u] = copy[u], run'[u] = run[u],
         Settling(u)' => Settling(u) /\ settling'.value = settling.value
  PROVE  TextFits(u)'
  BY DEF TextFits, IsFresh

\* Whose row and reports stay, and who is not being ended more or less than before,
\* has the reports it should have.
LEMMA ReportsStay ==
  ASSUME NEW u \in Tasks, OtherTypes, OtherTypes', ReportFits(u),
         row'[u] = row[u], reports'[u] = reports[u], Settling(u)' <=> Settling(u),
         u \in unsaved' <=> u \in unsaved, faults' >= faults, crashes' >= crashes
  PROVE  ReportFits(u)'
  <1>1. /\ faults \in Nat /\ faults' \in Nat /\ crashes \in Nat /\ crashes' \in Nat
    BY Bounds DEF OtherTypes
  <1>2. /\ faults' = 0 => faults = 0
        /\ crashes' = 0 => crashes = 0
    BY <1>1
  <1> QED
    BY <1>2 DEF ReportFits, IsTerminal

\* A task that has not ended, and does not in this step, has no report.
LEMMA NoReportYet ==
  ASSUME NEW u \in Tasks, OtherTypes, OtherTypes', ReportFits(u),
         row[u] = None \/ ~ IsTerminal(row[u]), row'[u] # None, ~ IsTerminal(row'[u]),
         reports'[u] = reports[u], ~ Settling(u)',
         u \in unsaved' <=> u \in unsaved, faults' >= faults
  PROVE  ReportFits(u)'
  <1>1. faults \in Nat /\ faults' \in Nat
    BY Bounds DEF OtherTypes
  <1>2. faults' = 0 => faults = 0
    BY <1>1
  <1>3. u \notin unsaved => reports[u] = <<>>
    BY DEF ReportFits
  <1>4. u \notin unsaved => Len(reports'[u]) = 0
    BY <1>3
  <1> QED
    BY <1>2, <1>3, <1>4 DEF ReportFits, IsTerminal

\* The first store write of an end, or its loss, comes before the report.
LEMMA ReportIsNext ==
  ASSUME NEW u \in Tasks, OtherTypes, OtherTypes', ReportFits(u),
         row[u] # None, ~ IsTerminal(row[u]), reports'[u] = reports[u], Settling(u)',
         faults' >= faults, u \in unsaved => u \in unsaved',
         u \in unsaved' => u \in unsaved \/ faults' > faults
  PROVE  ReportFits(u)'
  <1>1. faults \in Nat /\ faults' \in Nat
    BY Bounds DEF OtherTypes
  <1>2. faults' = 0 => faults = 0 /\ (u \in unsaved' => u \in unsaved)
    BY <1>1
  <1>3. u \notin unsaved => reports[u] = <<>>
    BY DEF ReportFits
  <1>4. u \notin unsaved => Len(reports'[u]) = 0
    BY <1>3
  <1> QED
    BY <1>2, <1>3, <1>4 DEF ReportFits, IsTerminal

\* A fault is counted, and nothing else.
LEMMA Counters ==
  ASSUME OtherTypes
  PROVE  /\ faults \in Nat /\ crashes \in Nat
         /\ faults' = faults \/ StoreFails => faults' \in 0 .. MaxFaults /\ faults' >= faults
         /\ StoreFails => faults' > faults
  BY Bounds DEF OtherTypes, StoreFails

\* The new task has no text in either place.
LEMMA CreateTells ==
  ASSUME HistoryInv, TaskInv', NEW t \in Tasks, NEW k \in Kind, NEW c \in Caller, Create(t, k, c)
  PROVE  HistoryInv'
  <1>1. OtherTypes'
    BY DEF Create, history, HistoryInv, OtherTypes
  <1>2. ASSUME NEW u \in Tasks, u # t PROVE TextFits(u)' /\ ReportFits(u)'
    BY <1>1, <1>2, TextStays, ReportsStay, Counters DEF HistoryInv, TaskInv, TaskTypes, Settling, Create, goroutine, history
  <1>3. /\ row'[t] = Fresh /\ mem'[t] = Fresh /\ ~ Settling(t)' /\ row[t] = None /\ row'[t] # None
        /\ run'[t] = "none"
    BY NoneIsNothing DEF HistoryInv, TaskInv, TaskTypes, TaskFits, CallerFits, Create, goroutine, history,
       Settling, Unlocked, Fresh, Value, State
  <1>4. TextFits(t)'
    BY <1>3 DEF TextFits, IsFresh, Fresh
  <1>5. ReportFits(t)'
    BY <1>1, <1>3, NoReportYet, Counters DEF Create, history, HistoryInv, IsTerminal, Fresh, Terminal
  <1> QED
    BY <1>1, <1>2, <1>4, <1>5 DEF HistoryInv

\* The task starts without a text.
LEMMA StartTells ==
  ASSUME HistoryInv, TaskInv', NEW t \in Tasks, Start(t) PROVE HistoryInv'
  <1>1. OtherTypes'
    BY DEF Start, history, HistoryInv, OtherTypes
  <1>2. ASSUME NEW u \in Tasks, u # t PROVE TextFits(u)' /\ ReportFits(u)'
    BY <1>1, <1>2, TextStays, ReportsStay, Counters DEF HistoryInv, TaskInv, TaskTypes, Settling, Start, goroutine, history
  <1> DEFINE v == [mem[t] EXCEPT !.state = "running"]
  <1>3. /\ mem[t] \in Value /\ mem[t].state = "pending" /\ mem[t].text = "empty"
        /\ row[t] # None /\ settling = None /\ ~ IsTerminal(row[t])
    BY NoneIsNothing DEF HistoryInv, TextFits, IsFresh, Start, Unlocked, TaskInv, TaskTypes, TaskFits,
       CallerFits, MemoryAgrees, Settling, IsTerminal, Terminal
  <1>a. "running" \in State
    BY DEF State
  <1>b. v.text = "empty"
    BY <1>3, <1>a, TextUpdates
  <1>c. v \in Value /\ v # None /\ v.state = "running"
    BY <1>3, <1>a, Updates
  <1>4. v \in Value /\ v # None /\ v.state = "running" /\ v.text = "empty"
    BY <1>b, <1>c
  <1>5. row'[t] = v /\ mem'[t] = v /\ copy'[t] = v /\ ~ Settling(t)'
    BY <1>3 DEF Start, Settling, HistoryInv, TaskInv, TaskTypes
  <1> HIDE DEF v
  <1>6. TextFits(t)'
    BY <1>4, <1>5 DEF TextFits
  <1>7. ReportFits(t)'
    BY <1>1, <1>3, <1>4, <1>5, NoReportYet, Counters DEF Start, history, HistoryInv, IsTerminal, Terminal
  <1> QED
    BY <1>1, <1>2, <1>6, <1>7 DEF HistoryInv

\* The runner's first write stores no text.
LEMMA RunnerStartsTells ==
  ASSUME HistoryInv, TaskInv', NEW t \in Tasks, RunnerStarts(t) PROVE HistoryInv'
  <1>1. OtherTypes'
    BY DEF RunnerStarts, history, HistoryInv, OtherTypes
  <1>2. ASSUME NEW u \in Tasks, u # t PROVE TextFits(u)' /\ ReportFits(u)'
    BY <1>1, <1>2, TextStays, ReportsStay, Counters DEF HistoryInv, TaskInv, TaskTypes, Settling, RunnerStarts, memory, history
  <1>3. /\ copy[t] \in Value /\ copy[t].text # "answer" /\ row[t].text # "answer"
        /\ run[t] = "spawned" /\ ~ Settling(t)'
    BY DEF HistoryInv, TextFits, RunnerStarts, memory, TaskInv, TaskTypes, TaskFits, LiveIsRunning, Alive, Settling
  <1>4. [copy[t] EXCEPT !.linked = TRUE].text # "answer"
    BY <1>3, TextUpdates
  <1>5. row'[t].text # "answer" /\ copy'[t].text # "answer" /\ run'[t] = "working" /\ mem'[t] = mem[t]
    <2>1. /\ \/ UNCHANGED <<row, copy>>
             \/ copy' = [copy EXCEPT ![t] = [copy[t] EXCEPT !.linked = TRUE]] /\ row' = [row EXCEPT ![t] = copy'[t]]
          /\ run' = [run EXCEPT ![t] = "working"] /\ mem' = mem
      BY DEF RunnerStarts, memory
    <2> QED
      <3>1. mem'[t] = mem[t] /\ run'[t] = "working" /\ DOMAIN copy = Tasks /\ DOMAIN row = Tasks
        BY <2>1 DEF HistoryInv, TaskInv, TaskTypes
      <3>2. CASE UNCHANGED <<row, copy>>
        BY <1>3, <3>1, <3>2
      <3>3. CASE /\ copy' = [copy EXCEPT ![t] = [copy[t] EXCEPT !.linked = TRUE]]
                 /\ row' = [row EXCEPT ![t] = copy'[t]]
        <4>1. copy'[t] = [copy[t] EXCEPT !.linked = TRUE] /\ row'[t] = copy'[t]
          BY <3>1, <3>3
        <4> QED
          BY <1>4, <3>1, <4>1
      <3> QED
        BY <2>1, <3>2, <3>3
  <1>6. /\ row[t] # None /\ row[t].state = "running"
        /\ row'[t] # None /\ row'[t].state = "running"
    BY <1>3, <1>5 DEF HistoryInv, TaskInv, TaskFits, LiveIsRunning, Alive
  <1>7. TextFits(t)'
    BY <1>3, <1>5, <1>6 DEF HistoryInv, TextFits, IsFresh
  <1>8. ReportFits(t)'
    BY <1>1, <1>3, <1>6, NoReportYet, Counters DEF RunnerStarts, history, HistoryInv, IsTerminal, Terminal
  <1> QED
    BY <1>1, <1>2, <1>7, <1>8 DEF HistoryInv

\* persistFinalText reads a row without an answer.
LEMMA ReadRowTells ==
  ASSUME HistoryInv, TaskInv', NEW t \in Tasks, ReadRow(t) PROVE HistoryInv'
  <1>0. UNCHANGED faults \/ StoreFails
    BY DEF ReadRow
  <1>1. OtherTypes'
    BY <1>0, Counters DEF ReadRow, history, HistoryInv, OtherTypes
  <1>2. ASSUME NEW u \in Tasks PROVE ReportFits(u)' /\ (u # t => TextFits(u)')
    BY <1>0, <1>1, TextStays, ReportsStay, Counters DEF HistoryInv, TaskInv, TaskTypes, Settling, ReadRow, memory, history
  <1>3. TextFits(t)'
    BY DEF HistoryInv, TextFits, IsFresh, ReadRow, memory, TaskInv, TaskTypes, TaskFits, LiveIsRunning, Alive, Settling
  <1> QED
    BY <1>1, <1>2, <1>3 DEF HistoryInv

\* The answer is stored when the goroutine has only the end left to write.
LEMMA WriteRowTells ==
  ASSUME HistoryInv, TaskInv', NEW t \in Tasks, WriteRow(t) PROVE HistoryInv'
  <1>0. UNCHANGED faults \/ StoreFails
    BY DEF WriteRow
  <1>1. OtherTypes'
    BY <1>0, Counters DEF WriteRow, history, HistoryInv, OtherTypes
  <1>2. ASSUME NEW u \in Tasks, u # t PROVE TextFits(u)' /\ ReportFits(u)'
    <2>1. /\ row'[u] = row[u] /\ run'[u] = run[u]
          /\ UNCHANGED <<mem, copy, settling, unsaved, reports, crashes>>
      BY <1>2 DEF HistoryInv, TaskInv, TaskTypes, WriteRow, memory, history
    <2>2. faults' >= faults /\ crashes' >= crashes
      BY <1>0, <2>1, Counters DEF HistoryInv
    <2> QED
      BY <1>1, <2>1, <2>2, TextStays, ReportsStay DEF HistoryInv, Settling
  <1>3. /\ run'[t] \in Terminal /\ ~ Settling(t)' /\ mem'[t] = mem[t]
    BY DEF HistoryInv, WriteRow, Verdict, Terminal, memory, TaskInv, TaskTypes, TaskFits, LiveIsRunning, Alive, Settling
  <1>4. /\ row[t] # None /\ row[t].state = "running"
        /\ row'[t] # None /\ row'[t].state = "running"
    BY <1>3 DEF HistoryInv, TaskInv, TaskFits, LiveIsRunning, Alive, WriteRow
  <1>5. TextFits(t)'
    BY <1>3, <1>4 DEF HistoryInv, TextFits, IsFresh, Terminal
  <1>6. ReportFits(t)'
    BY <1>0, <1>1, <1>3, <1>4, NoReportYet, Counters DEF WriteRow, history, HistoryInv, IsTerminal, Terminal
  <1> QED
    BY <1>1, <1>2, <1>5, <1>6 DEF HistoryInv

\* The runner's verdict is in the goroutine only.
LEMMA RunnerReturnsTells ==
  ASSUME HistoryInv, TaskInv', NEW t \in Tasks, RunnerReturns(t) PROVE HistoryInv'
  <1>1. OtherTypes'
    BY DEF RunnerReturns, history, HistoryInv, OtherTypes
  <1>2. ASSUME NEW u \in Tasks PROVE ReportFits(u)' /\ (u # t => TextFits(u)')
    BY <1>1, TextStays, ReportsStay, Counters DEF HistoryInv, TaskInv, TaskTypes, Settling, RunnerReturns, memory, history
  <1>3. run'[t] \in Terminal
    BY DEF RunnerReturns, Verdict, Terminal, HistoryInv, TaskInv, TaskTypes
  <1>4. TextFits(t)'
    BY <1>3 DEF HistoryInv, TextFits, IsFresh, RunnerReturns, memory, Settling, Terminal
  <1> QED
    BY <1>1, <1>2, <1>4 DEF HistoryInv

\* The end has a text, and its report is next.
LEMMA FinishRunTells ==
  ASSUME HistoryInv, TaskInv', NEW t \in Tasks, FinishRun(t) PROVE HistoryInv'
  <1>0. PICK seen \in {row[t], mem[t]}, saved \in BOOLEAN :
          LET lost == (IF seen = row[t] THEN 0 ELSE 1) + (IF saved THEN 0 ELSE 1)
          IN  /\ faults + lost <= MaxFaults /\ faults' = faults + lost
              /\ row' = IF saved THEN [row EXCEPT ![t] = Ended(seen, run[t])] ELSE row
              /\ unsaved' = IF saved THEN unsaved ELSE unsaved \cup {t}
              /\ settling' = [task |-> t, value |-> Ended(seen, run[t]), retry |-> TRUE]
    BY DEF FinishRun
  <1>1. /\ faults' \in 0 .. MaxFaults /\ faults' >= faults
        /\ ~ saved => faults' > faults
    BY <1>0, Counters, Bounds DEF HistoryInv, OtherTypes
  <1>2. OtherTypes'
    BY <1>1 DEF FinishRun, HistoryInv, OtherTypes
  <1>3. ASSUME NEW u \in Tasks, u # t PROVE TextFits(u)' /\ ReportFits(u)'
    BY <1>0, <1>1, <1>2, <1>3, TextStays, ReportsStay, Counters
       DEF HistoryInv, TaskInv, TaskTypes, Settling, FinishRun, Unlocked
  <1>4. /\ row[t] \in Value /\ mem[t] \in Value /\ row[t] # None /\ row[t].state = "running"
        /\ mem[t].state = "running" /\ run[t] \in Terminal
    BY DEF FinishRun, HistoryInv, TaskInv, TaskTypes, TaskFits, LiveIsRunning, Alive
  <1>5. Ended(seen, run[t]).text # "empty" /\ Ended(seen, run[t]).state \in Terminal
    <2>1. seen \in Value /\ run[t] \in State
      BY <1>4 DEF State
    <2>2. Ended(seen, run[t]).text # "empty"
      BY <2>1, TextUpdates
    <2>3. Ended(seen, run[t]).state = run[t]
      BY <2>1, Updates
    <2> QED
      BY <1>4, <2>2, <2>3
  <1>6. Settling(t)' /\ settling'.value = Ended(seen, run[t])
    <2>1. settling' # None
      <3>1. seen \in Value /\ run[t] \in State
        BY <1>4 DEF State
      <3>2. Ended(seen, run[t]) \in Value
        BY <3>1, Updates
      <3>3. settling' \in [task : Tasks, value : Value, retry : BOOLEAN]
        BY <1>0, <3>2
      <3> QED
        BY <3>3, NoneIsNothing
    <2> QED
      BY <1>0, <2>1 DEF Settling
  <1>7. TextFits(t)'
    <2>1. mem'[t].state = "running" /\ run'[t] = "none"
      BY <1>4 DEF FinishRun, HistoryInv, TaskInv, TaskTypes
    <2>2. row'[t].state # "pending"
      BY <1>0, <1>4, <1>5 DEF HistoryInv, TaskInv, TaskTypes, Terminal
    <2> QED
      BY <1>5, <1>6, <2>1, <2>2 DEF TextFits
  <1>8. ReportFits(t)'
    BY <1>0, <1>1, <1>2, <1>4, <1>6, ReportIsNext DEF FinishRun, HistoryInv, IsTerminal, Terminal
  <1> QED
    BY <1>2, <1>3, <1>7, <1>8 DEF HistoryInv

\* A task that Fail or Cancel ends is one that was never started.
LEMMA EndedUnstarted ==
  ASSUME HistoryInv, Unlocked, NEW t \in Tasks, row[t] # None, ~ IsTerminal(Known(t)),
         t \notin running
  PROVE  row[t].state = "pending" /\ IsFresh(row[t]) /\ Known(t) \in Value
  <1>1. /\ row[t] \in Value /\ Known(t) \in Value /\ ~ Settling(t)
    BY DEF HistoryInv, TaskInv, TaskTypes, Known, Unlocked, Settling
  <1>2. run[t] \notin Alive /\ t \notin unsaved
    BY <1>1 DEF HistoryInv, TaskInv, TaskFits, LiveIsRunning, MemoryAgrees, Known
  <1>3. ~ IsTerminal(row[t]) /\ row[t].state # "running"
    BY <1>1, <1>2 DEF HistoryInv, TaskInv, TaskFits, RunningIsLive, MemoryAgrees, Known, IsTerminal
  <1> QED
    BY <1>1, <1>3 DEF HistoryInv, TextFits, Value, State, IsTerminal

\* What Fail and Cancel end gets a default text, and its report is next.
LEMMA EndWithTells ==
  ASSUME HistoryInv, TaskInv', OtherTypes', NEW t \in Tasks, Unlocked,
         \/ UNCHANGED <<row, settling>>
         \/ /\ row[t].state = "pending"
            /\ \E v \in Value : v.state \in Terminal /\ v.text = "default" /\ EndWith(t, v),
         mem' = mem \/ mem' = [mem EXCEPT ![t] = row[t]], row[t] # None,
         UNCHANGED <<run, copy, unsaved, reports, crashes>>, faults' >= faults
  PROVE  HistoryInv'
  <1>1. ASSUME NEW u \in Tasks, u # t PROVE TextFits(u)' /\ ReportFits(u)'
    <2>1. row'[u] = row[u] /\ mem'[u] = mem[u] /\ ~ Settling(u) /\ ~ Settling(u)'
      BY <1>1, EndWithMeans DEF HistoryInv, TaskInv, TaskTypes, Settling, Unlocked
    <2>2. faults' >= faults /\ crashes' >= crashes
      BY Counters DEF HistoryInv
    <2> QED
      BY <1>1, <2>1, <2>2, TextStays, ReportsStay DEF HistoryInv
  <1>2. CASE UNCHANGED <<row, settling>>
    <2>1. faults' >= faults /\ crashes' >= crashes
      BY Counters DEF HistoryInv
    <2>2. ReportFits(t)'
      BY <1>2, <2>1, ReportsStay DEF HistoryInv, Settling
    <2>3. TextFits(t)'
      <3>1. mem'[t] \in {mem[t], row[t]}
        BY DEF HistoryInv, TaskInv, TaskTypes
      <3> QED
        BY <1>2, <3>1 DEF HistoryInv, TextFits, IsFresh, Settling
    <2> QED
      BY <1>1, <2>2, <2>3 DEF HistoryInv
  <1>3. ASSUME row[t].state = "pending", NEW v \in Value, v.state \in Terminal, v.text = "default", EndWith(t, v)
        PROVE  HistoryInv'
    <2>1. /\ row' = [row EXCEPT ![t] = v] /\ settling' # None
          /\ settling'.task = t /\ settling'.value = v
      BY <1>3, EndWithMeans
    <2>2. Settling(t)' /\ row'[t] = v
      BY <2>1 DEF Settling, HistoryInv, TaskInv, TaskTypes
    <2>3. ReportFits(t)'
      BY <1>3, <2>2, ReportIsNext DEF HistoryInv, IsTerminal, Terminal
    <2>4. TextFits(t)'
      <3>1. mem'[t] \in {mem[t], row[t]} /\ run[t] \notin Alive
        BY <1>3 DEF HistoryInv, TaskInv, TaskTypes, TaskFits, LiveIsRunning
      <3> QED
        BY <1>3, <2>1, <2>2, <3>1 DEF HistoryInv, TextFits, IsFresh, Alive, Terminal
    <2> QED
      BY <1>1, <2>3, <2>4 DEF HistoryInv
  <1> QED
    BY <1>2, <1>3

LEMMA FailTells ==
  ASSUME HistoryInv, TaskInv', NEW t \in Tasks, Fail(t) PROVE HistoryInv'
  <1>0. /\ UNCHANGED faults \/ StoreFails
        /\ UNCHANGED <<mem, run, copy, unsaved, reports, crashes, kind, by>>
        /\ UNCHANGED dead \/ dead' = dead \cup (running \cap {t})
    BY DEF Fail, goroutine, history
  <1>1. faults' \in 0 .. MaxFaults /\ faults' >= faults
    BY <1>0, Counters DEF HistoryInv, OtherTypes
  <1>2. OtherTypes'
    BY <1>0, <1>1 DEF HistoryInv, OtherTypes
  <1>3. /\ mem[t] # None /\ row[t] # None /\ t \notin running /\ Known(t) = mem[t] /\ Unlocked
    BY DEF Fail, Known, HistoryInv, TaskInv, TaskFits, CallerFits, MemoryAgrees
  <1> DEFINE v == [mem[t] EXCEPT !.state = "failed", !.text = "default"]
  <1>4. UNCHANGED <<row, settling>> \/ (~ IsTerminal(mem[t]) /\ EndWith(t, v))
    BY DEF Fail
  <1>5. v \in Value /\ v.state \in Terminal /\ v.text = "default"
    <2>1. mem[t] \in Value /\ "failed" \in State
      BY <1>3 DEF HistoryInv, TaskInv, TaskTypes, State, Terminal
    <2>2. v \in Value /\ v.state = "failed"
      BY <2>1, Updates
    <2>3. v.text = "default"
      BY <2>1, TextUpdates
    <2> QED
      BY <2>2, <2>3 DEF Terminal
  <1> HIDE DEF v
  <1>6. ~ IsTerminal(mem[t]) => row[t].state = "pending"
    BY <1>3, EndedUnstarted
  <1> QED
    BY <1>0, <1>1, <1>2, <1>3, <1>4, <1>5, <1>6, EndWithTells

LEMMA CancelTells ==
  ASSUME HistoryInv, TaskInv', NEW t \in Tasks, Cancel(t) PROVE HistoryInv'
  <1>0. /\ UNCHANGED faults \/ StoreFails
        /\ UNCHANGED <<run, copy, unsaved, reports, crashes, kind, by>>
        /\ UNCHANGED dead \/ dead' = dead \cup {t}
    BY DEF Cancel, goroutine, history
  <1>1. faults' \in 0 .. MaxFaults /\ faults' >= faults
    BY <1>0, Counters DEF HistoryInv, OtherTypes
  <1>2. OtherTypes'
    BY <1>0, <1>1 DEF HistoryInv, OtherTypes
  <1>3. /\ row[t] # None /\ Unlocked /\ Known(t) \in Value
        /\ mem' = mem \/ mem' = [mem EXCEPT ![t] = row[t]]
    BY DEF Cancel, Known, HistoryInv, TaskInv, TaskTypes
  <1> DEFINE v == [Known(t) EXCEPT !.state = "cancelled", !.text = "default"]
  <1>4. UNCHANGED <<row, settling>> \/ (~ IsTerminal(Known(t)) /\ t \notin running /\ EndWith(t, v))
    BY DEF Cancel
  <1>5. v \in Value /\ v.state \in Terminal /\ v.text = "default"
    <2>1. "cancelled" \in State
      BY DEF State, Terminal
    <2>2. v \in Value /\ v.state = "cancelled"
      BY <1>3, <2>1, Updates
    <2>3. v.text = "default"
      BY <1>3, <2>1, TextUpdates
    <2> QED
      BY <2>2, <2>3 DEF Terminal
  <1> HIDE DEF v
  <1>6. ~ IsTerminal(Known(t)) /\ t \notin running => row[t].state = "pending"
    BY <1>3, EndedUnstarted
  <1> QED
    BY <1>0, <1>1, <1>2, <1>3, <1>4, <1>5, <1>6, EndWithTells

\* The report repeats the value with which the task ends.
LEMMA TheReport ==
  ASSUME HistoryInv, settling # None, NEW t \in Tasks, t = settling.task, AddReport
  PROVE  /\ reports' \in [Tasks -> Seq(Told)]
         /\ \A u \in Tasks : u # t => reports'[u] = reports[u]
         /\ Len(reports'[t]) = Len(reports[t]) + 1 /\ reports'[t] # <<>>
         /\ row[t] # None /\ IsTerminal(settling.value)
         /\ t \notin unsaved =>
              /\ IsTerminal(row[t])
              /\ \A i \in 1 .. Len(reports'[t]) :
                   reports'[t][i] = [status |-> row[t].state, text |-> row[t].text]
  <1> DEFINE r == [status |-> settling.value.state, text |-> settling.value.text]
             s == reports[t]
  <1>1. /\ settling.value \in Value /\ Settling(t) /\ IsTerminal(settling.value)
        /\ row[t] # None /\ (t \in unsaved \/ row[t] = settling.value)
    BY DEF HistoryInv, TaskInv, TaskTypes, TaskFits, SettlingIsHalfWay, Settling
  <1>2. r \in Told
    BY <1>1 DEF HistoryInv, TextFits, Told, Value, IsTerminal
  <1>3. s \in Seq(Told) /\ reports' = [reports EXCEPT ![t] = Append(s, r)]
    BY DEF AddReport, HistoryInv, OtherTypes
  <1>4. reports'[t] = Append(s, r) /\ \A u \in Tasks : u # t => reports'[u] = reports[u]
    BY <1>3 DEF HistoryInv, OtherTypes
  <1>5. t \notin unsaved =>
          /\ r = [status |-> row[t].state, text |-> row[t].text]
          /\ \A i \in 1 .. Len(s) : s[i] = r
    BY <1>1 DEF HistoryInv, ReportFits
  <1> HIDE DEF r, s
  <1>6. /\ Append(s, r) \in Seq(Told) /\ Len(Append(s, r)) = Len(s) + 1 /\ Append(s, r) # <<>>
        /\ \A i \in 1 .. Len(s) : Append(s, r)[i] = s[i]
        /\ Append(s, r)[Len(s) + 1] = r
    BY <1>2, <1>3, AppendProperties
  <1>7. reports' \in [Tasks -> Seq(Told)]
    BY <1>3, <1>6 DEF HistoryInv, OtherTypes
  <1>8. (\A i \in 1 .. Len(s) : s[i] = r) => \A i \in 1 .. Len(Append(s, r)) : Append(s, r)[i] = r
    <2>1. Len(s) \in Nat
      BY <1>3, LenProperties
    <2> QED
      BY <1>6, <2>1
  <1> QED
    BY <1>1, <1>4, <1>5, <1>6, <1>7, <1>8 DEF s

\* The delivery of a report, made, failed or repeated.
LEMMA ReportTells ==
  ASSUME HistoryInv, TaskInv', Report \/ ReportFails PROVE HistoryInv'
  <1>0. PICK t \in Tasks : t = settling.task /\ settling # None
    BY DEF Report, ReportFails, HistoryInv, TaskInv, TaskTypes
  <1>1. /\ UNCHANGED <<row, kind, run, copy, dead, by, unsaved, crashes>>
        /\ UNCHANGED faults \/ StoreFails
        /\ Close \/ UNCHANGED <<mem, settling>>
        /\ AddReport \/ (UNCHANGED reports /\ StoreFails)
        /\ StoreFails \/ (AddReport /\ Close)
    BY DEF Report, ReportFails, goroutine, memory
  <1>2. /\ faults' \in 0 .. MaxFaults /\ faults' >= faults /\ crashes' >= crashes
        /\ StoreFails => faults' > faults
    BY <1>1, Counters DEF HistoryInv, OtherTypes
  <1>3. OtherTypes'
    BY <1>0, <1>1, <1>2, TheReport DEF HistoryInv, OtherTypes
  <1>4. ASSUME NEW u \in Tasks, u # t PROVE TextFits(u)' /\ ReportFits(u)'
    <2>1. mem'[u] = mem[u] /\ ~ Settling(u) /\ ~ Settling(u)'
      BY <1>0, <1>1, <1>4 DEF Close, Settling, HistoryInv, TaskInv, TaskTypes
    <2>2. reports'[u] = reports[u]
      BY <1>0, <1>1, <1>4, TheReport
    <2> QED
      BY <1>1, <1>2, <1>3, <1>4, <2>1, <2>2, TextStays, ReportsStay DEF HistoryInv
  <1>5. TextFits(t)'
    <2>1. Settling(t) /\ IsTerminal(settling.value)
      BY <1>0 DEF HistoryInv, TaskInv, TaskFits, SettlingIsHalfWay, Settling
    <2>2. CASE UNCHANGED <<mem, settling>>
      BY <1>1, <2>2 DEF HistoryInv, TextFits, IsFresh, Settling
    <2>3. CASE Close
      <3>1. mem'[t] = settling.value /\ ~ Settling(t)'
        BY <1>0, <2>3 DEF Close, Settling, HistoryInv, TaskInv, TaskTypes
      <3> QED
        BY <1>1, <2>1, <3>1 DEF HistoryInv, TextFits, IsTerminal, Terminal
    <2> QED
      BY <1>1, <2>2, <2>3
  <1>6. ReportFits(t)'
    <2>1. CASE AddReport
      <3>1. /\ Len(reports'[t]) = Len(reports[t]) + 1 /\ reports'[t] # <<>>
            /\ row[t] # None
            /\ t \notin unsaved =>
                 /\ IsTerminal(row[t])
                 /\ \A i \in 1 .. Len(reports'[t]) :
                      reports'[t][i] = [status |-> row[t].state, text |-> row[t].text]
        BY <1>0, <2>1, TheReport
      <3>2. faults' = 0 =>
              /\ faults = 0 /\ t \notin unsaved /\ reports[t] = <<>> /\ Close
        <4> SUFFICES ASSUME faults' = 0
                     PROVE  faults = 0 /\ t \notin unsaved /\ reports[t] = <<>> /\ Close
          OBVIOUS
        <4>1. faults \in Nat
          BY Counters DEF HistoryInv
        <4>2. faults = 0 /\ ~ StoreFails
          BY <1>2, <4>1
        <4>3. t \notin unsaved /\ reports[t] = <<>>
          BY <1>0, <4>2 DEF HistoryInv, ReportFits, Settling
        <4> QED
          BY <1>1, <4>2, <4>3
      <3>3. Close => ~ Settling(t)'
        BY DEF Close, Settling
      <3>4. faults' = 0 => Len(reports'[t]) = 1
        BY <3>1, <3>2
      <3> QED
        BY <1>1, <3>1, <3>2, <3>3, <3>4 DEF ReportFits, IsTerminal
    <2>2. CASE UNCHANGED reports /\ StoreFails
      <3>1. faults' # 0
        BY <1>2, <2>2, Counters DEF HistoryInv
      <3> QED
        BY <1>1, <2>2, <3>1 DEF HistoryInv, ReportFits, IsTerminal
    <2> QED
      BY <1>1, <2>1, <2>2
  <1> QED
    BY <1>3, <1>4, <1>5, <1>6 DEF HistoryInv

\* A restart reports nothing, and ends only what has not been reported.
LEMMA RestartTells ==
  ASSUME HistoryInv, TaskInv', Restart PROVE HistoryInv'
  <1>1. OtherTypes'
    BY Bounds DEF Restart, history, HistoryInv, OtherTypes
  <1>2. crashes' # 0 /\ UNCHANGED <<unsaved, reports, faults>> /\ settling' = None
    BY Bounds DEF Restart, history, HistoryInv, OtherTypes
  <1>3. ASSUME NEW t \in Tasks PROVE TextFits(t)' /\ ReportFits(t)'
    <2>0. mem'[t] = None /\ run'[t] = "none" /\ ~ Settling(t)'
      BY <1>2 DEF Restart, Settling
    <2>1. CASE row[t] # None /\ row[t].state = "running"
      <3>1. row'[t] = Ended(row[t], "failed") /\ row[t] \in Value
        BY <2>1 DEF Restart, HistoryInv, TaskInv, TaskTypes
      <3>2. "failed" \in State
        BY DEF State, Terminal
      <3>3. Ended(row[t], "failed").state = "failed" /\ Ended(row[t], "failed") # None
        BY <3>1, <3>2, Updates
      <3>4. row'[t] # None /\ IsTerminal(row'[t]) /\ row'[t].state # "pending"
        BY <3>1, <3>3 DEF IsTerminal, Terminal
      <3>5. t \notin unsaved => reports[t] = <<>>
        BY <2>1 DEF HistoryInv, ReportFits, IsTerminal, Terminal
      <3>6. t \notin unsaved => Len(reports'[t]) = 0
        BY <1>2, <3>5
      <3> QED
        <4>1. TextFits(t)'
          BY <2>0, <3>4 DEF TextFits
        <4>2. ReportFits(t) /\ reports'[t] = reports[t] /\ (t \in unsaved' <=> t \in unsaved)
          BY <1>2 DEF HistoryInv
        <4>3. ReportFits(t)'
          BY <1>2, <2>0, <3>4, <3>5, <3>6, <4>2 DEF ReportFits
        <4> QED
          BY <4>1, <4>3
    <2>2. CASE ~ (row[t] # None /\ row[t].state = "running")
      <3>1. row'[t] = row[t]
        BY <2>2 DEF Restart, HistoryInv, TaskInv, TaskTypes
      <3> QED
        BY <1>2, <2>0, <3>1 DEF HistoryInv, TextFits, ReportFits, IsFresh, IsTerminal
    <2> QED
      BY <2>1, <2>2
  <1> QED
    BY <1>1, <1>3 DEF HistoryInv

\* Steps that touch neither a row, nor a copy, nor a report.
LEMMA OthersTell ==
  ASSUME HistoryInv, TaskInv', UNCHANGED <<row, mem, settling, kind, run, copy, dead, by, reports, unsaved, crashes>>,
         UNCHANGED faults \/ StoreFails
  PROVE  HistoryInv'
  <1>1. faults' \in 0 .. MaxFaults /\ faults' >= faults /\ crashes' >= crashes
    BY Counters DEF HistoryInv, OtherTypes
  <1>2. OtherTypes'
    BY <1>1 DEF HistoryInv, OtherTypes
  <1>3. ASSUME NEW u \in Tasks PROVE TextFits(u)' /\ ReportFits(u)'
    BY <1>1, <1>2, TextStays, ReportsStay DEF HistoryInv, Settling
  <1> QED
    BY <1>2, <1>3 DEF HistoryInv

\* Every step keeps the history in order.
LEMMA HistoryStep == HistoryInv /\ [Next]_vars => HistoryInv'
  <1> SUFFICES ASSUME HistoryInv, [Next]_vars PROVE HistoryInv'
    OBVIOUS
  <1>0. TaskInv'
    BY TaskStep DEF HistoryInv
  <1>1. ASSUME NEW t \in Tasks, NEW k \in Kind, NEW c \in Caller, Create(t, k, c) PROVE HistoryInv'
    BY <1>0, <1>1, CreateTells
  <1>2. ASSUME NEW t \in Tasks,
               LeavePending(t) \/ StartFails(t) \/ Wait(t) \/ Wake(t) \/ WaitAborts(t)
        PROVE  HistoryInv'
    BY <1>0, <1>2, OthersTell DEF LeavePending, StartFails, Wait, Wake, WaitAborts, memory, goroutine, history
  <1>3. ASSUME NEW t \in Tasks, Start(t) PROVE HistoryInv'
    BY <1>0, <1>3, StartTells
  <1>4. ASSUME NEW t \in Tasks, ClientCancels(t) \/ StepCancels(t) PROVE HistoryInv'
    BY <1>0, <1>4, CancelTells DEF ClientCancels, StepCancels
  <1>5. ASSUME NEW t \in Tasks, Fail(t) PROVE HistoryInv'
    BY <1>0, <1>5, FailTells
  <1>6. ASSUME NEW t \in Tasks, GoroutineSteps(t) PROVE HistoryInv'
    BY <1>0, <1>6, RunnerStartsTells, ReadRowTells, WriteRowTells, RunnerReturnsTells, FinishRunTells
       DEF GoroutineSteps
  <1>7. CASE Report \/ ReportFails
    BY <1>0, <1>7, ReportTells
  <1>8. CASE Restart
    BY <1>0, <1>8, RestartTells
  <1>9. CASE UNCHANGED vars
    BY <1>0, <1>9, OthersTell DEF vars
  <1> QED
    BY <1>1, <1>2, <1>3, <1>4, <1>5, <1>6, <1>7, <1>8, <1>9 DEF Next, CallerSteps

\* Who writes a row without a store error writes from a value that has what the
\* row has.
LEMMA RowsKeepAnswers ==
  ASSUME HistoryInv, Next, NEW t \in Tasks, row[t] # None, UNCHANGED faults
  PROVE  /\ row[t].text = "answer" => row'[t].text = "answer"
         /\ row[t].linked => row'[t].linked
  <1>1. row[t] \in Value /\ (row[t].state = "pending" => IsFresh(row[t]))
    BY DEF HistoryInv, TaskInv, TaskTypes, TextFits
  <1>2. ASSUME row'[t] = row[t] \/ row[t].state = "pending"
        PROVE  /\ row[t].text = "answer" => row'[t].text = "answer"
               /\ row[t].linked => row'[t].linked
    BY <1>1, <1>2 DEF IsFresh
  <1>3. ASSUME NEW u \in Tasks, NEW k \in Kind, NEW c \in Caller, Create(u, k, c)
        PROVE  row'[t] = row[t]
    BY <1>3 DEF Create, HistoryInv, TaskInv, TaskTypes, TaskFits, CallerFits
  <1>4. ASSUME NEW u \in Tasks, Start(u) PROVE row'[t] = row[t] \/ row[t].state = "pending"
    <2>1. CASE u # t
      BY <1>4, <2>1 DEF Start, HistoryInv, TaskInv, TaskTypes
    <2>2. CASE u = t
      <3>1. TaskFits(t) /\ mem[t] # None /\ mem[t].state = "pending" /\ ~ Settling(t)
        BY <1>4, <2>2 DEF Start, Unlocked, Settling, HistoryInv, TaskInv, TaskFits, CallerFits
      <3> QED
        BY <3>1 DEF TaskFits, MemoryAgrees, IsTerminal, Terminal
    <2> QED
      BY <2>1, <2>2
  <1>5. ASSUME NEW u \in Tasks, Cancel(u) PROVE row'[t] = row[t] \/ row[t].state = "pending"
    <2>1. CASE u # t
      BY <1>5, <2>1 DEF Cancel, EndWith, HistoryInv, TaskInv, TaskTypes
    <2>2. CASE u = t
      BY <1>5, <2>2, EndedUnstarted DEF Cancel
    <2> QED
      BY <2>1, <2>2
  <1>6. ASSUME NEW u \in Tasks, Fail(u) PROVE row'[t] = row[t] \/ row[t].state = "pending"
    <2>1. CASE u # t
      BY <1>6, <2>1 DEF Fail, EndWith, HistoryInv, TaskInv, TaskTypes
    <2>2. CASE u = t
      <3>1. t \notin running /\ Known(t) = mem[t]
        BY <1>6, <2>2 DEF Fail, Known, HistoryInv, TaskInv, TaskFits, CallerFits
      <3> QED
        BY <1>6, <2>2, <3>1, EndedUnstarted DEF Fail
    <2> QED
      BY <2>1, <2>2
  <1>7. ASSUME NEW u \in Tasks, GoroutineSteps(u)
        PROVE  /\ row[t].text = "answer" => row'[t].text = "answer"
               /\ row[t].linked => row'[t].linked
    <2>1. CASE u # t
      BY <1>7, <2>1 DEF GoroutineSteps, RunnerStarts, ReadRow, WriteRow, RunnerReturns, FinishRun,
                        HistoryInv, TaskInv, TaskTypes
    <2>2. CASE u = t /\ (ReadRow(t) \/ RunnerReturns(t))
      BY <2>2 DEF ReadRow, RunnerReturns
    <2>3. CASE u = t /\ RunnerStarts(t)
      <3>1. copy[t] \in Value /\ row[t].text # "answer"
        BY <2>3 DEF RunnerStarts, HistoryInv, TextFits, TaskInv, TaskTypes, TaskFits, LiveIsRunning, Alive
      <3>2. row' = row \/ row' = [row EXCEPT ![t] = [copy[t] EXCEPT !.linked = TRUE]]
        BY <2>3 DEF RunnerStarts, HistoryInv, TaskInv, TaskTypes
      <3>3. row'[t] = row[t] \/ row'[t] = [copy[t] EXCEPT !.linked = TRUE]
        BY <3>2 DEF HistoryInv, TaskInv, TaskTypes
      <3>4. [copy[t] EXCEPT !.linked = TRUE].linked
        BY <3>1, TextUpdates
      <3> QED
        BY <3>1, <3>3, <3>4
    <2>4. CASE u = t /\ WriteRow(t)
      <3>1. copy[t] \in Value /\ row[t].text # "answer"
        BY <2>4 DEF WriteRow, HistoryInv, TextFits, TaskInv, TaskTypes, TaskFits, LiveIsRunning, Alive
      <3>2. PICK x \in {"empty", "answer"} :
              row'[t] = row[t] \/ row'[t] = [copy[t] EXCEPT !.linked = TRUE, !.text = x]
        BY <2>4 DEF WriteRow, HistoryInv, TaskInv, TaskTypes
      <3>3. [copy[t] EXCEPT !.linked = TRUE, !.text = x].linked
        BY <3>1, TextUpdates
      <3> QED
        BY <3>1, <3>2, <3>3
    <2>5. CASE u = t /\ FinishRun(t)
      <3>1. faults \in Nat
        BY Counters DEF HistoryInv
      <3>2. row' = [row EXCEPT ![t] = Ended(row[t], run[t])]
        <4>1. PICK seen \in {row[t], mem[t]}, saved \in BOOLEAN :
                /\ faults' = faults + ((IF seen = row[t] THEN 0 ELSE 1) + (IF saved THEN 0 ELSE 1))
                /\ row' = IF saved THEN [row EXCEPT ![t] = Ended(seen, run[t])] ELSE row
          BY <2>5 DEF FinishRun
        <4>2. seen = row[t] /\ saved
          BY <3>1, <4>1
        <4> QED
          BY <4>1, <4>2
      <3>3. row'[t] = Ended(row[t], run[t]) /\ run[t] \in State
        BY <2>5, <3>2 DEF FinishRun, State, HistoryInv, TaskInv, TaskTypes
      <3> QED
        BY <1>1, <3>3, TextUpdates
    <2> QED
      BY <1>7, <2>1, <2>2, <2>3, <2>4, <2>5 DEF GoroutineSteps
  <1>8. CASE Restart
    <2>1. CASE row[t].state = "running"
      <3>1. row'[t] = Ended(row[t], "failed") /\ "failed" \in State
        BY <1>8, <2>1 DEF Restart, State, Terminal
      <3> QED
        BY <1>1, <3>1, TextUpdates
    <2>2. CASE row[t].state # "running"
      BY <1>8, <2>2 DEF Restart
    <2> QED
      BY <2>1, <2>2
  <1>9. ASSUME UNCHANGED row PROVE row'[t] = row[t]
    BY <1>9
  <1> QED
    BY <1>2, <1>3, <1>4, <1>5, <1>6, <1>7, <1>8, <1>9
       DEF Next, CallerSteps, ClientCancels, StepCancels, LeavePending, StartFails, Wait, Wake,
           WaitAborts, Report, ReportFails

-----------------------------------------------------------------------------

\* In every reachable state the texts of a task and its reports fit its row.
THEOREM HistoryInvariant == Spec => []HistoryInv
  BY HistoryInitially, HistoryStep, PTL DEF Spec

\* Every variable of the task manager has its type.
THEOREM TypesOfTasks == Spec => []TypeOK
  <1>1. HistoryInv => TypeOK
    BY DEF HistoryInv, TaskInv, TaskTypes, OtherTypes, Told, TaskFits, MemoryAgrees, TypeOK
  <1> QED
    BY <1>1, HistoryInvariant, PTL

\* Every report of a task says what its row says, unless its final row was lost;
\* without store errors a task is reported once, when it has ended, and only a
\* restart can swallow the report (finishRun and deliverReportLocked).
THEOREM ReportsTellTheTruth == Spec => []ReportsAreFaithful
  <1>1. HistoryInv => ReportsAreFaithful
    BY DEF HistoryInv, ReportFits, ReportsAreFaithful, ReportsTellTheRow, OneReport
  <1> QED
    BY <1>1, HistoryInvariant, PTL

\* The answer and the link to the turn that gave it, once stored, survive every
\* write in which the store does not fail (persistFinalText, finishRun, restarts).
THEOREM AnswersAreKept == Spec => AnswerIsKept
  <1>1. HistoryInv /\ [Next]_vars =>
          [\A t \in Tasks : row[t] # None /\ faults' = faults =>
             /\ row[t].text = "answer" => row'[t].text = "answer"
             /\ row[t].linked => row'[t].linked]_vars
    BY RowsKeepAnswers
  <1> QED
    BY <1>1, HistoryInvariant, PTL DEF Spec, AnswerIsKept
=============================================================================
